------------------------------ MODULE RunServer ------------------------------
(***************************************************************************)
(* The HTTP server's run registry and event feeds                          *)
(* (orchestrator/events.py, orchestrator/server.py) with the clients that  *)
(* follow a run: the browser of web/lib/api.ts and plain SSE readers.      *)
(* One worker thread per run publishes events; one event loop serves every *)
(* stream; HTTP fetches run on other threads and see the result store.     *)
(***************************************************************************)
EXTENDS Integers, FiniteSets, SequencesExt

CONSTANTS
    Runs,           \* run ids uuid4 may draw
    Browsers,       \* clients that close their stream at the run's outcome
    Readers,        \* clients that read a stream until the server ends it
    MaxRuns,        \* MAX_RUNS: feeds the registry keeps before it evicts
    Lanes,          \* progress events a runner may publish
    MaxEvents,      \* bound: a runner publishes while a feed is shorter
    MaxStreams      \* bound: clients that open a stream

ASSUME RunServerAssumption ==
    /\ MaxRuns \in Nat \ {0}
    /\ MaxEvents \in Nat
    /\ MaxStreams \in Nat
    /\ Runs # {} /\ IsFiniteSet(Runs)
    /\ Lanes \cap {"running", "done", "failed"} = {}
    /\ Browsers \cap Readers = {}

Clients  == Browsers \cup Readers
Outcomes == {"done", "failed"}             \* final `run` events
Events   == Lanes \cup {"running"} \cup Outcomes
Results  == {"none", "running", "done", "preliminary", "failed"}
Phases   == {"new", "created", "queued", "running", "settled", "announced", "ended"}
Views    == {"nothing", "verdict", "preliminary", "error"}

VARIABLES
    registered,     \* keys of _FEEDS
    created,        \* _Feed.created, as a creation stamp
    entries,        \* _Feed.events
    closed,         \* _Feed.closed
    phase,          \* where start_run and its worker thread are for a run
    result,         \* _RESULTS[run]["status"], "none" before it is recorded
    client,         \* each client's stream: see Streams
    emitted,        \* history: what the run's worker published
    peak            \* history: the most runs that were in progress at once

vars   == <<registered, created, entries, closed, phase, result, client, emitted, peak>>
server == <<registered, created, entries, closed, phase, result, emitted, peak>>

InProgress == {"created", "queued", "running", "settled", "announced"}

\* A client's stream: where subscribe is for it, the run it follows, the events
\* it received, the batch copied for it, why it ended and what it shows.
Streams ==
    [pc : {"idle", "admitted", "poll", "locked", "deliver", "ended", "shown"},
     of : Runs, got : Seq(Events), batch : Seq(Events),
     why : {"none", "outcome", "eof", "refused", "dropped"},
     sees : Views]

TypeOK ==
    /\ registered \subseteq Runs
    /\ created \in [Runs -> Nat]
    /\ entries \in [Runs -> Seq(Events)]
    /\ closed \in [Runs -> BOOLEAN]
    /\ phase \in [Runs -> Phases]
    /\ result \in [Runs -> Results]
    /\ client \in [Clients -> Streams]
    /\ emitted \in [Runs -> Seq(Events)]
    /\ peak \in Nat

NewClient == [pc |-> "idle", of |-> CHOOSE r \in Runs : TRUE, got |-> <<>>,
              batch |-> <<>>, why |-> "none", sees |-> "nothing"]

Init ==
    /\ registered = {}
    /\ created = [r \in Runs |-> 0]
    /\ entries = [r \in Runs |-> <<>>]
    /\ closed = [r \in Runs |-> FALSE]
    /\ phase = [r \in Runs |-> "new"]
    /\ result = [r \in Runs |-> "none"]
    /\ client = [c \in Clients |-> NewClient]
    /\ emitted = [r \in Runs |-> <<>>]
    /\ peak = 0

-----------------------------------------------------------------------------
(* The registry and the run's worker thread.                               *)

Running == {r \in Runs : phase[r] \in InProgress}

\* Broken variants of the next definition, used to show that the properties
\* can fail, carry its name with a suffix.
Evicted_Oldest ==
    IF Cardinality(registered) < MaxRuns THEN {}
    ELSE {r \in registered : \A q \in registered : created[r] <= created[q]}

Evicted_OffByOne ==
    IF Cardinality(registered) <= MaxRuns THEN {}
    ELSE {r \in registered : closed[r] /\ \A q \in registered :
              closed[q] => created[r] <= created[q]}

\* What new_run forgets: the oldest closed feed, once the registry is full.
Evicted ==
    IF Cardinality(registered) < MaxRuns THEN {}
    ELSE {r \in registered : closed[r] /\ \A q \in registered :
              closed[q] => created[r] <= created[q]}

NewRun(r) ==
    /\ phase[r] = "new"
    /\ registered' = (registered \ Evicted) \cup {r}
    /\ created' = [created EXCEPT ![r] =
           Cardinality({q \in Runs : phase[q] # "new"})]
    /\ phase' = [phase EXCEPT ![r] = "created"]
    /\ peak' = IF Cardinality(Running) + 1 > peak THEN Cardinality(Running) + 1 ELSE peak
    /\ UNCHANGED <<entries, closed, result, client, emitted>>

RecordRun(r) ==
    /\ phase[r] = "created"
    /\ result' = [result EXCEPT ![r] = "running"]
    /\ phase' = [phase EXCEPT ![r] = "queued"]
    /\ UNCHANGED <<registered, created, entries, closed, client, emitted, peak>>

LockFree_Ignored(r) == TRUE

\* feed.lock is held by the stream of a client between its two reads.
LockFree(r) == \A c \in Clients : client[c].pc = "locked" => client[c].of # r

Emit(r, e) ==
    /\ LockFree(r)
    /\ entries' = IF r \in registered
                  THEN [entries EXCEPT ![r] = Append(@, e)] ELSE entries
    /\ emitted' = [emitted EXCEPT ![r] = Append(@, e)]

EmitRunning(r) ==
    /\ phase[r] = "queued"
    /\ Emit(r, "running")
    /\ phase' = [phase EXCEPT ![r] = "running"]
    /\ UNCHANGED <<registered, created, closed, result, client, peak>>

RunnerEmits(r) ==
    /\ phase[r] = "running"
    /\ Len(emitted[r]) < MaxEvents
    /\ \E e \in Lanes : Emit(r, e)
    /\ UNCHANGED <<registered, created, closed, phase, result, client, peak>>

RunnerReturns_Uncaught(r) ==
    /\ phase[r] = "running"
    /\ \E o \in {"done", "failed"} :
           /\ result' = IF o = "failed" THEN result ELSE [result EXCEPT ![r] = o]
           /\ phase' = [phase EXCEPT ![r] = IF o = "failed" THEN "dead" ELSE "settled"]
    /\ UNCHANGED <<registered, created, entries, closed, client, emitted, peak>>

\* The runner returns a verdict or a preliminary report, or raises: the result
\* is recorded before anything is published about it.
RunnerReturns(r) ==
    /\ phase[r] = "running"
    /\ \E o \in {"done", "preliminary", "failed"} : result' = [result EXCEPT ![r] = o]
    /\ phase' = [phase EXCEPT ![r] = "settled"]
    /\ UNCHANGED <<registered, created, entries, closed, client, emitted, peak>>

EmitOutcome_AlwaysDone(r) ==
    /\ phase[r] = "settled"
    /\ Emit(r, "done")
    /\ phase' = [phase EXCEPT ![r] = "announced"]
    /\ UNCHANGED <<registered, created, closed, result, client, peak>>

EmitOutcome_Repeated(r) ==
    /\ phase[r] \in {"settled", "announced"}
    /\ Len(emitted[r]) < 5
    /\ Emit(r, IF result[r] = "failed" THEN "failed" ELSE "done")
    /\ phase' = [phase EXCEPT ![r] = "announced"]
    /\ UNCHANGED <<registered, created, closed, result, client, peak>>

EmitOutcome(r) ==
    /\ phase[r] = "settled"
    /\ Emit(r, IF result[r] = "failed" THEN "failed" ELSE "done")
    /\ phase' = [phase EXCEPT ![r] = "announced"]
    /\ UNCHANGED <<registered, created, closed, result, client, peak>>

\* events.close takes no lock: it may fall between the two reads of a stream.
Close(r) ==
    /\ phase[r] = "announced"
    /\ closed' = IF r \in registered THEN [closed EXCEPT ![r] = TRUE] ELSE closed
    /\ phase' = [phase EXCEPT ![r] = "ended"]
    /\ UNCHANGED <<registered, created, entries, result, client, emitted, peak>>

-----------------------------------------------------------------------------
(* A client's stream. The event loop runs one stream at a time, so no other *)
(* stream moves while one holds a feed's lock.                              *)

LoopFree == \A c \in Clients : client[c].pc # "locked"

\* GET /events: 404 when the feed is not registered (any more).
Subscribe(c, r) ==
    /\ LoopFree
    /\ client[c].pc = "idle"
    /\ Cardinality({d \in Clients : client[d].pc # "idle"}) < MaxStreams
    /\ phase[r] \notin {"new", "created"}
    /\ \/ /\ r \in registered
          /\ client' = [client EXCEPT ![c] = [@ EXCEPT !.pc = "admitted", !.of = r]]
       \/ /\ r \notin registered
          /\ client' = [client EXCEPT ![c] =
                 [@ EXCEPT !.pc = "ended", !.of = r, !.why = "refused"]]
    /\ UNCHANGED server

\* The response body starts later and looks the feed up again.
Attach(c) ==
    /\ LoopFree
    /\ client[c].pc = "admitted"
    /\ \/ /\ client[c].of \in registered
          /\ client' = [client EXCEPT ![c].pc = "poll"]
       \/ /\ client[c].of \notin registered
          /\ client' = [client EXCEPT ![c] = [@ EXCEPT !.pc = "ended", !.why = "refused"]]
    /\ UNCHANGED server

ReadBatch_FromStart(c) ==
    /\ LoopFree
    /\ client[c].pc = "poll"
    /\ LET log == entries[client[c].of]
       IN  client' = [client EXCEPT ![c] = [@ EXCEPT !.pc = "locked", !.batch = log]]
    /\ UNCHANGED server

ReadBatch(c) ==
    /\ LoopFree
    /\ client[c].pc = "poll"
    /\ LET log == entries[client[c].of]
       IN  client' = [client EXCEPT ![c] = [@ EXCEPT !.pc = "locked",
               !.batch = SubSeq(log, Len(client[c].got) + 1, Len(log))]]
    /\ UNCHANGED server

ReadClosed(c) ==
    /\ client[c].pc = "locked"
    /\ \/ /\ client[c].batch # <<>>
          /\ client' = [client EXCEPT ![c].pc = "deliver"]
       \/ /\ client[c].batch = <<>> /\ closed[client[c].of]
          /\ client' = [client EXCEPT ![c] = [@ EXCEPT !.pc = "ended", !.why = "eof"]]
       \/ /\ client[c].batch = <<>> /\ ~closed[client[c].of]
          /\ client' = [client EXCEPT ![c].pc = "poll"]
    /\ UNCHANGED server

\* One event of the batch reaches the client; a browser closes at the outcome.
Deliver(c) ==
    /\ LoopFree
    /\ client[c].pc = "deliver"
    /\ client[c].batch # <<>>
    /\ LET e == Head(client[c].batch)
           rest == Tail(client[c].batch)
           stops == c \in Browsers /\ e \in Outcomes
           next == IF stops THEN "ended" ELSE IF rest = <<>> THEN "poll" ELSE "deliver"
       IN  client' = [client EXCEPT ![c] =
               [@ EXCEPT !.got = Append(client[c].got, e), !.batch = rest, !.pc = next,
                         !.why = IF stops THEN "outcome" ELSE "none"]]
    /\ UNCHANGED server

\* The connection is lost at a point where the stream awaits.
Drop(c) ==
    /\ LoopFree
    /\ client[c].pc \in {"admitted", "poll", "deliver"}
    /\ client' = [client EXCEPT ![c] = [@ EXCEPT !.pc = "ended", !.why = "dropped"]]
    /\ UNCHANGED server

\* GET /runs/{id} as fetchResult reads it: 409 is a preliminary report, 422 an
\* error as is a 404, and any other body, a 202 as well as a 200, is taken for a
\* Verdict.
Page(status) ==
    CASE status = "preliminary" -> "preliminary"
      [] status \in {"failed", "none"} -> "error"
      [] status \in {"done", "running"} -> "verdict"

Fetch(c) ==
    /\ c \in Browsers
    /\ client[c].pc = "ended"
    /\ client' = [client EXCEPT ![c] =
           [@ EXCEPT !.pc = "shown", !.sees = Page(result[client[c].of])]]
    /\ UNCHANGED server

-----------------------------------------------------------------------------
Worker(r) ==
    \/ RecordRun(r)
    \/ EmitRunning(r)
    \/ RunnerReturns(r)
    \/ EmitOutcome(r)
    \/ Close(r)

Stream(c) ==
    \/ Attach(c)
    \/ ReadBatch(c)
    \/ ReadClosed(c)
    \/ Deliver(c)
    \/ Fetch(c)

\* Every run is over and every client that came has its answer.
Quiescent ==
    /\ \A r \in Runs : phase[r] = "ended"
    /\ \A c \in Clients : client[c].pc \in {"idle", IF c \in Browsers THEN "shown" ELSE "ended"}
    /\ UNCHANGED vars

Next ==
    \/ \E r \in Runs : NewRun(r) \/ Worker(r) \/ RunnerEmits(r)
    \/ \E c \in Clients : Stream(c) \/ Drop(c) \/ \E r \in Runs : Subscribe(c, r)
    \/ Quiescent

Spec == Init /\ [][Next]_vars

\* A worker thread that waits for feed.lock gets it: a stream releases it and
\* sleeps 50 ms between polls. A runner returns: its model calls time out.
FairSpec ==
    /\ Spec
    /\ \A r \in Runs : WF_vars(RecordRun(r)) /\ WF_vars(RunnerReturns(r)) /\ WF_vars(Close(r))
    /\ \A r \in Runs : SF_vars(EmitRunning(r)) /\ SF_vars(EmitOutcome(r))
    /\ \A c \in Clients : SF_vars(Stream(c))

-----------------------------------------------------------------------------
(* Properties.                                                             *)

\* No event a run publishes is lost: eviction (new_run) never forgets the feed
\* of a run whose worker may still emit, although emit silently ignores unknown runs.
NoEventDropped == \A r \in Runs : entries[r] = emitted[r]

\* A client receives the run's events in order, each once, with none skipped,
\* whatever interleaving of emit, batch copies and late subscription happens; and a
\* stream the server ends has delivered the whole history, outcome included:
\* closing without the lock never cuts off an event (subscribe, close).
StreamFaithful ==
    \A c \in Clients :
        /\ IsPrefix(client[c].got, emitted[client[c].of])
        /\ client[c].why = "eof" => /\ client[c].got = emitted[client[c].of]
                                    /\ Last(client[c].got) \in Outcomes

\* Once a client has seen the run's outcome event, the result it will fetch is
\* recorded and agrees with that event (start_run's order of record and emit).
OutcomeSettledWhenAnnounced ==
    \A c \in Clients : \A i \in DOMAIN client[c].got :
        /\ client[c].got[i] = "done" => result[client[c].of] \in {"done", "preliminary"}
        /\ client[c].got[i] = "failed" => result[client[c].of] = "failed"

\* The registry outgrows MAX_RUNS only as far as runs in progress forced it to,
\* although new_run evicts at most one feed per run it adds.
RegistryBounded ==
    Cardinality(registered) <= IF peak > MaxRuns THEN peak ELSE MaxRuns

\* Every browser that subscribes ends up showing something: none is left between its
\* subscription and the page for ever.
ClientsServed == \A c \in Browsers : []<>(client[c].pc \in {"idle", "shown"})

\* What RunPromise sees of a client's stream.
View(stream) ==
    [state |-> IF stream.pc = "idle" THEN "idle"
               ELSE IF stream.pc \in {"ended", "shown"} THEN "over" ELSE "reading",
     of |-> stream.of, got |-> stream.got, sees |-> stream.sees]

\* A run's stream is what RunPromise describes: a log that clients read to its
\* end in order, whatever batches, locks and polls subscribe uses to do so.
Promise == INSTANCE RunPromise
    WITH log <- entries, status <- result, reader <- [c \in Clients |-> View(client[c])]
KeepsPromise == Promise!Spec
=============================================================================
