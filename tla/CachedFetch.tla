---------------------------- MODULE CachedFetch ----------------------------
(***************************************************************************)
(* data/ingest: threads of several processes fetch documents through one   *)
(* cache directory (cache.py), each process with its own rate limiter      *)
(* (rate_limit.py), with the retries of edgar_client._fetch.  A key is     *)
(* fetched for SEC, for a caller that swallows failures (frames, SIC       *)
(* pages), or from the market provider (FinnhubClient._get).               *)
(***************************************************************************)
EXTENDS Integers, FiniteSets

CONSTANTS
    Threads,        \* threads that fetch
    Procs,          \* their processes
    ProcessOf,      \* thread -> its process
    Wants,          \* thread -> the keys it may ask for
    Keys,           \* cache keys
    Kind,           \* key -> "document" (immutable), "index", "frame" or "quote"
    MaxAttempts,    \* len(EDGAR_BACKOFF_SECONDS) + 1
    MaxVersions,    \* bound: versions the world publishes of a key
    MaxCalls,       \* bound: calls of one thread
    MaxCrashes      \* bound: processes that are killed

VARIABLES
    thread,     \* the thread's step, key, attempt and payload
    entry,      \* key -> the cache file of that name
    temp,       \* <<process, key>> -> the temporary file of that name
    aged,       \* keys whose entry is older than its ttl
    world,      \* key -> the version a server would answer with
    limiter,    \* process -> the thread that holds its limiter's lock, if any
    crashes

vars == <<thread, entry, temp, aged, world, limiter, crashes>>
files == <<entry, temp, aged>>

NoThread == "nobody"
Partial == 0        \* opened for writing and not written to its end
Torn == -1          \* the bytes of two writers
Versions == 1 .. MaxVersions

ASSUME FetchAssumption ==
    /\ Threads # {} /\ NoThread \notin Threads
    /\ ProcessOf \in [Threads -> Procs]
    /\ Wants \in [Threads -> SUBSET Keys]
    /\ Kind \in [Keys -> {"document", "index", "frame", "quote"}]
    /\ MaxAttempts \in Nat \ {0}
    /\ MaxVersions \in Nat \ {0} /\ {MaxCalls, MaxCrashes} \subseteq Nat

\* What a call ends with: a payload, the neutral value of a caller that
\* swallows failures, or an exception.
Results == {"answered", "neutral", "refused", "broken", "corrupt"}
Steps == {"idle", "asking", "hit", "locking", "waiting", "sending", "backoff",
          "opening", "writing", "renaming", "unlinking", "dead"} \cup Results

Idle == [pc |-> "idle", key |-> CHOOSE k \in Keys : TRUE, attempt |-> 0, got |-> 0,
         calls |-> 0, after |-> "answered"]

\* A file is its bytes and the threads that have it open for writing.  A
\* rename moves it, writers and all.
File(bytes, open) == [bytes |-> bytes, open |-> open]
NoFile == File(-2, {})

\* mutant: the temporary file's name does not carry the process
Path_NoPid(t) == <<CHOOSE p \in Procs : TRUE, thread[t].key>>

Path(t) == <<ProcessOf[t], thread[t].key>>
Sec(k) == Kind[k] # "quote"

Init ==
    /\ thread = [t \in Threads |-> Idle]
    /\ entry = [k \in Keys |-> NoFile]
    /\ temp = [n \in Procs \X Keys |-> NoFile]
    /\ aged = {}
    /\ world = [k \in Keys |-> 1]
    /\ limiter = [p \in Procs |-> NoThread]
    /\ crashes = 0

-----------------------------------------------------------------------------
(* The world: a filer files, a quote moves, an entry outlives its ttl.     *)

\* Quotes are not told apart.
Publish(k) ==
    /\ Kind[k] \in {"index", "frame"}
    /\ world[k] < MaxVersions
    /\ world' = [world EXCEPT ![k] = @ + 1]
    /\ UNCHANGED <<thread, files, limiter, crashes>>

Age(k) ==
    /\ Kind[k] # "document"
    /\ entry[k] # NoFile /\ k \notin aged
    /\ aged' = aged \cup {k}
    /\ UNCHANGED <<thread, entry, temp, world, limiter, crashes>>

-----------------------------------------------------------------------------
(* cached_fetch and FinnhubClient._get, one thread.                        *)

Goto(t, pc) == thread' = [thread EXCEPT ![t].pc = pc]

\* The call returns or raises; what is left of it is the payload returned.
End(t, result) ==
    thread' = [thread EXCEPT ![t] = [Idle EXCEPT !.pc = result, !.calls = thread[t].calls,
                                         !.got = IF result = "answered" THEN thread[t].got ELSE 0]]

\* How a failure before the cache is written ends, by kind of caller.
Failed(t, reason) == IF Kind[thread[t].key] \in {"frame", "quote"} THEN "neutral" ELSE reason

Call(t, k) ==
    /\ thread[t].pc \in {"idle"} \cup Results
    /\ thread[t].calls < MaxCalls
    /\ k \in Wants[t]
    /\ thread' = [thread EXCEPT ![t] = [Idle EXCEPT !.pc = "asking", !.key = k,
                                                    !.calls = thread[t].calls + 1]]
    /\ UNCHANGED <<files, world, limiter, crashes>>

\* get and get_fresh: the age is looked at first, the file read after.
Look(t) ==
    /\ thread[t].pc = "asking"
    /\ LET k == thread[t].key
       IN  IF entry[k] # NoFile /\ k \notin aged THEN Goto(t, "hit")
           ELSE Goto(t, IF Sec(k) THEN "locking" ELSE "sending")
    /\ UNCHANGED <<files, world, limiter, crashes>>

\* A hit that does not parse: the market client fetches again.
Read(t) ==
    /\ thread[t].pc = "hit"
    /\ LET found == entry[thread[t].key].bytes
       IN  IF found \in Versions
           THEN thread' = [thread EXCEPT ![t].got = found, ![t].pc = "answered"]
           ELSE IF Sec(thread[t].key) THEN End(t, Failed(t, "corrupt")) ELSE Goto(t, "sending")
    /\ UNCHANGED <<files, world, limiter, crashes>>

TakeLock(t) ==
    /\ thread[t].pc = "locking"
    /\ limiter[ProcessOf[t]] = NoThread
    /\ limiter' = [limiter EXCEPT ![ProcessOf[t]] = t]
    /\ Goto(t, "waiting")
    /\ UNCHANGED <<files, world, crashes>>

\* mutant: the lock is not given back
Grant_Keeps(t) ==
    /\ thread[t].pc = "waiting"
    /\ thread' = [thread EXCEPT ![t].pc = "sending", ![t].attempt = @ + 1]
    /\ UNCHANGED <<files, world, limiter, crashes>>

\* Still under the lock the thread sleeps until the bucket has a token, which
\* comes with time: how many there are is left out.
Grant(t) ==
    /\ thread[t].pc = "waiting"
    /\ limiter' = [limiter EXCEPT ![ProcessOf[t]] = NoThread]
    /\ thread' = [thread EXCEPT ![t].pc = "sending", ![t].attempt = @ + 1]
    /\ UNCHANGED <<files, world, crashes>>

Answer(t) ==
    /\ thread[t].pc = "sending"
    /\ thread' = [thread EXCEPT ![t].pc = "opening", ![t].got = world[thread[t].key]]
    /\ UNCHANGED <<files, world, limiter, crashes>>

\* 429 or 503: retried after a pause, until the schedule is exhausted.
Busy(t) ==
    /\ thread[t].pc = "sending"
    /\ IF Sec(thread[t].key) /\ thread[t].attempt < MaxAttempts THEN Goto(t, "backoff")
       ELSE End(t, Failed(t, "refused"))
    /\ UNCHANGED <<files, world, limiter, crashes>>

Retry(t) ==
    /\ thread[t].pc = "backoff"
    /\ Goto(t, "locking")
    /\ UNCHANGED <<files, world, limiter, crashes>>

\* Any other status, and a connection that fails, raise at once.
Refuse(t) ==
    /\ thread[t].pc = "sending"
    /\ End(t, Failed(t, "refused"))
    /\ UNCHANGED <<files, world, limiter, crashes>>

-----------------------------------------------------------------------------
(* cache.put: write_bytes, os.replace, unlink; the name of the temporary   *)
(* file carries the process, not the thread.                               *)

Open(t) ==
    /\ thread[t].pc = "opening"
    /\ temp' = [temp EXCEPT ![Path(t)] = File(Partial, @.open \cup {t})]
    /\ Goto(t, "writing")
    /\ UNCHANGED <<entry, aged, world, limiter, crashes>>

\* Two writers of different payloads may leave bytes of both, and a shorter payload
\* leaves the tail of a longer one.
Bytes(f, t) ==
    {thread[t].got} \cup
    (IF \/ f.bytes \notin {Partial, thread[t].got}
        \/ \E u \in f.open \ {t} : thread[u].got # thread[t].got
     THEN {Torn} ELSE {})

Written(f, t) ==
    IF t \in f.open THEN {File(bytes, f.open \ {t}) : bytes \in Bytes(f, t)} ELSE {f}

\* The file opened still has the temporary name, or a rival has made it the entry.  If
\* the name is gone, what is written is lost.
Write(t) ==
    /\ thread[t].pc = "writing"
    /\ \E f \in Written(temp[Path(t)], t) : temp' = [temp EXCEPT ![Path(t)] = f]
    /\ \E f \in Written(entry[thread[t].key], t) : entry' = [entry EXCEPT ![thread[t].key] = f]
    /\ Goto(t, "renaming")
    /\ UNCHANGED <<aged, world, limiter, crashes>>

\* The temporary file may be gone: FileNotFoundError, also for a caller that
\* would swallow a failure of the provider (put is outside its try).
Raised(t) == IF Kind[thread[t].key] = "frame" THEN "neutral" ELSE "broken"

Rename(t) ==
    /\ thread[t].pc = "renaming"
    /\ IF temp[Path(t)] = NoFile
       THEN /\ thread' = [thread EXCEPT ![t].pc = "unlinking", ![t].after = Raised(t)]
            /\ UNCHANGED <<entry, temp, aged>>
       ELSE /\ entry' = [entry EXCEPT ![thread[t].key] = temp[Path(t)]]
            /\ temp' = [temp EXCEPT ![Path(t)] = NoFile]
            /\ aged' = aged \ {thread[t].key}
            /\ thread' = [thread EXCEPT ![t].pc = "unlinking", ![t].after = "answered"]
    /\ UNCHANGED <<world, limiter, crashes>>

\* finally: whatever now has the name of the temporary file goes.
Unlink(t) ==
    /\ thread[t].pc = "unlinking"
    /\ temp' = [temp EXCEPT ![Path(t)] = NoFile]
    /\ End(t, thread[t].after)
    /\ UNCHANGED <<entry, aged, world, limiter, crashes>>

\* A killed process leaves its files as they are.  The next one has another
\* pid, so that it never meets their names again, and a limiter of its own.
Crash(p) ==
    /\ crashes < MaxCrashes
    /\ crashes' = crashes + 1
    /\ thread' = [t \in Threads |->
                     IF ProcessOf[t] # p THEN thread[t]
                     ELSE [Idle EXCEPT !.calls = thread[t].calls]]
    /\ temp' = [n \in Procs \X Keys |-> IF n[1] = p THEN NoFile ELSE temp[n]]
    /\ entry' = [k \in Keys |-> [entry[k] EXCEPT !.open = @ \ {t \in Threads : ProcessOf[t] = p}]]
    /\ limiter' = [limiter EXCEPT ![p] = NoThread]
    /\ UNCHANGED <<aged, world>>

Step(t) ==
    \/ Look(t) \/ Read(t) \/ TakeLock(t) \/ Grant(t)
    \/ Answer(t) \/ Busy(t) \/ Refuse(t) \/ Retry(t)
    \/ Open(t) \/ Write(t) \/ Rename(t) \/ Unlink(t)

Next ==
    \/ \E t \in Threads : Step(t) \/ \E k \in Keys : Call(t, k)
    \/ \E k \in Keys : Publish(k) \/ Age(k)
    \/ \E p \in Procs : Crash(p)

Spec == Init /\ [][Next]_vars

\* Servers answer or time out, pauses end and tokens come back.  A lock that
\* is free again and again is given to each who waits for it.
FairSpec ==
    /\ Spec
    /\ \A t \in Threads : WF_vars(Step(t)) /\ SF_vars(TakeLock(t))

-----------------------------------------------------------------------------
(* Properties.                                                             *)

\* An entry is sound when it is absent, or whole and closed: no write can reach it.
Sound(k) == entry[k] = NoFile \/ (entry[k].bytes \in Versions /\ entry[k].open = {})

\* Two threads of one process are storing the key at once.
Contested(k) ==
    \E t, u \in Threads :
        /\ t # u /\ ProcessOf[t] = ProcessOf[u]
        /\ \A x \in {t, u} : thread[x].pc \in {"writing", "renaming"} /\ thread[x].key = k

\* Nothing but a rival of the same process can damage an entry.  Neither another process
\* that stores the same key, nor one that is killed half way, nor a retry, nor a refresh
\* of what has aged leaves a file that is truncated, torn or still being written to
\* where a whole one was, or none (put's temporary name and rename).
OnlyRivalsTear == [][\A k \in Keys : Sound(k) /\ ~Sound(k)' => Contested(k)]_vars

\* Every call ends, whatever the servers answer and whoever waits for a slot: no thread
\* is in a call for ever.
CallsEnd == \A t \in Threads : []<>(thread[t].pc \in {"idle"} \cup Results)

(* What the repository says of the cache and the code does not do.         *)

\* "Either the old entry or the new one, never a truncated file that would be served as
\* if it were real" (cache.py).  Violated: the temporary name carries the process and not
\* the thread, so of two threads that store one key the first to rename publishes what
\* the second has just truncated.
EntriesWhole == \A k \in Keys : entry[k] # NoFile => entry[k].bytes \in Versions
=============================================================================
