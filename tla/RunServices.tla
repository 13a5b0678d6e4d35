---------------------------- MODULE RunServices ----------------------------
(* The services a run is composed of: its MCP session, a blocking client of *)
(* a private event loop on which the tools run, the factsheet provider, and *)
(* the port to calc/, which remembers the last metrics it computed.         *)
(* A run is started by the server (`server`), whose runs share one calc     *)
(* port and whose provider opens a session for each factsheet, or by        *)
(* orchestrator.api.run_analysis, with a port and a session of its own.     *)
EXTENDS Naturals

CONSTANTS Runs,       \* the runs in progress at one time
          Starts,     \* which of them the server may have started: a set of sets
          MaxAudits   \* audits of one run: the first and one after each retry

ASSUME RunServicesAssumption == Starts \subseteq SUBSET Runs /\ MaxAudits \in Nat \ {0}

Shared == "the server's port"
ASSUME SharedAssumption == Shared \notin Runs
Nobody == "nobody"
ASSUME NobodyAssumption == Nobody \notin Runs

\* The main session of a run, and the one opened for its k-th factsheet.
Sessions == Runs \X (0 .. MaxAudits + 1)
Main(r) == <<r, 0>>

VARIABLES
    server,  \* the runs the server started; run_analysis started the others
    pc,      \* [Runs -> the call or step the run is at]
    fate,    \* [Runs -> "open", "verdict", "refused" or "failed"]
    audits,  \* [Runs -> audits begun]
    gaps,    \* [Runs -> the failed calls the run's data-quality gaps name]
    errors,  \* [Runs -> the calls a tool reported an error for]
    port,    \* [port -> the run whose metrics it remembers]
    audited, \* [Runs -> the runs whose metrics its audits were given]
    loop,    \* [Sessions -> state of the session's event loop]
    stop,    \* [Sessions -> close() has set the stop event]
    held,    \* [Sessions -> the constructor returned it to the run]
    wait     \* [Sessions -> what the run's thread waits for in it]

run == <<server, pc, fate, audits, gaps, errors, port, audited>>
vars == <<server, pc, fate, audits, gaps, errors, port, audited, loop, stop, held, wait>>

Calls == {"scope", "section", "valuation", "factsheet", "audit"}
After == [scope |-> "section", section |-> "valuation", valuation |-> "factsheet",
          factsheet |-> "compute", audit |-> "attach"]
PortOf(r) == IF r \in server THEN Shared ELSE r

\* The provider opens its own session unless it was given a client.
OwnSession(r) == pc[r] \in {"factsheet", "audit"} /\ r \in server
Using(r) == IF OwnSession(r) THEN <<r, 1 + audits[r]>> ELSE Main(r)

Init == /\ server \in Starts
        /\ pc = [r \in Runs |-> "scope"]
        /\ fate = [r \in Runs |-> "open"]
        /\ audits = [r \in Runs |-> 0]
        /\ gaps = [r \in Runs |-> {}]
        /\ errors = [r \in Runs |-> {}]
        /\ port = [p \in {Shared} \cup Runs |-> Nobody]
        /\ audited = [r \in Runs |-> {}]
        /\ loop = [s \in Sessions |-> "unborn"]
        /\ stop = [s \in Sessions |-> FALSE]
        /\ held = [s \in Sessions |-> FALSE]
        /\ wait = [s \in Sessions |-> "nothing"]

-----------------------------------------------------------------------------
\* The run's thread.

\* Mutant of Finish: the session is closed after a result only.
Finish_NoFinally(r, how, wait1) ==
    LET shut == held[Main(r)] /\ how = "verdict" IN
    /\ fate' = [fate EXCEPT ![r] = how]
    /\ pc' = [pc EXCEPT ![r] = IF shut THEN "closing" ELSE "ended"]
    /\ stop' = [stop EXCEPT ![Main(r)] = shut]
    /\ wait' = [wait1 EXCEPT ![Main(r)] = IF shut THEN "join" ELSE "nothing"]
    /\ UNCHANGED <<server, held, audits, port>>

\* The `finally` of the runner: close() asks the loop to stop and joins its
\* thread. A run that never got its main session has nothing to close.
\* `wait1` is `wait` after the step that ends the run.
Finish(r, how, wait1) ==
    LET m == Main(r) IN
    /\ fate' = [fate EXCEPT ![r] = how]
    /\ pc' = [pc EXCEPT ![r] = IF held[m] THEN "closing" ELSE "ended"]
    /\ stop' = [stop EXCEPT ![m] = held[m]]
    /\ wait' = [wait1 EXCEPT ![m] = IF held[m] THEN "join" ELSE "nothing"]
    /\ UNCHANGED <<server, held, audits, port>>

Open(r) ==
    LET s == Using(r) IN
    /\ pc[r] \in Calls /\ loop[s] = "unborn"
    /\ loop' = [loop EXCEPT ![s] = "starting"]
    /\ wait' = [wait EXCEPT ![s] = "ready"]
    /\ UNCHANGED <<run, stop, held>>

\* The constructor gives up; the thread it started is left to itself.
OpenTimesOut(r) ==
    /\ pc[r] \in Calls /\ wait[Using(r)] = "ready"
    /\ Finish(r, "failed", [wait EXCEPT ![Using(r)] = "nothing"])
    /\ UNCHANGED <<gaps, errors, audited, loop>>

Request(r) ==
    LET s == Using(r) IN
    /\ pc[r] \in Calls /\ held[s] /\ wait[s] = "nothing"
    /\ loop' = [loop EXCEPT ![s] = IF @ = "idle" THEN "busy" ELSE @]
    /\ wait' = [wait EXCEPT ![s] = "answer"]
    /\ UNCHANGED <<run, stop, held>>

\* Mutant of Tolerated: the section loop catches every exception.
Tolerated_Any(call, out) == call = "section" /\ out # "ok"

\* Mutant of Noted: the error is skipped without a word.
Noted_Nothing(call, out) == {}

\* What a refused call does to the run: a section is a gap, anything else ends it.
Tolerated(call, out) == call = "section" /\ out = "error"
Noted(call, out) == IF Tolerated(call, out) THEN {call} ELSE {}

\* A call has ended with `out`: "ok", "error" (McpToolError), or "fault" (any
\* other exception, TimeoutError included). The provider closes its session
\* whatever happened; the run goes on, or on to its own `finally`, after that.
CallEnds(r, out) ==
    LET s == Using(r)
        call == pc[r]
        goesOn == out = "ok" \/ Tolerated(call, out)
        how == IF call = "scope" /\ out = "error" THEN "refused" ELSE "failed"
    IN
    /\ errors' = [errors EXCEPT ![r] = IF out = "error" THEN @ \cup {call} ELSE @]
    /\ gaps' = [gaps EXCEPT ![r] = @ \cup Noted(call, out)]
    /\ IF OwnSession(r)
       THEN /\ stop' = [stop EXCEPT ![s] = TRUE]
            /\ wait' = [wait EXCEPT ![s] = "join"]
            /\ fate' = [fate EXCEPT ![r] = IF goesOn THEN @ ELSE how]
            /\ UNCHANGED <<server, pc, held, audits, port>>
       ELSE IF goesOn
       THEN /\ pc' = [pc EXCEPT ![r] = After[call]]
            /\ wait' = [wait EXCEPT ![s] = "nothing"]
            /\ UNCHANGED <<server, fate, stop, held, audits, port>>
       ELSE Finish(r, how, wait)
    /\ UNCHANGED audited

\* Mutant of CallTimesOut: `.result()` without a limit.
CallTimesOut_Never(r) == FALSE

\* `.result(timeout)` gives up. The tool is not told: it works on.
CallTimesOut(r) ==
    /\ pc[r] \in Calls /\ wait[Using(r)] = "answer"
    /\ CallEnds(r, "fault")
    /\ UNCHANGED loop

\* join() returns when the thread has ended, or after ten seconds.
Joined(r) ==
    /\ pc[r] \in Calls /\ OwnSession(r) /\ wait[Using(r)] = "join"
    /\ LET freed == [wait EXCEPT ![Using(r)] = "nothing"] IN
       IF fate[r] = "open"
       THEN /\ pc' = [pc EXCEPT ![r] = After[@]]
            /\ wait' = freed
            /\ UNCHANGED <<server, fate, audits, port, stop, held>>
       ELSE Finish(r, fate[r], freed)
    /\ UNCHANGED <<gaps, errors, audited, loop>>

Closed(r) ==
    /\ pc[r] = "closing"
    /\ pc' = [pc EXCEPT ![r] = "ended"]
    /\ wait' = [wait EXCEPT ![Main(r)] = "nothing"]
    /\ UNCHANGED <<server, fate, audits, gaps, errors, port, audited, loop, stop, held>>

\* calc.compute_metrics(factsheet), between the decision's factsheet and the
\* first audit's: the port now remembers the metrics of this run.
Compute(r) ==
    /\ pc[r] = "compute"
    /\ port' = [port EXCEPT ![PortOf(r)] = r]
    /\ pc' = [pc EXCEPT ![r] = "audit"]
    /\ audits' = [audits EXCEPT ![r] = 1]
    /\ UNCHANGED <<server, fate, gaps, errors, audited, loop, stop, held, wait>>

\* The provider adds what the port remembers to the factsheet the auditor
\* gets; the gate then asks for another round or is done.
Attach(r) ==
    /\ pc[r] = "attach"
    /\ audited' = [audited EXCEPT ![r] = @ \cup {port[PortOf(r)]}]
    /\ \/ /\ audits[r] < MaxAudits
          /\ audits' = [audits EXCEPT ![r] = @ + 1]
          /\ pc' = [pc EXCEPT ![r] = "audit"]
          /\ UNCHANGED <<server, fate, stop, held, wait, port>>
       \/ Finish(r, "verdict", wait)
    /\ UNCHANGED <<gaps, errors, loop>>

-----------------------------------------------------------------------------
\* The event loop of a session, where the tools run: one at a time, each to
\* its end before the loop does anything else.

Ready(s) ==
    /\ loop[s] = "starting"
    /\ loop' = [loop EXCEPT ![s] = "idle"]
    /\ held' = [held EXCEPT ![s] = wait[s] = "ready"]
    /\ wait' = [wait EXCEPT ![s] = "nothing"]
    /\ UNCHANGED <<run, stop>>

\* The session cannot be started: the constructor raises.
OpenFails(s) ==
    /\ loop[s] = "starting"
    /\ loop' = [loop EXCEPT ![s] = "dead"]
    /\ IF wait[s] = "ready"
       THEN /\ Finish(s[1], "failed", [wait EXCEPT ![s] = "nothing"])
            /\ UNCHANGED <<gaps, errors, audited>>
       ELSE UNCHANGED <<run, stop, held, wait>>

\* The session's task ends by itself; the error it keeps is not looked at again,
\* and requests to the stopped loop are answered by nobody.
Dies(s) ==
    /\ loop[s] = "idle" /\ ~stop[s]
    /\ loop' = [loop EXCEPT ![s] = "dead"]
    /\ UNCHANGED <<run, stop, held, wait>>

\* The tool returns, refuses (ValueError, KeyError, NotImplementedError) or
\* raises something else; nobody takes the answer of a call given up.
Answer(s, out) ==
    /\ loop[s] = "busy"
    /\ loop' = [loop EXCEPT ![s] = "idle"]
    /\ IF wait[s] = "answer" THEN CallEnds(s[1], out)
                             ELSE UNCHANGED <<run, stop, held, wait>>

Stops(s) ==
    /\ loop[s] = "idle" /\ stop[s]
    /\ loop' = [loop EXCEPT ![s] = "over"]
    /\ UNCHANGED <<run, stop, held, wait>>

AllEnded == \A r \in Runs : pc[r] = "ended"

Thread(r) == \/ Open(r) \/ OpenTimesOut(r) \/ Request(r) \/ CallTimesOut(r)
             \/ Joined(r) \/ Closed(r) \/ Compute(r) \/ Attach(r)

Next == \/ \E r \in Runs : Thread(r)
        \/ \E s \in Sessions : \/ Ready(s) \/ OpenFails(s) \/ Dies(s) \/ Stops(s)
                               \/ \E out \in {"ok", "error", "fault"} : Answer(s, out)
        \/ AllEnded /\ UNCHANGED vars

\* A thread goes on, its waits time out, and an idle loop sees its stop event.
\* Nothing is assumed of the tools: one may run for ever.
Fairness == /\ \A r \in Runs : WF_vars(Thread(r))
            /\ \A s \in Sessions : WF_vars(Stops(s))

Spec == Init /\ [][Next]_vars /\ Fairness

-----------------------------------------------------------------------------
\* A run that ends with a verdict names every tool call that failed among its
\* gaps: nothing the analysis lacks is lost in the error paths of the calls.
NothingSilentlyMissing ==
    \A r \in Runs : fate[r] = "verdict" => errors[r] \subseteq gaps[r]

\* While a tool works on for a call the run has given up, the run makes no
\* further use of the session's loop, which would answer nobody: it is over.
AbandonedMeansOver ==
    \A s \in Sessions :
        (loop[s] = "busy" /\ wait[s] # "answer" /\ held[s]) => fate[s[1]] \in {"failed", "refused"}

\* Every audit of a run is given the metrics of that run, so that the derived
\* facts its claims cite resolve (CalcPort's docstring).
OwnMetricsAudited == \A r \in Runs : audited[r] \subseteq {r}

\* Every run ends with an outcome, also when tools hang, loops die or sessions
\* do not start: no wait of the client is without a limit.
RunsConclude == \A r \in Runs : <>(pc[r] = "ended" /\ fate[r] # "open")

\* Every session a run was given ends after the run: no loop is left waiting
\* for a stop event, whatever error path the run took, unless its tool hangs.
SessionsEnd ==
    \A s \in Sessions :
        \/ <>[](loop[s] = "busy")
        \/ held[s] ~> loop[s] \in {"over", "dead"}
=============================================================================
