-------------------------- MODULE RunServicesProofs --------------------------
(***************************************************************************)
(* What RunServices promises for any number of runs, any of them started   *)
(* by the server, and any number of audits.  Two facts carry the argument: *)
(* a thread waits in one session at a time, the one its call uses, and a   *)
(* run whose fate is settled only closes sessions.                         *)
(***************************************************************************)
EXTENDS RunServices, TLAPS

Fates == {"open", "verdict", "refused", "failed"}
Waits == {"nothing", "ready", "answer", "join"}
LoopStates == {"unborn", "starting", "idle", "busy", "dead", "over"}
Steps == Calls \cup {"compute", "attach", "closing", "ended"}

TypeOK ==
    /\ server \subseteq Runs
    /\ pc \in [Runs -> Steps]
    /\ fate \in [Runs -> Fates]
    /\ audits \in [Runs -> 0..MaxAudits]
    /\ gaps \in [Runs -> SUBSET Calls]
    /\ errors \in [Runs -> SUBSET Calls]
    /\ port \in [{Shared} \cup Runs -> Runs \cup {Nobody}]
    /\ audited \in [Runs -> SUBSET (Runs \cup {Nobody})]
    /\ loop \in [Sessions -> LoopStates]
    /\ stop \in [Sessions -> BOOLEAN]
    /\ held \in [Sessions -> BOOLEAN]
    /\ wait \in [Sessions -> Waits]

\* A thread waits in the session its call uses, or joins its main session at the end.
WaitsInOne ==
    \A s \in Sessions : wait[s] # "nothing" =>
        \/ pc[s[1]] \in Calls /\ s = Using(s[1])
        \/ pc[s[1]] = "closing" /\ s = Main(s[1]) /\ wait[s] = "join"

\* A session is asked, and closed, only after its constructor returned it.
HeldFirst ==
    \A s \in Sessions :
        /\ wait[s] \in {"answer", "join"} => held[s]
        /\ held[s] => loop[s] \notin {"unborn", "starting"}

\* A run whose fate is settled is past its last call, or closes that call's session.
SettledOnce ==
    \A r \in Runs : fate[r] # "open" =>
        \/ pc[r] \in {"closing", "ended"}
        \/ /\ pc[r] \in Calls /\ wait[Using(r)] = "join"
           /\ fate[r] \in {"refused", "failed"}

\* Until a run is refused or fails, each of its errors is named among its gaps.
ErrorsNamed ==
    \A r \in Runs : fate[r] \in {"open", "verdict"} => errors[r] \subseteq gaps[r]

IInv == TypeOK /\ WaitsInOne /\ HeldFirst /\ SettledOnce /\ ErrorsNamed /\ AbandonedMeansOver

-----------------------------------------------------------------------------
(* The sessions of a run.                                                  *)

\* A run's main session and the one its call uses are among its sessions.
LEMMA SessionsOfRun ==
    ASSUME NEW r \in Runs, audits[r] \in 0..MaxAudits
    PROVE  /\ Main(r) \in Sessions /\ Using(r) \in Sessions
           /\ Main(r)[1] = r /\ Using(r)[1] = r
BY RunServicesAssumption, SMT DEF Main, Using, Sessions

\* A session belongs to one run.
LEMMA OwnerOfSession ==
    ASSUME NEW s \in Sessions
    PROVE  s[1] \in Runs
BY DEF Sessions

\* The main session is not one opened for a factsheet, and it is used by every
\* call that opens none.
LEMMA UsingOrMain ==
    ASSUME NEW r \in Runs, audits[r] \in 0..MaxAudits
    PROVE  /\ ~OwnSession(r) => Using(r) = Main(r)
           /\ OwnSession(r) => Using(r) # Main(r)
BY RunServicesAssumption, SMT DEF Main, Using

-----------------------------------------------------------------------------
(* Steps.                                                                  *)

LEMMA InitHolds == Init => IInv
BY RunServicesAssumption, SharedAssumption, SMT
   DEF Init, IInv, TypeOK, WaitsInOne, HeldFirst, SettledOnce, ErrorsNamed, AbandonedMeansOver,
       Calls, Steps, Fates, Waits, LoopStates

\* Finish keeps the invariant where the run waits in no session but the one it
\* is about to close, and a verdict is given with every error named and no tool
\* still working.
LEMMA FinishKeeps ==
    ASSUME IInv, NEW r \in Runs, NEW how \in Fates \ {"open"}, NEW wait1 \in [Sessions -> Waits],
           Finish(r, how, wait1),
           gaps' \in [Runs -> SUBSET Calls], errors' \in [Runs -> SUBSET Calls],
           audited' \in [Runs -> SUBSET (Runs \cup {Nobody})],
           loop' \in [Sessions -> LoopStates],
           \A s \in Sessions : loop'[s] = loop[s] \/ loop'[s] \in {"idle", "dead"},
           \A s \in Sessions : s[1] = r /\ s # Main(r) => wait1[s] = "nothing",
           \A s \in Sessions : s[1] # r => wait1[s] = wait[s],
           \A q \in Runs : q # r => errors'[q] = errors[q] /\ gaps'[q] = gaps[q],
           how = "verdict" => errors'[r] \subseteq gaps'[r],
           how = "verdict" => \A s \in Sessions : s[1] = r /\ held[s] => loop'[s] # "busy"
    PROVE  IInv'
<1> USE DEF IInv, TypeOK, Finish
<1>1. Main(r) \in Sessions /\ Main(r)[1] = r
  BY SessionsOfRun
<1>2. TypeOK'
  <2>1. stop' \in [Sessions -> BOOLEAN]
    BY <1>1, Zenon
  <2>2. wait' \in [Sessions -> Waits] /\ pc' \in [Runs -> Steps] /\ fate' \in [Runs -> Fates]
    BY <1>1, SMT DEF Calls, Steps, Fates, Waits
  <2>3. /\ server' \subseteq Runs
        /\ audits' \in [Runs -> 0..MaxAudits]
        /\ port' \in [{Shared} \cup Runs -> Runs \cup {Nobody}]
        /\ held' \in [Sessions -> BOOLEAN]
    OBVIOUS
  <2> QED BY <2>1, <2>2, <2>3
<1>3. WaitsInOne'
  <2> SUFFICES ASSUME NEW s \in Sessions, wait'[s] # "nothing"
               PROVE  \/ pc'[s[1]] \in Calls /\ s = Using(s[1])'
                      \/ pc'[s[1]] = "closing" /\ s = Main(s[1]) /\ wait'[s] = "join"
    BY DEF WaitsInOne, Main
  <2>1. CASE s[1] = r
    BY <1>1, <2>1, SMT DEF Main
  <2>2. CASE s[1] # r
    BY <1>1, <2>2, OwnerOfSession, SMT DEF WaitsInOne, Using, OwnSession, Main
  <2> QED BY <2>1, <2>2
<1>4. HeldFirst'
  <2> SUFFICES ASSUME NEW s \in Sessions
               PROVE  /\ wait'[s] \in {"answer", "join"} => held[s]
                      /\ held[s] => loop'[s] \notin {"unborn", "starting"}
    BY DEF HeldFirst
  <2>1. held[s] => loop'[s] \notin {"unborn", "starting"}
    BY DEF HeldFirst
  <2>2. CASE s[1] = r
    BY <1>1, <2>1, <2>2, SMT
  <2>3. CASE s[1] # r
    BY <1>1, <2>1, <2>3, SMT DEF HeldFirst
  <2> QED BY <2>2, <2>3
<1>5. SettledOnce'
  BY <1>1, SessionsOfRun, SMT DEF SettledOnce, Using, OwnSession, Main, Calls
<1>6. ErrorsNamed'
  BY SMT DEF ErrorsNamed, Fates
<1>7. AbandonedMeansOver'
  BY <1>1, OwnerOfSession, SMT DEF AbandonedMeansOver, Fates
<1> QED BY <1>2, <1>3, <1>4, <1>5, <1>6, <1>7

\* A run that fails or is refused owes nothing about its errors and its tools.
LEMMA FailureKeeps ==
    ASSUME IInv, NEW r \in Runs, NEW how \in {"refused", "failed"},
           NEW wait1 \in [Sessions -> Waits],
           Finish(r, how, wait1),
           gaps' \in [Runs -> SUBSET Calls], errors' \in [Runs -> SUBSET Calls], audited' = audited,
           loop' \in [Sessions -> LoopStates],
           \A s \in Sessions : loop'[s] = loop[s] \/ loop'[s] \in {"idle", "dead"},
           \A s \in Sessions : s[1] = r /\ s # Main(r) => wait1[s] = "nothing",
           \A s \in Sessions : s[1] # r => wait1[s] = wait[s],
           \A q \in Runs : q # r => errors'[q] = errors[q] /\ gaps'[q] = gaps[q]
    PROVE  IInv'
<1>1. how \in Fates \ {"open"} /\ how # "verdict"
  BY SMT DEF Fates
<1>2. audited' \in [Runs -> SUBSET (Runs \cup {Nobody})]
  BY DEF IInv, TypeOK
<1> QED BY <1>1, <1>2, FinishKeeps, Zenon

LEMMA OpenKeeps ==
    ASSUME NEW r \in Runs, IInv, Open(r)
    PROVE  IInv'
<1> USE DEF IInv, TypeOK, Open, run
<1> DEFINE s == Using(r)
<1>1. s \in Sessions /\ s[1] = r
  BY SessionsOfRun
<1>2. wait[s] \notin {"answer", "join"} /\ ~held[s]
  BY <1>1, Zenon DEF HeldFirst
<1>3. TypeOK'
  BY <1>1, SMT DEF Waits, LoopStates
<1>4. WaitsInOne'
  BY <1>1, SMT DEF WaitsInOne, Using, OwnSession, Main
<1>5. HeldFirst'
  BY <1>1, <1>2, SMT DEF HeldFirst
<1>6. SettledOnce'
  BY <1>1, <1>2, SessionsOfRun, SMT DEF SettledOnce, Using, OwnSession, Main, Calls
<1>7. ErrorsNamed'
  BY DEF ErrorsNamed
<1>8. AbandonedMeansOver'
  BY <1>1, <1>2, SMT DEF AbandonedMeansOver
<1> QED BY <1>3, <1>4, <1>5, <1>6, <1>7, <1>8

LEMMA RequestKeeps ==
    ASSUME NEW r \in Runs, IInv, Request(r)
    PROVE  IInv'
<1> USE DEF IInv, TypeOK, Request, run
<1> DEFINE s == Using(r)
<1>1. s \in Sessions /\ s[1] = r
  BY SessionsOfRun
<1>2. TypeOK'
  BY <1>1, SMT DEF Waits, LoopStates
<1>3. WaitsInOne'
  BY <1>1, SMT DEF WaitsInOne, Using, OwnSession, Main
<1>4. HeldFirst'
  <2> SUFFICES ASSUME NEW t \in Sessions
               PROVE  /\ wait'[t] \in {"answer", "join"} => held[t]
                      /\ held[t] => loop'[t] \notin {"unborn", "starting"}
    BY DEF HeldFirst
  <2>1. CASE t = s
    BY <1>1, <2>1, SMT DEF HeldFirst
  <2>2. CASE t # s
    BY <1>1, <2>2, SMT DEF HeldFirst
  <2> QED BY <2>1, <2>2
<1>5. SettledOnce'
  BY <1>1, SessionsOfRun, SMT DEF SettledOnce, Using, OwnSession, Main, Calls
<1>6. ErrorsNamed'
  BY DEF ErrorsNamed
<1>7. AbandonedMeansOver'
  BY <1>1, SMT DEF AbandonedMeansOver
<1> QED BY <1>2, <1>3, <1>4, <1>5, <1>6, <1>7

LEMMA ClosedKeeps ==
    ASSUME NEW r \in Runs, IInv, Closed(r)
    PROVE  IInv'
<1> USE DEF IInv, TypeOK, Closed
<1>1. Main(r) \in Sessions /\ Main(r)[1] = r
  BY SessionsOfRun
<1>2. \A s \in Sessions : s[1] = r /\ s # Main(r) => wait[s] = "nothing"
  BY SMT DEF WaitsInOne, Calls
<1>3. wait[Main(r)] # "answer"
  BY <1>1, SMT DEF WaitsInOne, Calls
<1>4. TypeOK'
  BY <1>1, SMT DEF Waits, Steps
<1>5. WaitsInOne'
  <2> SUFFICES ASSUME NEW s \in Sessions, wait'[s] # "nothing"
               PROVE  \/ pc'[s[1]] \in Calls /\ s = Using(s[1])'
                      \/ pc'[s[1]] = "closing" /\ s = Main(s[1]) /\ wait'[s] = "join"
    BY DEF WaitsInOne, Main
  <2>1. s[1] # r
    BY <1>1, <1>2, SMT
  <2> QED BY <1>1, <2>1, OwnerOfSession, SMT DEF WaitsInOne, Using, OwnSession, Main
<1>6. HeldFirst'
  BY <1>1, SMT DEF HeldFirst
<1>7. SettledOnce'
  BY <1>1, SessionsOfRun, SMT DEF SettledOnce, Using, OwnSession, Main, Calls
<1>8. ErrorsNamed'
  BY DEF ErrorsNamed
<1>9. AbandonedMeansOver'
  <2> SUFFICES ASSUME NEW s \in Sessions, loop[s] = "busy", wait'[s] # "answer", held[s]
               PROVE  fate[s[1]] \in {"failed", "refused"}
    BY DEF AbandonedMeansOver
  <2>1. wait[s] # "answer"
    BY <1>1, <1>3, SMT
  <2> QED BY <2>1 DEF AbandonedMeansOver
<1> QED BY <1>4, <1>5, <1>6, <1>7, <1>8, <1>9

\* A run that computes, or attaches what was computed, waits in no session and
\* no tool of it works: its fate is open.
LEMMA BetweenCalls ==
    ASSUME NEW r \in Runs, IInv, pc[r] \in {"compute", "attach"}
    PROVE  /\ fate[r] = "open"
           /\ \A s \in Sessions : s[1] = r => wait[s] = "nothing"
           /\ \A s \in Sessions : s[1] = r /\ held[s] => loop[s] # "busy"
<1> USE DEF IInv, TypeOK
<1>1. fate[r] = "open"
  BY SMT DEF SettledOnce, Calls
<1>2. \A s \in Sessions : s[1] = r => wait[s] = "nothing"
  BY SMT DEF WaitsInOne, Calls
<1>3. \A s \in Sessions : s[1] = r /\ held[s] => loop[s] # "busy"
  BY <1>1, <1>2, SMT DEF AbandonedMeansOver
<1> QED BY <1>1, <1>2, <1>3

LEMMA ComputeKeeps ==
    ASSUME NEW r \in Runs, IInv, Compute(r)
    PROVE  IInv'
<1> USE DEF IInv, TypeOK, Compute
<1>1. fate[r] = "open" /\ \A s \in Sessions : s[1] = r => wait[s] = "nothing"
  BY BetweenCalls
<1>2. TypeOK'
  <2>1. audits' \in [Runs -> 0..MaxAudits] /\ pc' \in [Runs -> Steps]
    BY RunServicesAssumption, SMT DEF Steps, Calls
  <2>2. port' \in [{Shared} \cup Runs -> Runs \cup {Nobody}]
    BY SMT DEF PortOf
  <2> QED BY <2>1, <2>2
<1>3. WaitsInOne'
  BY <1>1, OwnerOfSession, SMT DEF WaitsInOne, Using, OwnSession, Main
<1>4. HeldFirst'
  BY DEF HeldFirst
<1>5. SettledOnce'
  BY <1>1, SMT DEF SettledOnce, Using, OwnSession, Main
<1>6. ErrorsNamed'
  BY DEF ErrorsNamed
<1>7. AbandonedMeansOver'
  BY DEF AbandonedMeansOver
<1> QED BY <1>2, <1>3, <1>4, <1>5, <1>6, <1>7

LEMMA AttachKeeps ==
    ASSUME NEW r \in Runs, IInv, Attach(r)
    PROVE  IInv'
<1> USE DEF IInv, TypeOK, Attach
<1>1. /\ fate[r] = "open"
      /\ \A s \in Sessions : s[1] = r => wait[s] = "nothing"
      /\ \A s \in Sessions : s[1] = r /\ held[s] => loop[s] # "busy"
  BY BetweenCalls
<1>2. audited' \in [Runs -> SUBSET (Runs \cup {Nobody})]
  <2>1. port[PortOf(r)] \in Runs \cup {Nobody}
    BY SMT DEF PortOf
  <2> QED BY <2>1, SMT
<1>3. CASE Finish(r, "verdict", wait)
  <2>1. errors[r] \subseteq gaps[r]
    BY <1>1 DEF ErrorsNamed
  <2> QED BY <1>1, <1>2, <1>3, <2>1, FinishKeeps, Zenon DEF Fates
<1>4. CASE /\ audits[r] < MaxAudits
           /\ audits' = [audits EXCEPT ![r] = @ + 1]
           /\ pc' = [pc EXCEPT ![r] = "audit"]
           /\ UNCHANGED <<server, fate, stop, held, wait, port>>
  <2>1. TypeOK'
    <3>1. audits' \in [Runs -> 0..MaxAudits] /\ pc' \in [Runs -> Steps]
      BY <1>4, RunServicesAssumption, SMT DEF Steps, Calls
    <3> QED BY <1>2, <1>4, <3>1
  <2>2. WaitsInOne'
    BY <1>1, <1>4, OwnerOfSession, SMT DEF WaitsInOne, Using, OwnSession, Main
  <2>3. HeldFirst'
    BY <1>4 DEF HeldFirst
  <2>4. SettledOnce'
    BY <1>1, <1>4, SMT DEF SettledOnce, Using, OwnSession, Main
  <2>5. ErrorsNamed'
    BY <1>4 DEF ErrorsNamed
  <2>6. AbandonedMeansOver'
    BY <1>4 DEF AbandonedMeansOver
  <2> QED BY <2>1, <2>2, <2>3, <2>4, <2>5, <2>6
<1> QED BY <1>3, <1>4

\* The constructor gives up: the run waits in no session any more, and ends.
LEMMA OpenTimesOutKeeps ==
    ASSUME NEW r \in Runs, IInv, OpenTimesOut(r)
    PROVE  IInv'
<1> USE DEF IInv, TypeOK, OpenTimesOut
<1> DEFINE wait1 == [wait EXCEPT ![Using(r)] = "nothing"]
<1>1. Using(r) \in Sessions /\ Using(r)[1] = r
  BY SessionsOfRun
<1>2. /\ wait1 \in [Sessions -> Waits]
      /\ \A s \in Sessions : s[1] = r /\ s # Main(r) => wait1[s] = "nothing"
      /\ \A s \in Sessions : s[1] # r => wait1[s] = wait[s]
  BY <1>1, SMT DEF Waits, WaitsInOne, Calls
<1> HIDE DEF wait1
<1>3. Finish(r, "failed", wait1)
  BY DEF wait1
<1>4. /\ gaps' = gaps /\ errors' = errors /\ audited' = audited /\ loop' = loop
      /\ gaps \in [Runs -> SUBSET Calls] /\ errors \in [Runs -> SUBSET Calls]
      /\ loop \in [Sessions -> LoopStates]
  OBVIOUS
<1> HIDE DEF IInv, TypeOK, OpenTimesOut
<1> QED BY <1>2, <1>3, <1>4, FailureKeeps, Zenon

LEMMA JoinedKeeps ==
    ASSUME NEW r \in Runs, IInv, Joined(r)
    PROVE  IInv'
<1> USE DEF IInv, TypeOK
<1> DEFINE freed == [wait EXCEPT ![Using(r)] = "nothing"]
<1>1. Using(r) \in Sessions /\ Using(r)[1] = r
  BY SessionsOfRun
<1>2. /\ freed \in [Sessions -> Waits]
      /\ \A s \in Sessions : s[1] = r => freed[s] = "nothing"
      /\ \A s \in Sessions : s[1] # r => freed[s] = wait[s]
  BY <1>1, SMT DEF Joined, Waits, WaitsInOne, Calls
<1>3. /\ gaps' = gaps /\ errors' = errors /\ audited' = audited /\ loop' = loop
      /\ gaps \in [Runs -> SUBSET Calls] /\ errors \in [Runs -> SUBSET Calls]
      /\ loop \in [Sessions -> LoopStates]
  BY DEF Joined
<1> HIDE DEF freed
<1>4. CASE fate[r] = "open"
  <2>1. /\ pc[r] \in {"factsheet", "audit"}
        /\ pc' = [pc EXCEPT ![r] = After[@]]
        /\ wait' = freed
        /\ UNCHANGED <<server, fate, audits, port, stop, held>>
    BY <1>4 DEF Joined, OwnSession, freed
  <2>2. After[pc[r]] \in {"compute", "attach"} /\ pc' = [pc EXCEPT ![r] = After[pc[r]]]
    <3>1. After["factsheet"] = "compute" /\ After["audit"] = "attach"
      BY DEF After
    <3> QED BY <2>1, <3>1
  <2>3. TypeOK'
    BY <1>2, <1>3, <2>1, <2>2, SMT DEF Steps
  <2>4. WaitsInOne'
    BY <1>2, <2>1, <2>2, OwnerOfSession, SMT DEF WaitsInOne, Using, OwnSession, Main
  <2>5. HeldFirst'
    <3> SUFFICES ASSUME NEW s \in Sessions
                 PROVE  /\ freed[s] \in {"answer", "join"} => held[s]
                        /\ held[s] => loop[s] \notin {"unborn", "starting"}
      BY <1>3, <2>1 DEF HeldFirst
    <3> QED BY <1>2, SMT DEF HeldFirst
  <2>6. SettledOnce'
    BY <1>2, <1>4, <2>1, <2>2, SessionsOfRun, SMT DEF SettledOnce, Using, OwnSession, Main, Calls
  <2>7. ErrorsNamed'
    BY <1>3, <2>1 DEF ErrorsNamed
  <2>8. AbandonedMeansOver'
    <3> SUFFICES ASSUME NEW s \in Sessions, loop[s] = "busy", freed[s] # "answer", held[s]
                 PROVE  fate[s[1]] \in {"failed", "refused"}
      BY <1>3, <2>1 DEF AbandonedMeansOver
    <3>1. wait[s] # "answer"
      BY <1>1, <1>2, SMT DEF WaitsInOne, Joined, Calls
    <3> QED BY <3>1 DEF AbandonedMeansOver
  <2> QED BY <2>3, <2>4, <2>5, <2>6, <2>7, <2>8
<1>5. CASE fate[r] # "open"
  <2>1. Finish(r, fate[r], freed)
    BY <1>5 DEF Joined, freed
  <2>2. fate[r] \in {"refused", "failed"}
    BY <1>5, SMT DEF SettledOnce, Joined, Calls
  <2>3. \A s \in Sessions : s[1] = r /\ s # Main(r) => freed[s] = "nothing"
    BY <1>2
  <2> HIDE DEF IInv, TypeOK
  <2>4. CASE Finish(r, "refused", freed)
    BY <1>2, <1>3, <2>3, <2>4, FailureKeeps, Zenon
  <2>5. CASE Finish(r, "failed", freed)
    BY <1>2, <1>3, <2>3, <2>5, FailureKeeps, Zenon
  <2> QED BY <2>1, <2>2, <2>4, <2>5
<1> QED BY <1>4, <1>5

\* The end of a call: an own session is closed first; else the run goes on, or
\* is over.  A call ends with an answer, after which its loop is idle, or is given up.
LEMMA CallEndsKeeps ==
    ASSUME NEW r \in Runs, NEW out \in {"ok", "error", "fault"}, IInv,
           pc[r] \in Calls, wait[Using(r)] = "answer", CallEnds(r, out),
           loop' \in [Sessions -> LoopStates],
           \A s \in Sessions : loop'[s] = loop[s] \/ loop'[s] = "idle",
           out # "fault" => loop'[Using(r)] = "idle"
    PROVE  IInv'
<1> USE DEF IInv, TypeOK
<1> DEFINE s == Using(r)
           goesOn == out = "ok" \/ Tolerated(pc[r], out)
           how == IF pc[r] = "scope" /\ out = "error" THEN "refused" ELSE "failed"
<1>1. s \in Sessions /\ s[1] = r /\ Main(r) \in Sessions /\ Main(r)[1] = r
  BY SessionsOfRun
<1>2. fate[r] = "open" /\ held[s]
  <2>1. fate[r] = "open"
    BY SMT DEF SettledOnce, Calls
  <2>2. held[s]
    BY <1>1 DEF HeldFirst
  <2> QED BY <2>1, <2>2
<1>3. /\ errors' = [errors EXCEPT ![r] = IF out = "error" THEN @ \cup {pc[r]} ELSE @]
      /\ gaps' = [gaps EXCEPT ![r] = @ \cup Noted(pc[r], out)]
      /\ audited' = audited
  BY DEF CallEnds
<1>4. /\ errors' \in [Runs -> SUBSET Calls] /\ gaps' \in [Runs -> SUBSET Calls]
      /\ \A q \in Runs : q # r => errors'[q] = errors[q] /\ gaps'[q] = gaps[q]
  BY <1>3, SMT DEF Noted
<1>5. goesOn => errors'[r] \subseteq gaps'[r]
  <2>1. errors[r] \subseteq gaps[r]
    BY <1>2 DEF ErrorsNamed
  <2> QED BY <1>3, <2>1, SMT DEF Noted, Tolerated
<1>6. \A t \in Sessions : t[1] = r /\ t # s => wait[t] = "nothing"
  BY SMT DEF WaitsInOne, Calls
<1>7. goesOn => loop'[s] = "idle"
  BY SMT DEF Tolerated
<1>8. CASE OwnSession(r)
  <2>1. /\ wait' = [wait EXCEPT ![s] = "join"]
        /\ stop' = [stop EXCEPT ![s] = TRUE]
        /\ fate' = [fate EXCEPT ![r] = IF goesOn THEN @ ELSE how]
        /\ server' = server /\ pc' = pc /\ held' = held /\ audits' = audits /\ port' = port
    BY <1>8 DEF CallEnds
  <2>2. fate'[r] = (IF goesOn THEN "open" ELSE how) /\ how \in {"refused", "failed"}
    BY <1>2, <2>1
  <2>3. TypeOK'
    <3>1. wait' \in [Sessions -> Waits] /\ stop' \in [Sessions -> BOOLEAN]
      BY <2>1, Zenon DEF Waits
    <3>2. fate' \in [Runs -> Fates]
      BY <2>1, SMT DEF Fates
    <3> QED BY <1>3, <1>4, <2>1, <3>1, <3>2
  <2> HIDE DEF goesOn, how
  <2>4. WaitsInOne'
    BY <1>1, <1>8, <2>1, SMT DEF WaitsInOne, Using, OwnSession, Main
  <2>5. HeldFirst'
    <3> SUFFICES ASSUME NEW t \in Sessions
                 PROVE  /\ wait'[t] \in {"answer", "join"} => held[t]
                        /\ held[t] => loop'[t] \notin {"unborn", "starting"}
      BY <2>1 DEF HeldFirst
    <3>1. held[t] => loop'[t] \notin {"unborn", "starting"}
      BY DEF HeldFirst
    <3>2. CASE t = s
      BY <1>2, <3>1, <3>2
    <3>3. CASE t # s
      BY <1>1, <2>1, <3>1, <3>3, SMT DEF HeldFirst
    <3> QED BY <3>2, <3>3
  <2>6. SettledOnce'
    BY <1>1, <1>8, <2>1, <2>2, SessionsOfRun, SMT DEF SettledOnce, Using, OwnSession, Main, Calls
  <2>7. ErrorsNamed'
    <3> SUFFICES ASSUME NEW q \in Runs, fate'[q] \in {"open", "verdict"}
                 PROVE  errors'[q] \subseteq gaps'[q]
      BY DEF ErrorsNamed
    <3>1. CASE q = r
      BY <1>5, <2>2, <3>1, SMT
    <3>2. CASE q # r
      BY <1>4, <2>1, <3>2, SMT DEF ErrorsNamed
    <3> QED BY <3>1, <3>2
  <2>8. AbandonedMeansOver'
    <3> SUFFICES ASSUME NEW t \in Sessions, loop'[t] = "busy", wait'[t] # "answer", held[t]
                 PROVE  fate'[t[1]] \in {"failed", "refused"}
      BY <2>1 DEF AbandonedMeansOver
    <3>1. loop[t] = "busy"
      BY SMT
    <3>2. CASE t = s
      BY <1>1, <1>7, <2>2, <3>2, SMT
    <3>3. CASE t # s
      <4>1. wait[t] # "answer"
        BY <1>1, <2>1, <3>3, SMT
      <4>2. fate[t[1]] \in {"failed", "refused"}
        BY <3>1, <4>1 DEF AbandonedMeansOver
      <4>3. t[1] \in Runs /\ t[1] # r
        BY <1>2, <4>2, OwnerOfSession, SMT
      <4> QED BY <2>1, <4>2, <4>3, SMT
    <3> QED BY <3>2, <3>3
  <2> QED BY <2>3, <2>4, <2>5, <2>6, <2>7, <2>8
<1>9. CASE ~OwnSession(r) /\ goesOn
  <2>1. /\ wait' = [wait EXCEPT ![s] = "nothing"]
        /\ pc' = [pc EXCEPT ![r] = After[pc[r]]]
        /\ server' = server /\ fate' = fate /\ stop' = stop /\ held' = held
        /\ audits' = audits /\ port' = port
    BY <1>9 DEF CallEnds
  <2>2. After[pc[r]] \in Steps
    <3>1. /\ After["scope"] = "section" /\ After["section"] = "valuation"
          /\ After["valuation"] = "factsheet" /\ After["factsheet"] = "compute"
          /\ After["audit"] = "attach"
      BY DEF After
    <3> QED BY <3>1 DEF Calls, Steps
  <2>3. TypeOK'
    <3>1. wait' \in [Sessions -> Waits]
      BY <2>1, Zenon DEF Waits
    <3>2. pc' \in [Runs -> Steps]
      BY <2>1, <2>2
    <3> QED BY <1>3, <1>4, <2>1, <3>1, <3>2
  <2>4. \A t \in Sessions : wait'[t] # "nothing" => t[1] # r /\ wait'[t] = wait[t]
    BY <1>1, <1>6, <2>1, SMT
  <2>5. WaitsInOne'
    BY <2>1, <2>4, OwnerOfSession, SMT DEF WaitsInOne, Using, OwnSession, Main
  <2>6. HeldFirst'
    <3> SUFFICES ASSUME NEW t \in Sessions
                 PROVE  /\ wait'[t] \in {"answer", "join"} => held[t]
                        /\ held[t] => loop'[t] \notin {"unborn", "starting"}
      BY <2>1 DEF HeldFirst
    <3>1. held[t] => loop'[t] \notin {"unborn", "starting"}
      BY DEF HeldFirst
    <3> QED BY <2>4, <3>1, SMT DEF HeldFirst
  <2>7. SettledOnce'
    BY <1>2, <1>1, <2>1, SessionsOfRun, SMT DEF SettledOnce, Using, OwnSession, Main, Calls
  <2>8. ErrorsNamed'
    BY <1>4, <1>5, <1>9, <2>1, SMT DEF ErrorsNamed
  <2>9. AbandonedMeansOver'
    <3> SUFFICES ASSUME NEW t \in Sessions, loop'[t] = "busy", wait'[t] # "answer", held[t]
                 PROVE  fate[t[1]] \in {"failed", "refused"}
      BY <2>1 DEF AbandonedMeansOver
    <3>1. t # s /\ loop[t] = "busy"
      BY <1>7, <1>9, SMT
    <3>2. wait[t] # "answer"
      BY <1>1, <2>1, <3>1, SMT
    <3> QED BY <3>1, <3>2 DEF AbandonedMeansOver
  <2> QED BY <2>3, <2>5, <2>6, <2>7, <2>8, <2>9
<1>10. CASE ~OwnSession(r) /\ ~goesOn
  <2>1. Finish(r, how, wait)
    BY <1>10 DEF CallEnds
  <2>2. how \in {"refused", "failed"}
    OBVIOUS
  <2>3. \A t \in Sessions : t[1] = r /\ t # Main(r) => wait[t] = "nothing"
    BY <1>6, <1>10, UsingOrMain
  <2>4. wait \in [Sessions -> Waits]
    OBVIOUS
  <2> HIDE DEF IInv, TypeOK, how
  <2>5. CASE Finish(r, "refused", wait)
    BY <1>3, <1>4, <2>3, <2>4, <2>5, FailureKeeps, Zenon
  <2>6. CASE Finish(r, "failed", wait)
    BY <1>3, <1>4, <2>3, <2>4, <2>6, FailureKeeps, Zenon
  <2> QED BY <2>1, <2>2, <2>5, <2>6
<1> QED BY <1>8, <1>9, <1>10

\* A call given up ends like one that raised; its tool works on.
LEMMA CallTimesOutKeeps ==
    ASSUME NEW r \in Runs, IInv, CallTimesOut(r)
    PROVE  IInv'
<1>1. /\ pc[r] \in Calls /\ wait[Using(r)] = "answer" /\ CallEnds(r, "fault")
      /\ loop' = loop /\ loop \in [Sessions -> LoopStates]
  BY DEF CallTimesOut, IInv, TypeOK
<1> QED BY <1>1, CallEndsKeeps

\* The loop has come up: its constructor takes the session, unless it gave up before.
LEMMA ReadyKeeps ==
    ASSUME NEW s \in Sessions, IInv, Ready(s)
    PROVE  IInv'
<1> USE DEF IInv, TypeOK, Ready, run
<1>1. TypeOK'
  <2>1. held' \in [Sessions -> BOOLEAN]
    BY Zenon
  <2>2. wait' \in [Sessions -> Waits]
    BY Zenon DEF Waits
  <2>3. loop' \in [Sessions -> LoopStates]
    BY Zenon DEF LoopStates
  <2> QED BY <2>1, <2>2, <2>3
<1>2. WaitsInOne'
  BY OwnerOfSession, SMT DEF WaitsInOne, Using, OwnSession, Main
<1>3. HeldFirst'
  BY SMT DEF HeldFirst
<1>4. SettledOnce'
  BY OwnerOfSession, SessionsOfRun, SMT DEF SettledOnce, Using, OwnSession, Main, HeldFirst
<1>5. ErrorsNamed'
  BY DEF ErrorsNamed
<1>6. AbandonedMeansOver'
  BY OwnerOfSession, SMT DEF AbandonedMeansOver
<1> QED BY <1>1, <1>2, <1>3, <1>4, <1>5, <1>6

\* An idle loop that ends by itself touches nothing of the run.
LEMMA DiesKeeps ==
    ASSUME NEW s \in Sessions, IInv, Dies(s)
    PROVE  IInv'
<1> USE DEF IInv, TypeOK, Dies, run
<1>1. TypeOK'
  BY Zenon DEF LoopStates
<1>2. WaitsInOne'
  BY DEF WaitsInOne, Using, OwnSession, Main
<1>3. HeldFirst'
  BY SMT DEF HeldFirst
<1>4. SettledOnce' /\ ErrorsNamed'
  BY DEF SettledOnce, ErrorsNamed, Using, OwnSession, Main
<1>5. AbandonedMeansOver'
  BY SMT DEF AbandonedMeansOver
<1> QED BY <1>1, <1>2, <1>3, <1>4, <1>5

\* A loop told to stop touches nothing of the run.
LEMMA StopsKeeps ==
    ASSUME NEW s \in Sessions, IInv, Stops(s)
    PROVE  IInv'
<1> USE DEF IInv, TypeOK, Stops, run
<1>1. TypeOK'
  BY Zenon DEF LoopStates
<1>2. WaitsInOne'
  BY DEF WaitsInOne, Using, OwnSession, Main
<1>3. HeldFirst'
  BY SMT DEF HeldFirst
<1>4. SettledOnce' /\ ErrorsNamed'
  BY DEF SettledOnce, ErrorsNamed, Using, OwnSession, Main
<1>5. AbandonedMeansOver'
  BY SMT DEF AbandonedMeansOver
<1> QED BY <1>1, <1>2, <1>3, <1>4, <1>5

\* A session that cannot start ends the run that waits for it, and no other.
LEMMA OpenFailsKeeps ==
    ASSUME NEW s \in Sessions, IInv, OpenFails(s)
    PROVE  IInv'
<1> DEFINE r == s[1]
<1> DEFINE wait1 == [wait EXCEPT ![s] = "nothing"]
<1>1. loop[s] = "starting" /\ loop' = [loop EXCEPT ![s] = "dead"]
  BY DEF OpenFails
<1>2. r \in Runs /\ loop' \in [Sessions -> LoopStates]
  BY <1>1, OwnerOfSession, Zenon DEF IInv, TypeOK, LoopStates
<1>3. \A t \in Sessions : loop'[t] = loop[t] \/ loop'[t] = "dead"
  BY <1>1, Zenon DEF IInv, TypeOK
<1>4. CASE wait[s] = "ready"
  <2>1. /\ Finish(r, "failed", wait1)
        /\ gaps' = gaps /\ errors' = errors /\ audited' = audited
    BY <1>4 DEF OpenFails
  <2>2. wait1 \in [Sessions -> Waits]
    BY Zenon DEF IInv, TypeOK, Waits
  <2>3. \A t \in Sessions : t[1] = r /\ t # Main(r) => wait1[t] = "nothing"
    BY <1>2, <1>4, SMT DEF IInv, TypeOK, WaitsInOne
  <2>4. \A t \in Sessions : t[1] # r => wait1[t] = wait[t]
    BY Zenon DEF IInv, TypeOK
  <2>5. /\ gaps' \in [Runs -> SUBSET Calls] /\ errors' \in [Runs -> SUBSET Calls]
        /\ \A t \in Sessions : loop'[t] = loop[t] \/ loop'[t] \in {"idle", "dead"}
        /\ \A q \in Runs : q # r => errors'[q] = errors[q] /\ gaps'[q] = gaps[q]
    BY <1>3, <2>1 DEF IInv, TypeOK
  <2> HIDE DEF wait1, r
  <2>6. Finish(r, "failed", wait1) /\ audited' = audited
    BY <2>1
  <2> HIDE DEF IInv
  <2> QED BY <1>2, <2>2, <2>3, <2>4, <2>5, <2>6, FailureKeeps, ZenonT(60)
<1>5. CASE wait[s] # "ready"
  <2> USE DEF IInv, TypeOK, run
  <2>1. UNCHANGED <<run, stop, held, wait>>
    BY <1>5, Zenon DEF OpenFails
  <2>2. TypeOK'
    BY <1>2, <2>1
  <2>3. WaitsInOne'
    BY <2>1 DEF WaitsInOne, Using, OwnSession, Main
  <2>4. HeldFirst'
    BY <1>1, <1>3, <2>1, SMT DEF HeldFirst
  <2>5. SettledOnce' /\ ErrorsNamed'
    BY <2>1 DEF SettledOnce, ErrorsNamed, Using, OwnSession, Main
  <2>6. AbandonedMeansOver'
    BY <1>1, <1>3, <2>1, SMT DEF AbandonedMeansOver
  <2> QED BY <2>2, <2>3, <2>4, <2>5, <2>6
<1> QED BY <1>4, <1>5

\* An answer ends the call that waits for it; nobody takes the answer of another.
LEMMA AnswerKeeps ==
    ASSUME NEW s \in Sessions, NEW out \in {"ok", "error", "fault"}, IInv, Answer(s, out)
    PROVE  IInv'
<1> DEFINE r == s[1]
<1>1. /\ loop[s] = "busy" /\ loop' = [loop EXCEPT ![s] = "idle"]
      /\ r \in Runs /\ loop' \in [Sessions -> LoopStates]
  BY OwnerOfSession, Zenon DEF Answer, IInv, TypeOK, LoopStates
<1>2. /\ \A t \in Sessions : loop'[t] = loop[t] \/ loop'[t] = "idle"
      /\ loop'[s] = "idle"
  BY <1>1, Zenon DEF IInv, TypeOK
<1>3. CASE wait[s] = "answer"
  <2>1. CallEnds(r, out)
    BY <1>3 DEF Answer
  <2>2. pc[r] \in Calls /\ s = Using(r)
    BY <1>3 DEF IInv, WaitsInOne
  <2> QED BY <1>1, <1>2, <1>3, <2>1, <2>2, CallEndsKeeps
<1>4. CASE wait[s] # "answer"
  <2> USE DEF IInv, TypeOK, run
  <2>1. UNCHANGED <<run, stop, held, wait>>
    BY <1>4, Zenon DEF Answer
  <2>2. TypeOK'
    BY <1>1, <2>1
  <2>3. WaitsInOne'
    BY <2>1 DEF WaitsInOne, Using, OwnSession, Main
  <2>4. HeldFirst'
    BY <1>1, <1>2, <2>1, SMT DEF HeldFirst
  <2>5. SettledOnce' /\ ErrorsNamed'
    BY <2>1 DEF SettledOnce, ErrorsNamed, Using, OwnSession, Main
  <2>6. AbandonedMeansOver'
    BY <1>1, <1>2, <2>1, SMT DEF AbandonedMeansOver
  <2> QED BY <2>2, <2>3, <2>4, <2>5, <2>6
<1> QED BY <1>3, <1>4

\* Every step of Next keeps the invariant.
LEMMA StepKeeps == IInv /\ [Next]_vars => IInv'
<1> SUFFICES ASSUME IInv, [Next]_vars
             PROVE  IInv'
  OBVIOUS
<1>1. CASE Next
  <2>1. ASSUME NEW r \in Runs, Thread(r)
        PROVE  IInv'
    BY <2>1, OpenKeeps, OpenTimesOutKeeps, RequestKeeps, CallTimesOutKeeps, JoinedKeeps,
       ClosedKeeps, ComputeKeeps, AttachKeeps DEF Thread
  <2>2. ASSUME NEW s \in Sessions,
               \/ Ready(s) \/ OpenFails(s) \/ Dies(s) \/ Stops(s)
               \/ \E out \in {"ok", "error", "fault"} : Answer(s, out)
        PROVE  IInv'
    BY <2>2, ReadyKeeps, OpenFailsKeeps, DiesKeeps, StopsKeeps, AnswerKeeps
  <2>3. CASE UNCHANGED vars
    BY <2>3 DEF vars, IInv, TypeOK, WaitsInOne, HeldFirst, SettledOnce, ErrorsNamed,
                AbandonedMeansOver, Using, OwnSession, Main
  <2> QED BY <1>1, <2>1, <2>2, <2>3 DEF Next
<1>2. CASE UNCHANGED vars
  BY <1>2 DEF vars, IInv, TypeOK, WaitsInOne, HeldFirst, SettledOnce, ErrorsNamed,
              AbandonedMeansOver, Using, OwnSession, Main
<1> QED BY <1>1, <1>2

\* The invariant holds in every state a run's services reach.
LEMMA AlwaysInvariant == Spec => []IInv
BY InitHolds, StepKeeps, PTL DEF Spec

-----------------------------------------------------------------------------
(* What the runs rely on.                                                  *)

\* A run that ends with a verdict has named every tool call that failed among
\* its gaps, for any number of runs and audits (ToolSession.call and the
\* coordinator's section loop).
THEOREM FailedCallsAreNamed == Spec => []NothingSilentlyMissing
<1>1. IInv => NothingSilentlyMissing
  BY DEF IInv, ErrorsNamed, NothingSilentlyMissing
<1> QED BY <1>1, AlwaysInvariant, PTL

\* While a tool works on for a call given up, its run is over: no later request
\* of the run is queued behind it (`.result(timeout)` in mcp_client.py).
THEOREM AbandonedRunsAreOver == Spec => []AbandonedMeansOver
<1>1. IInv => AbandonedMeansOver
  BY DEF IInv
<1> QED BY <1>1, AlwaysInvariant, PTL

-----------------------------------------------------------------------------
(* The port to calc/.                                                      *)

\* Where no two runs share a port, a port remembers its own run's metrics
\* from the run's first audit on.
Remembered == \A r \in Runs : pc[r] \in {"audit", "attach"} => port[PortOf(r)] = r
NoneShared == \A r, q \in server : r = q
OwnMetrics == NoneShared /\ Remembered /\ OwnMetricsAudited

\* A step that computes nothing and brings no run to its first audit.
PortKept ==
    /\ server' = server /\ port' = port
    /\ \A q \in Runs : pc'[q] \in {"audit", "attach"} => pc[q] \in {"audit", "attach"}

\* A run that ends is at no audit, and leaves the ports alone.
LEMMA FinishKeepsPort ==
    ASSUME NEW r \in Runs, NEW how, NEW wait1, Finish(r, how, wait1), IInv
    PROVE  PortKept
BY SMT DEF Finish, PortKept, IInv, TypeOK

\* The end of a call brings a run to an audit's end only from the audit.
LEMMA CallEndsKeepsPort ==
    ASSUME NEW r \in Runs, NEW out, CallEnds(r, out), pc[r] \in Calls, IInv
    PROVE  PortKept /\ audited' = audited
<1> DEFINE how == IF pc[r] = "scope" /\ out = "error" THEN "refused" ELSE "failed"
<1>1. audited' = audited
  BY DEF CallEnds
<1>2. CASE server' = server /\ port' = port /\ pc' = pc
  BY <1>1, <1>2 DEF PortKept
<1>3. CASE server' = server /\ port' = port /\ pc' = [pc EXCEPT ![r] = After[pc[r]]]
  <2>1. /\ After["scope"] = "section" /\ After["section"] = "valuation"
        /\ After["valuation"] = "factsheet" /\ After["factsheet"] = "compute"
        /\ After["audit"] = "attach"
    BY DEF After
  <2>2. pc \in [Runs -> Steps]
    BY DEF IInv, TypeOK
  <2>3. \A q \in Runs : q # r => pc'[q] = pc[q]
    BY <1>3, <2>2
  <2>4. pc'[r] \in {"audit", "attach"} => pc[r] = "audit"
    BY <1>3, <2>1, <2>2, SMT DEF Calls
  <2> QED BY <1>1, <1>3, <2>3, <2>4 DEF PortKept
<1>4. CASE Finish(r, how, wait)
  BY <1>1, <1>4, FinishKeepsPort
<1> QED BY <1>1, <1>2, <1>3, <1>4, Zenon DEF CallEnds

\* Where a step keeps the ports and what the audits were given, nothing is lost.
LEMMA PortKeptKeeps ==
    ASSUME OwnMetrics, PortKept, audited' = audited
    PROVE  OwnMetrics'
BY DEF OwnMetrics, NoneShared, Remembered, OwnMetricsAudited, PortKept, PortOf

\* Every step of a run's thread keeps the own metrics of every run.
LEMMA ThreadKeepsMetrics ==
    ASSUME NEW r \in Runs, IInv, OwnMetrics, Thread(r)
    PROVE  OwnMetrics'
<1>1. CASE Open(r)
  BY <1>1, PortKeptKeeps DEF Open, run, PortKept
<1>2. CASE OpenTimesOut(r)
  BY <1>2, FinishKeepsPort, PortKeptKeeps DEF OpenTimesOut
<1>3. CASE Request(r)
  BY <1>3, PortKeptKeeps DEF Request, run, PortKept
<1>4. CASE CallTimesOut(r)
  BY <1>4, CallEndsKeepsPort, PortKeptKeeps DEF CallTimesOut
<1>5. CASE Joined(r)
  <2>1. audited' = audited
    BY <1>5 DEF Joined
  <2>2. CASE fate[r] = "open"
    <3>1. /\ pc' = [pc EXCEPT ![r] = After[pc[r]]] /\ server' = server /\ port' = port
          /\ pc[r] \in {"factsheet", "audit"}
      BY <1>5, <2>2 DEF Joined, OwnSession
    <3>2. After["factsheet"] = "compute"
      BY DEF After
    <3>3. \A q \in Runs : q # r => pc'[q] = pc[q]
      BY <3>1 DEF IInv, TypeOK
    <3>4. pc'[r] \in {"audit", "attach"} => pc[r] = "audit"
      BY <3>1, <3>2, SMT DEF IInv, TypeOK
    <3> QED BY <2>1, <3>1, <3>3, <3>4, PortKeptKeeps DEF PortKept
  <2>3. CASE fate[r] # "open"
    BY <1>5, <2>1, <2>3, FinishKeepsPort, PortKeptKeeps, Zenon DEF Joined
  <2> QED BY <2>2, <2>3
<1>6. CASE Closed(r)
  BY <1>6, PortKeptKeeps, SMT DEF Closed, PortKept, IInv, TypeOK
<1>7. CASE Compute(r)
  <2>1. /\ port' = [port EXCEPT ![PortOf(r)] = r] /\ pc' = [pc EXCEPT ![r] = "audit"]
        /\ server' = server /\ audited' = audited
    BY <1>7 DEF Compute
  <2>2. Remembered'
    <3> SUFFICES ASSUME NEW q \in Runs, pc'[q] \in {"audit", "attach"}
                 PROVE  port'[PortOf(q)] = q
      BY <2>1 DEF Remembered, PortOf
    <3>1. PortOf(q) \in {Shared} \cup Runs /\ PortOf(r) \in {Shared} \cup Runs
      BY DEF PortOf
    <3>2. CASE q = r
      BY <2>1, <3>1, <3>2, Zenon DEF IInv, TypeOK
    <3>3. CASE q # r
      <4>1. PortOf(q) # PortOf(r)
        BY <3>3, SharedAssumption DEF PortOf, OwnMetrics, NoneShared
      <4>2. port'[PortOf(q)] = port[PortOf(q)]
        BY <2>1, <3>1, <4>1, Zenon DEF IInv, TypeOK
      <4>3. pc[q] \in {"audit", "attach"}
        BY <2>1, <3>3 DEF IInv, TypeOK
      <4> QED BY <4>2, <4>3 DEF OwnMetrics, Remembered
    <3> QED BY <3>2, <3>3
  <2> QED BY <2>1, <2>2 DEF OwnMetrics, NoneShared, OwnMetricsAudited
<1>8. CASE Attach(r)
  <2>1. PortKept
    <3>1. CASE Finish(r, "verdict", wait)
      BY <3>1, FinishKeepsPort
    <3>2. CASE pc' = [pc EXCEPT ![r] = "audit"] /\ server' = server /\ port' = port
      BY <1>8, <3>2, SMT DEF Attach, PortKept, IInv, TypeOK
    <3> QED BY <1>8, <3>1, <3>2, Zenon DEF Attach
  <2>2. port[PortOf(r)] = r
    BY <1>8 DEF Attach, OwnMetrics, Remembered
  <2>3. audited' = [audited EXCEPT ![r] = @ \cup {port[PortOf(r)]}]
    BY <1>8 DEF Attach
  <2>4. OwnMetricsAudited'
    BY <2>2, <2>3 DEF OwnMetrics, OwnMetricsAudited, IInv, TypeOK
  <2> QED BY <2>1, <2>4 DEF OwnMetrics, NoneShared, Remembered, PortKept, PortOf
<1> QED BY <1>1, <1>2, <1>3, <1>4, <1>5, <1>6, <1>7, <1>8 DEF Thread

\* Every step of a session's loop keeps the own metrics of every run.
LEMMA LoopKeepsMetrics ==
    ASSUME NEW s \in Sessions, IInv, OwnMetrics,
           \/ Ready(s) \/ OpenFails(s) \/ Dies(s) \/ Stops(s)
           \/ \E out \in {"ok", "error", "fault"} : Answer(s, out)
    PROVE  OwnMetrics'
<1>1. CASE UNCHANGED run
  BY <1>1, PortKeptKeeps DEF run, PortKept
<1>2. CASE wait[s] = "ready" /\ OpenFails(s)
  BY <1>2, OwnerOfSession, FinishKeepsPort, PortKeptKeeps DEF OpenFails
<1>3. ASSUME NEW out \in {"ok", "error", "fault"}, Answer(s, out), wait[s] = "answer"
      PROVE  OwnMetrics'
  <2>1. pc[s[1]] \in Calls
    BY <1>3 DEF IInv, WaitsInOne
  <2> QED BY <1>3, <2>1, OwnerOfSession, CallEndsKeepsPort, PortKeptKeeps DEF Answer
<1> QED BY <1>1, <1>2, <1>3, Zenon DEF Ready, OpenFails, Dies, Stops, Answer, run

\* A server that has one run at a time, and every run started by run_analysis,
\* audits its claims against its own metrics (CalcPort).  With two runs of a
\* server in progress it is otherwise: the run services_shared.
THEOREM LoneRunAuditsItsOwn ==
    ASSUME \A S \in Starts : \A r, q \in S : r = q
    PROVE  Spec => []OwnMetricsAudited
<1>1. Init => OwnMetrics
  BY SMT DEF Init, OwnMetrics, NoneShared, Remembered, OwnMetricsAudited
<1>2. IInv /\ OwnMetrics /\ [Next]_vars => OwnMetrics'
  <2> SUFFICES ASSUME IInv, OwnMetrics, [Next]_vars
               PROVE  OwnMetrics'
    OBVIOUS
  <2>1. CASE UNCHANGED vars
    BY <2>1, PortKeptKeeps DEF vars, PortKept
  <2>2. CASE Next
    BY <2>1, <2>2, ThreadKeepsMetrics, LoopKeepsMetrics DEF Next
  <2> QED BY <2>1, <2>2
<1>3. OwnMetrics => OwnMetricsAudited
  BY DEF OwnMetrics
<1> QED BY <1>1, <1>2, <1>3, AlwaysInvariant, PTL DEF Spec

==============================================================================
