----------------------------- MODULE RunPromise -----------------------------
(***************************************************************************)
(* What the run server promises its clients, without registry, locks,      *)
(* batches or polling: each run has one append-only log that ends with its *)
(* outcome, a result that is settled before the outcome is announced, and  *)
(* readers that receive the log one event at a time from its beginning.    *)
(***************************************************************************)
EXTENDS Integers, Sequences

CONSTANTS Runs, Browsers, Readers, Lanes

VARIABLES log, status, reader

vars == <<log, status, reader>>

Clients  == Browsers \cup Readers
Outcomes == {"done", "failed"}
Settled  == {"done", "preliminary", "failed"}

Announced(r) == log[r] # <<>> /\ log[r][Len(log[r])] \in Outcomes

Init ==
    /\ log = [r \in Runs |-> <<>>]
    /\ status = [r \in Runs |-> "none"]
    /\ \A c \in Clients :
           reader[c].state = "idle" /\ reader[c].got = <<>> /\ reader[c].sees = "nothing"

Begin(r) ==
    /\ status[r] = "none"
    /\ status' = [status EXCEPT ![r] = "running"]
    /\ UNCHANGED <<log, reader>>

Publish(r) ==
    /\ status[r] = "running"
    /\ \E e \in Lanes \cup {"running"} : log' = [log EXCEPT ![r] = Append(@, e)]
    /\ UNCHANGED <<status, reader>>

Settle(r) ==
    /\ status[r] = "running"
    /\ \E o \in Settled : status' = [status EXCEPT ![r] = o]
    /\ UNCHANGED <<log, reader>>

Announce(r) ==
    /\ status[r] \in Settled
    /\ ~Announced(r)
    /\ log' = [log EXCEPT ![r] =
           Append(@, IF status[r] = "failed" THEN "failed" ELSE "done")]
    /\ UNCHANGED <<status, reader>>

Unread(c) == Len(log[reader[c].of]) - Len(reader[c].got)

\* A reader starts on a run that exists, or is turned away from it.
Join(c, r) ==
    /\ reader[c].state = "idle"
    /\ status[r] # "none"
    /\ \E s \in {"reading", "over"} :
           reader' = [reader EXCEPT ![c].of = r, ![c].state = s]
    /\ UNCHANGED <<log, status>>

Receive(c) ==
    /\ reader[c].state = "reading"
    /\ Unread(c) > 0
    /\ LET e == log[reader[c].of][Len(reader[c].got) + 1]
       IN  reader' = [reader EXCEPT ![c].got = Append(@, e),
               ![c].state = IF c \in Browsers /\ e \in Outcomes THEN "over" ELSE @]
    /\ UNCHANGED <<log, status>>

\* The stream ends: a lost connection, or everything has been read.
Leave(c) ==
    /\ reader[c].state = "reading"
    /\ reader' = [reader EXCEPT ![c].state = "over"]
    /\ UNCHANGED <<log, status>>

Show(c) ==
    /\ reader[c].state = "over"
    /\ reader[c].sees = "nothing"
    /\ \E v \in {"verdict", "preliminary", "error"} :
           reader' = [reader EXCEPT ![c].sees = v]
    /\ UNCHANGED <<log, status>>

Next ==
    \/ \E r \in Runs : Begin(r) \/ Publish(r) \/ Settle(r) \/ Announce(r)
    \/ \E c \in Clients : Receive(c) \/ Leave(c) \/ Show(c) \/ \E r \in Runs : Join(c, r)

Spec == Init /\ [][Next]_vars
=============================================================================
