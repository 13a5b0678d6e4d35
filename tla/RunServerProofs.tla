--------------------------- MODULE RunServerProofs ---------------------------
(***************************************************************************)
(* Proofs about RunServer, for every number of runs, clients and events,   *)
(* and any size of the registry: its invariants, the bound of the registry *)
(* and that it implements RunPromise.                                      *)
(***************************************************************************)
EXTENDS RunServer, FiniteSetTheorems, SequenceTheorems, WellFoundedInduction, TLAPS

\* The initial state is well typed.
LEMMA InitTypeOK == Init => TypeOK
  <1> SUFFICES ASSUME Init PROVE TypeOK  OBVIOUS
  <1>1. NewClient \in Streams
    <2>1. (CHOOSE r \in Runs : TRUE) \in Runs
      BY RunServerAssumption DEF RunServerAssumption
    <2> QED  BY <2>1 DEF NewClient, Streams, Views
  <1> QED
    BY <1>1 DEF Init, TypeOK, Phases, Results, Streams

\* Publishing an event keeps both logs well typed.
LEMMA EmitTypeOK ==
  ASSUME TypeOK, NEW r \in Runs, NEW e \in Events, Emit(r, e)
  PROVE  entries' \in [Runs -> Seq(Events)] /\ emitted' \in [Runs -> Seq(Events)]
  BY DEF TypeOK, Emit

\* No step of a run's worker leaves the types.
LEMMA WorkerTypeOK ==
  ASSUME TypeOK, NEW r \in Runs, NewRun(r) \/ Worker(r) \/ RunnerEmits(r)
  PROVE  TypeOK'
  <1> USE DEF Phases, Results, Events, Outcomes
  <1>1. CASE NewRun(r)
    <2>1. Cardinality({q \in Runs : phase[q] # "new"}) \in Nat
      BY RunServerAssumption, FS_Subset, FS_CardinalityType DEF RunServerAssumption
    <2>2. Cardinality(Running) \in Nat
      BY RunServerAssumption, FS_Subset, FS_CardinalityType DEF RunServerAssumption, Running
    <2> QED  BY <1>1, <2>1, <2>2 DEF NewRun, TypeOK
  <1>2. CASE RecordRun(r)      BY <1>2 DEF RecordRun, TypeOK
  <1>3. CASE EmitRunning(r)    BY <1>3, EmitTypeOK DEF EmitRunning, TypeOK
  <1>4. CASE RunnerReturns(r)  BY <1>4 DEF RunnerReturns, TypeOK
  <1>5. CASE EmitOutcome(r)    BY <1>5, EmitTypeOK DEF EmitOutcome, TypeOK
  <1>6. CASE Close(r)          BY <1>6 DEF Close, TypeOK
  <1>7. CASE RunnerEmits(r)    BY <1>7, EmitTypeOK DEF RunnerEmits, TypeOK
  <1> QED  BY <1>1, <1>2, <1>3, <1>4, <1>5, <1>6, <1>7 DEF Worker

\* No step of a client's stream leaves the types.
LEMMA StreamTypeOK ==
  ASSUME TypeOK, NEW c \in Clients,
         Stream(c) \/ Drop(c) \/ \E r \in Runs : Subscribe(c, r)
  PROVE  TypeOK'
  <1> DEFINE me == client[c]
  <1>1. me \in Streams /\ client \in [Clients -> Streams]  BY DEF TypeOK
  <1>2. UNCHANGED server
    BY DEF Stream, Subscribe, Attach, ReadBatch, ReadClosed, Deliver, Drop, Fetch
  <1>3. ASSUME NEW s \in Streams, client' = [client EXCEPT ![c] = s]
        PROVE  TypeOK'
    BY <1>1, <1>2, <1>3 DEF TypeOK, server
  <1>4. CASE \E r \in Runs : Subscribe(c, r)
    <2> PICK r \in Runs : Subscribe(c, r)  BY <1>4
    <2>1. /\ [me EXCEPT !.pc = "admitted", !.of = r] \in Streams
          /\ [me EXCEPT !.pc = "ended", !.of = r, !.why = "refused"] \in Streams
      BY <1>1 DEF Streams
    <2> QED  BY <2>1, <1>3 DEF Subscribe
  <1>5. CASE Attach(c) \/ ReadClosed(c) \/ Drop(c)
    <2>1. /\ \A p \in {"poll", "deliver"} : [me EXCEPT !.pc = p] \in Streams
          /\ \A w \in {"refused", "eof", "dropped"} :
                 [me EXCEPT !.pc = "ended", !.why = w] \in Streams
      BY <1>1 DEF Streams
    <2> QED  BY <1>5, <2>1, <1>3 DEF Attach, ReadClosed, Drop
  <1>6. CASE ReadBatch(c)
    <2> DEFINE log == entries[me.of]
               new == SubSeq(log, Len(me.got) + 1, Len(log))
    <2>1. new \in Seq(Events)
      BY <1>1, SubSeqProperties DEF TypeOK, Streams
    <2>2. [me EXCEPT !.pc = "locked", !.batch = new] \in Streams
      BY <1>1, <2>1 DEF Streams
    <2> QED  BY <1>6, <2>2, <1>3 DEF ReadBatch
  <1>7. CASE Fetch(c)
    <2>1. Page(result[me.of]) \in Views
      BY <1>1, <1>7 DEF Page, TypeOK, Streams, Results, Views
    <2>2. [me EXCEPT !.pc = "shown", !.sees = Page(result[me.of])] \in Streams
      BY <1>1, <2>1 DEF Streams
    <2> QED  BY <1>7, <2>2, <1>3 DEF Fetch
  <1>8. CASE Deliver(c)
    <2> DEFINE e == Head(me.batch)
               rest == Tail(me.batch)
    <2>1. e \in Events /\ rest \in Seq(Events) /\ Append(me.got, e) \in Seq(Events)
      BY <1>1, <1>8, HeadTailProperties, AppendProperties DEF Deliver, Streams
    <2>2. ASSUME NEW p \in {"ended", "poll", "deliver"}, NEW w \in {"outcome", "none"}
          PROVE  [me EXCEPT !.got = Append(me.got, e), !.batch = rest,
                            !.pc = p, !.why = w] \in Streams
      BY <1>1, <2>1 DEF Streams
    <2> QED  BY <1>8, <2>2, <1>3 DEF Deliver
  <1> QED  BY <1>4, <1>5, <1>6, <1>7, <1>8 DEF Stream

\* Every reachable state is well typed.
THEOREM TypeCorrect == Spec => []TypeOK
  <1>1. TypeOK /\ [Next]_vars => TypeOK'
    <2> SUFFICES ASSUME TypeOK, [Next]_vars PROVE TypeOK'  OBVIOUS
    <2>1. CASE UNCHANGED vars  BY <2>1 DEF vars, TypeOK
    <2> QED  BY <2>1, WorkerTypeOK, StreamTypeOK DEF Next, Quiescent
  <1> QED  BY <1>1, InitTypeOK, PTL DEF Spec

-----------------------------------------------------------------------------
(* The inductive invariant. A run's worker: its feed stays registered and   *)
(* open until it ends, its log has an outcome exactly from the announcement *)
(* on, and the outcome agrees with the result recorded before it.           *)
WorkerInv ==
    /\ \A r \in Runs : phase[r] \in InProgress => r \in registered
    /\ \A r \in Runs : closed[r] => phase[r] = "ended"
    /\ \A r \in Runs : entries[r] = emitted[r]
    /\ \A r \in Runs : phase[r] \in {"settled", "announced", "ended"} =>
           result[r] \in {"done", "preliminary", "failed"}
    /\ \A r \in Runs : phase[r] \notin {"announced", "ended"} =>
           \A i \in 1..Len(emitted[r]) : emitted[r][i] \notin Outcomes
    /\ \A r \in Runs : phase[r] \in {"announced", "ended"} =>
           /\ Len(emitted[r]) > 0
           /\ emitted[r][Len(emitted[r])] \in Outcomes
    /\ \A r \in Runs : \A i \in 1..Len(emitted[r]) :
           /\ emitted[r][i] = "done" => result[r] \in {"done", "preliminary"}
           /\ emitted[r][i] = "failed" => result[r] = "failed"

(* A stream: what the client received, followed by the batch copied for it, *)
(* is a prefix of the log; an empty batch read under the lock means the     *)
(* client has everything, because no event can be added before the lock is  *)
(* released.                                                                *)
Follows(got, batch, log) ==
    /\ Len(got) + Len(batch) <= Len(log)
    /\ \A i \in 1..Len(got) : got[i] = log[i]
    /\ \A i \in 1..Len(batch) : batch[i] = log[Len(got) + i]

ReceivedInv(c) == Follows(client[c].got, client[c].batch, emitted[client[c].of])

EndInv(c) ==
    LET log == emitted[client[c].of]
        got == client[c].got
    IN  /\ client[c].pc = "idle" =>
               got = <<>> /\ client[c].batch = <<>> /\ client[c].why # "eof"
        /\ client[c].pc = "locked" /\ client[c].batch = <<>> => Len(got) = Len(log)
        /\ client[c].why = "eof" =>
               Len(got) = Len(log) /\ phase[client[c].of] = "ended"

StreamInv == \A c \in Clients : ReceivedInv(c) /\ EndInv(c)

IInv == TypeOK /\ WorkerInv /\ StreamInv

\* Following a log survives an event added at its end.
LEMMA FollowsLonger ==
  ASSUME NEW S, NEW got \in Seq(S), NEW batch \in Seq(S), NEW log \in Seq(S),
         NEW e \in S, Follows(got, batch, log)
  PROVE  Follows(got, batch, Append(log, e))
  <1>1. /\ Len(Append(log, e)) = Len(log) + 1
        /\ \A i \in 1..Len(log) : Append(log, e)[i] = log[i]
    BY AppendProperties
  <1>2. Len(got) \in Nat /\ Len(batch) \in Nat /\ Len(log) \in Nat
    BY LenProperties
  <1> QED  BY <1>1, <1>2 DEF Follows

\* Copying what the client lacks follows the log.
LEMMA FollowsCopy ==
  ASSUME NEW S, NEW got \in Seq(S), NEW batch \in Seq(S), NEW log \in Seq(S),
         Follows(got, batch, log)
  PROVE  LET rest == SubSeq(log, Len(got) + 1, Len(log))
         IN  Follows(got, rest, log) /\ (rest = <<>> => Len(got) = Len(log))
  <1> DEFINE rest == SubSeq(log, Len(got) + 1, Len(log))
  <1>1. Len(got) \in Nat /\ Len(batch) \in Nat /\ Len(log) \in Nat
    BY LenProperties
  <1>2. Len(got) <= Len(log)  BY <1>1 DEF Follows
  <1>3. /\ Len(rest) = Len(log) - Len(got)
        /\ \A i \in 1..Len(log) - Len(got) : rest[i] = log[Len(got) + i]
    BY <1>1, <1>2, SubSeqProperties
  <1>4. rest = <<>> => Len(rest) = 0  BY EmptySeq
  <1>5. \A i \in 1..Len(got) : got[i] = log[i]
    BY DEF Follows
  <1> HIDE DEF rest
  <1>6. Len(got) + Len(rest) <= Len(log)
    BY <1>1, <1>2, <1>3
  <1>7. \A i \in 1..Len(rest) : rest[i] = log[Len(got) + i]
    BY <1>3
  <1>8. Follows(got, rest, log)
    BY <1>5, <1>6, <1>7, Zenon DEF Follows
  <1>9. rest = <<>> => Len(got) = Len(log)
    BY <1>1, <1>3, <1>4
  <1> QED  BY <1>8, <1>9 DEF rest

\* Handing the batch's first event to the client follows the log.
LEMMA FollowsDelivery ==
  ASSUME NEW S, NEW got \in Seq(S), NEW batch \in Seq(S), NEW log \in Seq(S),
         Follows(got, batch, log), batch # <<>>
  PROVE  Follows(Append(got, Head(batch)), Tail(batch), log)
  <1>1. Len(got) \in Nat /\ Len(batch) \in Nat /\ Len(log) \in Nat
    BY LenProperties
  <1>2. /\ Len(Tail(batch)) = Len(batch) - 1
        /\ \A i \in 1..Len(Tail(batch)) : Tail(batch)[i] = batch[i + 1]
        /\ Head(batch) = batch[1] /\ Head(batch) \in S
    BY HeadTailProperties
  <1>3. /\ Len(Append(got, Head(batch))) = Len(got) + 1
        /\ \A i \in 1..Len(got) : Append(got, Head(batch))[i] = got[i]
        /\ Append(got, Head(batch))[Len(got) + 1] = Head(batch)
    BY <1>2, AppendProperties
  <1>4. Len(batch) >= 1  BY <1>1, EmptySeq
  <1> QED  BY <1>1, <1>2, <1>3, <1>4 DEF Follows

LEMMA InitIInv == Init => IInv
  <1> SUFFICES ASSUME Init PROVE IInv  OBVIOUS
  <1>1. TypeOK  BY InitTypeOK
  <1>2. Len(<<>>) = 0  BY EmptySeq
  <1>3. WorkerInv
    BY <1>2 DEF Init, WorkerInv, InProgress
  <1>4. StreamInv
    BY <1>1, <1>2 DEF Init, StreamInv, ReceivedInv, Follows, EndInv, NewClient, TypeOK, Streams
  <1> QED  BY <1>1, <1>3, <1>4 DEF IInv

\* What publishing does to the history of a run: one event at its end.
LEMMA EmitAppends ==
  ASSUME TypeOK, NEW r \in Runs, NEW e \in Events, Emit(r, e)
  PROVE  /\ \A q \in Runs : q # r => emitted'[q] = emitted[q]
         /\ emitted'[r] = Append(emitted[r], e)
         /\ Len(emitted'[r]) = Len(emitted[r]) + 1
         /\ \A i \in 1..Len(emitted[r]) : emitted'[r][i] = emitted[r][i]
         /\ emitted'[r][Len(emitted[r]) + 1] = e
         /\ LockFree(r)
  <1>1. emitted[r] \in Seq(Events) /\ emitted \in [Runs -> Seq(Events)]  BY DEF TypeOK
  <1>2. emitted' = [emitted EXCEPT ![r] = Append(emitted[r], e)]  BY DEF Emit
  <1> QED  BY <1>1, <1>2, AppendProperties DEF Emit

\* What a worker step may do to the history: nothing, or one event of its own
\* run, published while no stream of that run is between its two reads.
LEMMA WorkerHistory ==
  ASSUME TypeOK, NEW r \in Runs, NewRun(r) \/ Worker(r) \/ RunnerEmits(r)
  PROVE  /\ client' = client
         /\ \A q \in Runs : q # r => phase'[q] = phase[q]
         /\ phase[r] # "ended"
         /\ \/ emitted' = emitted
            \/ \E e \in Events : Emit(r, e)
  <1>1. CASE NewRun(r)        BY <1>1 DEF NewRun, TypeOK
  <1>2. CASE RecordRun(r)     BY <1>2 DEF RecordRun, TypeOK
  <1>3. CASE EmitRunning(r)   BY <1>3 DEF EmitRunning, TypeOK, Events
  <1>4. CASE RunnerReturns(r) BY <1>4 DEF RunnerReturns, TypeOK
  <1>5. CASE EmitOutcome(r)   BY <1>5 DEF EmitOutcome, TypeOK, Events, Outcomes
  <1>6. CASE Close(r)         BY <1>6 DEF Close, TypeOK
  <1>7. CASE RunnerEmits(r)   BY <1>7 DEF RunnerEmits, TypeOK, Events
  <1> QED  BY <1>1, <1>2, <1>3, <1>4, <1>5, <1>6, <1>7 DEF Worker

\* Streams survive every step of a worker: the log only grows at its end.
LEMMA WorkerKeepsStreams ==
  ASSUME IInv, NEW r \in Runs, NewRun(r) \/ Worker(r) \/ RunnerEmits(r)
  PROVE  StreamInv'
  <1> SUFFICES ASSUME NEW c \in Clients PROVE (ReceivedInv(c) /\ EndInv(c))'
    BY DEF StreamInv
  <1>1. /\ client' = client
        /\ client[c] \in Streams
        /\ ReceivedInv(c) /\ EndInv(c)
        /\ phase[r] # "ended"
        /\ \A q \in Runs : q # r => phase'[q] = phase[q]
    BY WorkerHistory DEF IInv, StreamInv, TypeOK
  <1>2. CASE emitted' = emitted
    BY <1>1, <1>2 DEF ReceivedInv, EndInv, Streams
  <1>3. CASE \E e \in Events : Emit(r, e)
    <2> PICK e \in Events : Emit(r, e)  BY <1>3
    <2> DEFINE log == emitted[client[c].of]
    <2>1. /\ client[c].of \in Runs /\ log \in Seq(Events)
          /\ client[c].got \in Seq(Events) /\ client[c].batch \in Seq(Events)
      BY <1>1 DEF IInv, TypeOK, Streams
    <2>2. CASE client[c].of # r
      <3>1. log' = log /\ phase'[client[c].of] = phase[client[c].of]
        BY <1>1, <2>1, <2>2, EmitAppends DEF IInv
      <3> QED  BY <1>1, <3>1 DEF ReceivedInv, EndInv
    <2>3. CASE client[c].of = r
      <3>1. log' = Append(log, e) /\ LockFree(r)
        BY <1>1, <2>3, EmitAppends DEF IInv
      <3>2. client[c].pc # "locked"  BY <2>3, <3>1 DEF LockFree
      <3>3. client[c].why # "eof"    BY <1>1, <2>3 DEF EndInv
      <3>4. ReceivedInv(c)'
        BY <1>1, <2>1, <3>1, FollowsLonger DEF ReceivedInv
      <3>5. EndInv(c)'  BY <1>1, <3>2, <3>3 DEF EndInv
      <3> QED  BY <3>4, <3>5
    <2> QED  BY <2>2, <2>3
  <1> QED  BY <1>2, <1>3, WorkerHistory DEF IInv

\* What publishing preserves of WorkerInv: the two logs agree, and only an
\* outcome event can change what the invariant says of the run.
LEMMA EmitKeepsLogs ==
  ASSUME IInv, NEW r \in Runs, NEW e \in Events, Emit(r, e), r \in registered
  PROVE  \A q \in Runs : entries'[q] = emitted'[q]
  BY DEF Emit, IInv, WorkerInv, TypeOK

\* WorkerInv survives every step of a worker.
LEMMA WorkerKeepsWorkers ==
  ASSUME IInv, NEW r \in Runs, NewRun(r) \/ Worker(r) \/ RunnerEmits(r)
  PROVE  WorkerInv'
  <1> USE DEF InProgress, Outcomes
  <1>1. TypeOK /\ WorkerInv  BY DEF IInv
  <1>2. \A q \in Runs : Len(emitted[q]) \in Nat  BY <1>1 DEF TypeOK
  <1>3. CASE NewRun(r)
    <2>1. Evicted \subseteq {q \in registered : closed[q]}  BY DEF Evicted
    <2>2. \A q \in Evicted : phase[q] = "ended"  BY <1>1, <2>1 DEF WorkerInv, TypeOK
    <2> QED  BY <1>1, <1>3, <2>2 DEF NewRun, WorkerInv, TypeOK
  <1>4. CASE RecordRun(r)      BY <1>1, <1>4 DEF RecordRun, WorkerInv, TypeOK
  <1>5. CASE RunnerReturns(r)
    <2>1. PICK o \in {"done", "preliminary", "failed"} :
            result' = [result EXCEPT ![r] = o]
      BY <1>5 DEF RunnerReturns
    <2>2. /\ phase[r] = "running" /\ phase' = [phase EXCEPT ![r] = "settled"]
          /\ UNCHANGED <<registered, closed, entries, emitted>>
      BY <1>5 DEF RunnerReturns
    <2>3. \A i \in 1..Len(emitted[r]) : emitted[r][i] \notin Outcomes
      BY <1>1, <2>2 DEF WorkerInv
    <2> QED  BY <1>1, <2>1, <2>2, <2>3 DEF WorkerInv, TypeOK
  <1>6. CASE Close(r)          BY <1>1, <1>6 DEF Close, WorkerInv, TypeOK
  <1>7. CASE EmitRunning(r) \/ RunnerEmits(r)
    <2>1. PICK e \in Lanes \cup {"running"} : Emit(r, e)
      BY <1>7 DEF EmitRunning, RunnerEmits
    <2>2. e \in Events /\ e \notin Outcomes
      BY RunServerAssumption DEF Events, RunServerAssumption
    <2>3. r \in registered /\ phase[r] \in {"queued", "running"} /\ phase'[r] = "running"
      BY <1>1, <1>7 DEF EmitRunning, RunnerEmits, WorkerInv, TypeOK
    <2>4. /\ \A q \in Runs : q # r => emitted'[q] = emitted[q] /\ phase'[q] = phase[q]
          /\ Len(emitted'[r]) = Len(emitted[r]) + 1
          /\ \A i \in 1..Len(emitted[r]) : emitted'[r][i] = emitted[r][i]
          /\ emitted'[r][Len(emitted[r]) + 1] = e
          /\ UNCHANGED <<registered, closed, result>>
      BY <1>1, <1>7, <2>1, <2>2, EmitAppends DEF EmitRunning, RunnerEmits, TypeOK
    <2>5. \A i \in 1..Len(emitted'[r]) : emitted'[r][i] \notin Outcomes
      BY <1>1, <1>2, <2>2, <2>3, <2>4 DEF WorkerInv
    <2>6. \A q \in Runs : entries'[q] = emitted'[q]
      BY <2>1, <2>2, <2>3, EmitKeepsLogs
    <2>7. \A i \in 1..Len(emitted'[r]) : emitted'[r][i] \notin {"done", "failed"}
      BY <2>5
    <2> QED  BY SMTT(30), <1>1, <2>3, <2>4, <2>5, <2>6, <2>7 DEF WorkerInv
  <1>8. CASE EmitOutcome(r)
    <2> DEFINE e == IF result[r] = "failed" THEN "failed" ELSE "done"
    <2>1. Emit(r, e) /\ e \in Events /\ e \in Outcomes
      BY <1>8 DEF EmitOutcome, Events
    <2>2. r \in registered /\ phase[r] = "settled" /\ phase'[r] = "announced"
      BY <1>1, <1>8 DEF EmitOutcome, WorkerInv, TypeOK
    <2>3. /\ result[r] \in {"done", "preliminary", "failed"}
          /\ \A i \in 1..Len(emitted[r]) : emitted[r][i] \notin Outcomes
      BY <1>1, <2>2 DEF WorkerInv
    <2> HIDE DEF e
    <2>4. /\ \A q \in Runs : q # r => emitted'[q] = emitted[q] /\ phase'[q] = phase[q]
          /\ Len(emitted'[r]) = Len(emitted[r]) + 1
          /\ \A i \in 1..Len(emitted[r]) : emitted'[r][i] = emitted[r][i]
          /\ emitted'[r][Len(emitted[r]) + 1] = e
          /\ UNCHANGED <<registered, closed, result>>
      BY <1>1, <1>8, <2>1, EmitAppends DEF EmitOutcome, TypeOK
    <2>5. \A i \in 1..Len(emitted'[r]) :
              /\ emitted'[r][i] = "done" => result[r] \in {"done", "preliminary"}
              /\ emitted'[r][i] = "failed" => result[r] = "failed"
      BY <1>2, <2>3, <2>4 DEF e
    <2>6. \A q \in Runs : entries'[q] = emitted'[q]
      BY <2>1, <2>2, EmitKeepsLogs
    <2>7. Len(emitted'[r]) > 0 /\ emitted'[r][Len(emitted'[r])] \in Outcomes
      BY <1>2, <2>1, <2>4
    <2> QED  BY <1>1, <2>2, <2>3, <2>4, <2>5, <2>6, <2>7 DEF WorkerInv
  <1> QED  BY <1>3, <1>4, <1>5, <1>6, <1>7, <1>8 DEF Worker

\* Streams survive every step of a stream.
LEMMA StreamKeepsStreams ==
  ASSUME IInv, NEW c \in Clients,
         Stream(c) \/ Drop(c) \/ \E r \in Runs : Subscribe(c, r)
  PROVE  StreamInv'
  <1> DEFINE me == client[c]
             log == emitted[me.of]
  <1>1. /\ me \in Streams /\ client \in [Clients -> Streams]
        /\ ReceivedInv(c) /\ EndInv(c)
        /\ StreamInv /\ WorkerInv
        /\ entries[me.of] = log
    BY DEF IInv, TypeOK, StreamInv, WorkerInv, Streams
  <1>2. /\ me.got \in Seq(Events) /\ me.batch \in Seq(Events) /\ log \in Seq(Events)
        /\ me.of \in Runs
    BY <1>1 DEF Streams, IInv, TypeOK
  <1>3. UNCHANGED <<emitted, phase>>
    BY DEF Stream, Subscribe, Attach, ReadBatch, ReadClosed, Deliver, Drop, Fetch, server
  <1>4. ASSUME NEW s, client' = [client EXCEPT ![c] = s],
               ReceivedInv(c)' /\ EndInv(c)'
        PROVE  StreamInv'
    BY <1>1, <1>3, <1>4 DEF StreamInv, ReceivedInv, EndInv
  <1>5. ASSUME NEW s, client' = [client EXCEPT ![c] = s]
        PROVE  client'[c] = s
    BY <1>1, <1>5
  <1>6. CASE \E r \in Runs : Subscribe(c, r)
    <2> PICK r \in Runs : Subscribe(c, r)  BY <1>6
    <2>1. me.got = <<>> /\ me.batch = <<>> /\ me.why # "eof"
      BY <1>1 DEF Subscribe, EndInv
    <2>2. PICK p \in {"admitted", "ended"}, w \in {me.why, "refused"} :
            client' = [client EXCEPT ![c] = [me EXCEPT !.pc = p, !.of = r, !.why = w]]
      <3>1. CASE r \in registered
        <4>1. [me EXCEPT !.pc = "admitted", !.of = r, !.why = me.why]
                  = [me EXCEPT !.pc = "admitted", !.of = r]
          BY <1>1 DEF Streams
        <4> QED  BY <3>1, <4>1 DEF Subscribe
      <3> QED  BY <3>1 DEF Subscribe
    <2>3. client'[c] = [me EXCEPT !.pc = p, !.of = r, !.why = w]  BY <2>2, <1>5
    <2>4. /\ client'[c].got = <<>> /\ client'[c].batch = <<>> /\ client'[c].why # "eof"
          /\ client'[c].pc \notin {"idle", "locked"} /\ client'[c].of = r
      BY <1>1, <2>1, <2>3 DEF Streams
    <2>5. Follows(<<>>, <<>>, emitted[r])
      <3>1. Len(<<>>) = 0 /\ Len(emitted[r]) \in Nat  BY EmptySeq DEF IInv, TypeOK
      <3> QED  BY <3>1 DEF Follows
    <2>6. ReceivedInv(c)' /\ EndInv(c)'
      BY <1>3, <2>4, <2>5 DEF ReceivedInv, EndInv
    <2> QED  BY <1>4, <2>2, <2>6
  <1>7. CASE Attach(c) \/ ReadClosed(c) \/ Drop(c) \/ Fetch(c)
    <2>1. PICK s : client' = [client EXCEPT ![c] = s]
      BY <1>7 DEF Attach, ReadClosed, Drop, Fetch
    <2>2. /\ client'[c].got = me.got /\ client'[c].batch = me.batch
          /\ client'[c].of = me.of /\ client'[c].pc \notin {"idle", "locked"}
          /\ client'[c].why = "eof" =>
                 \/ me.why = "eof"
                 \/ me.pc = "locked" /\ me.batch = <<>> /\ closed[me.of]
      <3>1. CASE Attach(c)
        <4>1. CASE client' = [client EXCEPT ![c] = [me EXCEPT !.pc = "poll"]]
          BY <1>1, <4>1 DEF Streams
        <4>2. CASE client' = [client EXCEPT ![c] =
                                 [me EXCEPT !.pc = "ended", !.why = "refused"]]
          BY <1>1, <4>2 DEF Streams
        <4> QED  BY <3>1, <4>1, <4>2 DEF Attach
      <3>2. CASE ReadClosed(c)
        <4>1. CASE \E q \in {"poll", "deliver"} :
                       client' = [client EXCEPT ![c] = [me EXCEPT !.pc = q]]
          BY <1>1, <4>1 DEF Streams
        <4>2. CASE /\ client' = [client EXCEPT ![c] = [me EXCEPT !.pc = "ended", !.why = "eof"]]
                   /\ me.pc = "locked" /\ me.batch = <<>> /\ closed[me.of]
          BY <1>1, <4>2 DEF Streams
        <4> QED  BY <3>2, <4>1, <4>2 DEF ReadClosed
      <3>3. CASE Drop(c)        BY <1>1, <3>3 DEF Drop, Streams
      <3>4. CASE Fetch(c)       BY <1>1, <3>4 DEF Fetch, Streams
      <3> QED  BY <1>7, <3>1, <3>2, <3>3, <3>4
    <2>3. ReceivedInv(c)'
      BY <1>1, <1>3, <2>2 DEF ReceivedInv
    <2>4. client'[c].why = "eof" => Len(me.got) = Len(log) /\ phase[me.of] = "ended"
      BY <1>1, <1>2, <2>2 DEF EndInv, WorkerInv
    <2>5. EndInv(c)'
      BY <1>3, <2>2, <2>4 DEF EndInv
    <2> QED  BY <1>4, <2>1, <2>3, <2>5
  <1>8. CASE ReadBatch(c)
    <2> DEFINE new == SubSeq(log, Len(me.got) + 1, Len(log))
    <2>1. client' = [client EXCEPT ![c] = [me EXCEPT !.pc = "locked", !.batch = new]]
      BY <1>1, <1>8 DEF ReadBatch
    <2>2. Follows(me.got, new, log) /\ (new = <<>> => Len(me.got) = Len(log))
      BY <1>1, <1>2, FollowsCopy DEF ReceivedInv
    <2> HIDE DEF new
    <2>3. /\ client'[c].got = me.got /\ client'[c].batch = new /\ client'[c].of = me.of
          /\ client'[c].pc = "locked" /\ client'[c].why = me.why
      BY <1>1, <2>1 DEF Streams
    <2> QED  BY <1>1, <1>3, <1>4, <2>1, <2>2, <2>3 DEF ReceivedInv, EndInv
  <1>9. CASE Deliver(c)
    <2>1. PICK p \in {"ended", "poll", "deliver"}, w \in {"outcome", "none"} :
            client' = [client EXCEPT ![c] = [me EXCEPT !.got = Append(me.got, Head(me.batch)),
                           !.batch = Tail(me.batch), !.pc = p, !.why = w]]
      BY <1>9 DEF Deliver
    <2>2. Follows(Append(me.got, Head(me.batch)), Tail(me.batch), log)
      BY <1>1, <1>2, <1>9, FollowsDelivery DEF ReceivedInv, Deliver
    <2>3. /\ client'[c].got = Append(me.got, Head(me.batch))
          /\ client'[c].batch = Tail(me.batch) /\ client'[c].of = me.of
          /\ client'[c].pc = p /\ client'[c].why = w
      BY <1>1, <2>1 DEF Streams
    <2> QED  BY <1>3, <1>4, <2>1, <2>2, <2>3 DEF ReceivedInv, EndInv
  <1> QED  BY <1>6, <1>7, <1>8, <1>9 DEF Stream

\* The inductive invariant holds in every reachable state.
THEOREM InvariantHolds == Spec => []IInv
  <1>1. IInv /\ [Next]_vars => IInv'
    <2> SUFFICES ASSUME IInv, [Next]_vars PROVE IInv'  OBVIOUS
    <2>1. CASE UNCHANGED vars
      BY <2>1 DEF vars, IInv, TypeOK, WorkerInv, StreamInv, ReceivedInv, EndInv
    <2>2. CASE \E r \in Runs : NewRun(r) \/ Worker(r) \/ RunnerEmits(r)
      BY <2>2, WorkerTypeOK, WorkerKeepsWorkers, WorkerKeepsStreams DEF IInv
    <2>3. ASSUME NEW c \in Clients,
                 Stream(c) \/ Drop(c) \/ \E r \in Runs : Subscribe(c, r)
          PROVE  IInv'
      <3>1. UNCHANGED server
        BY <2>3 DEF Stream, Subscribe, Attach, ReadBatch, ReadClosed, Deliver, Drop, Fetch
      <3>2. WorkerInv'  BY <3>1 DEF IInv, WorkerInv, server
      <3> QED  BY <2>3, <3>2, StreamTypeOK, StreamKeepsStreams DEF IInv
    <2> QED  BY <2>1, <2>2, <2>3 DEF Next, Quiescent
  <1> QED  BY <1>1, InitIInv, PTL DEF Spec

\* No event of any run is ever lost, however small the registry.
THEOREM EventsKept == Spec => []NoEventDropped
  <1>1. IInv => NoEventDropped  BY DEF IInv, WorkerInv, NoEventDropped
  <1> QED  BY <1>1, InvariantHolds, PTL

\* A stream ended by the server has delivered everything, outcome included.
LEMMA EndedStreamsAreWhole ==
    ASSUME IInv, NEW c \in Clients, client[c].why = "eof"
    PROVE  /\ client[c].got = emitted[client[c].of]
           /\ Last(client[c].got) \in Outcomes
  <1> DEFINE got == client[c].got
             log == emitted[client[c].of]
  <1>1. got \in Seq(Events) /\ log \in Seq(Events) /\ client[c].of \in Runs
    BY DEF IInv, TypeOK, Streams
  <1>2. Len(got) = Len(log) /\ phase[client[c].of] = "ended"
    BY DEF IInv, StreamInv, EndInv
  <1>3. \A i \in 1..Len(got) : got[i] = log[i]
    BY DEF IInv, StreamInv, ReceivedInv, Follows
  <1>4. got = log  BY <1>1, <1>2, <1>3, SeqEqual
  <1>5. log[Len(log)] \in Outcomes  BY <1>1, <1>2 DEF IInv, WorkerInv
  <1> QED  BY <1>4, <1>5 DEF Last

\* Every client holds a prefix of its run's history, and the whole of it when the
\* server ended its stream, for any number of clients.
THEOREM StreamsInOrder == Spec => []StreamFaithful
  <1>1. ASSUME NEW S, NEW got \in Seq(S), NEW batch \in Seq(S), NEW log \in Seq(S),
               Follows(got, batch, log)
        PROVE  IsPrefix(got, log)
    <2>1. /\ Len(got) \in Nat /\ Len(batch) \in Nat /\ Len(log) \in Nat
          /\ Len(got) <= Len(log)
          /\ \A i \in 1..Len(got) : got[i] = log[i]
      BY <1>1, LenProperties DEF Follows
    <2>2. \A i \in 1..Len(got) : got[i] \in S /\ log[i] \in S
      BY <2>1, ElementOfSeq
    <2>3. /\ SubSeq(got, 1, Len(got)) \in Seq(S)
          /\ Len(SubSeq(got, 1, Len(got))) = Len(got)
          /\ \A i \in 1..Len(got) : SubSeq(got, 1, Len(got))[i] = got[i]
      BY <2>1, <2>2, SubSeqProperties
    <2>4. /\ SubSeq(log, 1, Len(got)) \in Seq(S)
          /\ Len(SubSeq(log, 1, Len(got))) = Len(got)
          /\ \A i \in 1..Len(got) : SubSeq(log, 1, Len(got))[i] = log[i]
      BY <2>1, <2>2, SubSeqProperties
    <2>5. SubSeq(got, 1, Len(got)) = SubSeq(log, 1, Len(got))
      BY <2>1, <2>3, <2>4, SeqEqual
    <2> QED  BY <2>1, <2>5 DEF IsPrefix
  <1>2. IInv => StreamFaithful
    <2> SUFFICES ASSUME IInv, NEW c \in Clients
                 PROVE  IsPrefix(client[c].got, emitted[client[c].of])
      BY EndedStreamsAreWhole DEF StreamFaithful
    <2>1. /\ client[c].got \in Seq(Events) /\ client[c].batch \in Seq(Events)
          /\ emitted[client[c].of] \in Seq(Events)
      BY DEF IInv, TypeOK, Streams
    <2> QED  BY <1>1, <2>1 DEF IInv, StreamInv, ReceivedInv
  <1> QED  BY <1>2, InvariantHolds, PTL

\* A client that has seen the outcome finds the result recorded and in agreement.
THEOREM OutcomesSettled == Spec => []OutcomeSettledWhenAnnounced
  <1>1. IInv => OutcomeSettledWhenAnnounced
    <2> SUFFICES ASSUME IInv, NEW c \in Clients, NEW i \in DOMAIN client[c].got
                 PROVE  /\ client[c].got[i] = "done" =>
                               result[client[c].of] \in {"done", "preliminary"}
                        /\ client[c].got[i] = "failed" => result[client[c].of] = "failed"
      BY DEF OutcomeSettledWhenAnnounced
    <2> DEFINE got == client[c].got
               log == emitted[client[c].of]
    <2>1. /\ got \in Seq(Events) /\ log \in Seq(Events) /\ client[c].batch \in Seq(Events)
          /\ client[c].of \in Runs
      BY DEF IInv, TypeOK, Streams
    <2>2. i \in 1..Len(got) /\ Len(got) \in Nat /\ Len(log) \in Nat
          /\ Len(client[c].batch) \in Nat
      BY <2>1, LenProperties
    <2>3. Len(got) <= Len(log) /\ got[i] = log[i]
      <3>1. Follows(got, client[c].batch, log)  BY DEF IInv, StreamInv, ReceivedInv
      <3> HIDE DEF got, log
      <3> QED  BY <2>2, <3>1 DEF Follows
    <2>4. i \in 1..Len(log)  BY <2>2, <2>3
    <2> QED  BY <2>1, <2>3, <2>4 DEF IInv, WorkerInv
  <1> QED  BY <1>1, InvariantHolds, PTL

------------------------------------------------------------------------------
\* Of some numbers one is the least.
LEMMA LeastNumber ==
  ASSUME NEW T, T \subseteq Nat, T # {}
  PROVE  \E x \in T : \A y \in T : x <= y
  <1>1. PICK x \in T : \A y \in T : <<y, x>> \notin OpToRel(<, Nat)
    BY WFMin, NatLessThanWellFounded
  <1>2. \A y \in T : ~(y < x)
    BY <1>1 DEF OpToRel
  <1> QED  BY <1>2

\* What else is known of the registry: who is in it is in progress or closed, and
\* the peak is at least the number of runs in progress.
RegistryInv ==
    /\ \A r \in registered : phase[r] # "new" /\ (phase[r] = "ended" => closed[r])
    /\ Cardinality(Running) <= peak
    /\ RegistryBounded

\* Subsets of the runs are finite.
LEMMA RunsFinite ==
  ASSUME NEW S, S \subseteq Runs
  PROVE  IsFiniteSet(S) /\ Cardinality(S) \in Nat
  BY RunServerAssumption, FS_Subset, FS_CardinalityType DEF RunServerAssumption

\* The registry is empty at first.
LEMMA InitRegistry == Init => RegistryInv
  <1> SUFFICES ASSUME Init PROVE RegistryInv  OBVIOUS
  <1>1. Running = {} /\ registered = {} /\ peak = 0
    BY DEF Init, Running, InProgress
  <1>2. Cardinality({}) = 0
    BY FS_EmptySet
  <1> QED  BY <1>1, <1>2, RunServerAssumption
         DEF RegistryInv, RegistryBounded, RunServerAssumption

\* A new run evicts a closed feed if there is one, and finds the registry full of runs in
\* progress if there is none.
LEMMA NewRunRegistry ==
  ASSUME IInv, RegistryInv, NEW r \in Runs, NewRun(r)
  PROVE  RegistryInv'
  <1> DEFINE kept == registered \ Evicted
  <1>1. /\ registered \subseteq Runs /\ peak \in Nat /\ MaxRuns \in Nat /\ created \in [Runs -> Nat]
        /\ phase \in [Runs -> Phases] /\ closed \in [Runs -> BOOLEAN]
    BY RunServerAssumption DEF IInv, TypeOK, RunServerAssumption
  <1>2. /\ registered' = kept \cup {r} /\ phase' = [phase EXCEPT ![r] = "created"]
        /\ closed' = closed /\ phase[r] = "new"
    BY DEF NewRun
  <1>3. Running' = Running \cup {r} /\ r \notin Running /\ Running \subseteq Runs
    BY <1>1, <1>2 DEF Running, InProgress
  <1>4. Cardinality(Running') = Cardinality(Running) + 1 /\ Cardinality(Running) \in Nat
    BY <1>3, RunsFinite, FS_AddElement
  <1>5. peak' \in Nat /\ peak <= peak' /\ Cardinality(Running') <= peak'
    BY <1>1, <1>4 DEF NewRun
  <1>6. \A q \in registered' : phase'[q] # "new" /\ (phase'[q] = "ended" => closed'[q])
    BY <1>1, <1>2 DEF RegistryInv
  <1>7. /\ kept \subseteq Runs /\ Cardinality(kept) <= Cardinality(registered)
        /\ Cardinality(kept) \in Nat /\ Cardinality(registered) \in Nat
        /\ Cardinality(registered') <= Cardinality(kept) + 1
        /\ Cardinality(registered') \in Nat
    <2>1. kept \subseteq registered /\ kept \subseteq Runs
      BY <1>1
    <2>2. IsFiniteSet(registered) /\ IsFiniteSet(kept)
          /\ Cardinality(kept) \in Nat /\ Cardinality(registered) \in Nat
      BY <1>1, <2>1, RunsFinite
    <2>3. Cardinality(kept) <= Cardinality(registered)
      BY <2>1, <2>2, FS_Subset
    <2> HIDE DEF kept
    <2>4. Cardinality(kept \cup {r}) =
            IF r \in kept THEN Cardinality(kept) ELSE Cardinality(kept) + 1
      BY <2>2, FS_AddElement
    <2> QED  BY <1>2, <2>1, <2>2, <2>3, <2>4
  <1>8. Cardinality(registered) <= IF peak > MaxRuns THEN peak ELSE MaxRuns
    BY DEF RegistryInv, RegistryBounded
  <1>9. Cardinality(registered') <= IF peak' > MaxRuns THEN peak' ELSE MaxRuns
    <2>1. CASE Cardinality(registered) < MaxRuns
      BY <1>1, <1>5, <1>7, <2>1
    <2>2. CASE ~(Cardinality(registered) < MaxRuns) /\ \E q \in registered : closed[q]
      <3>1. PICK q \in Evicted : q \in registered
        <4> DEFINE T == {created[p] : p \in {o \in registered : closed[o]}}
        <4>1. T \subseteq Nat /\ T # {}
          BY <1>1, <2>2
        <4>2. PICK x \in T : \A y \in T : x <= y
          <5> HIDE DEF T
          <5> QED  BY <4>1, LeastNumber
        <4>3. PICK p \in registered : closed[p] /\ created[p] = x
          BY <4>2
        <4>4. \A o \in registered : closed[o] => created[p] <= created[o]
          BY <4>2, <4>3
        <4>5. p \in Evicted
          BY <2>2, <4>3, <4>4 DEF Evicted
        <4> QED  BY <4>3, <4>5
      <3>2. kept \subseteq registered \ {q} /\ registered \ {q} \subseteq Runs
        BY <1>1, <3>1
      <3>3. Cardinality(registered \ {q}) = Cardinality(registered) - 1
        BY <1>1, <3>1, RunsFinite, FS_RemoveElement
      <3>4. Cardinality(kept) <= Cardinality(registered \ {q})
        <4>1. IsFiniteSet(registered \ {q})
          BY <3>2, RunsFinite
        <4> HIDE DEF kept
        <4> QED  BY <3>2, <4>1, FS_Subset
      <3> QED  BY <1>1, <1>5, <1>7, <1>8, <3>3, <3>4
    <2>3. CASE \A q \in registered : ~closed[q]
      <3>1. registered \subseteq Running
        BY <1>1, <2>3 DEF RegistryInv, Running, Phases, InProgress
      <3>2. registered' \subseteq Running' /\ Running' \subseteq Runs
        BY <1>1, <1>2, <1>3, <3>1
      <3>3. IsFiniteSet(Running') /\ Cardinality(Running') \in Nat
        BY <3>2, RunsFinite
      <3>4. Cardinality(registered') <= Cardinality(Running')
        BY <3>2, <3>3, FS_Subset
      <3> QED  BY <1>1, <1>5, <1>7, <3>3, <3>4
    <2> QED  BY <2>1, <2>2, <2>3
  <1> QED  BY <1>5, <1>6, <1>9 DEF RegistryInv, RegistryBounded

\* The other steps leave the registry alone; no run begins, and one that ends is closed.
Untouched ==
    /\ registered' = registered /\ peak' = peak
    /\ \A q \in Runs :
           /\ phase[q] # "new" => phase'[q] # "new"
           /\ phase'[q] \in InProgress => phase[q] \in InProgress
           /\ q \in registered /\ phase'[q] = "ended" => phase[q] = "ended" \/ closed'[q]
           /\ closed[q] => closed'[q]

LEMMA OthersLeaveRegistry ==
  ASSUME IInv, [Next]_vars, \A r \in Runs : ~NewRun(r)
  PROVE  Untouched
  <1> USE DEF IInv, TypeOK, InProgress
  <1>1. CASE UNCHANGED server
    BY <1>1 DEF server, Untouched
  <1>2. CASE UNCHANGED vars
    BY <1>1, <1>2 DEF vars, server
  <1>3. ASSUME NEW c \in Clients, Stream(c) \/ Drop(c) \/ \E r \in Runs : Subscribe(c, r)
        PROVE  Untouched
    BY <1>1, <1>3 DEF Stream, Subscribe, Attach, ReadBatch, ReadClosed, Deliver, Drop, Fetch
  <1>4. ASSUME NEW r \in Runs, Worker(r) \/ RunnerEmits(r)
        PROVE  Untouched
    <2>1. CASE RecordRun(r)      BY <2>1 DEF RecordRun, Untouched
    <2>2. CASE EmitRunning(r)    BY <2>2 DEF EmitRunning, Untouched
    <2>3. CASE RunnerReturns(r)  BY <2>3 DEF RunnerReturns, Untouched
    <2>4. CASE EmitOutcome(r)    BY <2>4 DEF EmitOutcome, Untouched
    <2>5. CASE Close(r)          BY <2>5 DEF Close, Untouched
    <2>6. CASE RunnerEmits(r)    BY <2>6 DEF RunnerEmits, Untouched
    <2> QED  BY <1>4, <2>1, <2>2, <2>3, <2>4, <2>5, <2>6 DEF Worker
  <1> QED  BY <1>2, <1>3, <1>4 DEF Next, Quiescent

\* So they keep the bound.
LEMMA OthersKeepRegistry ==
  ASSUME IInv, RegistryInv, Untouched
  PROVE  RegistryInv'
  <1>1. Running' \subseteq Running /\ Running \subseteq Runs /\ Running' \subseteq Runs
    BY DEF Untouched, Running
  <1>2. /\ Cardinality(Running') <= Cardinality(Running)
        /\ Cardinality(Running') \in Nat /\ Cardinality(Running) \in Nat
    BY <1>1, RunsFinite, FS_Subset
  <1>3. Cardinality(Running') <= peak'
    BY <1>2 DEF RegistryInv, Untouched, IInv, TypeOK
  <1>4. RegistryBounded'
    BY DEF RegistryInv, RegistryBounded, Untouched
  <1>5. \A q \in registered' : phase'[q] # "new" /\ (phase'[q] = "ended" => closed'[q])
    BY DEF RegistryInv, Untouched, IInv, TypeOK
  <1> QED  BY <1>3, <1>4, <1>5 DEF RegistryInv

\* The registry outgrows its limit only by runs in progress, whatever the limit: evicting
\* one closed feed for each new run is enough.
THEOREM RegistryStaysBounded == Spec => []RegistryBounded
  <1>1. IInv /\ RegistryInv /\ [Next]_vars => RegistryInv'
    BY NewRunRegistry, OthersLeaveRegistry, OthersKeepRegistry
  <1>2. RegistryInv => RegistryBounded
    BY DEF RegistryInv
  <1> QED  BY <1>1, <1>2, InitRegistry, InvariantHolds, PTL DEF Spec

-----------------------------------------------------------------------------
(* RunServer implements RunPromise.  To the invariant above it adds how    *)
(* the recorded result follows the run's phase, and that a browser shows   *)
(* nothing before it has fetched.  Registry, locks, batches and polls then *)
(* are stutters.                                                           *)

\* What RunPromise may see of a stream.
Shows ==
    [state : {"idle", "reading", "over"}, of : Runs, got : Seq(Events), sees : Views]

\* The result recorded for a run that has not returned.
StatusInv ==
    \A r \in Runs :
        /\ phase[r] \in {"new", "created"} => result[r] = "none"
        /\ phase[r] \in {"queued", "running"} => result[r] = "running"

\* Nothing is shown before the result was fetched.
UnseenInv == \A c \in Clients : client[c].pc # "shown" => client[c].sees = "nothing"

\* The invariant of the refinement.
RInv == IInv /\ StatusInv /\ UnseenInv

\* Two such records with equal fields are equal.
LEMMA SameShow ==
    ASSUME NEW v \in Shows, NEW w \in Shows,
           v.state = w.state, v.of = w.of, v.got = w.got, v.sees = w.sees
    PROVE  v = w
BY DEF Shows

\* Joining a stream changes what it follows and its state.
LEMMA Joined ==
    ASSUME NEW x \in Shows, NEW v \in Shows, v.got = x.got, v.sees = x.sees
    PROVE  v = [x EXCEPT !.of = v.of, !.state = v.state]
<1> DEFINE w == [x EXCEPT !.of = v.of, !.state = v.state]
<1>1. w \in Shows /\ w.state = v.state /\ w.of = v.of /\ w.got = x.got /\ w.sees = x.sees
  BY DEF Shows
<1> HIDE DEF w
<1>2. v = w
  BY <1>1, SameShow
<1> QED BY <1>2 DEF w

\* Receiving an event adds it, and may end the stream.
LEMMA Received ==
    ASSUME NEW x \in Shows, NEW v \in Shows, v.of = x.of, v.sees = x.sees
    PROVE  v = [x EXCEPT !.got = v.got, !.state = v.state]
<1> DEFINE w == [x EXCEPT !.got = v.got, !.state = v.state]
<1>1. w \in Shows /\ w.state = v.state /\ w.of = x.of /\ w.got = v.got /\ w.sees = x.sees
  BY DEF Shows
<1> HIDE DEF w
<1>2. v = w
  BY <1>1, SameShow
<1> QED BY <1>2 DEF w

\* Leaving changes the state only.
LEMMA Left ==
    ASSUME NEW x \in Shows, NEW v \in Shows,
           v.state = "over", v.of = x.of, v.got = x.got, v.sees = x.sees
    PROVE  v = [x EXCEPT !.state = "over"]
<1> DEFINE w == [x EXCEPT !.state = "over"]
<1>1. w \in Shows /\ w.state = "over" /\ w.of = x.of /\ w.got = x.got /\ w.sees = x.sees
  BY DEF Shows
<1> HIDE DEF w
<1>2. v = w
  BY <1>1, SameShow
<1> QED BY <1>2 DEF w

\* Showing changes only what is shown.
LEMMA Showed ==
    ASSUME NEW x \in Shows, NEW v \in Shows,
           v.state = x.state, v.of = x.of, v.got = x.got
    PROVE  v = [x EXCEPT !.sees = v.sees]
<1> DEFINE w == [x EXCEPT !.sees = v.sees]
<1>1. v.sees \in Views
  BY DEF Shows
<1>2. /\ w \in Shows /\ w.state = x.state /\ w.of = x.of /\ w.got = x.got
      /\ w.sees = v.sees
  BY <1>1 DEF Shows
<1> HIDE DEF w
<1>3. v = w
  BY <1>2, SameShow
<1> QED BY <1>3 DEF w

\* The first event of a batch is the next one the client lacks.
LEMMA HeadIsNext ==
    ASSUME NEW S, NEW got \in Seq(S), NEW batch \in Seq(S), NEW log \in Seq(S),
           Follows(got, batch, log), batch # <<>>
    PROVE  Head(batch) \in S /\ Len(log) - Len(got) > 0 /\ Head(batch) = log[Len(got) + 1]
<1>1. Len(got) \in Nat /\ Len(batch) \in Nat /\ Len(log) \in Nat
  BY LenProperties
<1>2. Head(batch) = batch[1] /\ Head(batch) \in S
  BY HeadTailProperties
<1>3. Len(batch) >= 1
  BY <1>1, EmptySeq
<1> QED BY <1>1, <1>2, <1>3 DEF Follows

\* What is seen of a stream, field by field.
LEMMA ViewIsShow ==
    ASSUME NEW s \in Streams
    PROVE  /\ View(s) \in Shows
           /\ View(s).of = s.of /\ View(s).got = s.got /\ View(s).sees = s.sees
           /\ s.pc = "idle" => View(s).state = "idle"
           /\ s.pc \in {"ended", "shown"} => View(s).state = "over"
           /\ s.pc \in {"admitted", "poll", "locked", "deliver"} => View(s).state = "reading"
BY DEF View, Shows, Streams

\* Where a stream is neither to begin nor over.
Open == {"admitted", "poll", "locked", "deliver"}

\* Two states of a stream that RunPromise tells apart by progress alone.
Same(s, t) == s.of = t.of /\ s.got = t.got /\ s.sees = t.sees

\* What a step may make of a stream: it begins, goes on unseen, ends, hands the client
\* an event, or the page shows the result.
Joins(s, t) ==
    /\ s.pc = "idle" /\ t.pc \in {"admitted", "ended"}
    /\ phase[t.of] \notin {"new", "created"} /\ t.got = s.got /\ t.sees = s.sees
Stays(s, t) == s.pc \in Open /\ t.pc \in Open /\ Same(s, t)
Ends(s, t) == s.pc \in Open /\ t.pc = "ended" /\ Same(s, t)
Takes(c, s, t) ==
    /\ s.pc = "deliver" /\ s.batch # <<>>
    /\ t.of = s.of /\ t.got = Append(s.got, Head(s.batch)) /\ t.sees = s.sees
    /\ IF c \in Browsers /\ Head(s.batch) \in Outcomes THEN t.pc = "ended" ELSE t.pc \in Open
Sees(s, t) ==
    /\ s.pc = "ended" /\ t.pc = "shown" /\ t.of = s.of /\ t.got = s.got
    /\ t.sees \in {"verdict", "preliminary", "error"}

\* Every step of a client is one of these five.
LEMMA StreamMoves ==
    ASSUME TypeOK, NEW c \in Clients, Stream(c) \/ Drop(c) \/ \E r \in Runs : Subscribe(c, r)
    PROVE  \E t \in Streams :
               /\ client' = [client EXCEPT ![c] = t]
               /\ LET s == client[c] IN
                  Joins(s, t) \/ Stays(s, t) \/ Ends(s, t) \/ Takes(c, s, t) \/ Sees(s, t)
<1> DEFINE me == client[c]
<1>1. me \in Streams /\ client \in [Clients -> Streams]
  BY DEF TypeOK
<1>2. ASSUME NEW p, NEW w, p \in Open \cup {"ended"}, me.pc \in Open,
             w \in {"none", "outcome", "eof", "refused", "dropped"}
      PROVE  /\ [me EXCEPT !.pc = p] \in Streams /\ [me EXCEPT !.pc = p, !.why = w] \in Streams
             /\ Stays(me, [me EXCEPT !.pc = p]) \/ p = "ended"
             /\ Ends(me, [me EXCEPT !.pc = p, !.why = w]) \/ p # "ended"
  BY <1>1, <1>2 DEF Streams, Open, Stays, Ends, Same
<1>3. ASSUME NEW r \in Runs, Subscribe(c, r)
      PROVE  \E t \in Streams : client' = [client EXCEPT ![c] = t] /\ Joins(me, t)
  <2>1. ASSUME NEW p \in {"admitted", "ended"}, NEW w \in {"refused", me.why},
               NEW t, t = [me EXCEPT !.pc = p, !.of = r, !.why = w]
        PROVE  t \in Streams /\ Joins(me, t)
    BY <1>1, <1>3, <2>1 DEF Streams, Joins, Subscribe
  <2>2. [me EXCEPT !.pc = "admitted", !.of = r] \in Streams
        /\ Joins(me, [me EXCEPT !.pc = "admitted", !.of = r])
    BY <1>1, <1>3 DEF Streams, Joins, Subscribe
  <2> QED BY <1>3, <2>1, <2>2 DEF Subscribe
<1>4. CASE Attach(c)
  <2>1. me.pc \in Open
    BY <1>4 DEF Attach, Open
  <2> QED BY <1>2, <1>4, <2>1 DEF Attach, Open
<1>5. CASE ReadClosed(c)
  <2>1. me.pc \in Open
    BY <1>5 DEF ReadClosed, Open
  <2> QED BY <1>2, <1>5, <2>1 DEF ReadClosed, Open
<1>6. CASE Drop(c)
  <2>1. me.pc \in Open
    BY <1>6 DEF Drop, Open
  <2> QED BY <1>2, <1>6, <2>1 DEF Drop, Open
<1>7. CASE ReadBatch(c)
  <2> DEFINE log == entries[me.of]
             new == SubSeq(log, Len(me.got) + 1, Len(log))
             t == [me EXCEPT !.pc = "locked", !.batch = new]
  <2>1. new \in Seq(Events)
    BY <1>1, SubSeqProperties DEF TypeOK, Streams
  <2>2. t \in Streams /\ Stays(me, t)
    <3>1. me.pc = "poll"
      BY <1>7 DEF ReadBatch
    <3> HIDE DEF new
    <3> QED BY <1>1, <2>1, <3>1 DEF Streams, Stays, Same, Open
  <2> QED BY <1>7, <2>2 DEF ReadBatch
<1>8. CASE Fetch(c)
  <2> DEFINE v == Page(result[me.of])
             t == [me EXCEPT !.pc = "shown", !.sees = v]
  <2>1. v \in {"verdict", "preliminary", "error"}
    BY <1>1 DEF Page, TypeOK, Streams, Results
  <2>2. t \in Streams /\ Sees(me, t)
    <3>1. me.pc = "ended"
      BY <1>8 DEF Fetch
    <3> HIDE DEF v
    <3> QED BY <1>1, <2>1, <3>1 DEF Streams, Sees, Views
  <2> QED BY <1>8, <2>2 DEF Fetch
<1>9. CASE Deliver(c)
  <2> DEFINE e == Head(me.batch)
             rest == Tail(me.batch)
             stops == c \in Browsers /\ e \in Outcomes
             p == IF stops THEN "ended" ELSE IF rest = <<>> THEN "poll" ELSE "deliver"
             w == IF stops THEN "outcome" ELSE "none"
             t == [me EXCEPT !.got = Append(me.got, e), !.batch = rest, !.pc = p, !.why = w]
  <2>1. /\ e \in Events /\ rest \in Seq(Events) /\ Append(me.got, e) \in Seq(Events)
        /\ me.pc = "deliver" /\ me.batch # <<>>
    BY <1>1, <1>9, HeadTailProperties, AppendProperties DEF Deliver, Streams
  <2>2. p \in {"ended", "poll", "deliver"} /\ w \in {"outcome", "none"}
        /\ (IF stops THEN p = "ended" ELSE p \in Open)
    BY DEF Open
  <2>3. t \in Streams /\ t.of = me.of /\ t.got = Append(me.got, e) /\ t.sees = me.sees /\ t.pc = p
    <3> HIDE DEF e, rest, p, w
    <3> QED BY <1>1, <2>1, <2>2 DEF Streams
  <2>4. client' = [client EXCEPT ![c] = t]
    BY <1>9 DEF Deliver
  <2>5. Takes(c, me, t)
    <3> HIDE DEF t, p
    <3> QED BY <2>1, <2>2, <2>3 DEF Takes
  <2> QED BY <2>3, <2>4, <2>5
<1> QED BY <1>3, <1>4, <1>5, <1>6, <1>7, <1>8, <1>9 DEF Stream

\* The invariant holds at the start.
LEMMA InitRInv == Init => RInv
<1> SUFFICES ASSUME Init PROVE RInv
  OBVIOUS
<1>1. IInv
  BY InitIInv
<1> QED BY <1>1 DEF Init, RInv, StatusInv, UnseenInv, NewClient

\* Every step keeps it.
LEMMA StepRInv == RInv /\ IInv' /\ [Next]_vars => RInv'
<1> SUFFICES ASSUME RInv, IInv', [Next]_vars PROVE StatusInv' /\ UnseenInv'
  BY DEF RInv
<1> USE DEF RInv, IInv, TypeOK
<1>1. CASE UNCHANGED vars
  BY <1>1 DEF vars, StatusInv, UnseenInv
<1>2. ASSUME NEW r \in Runs, NewRun(r) \/ Worker(r) \/ RunnerEmits(r)
      PROVE  StatusInv' /\ UnseenInv'
  <2>1. UnseenInv'
    BY <1>2, WorkerHistory DEF UnseenInv
  <2>2. CASE NewRun(r)
    BY <2>1, <2>2 DEF NewRun, StatusInv
  <2>3. CASE RecordRun(r)
    BY <2>1, <2>3 DEF RecordRun, StatusInv
  <2>4. CASE EmitRunning(r)
    BY <2>1, <2>4 DEF EmitRunning, StatusInv
  <2>5. CASE RunnerReturns(r)
    BY <2>1, <2>5 DEF RunnerReturns, StatusInv
  <2>6. CASE EmitOutcome(r)
    BY <2>1, <2>6 DEF EmitOutcome, StatusInv
  <2>7. CASE Close(r)
    BY <2>1, <2>7 DEF Close, StatusInv
  <2>8. CASE RunnerEmits(r)
    BY <2>1, <2>8 DEF RunnerEmits, StatusInv
  <2> QED BY <1>2, <2>2, <2>3, <2>4, <2>5, <2>6, <2>7, <2>8 DEF Worker
<1>3. ASSUME NEW c \in Clients, Stream(c) \/ Drop(c) \/ \E r \in Runs : Subscribe(c, r)
      PROVE  StatusInv' /\ UnseenInv'
  <2>1. UNCHANGED server
    BY <1>3 DEF Stream, Subscribe, Attach, ReadBatch, ReadClosed, Deliver, Drop, Fetch
  <2>2. StatusInv'
    BY <2>1 DEF StatusInv, server
  <2>3. PICK t \in Streams :
            /\ client' = [client EXCEPT ![c] = t]
            /\ LET s == client[c] IN
               Joins(s, t) \/ Stays(s, t) \/ Ends(s, t) \/ Takes(c, s, t) \/ Sees(s, t)
    BY <1>3, StreamMoves
  <2>4. t.pc # "shown" => t.sees = "nothing"
    BY <2>3 DEF UnseenInv, Joins, Stays, Ends, Takes, Sees, Same, Open
  <2>5. UnseenInv'
    BY <2>3, <2>4 DEF UnseenInv
  <2> QED BY <2>2, <2>5
<1> QED BY <1>1, <1>2, <1>3 DEF Next, Quiescent

\* It holds throughout.
LEMMA AlwaysRInv == Spec => []RInv
<1>1. Init => RInv
  BY InitRInv
<1>2. RInv /\ IInv' /\ [Next]_vars => RInv'
  BY StepRInv
<1> QED BY <1>1, <1>2, InvariantHolds, PTL DEF Spec

\* The server begins as the promise does.
LEMMA InitPromises == Init => Promise!Init
<1> SUFFICES ASSUME Init PROVE Promise!Init
  OBVIOUS
<1>1. \A c \in Clients : /\ View(client[c]).state = "idle" /\ View(client[c]).got = <<>>
                         /\ View(client[c]).sees = "nothing"
  BY DEF Init, View, NewClient
<1> QED BY <1>1 DEF Promise!Init, Promise!Clients, Clients, Init

\* A step of a run's worker begins the run, publishes, settles or announces, or is not seen.
LEMMA WorkerPromises ==
    ASSUME RInv, NEW r \in Runs, NewRun(r) \/ Worker(r) \/ RunnerEmits(r)
    PROVE  Promise!Next \/ UNCHANGED <<entries, result, client>>
<1> USE DEF RInv, IInv
<1>1. client' = client
  BY WorkerHistory
<1> DEFINE f == [c \in Clients |-> View(client[c])]
<1>2. f' = f
  BY <1>1
<1> HIDE DEF f
<1>3. ASSUME NEW e \in Events, Emit(r, e), phase[r] \in InProgress
      PROVE  entries' = [entries EXCEPT ![r] = Append(@, e)]
  BY <1>3 DEF Emit, WorkerInv
<1>4. CASE NewRun(r) \/ Close(r)
  BY <1>4 DEF NewRun, Close
<1>5. CASE RecordRun(r)
  <2>1. Promise!Begin(r)
    BY <1>2, <1>5 DEF RecordRun, Promise!Begin, StatusInv, f
  <2> QED BY <2>1 DEF Promise!Next
<1>6. CASE EmitRunning(r) \/ RunnerEmits(r)
  <2>1. result[r] = "running" /\ result' = result /\ phase[r] \in InProgress
    BY <1>6 DEF EmitRunning, RunnerEmits, StatusInv, InProgress
  <2>2. PICK e \in Lanes \cup {"running"} : Emit(r, e)
    BY <1>6 DEF EmitRunning, RunnerEmits
  <2>3. entries' = [entries EXCEPT ![r] = Append(@, e)]
    BY <1>3, <2>1, <2>2 DEF Events
  <2>4. Promise!Publish(r)
    BY <1>2, <2>1, <2>3 DEF Promise!Publish, f
  <2> QED BY <2>4 DEF Promise!Next
<1>7. CASE RunnerReturns(r)
  <2>1. Promise!Settle(r)
    BY <1>2, <1>7 DEF RunnerReturns, Promise!Settle, Promise!Settled, StatusInv, f
  <2> QED BY <2>1 DEF Promise!Next
<1>8. CASE EmitOutcome(r)
  <2> DEFINE o == IF result[r] = "failed" THEN "failed" ELSE "done"
  <2>1. result' = result /\ phase[r] = "settled" /\ Emit(r, o)
    BY <1>8 DEF EmitOutcome
  <2>2. entries' = [entries EXCEPT ![r] = Append(@, o)]
    BY <1>3, <2>1 DEF Events, Outcomes, InProgress
  <2>3. result[r] \in Promise!Settled
    BY <2>1 DEF WorkerInv, Promise!Settled
  <2>4. entries[r] = emitted[r] /\ emitted[r] \in Seq(Events)
        /\ \A i \in 1..Len(emitted[r]) : emitted[r][i] \notin Outcomes
    BY <2>1 DEF WorkerInv, TypeOK
  <2>5. ~Promise!Announced(r)
    <3>1. entries[r] # <<>> => Len(entries[r]) \in 1..Len(emitted[r])
      BY <2>4, EmptySeq, LenProperties
    <3> QED BY <2>4, <3>1 DEF Promise!Announced, Promise!Outcomes, Outcomes
  <2>6. Promise!Announce(r)
    BY <1>2, <2>1, <2>2, <2>3, <2>5 DEF Promise!Announce, f
  <2> QED BY <2>6 DEF Promise!Next
<1> QED BY <1>4, <1>5, <1>6, <1>7, <1>8 DEF Worker

\* A step of a client joins, receives, leaves or shows, or is not seen.
LEMMA StreamPromises ==
    ASSUME RInv, NEW c \in Clients, Stream(c) \/ Drop(c) \/ \E r \in Runs : Subscribe(c, r)
    PROVE  Promise!Next \/ UNCHANGED Promise!vars
<1> USE DEF RInv, IInv
<1> DEFINE f == [d \in Clients |-> View(client[d])]
           me == client[c]
<1>1. UNCHANGED server
  BY DEF Stream, Subscribe, Attach, ReadBatch, ReadClosed, Deliver, Drop, Fetch
<1>2. /\ entries' = entries /\ result' = result
      /\ client \in [Clients -> Streams] /\ me \in Streams /\ me.of \in Runs
  BY <1>1 DEF server, TypeOK, Streams
<1>3. f \in [Clients -> Shows] /\ f[c] = View(me) /\ f[c] \in Shows
  BY <1>2, ViewIsShow
<1>4. ASSUME NEW s \in Streams, client' = [client EXCEPT ![c] = s]
      PROVE  f' = [f EXCEPT ![c] = View(s)]
  BY <1>2, <1>4
<1>5. ASSUME NEW s \in Streams, client' = [client EXCEPT ![c] = s],
             me.pc \in {"admitted", "poll", "locked", "deliver"},
             s.pc \in {"admitted", "poll", "locked", "deliver"},
             s.of = me.of, s.got = me.got, s.sees = me.sees
      PROVE  UNCHANGED Promise!vars
  <2>1. View(s) = View(me)
    BY <1>2, <1>5, ViewIsShow, SameShow
  <2>2. f' = f
    <3>1. [f EXCEPT ![c] = View(me)] = f
      BY <1>3
    <3>2. f' = [f EXCEPT ![c] = View(s)]
      BY <1>4, <1>5
    <3> HIDE DEF f, me
    <3> QED BY <2>1, <3>1, <3>2, Zenon
  <2> QED BY <1>2, <2>2 DEF Promise!vars
<1>6. ASSUME NEW s \in Streams, client' = [client EXCEPT ![c] = s],
             me.pc \in {"admitted", "poll", "locked", "deliver"}, s.pc = "ended",
             s.of = me.of, s.got = me.got, s.sees = me.sees
      PROVE  Promise!Next
  <2>1. f' = [f EXCEPT ![c].state = "over"]
    <3>1. f' = [f EXCEPT ![c] = View(s)]
      BY <1>4, <1>6
    <3>2. /\ View(s) \in Shows /\ View(s).state = "over" /\ View(s).of = f[c].of
          /\ View(s).got = f[c].got /\ View(s).sees = f[c].sees
      BY <1>2, <1>3, <1>6, ViewIsShow
    <3> HIDE DEF f
    <3>3. View(s) = [f[c] EXCEPT !.state = "over"]
      BY <1>3, <3>2, Left, Zenon
    <3> QED BY <3>1, <3>3
  <2>2. f[c].state = "reading"
    BY <1>2, <1>3, <1>6, ViewIsShow
  <2>3. Promise!Leave(c)
    BY <1>2, <2>1, <2>2 DEF Promise!Leave
  <2> QED BY <2>3 DEF Promise!Next, Promise!Clients, Clients
<1>7. PICK t \in Streams :
          /\ client' = [client EXCEPT ![c] = t]
          /\ Joins(me, t) \/ Stays(me, t) \/ Ends(me, t) \/ Takes(c, me, t) \/ Sees(me, t)
  BY StreamMoves
<1>8. f' = [f EXCEPT ![c] = View(t)]
  BY <1>4, <1>7
<1>9. CASE Joins(me, t)
  <2>1. /\ me.pc = "idle" /\ t.pc \in {"admitted", "ended"} /\ t.of \in Runs
        /\ t.got = me.got /\ t.sees = me.sees /\ phase[t.of] \notin {"new", "created"}
    BY <1>9 DEF Joins, Streams
  <2>2. result[t.of] # "none"
    <3>1. StatusInv /\ WorkerInv /\ phase[t.of] \in Phases
      BY <2>1 DEF TypeOK
    <3>2. phase[t.of] \in {"queued", "running"} \/ phase[t.of] \in {"settled", "announced", "ended"}
      BY <2>1, <3>1 DEF Phases
    <3>3. phase[t.of] \in {"queued", "running"} => result[t.of] = "running"
      BY <2>1, <3>1, Zenon DEF StatusInv
    <3>4. phase[t.of] \in {"settled", "announced", "ended"}
              => result[t.of] \in {"done", "preliminary", "failed"}
      BY <2>1, <3>1, Zenon DEF WorkerInv
    <3> QED BY <3>2, <3>3, <3>4
  <2>3. PICK s \in {"reading", "over"} : View(t).state = s
    BY <2>1, ViewIsShow
  <2>4. f' = [f EXCEPT ![c].of = t.of, ![c].state = s]
    <3>1. /\ View(t) \in Shows /\ View(t).of = t.of /\ View(t).got = f[c].got
          /\ View(t).sees = f[c].sees
      BY <1>2, <1>3, <2>1, ViewIsShow
    <3> HIDE DEF f
    <3>2. View(t) = [f[c] EXCEPT !.of = View(t).of, !.state = View(t).state]
      BY <1>3, <3>1, Joined, Zenon
    <3> QED BY <1>8, <2>3, <3>1, <3>2
  <2>5. f[c].state = "idle"
    BY <1>2, <1>3, <2>1, ViewIsShow
  <2>6. Promise!Join(c, t.of)
    BY <1>2, <2>2, <2>4, <2>5 DEF Promise!Join
  <2> QED BY <2>1, <2>6 DEF Promise!Next, Promise!Clients, Clients
<1>10. CASE Stays(me, t)
  BY <1>5, <1>7, <1>10 DEF Stays, Same, Open
<1>11. CASE Ends(me, t)
  BY <1>6, <1>7, <1>11 DEF Ends, Same, Open
<1>12. CASE Takes(c, me, t)
  <2> DEFINE e == Head(me.batch)
             log == entries[me.of]
             over == c \in Browsers /\ e \in Outcomes
  <2>1. /\ me.pc = "deliver" /\ me.batch # <<>> /\ t.of = me.of /\ t.sees = me.sees
        /\ t.got = Append(me.got, e) /\ IF over THEN t.pc = "ended" ELSE t.pc \in Open
    BY <1>12 DEF Takes
  <2>2. Follows(me.got, me.batch, log) /\ log \in Seq(Events)
    BY <1>2 DEF StreamInv, ReceivedInv, WorkerInv, TypeOK
  <2>3. me.got \in Seq(Events) /\ me.batch \in Seq(Events)
    BY <1>2 DEF Streams
  <2>4. e \in Events /\ Len(log) - Len(me.got) > 0 /\ e = log[Len(me.got) + 1]
    <3>1. me.batch # <<>>
      BY <2>1
    <3> HIDE DEF me, log
    <3>2. e \in Events
      BY <2>2, <2>3, <3>1, HeadIsNext
    <3>3. Len(log) - Len(me.got) > 0
      BY <2>2, <2>3, <3>1, HeadIsNext
    <3>4. e = log[Len(me.got) + 1]
      BY <2>2, <2>3, <3>1, HeadIsNext
    <3> QED BY <3>2, <3>3, <3>4
  <2>5. f[c].state = "reading" /\ f[c].of = me.of /\ f[c].got = me.got /\ f[c].sees = me.sees
    BY <1>2, <1>3, <2>1, ViewIsShow
  <2>6. View(t).state = IF over THEN "over" ELSE f[c].state
    BY <2>1, <2>5, ViewIsShow DEF Open
  <2>7. f' = [f EXCEPT ![c].got = Append(@, e), ![c].state = IF over THEN "over" ELSE @]
    <3>1. View(t) \in Shows /\ View(t).of = f[c].of /\ View(t).sees = f[c].sees
          /\ View(t).got = Append(f[c].got, e)
      BY <2>1, <2>5, ViewIsShow
    <3> HIDE DEF f, e, over
    <3>2. View(t) = [f[c] EXCEPT !.got = View(t).got, !.state = View(t).state]
      BY <1>3, <3>1, Received, Zenon
    <3> QED BY <1>8, <2>6, <3>1, <3>2
  <2>8. Promise!Receive(c)
    <3>1. Promise!Unread(c) > 0 /\ entries[f[c].of][Len(f[c].got) + 1] = e
      BY <2>4, <2>5 DEF Promise!Unread
    <3> QED BY <1>2, <2>5, <2>7, <3>1 DEF Promise!Receive, Promise!Outcomes, Outcomes
  <2> QED BY <2>8 DEF Promise!Next, Promise!Clients, Clients
<1>13. CASE Sees(me, t)
  <2>1. /\ me.pc = "ended" /\ t.pc = "shown" /\ t.of = me.of /\ t.got = me.got
        /\ t.sees \in {"verdict", "preliminary", "error"} /\ me.sees = "nothing"
    BY <1>13 DEF Sees, UnseenInv
  <2>2. f[c].state = "over" /\ f[c].sees = "nothing" /\ f[c].of = me.of /\ f[c].got = me.got
    BY <1>2, <1>3, <2>1, ViewIsShow
  <2>3. f' = [f EXCEPT ![c].sees = View(t).sees]
    <3>1. View(t) \in Shows /\ View(t).state = f[c].state /\ View(t).of = f[c].of
          /\ View(t).got = f[c].got /\ View(t).sees = t.sees
      BY <2>1, <2>2, ViewIsShow
    <3> HIDE DEF f
    <3>2. View(t) = [f[c] EXCEPT !.sees = View(t).sees]
      BY <1>3, <3>1, Showed, Zenon
    <3> QED BY <1>8, <3>2
  <2>4. Promise!Show(c)
    <3>1. View(t).sees \in {"verdict", "preliminary", "error"}
      BY <2>1, ViewIsShow
    <3> QED BY <1>2, <2>2, <2>3, <3>1 DEF Promise!Show
  <2> QED BY <2>4 DEF Promise!Next, Promise!Clients, Clients
<1> QED BY <1>7, <1>9, <1>10, <1>11, <1>12, <1>13

\* Every step of the server is a step of the promise or not seen.
LEMMA StepPromises == RInv /\ [Next]_vars => [Promise!Next]_(Promise!vars)
<1> SUFFICES ASSUME RInv, [Next]_vars
             PROVE  Promise!Next \/ UNCHANGED Promise!vars
  OBVIOUS
<1>1. CASE UNCHANGED vars
  BY <1>1 DEF vars, Promise!vars
<1>2. ASSUME NEW r \in Runs, NewRun(r) \/ Worker(r) \/ RunnerEmits(r)
      PROVE  Promise!Next \/ UNCHANGED Promise!vars
  BY <1>2, WorkerPromises DEF Promise!vars
<1>3. ASSUME NEW c \in Clients, Stream(c) \/ Drop(c) \/ \E r \in Runs : Subscribe(c, r)
      PROVE  Promise!Next \/ UNCHANGED Promise!vars
  BY <1>3, StreamPromises
<1> QED BY <1>1, <1>2, <1>3 DEF Next, Quiescent

\* The server implements RunPromise: whatever registry, eviction, locks, batches and lost
\* connections do, clients read one append-only log in order, and a run's result is
\* settled before its outcome is announced.
THEOREM PromiseKept == Spec => KeepsPromise
BY InitPromises, StepPromises, AlwaysRInv, PTL DEF Spec, KeepsPromise, Promise!Spec
=============================================================================
