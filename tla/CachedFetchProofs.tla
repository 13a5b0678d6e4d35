------------------------- MODULE CachedFetchProofs -------------------------
(***************************************************************************)
(* What CachedFetch promises for any number of processes, threads and      *)
(* keys, whatever they want.  The argument is about the temporary files: a *)
(* file under such a name is whole, or somebody of that process is still   *)
(* writing it, or two of its threads are about to rename it.               *)
(***************************************************************************)
EXTENDS CachedFetch, TLAPS

NoKey == CHOOSE k \in Keys : TRUE
Calling == Steps \ ({"idle", "dead"} \cup Results)
Storing == {"writing", "renaming"}
Thread == [pc : Steps, key : Keys \cup {NoKey}, attempt : Nat,
           got : {0} \cup Versions, calls : Nat, after : Results]
Files == [bytes : {-2, Partial, Torn} \cup Versions, open : SUBSET Threads]

Types ==
    /\ thread \in [Threads -> Thread]
    /\ entry \in [Keys -> Files]
    /\ temp \in [Procs \X Keys -> Files]
    /\ world \in [Keys -> Versions]

\* Between its call and its end a thread works on a key; from the answer to the rename
\* it holds a version of the document.
Held ==
    \A t \in Threads :
        /\ thread[t].pc \in Calling => thread[t].key \in Keys
        /\ thread[t].pc \in {"opening"} \cup Storing => thread[t].got \in Versions

\* The threads that store under a temporary name.
At(u, n) == thread[u].pc \in Storing /\ Path(u) = n

\* What is under a temporary name: open to those who write there; truncated only while
\* it is open; otherwise its last writer has not renamed it yet, and if it is torn there
\* are two who store there.
NameSound(n) ==
    /\ \A t \in temp[n].open : thread[t].pc = "writing" /\ Path(t) = n
    /\ temp[n].bytes = -2 => temp[n].open = {}
    /\ temp[n].bytes = Partial => temp[n].open # {}
    /\ temp[n].bytes \in {Torn} \cup Versions =>
           \E u \in Threads : At(u, n) /\ thread[u].pc = "renaming"
    /\ temp[n].bytes = Torn => \E u, v \in Threads : u # v /\ At(u, n) /\ At(v, n)

IInv == Types /\ Held /\ \A n \in Procs \X Keys : NameSound(n)

-----------------------------------------------------------------------------
(* The names a step leaves alone, and those it frees.                      *)

\* A file nobody touches, whose storing threads stay where they are, stays sound.
LEMMA NameKept ==
    ASSUME Types, NEW n \in Procs \X Keys, NameSound(n), temp'[n] = temp[n],
           \A u \in Threads : At(u, n) => thread'[u] = thread[u]
    PROVE  NameSound(n)'
<1>1. \A u \in Threads : At(u, n) => At(u, n)' /\ thread'[u].pc = thread[u].pc /\ Path(u)' = Path(u)
  BY DEF At, Path
<1>2. \A u \in temp[n].open : u \in Threads /\ At(u, n)
  BY DEF NameSound, Types, Files, At, Storing
<1>3. \A u \in temp'[n].open : thread'[u].pc = "writing" /\ Path(u)' = n
  BY <1>1, <1>2 DEF NameSound
<1>4. temp[n].bytes \in {Torn} \cup Versions =>
          \E u \in Threads : At(u, n)' /\ thread'[u].pc = "renaming"
  BY <1>1 DEF NameSound
<1>5. temp[n].bytes = Torn => \E u, v \in Threads : u # v /\ At(u, n)' /\ At(v, n)'
  BY <1>1 DEF NameSound
<1> QED BY <1>3, <1>4, <1>5 DEF NameSound

\* A name without a file is sound.
LEMMA NameFree ==
    ASSUME NEW n, temp'[n] = NoFile
    PROVE  NameSound(n)'
<1>1. NoFile.bytes = -2 /\ NoFile.open = {} /\ -2 \notin {Partial, Torn} \cup Versions
  BY DEF NoFile, File, Partial, Torn, Versions
<1> QED BY <1>1 DEF NameSound

\* Nothing is in progress and nothing is stored at the start.
LEMMA InitHolds == Init => IInv
<1> SUFFICES ASSUME Init
             PROVE  IInv
  OBVIOUS
<1>1. Types
  BY FetchAssumption, SMT DEF Init, Types, Thread, Idle, NoKey, Files, NoFile, File, Partial, Torn,
                              Versions, Steps, Results
<1>2. Held
  BY SMT DEF Init, Held, Idle, Calling, Results, Storing
<1>3. \A n \in Procs \X Keys : NameSound(n)
  BY SMT DEF Init, NameSound, NoFile, File, Partial, Torn, Versions
<1> QED BY <1>1, <1>2, <1>3 DEF IInv

-----------------------------------------------------------------------------
(* Steps that touch no file.                                               *)

\* A thread that is not storing, and goes on to no file or to open one with a
\* version in its hands, keeps the invariant.
LEMMA MoveKeeps ==
    ASSUME IInv, NEW t \in Threads, NEW next \in Thread,
           thread' = [thread EXCEPT ![t] = next],
           entry' = entry, temp' = temp, world' = world,
           thread[t].pc \notin Storing,
           next.pc \in Calling => next.key \in Keys,
           next.pc \notin Storing,
           next.pc = "opening" => next.got \in Versions
    PROVE  IInv'
<1> USE DEF IInv
<1>1. Types'
  BY DEF Types, Thread
<1>2. Held'
  BY DEF Held, Types
<1>3. \A n \in Procs \X Keys : NameSound(n)'
  <2> SUFFICES ASSUME NEW n \in Procs \X Keys PROVE NameSound(n)'
    OBVIOUS
  <2>1. \A u \in Threads : At(u, n) => thread'[u] = thread[u]
    BY DEF At, Types
  <2> QED BY <2>1, NameKept
<1> QED BY <1>1, <1>2, <1>3

\* A thread that goes from one step of its call to another keeps the invariant.
LEMMA GotoKeeps ==
    ASSUME IInv, NEW t \in Threads, NEW pc \in Steps \ ({"opening"} \cup Storing),
           thread[t].pc \in Calling \ Storing, Goto(t, pc),
           entry' = entry, temp' = temp, world' = world
    PROVE  IInv'
<1> DEFINE next == [thread[t] EXCEPT !.pc = pc]
<1>1. next \in Thread /\ next.pc = pc /\ next.key = thread[t].key
  BY DEF IInv, Types, Thread
<1>2. thread' = [thread EXCEPT ![t] = next]
  BY DEF Goto
<1>3. next.key \in Keys
  BY <1>1 DEF IInv, Held
<1> QED BY <1>1, <1>2, <1>3, MoveKeeps

\* A call that ends leaves nothing to keep.
LEMMA EndKeeps ==
    ASSUME IInv, NEW t \in Threads, NEW result \in Results,
           thread[t].pc \notin Storing, End(t, result),
           entry' = entry, temp' = temp, world' = world
    PROVE  IInv'
<1> DEFINE next == [Idle EXCEPT !.pc = result, !.calls = thread[t].calls,
                                !.got = IF result = "answered" THEN thread[t].got ELSE 0]
<1>1. thread[t].calls \in Nat /\ thread[t].got \in {0} \cup Versions
  BY DEF IInv, Types, Thread
<1>2. next \in Thread
  <2>1. Idle \in Thread
    BY DEF Idle, NoKey, Thread, Steps, Results
  <2>2. result \in Steps
    BY DEF Steps, Results
  <2> HIDE DEF Idle
  <2> QED BY <1>1, <2>1, <2>2, Zenon DEF Thread
<1>3. next.pc \in Results
  BY DEF Idle
<1>4. thread' = [thread EXCEPT ![t] = next]
  BY DEF End
<1>5. next.pc \notin Calling /\ next.pc \notin {"opening"} \cup Storing
  BY <1>3, SMT DEF Calling, Results, Storing
<1> HIDE DEF next
<1> QED BY <1>2, <1>4, <1>5, MoveKeeps

\* What a failed call ends with.
LEMMA FailureResults ==
    ASSUME NEW t \in Threads
    PROVE  /\ \A reason \in Results : Failed(t, reason) \in Results
           /\ Raised(t) \in Results
BY DEF Failed, Raised, Results

\* A new call owns nothing yet.
LEMMA CallKeeps ==
    ASSUME IInv, NEW t \in Threads, NEW k \in Keys, Call(t, k)
    PROVE  IInv'
<1> DEFINE next == [Idle EXCEPT !.pc = "asking", !.key = k, !.calls = thread[t].calls + 1]
<1>1. thread[t].calls + 1 \in Nat
  BY DEF IInv, Types, Thread
<1>2. next \in Thread
  <2>1. Idle \in Thread
    BY DEF Idle, NoKey, Thread, Steps, Results
  <2>2. "asking" \in Steps
    BY DEF Steps, Results
  <2> HIDE DEF Idle
  <2> QED BY <1>1, <2>1, <2>2, Zenon DEF Thread
<1>3. next.pc = "asking" /\ next.key = k
  BY DEF Idle
<1>4. thread' = [thread EXCEPT ![t] = next] /\ thread[t].pc \notin Storing
  BY SMT DEF Call, Results, Storing
<1>5. entry' = entry /\ temp' = temp /\ world' = world
  BY DEF Call, files
<1>6. /\ next.pc \notin Storing /\ next.key \in Keys
      /\ next.pc = "opening" => next.got \in Versions
  BY <1>3, SMT DEF Storing
<1> HIDE DEF next
<1> QED BY <1>2, <1>4, <1>5, <1>6, MoveKeeps

\* Looking into the cache and waiting for a slot touch no file.
LEMMA AskKeeps ==
    ASSUME IInv, NEW t \in Threads, Look(t) \/ Read(t) \/ TakeLock(t) \/ Grant(t)
    PROVE  IInv'
<1>1. entry' = entry /\ temp' = temp /\ world' = world /\ thread[t].pc \in Calling \ Storing
  BY SMT DEF Look, Read, TakeLock, Grant, files, Calling, Steps, Results, Storing
<1>2. CASE Look(t)
  BY <1>1, <1>2, GotoKeeps, SMT DEF Look, Steps, Storing
<1>3. CASE Read(t)
  <2> DEFINE found == entry[thread[t].key].bytes
  <2>1. CASE found \in Versions
    <3> DEFINE next == [thread[t] EXCEPT !.got = found, !.pc = "answered"]
    <3>1. next \in Thread /\ next.pc = "answered"
      BY <2>1 DEF IInv, Types, Thread, Steps, Results
    <3>2. thread' = [thread EXCEPT ![t] = next]
      BY <1>3, <2>1 DEF Read, IInv, Types
    <3>3. "answered" \notin Calling
      BY DEF Calling, Results
    <3>4. next.pc \notin Storing /\ (next.pc = "opening" => next.got \in Versions)
      BY <3>1, SMT DEF Storing
    <3> HIDE DEF next
    <3> QED BY <1>1, <3>1, <3>2, <3>3, <3>4, MoveKeeps
  <2>2. CASE End(t, Failed(t, "corrupt"))
    BY <1>1, <2>2, FailureResults, EndKeeps DEF Results
  <2>3. CASE Goto(t, "sending")
    BY <1>1, <2>3, GotoKeeps, SMT DEF Steps, Storing
  <2> QED BY <1>3, <2>1, <2>2, <2>3 DEF Read
<1>4. CASE TakeLock(t)
  BY <1>1, <1>4, GotoKeeps, SMT DEF TakeLock, Steps, Storing
<1>5. CASE Grant(t)
  <2> DEFINE next == [thread[t] EXCEPT !.pc = "sending", !.attempt = @ + 1]
  <2>1. thread[t] \in Thread /\ thread[t].attempt + 1 \in Nat
    BY DEF IInv, Types, Thread
  <2>2. next \in Thread /\ next.pc = "sending" /\ next.key = thread[t].key
    BY <2>1 DEF Thread, Steps
  <2>3. thread' = [thread EXCEPT ![t] = next]
    BY <1>5 DEF Grant, IInv, Types
  <2>4. next.key \in Keys
    BY <1>1, <2>2 DEF IInv, Held
  <2>5. next.pc \notin Storing /\ (next.pc = "opening" => next.got \in Versions)
    BY <2>2, SMT DEF Storing
  <2> HIDE DEF next
  <2> QED BY <1>1, <2>2, <2>3, <2>4, <2>5, MoveKeeps
<1> QED BY <1>2, <1>3, <1>4, <1>5

\* What a server answers is a version of the document, or ends or delays the call.
LEMMA ServerKeeps ==
    ASSUME IInv, NEW t \in Threads, Answer(t) \/ Busy(t) \/ Refuse(t) \/ Retry(t)
    PROVE  IInv'
<1>1. entry' = entry /\ temp' = temp /\ world' = world /\ thread[t].pc \in Calling \ Storing
  BY SMT DEF Answer, Busy, Refuse, Retry, files, Calling, Steps, Results, Storing
<1>2. thread[t].key \in Keys
  BY <1>1 DEF IInv, Held
<1>3. CASE Answer(t)
  <2> DEFINE next == [thread[t] EXCEPT !.pc = "opening", !.got = world[thread[t].key]]
  <2>1. world[thread[t].key] \in Versions
    BY <1>2 DEF IInv, Types
  <2>2. next \in Thread /\ next.pc = "opening" /\ next.key = thread[t].key /\ next.got \in Versions
    BY <2>1 DEF IInv, Types, Thread, Steps
  <2>3. thread' = [thread EXCEPT ![t] = next]
    BY <1>3 DEF Answer, IInv, Types
  <2>4. next.pc \notin Storing
    BY <2>2, SMT DEF Storing
  <2> HIDE DEF next
  <2> QED BY <1>1, <1>2, <2>2, <2>3, <2>4, MoveKeeps
<1>4. CASE Goto(t, "backoff") \/ Goto(t, "locking")
  BY <1>1, <1>4, GotoKeeps, SMT DEF Steps, Storing
<1>5. CASE End(t, Failed(t, "refused"))
  BY <1>1, <1>5, FailureResults, EndKeeps DEF Results
<1> QED BY <1>3, <1>4, <1>5 DEF Busy, Refuse, Retry

-----------------------------------------------------------------------------
(* Steps at the files.                                                     *)

\* A thread in a call has a temporary file's name.
LEMMA PathIsName ==
    ASSUME Held, NEW t \in Threads, thread[t].pc \in Calling
    PROVE  Path(t) \in Procs \X Keys /\ thread[t].key \in Keys
BY FetchAssumption DEF Held, Path

\* The steps of cache.put are steps of a call.
LEMMA FileSteps == {"opening", "writing", "renaming", "unlinking"} \subseteq Calling
BY SMT DEF Calling, Steps, Results

\* A step of one thread within its call leaves every other name as it was, and the types.
LEMMA OthersKept ==
    ASSUME IInv, NEW t \in Threads, NEW next \in Thread,
           thread' = [thread EXCEPT ![t] = next],
           next.pc \in Calling => next.key \in Keys,
           next.pc \in {"opening"} \cup Storing => next.got \in Versions,
           Path(t) \in Procs \X Keys, NEW file \in Files,
           temp' = [temp EXCEPT ![Path(t)] = file],
           entry' \in [Keys -> Files], world' = world
    PROVE  /\ Types' /\ Held'
           /\ temp'[Path(t)] = file
           /\ \A n \in Procs \X Keys : n # Path(t) => NameSound(n)'
<1> USE DEF IInv
<1>1. Types'
  BY DEF Types, Thread
<1>2. Held'
  BY DEF Held, Types
<1>3. temp'[Path(t)] = file
  BY DEF Types
<1>4. ASSUME NEW n \in Procs \X Keys, n # Path(t)
      PROVE  NameSound(n)'
  <2>1. temp'[n] = temp[n]
    BY <1>4 DEF Types
  <2>2. \A u \in Threads : At(u, n) => thread'[u] = thread[u]
    BY <1>4 DEF At, Types
  <2> QED BY <2>1, <2>2, NameKept
<1> QED BY <1>1, <1>2, <1>3, <1>4

\* The file opened is truncated, and open to the one who opened it.
LEMMA OpenKeeps ==
    ASSUME IInv, NEW t \in Threads, Open(t)
    PROVE  IInv'
<1> USE DEF IInv
<1> DEFINE next == [thread[t] EXCEPT !.pc = "writing"]
           file == File(Partial, temp[Path(t)].open \cup {t})
<1>1. /\ thread[t].pc = "opening" /\ thread[t].pc \in Calling
      /\ Path(t) \in Procs \X Keys /\ thread[t].key \in Keys /\ thread[t].got \in Versions
      /\ entry' = entry /\ world' = world
  BY FileSteps, PathIsName DEF Open, Held
<1>2. thread' = [thread EXCEPT ![t] = next] /\ temp' = [temp EXCEPT ![Path(t)] = file]
  BY DEF Open, Goto
<1>3. /\ next \in Thread /\ next.key = thread[t].key /\ next.got = thread[t].got
      /\ next.pc = "writing"
  BY DEF Types, Thread, Steps
<1>4. /\ file \in Files /\ file.bytes = Partial
      /\ file.open = temp[Path(t)].open \cup {t}
  BY <1>1 DEF File, Files, Types
<1> HIDE DEF next, file
<1>5. /\ Types' /\ Held' /\ temp'[Path(t)] = file
      /\ \A n \in Procs \X Keys : n # Path(t) => NameSound(n)'
  BY <1>1, <1>2, <1>3, <1>4, OthersKept DEF Types
<1>6. ASSUME NEW n \in Procs \X Keys, n = Path(t)
      PROVE  NameSound(n)'
  <2>1. \A u \in file.open : thread'[u].pc = "writing" /\ Path(u)' = n
    <3> SUFFICES ASSUME NEW u \in file.open PROVE thread'[u].pc = "writing" /\ Path(u)' = n
      OBVIOUS
    <3>1. CASE u = t
      BY <1>2, <1>3, <1>6, <3>1 DEF Path, Types
    <3>2. CASE u # t
      <4>1. u \in Threads /\ thread[u].pc = "writing" /\ Path(u) = n
        BY <1>4, <1>6, <3>2 DEF NameSound, Types, Files
      <4>2. thread'[u] = thread[u]
        BY <1>2, <3>2, <4>1 DEF Types
      <4> QED BY <4>1, <4>2 DEF Path
    <3> QED BY <3>1, <3>2
  <2>2. file.open # {} /\ file.bytes = Partial /\ Partial \notin {-2, Torn} \cup Versions
    BY <1>4 DEF Partial, Torn, Versions
  <2>3. temp'[n] = file
    BY <1>5, <1>6
  <2> QED BY <2>1, <2>2, <2>3 DEF NameSound
<1> QED BY <1>5, <1>6

\* What a thread writes leaves a file of the same kind, and closes it to the writer.
LEMMA WrittenFiles ==
    ASSUME NEW f \in Files, NEW t \in Threads, thread[t].got \in Versions, NEW g \in Written(f, t)
    PROVE  /\ g \in Files
           /\ t \notin f.open => g = f
           /\ t \in f.open => /\ g.open = f.open \ {t}
                              /\ g.bytes \in Bytes(f, t)
<1>1. CASE t \notin f.open
  BY <1>1 DEF Written
<1>2. CASE t \in f.open
  <2>1. PICK bytes \in Bytes(f, t) : g = File(bytes, f.open \ {t})
    BY <1>2 DEF Written
  <2>2. bytes \in {Torn} \cup Versions
    BY DEF Bytes
  <2>3. g \in Files /\ g.open = f.open \ {t} /\ g.bytes = bytes
    BY <2>1, <2>2 DEF File, Files
  <2> QED BY <1>2, <2>1, <2>3
<1> QED BY <1>1, <1>2

\* A file that is written to its end is held by the writer, who renames it next; torn
\* it is only where two have stored.
LEMMA WriteKeeps ==
    ASSUME IInv, NEW t \in Threads, Write(t)
    PROVE  IInv'
<1> USE DEF IInv
<1> DEFINE next == [thread[t] EXCEPT !.pc = "renaming"]
<1>1. /\ thread[t].pc = "writing" /\ thread[t].pc \in Calling
      /\ Path(t) \in Procs \X Keys /\ thread[t].key \in Keys /\ thread[t].got \in Versions
      /\ world' = world
  BY FileSteps, PathIsName DEF Write, Held, Storing
<1>2. thread' = [thread EXCEPT ![t] = next]
  BY DEF Write, Goto
<1>3. /\ next \in Thread /\ next.key = thread[t].key /\ next.got = thread[t].got
      /\ next.pc = "renaming"
  BY DEF Types, Thread, Steps
<1>4. PICK file \in Written(temp[Path(t)], t) : temp' = [temp EXCEPT ![Path(t)] = file]
  BY DEF Write
<1>5. PICK e \in Written(entry[thread[t].key], t) : entry' = [entry EXCEPT ![thread[t].key] = e]
  BY DEF Write
<1> HIDE DEF next
<1>6. /\ file \in Files
      /\ t \notin temp[Path(t)].open => file = temp[Path(t)]
      /\ t \in temp[Path(t)].open => /\ file.open = temp[Path(t)].open \ {t}
                                     /\ file.bytes \in Bytes(temp[Path(t)], t)
  BY <1>1, <1>4, WrittenFiles DEF Types
<1>7. e \in Files
  BY <1>1, <1>5, WrittenFiles DEF Types
<1>8. entry' \in [Keys -> Files]
  BY <1>5, <1>7 DEF Types
<1>9. /\ Types' /\ Held' /\ temp'[Path(t)] = file
      /\ \A n \in Procs \X Keys : n # Path(t) => NameSound(n)'
  BY <1>1, <1>2, <1>3, <1>4, <1>6, <1>8, OthersKept DEF Types
<1>10. ASSUME NEW n \in Procs \X Keys, n = Path(t)
       PROVE  NameSound(n)'
  <2>1. /\ At(t, n) /\ thread'[t].pc = "renaming" /\ At(t, n)'
        /\ \A u \in Threads : u # t => thread'[u] = thread[u]
        /\ \A u \in Threads : At(u, n) => At(u, n)'
    BY <1>1, <1>2, <1>3, <1>10 DEF At, Path, Storing, Types
  <2>2. temp'[n] = file /\ temp[n] \in Files /\ NameSound(n)
    BY <1>9, <1>10 DEF Types
  <2>3. \A u \in file.open : u # t /\ u \in temp[n].open
    <3>1. t \notin temp[n].open => t \notin file.open
      BY <1>6, <1>10
    <3> QED BY <1>6, <1>10, <3>1
  <2>4. \A u \in temp'[n].open : thread'[u].pc = "writing" /\ Path(u)' = n
    <3> SUFFICES ASSUME NEW u \in file.open PROVE thread'[u].pc = "writing" /\ Path(u)' = n
      BY <2>2
    <3>1. u \in Threads /\ u # t /\ thread[u].pc = "writing" /\ Path(u) = n
      BY <2>2, <2>3 DEF NameSound, Files
    <3>2. thread'[u] = thread[u]
      BY <2>1, <3>1
    <3> QED BY <3>1, <3>2 DEF Path
  <2>5. CASE t \notin temp[n].open
    <3>1. temp'[n] = temp[n]
      BY <1>6, <1>10, <2>2, <2>5
    <3>2. temp[n].bytes = Torn => \E u, v \in Threads : u # v /\ At(u, n)' /\ At(v, n)'
      BY <2>1, <2>2 DEF NameSound
    <3>3. /\ temp[n].bytes = -2 => temp[n].open = {}
          /\ temp[n].bytes = Partial => temp[n].open # {}
      BY <2>2 DEF NameSound
    <3> QED BY <2>1, <2>4, <3>1, <3>2, <3>3 DEF NameSound
  <2>6. CASE t \in temp[n].open
    <3>1. file.bytes \in Bytes(temp[n], t) /\ temp'[n].bytes = file.bytes
      BY <1>6, <1>10, <2>2, <2>6
    <3>2. file.bytes \in {Torn} \cup Versions /\ file.bytes \notin {-2, Partial}
      BY <1>1, <3>1 DEF Bytes, Torn, Versions, Partial
    <3>3. file.bytes = Torn => \E u \in Threads : u # t /\ At(u, n)
      <4> SUFFICES ASSUME file.bytes = Torn PROVE \E u \in Threads : u # t /\ At(u, n)
        OBVIOUS
      <4>1. \/ temp[n].bytes \notin {Partial, thread[t].got}
            \/ \E u \in temp[n].open \ {t} : thread[u].got # thread[t].got
        BY <1>1, <3>1 DEF Bytes, Torn, Versions
      <4>2. CASE temp[n].bytes \notin {Partial, thread[t].got}
        <5>1. temp[n].bytes # -2
          BY <2>2, <2>6 DEF NameSound
        <5>2. temp[n].bytes \in {Torn} \cup Versions
          BY <2>2, <4>2, <5>1 DEF Files
        <5>3. PICK u \in Threads : At(u, n) /\ thread[u].pc = "renaming"
          BY <2>2, <5>2 DEF NameSound
        <5> QED BY <1>1, <5>3
      <4>3. CASE \E u \in temp[n].open \ {t} : thread[u].got # thread[t].got
        BY <2>2, <4>3 DEF NameSound, Files, At, Storing
      <4> QED BY <4>1, <4>2, <4>3
    <3>4. file.bytes = Torn => \E u, v \in Threads : u # v /\ At(u, n)' /\ At(v, n)'
      BY <2>1, <3>3
    <3> QED BY <2>1, <2>4, <3>1, <3>2, <3>4 DEF NameSound
  <2> QED BY <2>5, <2>6
<1> QED BY <1>9, <1>10

\* The file renamed is gone from its temporary name.
LEMMA RenameKeeps ==
    ASSUME IInv, NEW t \in Threads, Rename(t)
    PROVE  IInv'
<1> USE DEF IInv
<1> DEFINE name == Path(t)
<1>1. /\ thread[t].pc = "renaming" /\ thread[t].pc \in Calling
      /\ name \in Procs \X Keys /\ thread[t].key \in Keys /\ temp[name] \in Files
      /\ world' = world
  BY FileSteps, PathIsName DEF Rename, Types
<1>2. NoFile \in Files
  BY DEF NoFile, File, Files
<1>3. PICK after \in Results : thread' = [thread EXCEPT ![t].pc = "unlinking", ![t].after = after]
  BY FailureResults, SMT DEF Rename, Results
<1> DEFINE next == [thread[t] EXCEPT !.pc = "unlinking", !.after = after]
<1>4. thread' = [thread EXCEPT ![t] = next]
  BY <1>3 DEF Types
<1>5. /\ next \in Thread /\ next.key = thread[t].key /\ next.pc = "unlinking"
  BY DEF Types, Thread, Steps
<1>6. temp' = [temp EXCEPT ![name] = NoFile]
  BY <1>1 DEF Rename, Types
<1>7. entry' \in [Keys -> Files]
  BY <1>1 DEF Rename, Types
<1>8. next.pc \notin {"opening"} \cup Storing
  BY <1>5, SMT DEF Storing
<1> HIDE DEF next
<1>9. /\ Types' /\ Held' /\ temp'[name] = NoFile
      /\ \A n \in Procs \X Keys : n # name => NameSound(n)'
  BY <1>1, <1>2, <1>4, <1>5, <1>6, <1>7, <1>8, OthersKept
<1>10. ASSUME NEW n \in Procs \X Keys, n = name
       PROVE  NameSound(n)'
  BY <1>9, <1>10, NameFree
<1> QED BY <1>9, <1>10

\* What is unlinked is gone, whoever was writing it.
LEMMA UnlinkKeeps ==
    ASSUME IInv, NEW t \in Threads, Unlink(t)
    PROVE  IInv'
<1> USE DEF IInv
<1> DEFINE name == Path(t)
           result == thread[t].after
           next == [Idle EXCEPT !.pc = result, !.calls = thread[t].calls,
                                !.got = IF result = "answered" THEN thread[t].got ELSE 0]
<1>1. /\ name \in Procs \X Keys
      /\ entry' = entry /\ world' = world
  BY FileSteps, PathIsName DEF Unlink
<1>2. NoFile \in Files
  BY DEF NoFile, File, Files
<1>3. /\ result \in Results /\ thread[t].calls \in Nat /\ thread[t].got \in {0} \cup Versions
  BY DEF Types, Thread
<1>4. next \in Thread
  <2>1. Idle \in Thread
    BY DEF Idle, NoKey, Thread, Steps, Results
  <2>2. result \in Steps
    BY <1>3 DEF Steps, Results
  <2> HIDE DEF Idle, result
  <2> QED BY <1>3, <2>1, <2>2, Zenon DEF Thread
<1>5. thread' = [thread EXCEPT ![t] = next]
  BY DEF Unlink, End
<1>6. temp' = [temp EXCEPT ![name] = NoFile]
  BY DEF Unlink
<1>7. next.pc \notin Calling /\ next.pc \notin {"opening"} \cup Storing
  <2>1. next.pc \in Results
    BY <1>3 DEF Idle
  <2> QED BY <2>1, SMT DEF Calling, Results, Storing
<1>8. entry' \in [Keys -> Files]
  BY <1>1 DEF Types
<1> HIDE DEF next, result
<1>9. /\ Types' /\ Held' /\ temp'[name] = NoFile
      /\ \A n \in Procs \X Keys : n # name => NameSound(n)'
  BY <1>1, <1>2, <1>4, <1>5, <1>6, <1>7, <1>8, OthersKept
<1>10. ASSUME NEW n \in Procs \X Keys, n = name
       PROVE  NameSound(n)'
  BY <1>9, <1>10, NameFree
<1> QED BY <1>9, <1>10

\* Nothing the world does touches a file.
LEMMA WorldKeeps ==
    ASSUME IInv, NEW k \in Keys, Publish(k) \/ Age(k)
    PROVE  IInv'
<1> USE DEF IInv
<1>1. thread' = thread /\ entry' = entry /\ temp' = temp
  BY DEF Publish, Age, files
<1>2. world' \in [Keys -> Versions]
  BY FetchAssumption DEF Publish, Age, Types, Versions
<1>3. Types' /\ Held'
  BY <1>1, <1>2 DEF Types, Held
<1>4. ASSUME NEW n \in Procs \X Keys PROVE NameSound(n)'
  BY <1>1, NameKept
<1> QED BY <1>3, <1>4

\* A process that dies stops storing, and its temporary names are never met again.
LEMMA CrashKeeps ==
    ASSUME IInv, NEW p \in Procs, Crash(p)
    PROVE  IInv'
<1> USE DEF IInv
<1> DEFINE fresh(t) == [Idle EXCEPT !.calls = thread[t].calls]
<1>1. /\ thread' = [t \in Threads |-> IF ProcessOf[t] # p THEN thread[t] ELSE fresh(t)]
      /\ temp' = [n \in Procs \X Keys |-> IF n[1] = p THEN NoFile ELSE temp[n]]
      /\ entry' = [k \in Keys |-> [entry[k] EXCEPT !.open =
                                       @ \ {t \in Threads : ProcessOf[t] = p}]]
      /\ world' = world
  BY DEF Crash
<1>2. \A t \in Threads : fresh(t) \in Thread /\ fresh(t).pc = "idle"
  <2> SUFFICES ASSUME NEW t \in Threads PROVE fresh(t) \in Thread /\ fresh(t).pc = "idle"
    OBVIOUS
  <2>1. Idle \in Thread /\ Idle.pc = "idle"
    BY DEF Idle, NoKey, Thread, Steps, Results
  <2>2. thread[t].calls \in Nat
    BY DEF Types, Thread
  <2> HIDE DEF Idle
  <2> QED BY <2>1, <2>2 DEF Thread
<1>3. NoFile \in Files
  BY DEF NoFile, File, Files
<1> HIDE DEF fresh
<1>4. Types'
  <2>1. thread' \in [Threads -> Thread]
    BY <1>1, <1>2 DEF Types
  <2>2. temp' \in [Procs \X Keys -> Files]
    BY <1>1, <1>3 DEF Types
  <2>3. entry' \in [Keys -> Files]
    BY <1>1 DEF Types, Files
  <2> QED BY <1>1, <2>1, <2>2, <2>3 DEF Types, Thread
<1>5. \A t \in Threads : /\ ProcessOf[t] # p => thread'[t] = thread[t]
                         /\ ProcessOf[t] = p => thread'[t].pc = "idle"
  BY <1>1, <1>2
<1>6. Held'
  BY <1>5, SMT DEF Held, Calling, Storing, Steps, Results
<1>7. ASSUME NEW n \in Procs \X Keys PROVE NameSound(n)'
  <2>1. CASE n[1] = p
    BY <1>1, <2>1, NameFree
  <2>2. CASE n[1] # p
    <3>1. temp'[n] = temp[n]
      BY <1>1, <2>2
    <3>2. \A u \in Threads : At(u, n) => thread'[u] = thread[u]
      BY <1>5, <2>2 DEF At, Path
    <3> QED BY <3>1, <3>2, NameKept
  <2> QED BY <2>1, <2>2
<1> QED BY <1>4, <1>6, <1>7

\* Every step keeps the invariant.
LEMMA StepKeeps == IInv /\ [Next]_vars => IInv'
<1> SUFFICES ASSUME IInv, [Next]_vars PROVE IInv'
  OBVIOUS
<1>1. CASE UNCHANGED vars
  BY <1>1 DEF IInv, Types, Held, NameSound, At, Path, vars, files
<1>2. ASSUME NEW t \in Threads, Step(t) PROVE IInv'
  BY <1>2, AskKeeps, ServerKeeps, OpenKeeps, WriteKeeps, RenameKeeps, UnlinkKeeps DEF Step
<1>3. ASSUME NEW t \in Threads, NEW k \in Keys, Call(t, k) PROVE IInv'
  BY <1>3, CallKeeps
<1>4. ASSUME NEW k \in Keys, Publish(k) \/ Age(k) PROVE IInv'
  BY <1>4, WorldKeeps
<1>5. ASSUME NEW p \in Procs, Crash(p) PROVE IInv'
  BY <1>5, CrashKeeps
<1> QED BY <1>1, <1>2, <1>3, <1>4, <1>5 DEF Next

-----------------------------------------------------------------------------
(* Who can damage an entry.                                                *)

\* What a rename publishes that is not whole and closed, a rival is still writing or has
\* written.
LEMMA RivalsLeaveIt ==
    ASSUME IInv, NEW t \in Threads, thread[t].pc = "renaming", temp[Path(t)] # NoFile,
           ~(temp[Path(t)].bytes \in Versions /\ temp[Path(t)].open = {})
    PROVE  Contested(thread[t].key)
<1> USE DEF IInv
<1> DEFINE name == Path(t)
<1>1. name \in Procs \X Keys
  BY FileSteps, PathIsName
<1>2. temp[name] \in Files /\ NameSound(name)
  BY <1>1 DEF Types
<1>3. PICK u \in Threads : u # t /\ At(u, name)
  <2>1. CASE temp[name].open # {}
    BY <1>2, <2>1 DEF NameSound, Files, At, Storing
  <2>2. CASE temp[name].open = {}
    <3>1. temp[name].bytes # -2
      BY <1>2, <2>2 DEF Files, NoFile, File
    <3>2. temp[name].bytes = Torn
      BY <1>2, <2>2, <3>1 DEF NameSound, Files
    <3> QED BY <1>2, <3>2 DEF NameSound
  <2> QED BY <2>1, <2>2
<1>4. ProcessOf[u] = ProcessOf[t] /\ thread[u].key = thread[t].key
  BY <1>3 DEF At, Path
<1> QED BY <1>3, <1>4, SMT DEF Contested, At, Storing

\* Writing does not reach an entry that is absent or closed.
LEMMA WriteTearsNothing ==
    ASSUME IInv, NEW t \in Threads, Write(t), NEW k \in Keys, Sound(k)
    PROVE  entry'[k] = entry[k]
<1>1. PICK e \in Written(entry[thread[t].key], t) : entry' = [entry EXCEPT ![thread[t].key] = e]
  BY DEF Write
<1>2. entry[k].open = {}
  BY DEF Sound, NoFile, File
<1>3. k = thread[t].key => e = entry[k]
  BY <1>1, <1>2 DEF Written
<1> QED BY <1>1, <1>3 DEF IInv, Types

\* The death of a process does not reach an entry that is absent or closed.
LEMMA CrashTearsNothing ==
    ASSUME IInv, NEW p \in Procs, Crash(p), NEW k \in Keys, Sound(k)
    PROVE  entry'[k] = entry[k]
<1>1. entry'[k] = [entry[k] EXCEPT !.open = @ \ {t \in Threads : ProcessOf[t] = p}]
  BY DEF Crash
<1>2. entry[k] \in Files /\ entry[k].open = {}
  BY DEF IInv, Types, Sound, NoFile, File
<1> QED BY <1>1, <1>2 DEF Files

\* A step that damages an entry is a rename that has a rival.
LEMMA TearingStep ==
    ASSUME IInv, [Next]_vars, NEW k \in Keys, Sound(k), ~Contested(k)
    PROVE  Sound(k)'
<1>1. ASSUME entry'[k] = entry[k] PROVE Sound(k)'
  BY <1>1 DEF Sound
<1>2. CASE entry' = entry
  BY <1>1, <1>2
<1>3. ASSUME NEW t \in Threads, Rename(t) PROVE Sound(k)'
  <2>1. CASE temp[Path(t)] = NoFile \/ k # thread[t].key
    BY <1>1, <1>3, <2>1 DEF Rename, IInv, Types
  <2>2. CASE temp[Path(t)] # NoFile /\ k = thread[t].key
    <3>1. entry'[k] = temp[Path(t)] /\ thread[t].pc = "renaming"
      BY <1>3, <2>2 DEF Rename, IInv, Types
    <3>2. temp[Path(t)].bytes \in Versions /\ temp[Path(t)].open = {}
      BY <2>2, <3>1, RivalsLeaveIt
    <3> QED BY <3>1, <3>2 DEF Sound
  <2> QED BY <2>1, <2>2
<1>4. ASSUME NEW t \in Threads, Write(t) PROVE Sound(k)'
  BY <1>1, <1>4, WriteTearsNothing
<1>5. ASSUME NEW p \in Procs, Crash(p) PROVE Sound(k)'
  BY <1>1, <1>5, CrashTearsNothing
<1>6. ASSUME NEW t \in Threads, Step(t) PROVE Sound(k)'
  <2>1. CASE Write(t)
    BY <1>4, <2>1
  <2>2. CASE Rename(t)
    BY <1>3, <2>2
  <2>3. CASE ~Write(t) /\ ~Rename(t)
    <3>1. entry' = entry
      BY <1>6, <2>3 DEF Step, Look, Read, TakeLock, Grant, Answer, Busy, Refuse, Retry, Open,
                        Unlink, files
    <3> QED BY <1>2, <3>1
  <2> QED BY <2>1, <2>2, <2>3
<1>7. CASE \/ UNCHANGED vars
           \/ \E t \in Threads : \E key \in Keys : Call(t, key)
           \/ \E key \in Keys : Publish(key) \/ Age(key)
  <2>1. entry' = entry
    BY <1>7 DEF Call, Publish, Age, vars, files
  <2> QED BY <1>2, <2>1
<1> QED BY <1>5, <1>6, <1>7 DEF Next

\* The invariant holds of every run.
LEMMA InvariantHolds == Spec => []IInv
BY InitHolds, StepKeeps, PTL DEF Spec

\* For any number of processes, threads and keys, and whatever they want: a whole entry, or
\* the lack of one, is replaced by a whole and closed one, unless two threads of one
\* process are storing the key at once (put's temporary name and rename, cache.py).
THEOREM TornByRivalsOnly == Spec => OnlyRivalsTear
<1>1. IInv /\ [Next]_vars => [\A k \in Keys : Sound(k) /\ ~Sound(k)' => Contested(k)]_vars
  BY TearingStep
<1> QED BY <1>1, InvariantHolds, PTL DEF Spec, OnlyRivalsTear

\* So an entry that no two threads of one process ever store at once is at all times absent
\* or a whole version, through kills, retries, refreshes and other processes' writes: put
\* keeps its promise of atomic writes to every caller but those who share its temporary name.
THEOREM UncontestedIsWhole ==
    ASSUME NEW k \in Keys
    PROVE  Spec /\ []~Contested(k) => [](entry[k] # NoFile => entry[k].bytes \in Versions)
<1>1. Init => Sound(k)
  BY DEF Init, Sound
<1>2. IInv /\ [Next]_vars /\ ~Contested(k) /\ Sound(k) => Sound(k)'
  BY TearingStep
<1>3. Sound(k) => (entry[k] # NoFile => entry[k].bytes \in Versions)
  BY DEF Sound
<1> QED BY <1>1, <1>2, <1>3, InvariantHolds, PTL DEF Spec
=============================================================================
