----------------------- MODULE VerificationGateProofs -----------------------
(***************************************************************************)
(* The gate's properties for every set of sections, agents and claim ids,  *)
(* every retry cap and each of the three auditors.                         *)
(***************************************************************************)
EXTENDS VerificationGate, TLAPS

\* Why the cap holds with any auditor: a round retries a section at most once, so the
\* count of a section still queued is below the number of the round.
CountedByRound ==
    /\ \A s \in Sections : retries[s] <= round
    /\ \A d, e \in queue : d.section = e.section => d = e
    /\ pc = "retry" => \A d \in queue : retries[d.section] < round

\* Why no mark hides an error: a fresh audit's marks follow its verdict, and no section
\* is marked unverified before mark_unverified runs.
MarksFollowVerdict ==
    /\ pc = "route" => \A s \in Sections : \A id \in IdsOf(s) :
           claims[s][id] = IF id \in Failing(verdict) THEN "failed" ELSE "verified"
    /\ pc \in {"audit", "route", "retry"} => \A s \in Sections : sectionMark[s] # "unverified"
    /\ pc \in {"validate", "shipped", "invalid"} => \A s \in Sections :
           /\ \A id \in IdsOf(s) :
                  claims[s][id] = IF id \in Failing(verdict) THEN "unverified" ELSE "verified"
           /\ sectionMark[s] = "unverified" <=> IdsOf(s) \cap Failing(verdict) # {}

\* And between audits: a section that reads verified holds verified claims only.
SectionsFollowClaims == \A s \in Sections :
    sectionMark[s] = "verified" => \A id \in IdsOf(s) : claims[s][id] = "verified"

IInv == /\ TypeOK /\ CountedByRound /\ AuditedAsShipped
        /\ MarksFollowVerdict /\ SectionsFollowClaims

\* Claims filed from an analysis carry well-formed ids.
LEMMA FiledIds ==
    ASSUME NEW agent \in Agents, NEW analysis \in Analyses(agent),
           NEW attempt \in 0..MaxRetries, NEW s \in Sections
    PROVE  Filed(analysis, agent, attempt, s) \subseteq Ids
  <1>1. DOMAIN analysis \subseteq Words
    BY DEF Analyses
  <1> QED
    BY <1>1 DEF Filed, Id, Ids

\* Directives name sections, attempts within the cap, and each section once.
LEMMA DirectivesSound ==
    ASSUME TypeOK, NEW v, NEW q \in Directives(v)
    PROVE  /\ q \subseteq [section : Sections, attempt : 1..MaxRetries]
           /\ \A d, e \in q : d.section = e.section => d = e
  <1>1. CASE Auditor = "minimal"
    BY <1>1 DEF Directives
  <1>2. CASE Auditor = "routed"
    <2>1. PICK T \in SUBSET {t \in Flagged(v) : retries[t] < MaxRetries} :
              q = {[section |-> s, attempt |-> retries[s] + 1] : s \in T}
      BY <1>2 DEF Directives
    <2> QED
      BY <2>1, GateAssumption DEF TypeOK, Flagged
  <1>3. CASE Auditor = "contract"
    <2>1. PICK T \in SUBSET Flagged(v), n \in 1..MaxRetries :
              q = {[section |-> s, attempt |-> n] : s \in T}
      BY <1>3 DEF Directives
    <2> QED
      BY <2>1 DEF Flagged
  <1> QED
    BY <1>1, <1>2, <1>3, GateAssumption

LEMMA InitInv == Init => IInv
  <1> SUFFICES ASSUME Init PROVE IInv
    OBVIOUS
  <1>1. PICK analysis \in [Agents -> UNION {Analyses(a) : a \in Agents}] :
            /\ \A a \in Agents : analysis[a] \in Analyses(a)
            /\ claims = [s \in Sections |->
                   [id \in Filed(analysis[Owner[s]], Owner[s], 0, s) \cup CodeClaims(s) |->
                        "pending"]]
    BY DEF Init
  <1>2. ASSUME NEW s \in Sections
        PROVE  IdsOf(s) \subseteq Ids /\ claims[s] \in [IdsOf(s) -> Statuses]
    <2>1. Owner[s] \in Agents /\ 0 \in 0..MaxRetries
      BY GateAssumption
    <2>2. Filed(analysis[Owner[s]], Owner[s], 0, s) \subseteq Ids
      BY <1>1, <2>1, FiledIds
    <2>3. CodeClaims(s) \subseteq Ids
      BY DEF CodeClaims, Ids
    <2> QED
      BY <1>1, <2>2, <2>3 DEF IdsOf, Statuses
  <1>3. TypeOK
    BY <1>1, <1>2, GateAssumption DEF Init, TypeOK, Statuses
  <1> QED
    BY <1>3 DEF Init, IInv, CountedByRound, AuditedAsShipped, MarksFollowVerdict,
                SectionsFollowClaims

LEMMA AuditKeepsInv == IInv /\ Audit => IInv'
  <1> SUFFICES ASSUME IInv, Audit PROVE IInv'
    OBVIOUS
  <1> USE DEF IInv
  <1>1. PICK v \in Answers :
            /\ verdict' = v
            /\ queue' \in Directives(v)
            /\ claims' = [s \in Sections |-> [id \in IdsOf(s) |->
                   IF id \in Failing(v) THEN "failed" ELSE "verified"]]
            /\ sectionMark' = [s \in Sections |->
                   IF IdsOf(s) = {} THEN sectionMark[s]
                   ELSE IF IdsOf(s) \cap Failing(v) # {} THEN "failed" ELSE "verified"]
    BY DEF Audit
  <1>2. v \in [Present -> Findings]
    BY GateAssumption, <1>1 DEF Answers, Findings
  <1>3. \A s \in Sections : (IdsOf(s))' = IdsOf(s)
    BY <1>1 DEF IdsOf
  <1>4. Present' = Present /\ Present \subseteq Ids
    <2>1. Present' = Present
      BY <1>3 DEF Present
    <2>2. Present \subseteq Ids
      BY DEF Present, TypeOK
    <2> QED
      BY <2>1, <2>2
  <1>5. /\ queue' \subseteq [section : Sections, attempt : 1..MaxRetries]
        /\ \A d, e \in queue' : d.section = e.section => d = e
    BY <1>1, DirectivesSound
  <1>6. TypeOK'
    <2>1. /\ DOMAIN claims' = Sections
          /\ \A s \in Sections : (IdsOf(s))' \subseteq Ids
                                 /\ claims'[s] \in [(IdsOf(s))' -> Statuses]
      BY <1>1, <1>3 DEF TypeOK, Statuses
    <2>2. sectionMark' \in [Sections -> Statuses]
      BY <1>1 DEF TypeOK, Statuses
    <2>3. DOMAIN verdict' \subseteq Ids /\ verdict' \in [DOMAIN verdict' -> Findings]
      BY <1>1, <1>2, <1>4
    <2> QED
      BY <2>1, <2>2, <2>3, <1>5 DEF TypeOK, Audit
  <1>7. CountedByRound'
    BY <1>5 DEF CountedByRound, Audit
  <1>8. AuditedAsShipped'
    <2>1. DOMAIN verdict' = Present'
      BY <1>1, <1>2, <1>4
    <2>2. \A s \in Sections : \A id \in (IdsOf(s))' : claims'[s][id] # "pending"
      BY <1>1, <1>3
    <2> QED
      BY <2>1, <2>2 DEF AuditedAsShipped
  <1>9. MarksFollowVerdict'
    <2>1. \A s \in Sections : \A id \in (IdsOf(s))' :
              claims'[s][id] = IF id \in Failing(verdict') THEN "failed" ELSE "verified"
      BY <1>1, <1>3
    <2>2. \A s \in Sections : sectionMark'[s] # "unverified"
      BY <1>1 DEF Audit, MarksFollowVerdict
    <2>3. pc' = "route"
      BY DEF Audit
    <2> QED
      BY <2>1, <2>2, <2>3 DEF MarksFollowVerdict
  <1>10. SectionsFollowClaims'
    BY <1>1, <1>3 DEF SectionsFollowClaims
  <1> QED
    BY <1>6, <1>7, <1>8, <1>9, <1>10

LEMMA StartRoundKeepsInv == IInv /\ StartRound => IInv'
  <1> SUFFICES ASSUME IInv, StartRound PROVE IInv'
    OBVIOUS
  <1> USE DEF IInv
  <1>1. \A s \in Sections : (IdsOf(s))' = IdsOf(s)
    BY DEF StartRound, IdsOf
  <1>2. TypeOK'
    BY <1>1, GateAssumption DEF StartRound, TypeOK
  <1>3. CountedByRound'
    BY DEF StartRound, CountedByRound, TypeOK
  <1>4. SectionsFollowClaims'
    BY <1>1 DEF StartRound, SectionsFollowClaims
  <1> QED
    BY <1>2, <1>3, <1>4 DEF StartRound, AuditedAsShipped, MarksFollowVerdict

\* What one directive does to the claims.
LEMMA ApplyFacts ==
    ASSUME TypeOK, NEW d \in queue, NEW fresh \in SUBSET Ids, ApplyDirective(d, fresh)
    PROVE  /\ DOMAIN claims' = Sections
           /\ \A s \in Sections : (IdsOf(s))' \subseteq Ids
                                  /\ claims'[s] \in [(IdsOf(s))' -> Statuses]
           /\ sectionMark' \in [Sections -> Statuses]
           /\ \A s \in Sections : sectionMark'[s] \in {sectionMark[s], "pending"}
           /\ \A s \in Sections : claims'[s] = claims[s] \/ sectionMark'[s] = "pending"
           /\ \A s \in Sections : s # d.section => (IdsOf(s))' = IdsOf(s)
           /\ \A s \in Sections : IdsOf(s) # {} => (IdsOf(s))' # {}
  <1>1. CASE fresh = {} /\ UNCHANGED <<claims, sectionMark>>
    BY <1>1 DEF TypeOK, IdsOf
  <1>2. CASE fresh # {} /\ Replace({d.section}, fresh)
    <2>1. claims' = [s \in Sections |->
              IF s = d.section THEN [id \in fresh |-> "pending"] ELSE claims[s]]
      BY <1>2 DEF Replace
    <2>2. sectionMark' = [s \in Sections |->
              IF s = d.section THEN "pending" ELSE sectionMark[s]]
      BY <1>2 DEF Replace
    <2>3. ASSUME NEW s \in Sections, s # d.section
          PROVE  claims'[s] = claims[s] /\ (IdsOf(s))' = IdsOf(s)
      BY <2>1, <2>3 DEF IdsOf
    <2>4. ASSUME NEW s \in Sections, s = d.section
          PROVE  /\ (IdsOf(s))' = fresh
                 /\ claims'[s] \in [fresh -> Statuses]
      BY <2>1, <2>4 DEF IdsOf, Statuses
    <2>5. \A s \in Sections : (IdsOf(s))' \subseteq Ids
                              /\ claims'[s] \in [(IdsOf(s))' -> Statuses]
      BY <2>3, <2>4 DEF TypeOK
    <2>6. \A s \in Sections : IdsOf(s) # {} => (IdsOf(s))' # {}
      BY <2>3, <2>4, <1>2
    <2>7. sectionMark' \in [Sections -> Statuses]
      BY <2>2 DEF TypeOK, Statuses
    <2>8. \A s \in Sections : claims'[s] = claims[s] \/ sectionMark'[s] = "pending"
      BY <2>2, <2>3
    <2> QED
      BY <2>1, <2>2, <2>3, <2>5, <2>6, <2>7, <2>8
  <1> QED
    BY <1>1, <1>2 DEF ApplyDirective

LEMMA RetryFacts ==
    ASSUME TypeOK, NEW d \in queue, Retry(d)
    PROVE  \E fresh \in SUBSET Ids : ApplyDirective(d, fresh)
  <1>1. d.section \in Sections /\ d.attempt \in 0..MaxRetries
    BY GateAssumption DEF TypeOK
  <1>2. Owner[d.section] \in Agents
    BY <1>1, GateAssumption
  <1>3. PICK analysis \in Analyses(Owner[d.section]) :
            ApplyDirective(d, Filed(analysis, Owner[d.section], d.attempt, d.section))
    BY DEF Retry
  <1> QED
    BY <1>1, <1>2, <1>3, FiledIds

LEMMA RetryKeepsInv == ASSUME IInv, NEW d \in queue, Retry(d) PROVE IInv'
  <1> USE DEF IInv
  <1>1. PICK fresh \in SUBSET Ids : ApplyDirective(d, fresh)
    BY RetryFacts
  <1>2. /\ retries' = [retries EXCEPT ![d.section] = @ + 1]
        /\ queue' = queue \ {d}
    BY <1>1 DEF ApplyDirective
  <1>3. pc = "retry" /\ pc' \in {"retry", "audit"}
        /\ UNCHANGED <<verdict, round>>
    BY DEF Retry, AfterRetry
  <1>4. TypeOK'
    <2>1. retries' \in [Sections -> Nat]
      BY <1>2 DEF TypeOK
    <2> QED
      BY <1>1, <1>2, <1>3, <2>1, ApplyFacts DEF TypeOK
  <1>5. CountedByRound'
    <2>1. d.section \in Sections /\ retries[d.section] < round
      BY <1>3 DEF CountedByRound, TypeOK
    <2>2. \A s \in Sections : retries'[s] <= round
      BY <1>2, <2>1 DEF CountedByRound, TypeOK
    <2>3. ASSUME NEW e \in queue' PROVE retries'[e.section] < round
      <3>1. e \in queue /\ e # d /\ e.section # d.section /\ e.section \in Sections
        BY <1>2 DEF CountedByRound, TypeOK
      <3> QED
        BY <1>2, <1>3, <3>1 DEF CountedByRound, TypeOK
    <2> QED
      BY <1>2, <1>3, <2>2, <2>3 DEF CountedByRound
  <1>6. AuditedAsShipped'
    BY <1>3 DEF AuditedAsShipped
  <1>7. MarksFollowVerdict'
    <2>1. \A s \in Sections : sectionMark'[s] # "unverified"
      BY <1>1, <1>3, ApplyFacts DEF MarksFollowVerdict
    <2> QED
      BY <1>3, <2>1 DEF MarksFollowVerdict
  <1>8. SectionsFollowClaims'
    <2> SUFFICES ASSUME NEW s \in Sections, sectionMark'[s] = "verified"
                 PROVE  \A id \in (IdsOf(s))' : claims'[s][id] = "verified"
      BY DEF SectionsFollowClaims
    <2>1. claims'[s] = claims[s] /\ sectionMark[s] = "verified"
      BY <1>1, ApplyFacts
    <2> QED
      BY <2>1 DEF SectionsFollowClaims, IdsOf
  <1> QED
    BY <1>4, <1>5, <1>6, <1>7, <1>8

LEMMA MarkKeepsInv == IInv /\ MarkUnverified => IInv'
  <1> SUFFICES ASSUME IInv, MarkUnverified PROVE IInv'
    OBVIOUS
  <1> USE DEF IInv
  <1>1. claims' = [s \in Sections |-> [id \in IdsOf(s) |->
            IF id \in Failing(verdict) THEN "unverified" ELSE claims[s][id]]]
    BY DEF MarkUnverified
  <1>2. sectionMark' = [s \in Sections |->
            IF IdsOf(s) \cap Failing(verdict) # {} THEN "unverified" ELSE sectionMark[s]]
    BY DEF MarkUnverified
  <1>3. pc = "route" /\ pc' = "validate" /\ UNCHANGED <<retries, verdict, queue, round>>
    BY DEF MarkUnverified
  <1>4. \A s \in Sections : (IdsOf(s))' = IdsOf(s)
    BY <1>1 DEF IdsOf
  <1>5. TypeOK'
    <2>1. /\ DOMAIN claims' = Sections
          /\ \A s \in Sections : (IdsOf(s))' \subseteq Ids
                                 /\ claims'[s] \in [(IdsOf(s))' -> Statuses]
      BY <1>1, <1>4 DEF TypeOK, Statuses
    <2>2. sectionMark' \in [Sections -> Statuses]
      BY <1>2 DEF TypeOK, Statuses
    <2> QED
      BY <1>3, <2>1, <2>2 DEF TypeOK
  <1>6. CountedByRound'
    BY <1>3 DEF CountedByRound
  <1>7. \A s \in Sections : \A id \in (IdsOf(s))' :
            claims'[s][id] = IF id \in Failing(verdict') THEN "unverified" ELSE "verified"
    BY <1>1, <1>3, <1>4 DEF MarksFollowVerdict
  <1>8. \A s \in Sections :
            sectionMark'[s] = "unverified" <=> (IdsOf(s))' \cap Failing(verdict') # {}
    BY <1>2, <1>3, <1>4 DEF MarksFollowVerdict
  <1>9. AuditedAsShipped'
    <2>1. Present' = Present
      BY <1>4 DEF Present
    <2> QED
      BY <1>3, <1>7, <2>1 DEF AuditedAsShipped
  <1>10. MarksFollowVerdict'
    BY <1>3, <1>7, <1>8 DEF MarksFollowVerdict
  <1>11. SectionsFollowClaims'
    <2> SUFFICES ASSUME NEW s \in Sections, sectionMark'[s] = "verified"
                 PROVE  \A id \in (IdsOf(s))' : claims'[s][id] = "verified"
      BY DEF SectionsFollowClaims
    <2>1. sectionMark[s] = "verified" /\ IdsOf(s) \cap Failing(verdict) = {}
      BY <1>2
    <2> QED
      BY <1>1, <1>4, <2>1 DEF SectionsFollowClaims
  <1> QED
    BY <1>5, <1>6, <1>9, <1>10, <1>11

\* The steps that only move the gate on.
LEMMA QuietKeepsInv == IInv /\ (Validate \/ Raise \/ UNCHANGED vars) => IInv'
  <1> SUFFICES ASSUME IInv, Validate \/ Raise \/ UNCHANGED vars PROVE IInv'
    OBVIOUS
  <1>1. UNCHANGED <<claims, sectionMark, retries, verdict, queue, round>>
    BY DEF Validate, Raise, vars
  <1>2. \/ pc = "validate" /\ pc' \in {"shipped", "invalid"}
        \/ pc' = "failed"
        \/ pc' = pc
    BY DEF Validate, Raise, vars
  <1>3. \A s \in Sections : (IdsOf(s))' = IdsOf(s)
    BY <1>1 DEF IdsOf
  <1>4. Present' = Present
    BY <1>3 DEF Present
  <1>5. TypeOK'
    BY <1>1, <1>2, <1>3 DEF IInv, TypeOK
  <1>6. CountedByRound'
    BY <1>1, <1>2 DEF IInv, CountedByRound
  <1>7. AuditedAsShipped'
    BY <1>1, <1>2, <1>3, <1>4 DEF IInv, AuditedAsShipped
  <1>8. MarksFollowVerdict'
    BY <1>1, <1>2, <1>3 DEF IInv, MarksFollowVerdict
  <1>9. SectionsFollowClaims'
    BY <1>1, <1>3 DEF IInv, SectionsFollowClaims
  <1> QED
    BY <1>5, <1>6, <1>7, <1>8, <1>9 DEF IInv

LEMMA NextKeepsInv == IInv /\ [Next]_vars => IInv'
  BY AuditKeepsInv, StartRoundKeepsInv, RetryKeepsInv, MarkKeepsInv, QuietKeepsInv
  DEF Next, Step, Over

\* The inductive invariant holds in every reachable state.
THEOREM InvariantHolds == Spec => []IInv
  BY InitInv, NextKeepsInv, PTL DEF Spec

\* The gate's state keeps its types.
THEOREM GateTypeCorrect == Spec => []TypeOK
  BY InvariantHolds, PTL DEF IInv

\* No section is redone more often than the cap allows, whatever the auditor answers:
\* retry_loop's round count alone ensures it.
THEOREM AttemptsCapped == Spec => []AttemptsBounded
  <1>1. IInv => AttemptsBounded
    BY GateAssumption DEF IInv, TypeOK, CountedByRound, AttemptsBounded
  <1> QED
    BY <1>1, InvariantHolds, PTL

\* Every claim that is marked, validated or shipped was read by the last audit.
THEOREM ShippedWasAudited == Spec => []AuditedAsShipped
  BY InvariantHolds, PTL DEF IInv

\* No mark hides an error: what the last audit found an error with ships unverified, and
\* so does its section, which reads verified at no moment while a claim of it is not.
THEOREM NoErrorIsHidden == Spec => []ErrorsShow
  <1>1. ASSUME IInv, pc \in {"shipped", "invalid"}, NEW s \in Sections
        PROVE  /\ \A id \in IdsOf(s) : id \in DOMAIN verdict /\ verdict[id] = "error"
                                      => claims[s][id] = "unverified"
               /\ sectionMark[s] = "unverified" <=>
                     \E id \in IdsOf(s) : claims[s][id] = "unverified"
    <2>1. /\ \A id \in IdsOf(s) :
                claims[s][id] = IF id \in Failing(verdict) THEN "unverified" ELSE "verified"
          /\ sectionMark[s] = "unverified" <=> IdsOf(s) \cap Failing(verdict) # {}
      BY <1>1 DEF IInv, MarksFollowVerdict
    <2> QED
      BY <2>1 DEF Failing
  <1>2. IInv => ErrorsShow
    BY <1>1 DEF IInv, SectionsFollowClaims, ErrorsShow
  <1> QED
    BY <1>2, InvariantHolds, PTL

\* What every step does to the claim ids of every section.
LEMMA StepKeepsIds ==
    ASSUME TypeOK, [Next]_vars, NEW s \in Sections
    PROVE  /\ IdsOf(s) # {} => (IdsOf(s))' # {}
           /\ retries'[s] = retries[s] => (IdsOf(s))' = IdsOf(s)
  <1>1. CASE Audit
    <2>1. (IdsOf(s))' = IdsOf(s)
      BY <1>1 DEF Audit, IdsOf
    <2> QED
      BY <2>1
  <1>2. CASE MarkUnverified
    <2>1. (IdsOf(s))' = IdsOf(s)
      BY <1>2 DEF MarkUnverified, IdsOf
    <2> QED
      BY <2>1
  <1>3. CASE UNCHANGED claims
    BY <1>3 DEF IdsOf
  <1>4. ASSUME NEW d \in queue, Retry(d)
        PROVE  /\ IdsOf(s) # {} => (IdsOf(s))' # {}
               /\ retries'[s] = retries[s] => (IdsOf(s))' = IdsOf(s)
    <2>1. PICK fresh \in SUBSET Ids : ApplyDirective(d, fresh)
      BY <1>4, RetryFacts
    <2>2. d.section \in Sections
          /\ retries' = [retries EXCEPT ![d.section] = @ + 1]
      BY <2>1 DEF ApplyDirective, TypeOK
    <2>3. retries'[s] = retries[s] => s # d.section
      BY <2>2 DEF TypeOK
    <2> QED
      BY <2>1, <2>3, ApplyFacts
  <1> QED
    BY <1>1, <1>2, <1>3, <1>4 DEF Next, Step, StartRound, Validate, Raise, Over, vars

\* A retry that brings no claims never empties a section: nothing hides a failed claim.
THEOREM NothingIsHidden == Spec => NothingHidden
  <1>1. TypeOK /\ [Next]_vars => [\A s \in Sections : IdsOf(s) # {} => (IdsOf(s))' # {}]_vars
    BY StepKeepsIds
  <1> QED
    BY <1>1, GateTypeCorrect, PTL DEF Spec, NothingHidden

\* Only a counted retry of a section changes which claims it holds.
THEOREM OnlyDirectedChange == Spec => OnlyDirectedRewritten
  <1>1. TypeOK /\ [Next]_vars =>
            [\A s \in Sections : retries'[s] = retries[s] => (IdsOf(s))' = IdsOf(s)]_vars
    BY StepKeepsIds
  <1> QED
    BY <1>1, GateTypeCorrect, PTL DEF Spec, OnlyDirectedRewritten
=============================================================================
