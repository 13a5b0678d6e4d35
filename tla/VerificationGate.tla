-------------------------- MODULE VerificationGate --------------------------
(***************************************************************************)
(* The verification gate of a run: the Coordinator audits the claims of    *)
(* every section, re-runs the agents that own flagged sections, audits     *)
(* again, marks what still fails and ships (orchestrator/coordinator.py    *)
(* verify, _audit, _rerun; orchestrator/retry.py), after which the state   *)
(* passes its contract validators once more before it is rendered.         *)
(***************************************************************************)
EXTENDS Integers, FiniteSets

CONSTANTS
    Sections,       \* section keys of the report
    Agents,         \* agents that own sections
    Owner,          \* SECTION_OWNERS: the agent responsible for a section
    Writes,         \* sections an agent's findings may be filed in
    CodeSections,   \* sections that also hold claims generated from calc's result
    Words,          \* "<finding number>-<slug>" tails of claim ids
    MaxRetries,     \* MAX_RETRIES
    Auditor         \* which auditor is injected, see Answers

ASSUME GateAssumption ==
    /\ Owner \in [Sections -> Agents]
    /\ Writes \in [Agents -> SUBSET Sections]
    /\ \A s \in Sections, a \in Agents : s \in Writes[a] => Owner[s] = a
    /\ CodeSections \subseteq Sections
    /\ "code" \notin Agents
    /\ MaxRetries \in Nat
    /\ Auditor \in {"minimal", "routed", "contract"}

VARIABLES
    claims,         \* per section, the status of each claim by claim id
    sectionMark,    \* per section, verification_status
    retries,        \* per section, retry_count
    verdict,        \* the last audit's finding on each claim id it saw
    queue,          \* directives of the current round still to be run
    round,          \* rounds of retry_loop started
    pc              \* where the gate is

vars == <<claims, sectionMark, retries, verdict, queue, round, pc>>
Id(agent, attempt, word) == <<agent, attempt, word>>
CodeId(s) == <<"code", 0, s>>
Ids == (Agents \X (0..MaxRetries) \X Words) \cup {CodeId(s) : s \in CodeSections}

Statuses == {"pending", "verified", "failed", "unverified"}
\* What an audit finds on one claim.
Findings == {"none", "warning", "error"}
Failing(v) == {id \in DOMAIN v : v[id] = "error"}

IdsOf(s) == DOMAIN claims[s]
Present  == UNION {IdsOf(s) : s \in Sections}

TypeOK ==
    /\ DOMAIN claims = Sections
    /\ \A s \in Sections :
           IdsOf(s) \subseteq Ids /\ claims[s] \in [IdsOf(s) -> Statuses]
    /\ sectionMark \in [Sections -> Statuses]
    /\ retries \in [Sections -> Nat]
    /\ DOMAIN verdict \subseteq Ids /\ verdict \in [DOMAIN verdict -> Findings]
    /\ queue \subseteq [section : Sections, attempt : 1..MaxRetries]
    /\ round \in 0..MaxRetries
    /\ pc \in {"audit", "route", "retry", "validate", "shipped", "failed", "invalid"}

\* An agent's analysis: the findings it makes, each filed in a section it writes.
Analyses(agent) == UNION {[W -> Writes[agent]] : W \in SUBSET Words}

Filed(analysis, agent, attempt, s) ==
    {Id(agent, attempt, w) : w \in {v \in DOMAIN analysis : analysis[v] = s}}

CodeClaims(s) == IF s \in CodeSections THEN {CodeId(s)} ELSE {}

Init ==
    /\ \E analysis \in [Agents -> UNION {Analyses(a) : a \in Agents}] :
           /\ \A a \in Agents : analysis[a] \in Analyses(a)
           /\ claims = [s \in Sections |->
                  [id \in Filed(analysis[Owner[s]], Owner[s], 0, s) \cup CodeClaims(s) |->
                       "pending"]]
    /\ sectionMark = [s \in Sections |-> "pending"]
    /\ retries = [s \in Sections |-> 0]
    /\ verdict = << >>
    /\ queue = {}
    /\ round = 0
    /\ pc = "audit"

-----------------------------------------------------------------------------
(* The injected auditor.                                                    *)
(*  minimal   audit/api.py as it stands: it can only find an unresolved     *)
(*            fact, verifies nothing and asks for no retry;                 *)
(*  routed    the auditor retry_loop is written for: directives for some  *)
(*            flagged sections (not for those whose issues no retry can     *)
(*            fix, audit/routing.py NOT_RETRYABLE), numbered from the       *)
(*            section's retry_count, none beyond the cap;                   *)
(*  contract  any answer the VerificationResult contract admits with one    *)
(*            directive per section and one attempt number for all, as      *)
(*            audit/routing.py build_directives is given, whatever it is.   *)

Flagged(v) == {s \in Sections : \E id \in IdsOf(s) : v[id] # "none"}

Answers == IF Auditor = "minimal" THEN [Present -> {"none", "error"}]
           ELSE [Present -> Findings]

Directives(v) ==
    CASE Auditor = "minimal" -> {{}}
      [] Auditor = "routed" ->
           {{[section |-> s, attempt |-> retries[s] + 1] : s \in T} :
               T \in SUBSET {t \in Flagged(v) : retries[t] < MaxRetries}}
      [] Auditor = "contract" ->
           {{[section |-> s, attempt |-> n] : s \in T} :
               T \in SUBSET Flagged(v), n \in 1..MaxRetries}

\* The claims an auditor's answer calls verified: the minimal one verifies none.
VerifiedBy(v) == IF Auditor = "minimal" THEN {} ELSE {id \in DOMAIN v : v[id] = "none"}

\* _audit: the claims named by an error fail, every other claim is marked verified.
Audit ==
    /\ pc = "audit"
    /\ \E v \in Answers :
           /\ verdict' = v
           /\ queue' \in Directives(v)
           /\ claims' = [s \in Sections |-> [id \in IdsOf(s) |->
                  IF id \in Failing(v) THEN "failed" ELSE "verified"]]
           /\ sectionMark' = [s \in Sections |->
                  IF IdsOf(s) = {} THEN sectionMark[s]
                  ELSE IF IdsOf(s) \cap Failing(v) # {} THEN "failed" ELSE "verified"]
    /\ pc' = "route"
    /\ UNCHANGED <<retries, round>>

StartRound ==
    /\ pc = "route"
    /\ round < MaxRetries
    /\ queue # {}
    /\ round' = round + 1
    /\ pc' = "retry"
    /\ UNCHANGED <<claims, sectionMark, retries, verdict, queue>>

Replace(S, fresh) ==
    /\ claims' = [s \in Sections |->
           IF s \in S THEN [id \in fresh |-> "pending"] ELSE claims[s]]
    /\ sectionMark' = [s \in Sections |-> IF s \in S THEN "pending" ELSE sectionMark[s]]

\* Bugs: a run without claims for the section empties it; the rewrite covers all the
\* sections of the agent.
ApplyDirective_Empties(d, fresh) ==
    /\ retries' = [retries EXCEPT ![d.section] = @ + 1]
    /\ queue' = queue \ {d}
    /\ Replace({d.section}, fresh)

ApplyDirective_AllOwned(d, fresh) ==
    /\ retries' = [retries EXCEPT ![d.section] = @ + 1]
    /\ queue' = queue \ {d}
    /\ \/ fresh = {} /\ UNCHANGED <<claims, sectionMark>>
       \/ fresh # {} /\ Replace({s \in Sections : Owner[s] = Owner[d.section]}, fresh)

\* apply_directive: the attempt counts in any case; fresh claims replace everything
\* the section holds, and a run without any keeps the originals.
ApplyDirective(d, fresh) ==
    /\ retries' = [retries EXCEPT ![d.section] = @ + 1]
    /\ queue' = queue \ {d}
    /\ \/ fresh = {} /\ UNCHANGED <<claims, sectionMark>>
       \/ fresh # {} /\ Replace({d.section}, fresh)

\* The state is audited again after the last directive. Bug: not in the last round.
AfterRetry_LastUnaudited ==
    pc' = IF queue' # {} THEN "retry" ELSE IF round < MaxRetries THEN "audit" ELSE "route"

AfterRetry == pc' = IF queue' # {} THEN "retry" ELSE "audit"

\* One directive: the owner runs again, and of its claims those for this section are used.
Retry(d) ==
    /\ pc = "retry"
    /\ d \in queue
    /\ \E fresh \in {Filed(analysis, Owner[d.section], d.attempt, d.section) :
                         analysis \in Analyses(Owner[d.section])} :
           ApplyDirective(d, fresh)
    /\ AfterRetry
    /\ UNCHANGED <<verdict, round>>

\* The auditor or a re-run agent raises: verify() fails and so does the run.
Raise ==
    /\ pc \in {"audit", "retry"}
    /\ pc' = "failed"
    /\ UNCHANGED <<claims, sectionMark, retries, verdict, queue, round>>

\* Bug: only the sections that used up their attempts are marked, so what no retry can
\* fix (audit/routing.py NOT_RETRYABLE) ships without a marker.
MarkUnverified_AfterCap ==
    LET Exhausted == {s \in Sections : retries[s] = MaxRetries} IN
    /\ pc = "route"
    /\ round = MaxRetries \/ queue = {}
    /\ claims' = [s \in Sections |-> [id \in IdsOf(s) |->
           IF s \in Exhausted /\ id \in Failing(verdict) THEN "unverified" ELSE claims[s][id]]]
    /\ sectionMark' = [s \in Sections |->
           IF s \in Exhausted /\ IdsOf(s) \cap Failing(verdict) # {} THEN "unverified"
           ELSE sectionMark[s]]
    /\ pc' = "validate"
    /\ UNCHANGED <<retries, verdict, queue, round>>

\* mark_unverified, when no directive is left or the rounds are used up.
MarkUnverified ==
    /\ pc = "route"
    /\ round = MaxRetries \/ queue = {}
    /\ claims' = [s \in Sections |-> [id \in IdsOf(s) |->
           IF id \in Failing(verdict) THEN "unverified" ELSE claims[s][id]]]
    /\ sectionMark' = [s \in Sections |->
           IF IdsOf(s) \cap Failing(verdict) # {} THEN "unverified" ELSE sectionMark[s]]
    /\ pc' = "validate"
    /\ UNCHANGED <<retries, verdict, queue, round>>

\* run_state re-runs the contract validators: claim ids are unique across sections.
Shared(s, t) == IdsOf(s) \cap IdsOf(t)
UniqueIds == \A s, t \in Sections : s # t => Shared(s, t) = {}

\* Bug: a state that fails validation goes through the gate again.
Validate_Again ==
    /\ pc = "validate"
    /\ pc' = IF UniqueIds THEN "shipped" ELSE "audit"
    /\ UNCHANGED <<claims, sectionMark, retries, verdict, queue, round>>

Validate ==
    /\ pc = "validate"
    /\ pc' = IF UniqueIds THEN "shipped" ELSE "invalid"
    /\ UNCHANGED <<claims, sectionMark, retries, verdict, queue, round>>

Over == pc \in {"shipped", "failed", "invalid"} /\ UNCHANGED vars

Step == Audit \/ StartRound \/ (\E d \in queue : Retry(d)) \/ MarkUnverified \/ Validate

Next == Step \/ Raise \/ Over

Spec == Init /\ [][Next]_vars

\* The gate is one thread of control and calls return (model calls time out).
FairSpec == Spec /\ WF_vars(Step)

-----------------------------------------------------------------------------
(* Properties. A definition named Other_Suffix is a plausible bug in Other.  *)

\* What the report renders of a claim was audited after the section's last rewrite:
\* once no retry is left, the last audit read every claim there is and judged it.
AuditedAsShipped ==
    pc \in {"route", "validate", "shipped", "invalid"} =>
        /\ DOMAIN verdict = Present
        /\ \A s \in Sections : \A id \in IdsOf(s) : claims[s][id] # "pending"

\* The gate hides no error behind a mark. A claim the last audit found an error with
\* ships marked unverified, whether its section was retried to the cap or never could
\* be (mark_unverified); a section is marked so exactly when one of its claims is; and
\* at no moment, the rounds between two audits included, does a section read verified
\* while it holds a claim that failed or that nobody has audited yet.
ErrorsShow ==
    /\ pc \in {"shipped", "invalid"} => \A s \in Sections :
           /\ \A id \in IdsOf(s) :
                  id \in DOMAIN verdict /\ verdict[id] = "error" => claims[s][id] = "unverified"
           /\ sectionMark[s] = "unverified" <=> \E id \in IdsOf(s) : claims[s][id] = "unverified"
    /\ \A s \in Sections :
           sectionMark[s] = "verified" => \A id \in IdsOf(s) : claims[s][id] = "verified"

\* A section is redone at most MAX_RETRIES times, even by an auditor that goes on
\* issuing directives and does not read retry_count.
AttemptsBounded == \A s \in Sections : retries[s] <= MaxRetries

\* A section's claims change only in a step that counts a retry of that section: the
\* agent's other sections and every other agent's claims are left alone.
OnlyDirectedRewritten ==
    [][\A s \in Sections : retries'[s] = retries[s] => (IdsOf(s))' = IdsOf(s)]_vars

\* Nothing hides a failed claim: a section that has claims never becomes empty.
NothingHidden == [][\A s \in Sections : IdsOf(s) # {} => (IdsOf(s))' # {}]_vars

\* The gate has a worst case: it ends whatever the auditor and the agents answer.
Ends == <>(pc \in {"shipped", "failed", "invalid"})

(* What the repository says of the gate and the code does not do.           *)

\* Nothing carries a verification stamp it did not earn (audit/api.py): a claim ships
\* as verified only if the last audit verified it. Violated with the auditor the server
\* is composed with, which verifies no claim at all; and with any that may warn, since a
\* claim with a warning, for status_for (contracts/verification.py) a failed one, is
\* stamped like a sound one.
StampsEarned ==
    pc = "shipped" => \A s \in Sections : \A id \in IdsOf(s) :
        claims[s][id] = "verified" => id \in VerifiedBy(verdict)
=============================================================================
