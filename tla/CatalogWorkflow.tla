--------------------------- MODULE CatalogWorkflow --------------------------
(***************************************************************************)
(* The workflow of one catalog request: the LangGraph graph of             *)
(* src/src/project_catalog_agent/workflow/graph.py, the state updater, the *)
(* recovery executor, the clarification processor and the publication      *)
(* service it calls, and the facade that starts and resumes it.            *)
(*                                                                         *)
(* One step of the model is one superstep of the graph: LangGraph writes a *)
(* checkpoint after each, so a crash loses the superstep it falls in.  The *)
(* project repository is a database of its own.                            *)
(***************************************************************************)
EXTENDS CatalogPolicy

CONSTANTS
    Extractions,     \* what the extraction model may answer
    Mappings,        \* the mappings the normalizer may give one requirement
    MaxTransitions,  \* CatalogWorkflowConfig.max_transitions
    MayFail,         \* calls of models and databases may fail
    MaxRefused,      \* bound: answers refused
    MaxRestarts      \* bound: runs begun again on a fresh checkpoint database

ASSUME WorkflowAssumption ==
    /\ \A e \in Extractions : e \in Seq(Requirement)
    /\ Mappings \subseteq Mapping
    /\ MaxTransitions \in Nat \ {0}
    /\ MayFail \in BOOLEAN
    /\ MaxRefused \in Nat
    /\ MaxRestarts \in Nat

VARIABLES
    thread,          \* "new", "running", "paused", "ended" or "orphaned"
    node,            \* the graph's next node
    count,           \* transition_count
    error,           \* workflow_error's code
    decision,        \* last_decision
    \* CatalogAgentState:
    status, stage, extraction, normalization, profile, validation, pending,
    escalation,
    history,         \* recovery_history
    answers,         \* clarification_history
    \* outside the workflow:
    store,           \* the repository's project for this request
    refused,         \* answers refused so far
    restarts         \* fresh checkpoint databases so far

graph == <<thread, node, count, error, decision>>
artifacts == <<extraction, normalization, profile, validation>>
catalog == <<status, stage, artifacts, pending, escalation, history, answers>>
outside == <<store, refused, restarts>>
vars == <<graph, catalog, outside>>

\* An artifact that may be missing.
None == <<>>
Some(x) == <<x>>
The(o) == o[1]

\* The normalizer's possible results for the extraction e.
Normalizations(e) == [1 .. Len(e) -> Mappings]

-----------------------------------------------------------------------------
(* CatalogAgentState's own rules, which every update has to keep.          *)

Contract(st, sg, pe, es) ==
    /\ st = "awaiting_clarification" <=> pe # NoIssue
    /\ sg = "awaiting_clarification" <=> pe # NoIssue
    /\ st = "escalated" <=> es # NoIssue
    /\ sg = "escalated" <=> es # NoIssue
    /\ pe = NoIssue \/ es = NoIssue
    /\ st = "completed" <=> sg = "completed"

-----------------------------------------------------------------------------
(* What CatalogDecisionPolicy.decide answers for the current state.        *)

Decide ==
    CASE status = "completed"              -> Simple("terminal_success")
      [] status = "escalated"              -> Simple("terminal_escalated")
      [] status = "awaiting_clarification" -> Simple("await_clarification")
      [] status = "permanent_failure"      -> Simple("permanent_failure")
      [] OTHER ->
           IF extraction = None         THEN Simple("extract")
           ELSE IF normalization = None THEN Simple("normalize")
           ELSE IF profile = None       THEN Simple("build_profile")
           ELSE IF validation = None    THEN Simple("validate")
           ELSE IF The(validation) = {} THEN Simple("publish")
           ELSE DecideRecovery(history, Selected(The(validation)))

Operational == {"extract", "normalize", "build_profile", "validate",
                "execute_recovery", "await_clarification", "publish"}

-----------------------------------------------------------------------------
(* How a superstep ends.                                                   *)

At(n) == thread = "running" /\ node = n

\* Fault: a superstep is counted twice, on the way in and on the way out.
Completed_Twice ==
    /\ count' = count + 2
    /\ error' = "none"
    /\ node' = "decide"
    /\ UNCHANGED <<thread, decision>>

\* _completed_update
Completed ==
    /\ count' = count + 1
    /\ error' = "none"
    /\ node' = "decide"
    /\ UNCHANGED <<thread, decision>>

\* _operational_failure: _route_after_operation leads to permanent_failure.
Fails(code) ==
    /\ count' = count + 1
    /\ error' = code
    /\ node' = "permanent_failure"
    /\ UNCHANGED <<thread, decision, catalog>>

\* A node's service raises.
Raises == MayFail /\ Fails("NODE_FAILED") /\ UNCHANGED outside

-----------------------------------------------------------------------------
(* CatalogStateUpdater: an artifact replaces the ones derived from it.     *)

SetState(st, sg) == status' = st /\ stage' = sg

ApplyExtraction(e) ==
    /\ extraction' = Some(e)
    /\ normalization' = None /\ profile' = None /\ validation' = None
    /\ pending' = NoIssue /\ escalation' = NoIssue
    /\ SetState("processing", "extracted")

\* Fault: the profile of the old mappings stays.
ApplyNormalization_KeepsProfile(n) ==
    /\ normalization' = Some(n)
    /\ pending' = NoIssue /\ escalation' = NoIssue
    /\ SetState("processing", "normalized")
    /\ UNCHANGED <<extraction, profile, validation>>

ApplyNormalization(n) ==
    /\ normalization' = Some(n)
    /\ profile' = None /\ validation' = None
    /\ pending' = NoIssue /\ escalation' = NoIssue
    /\ SetState("processing", "normalized")
    /\ UNCHANGED extraction

ApplyProfile(p) ==
    /\ profile' = Some(p)
    /\ validation' = None
    /\ pending' = NoIssue /\ escalation' = NoIssue
    /\ SetState("processing", "profile_built")
    /\ UNCHANGED <<extraction, normalization>>

ApplyValidation(v) ==
    /\ validation' = Some(v)
    /\ pending' = NoIssue /\ escalation' = NoIssue
    /\ SetState("processing", "validated")
    /\ UNCHANGED <<extraction, normalization, profile>>

-----------------------------------------------------------------------------
(* The graph's nodes.                                                      *)

\* CatalogWorkflow.start on a thread without a checkpoint; on any other it
\* returns what the checkpoint says and changes nothing.
Start ==
    /\ thread = "new"
    /\ thread' = "running"
    /\ UNCHANGED <<node, count, error, decision, catalog, outside>>

DecideNode ==
    /\ At("decide")
    /\ decision' = Decide
    /\ error' = "none"
    /\ node' = "transition_guard"
    /\ UNCHANGED <<thread, count, catalog, outside>>

\* Fault: at the limit the policy is asked again.
TransitionGuard_Retries ==
    /\ At("transition_guard")
    /\ IF decision.type \in Operational /\ count >= MaxTransitions
       THEN error' = "TRANSITION_LIMIT_REACHED" /\ node' = "decide"
       ELSE error' = "none" /\ node' = decision.type
    /\ UNCHANGED <<thread, count, decision, catalog, outside>>

\* decision_routes: a decision's type names its node here.
TransitionGuard ==
    /\ At("transition_guard")
    /\ IF decision.type \in Operational /\ count >= MaxTransitions
       THEN error' = "TRANSITION_LIMIT_REACHED" /\ node' = "permanent_failure"
       ELSE error' = "none" /\ node' = decision.type
    /\ UNCHANGED <<thread, count, decision, catalog, outside>>

Extract ==
    /\ At("extract")
    /\ \/ \E e \in Extractions : ApplyExtraction(e)
          /\ Completed
          /\ UNCHANGED <<history, answers, outside>>
       \/ Raises

Normalize ==
    /\ At("normalize")
    /\ \/ \E n \in Normalizations(The(extraction)) : ApplyNormalization(n)
          /\ Completed
          /\ UNCHANGED <<history, answers, outside>>
       \/ Raises

BuildProfile ==
    /\ At("build_profile")
    /\ ApplyProfile(Build(The(extraction), The(normalization)))
    /\ Completed
    /\ UNCHANGED <<history, answers, outside>>

ValidateNode ==
    /\ At("validate")
    /\ ApplyValidation(Validate(The(profile)))
    /\ Completed
    /\ UNCHANGED <<history, answers, outside>>

-----------------------------------------------------------------------------
(* execute_recovery: the executor acts, apply_recovery_result records.     *)

\* _source_indexes, _target_unresolved: the source requirements that the issue
\* stands for, by its place in the current profile.
SourcesOf(issue) ==
    IF issue.code = "NO_RESOLVED_REQUIREMENTS" THEN {}
    ELSE IF issue.code \in {"UNMAPPED_REQUIREMENT", "NEEDS_REVIEW_REQUIREMENT"}
    THEN {u.source : u \in {v \in The(profile).unresolved : v.at = issue.at}}
    ELSE UNION {r.sources : r \in {q \in The(profile).requirements : q.at = issue.at}}

Recovers(action) == At("execute_recovery") /\ decision.action = action

\* The entry and its effects are one update.  The sources are computed by the
\* executor; the entry does not store them, they are here for the properties.
Record(action, result) ==
    /\ history' = Append(history, [action  |-> action,
                                   issue   |-> decision.issue,
                                   status  |-> result,
                                   sources |-> SourcesOf(decision.issue)])
    /\ Completed
    /\ UNCHANGED <<answers, outside>>

NothingNew ==
    /\ SetState("processing", "recovery")
    /\ UNCHANGED <<artifacts, pending, escalation>>

\* _reextract_field
Reextract ==
    /\ Recovers("reextract_field")
    /\ \E e \in Extractions :
          IF e = The(extraction)
          THEN Record("reextract_field", "no_change") /\ NothingNew
          ELSE Record("reextract_field", "succeeded") /\ ApplyExtraction(e)

\* _lookup_taxonomy, _reconsider_mapping: both run the normalizer again on the
\* current extraction.
Renormalize ==
    \E action \in {"lookup_taxonomy", "reconsider_mapping"} :
       /\ Recovers(action)
       /\ \E n \in Normalizations(The(extraction)) :
             IF n = The(normalization)
             THEN Record(action, "no_change") /\ NothingNew
             ELSE Record(action, "succeeded") /\ ApplyNormalization(n)

\* The executor's own failure: the extractor or the normalizer gave up.
RecoveryFailed ==
    /\ MayFail
    /\ \E action \in {"reextract_field", "lookup_taxonomy", "reconsider_mapping"} :
          Recovers(action) /\ Record(action, "failed")
    /\ SetState("retryable_failure", stage)
    /\ UNCHANGED <<artifacts, pending, escalation>>

\* _request_clarification: the questions the policy can select are supported.
RequestClarification ==
    /\ Recovers("request_clarification")
    /\ Record("request_clarification", "awaiting_input")
    /\ pending' = decision.issue
    /\ escalation' = NoIssue
    /\ SetState("awaiting_clarification", "awaiting_clarification")
    /\ UNCHANGED artifacts

\* _escalate
Escalate ==
    /\ Recovers("escalate")
    /\ Record("escalate", "escalated")
    /\ escalation' = decision.issue
    /\ pending' = NoIssue
    /\ SetState("escalated", "escalated")
    /\ UNCHANGED artifacts

ExecuteRecovery ==
    \/ Reextract \/ Renormalize \/ RecoveryFailed \/ RequestClarification \/ Escalate
    \/ At("execute_recovery") /\ Raises

-----------------------------------------------------------------------------
(* await_clarification: interrupt, then the processor applies an answer.   *)

Interrupt ==
    /\ At("await_clarification")
    /\ thread' = "paused"
    /\ UNCHANGED <<node, count, error, decision, catalog, outside>>

\* resume_clarification wants the checkpoint's next node to be this one, also
\* when the process that led there is gone.
Resumable == node = "await_clarification" /\ thread \in {"paused", "orphaned"}

\* An answer with a wrong identity, actor or value: the graph pauses again.
RefuseAnswer ==
    /\ Resumable
    /\ refused < MaxRefused
    /\ refused' = refused + 1
    /\ count' = count + 1
    /\ error' = "ANSWER_REFUSED"
    /\ thread' = "running"
    /\ UNCHANGED <<node, decision, catalog, store, restarts>>

\* What both kinds of answer change (apply_clarification_update).  A question
\* that was answered before, by its code and field, is refused.
Answering(value) ==
    /\ Resumable
    /\ \A k \in DOMAIN answers : answers[k].issue # pending
    /\ answers' = Append(answers, [issue |-> pending, value |-> value,
                                   sources |-> SourcesOf(pending)])
    /\ count' = count + 1
    /\ error' = "none"
    /\ node' = "decide"
    /\ thread' = "running"
    /\ pending' = NoIssue
    /\ escalation' = NoIssue
    /\ profile' = None
    /\ validation' = None
    /\ UNCHANGED <<decision, history, outside>>

\* _apply_level: every source of the requirement gets the level.
AnswerLevel(l) ==
    /\ pending.code = "MISSING_REQUIRED_LEVEL"
    /\ Answering(l)
    /\ extraction' = Some([i \in DOMAIN The(extraction) |->
                             IF i \in SourcesOf(pending)
                             THEN [The(extraction)[i] EXCEPT !.level = l]
                             ELSE The(extraction)[i]])
    /\ normalization' = None
    /\ SetState("processing", "extracted")

\* _apply_taxonomy_selection: one of the candidates, which are active skills.
AnswerSkill(s) ==
    /\ pending.code = "NEEDS_REVIEW_REQUIREMENT"
    /\ Answering(s)
    /\ normalization' = Some([i \in DOMAIN The(normalization) |->
                                IF i \in SourcesOf(pending) THEN Resolved(s)
                                ELSE The(normalization)[i]])
    /\ SetState("processing", "normalized")
    /\ UNCHANGED extraction

Answer == \/ \E l \in Levels : AnswerLevel(l)
          \/ \E s \in Skills \ Inactive : AnswerSkill(s)

-----------------------------------------------------------------------------
(* publish: ProjectPublicationGuard and ProjectPublicationService.         *)

\* evaluate
Publishable ==
    /\ profile # None /\ validation # None
    /\ The(validation) = {}
    /\ pending = NoIssue /\ escalation = NoIssue
    /\ The(profile).unresolved = {}
    /\ stage = "validated" /\ status = "processing"

\* apply_publication
Published ==
    /\ SetState("completed", "completed")
    /\ Completed
    /\ UNCHANGED <<artifacts, pending, escalation, history, answers>>

\* Fault: whatever the request has in the repository counts as its own.
Publish_NoCompare ==
    /\ At("publish")
    /\ \/ /\ IF ~Publishable THEN Fails("REJECTED") /\ UNCHANGED store
             ELSE IF store = None THEN Published /\ store' = profile
             ELSE Published /\ UNCHANGED store
          /\ UNCHANGED <<refused, restarts>>
       \/ Raises

\* Fault: the insert replaces the request's earlier project.
Publish_Replaces ==
    /\ At("publish")
    /\ \/ /\ IF ~Publishable THEN Fails("REJECTED") /\ UNCHANGED store
             ELSE Published /\ store' = profile
          /\ UNCHANGED <<refused, restarts>>
       \/ Raises

\* The repository keeps one project per request: the first one created.  The
\* same content again is an exact retry, other content a conflict.
Publish ==
    /\ At("publish")
    /\ \/ /\ IF ~Publishable THEN Fails("REJECTED") /\ UNCHANGED store
             ELSE IF store = None THEN Published /\ store' = profile
             ELSE IF store = profile THEN Published /\ UNCHANGED store
             ELSE Fails("IDEMPOTENCY_CONFLICT") /\ UNCHANGED store
          /\ UNCHANGED <<refused, restarts>>
       \/ Raises

-----------------------------------------------------------------------------
(* The ends.                                                               *)

Ends == thread' = "ended" /\ node' = "end"

\* terminal_success, terminal_escalated
Terminal ==
    /\ At("terminal_success") \/ At("terminal_escalated")
    /\ Ends
    /\ UNCHANGED <<count, error, decision, catalog, outside>>

\* permanent_failure: add_error is given up when the new state breaks the
\* contract.
PermanentFailure ==
    /\ At("permanent_failure")
    /\ Ends
    /\ error' = IF error = "none" THEN "INVALID_DECISION" ELSE error
    /\ status' = IF Contract("permanent_failure", stage, pending, escalation)
                 THEN "permanent_failure" ELSE status
    /\ UNCHANGED <<count, decision, stage, artifacts, pending, escalation,
                   history, answers, outside>>

-----------------------------------------------------------------------------
(* Faults of the environment.                                              *)

\* The process dies: what the superstep had not checkpointed is lost.
Crash ==
    /\ MayFail
    /\ thread = "running"
    /\ thread' = "orphaned"
    /\ UNCHANGED <<node, count, error, decision, catalog, outside>>

\* It dies between the repository's commit and the checkpoint.
CrashAfterCreate ==
    /\ MayFail
    /\ At("publish") /\ Publishable /\ store = None
    /\ store' = profile
    /\ thread' = "orphaned"
    /\ UNCHANGED <<node, count, error, decision, catalog, refused, restarts>>

\* The request is submitted again with another checkpoint database and the
\* same repository.
FreshCheckpoint ==
    /\ thread \in {"paused", "ended", "orphaned"}
    /\ restarts < MaxRestarts
    /\ restarts' = restarts + 1
    /\ thread' = "new" /\ node' = "decide" /\ count' = 0 /\ error' = "none"
    /\ decision' = Simple("none")
    /\ SetState("received", "received")
    /\ extraction' = None /\ normalization' = None /\ profile' = None /\ validation' = None
    /\ pending' = NoIssue /\ escalation' = NoIssue
    /\ history' = <<>> /\ answers' = <<>>
    /\ UNCHANGED <<store, refused>>

\* create_initial_catalog_state, and no checkpoint yet
Init ==
    /\ thread = "new" /\ node = "decide" /\ count = 0 /\ error = "none"
    /\ decision = Simple("none")
    /\ status = "received" /\ stage = "received"
    /\ extraction = None /\ normalization = None /\ profile = None /\ validation = None
    /\ pending = NoIssue /\ escalation = NoIssue
    /\ history = <<>> /\ answers = <<>>
    /\ store = None /\ refused = 0 /\ restarts = 0

GraphStep ==
    \/ DecideNode \/ TransitionGuard \/ Extract \/ Normalize \/ BuildProfile
    \/ ValidateNode \/ ExecuteRecovery \/ Interrupt \/ Publish \/ Terminal
    \/ PermanentFailure

Next ==
    \/ Start \/ GraphStep \/ Answer \/ RefuseAnswer
    \/ Crash \/ CrashAfterCreate \/ FreshCheckpoint

Spec == Init /\ [][Next]_vars

\* A process that runs the graph takes its next superstep.
FairSpec == Spec /\ WF_vars(GraphStep)

-----------------------------------------------------------------------------
(* Properties.                                                             *)

Threads == {"new", "running", "paused", "ended", "orphaned"}
Nodes == Operational \cup {"decide", "transition_guard", "permanent_failure",
                           "terminal_success", "terminal_escalated", "end"}
Errors == {"none", "NODE_FAILED", "TRANSITION_LIMIT_REACHED", "ANSWER_REFUSED",
           "REJECTED", "IDEMPOTENCY_CONFLICT", "INVALID_DECISION"}
Issues == [code : Codes \cup {"none"}, at : Nat, sub : Nat]

\* Every variable keeps its type.
TypeOK ==
    /\ thread \in Threads /\ node \in Nodes /\ count \in Nat /\ error \in Errors
    /\ decision.issue \in Issues
    /\ status \in {"received", "processing", "retryable_failure", "permanent_failure",
                   "awaiting_clarification", "escalated", "completed"}
    /\ stage \in {"received", "extracted", "normalized", "profile_built", "validated",
                  "recovery", "awaiting_clarification", "escalated", "completed"}
    /\ extraction = None \/ The(extraction) \in Seq(Requirement)
    /\ normalization = None \/ The(normalization) \in Seq(Mapping)
    /\ validation = None \/ The(validation) \subseteq Issues
    /\ pending \in Issues /\ escalation \in Issues
    /\ \A k \in DOMAIN history :
          /\ history[k].action \in Actions /\ history[k].status \in Results
          /\ history[k].issue \in Issues
    /\ refused \in 0 .. MaxRefused /\ restarts \in 0 .. MaxRestarts

\* No update breaks the state's contract, so none of them raises: what waits
\* for an answer says so in its status and its stage, and nothing else does.
ContractKept == Contract(status, stage, pending, escalation)

\* The profile and its validation are those of the extraction and the mappings
\* the state holds now, whatever was extracted, mapped or answered again.
ArtifactsFresh ==
    /\ normalization # None =>
          extraction # None /\ Len(The(normalization)) = Len(The(extraction))
    /\ profile # None =>
          normalization # None /\ profile = Some(Build(The(extraction), The(normalization)))
    /\ validation # None => profile # None /\ validation = Some(Validate(The(profile)))

\* What reaches the repository can be staffed: every requirement is mapped to
\* an active skill, quotes the description, and says its level if it is hard.
StoredIsSound ==
    store # None =>
        /\ The(store).unresolved = {} /\ The(store).requirements # {}
        /\ \A r \in The(store).requirements :
              /\ r.skill \notin Inactive
              /\ r.hard => r.level # NoLevel
              /\ \A i \in r.sources : r.verbatim[i]

\* A request's project is created once and never replaced, across crashes and
\* runs that begin again without the old checkpoints.
StoredOnce == [][store # None => store' = store]_vars

\* A run that says completed has its own profile in the repository.
CompletedIsStored == status = "completed" => store = profile

\* The recoveries are bounded, in total and for each issue, and an escalation
\* is the last of them.
RecoveryBounded ==
    /\ Len(history) <= MaxTotal + IF status = "escalated" THEN 1 ELSE 0
    /\ \A k \in DOMAIN history :
          Cardinality(Attempts(history, history[k].issue, history[k].action))
            <= Limit(history[k].action)

\* An open question is not one that was answered before: such an answer would
\* be refused, and so would every other.
QuestionIsOpen ==
    pending # NoIssue => \A k \in DOMAIN answers : answers[k].issue # pending

\* With MaxTransitions at least five for each recovery and five more, as the
\* defaults 30 and 5 have it, only refused answers exhaust the limit.
LimitNeedsRefusals ==
    error = "TRANSITION_LIMIT_REACHED" => refused > 0

\* A graph that has ended left a status the facade can report and nothing has
\* to be done for.
EndedIsSettled ==
    thread = "ended" => status \in {"completed", "escalated", "permanent_failure"}

\* A run that is not interrupted by a crash comes to an end or to a question.
Settles == (thread = "running") ~> (thread # "running")

\* Claimed by the workflow's tests: the limit ends in a permanent failure.
LimitIsFailure ==
    thread = "ended" /\ error = "TRANSITION_LIMIT_REACHED" => status = "permanent_failure"

\* Claimed by the escalation's reason, "Automatic recovery is unsafe or has
\* been exhausted": something was tried for the requirement it is about.
ExhaustedWasTried ==
    escalation.code = "NEEDS_REVIEW_REQUIREMENT" =>
        \E k \in DOMAIN history :
            /\ history[k].action # "escalate"
            /\ history[k].sources = SourcesOf(escalation)

\* Claimed by the processor's message, "The verified admin clarification was
\* applied.": what an administrator decided is not open again.
AnswerStands ==
    escalation.code = "NEEDS_REVIEW_REQUIREMENT" =>
        \A k \in DOMAIN answers :
            answers[k].issue.code = "NEEDS_REVIEW_REQUIREMENT"
                => answers[k].sources # SourcesOf(escalation)
=============================================================================
