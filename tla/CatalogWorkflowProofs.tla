------------------------ MODULE CatalogWorkflowProofs -----------------------
(***************************************************************************)
(* Proofs about CatalogWorkflow.  Core says that every variable keeps its  *)
(* type, that the profile and its validation are those of the extraction   *)
(* and mappings at hand, and that the decision a node acts on is the one   *)
(* the policy would take now.  The other invariants rest on it.            *)
(***************************************************************************)
EXTENDS CatalogWorkflow, CatalogPolicyProofs

\* The parts of TypeOK.
GraphTyped ==
    /\ thread \in Threads /\ node \in Nodes /\ count \in Nat /\ error \in Errors
    /\ decision.issue \in Issues
    /\ refused \in 0 .. MaxRefused /\ restarts \in 0 .. MaxRestarts

Statuses == {"received", "processing", "retryable_failure", "permanent_failure",
             "awaiting_clarification", "escalated", "completed"}
Stages == {"received", "extracted", "normalized", "profile_built", "validated",
           "recovery", "awaiting_clarification", "escalated", "completed"}
LabelsTyped == status \in Statuses /\ stage \in Stages /\ pending \in Issues /\ escalation \in Issues

ArtifactsTyped ==
    /\ extraction = None \/ The(extraction) \in Seq(Requirement)
    /\ normalization = None \/ The(normalization) \in Seq(Mapping)
    /\ validation = None \/ The(validation) \subseteq RealIssues

HistoryTyped ==
    /\ IsHistory(history)
    /\ \A k \in DOMAIN history : /\ history[k].action \in Actions /\ history[k].status \in Results
                                 /\ history[k].issue \in Issues

\* An artifact is missing or there is one.
IsOption(o) == o = None \/ o = Some(The(o))
Shape == /\ IsOption(extraction) /\ IsOption(normalization)
         /\ IsOption(profile) /\ IsOption(validation)

Artifacts == ArtifactsTyped /\ Shape /\ ArtifactsFresh

\* The decision a node acts on is the policy's for the state as it is.
Decided == /\ node = "transition_guard" => decision = Decide
           /\ node \in Operational \cup {"terminal_success", "terminal_escalated"} =>
                 decision = Decide /\ decision.type = node

\* A question is asked about a profile that is there.
Labels == LabelsTyped /\ ContractKept /\ (pending # NoIssue => profile # None)

Core == GraphTyped /\ Labels /\ Artifacts /\ HistoryTyped /\ Decided

\* A validation holds issues of the seven codes, and none of them is "no issue".
LEMMA IssueTypes == RealIssues \subseteq Issues /\ NoIssue \in Issues /\ NoIssue \notin RealIssues
BY DEF RealIssues, Issues, NoIssue, Issue, Codes, ExtractionIssues

\* The types are part of Core.
LEMMA CoreTypes == ASSUME Core PROVE TypeOK
BY IssueTypes DEF Core, GraphTyped, Labels, LabelsTyped, Artifacts, ArtifactsTyped, HistoryTyped, TypeOK,
                  Statuses, Stages

\* A present artifact is not missing, and is what was put there.
LEMMA Options == \A x : Some(x) # None /\ The(Some(x)) = x /\ IsOption(None) /\ IsOption(Some(x))
BY DEF Some, None, The, IsOption

-----------------------------------------------------------------------------
(* What a decision says about the state it was taken in.                   *)

Active == status \notin {"completed", "escalated", "awaiting_clarification", "permanent_failure"}

DecisionTypes == Operational \cup {"terminal_success", "terminal_escalated", "permanent_failure"}

\* The policy's answer says how far the artifacts have come.
LEMMA DecideIs ==
    ASSUME Core, NEW d, d = Decide
    PROVE  /\ d.type \in DecisionTypes /\ d.issue \in Issues
           /\ d.type = "terminal_success" => status = "completed"
           /\ d.type = "terminal_escalated" => status = "escalated"
           /\ d.type = "await_clarification" => status = "awaiting_clarification"
           /\ d.type = "extract" => Active /\ extraction = None
           /\ d.type = "normalize" => Active /\ extraction # None /\ normalization = None
           /\ d.type = "build_profile" =>
                 Active /\ extraction # None /\ normalization # None /\ profile = None
           /\ d.type = "validate" => Active /\ profile # None /\ validation = None
           /\ d.type = "publish" => Active /\ validation # None /\ The(validation) = {}
           /\ d.type = "execute_recovery" =>
                 /\ Active /\ validation # None
                 /\ d.issue \in RealIssues /\ d.issue \in The(validation)
                 /\ d.action \in Actions
                 /\ d.action # "escalate" => Usable(history, d.issue, d.action)
                 /\ d.action = "escalate" => Attempts(history, d.issue, "escalate") = {}
<1> USE DEF Operational, DecisionTypes
<1>1. CASE ~ Active
  BY <1>1, IssueTypes DEF Active, Decide, Simple, Decision
<1>2. CASE Active /\ (extraction = None \/ normalization = None \/ profile = None \/ validation = None)
  BY <1>2, IssueTypes DEF Active, Decide, Simple, Decision, Core, Artifacts, ArtifactsFresh
<1>3. CASE /\ Active /\ extraction # None /\ normalization # None /\ profile # None
           /\ validation # None /\ The(validation) = {}
  BY <1>3, IssueTypes DEF Active, Decide, Simple, Decision
<1>4. CASE /\ Active /\ extraction # None /\ normalization # None /\ profile # None
           /\ validation # None /\ The(validation) # {}
  <2>1. d = DecideRecovery(history, Selected(The(validation)))
    BY <1>4 DEF Active, Decide
  <2> DEFINE issue == Selected(The(validation))
  <2>2. The(validation) \in SUBSET RealIssues
    BY <1>4 DEF Core, Artifacts, ArtifactsTyped
  <2>3. issue \in The(validation) /\ issue \in RealIssues
    BY <2>2, <1>4, SelectedIs
  <2> HIDE DEF issue
  <2>4. \/ \E a \in Actions \ {"escalate"} :
              d = Decision("execute_recovery", a, issue) /\ Usable(history, issue, a)
        \/ /\ d = Decision("execute_recovery", "escalate", issue)
           /\ Attempts(history, issue, "escalate") = {}
        \/ d = Decision("permanent_failure", "none", issue)
    BY <2>1, <2>3, RecoveryIs DEF issue
  <2>5. QED
    BY <1>4, <2>3, <2>4, IssueTypes DEF Decision, Actions
<1>5. QED
  BY <1>1, <1>2, <1>3, <1>4

-----------------------------------------------------------------------------
(* What the updates do to the artifacts.                                   *)

\* Labels of a request at work, with nothing open.
LEMMA WorkLabels ==
    ASSUME pending' = NoIssue, escalation' = NoIssue, status' \in {"received", "processing"},
           stage' \in {"received", "extracted", "normalized", "profile_built", "validated",
                       "recovery"}
    PROVE  Labels'
BY IssueTypes DEF Labels, LabelsTyped, Statuses, Stages, ContractKept, Contract

\* A new extraction clears everything derived from the old one.
LEMMA ArtExtraction ==
    ASSUME Core, NEW e \in Seq(Requirement), ApplyExtraction(e)
    PROVE  Artifacts' /\ Labels'
<1>1. Labels'
  BY WorkLabels DEF ApplyExtraction, SetState
<1>2. Artifacts'
  BY Options DEF ApplyExtraction, Artifacts, ArtifactsTyped, Shape, ArtifactsFresh
<1>3. QED
  BY <1>1, <1>2

\* New mappings keep the extraction and clear the profile and its validation.
LEMMA ArtNormalization ==
    ASSUME Core, extraction # None, NEW n \in Normalizations(The(extraction)), ApplyNormalization(n)
    PROVE  Artifacts' /\ Labels'
<1>1. The(extraction) \in Seq(Requirement)
  BY DEF Core, Artifacts, ArtifactsTyped
<1>2. n \in Seq(Mapping) /\ Len(n) = Len(The(extraction))
  <2>1. Len(The(extraction)) \in Nat
    BY <1>1
  <2>2. n \in [1 .. Len(The(extraction)) -> Mapping]
    BY WorkflowAssumption DEF Normalizations
  <2>3. QED
    BY <2>1, <2>2
<1>3. Labels'
  BY WorkLabels DEF ApplyNormalization, SetState
<1>4. Artifacts'
  BY <1>1, <1>2, Options
     DEF ApplyNormalization, Core, Artifacts, ArtifactsTyped, Shape, ArtifactsFresh
<1>5. QED
  BY <1>3, <1>4

\* A profile is stored with the extraction and mappings it was built from.
LEMMA ArtProfile ==
    ASSUME Core, normalization # None, ApplyProfile(Build(The(extraction), The(normalization)))
    PROVE  Artifacts' /\ Labels'
<1>1. Labels'
  BY WorkLabels DEF ApplyProfile, SetState
<1>2. Artifacts'
  BY Options DEF ApplyProfile, Core, Artifacts, ArtifactsTyped, Shape, ArtifactsFresh
<1>3. QED
  BY <1>1, <1>2

\* A validation is stored with the profile it is about.
LEMMA ArtValidation ==
    ASSUME Core, profile # None, ApplyValidation(Validate(The(profile)))
    PROVE  Artifacts' /\ Labels'
<1>1. /\ normalization # None /\ The(normalization) \in Seq(Mapping)
      /\ profile = Some(Build(The(extraction), The(normalization)))
  BY DEF Core, Artifacts, ArtifactsTyped, ArtifactsFresh
<1>2. Validate(The(profile)) \subseteq RealIssues
  BY <1>1, Options, ValidateReal
<1>3. Labels'
  BY WorkLabels DEF ApplyValidation, SetState
<1>4. PICK v : v = Validate(The(profile))
  OBVIOUS
<1>5. /\ validation' = Some(v) /\ extraction' = extraction /\ normalization' = normalization
      /\ profile' = profile
  BY <1>4 DEF ApplyValidation
<1>6. v \subseteq RealIssues
  BY <1>2, <1>4
<1>7. ArtifactsTyped' /\ Shape'
  BY <1>5, <1>6, Options DEF Core, Artifacts, ArtifactsTyped, Shape, IsOption
<1>8. ArtifactsFresh'
  <2>1. The(profile)' = The(profile) /\ validation' = Some(Validate(The(profile)))
    BY <1>4, <1>5 DEF The
  <2>2. Validate(The(profile))' = Validate(The(profile)')
    OBVIOUS
  <2>3. (validation # None => profile # None /\ validation = Some(Validate(The(profile))))'
    BY <2>1, <2>2, <1>5
  <2>4. QED
    BY <1>5, <2>3 DEF Core, Artifacts, ArtifactsFresh
<1>9. QED
  BY <1>3, <1>7, <1>8 DEF Artifacts

\* Artifacts that nobody touches stay typed and fresh.
LEMMA ArtSame ==
    ASSUME Core, UNCHANGED artifacts
    PROVE  Artifacts'
BY DEF Core, artifacts, Artifacts, ArtifactsTyped, Shape, ArtifactsFresh

\* Labels that nobody touches stay typed and keep the contract.
LEMMA LabelsSame ==
    ASSUME Core, UNCHANGED <<status, stage, pending, escalation, profile>>
    PROVE  Labels'
BY DEF Core, Labels, LabelsTyped, ContractKept, Contract

\* An entry about the issue decided on keeps the history typed.
LEMMA RecordTyped ==
    ASSUME Core, NEW a \in Actions, NEW r \in Results, Record(a, r)
    PROVE  HistoryTyped'
<1> DEFINE e == [action |-> a, issue |-> decision.issue, status |-> r,
                 sources |-> SourcesOf(decision.issue)]
<1>1. history' = Append(history, e)
  BY DEF Record
<1>2. e.action \in Actions /\ e.status \in Results /\ e.issue \in Issues
  BY DEF Core, GraphTyped
<1> HIDE DEF e
<1>3. /\ IsHistory(Append(history, e)) /\ DOMAIN Append(history, e) = 1 .. Len(history) + 1
      /\ Len(history) \in Nat /\ DOMAIN history = 1 .. Len(history)
      /\ \A k \in DOMAIN history : Append(history, e)[k] = history[k]
      /\ Append(history, e)[Len(history) + 1] = e
  BY HistoryAppend DEF Core, HistoryTyped
<1>4. \A k \in 1 .. Len(history) + 1 : k \in DOMAIN history \/ k = Len(history) + 1
  BY <1>3
<1>5. QED
  BY <1>1, <1>2, <1>3, <1>4 DEF Core, HistoryTyped

\* A history that nobody touches stays typed.
LEMMA HistorySame ==
    ASSUME Core, history' = history
    PROVE  HistoryTyped'
BY DEF Core, HistoryTyped

\* A superstep that completes goes back to decide.
LEMMA CompletedTyped ==
    ASSUME Core, Completed, UNCHANGED <<refused, restarts>>
    PROVE  GraphTyped' /\ Decided'
BY DEF Core, Completed, GraphTyped, Decided, Errors, Nodes, Operational

\* One that fails goes to permanent_failure and touches nothing else.
LEMMA FailsTyped ==
    ASSUME Core, NEW code \in Errors, Fails(code), UNCHANGED <<refused, restarts>>
    PROVE  Core'
<1>1. GraphTyped' /\ Decided'
  BY DEF Core, Fails, GraphTyped, Decided, Nodes, Operational
<1>2. Artifacts' /\ HistoryTyped'
  BY ArtSame, HistorySame DEF Fails, catalog
<1>3. Labels'
  BY LabelsSame DEF Fails, catalog, artifacts
<1>4. QED
  BY <1>1, <1>2, <1>3 DEF Core

-----------------------------------------------------------------------------
(* Every step keeps Core.                                                  *)

\* A new request is in Core.
LEMMA CoreInit == ASSUME Init PROVE Core
<1>1. GraphTyped /\ Decided
  BY WorkflowAssumption, IssueTypes
     DEF Init, GraphTyped, Decided, Threads, Nodes, Errors, Operational, Simple, Decision
<1>2. Labels
  BY IssueTypes DEF Init, Labels, LabelsTyped, Statuses, Stages, ContractKept, Contract
<1>3. Artifacts
  BY Options DEF Init, Artifacts, ArtifactsTyped, Shape, ArtifactsFresh
<1>4. HistoryTyped
  <2>1. history \in Seq({}) /\ DOMAIN history = {}
    BY DEF Init
  <2>2. QED
    BY <2>1 DEF HistoryTyped, IsHistory
<1>5. QED
  BY <1>1, <1>2, <1>3, <1>4 DEF Core

\* Nothing of the request's state changes.
LEMMA CatalogSame ==
    ASSUME Core, UNCHANGED catalog
    PROVE  /\ Labels' /\ Artifacts' /\ HistoryTyped'
           /\ Decide' = Decide
<1>1. Labels' /\ Artifacts' /\ HistoryTyped'
  BY ArtSame, HistorySame, LabelsSame DEF catalog, artifacts
<1>2. Decide' = Decide
  BY DEF catalog, artifacts, Decide
<1>3. QED
  BY <1>1, <1>2

\* Starting the thread keeps Core.
LEMMA CoreStart == ASSUME Core, Start PROVE Core'
<1>1. GraphTyped' /\ Decided'
  BY CatalogSame DEF Core, Start, GraphTyped, Threads, Decided, outside
<1>2. QED
  BY <1>1, CatalogSame DEF Core, Start

\* The decision that is taken is typed and is the policy's.
LEMMA CoreDecide == ASSUME Core, DecideNode PROVE Core'
<1>1. PICK d : d = Decide
  OBVIOUS
<1>2. d.issue \in Issues
  BY <1>1, DecideIs
<1>3. decision' = d /\ Decide' = d
  BY <1>1, CatalogSame DEF DecideNode
<1>4. GraphTyped' /\ Decided'
  BY <1>2, <1>3 DEF Core, DecideNode, GraphTyped, Decided, Nodes, Errors, Operational, outside
<1>5. QED
  BY <1>4, CatalogSame DEF Core, DecideNode

\* The guard sends the graph to the node the decision names, or to the failure.
LEMMA CoreGuard == ASSUME Core, TransitionGuard PROVE Core'
<1>1. decision = Decide /\ decision.type \in DecisionTypes
  BY DecideIs DEF TransitionGuard, At, Core, Decided
<1>2. decision' = decision /\ Decide' = Decide
  BY CatalogSame DEF TransitionGuard
<1>3. GraphTyped' /\ Decided'
  BY <1>1, <1>2
     DEF Core, TransitionGuard, GraphTyped, Decided, Nodes, Errors, Operational, DecisionTypes, outside
<1>4. QED
  BY <1>3, CatalogSame DEF Core, TransitionGuard

\* A node whose service raises keeps Core.
LEMMA CoreRaises == ASSUME Core, Raises PROVE Core'
BY FailsTyped DEF Raises, outside, Errors

\* What the policy said when it sent the graph to a node.
LEMMA AtNode ==
    ASSUME Core, NEW n \in Operational \cup {"terminal_success", "terminal_escalated"}, node = n
    PROVE  decision = Decide /\ decision.type = n
BY DEF Core, Decided

\* The extract node keeps Core.
LEMMA CoreExtract == ASSUME Core, Extract PROVE Core'
<1>1. CASE Raises
  BY <1>1, CoreRaises
<1>2. ASSUME NEW e \in Extractions, ApplyExtraction(e), Completed, UNCHANGED <<history, answers, outside>>
      PROVE  Core'
  <2>1. e \in Seq(Requirement)
    BY WorkflowAssumption
  <2>2. QED
    BY <1>2, <2>1, ArtExtraction, CompletedTyped, HistorySame DEF Core, outside
<1>3. QED
  BY <1>1, <1>2 DEF Extract

\* The normalize node keeps Core: there is an extraction to map.
LEMMA CoreNormalize == ASSUME Core, Normalize PROVE Core'
<1>1. CASE Raises
  BY <1>1, CoreRaises
<1>2. ASSUME NEW n \in Normalizations(The(extraction)), ApplyNormalization(n), Completed,
             At("normalize"), UNCHANGED <<history, answers, outside>>
      PROVE  Core'
  <2>1. extraction # None
    BY <1>2, AtNode, DecideIs DEF At, Operational
  <2>2. QED
    BY <1>2, <2>1, ArtNormalization, CompletedTyped, HistorySame DEF Core, outside
<1>3. QED
  BY <1>1, <1>2 DEF Normalize

\* The build_profile node keeps Core: there are mappings to build from.
LEMMA CoreBuild == ASSUME Core, BuildProfile PROVE Core'
<1>1. normalization # None
  BY AtNode, DecideIs DEF BuildProfile, At, Operational
<1>2. QED
  BY <1>1, ArtProfile, CompletedTyped, HistorySame DEF Core, BuildProfile, outside

\* The validate node keeps Core: there is a profile to validate.
LEMMA CoreValidate == ASSUME Core, ValidateNode PROVE Core'
<1>1. profile # None
  BY AtNode, DecideIs DEF ValidateNode, At, Operational
<1>2. QED
  BY <1>1, ArtValidation, CompletedTyped, HistorySame DEF Core, ValidateNode, outside

\* A recovery works on an issue of a validation of the current artifacts.
LEMMA Recovering ==
    ASSUME Core, At("execute_recovery")
    PROVE  /\ decision = Decide /\ Active /\ decision.issue \in RealIssues
           /\ validation # None /\ profile # None /\ normalization # None /\ extraction # None
           /\ pending = NoIssue /\ escalation = NoIssue
           /\ stage \in {"received", "extracted", "normalized", "profile_built", "validated",
                         "recovery"}
<1>1. decision = Decide /\ decision.type = "execute_recovery"
  BY AtNode DEF At, Operational
<1>2. Active /\ validation # None /\ decision.issue \in RealIssues
  BY <1>1, DecideIs
<1>3. QED
  BY <1>1, <1>2 DEF Core, Active, Labels, LabelsTyped, Stages, ContractKept, Contract, Artifacts,
                    ArtifactsFresh

\* A recorded recovery whose effect on the artifacts is typed keeps Core.
LEMMA CoreRecord ==
    ASSUME Core, NEW a \in Actions, NEW r \in Results, Record(a, r), Artifacts', Labels'
    PROVE  Core'
BY RecordTyped, CompletedTyped DEF Record, Core, outside

\* A recovery without a new result leaves the artifacts fresh.
LEMMA CoreNothingNew ==
    ASSUME Core, NothingNew, At("execute_recovery")
    PROVE  Artifacts' /\ Labels'
<1>1. pending' = NoIssue /\ escalation' = NoIssue
  BY Recovering DEF NothingNew
<1>2. QED
  BY <1>1, ArtSame, WorkLabels DEF NothingNew, SetState

\* A re-extraction keeps Core.
LEMMA CoreReextract == ASSUME Core, Reextract PROVE Core'
<1>1. PICK e \in Extractions :
         \/ Record("reextract_field", "no_change") /\ NothingNew
         \/ Record("reextract_field", "succeeded") /\ ApplyExtraction(e)
  BY DEF Reextract
<1>2. Artifacts' /\ Labels'
  <2>1. e \in Seq(Requirement)
    BY WorkflowAssumption
  <2>2. QED
    BY <1>1, <2>1, CoreNothingNew, ArtExtraction DEF Reextract, Recovers
<1>3. "reextract_field" \in Actions /\ "no_change" \in Results /\ "succeeded" \in Results
  BY DEF Actions, Results
<1>4. QED
  BY <1>1, <1>2, <1>3, CoreRecord

\* A taxonomy lookup or a reconsidered mapping keeps Core.
LEMMA CoreRenormalize == ASSUME Core, Renormalize PROVE Core'
<1>1. PICK a \in {"lookup_taxonomy", "reconsider_mapping"} :
         Recovers(a) /\ \E n \in Normalizations(The(extraction)) :
            \/ Record(a, "no_change") /\ NothingNew
            \/ Record(a, "succeeded") /\ ApplyNormalization(n)
  BY DEF Renormalize
<1>2. PICK n \in Normalizations(The(extraction)) :
         \/ Record(a, "no_change") /\ NothingNew
         \/ Record(a, "succeeded") /\ ApplyNormalization(n)
  BY <1>1
<1>3. Artifacts' /\ Labels'
  BY <1>1, <1>2, CoreNothingNew, ArtNormalization, Recovering DEF Recovers
<1>4. a \in Actions /\ "no_change" \in Results /\ "succeeded" \in Results
  BY DEF Actions, Results
<1>5. QED
  BY <1>2, <1>3, <1>4, CoreRecord

\* A recovery that fails keeps Core.
LEMMA CoreRecoveryFailed == ASSUME Core, RecoveryFailed PROVE Core'
<1>1. PICK a \in {"reextract_field", "lookup_taxonomy", "reconsider_mapping"} :
         Recovers(a) /\ Record(a, "failed")
  BY DEF RecoveryFailed
<1>2. a \in Actions /\ "failed" \in Results
  BY DEF Actions, Results
<1>3. Artifacts'
  BY ArtSame DEF RecoveryFailed
<1>4. Labels'
  BY <1>1, Recovering, IssueTypes
     DEF RecoveryFailed, SetState, Recovers, Labels, LabelsTyped, Statuses, Stages, ContractKept,
         Contract
<1>5. QED
  BY <1>1, <1>2, <1>3, <1>4, CoreRecord

\* A question keeps Core: it is a real issue, so the contract holds.
LEMMA CoreRequest == ASSUME Core, RequestClarification PROVE Core'
<1>1. At("execute_recovery")
  BY DEF RequestClarification, Recovers
<1>2. Record("request_clarification", "awaiting_input")
  BY DEF RequestClarification
<1>3. "request_clarification" \in Actions /\ "awaiting_input" \in Results
  BY DEF Actions, Results
<1>4. Artifacts'
  BY ArtSame DEF RequestClarification
<1>5. Labels'
  BY <1>1, Recovering, IssueTypes
     DEF RequestClarification, SetState, artifacts, Labels, LabelsTyped, Statuses, Stages,
         ContractKept, Contract
<1>6. QED
  BY <1>2, <1>3, <1>4, <1>5, CoreRecord

\* An escalation keeps Core: it is about a real issue, so the contract holds.
LEMMA CoreEscalate == ASSUME Core, Escalate PROVE Core'
<1>1. At("execute_recovery")
  BY DEF Escalate, Recovers
<1>2. Record("escalate", "escalated")
  BY DEF Escalate
<1>3. "escalate" \in Actions /\ "escalated" \in Results
  BY DEF Actions, Results
<1>4. Artifacts'
  BY ArtSame DEF Escalate
<1>5. Labels'
  BY <1>1, Recovering, IssueTypes
     DEF Escalate, SetState, artifacts, Labels, LabelsTyped, Statuses, Stages,
         ContractKept, Contract
<1>6. QED
  BY <1>2, <1>3, <1>4, <1>5, CoreRecord

\* The execute_recovery node keeps Core.
LEMMA CoreRecovery == ASSUME Core, ExecuteRecovery PROVE Core'
BY CoreReextract, CoreRenormalize, CoreRecoveryFailed, CoreRequest, CoreEscalate, CoreRaises
   DEF ExecuteRecovery

\* Pausing for an answer keeps Core.
LEMMA CoreInterrupt == ASSUME Core, Interrupt PROVE Core'
<1>1. GraphTyped' /\ Decided'
  BY CatalogSame DEF Core, Interrupt, GraphTyped, Threads, Decided, outside
<1>2. QED
  BY <1>1, CatalogSame DEF Core, Interrupt

\* A refused answer keeps Core.
LEMMA CoreRefuse == ASSUME Core, RefuseAnswer PROVE Core'
<1>1. refused' \in 0 .. MaxRefused
  BY WorkflowAssumption DEF Core, RefuseAnswer, GraphTyped
<1>2. GraphTyped' /\ Decided'
  BY <1>1, CatalogSame DEF Core, RefuseAnswer, GraphTyped, Threads, Decided, Errors
<1>3. QED
  BY <1>2, CatalogSame DEF Core, RefuseAnswer

\* A request that waits for an answer has a question and the artifacts it is
\* about.
LEMMA Waiting ==
    ASSUME Core, Resumable
    PROVE  /\ status = "awaiting_clarification" /\ pending # NoIssue
           /\ profile # None /\ normalization # None /\ extraction # None
<1>1. status = "awaiting_clarification"
  BY AtNode, DecideIs DEF Resumable, Operational
<1>2. QED
  BY <1>1 DEF Core, Labels, ContractKept, Contract, Artifacts, ArtifactsFresh

\* What every answer changes stays typed.
LEMMA AnsweringTyped ==
    ASSUME Core, NEW v, Answering(v)
    PROVE  GraphTyped' /\ Decided' /\ HistoryTyped'
<1>1. GraphTyped' /\ Decided'
  BY DEF Core, Answering, GraphTyped, Decided, Threads, Nodes, Errors, Operational, outside
<1>2. QED
  BY <1>1, HistorySame DEF Answering

\* An answered level leaves a typed extraction and nothing derived from it.
LEMMA CoreAnswerLevel == ASSUME Core, NEW l \in Levels, AnswerLevel(l) PROVE Core'
<1>1. extraction # None /\ The(extraction) \in Seq(Requirement)
  BY Waiting DEF AnswerLevel, Answering, Core, Artifacts, ArtifactsTyped
<1>2. PICK old : old = The(extraction)
  OBVIOUS
<1>3. PICK S : S = SourcesOf(pending)
  OBVIOUS
<1> DEFINE new == [i \in DOMAIN old |-> IF i \in S THEN [old[i] EXCEPT !.level = l] ELSE old[i]]
<1>4. extraction' = Some(new)
  BY <1>2, <1>3 DEF AnswerLevel
<1>5. new \in Seq(Requirement)
  <2>1. old \in Seq(Requirement) /\ Len(old) \in Nat /\ DOMAIN old = 1 .. Len(old)
    BY <1>1, <1>2
  <2>2. \A i \in DOMAIN old : old[i] \in Requirement
    BY <2>1
  <2>3. \A r \in Requirement : [r EXCEPT !.level = l] \in Requirement
    BY DEF Requirement
  <2>4. new \in [1 .. Len(old) -> Requirement]
    BY <2>1, <2>2, <2>3
  <2> HIDE DEF new
  <2>5. QED
    BY <2>1, <2>4
<1> HIDE DEF new
<1>6. Artifacts'
  BY <1>4, <1>5, Options
     DEF AnswerLevel, Answering, Artifacts, ArtifactsTyped, Shape, ArtifactsFresh
<1>7. Labels'
  BY WorkLabels DEF AnswerLevel, Answering, SetState
<1>8. QED
  BY <1>6, <1>7, AnsweringTyped DEF AnswerLevel, Core

\* An answered skill leaves typed mappings and nothing derived from them.
LEMMA CoreAnswerSkill == ASSUME Core, NEW s \in Skills \ Inactive, AnswerSkill(s) PROVE Core'
<1>1. normalization # None /\ The(normalization) \in Seq(Mapping)
  BY Waiting DEF AnswerSkill, Answering, Core, Artifacts, ArtifactsTyped
<1>2. PICK old : old = The(normalization)
  OBVIOUS
<1>3. PICK S : S = SourcesOf(pending)
  OBVIOUS
<1> DEFINE new == [i \in DOMAIN old |-> IF i \in S THEN Resolved(s) ELSE old[i]]
<1>4. normalization' = Some(new)
  BY <1>2, <1>3 DEF AnswerSkill
<1>5. new \in Seq(Mapping) /\ Len(new) = Len(old)
  <2>1. old \in Seq(Mapping) /\ Len(old) \in Nat /\ DOMAIN old = 1 .. Len(old)
    BY <1>1, <1>2
  <2>2. \A i \in DOMAIN old : old[i] \in Mapping
    BY <2>1
  <2>3. Resolved(s) \in Mapping
    BY DEF Mapping
  <2>4. new \in [1 .. Len(old) -> Mapping]
    BY <2>1, <2>2, <2>3
  <2> HIDE DEF new
  <2>5. QED
    BY <2>1, <2>4
<1> HIDE DEF new
<1>6. extraction' = extraction /\ extraction # None /\ Len(old) = Len(The(extraction))
  BY <1>1, <1>2 DEF AnswerSkill, Core, Artifacts, ArtifactsFresh
<1>7. Artifacts'
  BY <1>4, <1>5, <1>6, Options
     DEF AnswerSkill, Answering, Core, Artifacts, ArtifactsTyped, Shape, ArtifactsFresh
<1>8. Labels'
  BY WorkLabels DEF AnswerSkill, Answering, SetState
<1>9. QED
  BY <1>7, <1>8, AnsweringTyped DEF AnswerSkill, Core

\* A request that is marked completed has nothing open.
LEMMA PublishedTyped ==
    ASSUME Core, Published, UNCHANGED <<refused, restarts>>, At("publish")
    PROVE  Core'
<1>1. Active
  BY AtNode, DecideIs DEF At, Operational
<1>2. pending = NoIssue /\ escalation = NoIssue
  BY <1>1 DEF Active, Core, Labels, ContractKept, Contract
<1>3. Labels'
  BY <1>2, IssueTypes
     DEF Published, SetState, Labels, LabelsTyped, Statuses, Stages, ContractKept, Contract
<1>4. GraphTyped' /\ Decided'
  BY CompletedTyped DEF Published
<1>5. Artifacts' /\ HistoryTyped'
  BY ArtSame, HistorySame DEF Published
<1>6. QED
  BY <1>3, <1>4, <1>5 DEF Core

\* The publish node keeps Core.
LEMMA CorePublish == ASSUME Core, Publish PROVE Core'
<1>1. CASE Raises
  BY <1>1, CoreRaises
<1>2. CASE Fails("REJECTED") /\ UNCHANGED <<refused, restarts>>
  BY <1>2, FailsTyped DEF Errors
<1>3. CASE Fails("IDEMPOTENCY_CONFLICT") /\ UNCHANGED <<refused, restarts>>
  BY <1>3, FailsTyped DEF Errors
<1>4. CASE Published /\ UNCHANGED <<refused, restarts>>
  BY <1>4, PublishedTyped DEF Publish
<1>5. QED
  BY <1>1, <1>2, <1>3, <1>4 DEF Publish

\* The terminal nodes keep Core.
LEMMA CoreTerminal == ASSUME Core, Terminal PROVE Core'
<1>1. GraphTyped' /\ Decided'
  BY DEF Core, Terminal, Ends, GraphTyped, Threads, Nodes, Decided, Operational, outside
<1>2. QED
  BY <1>1, CatalogSame DEF Core, Terminal

\* permanent_failure keeps Core: it drops the status that breaks the contract.
LEMMA CorePermanentFailure == ASSUME Core, PermanentFailure PROVE Core'
<1>1. GraphTyped' /\ Decided'
  BY DEF Core, PermanentFailure, Ends, GraphTyped, Threads, Nodes, Errors, Decided, Operational,
         outside
<1>2. Artifacts' /\ HistoryTyped'
  BY ArtSame, HistorySame DEF PermanentFailure
<1>3. Labels'
  BY DEF Core, PermanentFailure, artifacts, Labels, LabelsTyped, Statuses, ContractKept, Contract
<1>4. QED
  BY <1>1, <1>2, <1>3 DEF Core

\* A crash keeps Core.
LEMMA CoreCrash == ASSUME Core, Crash PROVE Core'
<1>1. GraphTyped' /\ Decided'
  BY CatalogSame DEF Core, Crash, GraphTyped, Threads, Decided, outside
<1>2. QED
  BY <1>1, CatalogSame DEF Core, Crash

\* A crash after the repository's commit keeps Core.
LEMMA CoreCrashAfterCreate == ASSUME Core, CrashAfterCreate PROVE Core'
<1>1. GraphTyped' /\ Decided'
  BY CatalogSame DEF Core, CrashAfterCreate, GraphTyped, Threads, Decided
<1>2. QED
  BY <1>1, CatalogSame DEF Core, CrashAfterCreate

\* A run on a fresh checkpoint database starts in Core.
LEMMA CoreFresh == ASSUME Core, FreshCheckpoint PROVE Core'
<1>1. restarts' \in 0 .. MaxRestarts
  BY WorkflowAssumption DEF Core, FreshCheckpoint, GraphTyped
<1>2. GraphTyped' /\ Decided'
  BY <1>1, IssueTypes
     DEF Core, FreshCheckpoint, GraphTyped, Decided, Threads, Nodes, Errors, Operational, Simple,
         Decision
<1>3. Labels'
  BY WorkLabels DEF FreshCheckpoint, SetState
<1>4. Artifacts'
  BY Options DEF FreshCheckpoint, Artifacts, ArtifactsTyped, Shape, ArtifactsFresh
<1>5. HistoryTyped'
  <2>1. history' \in Seq({}) /\ DOMAIN history' = {}
    BY DEF FreshCheckpoint
  <2>2. QED
    BY <2>1 DEF HistoryTyped, IsHistory
<1>6. QED
  BY <1>2, <1>3, <1>4, <1>5 DEF Core

\* A step of something else keeps Core.
LEMMA CoreStutter == ASSUME Core, UNCHANGED vars PROVE Core'
<1>1. GraphTyped' /\ Decided'
  BY CatalogSame DEF Core, vars, graph, outside, GraphTyped, Decided
<1>2. QED
  BY <1>1, CatalogSame DEF Core, vars

\* Every step keeps Core.
LEMMA CoreStep == ASSUME Core, [Next]_vars PROVE Core'
<1>1. CASE GraphStep
  BY <1>1, CoreDecide, CoreGuard, CoreExtract, CoreNormalize, CoreBuild, CoreValidate, CoreRecovery,
     CoreInterrupt, CorePublish, CoreTerminal, CorePermanentFailure DEF GraphStep
<1>2. CASE Answer
  BY <1>2, CoreAnswerLevel, CoreAnswerSkill DEF Answer
<1>3. QED
  BY <1>1, <1>2, CoreStart, CoreRefuse, CoreCrash, CoreCrashAfterCreate, CoreFresh, CoreStutter
     DEF Next

\* Every variable keeps its type, whatever the models answer, wherever a call
\* fails and the process dies (TypeOK of state.py and graph.py's channels).
THEOREM TypeCorrect == Spec => []TypeOK
<1>1. Init => Core
  BY CoreInit
<1>2. Core /\ [Next]_vars => Core'
  BY CoreStep
<1>3. Core => TypeOK
  BY CoreTypes
<1>4. QED
  BY <1>1, <1>2, <1>3, PTL DEF Spec

\* No update breaks CatalogAgentState's contract, so none of them raises.
THEOREM ContractHolds == Spec => []ContractKept
<1>1. Init => Core
  BY CoreInit
<1>2. Core /\ [Next]_vars => Core'
  BY CoreStep
<1>3. Core => ContractKept
  BY DEF Core, Labels
<1>4. QED
  BY <1>1, <1>2, <1>3, PTL DEF Spec

\* The profile and its validation are never those of older artifacts.
THEOREM FreshHolds == Spec => []ArtifactsFresh
<1>1. Init => Core
  BY CoreInit
<1>2. Core /\ [Next]_vars => Core'
  BY CoreStep
<1>3. Core => ArtifactsFresh
  BY DEF Core, Artifacts
<1>4. QED
  BY <1>1, <1>2, <1>3, PTL DEF Spec

-----------------------------------------------------------------------------
(* The repository.                                                         *)

\* A request's project is created once and never replaced: the publisher's
\* insert is guarded by the repository's key, in a crash's window as well.
THEOREM StoredOnceHolds == Spec => StoredOnce
<1>1. [Next]_vars => [store # None => store' = store]_vars
  <2> SUFFICES ASSUME Next, store # None PROVE store' = store
    BY DEF vars, outside
  <2>1. CASE GraphStep
    <3>1. CASE ExecuteRecovery
      BY <3>1 DEF ExecuteRecovery, Reextract, Renormalize, RecoveryFailed, RequestClarification,
                  Escalate, Record, Raises, outside
    <3>2. CASE Publish
      BY <2>1, <3>2 DEF Publish, Raises, outside
    <3>3. QED
      BY <2>1, <3>1, <3>2
         DEF GraphStep, DecideNode, TransitionGuard, Extract, Normalize, BuildProfile, ValidateNode,
             Interrupt, Terminal, PermanentFailure, Raises, outside
  <2>2. QED
    BY <2>1 DEF Next, Start, Answer, AnswerLevel, AnswerSkill, Answering, RefuseAnswer, Crash,
                CrashAfterCreate, FreshCheckpoint, outside
<1>2. QED
  BY <1>1, PTL DEF Spec, StoredOnce

\* What a publication finds publishable can be staffed.
LEMMA PublishableIsSound ==
    ASSUME Core, Publishable, store' = profile
    PROVE  StoredIsSound'
<1>1. validation # None /\ The(validation) = {} /\ validation = Some(Validate(The(profile)))
  BY DEF Publishable, Core, Artifacts, ArtifactsFresh
<1>2. Validate(The(profile)) = {}
  BY <1>1, Options
<1>3. PICK p : p = The(profile)
  OBVIOUS
<1>4. Validate(p) = {} /\ The(store') = p
  BY <1>2, <1>3
<1>5. QED
  BY <1>4, ValidIsSound DEF StoredIsSound, The

\* Only a publication and a crash in the middle of one write to the repository.
LEMMA Writes ==
    ASSUME Core, [Next]_vars
    PROVE  UNCHANGED store \/ (At("publish") /\ Publishable /\ store' = profile)
<1>1. CASE GraphStep
  <2>1. CASE ExecuteRecovery
    BY <2>1 DEF ExecuteRecovery, Reextract, Renormalize, RecoveryFailed, RequestClarification,
                Escalate, Record, Raises, outside
  <2>2. CASE Publish
    BY <2>2 DEF Publish, Raises, outside
  <2>3. QED
    BY <1>1, <2>1, <2>2
       DEF GraphStep, DecideNode, TransitionGuard, Extract, Normalize, BuildProfile, ValidateNode,
           Interrupt, Terminal, PermanentFailure, Raises, outside
<1>2. QED
  BY <1>1 DEF Next, vars, Start, Answer, AnswerLevel, AnswerSkill, Answering, RefuseAnswer, Crash,
              CrashAfterCreate, FreshCheckpoint, outside

\* What reaches the repository has only active skills, verbatim evidence and
\* levels for its hard requirements: the guard trusts the validation, which is
\* that of the profile it publishes.
THEOREM StoredIsSoundHolds == Spec => []StoredIsSound
<1>1. Init => Core /\ StoredIsSound
  BY CoreInit DEF Init, StoredIsSound
<1>2. Core /\ StoredIsSound /\ [Next]_vars => (Core /\ StoredIsSound)'
  <2> SUFFICES ASSUME Core, StoredIsSound, [Next]_vars PROVE (Core /\ StoredIsSound)'
    OBVIOUS
  <2>1. Core'
    BY CoreStep
  <2>2. CASE UNCHANGED store
    BY <2>1, <2>2 DEF StoredIsSound
  <2>3. CASE Publishable /\ store' = profile
    BY <2>1, <2>3, PublishableIsSound
  <2>4. QED
    BY <2>2, <2>3, Writes
<1>3. QED
  BY <1>1, <1>2, PTL DEF Spec

\* Only a publication completes a request.
LEMMA Completes ==
    ASSUME Core, [Next]_vars, status' = "completed"
    PROVE  \/ UNCHANGED <<status, profile, store>>
           \/ At("publish") /\ profile' = profile /\ store' = profile
<1>1. CASE ExecuteRecovery
  <2>1. CASE Raises
    BY <2>1 DEF Raises, Fails, catalog, artifacts, outside
  <2>2. CASE RecoveryFailed
    BY <2>2 DEF RecoveryFailed, SetState
  <2>3. QED
    BY <1>1, <2>1, <2>2
       DEF ExecuteRecovery, Reextract, Renormalize, RequestClarification, Escalate, NothingNew,
           SetState, ApplyExtraction, ApplyNormalization
<1>2. CASE Publish
  BY <1>2 DEF Publish, Raises, Fails, Published, catalog, artifacts, outside
<1>3. CASE PermanentFailure
  BY <1>3 DEF PermanentFailure, artifacts, outside
<1>4. CASE GraphStep
  BY <1>1, <1>2, <1>3, <1>4
     DEF GraphStep, DecideNode, TransitionGuard, Extract, Normalize, BuildProfile, ValidateNode,
         Interrupt, Terminal, Raises, Fails, ApplyExtraction, ApplyNormalization, ApplyProfile,
         ApplyValidation, SetState, catalog, artifacts, outside
<1>5. CASE Answer
  BY <1>5 DEF Answer, AnswerLevel, AnswerSkill, SetState
<1>6. QED
  BY <1>4, <1>5
     DEF Next, vars, Start, RefuseAnswer, Crash, CrashAfterCreate, At, FreshCheckpoint, SetState,
         catalog, artifacts, outside

\* A request that says completed has its own profile in the repository.
THEOREM CompletedIsStoredHolds == Spec => []CompletedIsStored
<1>1. Init => Core /\ CompletedIsStored
  BY CoreInit DEF Init, CompletedIsStored
<1>2. Core /\ CompletedIsStored /\ [Next]_vars => (Core /\ CompletedIsStored)'
  BY CoreStep, Completes DEF CompletedIsStored
<1>3. QED
  BY <1>1, <1>2, PTL DEF Spec

-----------------------------------------------------------------------------
(* The recoveries and the limit.                                           *)

\* The recoveries are bounded in total and one by one.
Bounded ==
    /\ Len(history) <= MaxTotal + IF status = "escalated" THEN 1 ELSE 0
    /\ \A issue \in Issues, a \in Actions : Cardinality(Attempts(history, issue, a)) <= Limit(a)

\* What the run checks of the recoveries follows from Bounded.
LEMMA BoundedIs == ASSUME Core, Bounded PROVE RecoveryBounded
BY DEF Core, HistoryTyped, Bounded, RecoveryBounded

\* A recorded recovery is one the policy found usable, or the one escalation.
LEMMA RecordBounded ==
    ASSUME Core, Bounded, At("execute_recovery"), NEW a \in Actions, decision.action = a,
           NEW r, Record(a, r), a = "escalate" <=> status' = "escalated"
    PROVE  Bounded' /\ Len(history') = Len(history) + 1
<1>1. decision = Decide /\ decision.type = "execute_recovery"
  BY AtNode DEF At, Operational
<1>2. Active /\ decision.issue \in RealIssues
  BY <1>1, DecideIs
<1>3. \/ a # "escalate" /\ Usable(history, decision.issue, a)
      \/ a = "escalate" /\ Attempts(history, decision.issue, "escalate") = {}
  BY <1>1, DecideIs
<1> DEFINE e == [action |-> a, issue |-> decision.issue, status |-> r,
                 sources |-> SourcesOf(decision.issue)]
<1>4. history' = Append(history, e) /\ e.action = a /\ e.issue = decision.issue
  BY DEF Record
<1> HIDE DEF e
<1>5. IsHistory(history)
  BY DEF Core, HistoryTyped
<1>6. Len(history') = Len(history) + 1 /\ Len(history) \in Nat
  BY <1>4, <1>5, HistoryAppend
<1>7. Len(history') <= MaxTotal + IF status' = "escalated" THEN 1 ELSE 0
  <2>1. status # "escalated"
    BY <1>2 DEF Active
  <2>2. CASE a = "escalate"
    BY <1>6, <2>1, <2>2, MaxTotalAssumption DEF Bounded
  <2>3. CASE a # "escalate"
    BY <1>3, <1>6, <2>3, MaxTotalAssumption DEF Usable
  <2>4. QED
    BY <2>2, <2>3
<1>8. ASSUME NEW issue \in Issues, NEW b \in Actions
      PROVE  Cardinality(Attempts(history', issue, b)) <= Limit(b)
  <2>1. /\ Cardinality(Attempts(history, issue, b)) \in Nat
        /\ Cardinality(Attempts(Append(history, e), issue, b)) =
              Cardinality(Attempts(history, issue, b))
                 + IF e.issue = issue /\ e.action = b THEN 1 ELSE 0
    BY <1>5, AttemptsAppend
  <2>2. Cardinality(Attempts(history, issue, b)) <= Limit(b) /\ Limit(b) \in Nat
    BY DEF Bounded, Limit
  <2>3. CASE e.issue = issue /\ e.action = b
    <3>1. Cardinality(Attempts(history, issue, b)) < Limit(b)
      <4>1. CASE a # "escalate"
        BY <1>3, <1>4, <2>3, <4>1 DEF Usable
      <4>2. CASE a = "escalate"
        <5>1. Attempts(history, issue, b) = {} /\ Limit(b) = 1
          BY <1>3, <1>4, <2>3, <4>2 DEF Limit
        <5>2. QED
          BY <5>1, FS_EmptySet
      <4>3. QED
        BY <4>1, <4>2
    <3>2. QED
      BY <1>4, <2>1, <2>2, <2>3, <3>1
  <2>4. CASE ~ (e.issue = issue /\ e.action = b)
    BY <1>4, <2>1, <2>2, <2>4
  <2>5. QED
    BY <2>3, <2>4
<1>9. QED
  BY <1>6, <1>7, <1>8 DEF Bounded

\* What is still to do before the policy acts on a valid profile again.
Togo ==
    IF status = "awaiting_clarification" THEN 5
    ELSE IF ~ Active                     THEN 0
    ELSE IF extraction = None            THEN 5
    ELSE IF normalization = None         THEN 4
    ELSE IF profile = None               THEN 3
    ELSE IF validation = None            THEN 2
    ELSE 1

\* The supersteps that were counted and those to come are paid for by the
\* recoveries, five each, by the first run, five, and by the refused answers.
Budget ==
    node \notin {"permanent_failure", "end"} => count + Togo <= 5 * Len(history) + 5 + refused

\* Each recovery is recorded and the rest of the history is as it was.
LEMMA RecoverySteps ==
    ASSUME Core, Bounded, ExecuteRecovery, ~ Raises
    PROVE  /\ Bounded' /\ Len(history') = Len(history) + 1
           /\ Completed /\ refused' = refused
<1>1. At("execute_recovery") /\ ~ (status = "escalated")
  BY Recovering DEF Active, ExecuteRecovery, Reextract, Renormalize, RecoveryFailed,
                    RequestClarification, Escalate, Recovers
<1>2. CASE Reextract
  <2>1. PICK r \in Results : Record("reextract_field", r)
    BY <1>2 DEF Reextract, Results
  <2>2. status' # "escalated" /\ decision.action = "reextract_field"
    BY <1>2 DEF Reextract, NothingNew, ApplyExtraction, SetState, Recovers
  <2>3. QED
    BY <1>1, <2>1, <2>2, RecordBounded DEF Record, outside, Actions
<1>3. CASE Renormalize
  <2>1. PICK a \in {"lookup_taxonomy", "reconsider_mapping"}, r \in Results :
           Record(a, r) /\ decision.action = a
    BY <1>3 DEF Renormalize, Results, Recovers
  <2>2. status' # "escalated"
    BY <1>3 DEF Renormalize, NothingNew, ApplyNormalization, SetState
  <2>3. QED
    BY <1>1, <2>1, <2>2, RecordBounded DEF Record, outside, Actions
<1>4. CASE RecoveryFailed
  <2>1. PICK a \in {"reextract_field", "lookup_taxonomy", "reconsider_mapping"} :
           Record(a, "failed") /\ decision.action = a
    BY <1>4 DEF RecoveryFailed, Recovers
  <2>2. status' # "escalated"
    BY <1>4 DEF RecoveryFailed, SetState
  <2>3. QED
    BY <1>1, <2>1, <2>2, RecordBounded DEF Record, outside, Actions
<1>5. CASE RequestClarification
  BY <1>1, <1>5, RecordBounded DEF RequestClarification, Recovers, SetState, Record, outside, Actions
<1>6. CASE Escalate
  BY <1>1, <1>6, RecordBounded DEF Escalate, Recovers, SetState, Record, outside, Actions
<1>7. QED
  BY <1>2, <1>3, <1>4, <1>5, <1>6 DEF ExecuteRecovery

\* An empty history is within every bound.
LEMMA BoundedEmpty ==
    ASSUME NEW h, h = <<>>
    PROVE  /\ Len(h) = 0
           /\ \A issue \in Issues, a \in Actions : Cardinality(Attempts(h, issue, a)) <= Limit(a)
<1>1. Len(h) = 0 /\ DOMAIN h = {}
  OBVIOUS
<1>2. ASSUME NEW issue \in Issues, NEW a \in Actions
      PROVE  Cardinality(Attempts(h, issue, a)) <= Limit(a)
  <2>1. Attempts(h, issue, a) = {}
    BY <1>1 DEF Attempts
  <2>2. Cardinality(Attempts(h, issue, a)) = 0
    BY <2>1, FS_EmptySet
  <2>3. QED
    BY <2>2 DEF Limit
<1>3. QED
  BY <1>1, <1>2

\* Every other step leaves the history alone or begins a new run, and an
\* escalated request stays escalated.
LEMMA OtherSteps ==
    ASSUME Core, [Next]_vars, ~ ExecuteRecovery \/ Raises
    PROVE  \/ history' = <<>> /\ status' = "received"
           \/ history' = history /\ (status = "escalated" => status' = "escalated")
<1>1. ASSUME NEW n \in Operational, At(n) PROVE status # "escalated"
  BY <1>1, AtNode, DecideIs DEF At, Active, Operational
<1>2. CASE GraphStep
  <2>1. CASE PermanentFailure
    <3>1. status = "escalated" => status' = "escalated"
      BY <2>1 DEF PermanentFailure, Core, Labels, ContractKept, Contract
    <3>2. QED
      BY <2>1, <3>1 DEF PermanentFailure
  <2>2. CASE Publish
    BY <1>1, <2>2 DEF Publish, Published, Raises, Fails, catalog, Operational
  <2>3. QED
    BY <1>1, <1>2, <2>1, <2>2
       DEF GraphStep, DecideNode, TransitionGuard, Extract, Normalize, BuildProfile, ValidateNode,
           Interrupt, Terminal, Raises, Fails, catalog, Operational
<1>3. CASE Answer
  <2>1. status # "escalated"
    BY <1>3, Waiting DEF Answer, AnswerLevel, AnswerSkill, Answering
  <2>2. QED
    BY <1>3, <2>1 DEF Answer, AnswerLevel, AnswerSkill, Answering
<1>4. QED
  BY <1>2, <1>3
     DEF Next, vars, Start, RefuseAnswer, Crash, CrashAfterCreate, FreshCheckpoint, SetState, catalog

\* Every step keeps the bounds of the recoveries.
LEMMA BoundedStep == ASSUME Core, Bounded, [Next]_vars PROVE Bounded'
<1>1. CASE ExecuteRecovery /\ ~ Raises
  BY <1>1, RecoverySteps
<1>2. CASE history' = <<>> /\ status' = "received"
  <2>1. PICK h : h = history'
    OBVIOUS
  <2>2. /\ Len(h) = 0
        /\ \A issue \in Issues, a \in Actions : Cardinality(Attempts(h, issue, a)) <= Limit(a)
    BY <1>2, <2>1, BoundedEmpty
  <2>3. QED
    BY <1>2, <2>1, <2>2, MaxTotalAssumption DEF Bounded
<1>3. CASE history' = history /\ (status = "escalated" => status' = "escalated")
  <2>1. Len(history) \in Nat
    BY HistoryAppend DEF Core, HistoryTyped
  <2>2. QED
    BY <1>3, <2>1, MaxTotalAssumption DEF Bounded
<1>4. QED
  BY <1>1, <1>2, <1>3, OtherSteps

\* The recoveries are bounded, in total and for each issue, and an escalation
\* is the last of them (CatalogDecisionPolicy's limits).
THEOREM RecoveryBoundedHolds == Spec => []RecoveryBounded
<1>1. Init => Core /\ Bounded
  BY CoreInit, BoundedEmpty, MaxTotalAssumption DEF Init, Bounded
<1>2. Core /\ Bounded /\ [Next]_vars => (Core /\ Bounded)'
  BY CoreStep, BoundedStep
<1>3. Core /\ Bounded => RecoveryBounded
  BY BoundedIs
<1>4. QED
  BY <1>1, <1>2, <1>3, PTL DEF Spec

\* At most five supersteps are to come, and at least one while the request is at work.
LEMMA TogoIs == Togo \in 0 .. 5 /\ (Active => Togo >= 1)
BY DEF Togo, Active

\* What is to come depends on the request's state alone.
LEMMA TogoSame == ASSUME UNCHANGED catalog PROVE Togo' = Togo
BY DEF catalog, artifacts, Togo, Active

\* The numbers of the budget.
LEMMA Numbers ==
    ASSUME Core
    PROVE  count \in Nat /\ refused \in Nat /\ Len(history) \in Nat /\ Togo \in 0 .. 5
<1>1. IsHistory(history) /\ count \in Nat /\ refused \in Nat
  BY WorkflowAssumption DEF Core, HistoryTyped, GraphTyped
<1>2. Len(history) \in Nat
  BY <1>1, HistoryAppend
<1>3. QED
  BY <1>1, <1>2, TogoIs

\* A superstep that completes an artifact leaves one thing less to do.
LEMMA OneLess ==
    ASSUME Core, Budget, node \in Operational, Completed,
           history' = history, refused' = refused, Togo' <= Togo - 1
    PROVE  Budget'
<1>1. Togo' \in 0 .. 5
  BY DEF Togo, Active
<1>2. QED
  BY <1>1, Numbers, SMTT(30) DEF Completed, Budget, Operational

\* The extract node stays in the budget.
LEMMA BudgetExtract == ASSUME Core, Budget, Extract PROVE Budget'
<1>1. CASE Raises
  BY <1>1 DEF Raises, Fails, Budget
<1>2. CASE ~ Raises
  <2>1. Togo = 5
    BY AtNode, DecideIs DEF Extract, At, Operational, Togo, Active
  <2>2. Togo' = 4
    BY <1>2, Options DEF Extract, ApplyExtraction, SetState, Togo, Active
  <2>3. QED
    BY <1>2, <2>1, <2>2, OneLess DEF Extract, At, Operational, outside
<1>3. QED
  BY <1>1, <1>2

\* The normalize node stays in the budget.
LEMMA BudgetNormalize == ASSUME Core, Budget, Normalize PROVE Budget'
<1>1. CASE Raises
  BY <1>1 DEF Raises, Fails, Budget
<1>2. CASE ~ Raises
  <2>1. Togo = 4 /\ extraction # None
    BY AtNode, DecideIs DEF Normalize, At, Operational, Togo, Active
  <2>2. Togo' = 3
    BY <1>2, <2>1, Options DEF Normalize, ApplyNormalization, SetState, Togo, Active
  <2>3. QED
    BY <1>2, <2>1, <2>2, OneLess DEF Normalize, At, Operational, outside
<1>3. QED
  BY <1>1, <1>2

\* The build_profile node stays in the budget.
LEMMA BudgetBuild == ASSUME Core, Budget, BuildProfile PROVE Budget'
<1>1. Togo = 3 /\ extraction # None /\ normalization # None
  BY AtNode, DecideIs DEF BuildProfile, At, Operational, Togo, Active
<1>2. Togo' = 2
  BY <1>1, Options DEF BuildProfile, ApplyProfile, SetState, Togo, Active
<1>3. QED
  BY <1>1, <1>2, OneLess DEF BuildProfile, At, Operational, outside

\* The validate node stays in the budget.
LEMMA BudgetValidate == ASSUME Core, Budget, ValidateNode PROVE Budget'
<1>1. Togo = 2 /\ extraction # None /\ normalization # None /\ profile # None
  BY AtNode, DecideIs DEF ValidateNode, At, Operational, Togo, Active, Core, Artifacts,
                          ArtifactsFresh
<1>2. Togo' = 1
  BY <1>1, Options DEF ValidateNode, ApplyValidation, SetState, Togo, Active
<1>3. QED
  BY <1>1, <1>2, OneLess DEF ValidateNode, At, Operational, outside

\* A recovery pays for itself and for all the supersteps it can cause.
LEMMA BudgetRecovery == ASSUME Core, Bounded, Budget, ExecuteRecovery PROVE Budget'
<1>1. CASE Raises
  BY <1>1 DEF Raises, Fails, Budget
<1>2. CASE ~ Raises
  <2>1. Len(history') = Len(history) + 1 /\ Completed /\ refused' = refused
    BY <1>2, RecoverySteps
  <2>2. Togo' \in 0 .. 5 /\ Togo >= 1
    <3>1. At("execute_recovery")
      BY <1>2 DEF ExecuteRecovery, Reextract, Renormalize, RecoveryFailed, RequestClarification,
                  Escalate, Recovers
    <3>2. Active
      BY <3>1, Recovering
    <3>3. Togo' \in 0 .. 5
      BY DEF Togo, Active
    <3>4. QED
      BY <3>2, <3>3, TogoIs
  <2>3. node = "execute_recovery"
    BY <1>2 DEF ExecuteRecovery, Reextract, Renormalize, RecoveryFailed, RequestClarification,
                Escalate, Recovers, At
  <2>4. QED
    BY <2>1, <2>2, <2>3, Numbers, SMTT(30) DEF Completed, Budget
<1>3. QED
  BY <1>1, <1>2

\* A publication stays in the budget: nothing comes after it.
LEMMA BudgetPublish == ASSUME Core, Budget, Publish PROVE Budget'
<1>1. CASE node' = "permanent_failure"
  BY <1>1 DEF Budget
<1>2. CASE node' # "permanent_failure"
  <2>1. Published /\ refused' = refused /\ node = "publish"
    BY <1>2 DEF Publish, Raises, Fails, At
  <2>2. Togo' = 0
    BY <2>1 DEF Published, SetState, Togo, Active
  <2>3. Togo >= 1
    BY <2>1, AtNode, DecideIs, TogoIs DEF Operational
  <2>4. QED
    BY <2>1, <2>2, <2>3, OneLess, Numbers DEF Published, Operational
<1>3. QED
  BY <1>1, <1>2

\* An accepted answer leaves less to do; a refused one is paid for by itself.
LEMMA BudgetAnswer ==
    ASSUME Core, Budget, Answer \/ RefuseAnswer
    PROVE  Budget'
<1>1. status = "awaiting_clarification" /\ node = "await_clarification"
      /\ extraction # None /\ normalization # None
  BY Waiting DEF Answer, AnswerLevel, AnswerSkill, Answering, RefuseAnswer, Resumable
<1>2. Togo = 5
  BY <1>1 DEF Togo
<1>3. CASE RefuseAnswer
  <2>1. Togo' = Togo
    BY <1>3, TogoSame DEF RefuseAnswer
  <2>2. QED
    BY <1>1, <1>2, <1>3, <2>1, Numbers DEF RefuseAnswer, Budget, catalog
<1>4. CASE Answer
  <2>1. extraction' # None /\ status' = "processing"
    BY <1>1, <1>4 DEF Answer, AnswerLevel, AnswerSkill, SetState, Some, None
  <2>2. Togo' <= 4 /\ Togo' \in 0 .. 5
    BY <2>1 DEF Togo, Active
  <2>3. history' = history /\ refused' = refused /\ count' = count + 1
    BY <1>4 DEF Answer, AnswerLevel, AnswerSkill, Answering, outside
  <2>4. QED
    BY <1>1, <1>2, <2>2, <2>3, Numbers DEF Budget
<1>5. QED
  BY <1>3, <1>4

\* The steps that count nothing.
LEMMA BudgetOther ==
    ASSUME Core, Budget, UNCHANGED <<catalog, count, refused>>,
           node \in {"permanent_failure", "end"} => node' \in {"permanent_failure", "end"}
    PROVE  Budget'
BY TogoSame DEF Budget, catalog

\* A new run begins within the budget.
LEMMA BudgetFresh == ASSUME Core, FreshCheckpoint PROVE Budget'
<1>1. Togo' = 5
  BY Options DEF FreshCheckpoint, SetState, Togo, Active
<1>2. Len(history') = 0
  BY BoundedEmpty DEF FreshCheckpoint
<1>3. QED
  BY <1>1, <1>2, Numbers DEF FreshCheckpoint, Budget

\* Every step stays in the budget.
LEMMA BudgetStep == ASSUME Core, Bounded, Budget, [Next]_vars PROVE Budget'
<1>1. CASE GraphStep
  <2>1. CASE PermanentFailure \/ Terminal
    BY <2>1 DEF PermanentFailure, Terminal, Ends, Budget
  <2>2. CASE DecideNode \/ TransitionGuard \/ Interrupt
    BY <2>2, BudgetOther DEF DecideNode, TransitionGuard, Interrupt, At, outside
  <2>3. QED
    BY <1>1, <2>1, <2>2, BudgetExtract, BudgetNormalize, BudgetBuild, BudgetValidate,
       BudgetRecovery, BudgetPublish DEF GraphStep
<1>2. CASE Start \/ Crash \/ CrashAfterCreate \/ UNCHANGED vars
  BY <1>2, BudgetOther DEF Start, Crash, CrashAfterCreate, vars, graph, outside
<1>3. QED
  BY <1>1, <1>2, BudgetAnswer, BudgetFresh DEF Next

Enough == MaxTransitions >= 5 * MaxTotal + 5

\* At the limit the budget is spent, and only refused answers overspend it.
LEMMA GuardRefuses ==
    ASSUME Enough, Core, Bounded, Budget, TransitionGuard, error' = "TRANSITION_LIMIT_REACHED"
    PROVE  refused > 0
<1>1. decision.type \in Operational /\ count >= MaxTransitions
  BY DEF TransitionGuard
<1>2. decision = Decide /\ node = "transition_guard"
  BY DEF TransitionGuard, At, Core, Decided
<1>3. Togo >= 1 /\ status # "escalated"
  BY <1>1, <1>2, DecideIs, TogoIs DEF Operational, Togo, Active
<1>4. Len(history) <= MaxTotal
  BY <1>3, Numbers, MaxTotalAssumption DEF Bounded
<1>5. count + Togo <= 5 * Len(history) + 5 + refused
  BY <1>2 DEF Budget
<1>6. QED
  BY <1>1, <1>3, <1>4, <1>5, Numbers, WorkflowAssumption, MaxTotalAssumption DEF Enough

\* Only the guard reports the limit, and a refusal is never taken back.
LEMMA ErrorSteps ==
    ASSUME Core, [Next]_vars
    PROVE  /\ TransitionGuard \/ error' = error \/ error' # "TRANSITION_LIMIT_REACHED"
           /\ refused' = refused \/ refused' = refused + 1
<1>1. CASE ExecuteRecovery
  BY <1>1 DEF ExecuteRecovery, Reextract, Renormalize, RecoveryFailed, RequestClarification,
              Escalate, Record, Completed, Raises, Fails, outside
<1>2. CASE Publish
  BY <1>2 DEF Publish, Published, Completed, Raises, Fails, outside
<1>3. CASE GraphStep
  BY <1>1, <1>2, <1>3
     DEF GraphStep, DecideNode, TransitionGuard, Extract, Normalize, BuildProfile, ValidateNode,
         Interrupt, Terminal, PermanentFailure, Completed, Raises, Fails, outside
<1>4. CASE Answer
  BY <1>4 DEF Answer, AnswerLevel, AnswerSkill, Answering, outside
<1>5. QED
  BY <1>3, <1>4
     DEF Next, vars, graph, Start, RefuseAnswer, Crash, CrashAfterCreate, FreshCheckpoint, outside

\* No step reports the limit while no answer was refused.
LEMMA LimitStep ==
    ASSUME Enough, Core, Bounded, Budget, LimitNeedsRefusals, [Next]_vars
    PROVE  LimitNeedsRefusals'
<1>1. CASE TransitionGuard
  BY <1>1, GuardRefuses DEF TransitionGuard, LimitNeedsRefusals, outside
<1>2. CASE ~ TransitionGuard
  BY <1>2, ErrorSteps, Numbers DEF LimitNeedsRefusals
<1>3. QED
  BY <1>1, <1>2

\* A new request is within every bound.
LEMMA BudgetInit == ASSUME Init PROVE Core /\ Bounded /\ Budget
<1>1. Core /\ Bounded
  BY CoreInit, BoundedEmpty, MaxTotalAssumption DEF Init, Bounded
<1>2. Togo = 5 /\ Len(history) = 0
  BY BoundedEmpty DEF Init, Togo, Active
<1>3. QED
  BY <1>1, <1>2 DEF Init, Budget

\* With a limit of at least five for each recovery and five more, as the
\* defaults 30 and 5 have it, a request ends at the limit only when answers
\* to its questions were refused.
THEOREM LimitHolds == ASSUME Enough PROVE Spec => []LimitNeedsRefusals
<1>1. Init => Core /\ Bounded /\ Budget /\ LimitNeedsRefusals
  BY BudgetInit DEF Init, LimitNeedsRefusals
<1>2. Core /\ Bounded /\ Budget /\ LimitNeedsRefusals /\ [Next]_vars
        => (Core /\ Bounded /\ Budget /\ LimitNeedsRefusals)'
  BY CoreStep, BoundedStep, BudgetStep, LimitStep
<1>3. QED
  BY <1>1, <1>2, PTL DEF Spec

\* The steps that leave a thread ended, or about to end in a failure.
LEMMA EndSteps ==
    ASSUME Core, [Next]_vars
    PROVE  /\ thread' = "ended" => Terminal \/ PermanentFailure \/ UNCHANGED <<thread, status>>
           /\ node' = "permanent_failure" =>
                 \/ TransitionGuard
                 \/ UNCHANGED <<node, status>>
                 \/ UNCHANGED status /\ node \in Operational \ {"await_clarification"}
<1>1. CASE ExecuteRecovery
  BY <1>1 DEF ExecuteRecovery, Reextract, Renormalize, RecoveryFailed, RequestClarification,
              Escalate, Record, Recovers, At, Completed, Raises, Fails, catalog, Operational
<1>2. CASE Publish
  BY <1>2 DEF Publish, Published, Completed, At, Raises, Fails, catalog, Operational
<1>3. CASE GraphStep
  BY <1>1, <1>2, <1>3
     DEF GraphStep, DecideNode, TransitionGuard, Extract, Normalize, BuildProfile, ValidateNode,
         Interrupt, Terminal, PermanentFailure, Ends, Completed, At, Raises, Fails, catalog,
         Operational
<1>4. CASE Answer
  BY <1>4 DEF Answer, AnswerLevel, AnswerSkill, Answering
<1>5. QED
  BY <1>3, <1>4
     DEF Next, vars, graph, catalog, Start, RefuseAnswer, Resumable, Crash, CrashAfterCreate, At,
         FreshCheckpoint

Room == MaxTransitions > 5 * MaxTotal + MaxRefused

\* What fails does not wait for an answer.
Settled == EndedIsSettled /\ (node = "permanent_failure" => status # "awaiting_clarification")

\* With room, the limit is not met in front of a question.
LEMMA GuardLetsWait ==
    ASSUME Room, Core, Bounded, Budget, TransitionGuard, node' = "permanent_failure"
    PROVE  status # "awaiting_clarification"
<1>1. SUFFICES ASSUME status = "awaiting_clarification" PROVE FALSE
  OBVIOUS
<1>2. decision.type = "await_clarification"
  <2>1. decision = Decide
    BY DEF TransitionGuard, At, Core, Decided
  <2>2. Decide = Simple("await_clarification")
    BY <1>1 DEF Decide
  <2>3. QED
    BY <2>1, <2>2 DEF Simple, Decision
<1>3. count >= MaxTransitions
  BY <1>2 DEF TransitionGuard, Operational
<1>4. count + 5 <= 5 * Len(history) + 5 + refused
  BY <1>1 DEF TransitionGuard, At, Budget, Togo
<1>5. Len(history) <= MaxTotal /\ refused <= MaxRefused
  <2>1. Len(history) <= MaxTotal
    BY <1>1, Numbers, MaxTotalAssumption DEF Bounded
  <2>2. refused <= MaxRefused
    BY WorkflowAssumption DEF Core, GraphTyped
  <2>3. QED
    BY <2>1, <2>2
<1>6. QED
  BY <1>3, <1>4, <1>5, Numbers, WorkflowAssumption, MaxTotalAssumption DEF Room

\* Every step keeps what fails from waiting for an answer.
LEMMA SettledStep ==
    ASSUME Room, Core, Bounded, Budget, Settled, [Next]_vars
    PROVE  Settled'
<1>1. (node = "permanent_failure" => status # "awaiting_clarification")'
  <2>1. SUFFICES ASSUME node' = "permanent_failure" PROVE status' # "awaiting_clarification"
    OBVIOUS
  <2>2. CASE TransitionGuard
    BY <2>1, <2>2, GuardLetsWait DEF TransitionGuard, catalog
  <2>3. CASE UNCHANGED <<node, status>>
    BY <2>1, <2>3 DEF Settled
  <2>4. CASE UNCHANGED status /\ node \in Operational \ {"await_clarification"}
    <3>1. status # "awaiting_clarification"
      BY <2>4, AtNode, DecideIs DEF Operational, Active
    <3>2. QED
      BY <2>4, <3>1
  <2>5. QED
    BY <2>1, <2>2, <2>3, <2>4, EndSteps
<1>2. EndedIsSettled'
  <2>1. SUFFICES ASSUME thread' = "ended"
                 PROVE  status' \in {"completed", "escalated", "permanent_failure"}
    BY DEF EndedIsSettled
  <2>2. CASE Terminal
    <3>1. status = "completed" \/ status = "escalated"
      BY <2>2, AtNode, DecideIs DEF Terminal, At
    <3>2. QED
      BY <2>2, <3>1 DEF Terminal, catalog
  <2>3. CASE PermanentFailure
    <3>1. status # "awaiting_clarification" /\ status \in Statuses
      BY <2>3 DEF PermanentFailure, At, Settled, Core, Labels, LabelsTyped
    <3>2. CASE Active
      <4>1. Contract("permanent_failure", stage, pending, escalation)
        BY <3>2 DEF Active, Core, Labels, ContractKept, Contract
      <4>2. QED
        BY <2>3, <4>1 DEF PermanentFailure
    <3>3. CASE ~ Active
      BY <2>3, <3>1, <3>3 DEF PermanentFailure, Active
    <3>4. QED
      BY <3>2, <3>3
  <2>4. CASE UNCHANGED <<thread, status>>
    BY <2>1, <2>4 DEF Settled, EndedIsSettled
  <2>5. QED
    BY <2>1, <2>2, <2>3, <2>4, EndSteps
<1>3. QED
  BY <1>1, <1>2 DEF Settled

\* With that many transitions and refused answers, a graph that has ended left
\* a status that says so: it never reports a failure over an open question.
THEOREM EndedIsSettledHolds == ASSUME Room PROVE Spec => []EndedIsSettled
<1>1. Init => Core /\ Bounded /\ Budget /\ Settled
  BY BudgetInit DEF Init, Settled, EndedIsSettled
<1>2. Core /\ Bounded /\ Budget /\ Settled /\ [Next]_vars
        => (Core /\ Bounded /\ Budget /\ Settled)'
  BY CoreStep, BoundedStep, BudgetStep, SettledStep
<1>3. Settled => EndedIsSettled
  BY DEF Settled
<1>4. QED
  BY <1>1, <1>2, <1>3, PTL DEF Spec

-----------------------------------------------------------------------------
(* The questions.                                                          *)

\* The issue was asked about: the history has the request.
WasAsked(h, issue) ==
    \E k \in DOMAIN h : h[k].action = "request_clarification" /\ h[k].issue = issue

Questions ==
    /\ IsHistory(answers)
    /\ pending # NoIssue => WasAsked(history, pending)
    /\ \A k \in DOMAIN answers : WasAsked(history, answers[k].issue)
    /\ QuestionIsOpen

\* A longer history was asked about as much, and about its last entry.
LEMMA AskedMore ==
    ASSUME NEW h, IsHistory(h), NEW e
    PROVE  /\ \A issue : WasAsked(h, issue) => WasAsked(Append(h, e), issue)
           /\ e.action = "request_clarification" => WasAsked(Append(h, e), e.issue)
<1>1. /\ Len(h) \in Nat
      /\ DOMAIN Append(h, e) = 1 .. Len(h) + 1 /\ DOMAIN h = 1 .. Len(h)
      /\ \A k \in DOMAIN h : Append(h, e)[k] = h[k]
      /\ Append(h, e)[Len(h) + 1] = e
  BY HistoryAppend
<1>2. QED
  BY <1>1 DEF WasAsked

\* A question is asked once: no answer to it is there yet.
LEMMA QuestionsRequest == ASSUME Core, Questions, RequestClarification PROVE Questions'
<1>1. decision = Decide /\ decision.type = "execute_recovery" /\ decision.action = "request_clarification"
  BY AtNode DEF RequestClarification, Recovers, At, Operational
<1>2. Usable(history, decision.issue, "request_clarification")
  BY <1>1, DecideIs
<1>3. ~ WasAsked(history, decision.issue)
  BY <1>2 DEF Usable, Attempts, WasAsked
<1> DEFINE e == [action |-> "request_clarification", issue |-> decision.issue,
                 status |-> "awaiting_input", sources |-> SourcesOf(decision.issue)]
<1>4. history' = Append(history, e) /\ e.action = "request_clarification"
      /\ e.issue = decision.issue
  BY DEF RequestClarification, Record
<1> HIDE DEF e
<1>5. pending' = decision.issue /\ answers' = answers
  BY DEF RequestClarification, Record
<1>6. IsHistory(history)
  BY DEF Core, HistoryTyped
<1>7. WasAsked(history', decision.issue)
      /\ \A k \in DOMAIN answers : WasAsked(history', answers[k].issue)
  BY <1>4, <1>6, AskedMore DEF Questions
<1>8. QuestionIsOpen'
  BY <1>3, <1>5 DEF Questions, QuestionIsOpen
<1>9. QED
  BY <1>5, <1>7, <1>8 DEF Questions

\* The other recoveries leave no question open.
LEMMA QuestionsRecovery ==
    ASSUME Core, Questions, ExecuteRecovery, ~ Raises, ~ RequestClarification
    PROVE  Questions'
<1>1. pending = NoIssue
  BY Recovering DEF ExecuteRecovery, Reextract, Renormalize, RecoveryFailed, Escalate, Recovers
<1>2. pending' = NoIssue /\ answers' = answers
  BY <1>1 DEF ExecuteRecovery, Reextract, Renormalize, RecoveryFailed, Escalate, Record, NothingNew,
              ApplyExtraction, ApplyNormalization
<1>3. PICK e : history' = Append(history, e)
  BY DEF ExecuteRecovery, Reextract, Renormalize, RecoveryFailed, Escalate, Record
<1>4. IsHistory(history)
  BY DEF Core, HistoryTyped
<1>5. \A k \in DOMAIN answers : WasAsked(history', answers[k].issue)
  BY <1>3, <1>4, AskedMore DEF Questions
<1>6. QED
  BY <1>2, <1>5 DEF Questions, QuestionIsOpen

\* An answer closes its question.
LEMMA QuestionsAnswering == ASSUME Core, Questions, NEW v, Answering(v) PROVE Questions'
<1> DEFINE a == [issue |-> pending, value |-> v, sources |-> SourcesOf(pending)]
<1>1. answers' = Append(answers, a) /\ a.issue = pending
  BY DEF Answering
<1> HIDE DEF a
<1>2. pending' = NoIssue /\ history' = history
  BY DEF Answering
<1>3. pending # NoIssue
  BY Waiting DEF Answering
<1>4. /\ IsHistory(answers') /\ Len(answers) \in Nat
      /\ DOMAIN answers' = 1 .. Len(answers) + 1 /\ DOMAIN answers = 1 .. Len(answers)
      /\ \A k \in DOMAIN answers : answers'[k] = answers[k]
      /\ answers'[Len(answers) + 1] = a
  BY <1>1, HistoryAppend DEF Questions
<1>5. ASSUME NEW k \in DOMAIN answers' PROVE WasAsked(history', answers'[k].issue)
  <2>1. CASE k = Len(answers) + 1
    BY <1>1, <1>2, <1>3, <1>4, <2>1 DEF Questions
  <2>2. CASE k \in DOMAIN answers
    BY <1>2, <1>4, <2>2 DEF Questions
  <2>3. QED
    BY <1>4, <2>1, <2>2
<1>6. QED
  BY <1>2, <1>4, <1>5 DEF Questions, QuestionIsOpen

\* Every other step keeps the question and the histories, closes the question,
\* or begins a new run.
LEMMA QuestionsOther ==
    ASSUME Core, Questions, history' = history, answers' = answers,
           pending' = pending \/ pending' = NoIssue
    PROVE  Questions'
BY DEF Questions, QuestionIsOpen

\* A new run has asked and answered nothing.
LEMMA QuestionsFresh == ASSUME FreshCheckpoint PROVE Questions'
<1>1. answers' \in Seq({}) /\ DOMAIN answers' = {} /\ pending' = NoIssue
  BY DEF FreshCheckpoint
<1>2. QED
  BY <1>1 DEF Questions, QuestionIsOpen, IsHistory

\* Every step keeps the questions asked once.
LEMMA QuestionsStep == ASSUME Core, Questions, [Next]_vars PROVE Questions'
<1>1. CASE ExecuteRecovery /\ ~ Raises
  BY <1>1, QuestionsRequest, QuestionsRecovery
<1>2. CASE Raises
  BY <1>2, QuestionsOther DEF Raises, Fails, catalog
<1>3. CASE Publish
  BY <1>2, <1>3, QuestionsOther DEF Publish, Published, Fails, catalog
<1>4. CASE GraphStep
  BY <1>1, <1>2, <1>3, <1>4, QuestionsOther
     DEF GraphStep, DecideNode, TransitionGuard, Extract, Normalize, BuildProfile, ValidateNode,
         Interrupt, Terminal, PermanentFailure, ApplyExtraction, ApplyNormalization, ApplyProfile,
         ApplyValidation, catalog
<1>5. CASE Answer
  BY <1>5, QuestionsAnswering DEF Answer, AnswerLevel, AnswerSkill
<1>6. QED
  BY <1>4, <1>5, QuestionsFresh, QuestionsOther
     DEF Next, vars, Start, RefuseAnswer, Crash, CrashAfterCreate, catalog

\* An open question is never one that was answered before: its answer would be
\* refused, and the request could not go on.
THEOREM QuestionIsOpenHolds == Spec => []QuestionIsOpen
<1>1. Init => Core /\ Questions
  <2> SUFFICES ASSUME Init PROVE Core /\ Questions
    OBVIOUS
  <2>1. answers \in Seq({}) /\ DOMAIN answers = {} /\ pending = NoIssue
    BY DEF Init
  <2>2. QED
    BY <2>1, CoreInit DEF Questions, QuestionIsOpen, IsHistory
<1>2. Core /\ Questions /\ [Next]_vars => (Core /\ Questions)'
  BY CoreStep, QuestionsStep
<1>3. Questions => QuestionIsOpen
  BY DEF Questions
<1>4. QED
  BY <1>1, <1>2, <1>3, PTL DEF Spec
====
