--------------------------- MODULE CatalogRecovery --------------------------
(***************************************************************************)
(* How a recovery finds the requirement it is meant for.  The validator     *)
(* names an issue by a field path, a place in the profile's lists; the      *)
(* policy puts that path into a request (agent/decision.py), the request    *)
(* reads the places back from it (catalog/contracts/recovery.py), and the   *)
(* executor goes through them to a requirement of the extraction            *)
(* (actions/executor.py).                                                   *)
(***************************************************************************)
EXTENDS CatalogPolicy

CONSTANTS Extractions, Mappings   \* what the models may answer

ASSUME AnswersAssumption == Extractions \subseteq Seq(Requirement) /\ Mappings \subseteq Mapping

VARIABLES extraction, normalization,
          recovery, \* RecoveryActionRequest
          result    \* RecoveryActionResult
recoveryVars == <<extraction, normalization, recovery, result>>

None == <<>>
profile == Build(extraction, normalization)

\* ValidationIssue.resolvable_by
Permitted(code) ==
    ResolvableBy(code) \cup
    (IF code \in {"EVIDENCE_NOT_VERBATIM", "PROVENANCE_EVIDENCE_NOT_VERBATIM"}
     THEN {"rebuild_profile"} ELSE {})

-----------------------------------------------------------------------------
(* The request, from the issue alone                                       *)

Unresolving == {"UNMAPPED_REQUIREMENT", "NEEDS_REVIEW_REQUIREMENT"}

\* reconcile_field_path_indexes: an index is a set of at most one place.
Request(issue, action) ==
    [action |-> action, issue |-> issue,
     unresolved |-> IF issue.code \in Unresolving THEN {issue.at} ELSE {},
     requirement |-> IF issue.code \in Unresolving \cup {"NO_RESOLVED_REQUIREMENTS"}
                     THEN {} ELSE {issue.at},
     provenance |-> IF issue.code = "PROVENANCE_EVIDENCE_NOT_VERBATIM"
                    THEN {issue.sub} ELSE {}]

-----------------------------------------------------------------------------
(* The requirement it stands for                                           *)

\* Fault: a place in the list of unresolved requirements is taken for a place in
\* the extraction.
Targets_Direct(r) ==
    IF r.unresolved # {}
    THEN {i \in DOMAIN extraction : i - 1 \in r.unresolved}
    ELSE LET at == IF r.provenance = {} THEN {0} ELSE r.provenance
             owners == {q \in profile.requirements : q.at \in r.requirement}
         IN  UNION {{i \in q.sources : Place(i, q.sources) \in at} : q \in owners}

\* _target_source_index, as a set of at most one source: the entry's own, or the
\* one of the requirement's provenance, the first unless the path names another.
Targets(r) ==
    IF r.unresolved # {}
    THEN {u.source : u \in {v \in profile.unresolved : v.at \in r.unresolved}}
    ELSE LET at == IF r.provenance = {} THEN {0} ELSE r.provenance
             owners == {q \in profile.requirements : q.at \in r.requirement}
         IN  UNION {{i \in q.sources : Place(i, q.sources) \in at} : q \in owners}

\* A path without an index is a target for those that allow_all.
Whole(r) == r.unresolved = {} /\ r.requirement = {}
Aimed(r, allowAll) == Targets(r) # {} \/ (allowAll /\ Whole(r))

-----------------------------------------------------------------------------
(* The result                                                              *)

Result(status, artifacts) ==
    [status |-> status, artifacts |-> artifacts, targets |-> Targets(recovery)]

\* validate_status_shape: anything else is not a result at all.
WellShaped(res) ==
    /\ res.status = "succeeded" <=> res.artifacts \cap {"extraction", "normalization"} # {}
    /\ res.status = "awaiting_input" <=> "question" \in res.artifacts
    /\ res.status = "escalated" <=> "escalation" \in res.artifacts

Returns(res) == result' = IF WellShaped(res) THEN res ELSE [res EXCEPT !.status = "raised"]

\* _failed
Refused == Returns(Result("refused", {})) /\ UNCHANGED <<extraction, normalization>>

\* _rebuild_profile: from the artifacts the profile was built from.
Rebuild ==
    /\ recovery.action = "rebuild_profile"
    /\ Returns(Result("no_change", {}))
    /\ UNCHANGED <<extraction, normalization>>

\* _reextract_field, with the normalization the graph then makes anew
Reextract ==
    /\ recovery.action = "reextract_field"
    /\ \/ ~Aimed(recovery, TRUE) /\ Refused
       \/ /\ Aimed(recovery, TRUE)
          /\ \E e \in Extractions :
                /\ extraction' = e
                /\ normalization' \in IF e = extraction THEN {normalization}
                                      ELSE [DOMAIN e -> Mappings]
                /\ Returns(IF e = extraction THEN Result("no_change", {})
                           ELSE Result("succeeded", {"extraction"}))
       \/ Returns(Result("failed", {})) /\ UNCHANGED <<extraction, normalization>>

\* _valid_mapping_hints: the policy gives no hints; the mapping has to exist.
HintsValid(r) == Targets(r) # {} /\ Targets(r) \subseteq DOMAIN normalization

\* _lookup_taxonomy, _reconsider_mapping
AimedAtMapping(r) ==
    IF r.action = "lookup_taxonomy"
    THEN Aimed(r, r.issue.code = "NO_RESOLVED_REQUIREMENTS")
    ELSE Aimed(r, FALSE) /\ HintsValid(r)

\* _rerun_normalization: the whole extraction, whatever the target.
Renormalize ==
    /\ recovery.action \in {"lookup_taxonomy", "reconsider_mapping"}
    /\ \/ ~AimedAtMapping(recovery) /\ Refused
       \/ /\ AimedAtMapping(recovery)
          /\ \E n \in [DOMAIN extraction -> Mappings] :
                /\ normalization' = n
                /\ Returns(IF n = normalization THEN Result("no_change", {})
                           ELSE Result("succeeded", {"normalization"}))
          /\ UNCHANGED extraction
       \/ Returns(Result("failed", {})) /\ UNCHANGED <<extraction, normalization>>

\* _build_clarification: which skill, which level, which text.
Askable(r) ==
    CASE r.issue.code = "NEEDS_REVIEW_REQUIREMENT" -> r.unresolved # {} /\ Targets(r) # {}
      [] r.issue.code \in {"MISSING_REQUIRED_LEVEL", "PROVENANCE_EVIDENCE_NOT_VERBATIM"} ->
           r.requirement # {} /\ Targets(r) # {}
      [] OTHER -> FALSE

Ask == /\ recovery.action = "request_clarification"
       /\ IF Askable(recovery) THEN Returns(Result("awaiting_input", {"question"}))
          ELSE Returns(Result("refused", {}))
       /\ UNCHANGED <<extraction, normalization>>

Escalate == /\ recovery.action = "escalate"
            /\ Returns(Result("escalated", {"escalation"}))
            /\ UNCHANGED <<extraction, normalization>>

-----------------------------------------------------------------------------
RecoveryInit == /\ extraction \in Extractions
                /\ normalization \in [DOMAIN extraction -> Mappings]
                /\ recovery = None /\ result = None

\* _recovery_decision: any issue of the current profile, any action it permits.
RequestRecovery ==
    /\ recovery = None
    /\ \E issue \in Validate(profile) : \E action \in Permitted(issue.code) :
          recovery' = Request(issue, action)
    /\ UNCHANGED <<extraction, normalization, result>>

\* execute finds the issue and its action again in the validation result.
Execute ==
    /\ recovery # None /\ result = None
    /\ Rebuild \/ Reextract \/ Renormalize \/ Ask \/ Escalate
    /\ UNCHANGED recovery

\* The profile is built and validated again before the next decision.
Settle ==
    /\ result # None
    /\ recovery' = None /\ result' = None
    /\ UNCHANGED <<extraction, normalization>>

RecoveryNext == RequestRecovery \/ Execute \/ Settle
RecoverySpec == RecoveryInit /\ [][RecoveryNext]_recoveryVars

-----------------------------------------------------------------------------
\* What an issue says of a requirement, without places: its own mapping, or that
\* of the requirements of the same skill.
SameSkill(i) == {j \in DOMAIN extraction : normalization[j] = normalization[i]}
Concerns(issue, i) ==
    CASE issue.code = "UNMAPPED_REQUIREMENT" -> normalization[i].status = "unmapped"
      [] issue.code = "NEEDS_REVIEW_REQUIREMENT" -> normalization[i].status = "needs_review"
      [] issue.code = "INACTIVE_SKILL" -> normalization[i].skill \in Inactive
      [] issue.code = "MISSING_REQUIRED_LEVEL" ->
           /\ normalization[i].status = "resolved"
           /\ \E j \in SameSkill(i) : extraction[j].hard
           /\ \A j \in SameSkill(i) : extraction[j].level = NoLevel
      [] issue.code = "EVIDENCE_NOT_VERBATIM" ->
           \E j \in SameSkill(i) : ~extraction[j].verbatim
      [] issue.code = "PROVENANCE_EVIDENCE_NOT_VERBATIM" -> ~extraction[i].verbatim
      [] OTHER -> FALSE

\* Every request that an issue of the validator leads to is accepted by the
\* executor, and what it is aimed at through two lists of places is a requirement
\* of which the issue is true; two issues of one kind never share a target.
IssueHasItsTarget ==
    /\ result # None => result.status \notin {"refused", "raised"}
    /\ recovery # None /\ result = None =>
         /\ \A i \in Targets(recovery) : Concerns(recovery.issue, i)
         /\ Targets(recovery) = {} => recovery.issue.code = "NO_RESOLVED_REQUIREMENTS"
         /\ \A other \in Validate(profile) \ {recovery.issue} :
               other.code = recovery.issue.code
                 => Targets(Request(other, recovery.action)) \cap Targets(recovery) = {}
=============================================================================
