---------------------------- MODULE CatalogPolicy ---------------------------
(***************************************************************************)
(* Which recovery the catalog agent tries next:                            *)
(* src/src/project_catalog_agent/agent/decision.py.  The issues are those  *)
(* the agent's own builder and normalizer can give rise to; the others, and*)
(* with them rebuild_profile, need a defective builder.                    *)
(***************************************************************************)
EXTENDS CatalogProfile

CONSTANT MaxTotal         \* max_total_recovery_attempts

ASSUME MaxTotalAssumption == MaxTotal \in Nat

Actions == {"reextract_field", "lookup_taxonomy", "reconsider_mapping",
            "request_clarification", "escalate"}
Results == {"succeeded", "no_change", "failed", "awaiting_input", "escalated"}

ExtractionIssues == {"MISSING_REQUIRED_LEVEL", "EVIDENCE_NOT_VERBATIM",
                     "PROVENANCE_EVIDENCE_NOT_VERBATIM"}
Codes == ExtractionIssues \cup
    {"NO_RESOLVED_REQUIREMENTS", "INACTIVE_SKILL", "UNMAPPED_REQUIREMENT",
     "NEEDS_REVIEW_REQUIREMENT"}

-----------------------------------------------------------------------------
(* The issue to work on: the first of the most urgent.                     *)

Priority(code) ==
    CASE code = "INACTIVE_SKILL"                                       -> 2
      [] code \in ExtractionIssues \cup {"NO_RESOLVED_REQUIREMENTS"}   -> 3
      [] code \in {"UNMAPPED_REQUIREMENT", "NEEDS_REVIEW_REQUIREMENT"} -> 4

\* The order in which validate lists them: profile, requirements in turn,
\* provenance, unresolved requirements in turn.
Listed(issue) ==
    CASE issue.code = "NO_RESOLVED_REQUIREMENTS"         -> <<1, 0, 0>>
      [] issue.code = "INACTIVE_SKILL"                   -> <<2, issue.at, 1>>
      [] issue.code = "MISSING_REQUIRED_LEVEL"           -> <<2, issue.at, 2>>
      [] issue.code = "EVIDENCE_NOT_VERBATIM"            -> <<2, issue.at, 3>>
      [] issue.code = "PROVENANCE_EVIDENCE_NOT_VERBATIM" -> <<3, issue.at, issue.sub>>
      [] OTHER                                           -> <<4, issue.at, 0>>

SortKey(issue) == LET l == Listed(issue) IN <<Priority(issue.code), l[1], l[2], l[3]>>

\* a is not after b
NotAfter(a, b) ==
    LET x == SortKey(a)
        y == SortKey(b)
    IN  x = y \/ \E k \in 1 .. 4 : x[k] < y[k] /\ \A j \in 1 .. k - 1 : x[j] = y[j]

Selected(issues) == CHOOSE a \in issues : \A b \in issues : NotAfter(a, b)

-----------------------------------------------------------------------------
(* The recovery to try for it.                                             *)

\* ValidationIssue.resolvable_by, without rebuild_profile
ResolvableBy(code) ==
    CASE code = "NO_RESOLVED_REQUIREMENTS" -> {"reextract_field", "lookup_taxonomy", "escalate"}
      [] code = "INACTIVE_SKILL"           -> {"lookup_taxonomy", "reconsider_mapping"}
      [] code = "MISSING_REQUIRED_LEVEL"   -> {"reextract_field", "request_clarification"}
      [] code \in {"EVIDENCE_NOT_VERBATIM", "PROVENANCE_EVIDENCE_NOT_VERBATIM"}
                                           -> {"reextract_field"}
      [] code = "UNMAPPED_REQUIREMENT"     -> {"lookup_taxonomy", "reextract_field", "escalate"}
      [] code = "NEEDS_REVIEW_REQUIREMENT" -> {"reconsider_mapping", "request_clarification",
                                               "escalate"}

\* _preferences; escalate always comes last and is left to EscalateOrStop.
Preferences(code) ==
    CASE code = "NO_RESOLVED_REQUIREMENTS" ->
             <<"reextract_field", "lookup_taxonomy", "request_clarification">>
      [] code \in ExtractionIssues -> <<"reextract_field", "request_clarification">>
      [] code \in {"INACTIVE_SKILL", "UNMAPPED_REQUIREMENT"} ->
             <<"lookup_taxonomy", "reconsider_mapping", "request_clarification">>
      [] code = "NEEDS_REVIEW_REQUIREMENT" ->
             <<"reconsider_mapping", "request_clarification">>

\* CatalogDecisionPolicyConfig's defaults
Limit(action) == IF action = "reextract_field" THEN 2 ELSE 1

\* _issue_action_history: the places in the history h of one action on one
\* issue.  Two issues are the same when their code and field are.
Attempts(h, issue, action) ==
    {k \in DOMAIN h : h[k].issue = issue /\ h[k].action = action}

\* _safe_target: only a re-extraction or a lookup may aim at the whole list.
SafeTarget(issue, action) ==
    issue.code = "NO_RESOLVED_REQUIREMENTS"
        => action \in {"reextract_field", "lookup_taxonomy"}

\* Fault: the total is not looked at.
Usable_NoTotal(h, issue, action) ==
    LET tried == Attempts(h, issue, action) IN
    /\ action \in ResolvableBy(issue.code)
    /\ tried # {} => /\ action # "request_clarification"
                     /\ h[Latest(tried)].status # "no_change"
    /\ Cardinality(tried) < Limit(action)
    /\ SafeTarget(issue, action)

\* Fault: a question may be asked again, like any other recovery.
Usable_AskAgain(h, issue, action) ==
    LET tried == Attempts(h, issue, action) IN
    /\ Len(h) < MaxTotal
    /\ action \in ResolvableBy(issue.code)
    /\ tried # {} => h[Latest(tried)].status # "no_change"
    /\ Cardinality(tried) < 2
    /\ SafeTarget(issue, action)

\* The body of _decide_recovery's loop, under its test of the total.
Usable(h, issue, action) ==
    LET tried == Attempts(h, issue, action) IN
    /\ Len(h) < MaxTotal
    /\ action \in ResolvableBy(issue.code)
    /\ tried # {} => /\ action # "request_clarification"
                     /\ h[Latest(tried)].status # "no_change"
    /\ Cardinality(tried) < Limit(action)
    /\ SafeTarget(issue, action)

Decision(type, action, issue) == [type |-> type, action |-> action, issue |-> issue]
NoIssue == Issue("none", 0, 0)
Simple(type) == Decision(type, "none", NoIssue)

\* _escalate_or_stop
EscalateOrStop(h, issue) ==
    IF "escalate" \in ResolvableBy(issue.code) /\ Attempts(h, issue, "escalate") = {}
    THEN Decision("execute_recovery", "escalate", issue)
    ELSE Decision("permanent_failure", "none", issue)

\* _decide_recovery: the first usable action in order of preference.
DecideRecovery(h, issue) ==
    LET prefer == Preferences(issue.code)
        usable == {k \in DOMAIN prefer : Usable(h, issue, prefer[k])}
    IN  IF usable = {} THEN EscalateOrStop(h, issue)
        ELSE Decision("execute_recovery", prefer[Earliest(usable)], issue)
=============================================================================
