---------------------------- MODULE EvidenceAgent ---------------------------
(***************************************************************************)
(* One call of the evidence agent: src/src/evidence_agent/                 *)
(* evidence_graph.py, load_inputs -> assess_rules -> verify_with_llm ->    *)
(* reconcile.  A profile's claims meet the repositories of a GitHub        *)
(* profile; the rules read a level for every claimed skill; a language     *)
(* model behind a gateway may move the levels the rules could not settle.  *)
(* The gateway may fail, for a while or for good, and the model may        *)
(* answer anything; an unusable answer is asked for again.                 *)
(***************************************************************************)
EXTENDS EvidenceRules

CONSTANTS TaxonomySkills, \* skills of the taxonomy
          Repositories,   \* sets of repositories a GitHub profile may have
          Payloads,       \* named claims a profile may make
          MaxAttempts,    \* _invoke: attempts per prompt
          MaxRounds       \* _ask_model: answers read before giving up

\* A GitHub profile lists its repositories; a claim is at one of three levels
\* (SkillClaim).
ASSUME EvidenceAssumption ==
    /\ \A r \in Repositories : IsFiniteSet(r)
    /\ \A p \in Payloads : \A c \in ToSet(p) : c.level \in Level

VARIABLES repos,   \* the repositories of the GitHub profile
          payload, \* the names and levels the profile claims
          claim,   \* the claimed level of each claimed skill
          rule,    \* what the rules read: level, and weak signals
          pc,      \* node of the graph, or step of verify_with_llm
          attempt, \* attempts at the current prompt
          round,   \* answers that failed validation
          verdict, \* the model's verdicts, for the skills it judged
          report   \* observed level, status and method per skill, once done

evidenceVars == <<repos, payload, claim, rule, pc, attempt, round, verdict, report>>

Verdict == [level : Observed, cited : BOOLEAN]
Partial(S) == UNION {[K -> S] : K \in SUBSET DOMAIN claim}

EvidenceInit == /\ repos \in Repositories
                /\ payload \in Payloads
                /\ claim = <<>> /\ rule = <<>>
                /\ pc = "load"
                /\ attempt = 0 /\ round = 0
                /\ verdict = <<>>
                /\ report = <<>>

inputs == <<repos, payload, claim, rule>>

SettledSkill(k) == Settled(claim[k], rule[k].observed, rule[k].weak)

ToJudge == {k \in DOMAIN claim : ~ SettledSkill(k)}

-----------------------------------------------------------------------------
\* load_inputs: an empty id, or a profile or GitHub profile that is missing or
\* another applicant's, is refused.
Load == /\ pc = "load"
        /\ \/ pc' = "assess" /\ claim' = Claims(payload)
           \/ pc' = "refused" /\ UNCHANGED claim
        /\ UNCHANGED <<repos, payload, rule, attempt, round, verdict, report>>

\* assess_rules
Assess == /\ pc = "assess"
          /\ rule' = RuleReading(repos, claim)
          /\ pc' = "verify"
          /\ UNCHANGED <<repos, payload, claim, attempt, round, verdict, report>>

\* verify_with_llm: nothing to judge, the model disabled, or no gateway
\* configured means rules only.
Verify == /\ pc = "verify"
          /\ \/ pc' = "reconcile"
             \/ ToJudge # {} /\ pc' = "invoke"
          /\ UNCHANGED <<inputs, attempt, round, verdict, report>>

\* _invoke: an answer; a transient failure, tried again; or a failure (also
\* the last transient one) that ends the model's part.
Invoke ==
    /\ pc = "invoke"
    /\ \/ pc' = "read" /\ attempt' = 0
       \/ attempt + 1 < MaxAttempts /\ pc' = "invoke" /\ attempt' = attempt + 1
       \/ pc' = "reconcile" /\ attempt' = 0
    /\ UNCHANGED <<inputs, round, verdict, report>>

\* _ask_model: an answer is valid, or the model is asked to correct it, or
\* there were too many.
Read ==
    /\ pc = "read"
    /\ \/ /\ verdict' \in Partial(Verdict)
          /\ pc' = "reconcile"
          /\ UNCHANGED round
       \/ /\ round' = round + 1
          /\ pc' = IF round' = MaxRounds THEN "reconcile" ELSE "invoke"
          /\ UNCHANGED verdict
    /\ UNCHANGED <<inputs, attempt, report>>

ByRules(k) == [observed |-> rule[k].observed,
               status |-> Status(claim[k], rule[k].observed), method |-> "rules"]

\* _accept, or the reason it is not: the rules stand
ByModel(k) ==
    LET v     == verdict[k]
        level == Accepted(rule[k].observed, v.level, v.cited)
    IN  IF v.level # Nothing /\ ~ v.cited THEN ByRules(k)
        ELSE [observed |-> level, status |-> Status(claim[k], level), method |-> "llm"]

\* reconcile
Reconcile == /\ pc = "reconcile"
             /\ report' = [k \in DOMAIN claim |->
                             IF SettledSkill(k) \/ k \notin DOMAIN verdict
                             THEN ByRules(k) ELSE ByModel(k)]
             /\ pc' = "done"
             /\ UNCHANGED <<inputs, attempt, round, verdict>>

EvidenceNext == Load \/ Assess \/ Verify \/ Invoke \/ Read \/ Reconcile

EvidenceSpec == EvidenceInit /\ [][EvidenceNext]_evidenceVars

-----------------------------------------------------------------------------
(* Properties *)

\* The report says of every claim, in whatever spelling, and of nothing else
\* (from_profile_payload, judge): an observation supports the highest level
\* that was claimed for the skill, or the skill is not verified.
EveryClaimIsJudged ==
    pc = "done" => /\ DOMAIN report = ClaimedSkills(payload)
                   /\ \A p \in ToSet(payload) : SkillOf[p.name] # Unmapped =>
                         LET v == report[SkillOf[p.name]]
                         IN v.status = "verified" => v.observed >= p.level

\* "Absence is not evidence against the claim", and more work never is: a
\* profile with fewer repositories reads no skill higher or stronger (observe).
EvidenceNeverHurts ==
    \A some \in SUBSET repos, k \in TaxonomySkills :
        /\ ObservedLevel(some, k) <= ObservedLevel(repos, k)
        /\ Strength(some, k) <= Strength(repos, k)
=============================================================================
