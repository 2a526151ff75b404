--------------------------- MODULE EvidenceRules ----------------------------
(***************************************************************************)
(* What the evidence agent reads before any model is asked:                *)
(* src/src/evidence_agent/observe.py and verify.py turn the repositories   *)
(* of a GitHub profile into a level, a strength or a weak hint for each    *)
(* skill; claims.py turns the profile agent's names into claims.           *)
(***************************************************************************)
EXTENDS SkillLevels, SequencesExt

CONSTANT SkillOf   \* alias index: a name in a profile -> a skill of the taxonomy, or Unmapped

Unmapped == "unmapped"
MIN_COMMITS_INTERMEDIATE == 5

\* _own_work
OwnWork(r) == ~ r.is_fork /\ r.own_commits /\ r.own_share

\* repo_level: follow-along signs keep a repository at Entry whatever else it shows
RepoLevel(r) ==
    LET entry == r.follow \/ r.commits < MIN_COMMITS_INTERMEDIATE \/ r.independent < 2
        advanced == r.others_depend \/ (r.judged >= 3 /\ r.sustained)
    IN CASE entry -> 1
         [] ~ entry /\ ~ advanced -> 2
         [] ~ entry /\ advanced -> 3

\* observe: repositories that show skill k, and those that only name it
Shown(repos, k) == {r \in repos : r.signals[k] = "hard" /\ OwnWork(r)}
Named(repos, k) == {r \in repos : r.signals[k] # "none"} \ Shown(repos, k)

\* Fault: a skill named in more than it is shown is not judged at all.
ObservedLevel_Majority(repos, k) ==
    IF Cardinality(Named(repos, k)) > Cardinality(Shown(repos, k)) THEN Nothing
    ELSE Max({RepoLevel(r) : r \in Shown(repos, k)} \cup {Nothing})

ObservedLevel(repos, k) == Max({RepoLevel(r) : r \in Shown(repos, k)} \cup {Nothing})
WeakOnly(repos, k) == Shown(repos, k) = {} /\ Named(repos, k) # {}

\* observe, judge: none 0, weak 1, moderate 2, strong 3
Strength(repos, k) ==
    LET solid == Cardinality({r \in Shown(repos, k) : RepoLevel(r) >= 2})
    IN CASE Shown(repos, k) = {} -> IF WeakOnly(repos, k) THEN 1 ELSE 0
         [] Shown(repos, k) # {} /\ (solid >= 2 \/ ObservedLevel(repos, k) = 3) -> 3
         [] OTHER -> IF solid = 1 \/ Cardinality(Shown(repos, k)) >= 2 THEN 2 ELSE 1

\* from_profile_payload: two spellings of one skill keep the higher claim; a
\* name outside the taxonomy is never verified
ClaimedSkills(payload) == {SkillOf[p.name] : p \in ToSet(payload)} \ {Unmapped}
\* Fault: the lower claim is kept.
Claims_Lower(payload) == [k \in ClaimedSkills(payload) |->
                             Min({p.level : p \in {p \in ToSet(payload) : SkillOf[p.name] = k}})]

Claims(payload) == [k \in ClaimedSkills(payload) |->
                       Max({p.level : p \in {p \in ToSet(payload) : SkillOf[p.name] = k}})]

\* verify: what the rules read for the claimed skills
RuleReading(repos, claims) ==
    [k \in DOMAIN claims |-> [observed |-> ObservedLevel(repos, k), weak |-> WeakOnly(repos, k)]]
=============================================================================
