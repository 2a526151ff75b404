--------------------------- MODULE CatalogProfile ---------------------------
(***************************************************************************)
(* The catalog agent's candidate profile and its validation:               *)
(* src/src/project_catalog_agent/profile/{builder,merge,validator}.py.     *)
(* An extraction is a sequence of requirements, a normalization gives each *)
(* of them, by its place in that sequence, a taxonomy mapping.  Names,     *)
(* texts and confidences are abstracted: confidences are taken equal.      *)
(***************************************************************************)
EXTENDS Integers, Sequences, FiniteSets

CONSTANTS Skills,         \* the taxonomy
          Inactive        \* skills of the taxonomy that are switched off

ASSUME InactiveAssumption == Inactive \subseteq Skills

NoLevel == 0
Levels == 1 .. 3
\* ExtractedRequirement: its level, whether it is a hard requirement, and
\* whether its evidence is verbatim text of the project description.
Requirement == [level : Levels \cup {NoLevel}, hard : BOOLEAN, verbatim : BOOLEAN]
\* TaxonomyMapping
Resolved(s) == [status |-> "resolved", skill |-> s]
Unresolved(st) == [status |-> st, skill |-> "none"]
Mapping == {Resolved(s) : s \in Skills}
             \cup {Unresolved(st) : st \in {"needs_review", "unmapped"}}

-----------------------------------------------------------------------------
(* ProjectProfileBuilder.build                                             *)

Earliest(S) == CHOOSE i \in S : \A j \in S : i <= j
Latest(S) == CHOOSE i \in S : \A j \in S : j <= i

\* The place, from zero, of the group or entry whose first source is i in the
\* profile's list, which is ordered by first source.
Place(i, firsts) == Cardinality({j \in firsts : j < i})

\* merge.dominance_key: a hard requirement first, then the higher level, then
\* the earlier source.
Dominates(e, i, j) ==
    \/ e[i].hard /\ ~e[j].hard
    \/ e[i].hard = e[j].hard /\ e[i].level > e[j].level
    \/ e[i].hard = e[j].hard /\ e[i].level = e[j].level /\ i <= j
Dominant(e, S) == CHOOSE i \in S : \A j \in S : Dominates(e, i, j)

\* _merge_group: the requirements that name one skill become one.
MergeGroup(e, s, S, firsts) ==
    [skill   |-> s,
     at      |-> Place(Earliest(S), firsts),
     sources |-> S,
     hard    |-> \E i \in S : e[i].hard,
     level   |-> Latest({e[i].level : i \in S}),
     verbatim |-> [i \in S |-> e[i].verbatim],
     lead    |-> Dominant(e, S)]

\* build
Build(e, n) ==
    LET Group(s)  == {i \in DOMAIN n : n[i] = Resolved(s)}
        named     == {s \in Skills : Group(s) # {}}
        firsts    == {Earliest(Group(s)) : s \in named}
        open      == {i \in DOMAIN n : n[i].status # "resolved"}
    IN  [requirements |-> {MergeGroup(e, s, Group(s), firsts) : s \in named},
         unresolved   |-> {[source |-> i, at |-> Place(i, open), status |-> n[i].status]
                             : i \in open}]

-----------------------------------------------------------------------------
(* ProjectProfileValidator.validate, blocking issues only                  *)

\* An issue is known by its code and its field: a place in the profile's list
\* of requirements or of unresolved requirements and, for provenance, a second
\* place within the requirement.
Issue(code, at, sub) == [code |-> code, at |-> at, sub |-> sub]

When(holds, issue) == IF holds THEN {issue} ELSE {}

\* _profile_issues
ProfileIssues(p) ==
    When(p.requirements = {}, Issue("NO_RESOLVED_REQUIREMENTS", 0, 0))

\* Fault: a level is asked of optional requirements only.
RequirementIssues_Optional(r) ==
    When(r.skill \in Inactive, Issue("INACTIVE_SKILL", r.at, 0))
      \cup When(~r.hard /\ r.level = NoLevel, Issue("MISSING_REQUIRED_LEVEL", r.at, 0))
      \cup When(~r.verbatim[r.lead], Issue("EVIDENCE_NOT_VERBATIM", r.at, 0))

\* _requirement_issues
RequirementIssues(r) ==
    When(r.skill \in Inactive, Issue("INACTIVE_SKILL", r.at, 0))
      \cup When(r.hard /\ r.level = NoLevel, Issue("MISSING_REQUIRED_LEVEL", r.at, 0))
      \cup When(~r.verbatim[r.lead], Issue("EVIDENCE_NOT_VERBATIM", r.at, 0))

\* _provenance_issues
ProvenanceIssues(r) ==
    {Issue("PROVENANCE_EVIDENCE_NOT_VERBATIM", r.at, Place(i, r.sources)) :
        i \in {j \in r.sources : ~r.verbatim[j]}}

\* _unresolved_issues
UnresolvedIssue(u) ==
    Issue(IF u.status = "unmapped" THEN "UNMAPPED_REQUIREMENT"
                                   ELSE "NEEDS_REVIEW_REQUIREMENT", u.at, 0)

\* validate: the profile is valid when no issue blocks it.
Validate(p) ==
    ProfileIssues(p)
      \cup (UNION {RequirementIssues(r) \cup ProvenanceIssues(r) : r \in p.requirements})
      \cup {UnresolvedIssue(u) : u \in p.unresolved}
=============================================================================
