--------------------------- MODULE MatchingEngine ---------------------------
(***************************************************************************)
(* The arithmetic of the matching engine, src/src/matching/: which         *)
(* projects are candidates for a student (taxonomy.py, pruning.py), what   *)
(* an assignment is worth (scoring.py) and how a proposal is repaired into *)
(* a feasible one (repair.py).  A context c holds the loaded input, None   *)
(* is also the project of an unassigned student;                           *)
(* students and projects are their positions in it.  Scores are in         *)
(* hundredths of a percent, rounded down.                                  *)
(***************************************************************************)
EXTENDS MatchingInput

Students(c) == DOMAIN c.students
Projects(c) == DOMAIN c.projects
Assignments(c) == [Students(c) -> Projects(c) \cup {None}]

\* What steps 1 to n, each a function, make of x one after the other
Iterate(n, step, x) == LET f[i \in 0 .. n] == IF i = 0 THEN x ELSE step[i][f[i - 1]] IN f[n]

-----------------------------------------------------------------------------
(* Taxonomy *)

\* get_ancestor_path, from a known skill to its root; one skill too long on a cycle
AncestorPath(c, k) ==
    FoldLeft(LAMBDA path, i : IF c.parent[Last(path)] = None THEN path
                              ELSE Append(path, c.parent[Last(path)]),
             <<k>>, [i \in 1 .. Cardinality(DOMAIN c.parent) |-> i])

Cyclic(c, k) == k \in DOMAIN c.parent /\ Len(AncestorPath(c, k)) > Cardinality(DOMAIN c.parent)

\* find_lowest_common_ancestor, get_lca_depth: -1 when there is none
LcaDepth(c, j, k) ==
    LET path == AncestorPath(c, j)
        common == {i \in DOMAIN path : path[i] \in ToSet(AncestorPath(c, k))}
    IN IF common = {} THEN -1 ELSE Len(path) - Min(common)

\* are_taxonomically_related of two skills, as its callers see it: a skill the
\* taxonomy does not know is unrelated, a cycle is an error nobody catches.
Relation(c, j, k) ==
    LET known == {j, k} \subseteq DOMAIN c.parent
        error == Cyclic(c, j) \/ (known /\ Cyclic(c, k))
    IN CASE error -> "error"
         [] known /\ ~ error -> IF LcaDepth(c, j, k) >= c.minimum_lca_depth THEN "yes" ELSE "no"
         [] ~ known /\ ~ error -> "no"

-----------------------------------------------------------------------------
(* Candidates *)

\* is_candidate_project: an exact match first, then the pairs in order
Candidate(c, s, p) ==
    LET skills == c.students[s].skills
        reqs == c.projects[p].requirements
        exact == \E i \in DOMAIN skills, j \in DOMAIN reqs : skills[i].id = reqs[j].id
        pairs == FlattenSeq([i \in DOMAIN skills |->
                     [j \in DOMAIN reqs |-> <<skills[i].id, reqs[j].id>>]])
    IN IF reqs # <<>> /\ exact THEN "yes"
       ELSE FoldLeft(LAMBDA v, pair : IF v = "no" THEN Relation(c, pair[1], pair[2]) ELSE v,
                     "no", pairs)

\* build_candidate_options for one student; their order is that of the positions
Options(c, s) == (IF c.allow_unassigned THEN {None} ELSE {})
                 \cup {p \in Projects(c) : Candidate(c, s, p) = "yes"}

-----------------------------------------------------------------------------
(* Scores *)

Full == 10000
Best(S) == Max(S \cup {0})
Total(f) == FoldFunction(LAMBDA x, y : x + y, 0, f)
MeanOf(f) == IF DOMAIN f = {} THEN 0 ELSE Total(f) \div Cardinality(DOMAIN f)

\* skill_similarity, in tenths
Similarity(c, j, k) == IF j = k THEN 10 ELSE IF Relation(c, j, k) = "yes" THEN 7 ELSE 0

\* student_requirement_fit, level_alignment
RequirementFit(c, s, r) ==
    Best({ LET aligned == IF r.level = 0 THEN Full ELSE Min({Full, (Full * k.level) \div r.level})
           IN (aligned * Similarity(c, k.id, r.id)) \div 10 : k \in ToSet(c.students[s].skills) })

\* The mean of what each requirement gets, weighted by importance
Weighted(reqs, gets) ==
    Total([i \in DOMAIN reqs |-> gets[i] * reqs[i].importance])
    \div Total([i \in DOMAIN reqs |-> reqs[i].importance])

\* student_project_fit
ProjectFit(c, s, p) ==
    LET reqs == c.projects[p].requirements
    IN IF reqs = <<>> THEN Full
       ELSE Weighted(reqs, [i \in DOMAIN reqs |-> RequirementFit(c, s, reqs[i])])

Unassigned(a) == {s \in DOMAIN a : a[s] = None}
Assigned(a) == DOMAIN a \ Unassigned(a)

\* assigned_student_score
AssignedStudentScore(c, a) == MeanOf([s \in Assigned(a) |-> ProjectFit(c, s, a[s])])

\* student_growth_opportunity_score: one level short is the best opportunity
GrowthOpportunity(c, s, r) ==
    Best({ LET gap == r.level - k.level
           IN IF gap \in 1 .. 4 THEN ((5 - gap) * (Full \div 4) * Similarity(c, k.id, r.id)) \div 10
              ELSE 0 : k \in ToSet(c.students[s].skills) })

\* growth_score: over every placed student and learning opportunity
GrowthScore(c, a) ==
    LET req(x) == c.projects[a[x[1]]].requirements[x[2]]
        pairs == {x \in UNION {{s} \X DOMAIN c.projects[a[s]].requirements : s \in Assigned(a)} :
                      req(x).type = "learning_opportunity"}
    IN CASE Assigned(a) = {}                -> 0
         [] Assigned(a) # {} /\ pairs = {}  -> Full
         [] OTHER -> Total([x \in pairs |-> GrowthOpportunity(c, x[1], req(x)) * req(x).importance])
                     \div Total([x \in pairs |-> req(x).importance])

Team(a, p) == {s \in DOMAIN a : a[s] = p}

\* team_coverage_score
TeamCoverageScore(c, a) ==
    MeanOf([p \in Projects(c) |->
        LET reqs == c.projects[p].requirements
        IN IF reqs = <<>> THEN Full
           ELSE Weighted(reqs, [i \in DOMAIN reqs |->
                                   Best({RequirementFit(c, s, reqs[i]) : s \in Team(a, p)})])])

\* utilization_score
UtilizationScore(c, a) == (Full * Cardinality(Assigned(a))) \div Len(c.students)

\* calculate_fitness
Fitness(c, a) == (40 * AssignedStudentScore(c, a) + 25 * GrowthScore(c, a)
                  + 25 * TeamCoverageScore(c, a) + 10 * UtilizationScore(c, a)) \div 100

-----------------------------------------------------------------------------
(* Repair *)

\* student_meets_requirement
Meets(c, s, r) == \E k \in ToSet(c.students[s].skills) : k.id = r.id /\ k.level >= r.level

\* hard_requirements_covered
HardRequirementsCovered(c, team, p) ==
    \A r \in ToSet(c.projects[p].requirements) :
        r.type = "hard_requirement" => \E s \in team : Meets(c, s, r)

Size(a, p) == Cardinality(Team(a, p))

\* Phase 1: unknown genes become unassigned.
Normalized(opts, a) == [s \in DOMAIN a |-> IF a[s] \in opts[s] THEN a[s] ELSE None]

\* Phase 2: a team that is too large keeps a random sample.
Trimmed(c, a) ==
    LET kept(p) == IF Size(a, p) <= c.projects[p].max THEN {Team(a, p)}
                   ELSE kSubset(c.projects[p].max, Team(a, p))
    IN {[s \in DOMAIN a |-> IF s \in UNION Range(K) THEN a[s] ELSE None] :
            K \in {K \in [Projects(c) -> SUBSET DOMAIN a] : \A p \in Projects(c) : K[p] \in kept(p)}}

Free(opts, a, p) == {s \in Unassigned(a) : p \in opts[s]}

\* Phase 3, one project: the first free student for each hard requirement open
Recruit(c, opts, p) ==
    LET reqs == c.projects[p].requirements
        able(b, r) == {s \in Free(opts, b, p) : Meets(c, s, r)}
    IN [a \in Assignments(c) |->
           IF Team(a, p) = {} THEN a
           ELSE Iterate(Len(reqs),
                        [j \in DOMAIN reqs |-> [b \in Assignments(c) |->
                            IF \/ reqs[j].type # "hard_requirement"
                               \/ \E s \in Team(b, p) : Meets(c, s, reqs[j])
                               \/ Size(b, p) >= c.projects[p].max
                               \/ able(b, reqs[j]) = {}
                            THEN b ELSE [b EXCEPT ![Min(able(b, reqs[j]))] = p]]],
                        a)]

\* Phase 4, one project: free students in order up to the minimum
FillMinimum(c, opts, p) ==
    [a \in Assignments(c) |->
        Iterate(Len(c.students),
                [s \in Students(c) |-> [b \in Assignments(c) |->
                    IF s \in Free(opts, b, p) /\ Team(b, p) # {} /\ Size(b, p) < c.projects[p].min
                    THEN [b EXCEPT ![s] = p] ELSE b]],
                a)]

\* Fault: only the size is looked at.
Deactivated_SizeOnly(c, a) ==
    [s \in DOMAIN a |-> IF a[s] # None /\ Size(a, a[s]) >= c.projects[a[s]].min THEN a[s] ELSE None]

\* Phase 5: projects that remain infeasible lose their team.
Deactivated(c, a) ==
    [s \in DOMAIN a |-> IF /\ a[s] # None
                           /\ Size(a, a[s]) >= c.projects[a[s]].min
                           /\ HardRequirementsCovered(c, Team(a, a[s]), a[s])
                        THEN a[s] ELSE None]

Active(a, p) == Team(a, p) # {}

\* Fault: each student is only offered the first of the active projects.
Refilled_FirstOnly(c, opts, a) ==
    LET active(s) == {p \in opts[s] \ {None} : Active(a, p)}
        open(b, s) == {p \in active(s) : p = Min(active(s)) /\ Size(b, p) < c.projects[p].max}
    IN Iterate(Len(c.students),
               [s \in Students(c) |-> [b \in Assignments(c) |->
                   IF b[s] # None \/ open(b, s) = {} THEN b ELSE [b EXCEPT ![s] = Min(open(b, s))]]],
               a)

\* Phase 6: the students left over join the first active project with room.
Refilled(c, opts, a) ==
    LET open(b, s) == {p \in opts[s] \ {None} : Active(a, p) /\ Size(b, p) < c.projects[p].max}
    IN Iterate(Len(c.students),
               [s \in Students(c) |-> [b \in Assignments(c) |->
                   IF b[s] # None \/ open(b, s) = {} THEN b ELSE [b EXCEPT ![s] = Min(open(b, s))]]],
               a)

\* Phases 3 and 4, for one project after the other
Staffed(c, opts, a) ==
    Iterate(Len(c.projects), [p \in Projects(c) |-> FillMinimum(c, opts, p)],
            Iterate(Len(c.projects), [p \in Projects(c) |-> Recruit(c, opts, p)], a))

\* repair_assignment: everything it may return
Repaired(c, opts, a) ==
    {Refilled(c, opts, Deactivated(c, Staffed(c, opts, b))) : b \in Trimmed(c, Normalized(opts, a))}
=============================================================================
