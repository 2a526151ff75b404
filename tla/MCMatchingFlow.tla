--------------------------- MODULE MCMatchingFlow ---------------------------
(* One student's level in one skill, and the matching that works with such   *)
(* levels: three students and two projects, five inputs to the matching flow *)
(* that can be matched and five that cannot be loaded.  part tells which.    *)
EXTENDS SkillRows, MatchingFlow

VARIABLE part

Skill(id, level) == [id |-> id, level |-> level]
Requirement(id, level, type, importance) ==
    [id |-> id, level |-> level, type |-> type, legacy |-> None, importance |-> importance]
Legacy(id, level, word) ==
    [id |-> id, level |-> level, type |-> None, legacy |-> word, importance |-> 0]
Student(id, skills) == [id |-> id, skills |-> skills]
Project(id, min, max, requirements) ==
    [id |-> id, min |-> min, max |-> max, requirements |-> requirements]
File(records) == [readable |-> TRUE, records |-> records]
Node(id, parent) == [id |-> id, parent |-> parent]
Entry(id, category, folded) == [id |-> id, category |-> category, folded |-> folded]
Nodes(records) == [readable |-> TRUE, shape |-> "nodes", records |-> records]
Skills(records) == [readable |-> TRUE, shape |-> "skills", records |-> records]

\* root - language - {python, java}; sql stands alone
Tree == <<Node("root", None), Node("language", "root"), Node("python", "language"),
          Node("java", "language"), Node("sql", None)>>
Loop == [Tree EXCEPT ![2].parent = "java"]
Catalog == <<Entry("python", "Languages", "languages"), Entry("java", "Languages", "languages"),
             Entry("sql", "Data", "data")>>

Python3 == Requirement("python", 3, "hard_requirement", 1)
Java4 == Requirement("java", 4, "learning_opportunity", 2)
Java2 == Requirement("java", 2, "hard_requirement", 1)
Sql2 == Legacy("sql", 2, "hard")

Config == [population_size |-> 2, max_generations |-> 3, elite_count |-> 1, tournament_size |-> 2,
           target_score |-> 9000, patience |-> 1, mutates |-> TRUE]

S1 == Student("s1", <<Skill("python", 3), Skill("sql", 1)>>)
S2 == Student("s2", <<Skill("java", 2)>>)
S3 == Student("s3", <<Skill("sql", 2), Skill("java", 3)>>)
P1 == Project("p1", 2, 2, <<Python3, Java4>>)
P2 == Project("p2", 1, 2, <<Sql2>>)

Base == [students |-> <<File(<<S1, S2>>), File(<<S3>>)>>, projects |-> <<File(<<P1, P2>>)>>,
         taxonomy |-> Nodes(Tree), minimum_lca_depth |-> 1, allow_unassigned |-> TRUE,
         config |-> Config]

MCSources ==
    { Base,
      [Base EXCEPT !.projects = <<File(<<[P1 EXCEPT !.min = 1, !.max = 1, !.requirements = <<Java2>>],
                                         P2>>)>>,
                   !.config.tournament_size = 1, !.config.population_size = 3,
                   !.config.max_generations = 2, !.config.mutates = FALSE],
      [Base EXCEPT !.projects = <<File(<<[P1 EXCEPT !.max = 1, !.min = 1, !.requirements = <<Python3>>],
                                         [P2 EXCEPT !.min = 2, !.requirements = <<Java4, Sql2>>]>>)>>,
                   !.config.elite_count = 0, !.config.patience = 0],
      [Base EXCEPT !.allow_unassigned = FALSE, !.minimum_lca_depth = 2,
                   !.taxonomy = Skills(Catalog)],
      [Base EXCEPT !.taxonomy = Nodes(Loop)],
      \* refused: the same student twice, a file that cannot be read, sizes the
      \* wrong way round, two categories that differ only in case, no elite left to breed
      [Base EXCEPT !.students = <<File(<<S1>>), File(<<S2, S1>>)>>],
      [Base EXCEPT !.students[2].readable = FALSE],
      [Base EXCEPT !.projects = <<File(<<[P1 EXCEPT !.min = 3], P2>>)>>],
      [Base EXCEPT !.taxonomy = Skills(Append(Catalog, Entry("r", "data", "data")))],
      [Base EXCEPT !.config.elite_count = 2] }

-----------------------------------------------------------------------------
\* Only a matching has more than one initial state.
MCInit == /\ part \in {"rows", "matching"}
          /\ part = "matching" \/ source = Base
          /\ Init /\ FlowInit

MCNext == /\ UNCHANGED part
          /\ \/ part = "rows" /\ Next /\ UNCHANGED flowVars
             \/ part = "matching" /\ FlowNext /\ UNCHANGED vars

MCSpec == MCInit /\ [][MCNext]_<<part, vars, flowVars>>
=============================================================================
