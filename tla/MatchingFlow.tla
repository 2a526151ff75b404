---------------------------- MODULE MatchingFlow ----------------------------
(***************************************************************************)
(* One run of the matching flow, src/scripts/run_matching_flow.py: load    *)
(* and prune the candidates (pruning.py), search with the genetic          *)
(* algorithm (ga.py), validate the result, and save it under the next free *)
(* number (artifacts.py) while other runs save into the same directory.    *)
(* What the random generator draws is a nondeterministic choice.           *)
(***************************************************************************)
EXTENDS MatchingEngine

CONSTANTS Sources,          \* what the files given to the flow may hold
          MaxSaveAttempts,  \* _MAX_SAVE_ATTEMPTS
          MaxOthers         \* bound: artifacts other runs save meanwhile

\* The files hold lists, those of projects with whole numbers as sizes; None is no
\* position in a list.
IsList(records) == records \in Seq(ToSet(records))
IsProject(p) == /\ p = [id |-> p.id, min |-> p.min, max |-> p.max, requirements |-> p.requirements]
                /\ p.min \in Int /\ p.max \in Int /\ IsList(p.requirements)
ASSUME SourcesAssumption ==
    /\ None \notin Nat
    /\ \A src \in Sources :
          /\ IsList(src.students) /\ \A f \in ToSet(src.students) : IsList(f.records)
          /\ IsList(src.projects) /\ \A f \in ToSet(src.projects) : IsList(f.records)
          /\ \A f \in ToSet(src.projects) : \A p \in ToSet(f.records) : IsProject(p)
          /\ src.config.population_size \in Int

VARIABLES source,      \* what the files hold
          ctx,         \* the context of the loaded input, or None
          phase,       \* where the flow is
          options,     \* candidate projects of each student
          population,  \* the generation under evaluation
          offspring,   \* the next one, so far
          generation,
          best,        \* best assignment so far, None before the first generation
          best_score,
          no_improvement_count,
          stop_reason,
          files,       \* the artifact directory: number -> what the file holds
          next_index,
          attempts,
          others       \* artifacts other runs saved

search == <<options, population, offspring, generation, best, best_score, no_improvement_count,
            stop_reason>>
saving == <<files, next_index, attempts, others>>
flowVars == <<source, ctx, phase, search, saving>>

FlowInit == /\ source \in Sources
            /\ ctx = None
            /\ phase = "load"
            /\ options = <<>> /\ population = <<>> /\ offspring = <<>>
            /\ generation = 1
            /\ best = None /\ best_score = -1 /\ no_improvement_count = 0
            /\ stop_reason = None
            /\ files = <<>> /\ next_index = 0 /\ attempts = 0 /\ others = 0

-----------------------------------------------------------------------------
(* optimize_matching, run_genetic_algorithm *)

\* load_matching_input, preprocess_inputs
Load == /\ phase = "load"
        /\ IF InputAccepted(source) THEN ctx' = Context(source) /\ phase' = "prune"
           ELSE phase' = "failed" /\ UNCHANGED ctx
        /\ UNCHANGED <<source, search, saving>>

\* build_candidate_options; a cyclic taxonomy or a student without an option
\* ends the flow.
Prune == LET opts == [s \in Students(ctx) |-> Options(ctx, s)]
             error == \/ \E s \in Students(ctx), p \in Projects(ctx) : Candidate(ctx, s, p) = "error"
                      \/ \E s \in Students(ctx) : opts[s] = {}
         IN /\ phase = "prune"
            /\ phase' = IF error THEN "failed" ELSE "seed"
            /\ options' = IF error THEN options ELSE opts
            /\ UNCHANGED <<source, ctx, population, offspring, generation, best, best_score,
                           no_improvement_count, stop_reason, saving>>

\* create_initial_population, repair_population: one member
SeedMember == /\ phase = "seed"
              /\ \E a \in {a \in Assignments(ctx) : \A s \in DOMAIN a : a[s] \in options[s]} :
                    \E b \in Repaired(ctx, options, a) : population' = Append(population, b)
              /\ phase' = IF Len(population') = ctx.config.population_size THEN "evaluate" ELSE "seed"
              /\ UNCHANGED <<source, ctx, options, offspring, generation, best, best_score,
                             no_improvement_count, stop_reason, saving>>

\* evaluate_population: the positions of the population, best first, ties in order
Ranked == LET score == [i \in DOMAIN population |-> Fitness(ctx, population[i])]
              ahead(r, i) == {k \in DOMAIN r : score[r[k]] >= score[i]}
          IN Iterate(Len(population),
                     [i \in DOMAIN population |-> [r \in Seq(DOMAIN population) |->
                         InsertAt(r, Cardinality(ahead(r, i)) + 1, i)]],
                     <<>>)

\* all_project_positions_filled
AllPositionsFilled(a) == /\ ctx.projects # <<>>
                         /\ \A p \in Projects(ctx) : Size(a, p) = ctx.projects[p].max

\* Which condition ends the search in this generation, in the order of the code
StopReason(a, score, count) ==
    CASE score >= ctx.config.target_score -> "target_score_reached"
      [] score < ctx.config.target_score /\ AllPositionsFilled(a) -> "all_positions_filled"
      [] OTHER -> IF generation > 1 /\ ctx.config.patience \in 1 .. count THEN "no_improvement"
                  ELSE IF generation >= ctx.config.max_generations THEN "max_generations"
                  ELSE None

\* preserve_elites
Elites == [i \in 1 .. ctx.config.elite_count |-> population[Ranked[i]]]

\* The best so far is replaced by a strictly better leader of the generation.
Evaluate == LET leader == population[Ranked[1]]
                score == Fitness(ctx, leader)
            IN /\ phase = "evaluate"
               /\ IF score > best_score
                  THEN best' = leader /\ best_score' = score /\ no_improvement_count' = 0
                  ELSE /\ UNCHANGED <<best, best_score>>
                       /\ no_improvement_count' = IF generation > 1 THEN no_improvement_count + 1
                                                  ELSE no_improvement_count
               /\ stop_reason' = StopReason(best', best_score', no_improvement_count')
               /\ phase' = IF stop_reason' = None THEN "breed" ELSE "validate"
               /\ offspring' = IF stop_reason' = None THEN Elites ELSE <<>>
               /\ UNCHANGED <<source, ctx, options, population, generation, saving>>

\* select_parent: the members a tournament can be won by
Winners == LET score == [i \in DOMAIN population |-> Fitness(ctx, population[i])]
               beaten(i) == {j \in DOMAIN population \ {i} : score[j] <= score[i]}
           IN {population[i] : i \in {i \in DOMAIN population :
                  Cardinality(beaten(i)) >= ctx.config.tournament_size - 1}}

\* crossover, mutate
Children(a, b) == {g \in Assignments(ctx) : \A s \in DOMAIN g :
                      \/ g[s] \in {a[s], b[s]}
                      \/ ctx.config.mutates /\ g[s] \in options[s]}

\* One child of the next generation, repaired
BreedChild == LET next == Len(offspring) + 1 = ctx.config.population_size
              IN /\ phase = "breed"
                 /\ \E g \in UNION {Children(a, b) : a, b \in Winners} :
                       \E child \in Repaired(ctx, options, g) :
                          IF next THEN population' = Append(offspring, child) /\ offspring' = <<>>
                          ELSE offspring' = Append(offspring, child) /\ UNCHANGED population
                 /\ generation' = IF next THEN generation + 1 ELSE generation
                 /\ phase' = IF next THEN "evaluate" ELSE "breed"
                 /\ UNCHANGED <<source, ctx, options, best, best_score, no_improvement_count, stop_reason,
                                saving>>

-----------------------------------------------------------------------------
(* Validation and the artifact *)

TeamFeasible(a, p) == \/ Size(a, p) = 0
                      \/ /\ Size(a, p) \in ctx.projects[p].min .. ctx.projects[p].max
                         /\ HardRequirementsCovered(ctx, Team(a, p), p)

OnlyCandidates(a) == \A s \in DOMAIN a : a[s] = None \/ a[s] \in options[s]

\* _validate_result, what the engine could get wrong
ResultValid(a) == /\ \A p \in Projects(ctx) : TeamFeasible(a, p)
                  /\ OnlyCandidates(a)
                  /\ best_score \in 0 .. Full
                  /\ generation \in 1 .. ctx.config.max_generations

ValidateResult == /\ phase = "validate"
                  /\ phase' = IF ResultValid(best) THEN "scan" ELSE "invalid"
                  /\ UNCHANGED <<source, ctx, search, saving>>

\* The directory with one more file
With(index, content) ==
    [i \in DOMAIN files \cup {index} |-> IF i \in DOMAIN files THEN files[i] ELSE content]

\* get_next_artifact_index
NextArtifactIndex == Max(DOMAIN files \cup {0}) + 1

ScanDirectory == /\ phase = "scan"
                 /\ next_index' = NextArtifactIndex
                 /\ phase' = "create"
                 /\ UNCHANGED <<source, ctx, search, files, attempts, others>>

\* Fault: open for writing, whether or not the file exists.
CreateArtifact_Truncate ==
    /\ phase = "create"
    /\ files' = [i \in DOMAIN files \cup {next_index} |-> IF i = next_index THEN "torn" ELSE files[i]]
    /\ phase' = "write"
    /\ UNCHANGED <<source, ctx, search, next_index, attempts, others>>

\* open("x"): exclusive; when another run took the number, look for a later one
CreateArtifact ==
    /\ phase = "create"
    /\ IF next_index \notin DOMAIN files
       THEN /\ files' = With(next_index, "torn")
            /\ phase' = "write"
            /\ UNCHANGED <<next_index, attempts>>
       ELSE /\ attempts' = attempts + 1
            /\ next_index' = Max({next_index + 1, NextArtifactIndex})
            /\ phase' = IF attempts' = MaxSaveAttempts THEN "failed" ELSE "create"
            /\ UNCHANGED files
    /\ UNCHANGED <<source, ctx, search, others>>

WriteArtifact == /\ phase = "write"
                 /\ files' = [files EXCEPT ![next_index] = "mine"]
                 /\ phase' = "verify"
                 /\ UNCHANGED <<source, ctx, search, next_index, attempts, others>>

\* The flow reads the artifact back and compares.
VerifyArtifact == /\ phase = "verify"
                  /\ phase' = IF files[next_index] = "mine" THEN "saved" ELSE "mismatch"
                  /\ UNCHANGED <<source, ctx, search, saving>>

\* Another run's save_matching_output, as seen from this one: it creates the
\* file and fills it later, and may be killed in between.
OtherCreates == /\ phase \in {"scan", "create", "write", "verify"}
                /\ others < MaxOthers
                /\ others' = others + 1
                /\ files' = With(NextArtifactIndex, "theirs, torn")
                /\ UNCHANGED <<source, ctx, phase, search, next_index, attempts>>

OtherWrites == /\ phase \in {"scan", "create", "write", "verify"}
               /\ \E i \in DOMAIN files : /\ files[i] = "theirs, torn"
                                          /\ files' = [files EXCEPT ![i] = "theirs"]
               /\ UNCHANGED <<source, ctx, phase, search, next_index, attempts, others>>

Flow == \/ Load \/ Prune \/ SeedMember \/ Evaluate \/ BreedChild
        \/ ValidateResult \/ ScanDirectory \/ CreateArtifact \/ WriteArtifact \/ VerifyArtifact

\* The flow stays where it ended; anywhere else a flow that cannot go on is a
\* deadlock, which TLC reports.
Ended == phase \in {"saved", "failed"} /\ UNCHANGED flowVars

FlowNext == Flow \/ OtherCreates \/ OtherWrites \/ Ended

FlowSpec == FlowInit /\ [][FlowNext]_flowVars

-----------------------------------------------------------------------------
\* What the search may return: every team of every member of the population is
\* empty or within its size and covers the hard requirements, and nobody is on
\* a project that is not a candidate (repair_assignment).
TeamsFeasible == \A a \in ToSet(population) \cup ToSet(offspring) \cup ({best} \ {None}) :
                    (\A p \in Projects(ctx) : TeamFeasible(a, p)) /\ OnlyCandidates(a)

\* Repair strands nobody: an unassigned student has no candidate among the
\* projects that run and have a seat left (repair_assignment, phase 6).
NobodyStranded ==
    \A a \in ToSet(population) : \A s \in DOMAIN a : a[s] = None =>
        \A p \in options[s] \ {None} :
            Size(a, p) > 0 => Size(a, p) = ctx.projects[p].max

\* No run destroys or alters what another one saved, and this run reads back
\* what it wrote (save_matching_output).
ArtifactsKept == [][/\ \A i \in DOMAIN files : /\ i \in DOMAIN files'
                                               /\ files[i] = "theirs" => files'[i] = "theirs"
                                               /\ files[i] = "theirs, torn" => files'[i] # "mine"
                    /\ phase' # "mismatch"]_flowVars
=============================================================================
