-------------------------- MODULE OrchestratorRun ---------------------------
(***************************************************************************)
(* src/pipeline/orchestrator.py: run(run_id, ...) computes five stages,    *)
(* keeps each one's result in a file of the run's folder, and is called    *)
(* again with the same run_id after a failure, perhaps with other inputs.  *)
(* Worker threads ask the agents; a call that fails is retried, a budget   *)
(* limits the calls, and the process may die at any point.                 *)
(***************************************************************************)
EXTENDS Integers, SequencesExt

CONSTANTS RunApplicants, \* applicants an operator may pass
          ProjectInputs, \* project inputs an operator may pass
          Capacity,      \* project -> its seats
          MaxCalls,      \* MAX_LLM_CALLS
          MaxWorkers,    \* MAX_WORKERS
          RunAttempts,   \* retry: attempts
          MaxRuns        \* bound: calls of run with this run_id

\* A project's capacity is an integer, never negative (extract_project, solve).
ASSUME CapacityAssumption == Capacity \in [ProjectInputs -> Nat]

Stages == <<"profiles", "evidence", "resolved", "projects", "matrix">>
Absent == [is |-> "absent", units |-> {}]
Torn == [is |-> "torn", units |-> {}]
File(units) == [is |-> "file", units |-> units]
Unit(state, attempts) == [is |-> state, attempts |-> attempts]

VARIABLES given,     \* the applicants and project inputs of this call of run
          disk,      \* stage -> its file, with the units it holds
          memory,    \* the results of the stages so far, in order
          running,   \* is run executing?
          outcome,   \* of the last call of run: none, failed, assigned
          unit,      \* unit of the current stage -> todo, trying, ok or failed
          used,      \* Budget.used
          runs,      \* calls of run
          answered,  \* stage and unit of every answer an agent ever gave
          asked,     \* calls made to agents since this call of run began
          assignment \* applicant -> project, once assigned

runVars == <<given, disk, memory, running, outcome, unit, used, runs, answered, asked, assignment>>

RunInit == /\ given = [applicants |-> {}, projects |-> {}]
           /\ disk = [i \in DOMAIN Stages |-> Absent]
           /\ memory = <<>>
           /\ running = FALSE /\ outcome = "none"
           /\ unit = <<>>
           /\ used = 0 /\ runs = 0
           /\ answered = {} /\ asked = 0
           /\ assignment = <<>>

stage == Len(memory) + 1
Computing == running /\ unit # <<>>

\* run: a new Budget, the stages from the first
Run == /\ ~ running /\ outcome # "assigned" /\ runs < MaxRuns
       /\ given' \in [applicants : SUBSET RunApplicants \ {{}}, projects : SUBSET ProjectInputs \ {{}}]
       /\ running' = TRUE /\ outcome' = "none"
       /\ memory' = <<>> /\ unit' = <<>>
       /\ used' = 0 /\ asked' = 0 /\ runs' = runs + 1
       /\ UNCHANGED <<disk, answered, assignment>>

\* The units of the current stage: what fan_out maps over, the pairs of the matrix
Units == CASE stage = 1 -> given.applicants
           [] stage = 2 -> memory[1]
           [] stage = 3 -> memory[1] \cap memory[2]
           [] stage = 4 -> given.projects
           [] stage = 5 -> memory[3] \X memory[4]

\* Fault: the profiles are computed again from what was passed.
LoadStage_FreshProfiles ==
    /\ running /\ unit = <<>> /\ stage \in DOMAIN Stages
    /\ disk[stage] # Absent
    /\ IF disk[stage] = Torn THEN running' = FALSE /\ outcome' = "failed" /\ UNCHANGED memory
       ELSE /\ memory' = Append(memory, IF stage = 1 THEN given.applicants ELSE disk[stage].units)
            /\ UNCHANGED <<running, outcome>>
    /\ UNCHANGED <<given, disk, unit, used, runs, answered, asked, assignment>>

\* stage: the file is there, so it is loaded; a torn one cannot be parsed
LoadStage == /\ running /\ unit = <<>> /\ stage \in DOMAIN Stages
             /\ disk[stage] # Absent
             /\ IF disk[stage] = Torn THEN running' = FALSE /\ outcome' = "failed" /\ UNCHANGED memory
                ELSE memory' = Append(memory, disk[stage].units) /\ UNCHANGED <<running, outcome>>
             /\ UNCHANGED <<given, disk, unit, used, runs, answered, asked, assignment>>

\* No file: compute() begins; resolve_profile asks nobody.
StartStage == /\ running /\ unit = <<>> /\ stage \in DOMAIN Stages
              /\ disk[stage] = Absent
              /\ unit' = [u \in Units |-> Unit(IF Stages[stage] = "resolved" THEN "ok" ELSE "todo", 0)]
              /\ UNCHANGED <<given, disk, memory, running, outcome, used, runs, answered, asked, assignment>>

In(state) == {u \in DOMAIN unit : unit[u].is = state}
Active == In("trying")
Sequential == Stages[stage] = "matrix"   \* build_matrix is a loop, not a fan_out

\* A worker takes the next unit: budget.spend() comes before the first attempt.
TakeUnit(u) == /\ Computing /\ u \in In("todo")
               /\ Cardinality(Active) < IF Sequential THEN 1 ELSE MaxWorkers
               /\ ~ (Sequential /\ In("failed") # {})
               /\ used' = used + 1
               /\ unit' = [unit EXCEPT ![u] = Unit(IF used' > MaxCalls THEN "failed" ELSE "trying", 0)]
               /\ UNCHANGED <<given, disk, memory, running, outcome, runs, answered, asked, assignment>>

\* retry: one attempt, which the agent answers or fails
Attempt(u) == /\ Computing /\ u \in Active
              /\ asked' = asked + 1
              /\ \/ /\ unit' = [unit EXCEPT ![u].is = "ok"]
                    /\ answered' = answered \cup {<<Stages[stage], u>>}
                 \/ /\ LET n == unit[u].attempts + 1
                       IN unit' = [unit EXCEPT ![u] = Unit(IF n = RunAttempts THEN "failed" ELSE "trying", n)]
                    /\ UNCHANGED answered
              /\ UNCHANGED <<given, disk, memory, running, outcome, used, runs, assignment>>

\* ex.map raises what the first failed unit raised: units not yet taken are
\* cancelled and the workers waited for; the loop raises at once.  What the other
\* units returned is lost.
StageRaises == /\ Computing
               /\ In("failed") # {} /\ Active = {}
               /\ running' = FALSE /\ outcome' = "failed" /\ unit' = <<>>
               /\ UNCHANGED <<given, disk, memory, used, runs, answered, asked, assignment>>

\* The stage's file is opened, then filled: in between it is torn.
OpenFile == /\ Computing /\ In("ok") = DOMAIN unit
            /\ disk[stage] # Torn
            /\ disk' = [disk EXCEPT ![stage] = Torn]
            /\ UNCHANGED <<given, memory, running, outcome, unit, used, runs, answered, asked, assignment>>

FillFile == /\ Computing /\ disk[stage] = Torn
            /\ disk' = [disk EXCEPT ![stage] = File(DOMAIN unit)]
            /\ memory' = Append(memory, DOMAIN unit)
            /\ unit' = <<>>
            /\ UNCHANGED <<given, running, outcome, used, runs, answered, asked, assignment>>

\* solve: one column per seat; the optimum of scipy is some injection of the
\* applicants into the seats, mapped back to the projects.
Seats == UNION {{p} \X (1 .. Capacity[p]) : p \in memory[4]}

\* validate, on a result that leaves nobody unplaced
AssignmentValid == /\ DOMAIN assignment = memory[3]
                   /\ Range(assignment) \subseteq memory[4]
                   /\ \A p \in memory[4] :
                         Cardinality({a \in DOMAIN assignment : assignment[a] = p}) <= Capacity[p]

Assign == /\ running /\ stage > Len(Stages)
          /\ running' = FALSE
          /\ IF Cardinality(Seats) < Cardinality(memory[3])
             THEN outcome' = "failed" /\ UNCHANGED assignment
             ELSE /\ \E seat \in Injection(memory[3], Seats) :
                        assignment' = [a \in memory[3] |-> seat[a][1]]
                  /\ outcome' = "assigned"
          /\ UNCHANGED <<given, disk, memory, unit, used, runs, answered, asked>>

\* The process dies.
Crash == /\ running
         /\ running' = FALSE /\ outcome' = "failed" /\ unit' = <<>>
         /\ UNCHANGED <<given, disk, memory, used, runs, answered, asked, assignment>>

RunNext == \/ Run \/ LoadStage \/ StartStage \/ StageRaises \/ OpenFile \/ FillFile \/ Assign \/ Crash
           \/ \E u \in DOMAIN unit : TakeUnit(u) \/ Attempt(u)

RunSpec == RunInit /\ [][RunNext]_runVars

-----------------------------------------------------------------------------
\* What the solver gets belongs together: the matrix has a row for each resolved
\* profile and a column for each project, every profile has its evidence,
\* however often the run failed and whatever was passed when it was called again
\* (run; solve asserts the shape); and validate finds no error in the result.
MatrixFits == /\ Len(memory) = Len(Stages) =>
                    /\ memory[1] = memory[2] /\ memory[2] = memory[3]
                    /\ memory[5] = memory[3] \X memory[4]
              /\ outcome = "assigned" => AssignmentValid

\* "This is what lets you re-run after a failure on applicant #31 without
\* redoing the other 39" (stage, orchestrator.py:49): a profile, a report or a
\* score that was computed is not asked for again.
OthersNotRedone == [][\A u \in DOMAIN unit :
                         (unit[u].is = "todo" /\ u \in DOMAIN unit' /\ unit'[u].is = "trying")
                         => <<Stages[stage], u>> \notin answered]_runVars

\* "hard ceiling; a runaway run stops instead of billing" (orchestrator.py:19)
HardCeiling == asked <= MaxCalls
=============================================================================
