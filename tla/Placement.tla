----------------------------- MODULE Placement ------------------------------
(***************************************************************************)
(* Assignment runs and placements: src/src/backend/services/assignment.py, *)
(* with the queries of repositories.py and the handlers of                 *)
(* api/routes_manager.py.  Every request handler is one action here (one   *)
(* manager, one request at a time); PlacementRequests splits them into     *)
(* the reads and the commit that a concurrent request can fall between.    *)
(* The background task of a run is split in both: it reads, optimizes for  *)
(* seconds and commits, while managers keep working.                       *)
(*                                                                         *)
(* A project is abstracted to the roles it holds: a request that selects   *)
(* projects selects a set of roles.                                        *)
(***************************************************************************)
EXTENDS Naturals, FiniteSets

CONSTANTS Applicants,   \* applicant ids
          Roles,        \* project role ids, used once each
          Runs,         \* assignment run ids, used once each
          NoRole,       \* absent role id
          MaxCapacity,  \* bound on a role's capacity (RoleIn allows 1..50)
          MayShrink     \* do managers lower a capacity below the seats in use?

ASSUME PlacementAssumption == /\ IsFiniteSet(Applicants)
                              /\ IsFiniteSet(Runs)
                              /\ NoRole \notin Roles
                              /\ MaxCapacity \in Nat
                              /\ MayShrink \in BOOLEAN

VARIABLES ready,      \* applicants whose status is "ready"
          roleState,  \* "new", "bare" (no requirements), "open", "deleted"
          capacity,   \* project_roles.capacity
          run,        \* assignment_runs: status and configuration
          task,       \* the in-process background task of a run
          loaded,     \* the roles and applicants the task read from the database
          row         \* assignments, unique per run and applicant

runVars == <<run, task, loaded>>
roleVars == <<roleState, capacity>>
vars == <<ready, roleState, capacity, run, task, loaded, row>>

RunStatus == {"new", "queued", "running", "completed", "failed"}
TaskState == {"none", "waiting", "started", "optimizing", "lost"}
RowStatus == {"none", "proposed", "approved", "rejected"}

Row == [status : RowStatus,
        role   : Roles \cup {NoRole},   \* project_role_id
        solver : Roles \cup {NoRole}]   \* solver_role_id
NoRow == [status |-> "none", role |-> NoRole, solver |-> NoRole]

\* configuration: role_seats (0 for a role not in role_ids) and applicant_ids
Run == [status : RunStatus, seats : [Roles -> 0 .. MaxCapacity], applicants : SUBSET Applicants]

Loaded == [roles : SUBSET Roles, applicants : SUBSET Applicants]
Nothing == [roles |-> {}, applicants |-> {}]

TypeOK == /\ ready \in SUBSET Applicants
          /\ roleState \in [Roles -> {"new", "bare", "open", "deleted"}]
          /\ capacity \in [Roles -> 0 .. MaxCapacity]
          /\ run \in [Runs -> Run]
          /\ task \in [Runs -> TaskState]
          /\ loaded \in [Runs -> Loaded]
          /\ row \in [Runs -> [Applicants -> Row]]

Init == /\ ready = {}
        /\ roleState = [r \in Roles |-> "new"]
        /\ capacity = [r \in Roles |-> 0]
        /\ run = [n \in Runs |-> [status |-> "new", seats |-> [r \in Roles |-> 0],
                                  applicants |-> {}]]
        /\ task = [n \in Runs |-> "none"]
        /\ loaded = [n \in Runs |-> Nothing]
        /\ row = [n \in Runs |-> [i \in Applicants |-> NoRow]]

-----------------------------------------------------------------------------
(* Queries *)

Exists(r) == roleState[r] \in {"bare", "open"}

RunRoles(n) == {r \in Roles : run[n].seats[r] > 0}

Approved(n, i) == run[n].status = "completed" /\ row[n][i].status = "approved"

\* approved_placements: the applicants who hold one.  With several approvals
\* the code keeps the newest; Placement never reaches that (OnePlacement).
Placed == {i \in Applicants : \E n \in Runs : Approved(n, i)}

\* filled_seats: approved placements of a role, over the rows in S
Occupants(r, S) == {i \in Applicants : \E n \in S : Approved(n, i) /\ row[n][i].role = r}
Filled(r) == Cardinality(Occupants(r, Runs))

\* a run's non-rejected assignments to a role
InRun(n, r) == {i \in Applicants : /\ row[n][i].status \in {"proposed", "approved"}
                                   /\ row[n][i].role = r}

Elsewhere(n, r) == Occupants(r, Runs \ {n})

\* open_seats: max(0, min(offered - taken, capacity - elsewhere)) >= 1
HasOpenSeat(n, r) == /\ run[n].seats[r] > Cardinality(InRun(n, r))
                     /\ capacity[r] > Cardinality(Elsewhere(n, r))

\* Fault: approvals of the applicant in other runs are not looked at.
CheckApproval_SecondPlacement(n, i, r) == Cardinality(Occupants(r, Runs) \ {i}) < capacity[r]

\* Fault: "full" only when capacity is already exceeded.
CheckApproval_OffByOne(n, i, r) ==
    /\ \A m \in Runs \ {n} : ~ Approved(m, i)
    /\ Cardinality(Occupants(r, Runs) \ {i}) <= capacity[r]

\* check_approval for the row of applicant i in run n, in role r: raises
\* AlreadyPlacedError or RoleFullError unless
CheckApproval(n, i, r) ==
    /\ \A m \in Runs \ {n} : ~ Approved(m, i)
    /\ Cardinality(Occupants(r, Runs) \ {i}) < capacity[r]

\* Fault: approved placements of other runs are not counted.
CheckOverride_ThisRunOnly(n, i, r) ==
    /\ r \in RunRoles(n)
    /\ Exists(r)
    /\ r # row[n][i].role => Cardinality(InRun(n, r)) < capacity[r]

\* override_role: raises RunInputError or RoleFullError unless
CheckOverride(n, i, r) ==
    /\ r \in RunRoles(n)
    /\ Exists(r)
    /\ r # row[n][i].role =>
          Cardinality(InRun(n, r)) + Cardinality(Elsewhere(n, r)) < capacity[r]

\* role_in_use: an assignment or a score of a completed run refers to it
InUse(r) ==
    \E n \in Runs : /\ run[n].status = "completed"
                    /\ \/ r \in loaded[n].roles
                       \/ \E i \in Applicants : r \in {row[n][i].role, row[n][i].solver}

-----------------------------------------------------------------------------
(* Applicants and roles *)

\* Processing publishes an applicant as "ready"; reprocessing takes that back.
ApplicantStatus(i) == /\ ready' \in {ready \cup {i}, ready \ {i}}
                      /\ UNCHANGED <<roleVars, runVars, row>>

CreateRole(r) == /\ roleState[r] = "new"
                 /\ \E s \in {"bare", "open"} : roleState' = [roleState EXCEPT ![r] = s]
                 /\ \E c \in 1 .. MaxCapacity : capacity' = [capacity EXCEPT ![r] = c]
                 /\ UNCHANGED <<ready, runVars, row>>

\* PATCH /roles/{id}: any capacity from 1 up, checked against nothing.
UpdateRole(r) == /\ Exists(r)
                 /\ \E s \in {"bare", "open"} : roleState' = [roleState EXCEPT ![r] = s]
                 /\ \E c \in 1 .. MaxCapacity :
                        /\ MayShrink \/ c >= Filled(r)
                        /\ capacity' = [capacity EXCEPT ![r] = c]
                 /\ UNCHANGED <<ready, runVars, row>>

DeleteRole(r) == /\ Exists(r)
                 /\ ~ InUse(r)
                 /\ roleState' = [roleState EXCEPT ![r] = "deleted"]
                 /\ UNCHANGED <<ready, capacity, runVars, row>>

-----------------------------------------------------------------------------
(* Assignment runs *)

SeatsLeft(r) == IF capacity[r] > Filled(r) THEN capacity[r] - Filled(r) ELSE 0

\* POST /assignment-runs: selected roles, requested applicants
CreateRun(n, selected, requested) ==
    LET allRoles   == {r \in selected : roleState[r] = "open"}
        applicants == (ready \cap requested) \ Placed
    IN  /\ run[n].status = "new"
        /\ \E r \in allRoles : SeatsLeft(r) > 0
        /\ applicants # {}
        /\ run' = [run EXCEPT ![n] =
                     [status     |-> "queued",
                      seats      |-> [r \in Roles |-> IF r \in allRoles THEN SeatsLeft(r) ELSE 0],
                      applicants |-> applicants]]
        /\ task' = [task EXCEPT ![n] = "waiting"]
        /\ UNCHANGED <<ready, roleVars, loaded, row>>

\* execute_run, first transaction
StartRun(n) == /\ task[n] = "waiting"
               /\ run[n].status = "queued"
               /\ run' = [run EXCEPT ![n].status = "running"]
               /\ task' = [task EXCEPT ![n] = "started"]
               /\ UNCHANGED <<ready, roleVars, loaded, row>>

EndTask(n, status) == /\ run' = [run EXCEPT ![n].status = status]
                      /\ task' = [task EXCEPT ![n] = "none"]

\* _execute reads the roles and applicants of the configuration that are
\* still there; none left is an error, which fails the run.
LoadRun(n) ==
    LET roles      == {r \in RunRoles(n) : roleState[r] = "open"}
        applicants == run[n].applicants \cap ready
    IN  /\ task[n] = "started"
        /\ \/ /\ roles # {} /\ applicants # {}
              /\ loaded' = [loaded EXCEPT ![n] = [roles |-> roles, applicants |-> applicants]]
              /\ task' = [task EXCEPT ![n] = "optimizing"]
              /\ UNCHANGED run
           \/ /\ roles = {} \/ applicants = {}
              /\ EndTask(n, "failed")
              /\ UNCHANGED loaded
        /\ UNCHANGED <<ready, roleVars, row>>

\* What the optimizer may return: a role or none for each applicant, and in
\* each role no more people than the seats the run was created with.
Proposals(n) == {f \in [loaded[n].applicants -> loaded[n].roles \cup {NoRole}] :
                    \A r \in loaded[n].roles :
                        Cardinality({i \in loaded[n].applicants : f[i] = r}) <= run[n].seats[r]}

\* The second transaction commits scores and proposals, unless a role it
\* refers to was deleted meanwhile (foreign key).
CompleteRun(n) ==
    /\ task[n] = "optimizing"
    /\ \A r \in loaded[n].roles : Exists(r)
    /\ \E f \in Proposals(n) :
          row' = [row EXCEPT ![n] = [i \in Applicants |->
                    IF i \in loaded[n].applicants /\ f[i] # NoRole
                    THEN [status |-> "proposed", role |-> f[i], solver |-> f[i]]
                    ELSE NoRow]]
    /\ EndTask(n, "completed")
    /\ UNCHANGED <<ready, roleVars, loaded>>

\* Fault: the exception is logged and not recorded.
FailRun_LogOnly(n) == /\ task[n] \in {"started", "optimizing"}
                      /\ task' = [task EXCEPT ![n] = "none"]
                      /\ UNCHANGED <<ready, roleVars, run, loaded, row>>

\* Any exception, the foreign key's included: rolled back and recorded.
FailRun(n) == /\ task[n] \in {"started", "optimizing"}
              /\ EndTask(n, "failed")
              /\ UNCHANGED <<ready, roleVars, loaded, row>>

Working(n) == task[n] \in {"waiting", "started", "optimizing"}

\* The database cannot be reached at the start of the task, or both where it would
\* commit and where it would record the failure: the run stays as it is.
LoseTask(n) == /\ Working(n)
               /\ task' = [task EXCEPT ![n] = "lost"]
               /\ UNCHANGED <<ready, roleVars, run, loaded, row>>

\* The API process restarts: it loses every task that has not ended.
Crash == /\ \E n \in Runs : Working(n)
         /\ task' = [n \in Runs |-> IF Working(n) THEN "lost" ELSE task[n]]
         /\ UNCHANGED <<ready, roleVars, run, loaded, row>>

-----------------------------------------------------------------------------
(* The manager's decisions *)

\* PATCH /assignments/{id}: optionally another role r, optionally a status s
Patch(n, i, r, s) ==
    LET old  == row[n][i]
        role == IF r = NoRole THEN old.role ELSE r
    IN  /\ old.status # "none"
        /\ r # NoRole => CheckOverride(n, i, r)
        /\ (s = "approved" /\ old.status # "approved") => CheckApproval(n, i, role)
        /\ row' = [row EXCEPT ![n][i] = [old EXCEPT !.status = s, !.role = role]]
        /\ UNCHANGED <<ready, roleVars, runVars>>

\* POST /assignment-runs/{id}/assignments
AssignManually(n, i, r) ==
    /\ run[n].status = "completed"
    /\ i \in run[n].applicants
    /\ r \in RunRoles(n)
    /\ Exists(r)
    /\ row[n][i].status \in {"none", "rejected"}
    /\ HasOpenSeat(n, r)
    /\ CheckApproval(n, i, r)
    /\ row' = [row EXCEPT ![n][i] = [status |-> "approved", role |-> r, solver |-> r]]
    /\ UNCHANGED <<ready, roleVars, runVars>>

-----------------------------------------------------------------------------
TaskStep(n) == StartRun(n) \/ LoadRun(n) \/ CompleteRun(n) \/ FailRun(n)

Next == \/ \E i \in Applicants : ApplicantStatus(i)
        \/ \E r \in Roles : CreateRole(r) \/ UpdateRole(r) \/ DeleteRole(r)
        \/ \E n \in Runs : TaskStep(n) \/ LoseTask(n)
        \/ \E n \in Runs, selected \in SUBSET Roles, requested \in SUBSET Applicants :
               CreateRun(n, selected, requested)
        \/ \E n \in Runs, i \in Applicants, r \in Roles : AssignManually(n, i, r)
        \/ \E n \in Runs, i \in Applicants, r \in Roles \cup {NoRole} :
               \E s \in RowStatus \ {"none"} : Patch(n, i, r, s)
        \/ Crash

\* A background task that runs is never abandoned by the event loop.
Spec == Init /\ [][Next]_vars /\ \A n \in Runs : WF_vars(TaskStep(n))
-----------------------------------------------------------------------------
(* The placement service as a seat ledger *)

\* The role of an applicant's approved placement (one, by OnePlacement).
Holder == [i \in Applicants |->
              IF i \in Placed
              THEN CHOOSE r \in Roles : \E n \in Runs : Approved(n, i) /\ row[n][i].role = r
              ELSE NoRole]

Ledger == INSTANCE SeatLedger WITH holder <- Holder, seats <- capacity

\* Runs, proposals, moves, manual placements and decisions only ever take,
\* move and release seats of the ledger: whatever managers do, through
\* whichever handler, a seat is taken only by an applicant who holds none and
\* only in a role that has one free.
ImplementsLedger == Ledger!Spec

-----------------------------------------------------------------------------
(* Properties *)

\* README "Each applicant can hold one approved placement": approvals of the
\* same applicant in different runs exclude each other, whatever the order in
\* which runs propose, managers move, reject and approve.
OnePlacement == \A i \in Applicants, m, n \in Runs :
                    Approved(m, i) /\ Approved(n, i) => m = n

\* README "approvals never exceed a role's capacity across runs", as long as
\* managers do not lower a capacity below the seats already in use.
CapacityRespected == \A r \in Roles : Filled(r) <= capacity[r]

\* Whatever capacities become: no step fills a seat of a role that, after the
\* step, has more approved placements than capacity (check_approval,
\* override_role and assign_manually guard every way into a role).
NeverOverfills == [][\A r \in Roles :
                        Filled(r)' > Filled(r) => Filled(r)' <= capacity'[r]]_vars

\* Overrides and manual placements stay inside the run: every assignment of a
\* run is of an applicant and to a role of its configuration, and only a
\* completed run has assignments (_execute commits all of them or none).
RowsWithinRun == \A n \in Runs, i \in Applicants :
                    row[n][i].status # "none" =>
                        /\ run[n].status = "completed"
                        /\ i \in run[n].applicants
                        /\ row[n][i].role \in RunRoles(n)
                        /\ row[n][i].solver \in RunRoles(n)

\* Assignment history keeps its roles: a role that an assignment or a score of
\* a completed run names is never deleted, although a queued or running run
\* does not protect the roles it was created with (role_in_use sees committed
\* rows only) and requests may check before the run commits and delete after.
HistoryKeepsRoles ==
    \A n \in Runs, r \in Roles :
        /\ run[n].status = "completed"
        /\ \/ r \in loaded[n].roles
           \/ \E i \in Applicants : r \in {row[n][i].role, row[n][i].solver}
        => Exists(r)

\* models.py Assignment: "The solver's choice is never overwritten".
SolverChoiceKept == [][\A n \in Runs, i \in Applicants :
                          row[n][i].status # "none" =>
                              row'[n][i].solver = row[n][i].solver]_vars

\* "Safe in a background task" (execute_run): every queued run ends as completed or
\* failed, also when its roles are deleted or its applicants leave "ready" meanwhile.
\* A task that just ends is no outcome; only one that was lost, in a restart or with
\* the database, leaves its run unfinished.
RunsFinish == \A n \in Runs :
                 (run[n].status = "queued") ~>
                     (run[n].status \in {"completed", "failed"} \/ task[n] = "lost")
=============================================================================
