--------------------------- MODULE PlacementProofs --------------------------
(***************************************************************************)
(* Theorems about placing students.  Placement, one request at a time, and *)
(* PlacementRequests, for every number of applicants, roles, runs and      *)
(* requests and every capacity bound: types, the one placement, the seats, *)
(* the rows of a run, the seat ledger, the roles of history.  And          *)
(* MatchingFlow, for every input and every population size: what repair    *)
(* makes of a proposal, what the search returns, what a run saves.         *)
(***************************************************************************)
EXTENDS PlacementRequests, MatchingFlow, FiniteSetTheorems, SequenceTheorems,
        WellFoundedInduction, TLAPS

\* Every set of applicants a query counts is finite, so counts are numbers.
LEMMA OccupantsFinite ==
    ASSUME NEW r, NEW S
    PROVE  /\ IsFiniteSet(Occupants(r, S))
           /\ Cardinality(Occupants(r, S)) \in Nat
BY PlacementAssumption, FS_Subset, FS_CardinalityType DEF Occupants

\* A run has finitely many assignments.
LEMMA InRunFinite ==
    ASSUME NEW n, NEW r
    PROVE  /\ IsFiniteSet(InRun(n, r))
           /\ Cardinality(InRun(n, r)) \in Nat
BY PlacementAssumption, FS_Subset, FS_CardinalityType DEF InRun

\* The seats filled are a number.
LEMMA FilledIsNat ==
    ASSUME NEW r
    PROVE  Filled(r) \in Nat /\ Filled(r)' \in Nat
BY OccupantsFinite, FS_Subset, FS_CardinalityType, PlacementAssumption DEF Filled, Occupants

-----------------------------------------------------------------------------
(* Types *)

\* The initial state is well typed.
LEMMA InitType == Init => TypeOK
BY PlacementAssumption DEF Init, TypeOK, Run, Row, NoRow, Loaded, Nothing, RunStatus, TaskState, RowStatus

\* Every step keeps the types.
LEMMA NextType == TypeOK /\ [Next]_vars => TypeOK'
<1> SUFFICES ASSUME TypeOK, [Next]_vars PROVE TypeOK'
  OBVIOUS
<1> USE PlacementAssumption DEF TypeOK, roleVars, runVars
<1>1. ASSUME NEW i \in Applicants, ApplicantStatus(i) PROVE TypeOK'
  BY <1>1 DEF ApplicantStatus
<1>2. ASSUME NEW r \in Roles, CreateRole(r) PROVE TypeOK'
  BY <1>2 DEF CreateRole
<1>3. ASSUME NEW r \in Roles, UpdateRole(r) PROVE TypeOK'
  BY <1>3 DEF UpdateRole
<1>4. ASSUME NEW r \in Roles, DeleteRole(r) PROVE TypeOK'
  BY <1>4 DEF DeleteRole
<1>5. ASSUME NEW n \in Runs, StartRun(n) PROVE TypeOK'
  BY <1>5, ZenonT(40) DEF StartRun, Run, RunStatus, TaskState
<1>6. ASSUME NEW n \in Runs, LoadRun(n) PROVE TypeOK'
  <2> DEFINE roles == {r \in RunRoles(n) : roleState[r] = "open"}
             applicants == run[n].applicants \cap ready
  <2>1. [roles |-> roles, applicants |-> applicants] \in Loaded
    BY DEF RunRoles, Run, Loaded
  <2>2. CASE /\ loaded' = [loaded EXCEPT ![n] = [roles |-> roles, applicants |-> applicants]]
             /\ task' = [task EXCEPT ![n] = "optimizing"]
             /\ UNCHANGED run
    BY <1>6, <2>1, <2>2 DEF LoadRun, TaskState
  <2>3. CASE EndTask(n, "failed") /\ UNCHANGED loaded
    BY <1>6, <2>3, ZenonT(40) DEF LoadRun, EndTask, Run, RunStatus, TaskState
  <2>. QED
    BY <1>6, <2>2, <2>3 DEF LoadRun
<1>7. ASSUME NEW n \in Runs, CompleteRun(n) PROVE TypeOK'
  <2>1. PICK f \in Proposals(n) :
           row' = [row EXCEPT ![n] = [i \in Applicants |->
                     IF i \in loaded[n].applicants /\ f[i] # NoRole
                     THEN [status |-> "proposed", role |-> f[i], solver |-> f[i]]
                     ELSE NoRow]]
    BY <1>7 DEF CompleteRun
  <2> DEFINE new == [i \in Applicants |->
                       IF i \in loaded[n].applicants /\ f[i] # NoRole
                       THEN [status |-> "proposed", role |-> f[i], solver |-> f[i]]
                       ELSE NoRow]
  <2>2. ASSUME NEW i \in loaded[n].applicants PROVE f[i] \in Roles \cup {NoRole}
    BY <2>1 DEF Proposals, Loaded
  <2>3. new \in [Applicants -> Row]
    BY <2>2 DEF Row, NoRow, RowStatus
  <2>4. row' \in [Runs -> [Applicants -> Row]]
    <3>. HIDE DEF new
    <3>1. row' = [row EXCEPT ![n] = new]
      BY <2>1 DEF new
    <3>. QED
      BY <2>3, <3>1
  <2>5. /\ run' \in [Runs -> Run]
        /\ task' \in [Runs -> TaskState]
    <3>1. EndTask(n, "completed")
      BY <1>7 DEF CompleteRun
    <3>. QED
      BY <3>1, ZenonT(40) DEF EndTask, Run, RunStatus, TaskState
  <2>6. UNCHANGED <<ready, roleVars, loaded>>
    BY <1>7 DEF CompleteRun
  <2>. QED
    BY <2>4, <2>5, <2>6
<1>8. ASSUME NEW n \in Runs, FailRun(n) PROVE TypeOK'
  BY <1>8, ZenonT(40) DEF FailRun, EndTask, Run, RunStatus, TaskState
<1>9. ASSUME NEW n \in Runs, NEW selected \in SUBSET Roles, NEW requested \in SUBSET Applicants,
             CreateRun(n, selected, requested)
      PROVE  TypeOK'
  <2>1. ASSUME NEW r \in Roles PROVE SeatsLeft(r) \in 0 .. MaxCapacity
    <3>1. Filled(r) \in Nat
      BY FilledIsNat
    <3>2. capacity[r] \in 0 .. MaxCapacity
      OBVIOUS
    <3>. QED
      BY <3>1, <3>2 DEF SeatsLeft
  <2>2. run'[n] \in Run /\ run' \in [Runs -> Run]
    BY <1>9, <2>1 DEF CreateRun, Run, RunStatus
  <2>. QED
    BY <1>9, <2>2 DEF CreateRun, TaskState
<1>10. ASSUME NEW n \in Runs, NEW i \in Applicants, NEW r \in Roles, AssignManually(n, i, r)
       PROVE  TypeOK'
  <2>1. [status |-> "approved", role |-> r, solver |-> r] \in Row
    BY DEF Row, RowStatus
  <2>. QED
    BY <1>10, <2>1 DEF AssignManually
<1>11. ASSUME NEW n \in Runs, NEW i \in Applicants, NEW r \in Roles \cup {NoRole},
              NEW s \in RowStatus \ {"none"}, Patch(n, i, r, s)
       PROVE  TypeOK'
  <2> DEFINE role == IF r = NoRole THEN row[n][i].role ELSE r
  <2>1. [row[n][i] EXCEPT !.status = s, !.role = role] \in Row
    <3>1. row[n][i] \in Row
      OBVIOUS
    <3>2. row[n][i].role \in Roles \cup {NoRole}
      BY <3>1 DEF Row
    <3>3. role \in Roles \cup {NoRole}
      BY <3>2
    <3>. HIDE DEF role
    <3>. QED
      BY <3>1, <3>3 DEF Row
  <2>2. row' = [row EXCEPT ![n][i] = [row[n][i] EXCEPT !.status = s, !.role = role]]
    BY <1>11 DEF Patch
  <2>. QED
    BY <1>11, <2>1, <2>2 DEF Patch
<1>12. CASE Crash
  BY <1>12 DEF Crash, TaskState
<1>13. CASE UNCHANGED vars
  BY <1>13 DEF vars
<1>14. ASSUME NEW n \in Runs, LoseTask(n) PROVE TypeOK'
  BY <1>14 DEF LoseTask, TaskState
<1>. QED
  BY <1>1, <1>2, <1>3, <1>4, <1>5, <1>6, <1>7, <1>8, <1>9, <1>10, <1>11, <1>12, <1>13, <1>14
  DEF Next, TaskStep

\* Every reachable state is well typed.
THEOREM TypeCorrect == Spec => []TypeOK
BY InitType, NextType, PTL DEF Spec
-----------------------------------------------------------------------------
(* What a step does to approvals *)

\* Nothing is approved that was not approved, in the same role, before.
NoNewApproval == \A m \in Runs, j \in Applicants :
                    Approved(m, j)' => Approved(m, j) /\ row'[m][j] = row[m][j]

\* Only the assignment of applicant i in run n may change.
OnlyChanges(n, i) == /\ \A m \in Runs, j \in Applicants :
                           m # n \/ j # i => row'[m][j] = row[m][j]
                     /\ UNCHANGED <<run, capacity>>

Decision(n, i) == \/ \E r \in Roles : AssignManually(n, i, r)
                  \/ \E r \in Roles \cup {NoRole}, s \in RowStatus \ {"none"} : Patch(n, i, r, s)

\* Only the manager's two decisions approve anything: runs, restarts, role and
\* applicant edits never do.
LEMMA OnlyDecisionsApprove ==
    ASSUME TypeOK, [Next]_vars
    PROVE  NoNewApproval \/ \E n \in Runs, i \in Applicants : Decision(n, i)
<1> USE DEF NoNewApproval, Approved, roleVars, runVars
<1>1. ASSUME NEW i \in Applicants, ApplicantStatus(i) PROVE NoNewApproval
  BY <1>1 DEF ApplicantStatus
<1>2. ASSUME NEW r \in Roles, CreateRole(r) \/ UpdateRole(r) \/ DeleteRole(r) PROVE NoNewApproval
  BY <1>2 DEF CreateRole, UpdateRole, DeleteRole
<1>3. ASSUME NEW n \in Runs, StartRun(n) PROVE NoNewApproval
  BY <1>3 DEF StartRun, TypeOK, Run
<1>4. ASSUME NEW n \in Runs, LoadRun(n) PROVE NoNewApproval
  <2>1. row' = row /\ (run' = run \/ EndTask(n, "failed"))
    BY <1>4 DEF LoadRun
  <2>2. ASSUME EndTask(n, "failed"), NEW m \in Runs
        PROVE  run'[m].status \in {run[m].status, "failed"}
    BY <2>2 DEF EndTask, TypeOK, Run
  <2>. QED
    BY <2>1, <2>2
<1>5. ASSUME NEW n \in Runs, CompleteRun(n) PROVE NoNewApproval
  <2>1. ASSUME NEW j \in Applicants PROVE row'[n][j].status # "approved"
    BY <1>5 DEF CompleteRun, TypeOK, NoRow
  <2>2. ASSUME NEW m \in Runs \ {n} PROVE row'[m] = row[m] /\ run'[m] = run[m]
    BY <1>5 DEF CompleteRun, EndTask, TypeOK
  <2>. QED
    BY <2>1, <2>2
<1>6. ASSUME NEW n \in Runs, FailRun(n) PROVE NoNewApproval
  BY <1>6 DEF FailRun, EndTask, TypeOK, Run
<1>7. ASSUME NEW n \in Runs, NEW selected \in SUBSET Roles, NEW requested \in SUBSET Applicants,
             CreateRun(n, selected, requested)
      PROVE  NoNewApproval
  <2>1. run'[n].status = "queued" /\ row' = row
    BY <1>7 DEF CreateRun, TypeOK
  <2>2. ASSUME NEW m \in Runs \ {n} PROVE run'[m] = run[m]
    BY <1>7 DEF CreateRun, TypeOK
  <2>. QED
    BY <2>1, <2>2
<1>8. CASE Crash \/ \E n \in Runs : LoseTask(n)
  BY <1>8 DEF Crash, LoseTask
<1>9. CASE UNCHANGED vars
  BY <1>9 DEF vars
<1>. QED
  BY <1>1, <1>2, <1>3, <1>4, <1>5, <1>6, <1>7, <1>8, <1>9 DEF Next, TaskStep, Decision

\* A decision changes the row it is about and no other.
LEMMA DecisionChangesOneRow ==
    ASSUME TypeOK, NEW n \in Runs, NEW i \in Applicants, Decision(n, i)
    PROVE  OnlyChanges(n, i)
<1>1. ASSUME NEW r \in Roles, AssignManually(n, i, r) PROVE OnlyChanges(n, i)
  BY <1>1 DEF AssignManually, OnlyChanges, TypeOK, runVars, roleVars
<1>2. ASSUME NEW r \in Roles \cup {NoRole}, NEW s \in RowStatus \ {"none"}, Patch(n, i, r, s)
      PROVE  OnlyChanges(n, i)
  BY <1>2 DEF Patch, OnlyChanges, TypeOK, runVars, roleVars
<1>. QED
  BY <1>1, <1>2 DEF Decision

-----------------------------------------------------------------------------
(* One placement per applicant *)

\* Every step keeps an applicant to one approved placement.
LEMMA OnePlacementStep ==
    ASSUME TypeOK, OnePlacement, [Next]_vars
    PROVE  OnePlacement'
<1>1. CASE NoNewApproval
  BY <1>1 DEF NoNewApproval, OnePlacement
<1>2. ASSUME NEW n \in Runs, NEW i \in Applicants, Decision(n, i)
      PROVE  OnePlacement'
  <2>1. OnlyChanges(n, i)
    BY <1>2, DecisionChangesOneRow
  <2>2. ASSUME Approved(n, i)', ~ Approved(n, i)
        PROVE  \A m \in Runs \ {n} : ~ Approved(m, i)
    <3>1. ASSUME NEW r \in Roles, AssignManually(n, i, r)
          PROVE  \A m \in Runs \ {n} : ~ Approved(m, i)
      BY <3>1 DEF AssignManually, CheckApproval
    <3>2. ASSUME NEW r \in Roles \cup {NoRole}, NEW s \in RowStatus \ {"none"}, Patch(n, i, r, s)
          PROVE  \A m \in Runs \ {n} : ~ Approved(m, i)
      <4>1. run'[n].status = "completed" /\ row'[n][i].status = s /\ run' = run
        BY <2>2, <3>2 DEF Approved, Patch, TypeOK, Row, runVars
      <4>2. s = "approved" /\ row[n][i].status # "approved"
        BY <2>2, <4>1 DEF Approved
      <4>. QED
        BY <3>2, <4>2 DEF Patch, CheckApproval
    <3>. QED
      BY <1>2, <3>1, <3>2 DEF Decision
  <2>3. ASSUME NEW m \in Runs, NEW j \in Applicants, m # n \/ j # i
        PROVE  Approved(m, j)' <=> Approved(m, j)
    BY <2>1, <2>3 DEF OnlyChanges, Approved
  <2>. QED
    BY <2>2, <2>3 DEF OnePlacement
<1>. QED
  BY <1>1, <1>2, OnlyDecisionsApprove

\* One approved placement per applicant, whatever the history of runs,
\* proposals, moves, rejections and approvals, when requests do not overlap.
THEOREM OnePlacementHolds == Spec => []OnePlacement
<1>1. Init => OnePlacement
  BY DEF Init, OnePlacement, Approved
<1>. QED
  BY <1>1, OnePlacementStep, TypeCorrect, PTL DEF Spec
-----------------------------------------------------------------------------
(* Capacity *)

\* Before a decision fills a seat of role t, the role has a free seat.
LEMMA DecisionFindsFreeSeat ==
    ASSUME TypeOK, NEW n \in Runs, NEW i \in Applicants, Decision(n, i), NEW t \in Roles,
           i \in Occupants(t, Runs)', i \notin Occupants(t, Runs)
    PROVE  Cardinality(Occupants(t, Runs)) < capacity[t]
<1>1. OnlyChanges(n, i)
  BY DecisionChangesOneRow
<1>2. /\ Approved(n, i)'
      /\ row'[n][i].role = t
      /\ ~ (Approved(n, i) /\ row[n][i].role = t)
  BY <1>1 DEF OnlyChanges, Occupants, Approved
<1>3. Occupants(t, Runs) \ {i} = Occupants(t, Runs)
  OBVIOUS
<1>4. CASE CheckApproval(n, i, t)
  BY <1>3, <1>4 DEF CheckApproval
<1>5. CASE CheckOverride(n, i, t) /\ row[n][i].role # t
  <2>1. Cardinality(InRun(n, t)) + Cardinality(Elsewhere(n, t)) < capacity[t]
    BY <1>5 DEF CheckOverride
  <2>2. Occupants(t, Runs) \subseteq InRun(n, t) \cup Elsewhere(n, t)
    BY DEF Occupants, InRun, Elsewhere, Approved
  <2>3. /\ IsFiniteSet(InRun(n, t)) /\ Cardinality(InRun(n, t)) \in Nat
        /\ IsFiniteSet(Elsewhere(n, t)) /\ Cardinality(Elsewhere(n, t)) \in Nat
    BY InRunFinite, OccupantsFinite DEF Elsewhere
  <2>4. /\ IsFiniteSet(InRun(n, t) \cup Elsewhere(n, t))
        /\ Cardinality(InRun(n, t) \cup Elsewhere(n, t)) =
              Cardinality(InRun(n, t)) + Cardinality(Elsewhere(n, t))
                  - Cardinality(InRun(n, t) \cap Elsewhere(n, t))
    BY <2>3, FS_Union
  <2>5. Cardinality(InRun(n, t) \cap Elsewhere(n, t)) \in Nat
    BY <2>3, FS_Intersection, FS_CardinalityType
  <2>6. Cardinality(Occupants(t, Runs)) <= Cardinality(InRun(n, t) \cup Elsewhere(n, t))
    BY <2>2, <2>4, FS_Subset
  <2>7. Cardinality(Occupants(t, Runs)) \in Nat
    BY OccupantsFinite
  <2>8. capacity[t] \in Int
    BY PlacementAssumption DEF TypeOK
  <2>. QED
    BY <2>1, <2>3, <2>4, <2>5, <2>6, <2>7, <2>8
<1>6. ASSUME NEW r \in Roles, AssignManually(n, i, r) PROVE CheckApproval(n, i, t)
  <2>1. row'[n][i].role = r
    BY <1>6 DEF AssignManually, TypeOK
  <2>. QED
    BY <1>2, <1>6, <2>1 DEF AssignManually
<1>7. ASSUME NEW r \in Roles \cup {NoRole}, NEW s \in RowStatus \ {"none"}, Patch(n, i, r, s)
      PROVE  CheckApproval(n, i, t) \/ (CheckOverride(n, i, t) /\ row[n][i].role # t)
  <2> DEFINE role == IF r = NoRole THEN row[n][i].role ELSE r
  <2>1. row' = [row EXCEPT ![n][i] = [row[n][i] EXCEPT !.status = s, !.role = role]]
    BY <1>7 DEF Patch
  <2>2. row[n][i] \in Row
    BY DEF TypeOK
  <2>3. row'[n][i].status = s /\ row'[n][i].role = role
    <3>. HIDE DEF role
    <3>. QED
      BY <2>1, <2>2 DEF TypeOK, Row
  <2>4. s = "approved" /\ role = t
    BY <1>2, <2>3 DEF Approved
  <2>5. CASE row[n][i].status # "approved"
    BY <1>7, <2>4, <2>5 DEF Patch
  <2>6. CASE row[n][i].status = "approved"
    <3>1. Approved(n, i)
      BY <1>1, <1>2, <2>6 DEF Approved, OnlyChanges
    <3>2. row[n][i].role # t
      BY <1>2, <3>1
    <3>3. r = t /\ r # NoRole
      BY <2>4, <3>2
    <3>. QED
      BY <1>7, <3>2, <3>3 DEF Patch
  <2>. QED
    BY <2>5, <2>6
<1>. QED
  BY <1>4, <1>5, <1>6, <1>7 DEF Decision

\* In each step a role's approved placements stay as many or fewer, or are
\* within its capacity after the step.
LEMMA SeatRule ==
    ASSUME TypeOK, [Next]_vars, NEW t \in Roles
    PROVE  Filled(t)' <= Filled(t) \/ Filled(t)' <= capacity'[t]
<1>1. /\ IsFiniteSet(Occupants(t, Runs)) /\ Cardinality(Occupants(t, Runs)) \in Nat
  BY OccupantsFinite
<1>2. ASSUME Occupants(t, Runs)' \subseteq Occupants(t, Runs)
      PROVE  Filled(t)' <= Filled(t)
  BY <1>1, <1>2, FS_Subset DEF Filled
<1>3. CASE NoNewApproval
  <2>1. Occupants(t, Runs)' \subseteq Occupants(t, Runs)
    BY <1>3 DEF NoNewApproval, Occupants
  <2>. QED
    BY <1>2, <2>1
<1>4. ASSUME NEW n \in Runs, NEW i \in Applicants, Decision(n, i)
      PROVE  Filled(t)' <= Filled(t) \/ Filled(t)' <= capacity'[t]
  <2>1. OnlyChanges(n, i)
    BY <1>4, DecisionChangesOneRow
  <2>2. Occupants(t, Runs)' \subseteq Occupants(t, Runs) \cup {i}
    BY <2>1 DEF OnlyChanges, Occupants, Approved
  <2>3. CASE i \in Occupants(t, Runs)' /\ i \notin Occupants(t, Runs)
    <3>1. Cardinality(Occupants(t, Runs)) < capacity[t]
      BY <1>4, <2>3, DecisionFindsFreeSeat
    <3>2. /\ IsFiniteSet(Occupants(t, Runs) \cup {i})
          /\ Cardinality(Occupants(t, Runs) \cup {i}) = Cardinality(Occupants(t, Runs)) + 1
      BY <1>1, <2>3, FS_AddElement
    <3>3. Cardinality(Occupants(t, Runs)') <= Cardinality(Occupants(t, Runs) \cup {i})
      BY <2>2, <3>2, FS_Subset
    <3>4. capacity'[t] = capacity[t] /\ capacity[t] \in Int
      BY <2>1, PlacementAssumption DEF OnlyChanges, TypeOK
    <3>5. Cardinality(Occupants(t, Runs)') \in Nat
      BY <2>2, <3>2, FS_Subset, FS_CardinalityType
    <3>. QED
      BY <1>1, <3>1, <3>2, <3>3, <3>4, <3>5 DEF Filled
  <2>4. CASE ~ (i \in Occupants(t, Runs)' /\ i \notin Occupants(t, Runs))
    BY <1>2, <2>2, <2>4
  <2>. QED
    BY <2>3, <2>4
<1>. QED
  BY <1>3, <1>4, OnlyDecisionsApprove

\* However managers edit capacities, no step fills a seat beyond the capacity.
THEOREM NeverOverfillsHolds == Spec => NeverOverfills
<1>1. ASSUME TypeOK, [Next]_vars
      PROVE  [\A r \in Roles : Filled(r)' > Filled(r) => Filled(r)' <= capacity'[r]]_vars
  BY <1>1, FilledIsNat, SeatRule
<1>. QED
  BY <1>1, TypeCorrect, PTL DEF Spec, NeverOverfills

\* A role that was not created yet has no seats.
NewRolesEmpty == \A r \in Roles : roleState[r] = "new" => capacity[r] = 0

\* Every step keeps the seats within capacity.
LEMMA CapacityStep ==
    ASSUME ~ MayShrink, TypeOK, CapacityRespected, NewRolesEmpty, [Next]_vars
    PROVE  (CapacityRespected /\ NewRolesEmpty)'
<1>1. ASSUME NEW r \in Roles
      PROVE  /\ Filled(r) \in Nat /\ Filled(r)' \in Nat
             /\ Filled(r) <= capacity[r]
             /\ capacity[r] \in Int
  <2>1. Filled(r) \in Nat /\ Filled(r)' \in Nat
    BY FilledIsNat
  <2>2. capacity[r] \in Int
    BY PlacementAssumption DEF TypeOK
  <2>. QED
    BY <2>1, <2>2 DEF CapacityRespected
<1>2. CASE capacity' = capacity /\ \A r \in Roles : roleState'[r] = "new" => roleState[r] = "new"
  <2>1. ASSUME NEW r \in Roles PROVE Filled(r)' <= capacity'[r]
    <3>1. Filled(r)' <= Filled(r) \/ Filled(r)' <= capacity'[r]
      BY SeatRule
    <3>. QED
      BY <1>1, <1>2, <3>1
  <2>. QED
    BY <1>2, <2>1 DEF CapacityRespected, NewRolesEmpty
<1>3. ASSUME NEW r \in Roles, CreateRole(r) \/ UpdateRole(r)
      PROVE  (CapacityRespected /\ NewRolesEmpty)'
  <2>1. ASSUME NEW t \in Roles PROVE Filled(t)' = Filled(t)
    BY <1>3 DEF CreateRole, UpdateRole, runVars, Filled, Occupants, Approved
  <2>2. PICK c \in 1 .. MaxCapacity :
           /\ capacity' = [capacity EXCEPT ![r] = c]
           /\ Filled(r) <= c
    <3>1. CASE CreateRole(r)
      <4>1. Filled(r) <= 0
        BY <1>1, <3>1 DEF CreateRole, NewRolesEmpty
      <4>2. PICK c \in 1 .. MaxCapacity : capacity' = [capacity EXCEPT ![r] = c]
        BY <3>1 DEF CreateRole
      <4>3. Filled(r) <= c
        BY <1>1, <4>1, PlacementAssumption
      <4>. QED
        BY <4>2, <4>3
    <3>2. CASE UpdateRole(r)
      BY <3>2 DEF UpdateRole
    <3>. QED
      BY <1>3, <3>1, <3>2
  <2>3. CapacityRespected'
    BY <1>1, <2>1, <2>2 DEF CapacityRespected, TypeOK
  <2>4. \A t \in Roles : roleState'[t] = "new" => t # r /\ roleState[t] = "new"
    BY <1>3 DEF CreateRole, UpdateRole, TypeOK
  <2>. QED
    BY <2>2, <2>3, <2>4 DEF NewRolesEmpty, TypeOK
<1>4. ASSUME ~ \E r \in Roles : CreateRole(r) \/ UpdateRole(r)
      PROVE  capacity' = capacity /\ \A r \in Roles : roleState'[r] = "new" => roleState[r] = "new"
  <2>1. CASE \E i \in Applicants : ApplicantStatus(i)
    BY <2>1 DEF ApplicantStatus, roleVars
  <2>2. CASE \E r \in Roles : DeleteRole(r)
    BY <2>2 DEF DeleteRole, TypeOK
  <2>3. CASE \E n \in Runs : TaskStep(n)
    BY <2>3 DEF TaskStep, StartRun, LoadRun, CompleteRun, FailRun, roleVars
  <2>4. CASE \E n \in Runs, selected \in SUBSET Roles, requested \in SUBSET Applicants :
                CreateRun(n, selected, requested)
    BY <2>4 DEF CreateRun, roleVars
  <2>5. CASE \E n \in Runs, i \in Applicants : Decision(n, i)
    BY <2>5, ZenonT(40) DEF Decision, AssignManually, Patch, roleVars
  <2>6. CASE Crash \/ (\E n \in Runs : LoseTask(n)) \/ UNCHANGED vars
    BY <2>6 DEF Crash, LoseTask, vars, roleVars
  <2>. QED
    BY <1>4, <2>1, <2>2, <2>3, <2>4, <2>5, <2>6 DEF Next, Decision
<1>. QED
  BY <1>2, <1>3, <1>4

\* Approvals never exceed a role's capacity, across all runs, as long as
\* managers do not lower a capacity below the seats in use.
THEOREM CapacityRespectedHolds == ASSUME ~ MayShrink PROVE Spec => []CapacityRespected
<1>1. Init => CapacityRespected /\ NewRolesEmpty
  <2>. SUFFICES ASSUME Init, NEW r \in Roles PROVE Filled(r) <= capacity[r] /\ capacity[r] = 0
    BY DEF CapacityRespected, NewRolesEmpty
  <2>1. Occupants(r, Runs) = {}
    BY DEF Init, Occupants, Approved
  <2>. QED
    BY <2>1, FS_EmptySet DEF Init, Filled
<1>2. TypeOK /\ CapacityRespected /\ NewRolesEmpty /\ [Next]_vars
         => (CapacityRespected /\ NewRolesEmpty)'
  BY CapacityStep
<1>. QED
  BY <1>1, <1>2, TypeCorrect, PTL DEF Spec
-----------------------------------------------------------------------------
(* Assignments stay inside their run *)

\* A background task works on the run it was started for, and what it loaded
\* is part of that run's configuration.
TaskFollowsRun ==
    \A n \in Runs :
        /\ task[n] = "waiting" => run[n].status = "queued"
        /\ task[n] \in {"started", "optimizing"} => run[n].status = "running"
        /\ task[n] = "optimizing" => /\ loaded[n].roles \subseteq RunRoles(n)
                                     /\ loaded[n].applicants \subseteq run[n].applicants

RowsInv == RowsWithinRun /\ TaskFollowsRun

\* RowsInv for the run m alone: each step touches one run.
RunInv(m) ==
    /\ \A i \in Applicants :
          row[m][i].status # "none" => /\ run[m].status = "completed"
                                       /\ i \in run[m].applicants
                                       /\ row[m][i].role \in RunRoles(m)
                                       /\ row[m][i].solver \in RunRoles(m)
    /\ task[m] = "waiting" => run[m].status = "queued"
    /\ task[m] \in {"started", "optimizing"} => run[m].status = "running"
    /\ task[m] = "optimizing" => /\ loaded[m].roles \subseteq RunRoles(m)
                                 /\ loaded[m].applicants \subseteq run[m].applicants

\* The invariant of the rows is that of each run.
LEMMA RunByRun == RowsInv <=> \A m \in Runs : RunInv(m)
BY DEF RowsInv, RowsWithinRun, TaskFollowsRun, RunInv

\* Every step keeps the invariant of the rows.
LEMMA RowsStep ==
    ASSUME TypeOK, RowsInv, [Next]_vars
    PROVE  RowsInv'
<1> SUFFICES ASSUME NEW m \in Runs PROVE RunInv(m)'
  BY DEF RowsInv, RowsWithinRun, TaskFollowsRun, RunInv
<1>0. RunInv(m)
  BY RunByRun
<1>1. CASE run'[m] = run[m] /\ task'[m] = task[m] /\ loaded'[m] = loaded[m] /\ row'[m] = row[m]
  BY <1>0, <1>1 DEF RunInv, RunRoles
<1>2. CASE StartRun(m)
  BY <1>0, <1>2 DEF StartRun, RunInv, RunRoles, TypeOK, Run
<1>3. CASE LoadRun(m)
  <2>1. row' = row /\ task[m] = "started" /\ run[m].status = "running"
    BY <1>0, <1>3 DEF LoadRun, RunInv
  <2>2. CASE EndTask(m, "failed")
    BY <1>0, <2>1, <2>2 DEF EndTask, RunInv, RunRoles, TypeOK, Run
  <2>3. CASE /\ loaded'[m].roles \subseteq RunRoles(m)
             /\ loaded'[m].applicants \subseteq run[m].applicants
             /\ task'[m] = "optimizing"
             /\ run' = run
    BY <1>0, <2>1, <2>3 DEF RunInv, RunRoles
  <2>. QED
    BY <1>3, <2>2, <2>3 DEF LoadRun, TypeOK
<1>4. CASE CompleteRun(m)
  <2>1. PICK f \in Proposals(m) :
           row' = [row EXCEPT ![m] = [i \in Applicants |->
                     IF i \in loaded[m].applicants /\ f[i] # NoRole
                     THEN [status |-> "proposed", role |-> f[i], solver |-> f[i]]
                     ELSE NoRow]]
    BY <1>4 DEF CompleteRun
  <2>2. ASSUME NEW i \in Applicants, row'[m][i].status # "none"
        PROVE  /\ i \in loaded[m].applicants
               /\ row'[m][i].role = f[i] /\ row'[m][i].solver = f[i]
               /\ f[i] # NoRole
    BY <2>1, <2>2 DEF TypeOK, NoRow
  <2>3. ASSUME NEW i \in loaded[m].applicants, f[i] # NoRole PROVE f[i] \in loaded[m].roles
    BY <2>1, <2>3 DEF Proposals
  <2>4. EndTask(m, "completed") /\ loaded' = loaded /\ task[m] = "optimizing"
    BY <1>4 DEF CompleteRun
  <2>5. /\ run'[m].status = "completed" /\ run'[m].seats = run[m].seats
        /\ run'[m].applicants = run[m].applicants /\ task'[m] = "none"
    BY <2>4 DEF EndTask, TypeOK, Run
  <2>. QED
    BY <1>0, <2>2, <2>3, <2>4, <2>5 DEF RunInv, RunRoles
<1>5. CASE FailRun(m)
  BY <1>0, <1>5 DEF FailRun, EndTask, RunInv, RunRoles, TypeOK, Run
<1>6. ASSUME NEW selected \in SUBSET Roles, NEW requested \in SUBSET Applicants,
             CreateRun(m, selected, requested)
      PROVE  RunInv(m)'
  <2>1. /\ run[m].status = "new" /\ row' = row
        /\ run'[m].status = "queued" /\ task'[m] = "waiting"
    BY <1>6 DEF CreateRun, TypeOK
  <2>. QED
    BY <1>0, <2>1 DEF RunInv
<1>7. CASE Crash \/ \E n \in Runs : LoseTask(n)
  <2>1. run' = run /\ row' = row /\ loaded' = loaded /\ task'[m] \in {task[m], "lost"}
    BY <1>7 DEF Crash, LoseTask, TypeOK
  <2>. QED
    BY <1>0, <2>1 DEF RunInv, RunRoles
<1>8. ASSUME NEW i \in Applicants, NEW r \in Roles, AssignManually(m, i, r)
      PROVE  RunInv(m)'
  BY <1>0, <1>8 DEF AssignManually, RunInv, RunRoles, TypeOK, runVars
<1>9. ASSUME NEW i \in Applicants, NEW r \in Roles \cup {NoRole},
             NEW s \in RowStatus \ {"none"}, Patch(m, i, r, s)
      PROVE  RunInv(m)'
  <2> DEFINE role == IF r = NoRole THEN row[m][i].role ELSE r
  <2>1. row' = [row EXCEPT ![m][i] = [row[m][i] EXCEPT !.status = s, !.role = role]]
    BY <1>9 DEF Patch
  <2>2. row[m][i].status # "none" /\ run' = run /\ task' = task /\ loaded' = loaded
    BY <1>9 DEF Patch, runVars
  <2>3. role \in RunRoles(m)
    BY <1>0, <1>9, <2>2 DEF Patch, CheckOverride, RunInv
  <2>4. ASSUME NEW j \in Applicants
        PROVE  \/ row'[m][j] = row[m][j]
               \/ j = i /\ row'[m][j].role = role /\ row'[m][j].solver = row[m][i].solver
    <3>. HIDE DEF role
    <3>. QED
      BY <2>1 DEF TypeOK, Row
  <2>. HIDE DEF role
  <2>. QED
    BY <1>0, <2>2, <2>3, <2>4 DEF RunInv, RunRoles
<1>10. ASSUME ~ TaskStep(m), ~ Crash, ~ \E n \in Runs : LoseTask(n),
              ~ \E selected \in SUBSET Roles, requested \in SUBSET Applicants :
                    CreateRun(m, selected, requested),
              ~ \E i \in Applicants : Decision(m, i)
       PROVE  run'[m] = run[m] /\ task'[m] = task[m] /\ loaded'[m] = loaded[m] /\ row'[m] = row[m]
  <2>1. CASE \E i \in Applicants : ApplicantStatus(i)
    BY <2>1 DEF ApplicantStatus, runVars
  <2>2. CASE \E r \in Roles : CreateRole(r) \/ UpdateRole(r) \/ DeleteRole(r)
    BY <2>2 DEF CreateRole, UpdateRole, DeleteRole, runVars
  <2>3. ASSUME NEW n \in Runs \ {m}, TaskStep(n)
        PROVE  run'[m] = run[m] /\ task'[m] = task[m] /\ loaded'[m] = loaded[m] /\ row'[m] = row[m]
    BY <2>3 DEF TaskStep, StartRun, LoadRun, CompleteRun, FailRun, EndTask, TypeOK
  <2>4. ASSUME NEW n \in Runs \ {m}, NEW selected \in SUBSET Roles,
               NEW requested \in SUBSET Applicants, CreateRun(n, selected, requested)
        PROVE  run'[m] = run[m] /\ task'[m] = task[m] /\ loaded'[m] = loaded[m] /\ row'[m] = row[m]
    BY <2>4 DEF CreateRun, TypeOK
  <2>5. ASSUME NEW n \in Runs \ {m}, NEW i \in Applicants, Decision(n, i)
        PROVE  run'[m] = run[m] /\ task'[m] = task[m] /\ loaded'[m] = loaded[m] /\ row'[m] = row[m]
    BY <2>5 DEF Decision, AssignManually, Patch, runVars, TypeOK
  <2>6. CASE UNCHANGED vars
    BY <2>6 DEF vars
  <2>. QED
    BY <1>10, <2>1, <2>2, <2>3, <2>4, <2>5, <2>6 DEF Next, Decision
<1>. QED
  BY <1>1, <1>2, <1>3, <1>4, <1>5, <1>6, <1>7, <1>8, <1>9, <1>10 DEF TaskStep, Decision

\* The invariant of the rows holds in every reachable state.
LEMMA RowsInvHolds == Spec => []RowsInv
<1>1. Init => RowsInv
  BY DEF Init, RowsInv, RowsWithinRun, TaskFollowsRun, NoRow
<1>. QED
  BY <1>1, RowsStep, TypeCorrect, PTL DEF Spec

\* Every assignment belongs to a completed run and names an applicant and
\* roles of its configuration, after any overrides and manual placements.
THEOREM RowsWithinRunHolds == Spec => []RowsWithinRun
BY RowsInvHolds, PTL DEF RowsInv
-----------------------------------------------------------------------------
(* The seat ledger *)

LedgerInv == TypeOK /\ OnePlacement /\ RowsInv

\* The types, the one placement and the rows hold together.
LEMMA LedgerInvHolds == Spec => []LedgerInv
BY TypeCorrect, OnePlacementHolds, RowsInvHolds, PTL DEF LedgerInv

\* The seat an applicant holds is the role of the one approved placement.
HolderIsPlacement ==
    \A i \in Applicants :
        /\ \A n \in Runs : Approved(n, i) => Holder[i] = row[n][i].role /\ Holder[i] \in Roles
        /\ i \notin Placed => Holder[i] = NoRole

\* What the seat of an applicant is, by the rows.
LEMMA HolderValue ==
    ASSUME LedgerInv
    PROVE  HolderIsPlacement
<1> SUFFICES ASSUME NEW i \in Applicants
             PROVE  /\ \A n \in Runs : Approved(n, i) => Holder[i] = row[n][i].role /\ Holder[i] \in Roles
                    /\ i \notin Placed => Holder[i] = NoRole
  BY DEF HolderIsPlacement
<1>1. ASSUME NEW n \in Runs, Approved(n, i)
      PROVE  Holder[i] = row[n][i].role /\ Holder[i] \in Roles
  <2>1. row[n][i].role \in Roles
    BY <1>1 DEF LedgerInv, RowsInv, RowsWithinRun, RunRoles, Approved
  <2>2. \A r \in Roles : (\E m \in Runs : Approved(m, i) /\ row[m][i].role = r) <=> r = row[n][i].role
    BY <1>1, <2>1 DEF LedgerInv, OnePlacement
  <2>3. i \in Placed
    BY <1>1 DEF Placed
  <2>4. Holder[i] = CHOOSE r \in Roles : \E m \in Runs : Approved(m, i) /\ row[m][i].role = r
    BY <2>3 DEF Holder
  <2>. QED
    BY <2>1, <2>2, <2>4
<1>2. ASSUME i \notin Placed PROVE Holder[i] = NoRole
  BY <1>2 DEF Holder
<1>. QED
  BY <1>1, <1>2

\* The holder of a seat is the applicant with the approved placement.
LEMMA HolderIsPlacementHolds == Spec => []HolderIsPlacement
BY LedgerInvHolds, HolderValue, PTL

\* The same applicants are approved, in the same roles, as before.
SameApprovals == \A m \in Runs, j \in Applicants :
                    /\ Approved(m, j)' <=> Approved(m, j)
                    /\ Approved(m, j) => row'[m][j] = row[m][j]

\* Runs, restarts, role and applicant edits neither approve nor release: a
\* background task only writes to a run that is not completed yet.
LEMMA OnlyDecisionsDecide ==
    ASSUME TypeOK, RowsInv, [Next]_vars
    PROVE  SameApprovals \/ \E n \in Runs, i \in Applicants : Decision(n, i)
<1> USE DEF SameApprovals, Approved
<1>1. CASE UNCHANGED <<run, row>>
  BY <1>1
<1>2. ASSUME NEW n \in Runs, run[n].status # "completed", run'[n].status # "completed",
             \A m \in Runs \ {n} : run'[m] = run[m], row' = row
      PROVE  SameApprovals
  BY <1>2
<1>3. ASSUME NEW n \in Runs, StartRun(n) PROVE SameApprovals
  <2>1. run[n].status = "queued" /\ run'[n].status = "running" /\ row' = row
    BY <1>3 DEF StartRun, TypeOK, Run
  <2>2. \A m \in Runs \ {n} : run'[m] = run[m]
    BY <1>3 DEF StartRun, TypeOK
  <2>. QED
    BY <1>2, <2>1, <2>2
<1>4. ASSUME NEW n \in Runs, LoadRun(n) \/ FailRun(n) PROVE SameApprovals
  <2>1. run[n].status = "running" /\ row' = row /\ (run' = run \/ EndTask(n, "failed"))
    BY <1>4 DEF LoadRun, FailRun, RowsInv, TaskFollowsRun
  <2>2. ASSUME EndTask(n, "failed")
        PROVE  run'[n].status = "failed" /\ \A m \in Runs \ {n} : run'[m] = run[m]
    BY <2>2 DEF EndTask, TypeOK, Run
  <2>. QED
    BY <1>1, <1>2, <2>1, <2>2
<1>5. ASSUME NEW n \in Runs, CompleteRun(n) PROVE SameApprovals
  <2>1. ASSUME NEW j \in Applicants PROVE row'[n][j].status # "approved"
    BY <1>5 DEF CompleteRun, TypeOK, NoRow
  <2>2. ASSUME NEW m \in Runs \ {n} PROVE row'[m] = row[m] /\ run'[m] = run[m]
    BY <1>5 DEF CompleteRun, EndTask, TypeOK
  <2>3. run[n].status = "running"
    BY <1>5 DEF CompleteRun, RowsInv, TaskFollowsRun
  <2>. QED
    BY <2>1, <2>2, <2>3
<1>6. ASSUME NEW n \in Runs, NEW selected \in SUBSET Roles, NEW requested \in SUBSET Applicants,
             CreateRun(n, selected, requested)
      PROVE  SameApprovals
  <2>1. run[n].status = "new" /\ run'[n].status = "queued" /\ row' = row
    BY <1>6 DEF CreateRun, TypeOK
  <2>2. \A m \in Runs \ {n} : run'[m] = run[m]
    BY <1>6 DEF CreateRun, TypeOK
  <2>. QED
    BY <1>2, <2>1, <2>2
<1>7. CASE Crash \/ (\E n \in Runs : LoseTask(n)) \/ UNCHANGED vars
  BY <1>1, <1>7 DEF Crash, LoseTask, vars
<1>8. CASE \E i \in Applicants : ApplicantStatus(i)
  BY <1>1, <1>8 DEF ApplicantStatus, runVars
<1>9. CASE \E r \in Roles : CreateRole(r) \/ UpdateRole(r) \/ DeleteRole(r)
  BY <1>1, <1>9 DEF CreateRole, UpdateRole, DeleteRole, runVars
<1>. QED
  BY <1>3, <1>4, <1>5, <1>6, <1>7, <1>8, <1>9 DEF Next, TaskStep, Decision

\* Only role edits touch a capacity.
LEMMA CapacityChange ==
    ASSUME TypeOK, TypeOK', [Next]_vars
    PROVE  UNCHANGED capacity \/ \E r \in Roles, c \in 0 .. MaxCapacity :
                                     capacity' = [capacity EXCEPT ![r] = c]
<1>1. CASE \E r \in Roles : CreateRole(r) \/ UpdateRole(r)
  BY <1>1, PlacementAssumption DEF CreateRole, UpdateRole
<1>2. CASE \E r \in Roles : DeleteRole(r)
  BY <1>2 DEF DeleteRole
<1>3. CASE \E i \in Applicants : ApplicantStatus(i)
  BY <1>3 DEF ApplicantStatus, roleVars
<1>4. CASE \E n \in Runs : TaskStep(n)
  BY <1>4 DEF TaskStep, StartRun, LoadRun, CompleteRun, FailRun, roleVars
<1>5. CASE \E n \in Runs, selected \in SUBSET Roles, requested \in SUBSET Applicants :
              CreateRun(n, selected, requested)
  BY <1>5 DEF CreateRun, roleVars
<1>6. CASE \E n \in Runs, i \in Applicants : Decision(n, i)
  BY <1>6, ZenonT(40) DEF Decision, AssignManually, Patch, roleVars
<1>7. CASE Crash \/ (\E n \in Runs : LoseTask(n)) \/ UNCHANGED vars
  BY <1>7 DEF Crash, LoseTask, vars, roleVars
<1>. QED
  BY <1>1, <1>2, <1>3, <1>4, <1>5, <1>6, <1>7 DEF Next, Decision

\* A role's occupants in the ledger are its approved placements.
LEMMA LedgerOccupants ==
    ASSUME HolderIsPlacement, NEW t \in Roles
    PROVE  Ledger!Occupants(t) = Occupants(t, Runs)
<1>1. ASSUME NEW i \in Applicants
      PROVE  Holder[i] = t <=> \E n \in Runs : Approved(n, i) /\ row[n][i].role = t
  <2>1. CASE i \in Placed
    BY <2>1 DEF HolderIsPlacement, Placed
  <2>2. CASE i \notin Placed
    BY <2>2, PlacementAssumption DEF HolderIsPlacement, Placed
  <2>. QED
    BY <2>1, <2>2
<1>. QED
  BY <1>1 DEF Ledger!Occupants, Occupants

\* Every step is a step of the ledger or leaves it alone.
LEMMA LedgerStep ==
    ASSUME LedgerInv, LedgerInv', HolderIsPlacement, HolderIsPlacement', [Next]_vars
    PROVE  [Ledger!Next]_(Ledger!vars)
<1> USE DEF LedgerInv
<1>1. ASSUME NEW i \in Applicants, \A m \in Runs : /\ Approved(m, i)' <=> Approved(m, i)
                                                   /\ Approved(m, i) => row'[m][i] = row[m][i]
      PROVE  Holder'[i] = Holder[i]
  <2>1. CASE i \in Placed
    BY <1>1, <2>1 DEF HolderIsPlacement, Placed
  <2>2. CASE i \notin Placed
    BY <1>1, <2>2 DEF HolderIsPlacement, Placed
  <2>. QED
    BY <2>1, <2>2
<1>2. CASE SameApprovals
  <2>1. \A i \in Applicants : Holder'[i] = Holder[i]
    BY <1>1, <1>2 DEF SameApprovals
  <2>2. Holder' = Holder
    BY <2>1 DEF Holder
  <2>3. CASE UNCHANGED capacity
    BY <2>2, <2>3 DEF Ledger!vars
  <2>4. ASSUME NEW r \in Roles, NEW c \in 0 .. MaxCapacity, capacity' = [capacity EXCEPT ![r] = c]
        PROVE  Ledger!Next
    BY <2>2, <2>4 DEF Ledger!Next, Ledger!Resize
  <2>. QED
    BY <2>3, <2>4, CapacityChange
<1>3. ASSUME NEW n \in Runs, NEW i \in Applicants, Decision(n, i)
      PROVE  [Ledger!Next]_(Ledger!vars)
  <2>1. OnlyChanges(n, i)
    BY <1>3, DecisionChangesOneRow
  <2>2. ASSUME NEW j \in Applicants \ {i} PROVE Holder'[j] = Holder[j]
    BY <1>1, <2>1 DEF OnlyChanges, Approved
  <2>3. /\ Holder' = [Holder EXCEPT ![i] = Holder'[i]]
        /\ UNCHANGED capacity
    <3>1. /\ Holder = [j \in Applicants |-> Holder[j]]
          /\ Holder' = [j \in Applicants |-> Holder'[j]]
      BY DEF Holder
    <3>2. \A j \in Applicants : Holder'[j] = [Holder EXCEPT ![i] = Holder'[i]][j]
      BY <2>2, <3>1
    <3>. QED
      BY <2>1, <3>1, <3>2 DEF OnlyChanges
  <2>4. Holder'[i] \in Roles \cup {NoRole} /\ Holder[i] \in Roles \cup {NoRole}
    BY DEF HolderIsPlacement, Placed
  <2>5. CASE Holder'[i] = Holder[i]
    <3>1. \A j \in Applicants : Holder'[j] = Holder[j]
      BY <2>2, <2>5
    <3>2. Holder' = Holder
      BY <3>1 DEF Holder
    <3>. QED
      BY <2>3, <3>2 DEF Ledger!vars
  <2>6. CASE Holder'[i] = NoRole /\ Holder[i] # NoRole
    BY <2>3, <2>6 DEF Ledger!Next, Ledger!Release
  <2>7. CASE Holder'[i] \in Roles /\ Holder'[i] # Holder[i]
    <3>1. PICK t \in Roles : t = Holder'[i] /\ t # NoRole /\ t # Holder[i]
      BY <2>7, PlacementAssumption
    <3>2. i \in Occupants(t, Runs)'
      <4>1. i \in Placed'
        BY <3>1 DEF HolderIsPlacement
      <4>2. PICK m \in Runs : Approved(m, i)'
        BY <4>1 DEF Placed
      <4>3. row'[m][i].role = t
        BY <3>1, <4>2 DEF HolderIsPlacement
      <4>. QED
        BY <4>2, <4>3 DEF Occupants
    <3>3. i \notin Occupants(t, Runs)
      BY <3>1 DEF HolderIsPlacement, Occupants
    <3>4. Cardinality(Occupants(t, Runs)) < capacity[t]
      BY <1>3, <3>2, <3>3, DecisionFindsFreeSeat
    <3>5. Ledger!HasFreeSeat(t)
      <4>1. Ledger!Cardinality(Occupants(t, Runs)) = Cardinality(Occupants(t, Runs))
        BY DEF Ledger!Cardinality, Cardinality
      <4>. QED
        BY <3>4, <4>1, LedgerOccupants DEF Ledger!HasFreeSeat
    <3>6. Ledger!Take(i, t) \/ Ledger!Move(i, t)
      BY <2>3, <3>1, <3>5 DEF Ledger!Take, Ledger!Move
    <3>. QED
      BY <3>1, <3>6 DEF Ledger!Next
  <2>. QED
    BY <2>4, <2>5, <2>6, <2>7
<1>. QED
  BY <1>2, <1>3, OnlyDecisionsDecide

\* Every run of Placement is a run of SeatLedger: whatever managers and
\* background tasks do, seats are taken one at a time, by applicants who hold
\* none or give theirs up, and only while one is free.
THEOREM ImplementsLedgerHolds == Spec => ImplementsLedger
<1>1. Init => Ledger!Init
  <2>. SUFFICES ASSUME Init PROVE Ledger!Init
    OBVIOUS
  <2>1. \A i \in Applicants : i \notin Placed
    BY DEF Init, Placed, Approved
  <2>2. Holder = [i \in Applicants |-> NoRole]
    BY <2>1 DEF Holder
  <2>3. capacity \in [Roles -> 0 .. MaxCapacity]
    BY InitType DEF TypeOK
  <2>. QED
    BY <2>2, <2>3 DEF Ledger!Init
<1>2. LedgerInv /\ LedgerInv' /\ HolderIsPlacement /\ HolderIsPlacement' /\ [Next]_vars
         => [Ledger!Next]_(Ledger!vars)
  BY LedgerStep
<1>. QED
  BY <1>1, <1>2, LedgerInvHolds, HolderIsPlacementHolds, PTL DEF Spec, ImplementsLedger, Ledger!Spec
-----------------------------------------------------------------------------
(* Concurrent requests: types *)

\* Initially no request is in flight.
LEMMA RInitType == RInit => RTypeOK
BY InitType DEF RInit, RTypeOK, Idle, Request, NoRow, Row, RowStatus

\* What a request that patches an assignment writes.
Patched(q) ==
    LET w == req[q]
    IN  [row[w.n][w.i] EXCEPT !.status = IF w.s = w.seen.status THEN @ ELSE w.s,
                              !.role = IF Target(w) = w.seen.role THEN @ ELSE Target(w)]

\* It is a row, in the role of the row or in a role the request was about.
LEMMA PatchedIsRow ==
    ASSUME RTypeOK, NEW q \in Requests, req[q].n \in Runs, req[q].i \in Applicants
    PROVE  /\ Patched(q) \in Row
           /\ Patched(q).solver = row[req[q].n][req[q].i].solver
<1> DEFINE w == req[q]
           old == row[w.n][w.i]
<1>1. w \in Request /\ w.seen \in Row /\ old \in Row
  BY DEF RTypeOK, TypeOK, Request
<1>2. Target(w) \in Roles \cup {NoRole}
  BY <1>1 DEF Target, Request, Row
<1>3. /\ (IF w.s = w.seen.status THEN old.status ELSE w.s) \in RowStatus
      /\ (IF Target(w) = w.seen.role THEN old.role ELSE Target(w)) \in Roles \cup {NoRole}
  BY <1>1, <1>2 DEF Request, Row
<1> HIDE DEF w
<1>4. QED
  BY <1>1, <1>3 DEF Patched, Row, w

\* A request's commit writes one row, of a run and an applicant, and in a role
\* that exists; or nothing.
LEMMA CommitWrites ==
    ASSUME RTypeOK, NEW q \in Requests, CommitPatch(q) \/ CommitAssign(q)
    PROVE  /\ UNCHANGED <<ready, roleState, capacity, run, task, loaded>>
           /\ row' \in [Runs -> [Applicants -> Row]]
           /\ \A n \in Runs, i \in Applicants :
                 \/ row'[n][i] = row[n][i]
                 \/ /\ n = req[q].n /\ i = req[q].i
                    /\ Exists(row'[n][i].role)
                    /\ row'[n][i].solver \in {row[n][i].solver, row'[n][i].role}
<1> DEFINE w == req[q]
<1>1. w \in Request /\ row \in [Runs -> [Applicants -> Row]]
  BY DEF RTypeOK, TypeOK
<1>2. CASE w.n \notin Runs \/ w.i \notin Applicants
  <2>1. row' = row
    BY <1>1, <1>2, SMTT(30) DEF CommitPatch, CommitAssign
  <2>2. QED
    BY <1>1, <2>1 DEF CommitPatch, CommitAssign, roleVars, runVars
<1>3. CASE w.n \in Runs /\ w.i \in Applicants
  <2>1. CASE CommitPatch(q)
    <3>1. row' = [row EXCEPT ![w.n][w.i] = Patched(q)] /\ Exists(Patched(q).role)
      BY <2>1 DEF CommitPatch, Patched
    <3>2. Patched(q) \in Row /\ Patched(q).solver = row[w.n][w.i].solver
      BY <1>3, PatchedIsRow
    <3>3. UNCHANGED <<ready, roleState, capacity, run, task, loaded>>
      BY <2>1 DEF CommitPatch, roleVars, runVars
    <3>. HIDE DEF w
    <3>4. row' \in [Runs -> [Applicants -> Row]]
      BY <1>1, <1>3, <3>1, <3>2
    <3>5. /\ row'[w.n][w.i] = Patched(q)
          /\ \A n \in Runs, i \in Applicants : n # w.n \/ i # w.i => row'[n][i] = row[n][i]
      BY <1>1, <1>3, <3>1
    <3>6. QED
      BY <3>1, <3>2, <3>3, <3>4, <3>5 DEF w
  <2>2. CASE CommitAssign(q)
    <3>1. w.r \in Roles \cup {NoRole}
      BY <1>1 DEF Request
    <3>2. [status |-> "approved", role |-> w.r, solver |-> w.r] \in Row
      BY <3>1 DEF Row, RowStatus
    <3>3. QED
      BY <1>1, <1>3, <2>2, <3>2 DEF CommitAssign, roleVars, runVars
  <2>3. QED
    BY <2>1, <2>2
<1>4. QED
  BY <1>2, <1>3

\* Every step of the requests and the tasks keeps the types.
LEMMA RNextType == ASSUME RTypeOK, [RNext]_<<vars, req>> PROVE RTypeOK'
<1>1. ASSUME NEW q \in Requests, NEW op \in {"patch", "assign", "delete"}, NEW n \in Runs \cup {NoRun},
             NEW i \in Applicants \cup {NoApplicant}, NEW r \in Roles \cup {NoRole},
             NEW s \in RowStatus \ {"none"}, NEW seen \in Row, Begin(q, op, n, i, r, s, seen)
      PROVE  RTypeOK'
  <2>1. [phase |-> "begun", op |-> op, n |-> n, i |-> i, r |-> r, s |-> s, seen |-> seen] \in Request
    BY DEF Request
  <2>2. QED
    BY <1>1, <2>1 DEF Begin, RTypeOK, TypeOK, vars
<1>2. ASSUME NEW q \in Requests, RequestStep(q) PROVE RTypeOK'
  <2>1. row \in [Runs -> [Applicants -> Row]] /\ NoRow \in Row
    BY DEF RTypeOK, TypeOK, NoRow, Row, RowStatus
  <2>2. ASSUME NEW n \in Runs, NEW i \in Applicants, NEW r \in Roles \cup {NoRole},
               NEW s \in RowStatus \ {"none"}, BeginPatch(q, n, i, r, s)
        PROVE  RTypeOK'
    BY <1>1, <2>1, <2>2 DEF BeginPatch
  <2>3. ASSUME NEW n \in Runs, NEW i \in Applicants, NEW r \in Roles, BeginAssign(q, n, i, r)
        PROVE  RTypeOK'
    BY <1>1, <2>1, <2>3 DEF BeginAssign, RowStatus
  <2>4. ASSUME NEW r \in Roles, BeginDelete(q, r) PROVE RTypeOK'
    BY <1>1, <2>1, <2>4 DEF BeginDelete, RowStatus
  <2>5. CASE Check(q)
    <3>1. [req[q] EXCEPT !.phase = "checked"] \in Request
      BY DEF RTypeOK, Request
    <3>2. QED
      BY <2>5, <3>1 DEF Check, RTypeOK, TypeOK, vars
  <2>6. Idle \in Request
    BY <2>1 DEF Idle, Request, RowStatus
  <2>7. CASE Abort(q)
    BY <2>6, <2>7 DEF Abort, RTypeOK, TypeOK, vars
  <2>8. CASE CommitPatch(q) \/ CommitAssign(q)
    <3>1. req' = [req EXCEPT ![q] = Idle]
      BY <2>8 DEF CommitPatch, CommitAssign
    <3>2. QED
      BY <2>6, <2>8, <3>1, CommitWrites DEF RTypeOK, TypeOK
  <2>9. CASE CommitDelete(q)
    BY <2>6, <2>9 DEF CommitDelete, RTypeOK, TypeOK, runVars
  <2>10. QED
    BY <1>2, <2>2, <2>3, <2>4, <2>5, <2>7, <2>8, <2>9 DEF RequestStep
<1>3. CASE Background /\ UNCHANGED req
  BY <1>3, NextType DEF Background, Next, RTypeOK
<1>4. CASE RCrash
  BY <1>4, NextType, RInitType DEF RCrash, Next, RTypeOK, Idle, Request, NoRow, Row, RowStatus
<1>5. CASE UNCHANGED <<vars, req>>
  BY <1>5, NextType DEF RTypeOK
<1>6. QED
  BY <1>2, <1>3, <1>4, <1>5 DEF RNext

\* Every reachable state of the concurrent handlers is well typed.
LEMMA RTypeCorrect == RSpec => []RTypeOK
BY RInitType, RNextType, PTL DEF RSpec

-----------------------------------------------------------------------------
(* What concurrent requests leave of the runs and the roles *)

\* A request that writes an assignment is about one of a completed run, and
\* about roles of that run's configuration, from its first step to its commit.
Fits(q) ==
    LET w == req[q]
    IN  w.phase # "idle" /\ w.op # "delete" =>
          /\ w.n \in Runs /\ w.i \in Applicants
          /\ run[w.n].status = "completed" /\ w.i \in run[w.n].applicants
          /\ w.op = "assign" => w.r \in RunRoles(w.n)
          /\ w.op = "patch" => /\ row[w.n][w.i].status # "none"
                              /\ w.r \in RunRoles(w.n) \cup {NoRole}
                              /\ w.seen.role \in RunRoles(w.n)

HistoryInv == /\ RTypeOK /\ RowsInv /\ HistoryKeepsRoles
              /\ \A q \in Requests : Fits(q)

\* The tasks and the other handlers leave a completed run alone.
LEMMA CompletedStays ==
    ASSUME TypeOK, TaskFollowsRun, Background \/ Crash, NEW m \in Runs, run[m].status = "completed"
    PROVE  run'[m] = run[m] /\ loaded'[m] = loaded[m] /\ row'[m] = row[m]
<1>1. ASSUME NEW n \in Runs, TaskStep(n)
      PROVE  run'[m] = run[m] /\ loaded'[m] = loaded[m] /\ row'[m] = row[m]
  <2>1. n # m
    BY <1>1 DEF TaskStep, StartRun, LoadRun, CompleteRun, FailRun, TaskFollowsRun
  <2>2. QED
    BY <1>1, <2>1 DEF TaskStep, StartRun, LoadRun, CompleteRun, FailRun, EndTask, TypeOK
<1>2. ASSUME NEW n \in Runs, NEW selected, NEW requested, CreateRun(n, selected, requested)
      PROVE  run'[m] = run[m] /\ loaded'[m] = loaded[m] /\ row'[m] = row[m]
  BY <1>2 DEF CreateRun, TypeOK
<1>3. CASE UNCHANGED <<run, loaded, row>>
  BY <1>3
<1>4. QED
  BY <1>1, <1>2, <1>3 DEF Background, Crash, LoseTask, ApplicantStatus, CreateRole, UpdateRole, runVars

\* They keep every role that there is.
LEMMA RolesStay ==
    ASSUME TypeOK, Background \/ Crash, NEW r \in Roles, Exists(r)
    PROVE  Exists(r)'
<1>1. ASSUME NEW c \in Roles, CreateRole(c) \/ UpdateRole(c) PROVE Exists(r)'
  BY <1>1 DEF CreateRole, UpdateRole, Exists, TypeOK
<1>2. CASE UNCHANGED roleState
  BY <1>2 DEF Exists
<1>3. QED
  BY <1>1, <1>2 DEF Background, Crash, LoseTask, ApplicantStatus, TaskStep, StartRun, LoadRun, CompleteRun,
     FailRun, CreateRun, roleVars

\* A run that becomes completed names roles that its commit found.
LEMMA CompletedNames ==
    ASSUME TypeOK, RowsInv, Background \/ Crash, NEW m \in Runs, NEW r \in Roles,
           run[m].status # "completed", run'[m].status = "completed",
           \/ r \in loaded'[m].roles
           \/ \E i \in Applicants : r \in {row'[m][i].role, row'[m][i].solver}
    PROVE  Exists(r)
<1>1. CompleteRun(m)
  <2>1. ASSUME NEW n \in Runs, StartRun(n) \/ LoadRun(n) \/ FailRun(n) PROVE FALSE
    BY <2>1, ZenonT(40) DEF StartRun, LoadRun, FailRun, EndTask, TypeOK, Run
  <2>2. ASSUME NEW n \in Runs, n # m, CompleteRun(n) PROVE FALSE
    BY <2>2 DEF CompleteRun, EndTask, TypeOK
  <2>3. ASSUME NEW n \in Runs, NEW selected, NEW requested, CreateRun(n, selected, requested)
        PROVE  FALSE
    <3>1. run'[m] = run[m] \/ run'[m].status = "queued"
      BY <2>3 DEF CreateRun, TypeOK
    <3>2. QED
      BY <3>1
  <2>4. run' # run
    OBVIOUS
  <2>5. QED
    BY <2>1, <2>2, <2>3, <2>4 DEF Background, Crash, LoseTask, TaskStep, ApplicantStatus, CreateRole,
       UpdateRole, runVars
<1>2. PICK f \in Proposals(m) :
         row' = [row EXCEPT ![m] = [i \in Applicants |->
                   IF i \in loaded[m].applicants /\ f[i] # NoRole
                   THEN [status |-> "proposed", role |-> f[i], solver |-> f[i]]
                   ELSE NoRow]]
  BY <1>1 DEF CompleteRun
<1>3. \A i \in loaded[m].applicants : f[i] \in loaded[m].roles \cup {NoRole}
  BY <1>2 DEF Proposals
<1>4. \A i \in Applicants : /\ row'[m][i].role \in loaded[m].roles \cup {NoRole}
                            /\ row'[m][i].solver \in loaded[m].roles \cup {NoRole}
  BY <1>2, <1>3 DEF TypeOK, NoRow
<1>5. loaded'[m] = loaded[m] /\ \A c \in loaded[m].roles : Exists(c)
  BY <1>1 DEF CompleteRun
<1>6. QED
  BY <1>4, <1>5, PlacementAssumption

\* The tasks and the other handlers keep the invariant.
LEMMA BackgroundHistory ==
    ASSUME HistoryInv, Background \/ Crash, RTypeOK',
           \A q \in Requests : req'[q] \in {req[q], Idle}
    PROVE  HistoryInv'
<1>1. TypeOK /\ RowsInv /\ TaskFollowsRun /\ HistoryKeepsRoles
  BY DEF HistoryInv, RTypeOK, RowsInv
<1>2. RowsInv'
  BY <1>1, RowsStep DEF Background, Next
<1>3. HistoryKeepsRoles'
  <2> SUFFICES ASSUME NEW n \in Runs, NEW r \in Roles, run'[n].status = "completed",
                      \/ r \in loaded'[n].roles
                      \/ \E i \in Applicants : r \in {row'[n][i].role, row'[n][i].solver}
               PROVE  Exists(r)'
    BY DEF HistoryKeepsRoles, Exists
  <2>1. CASE run[n].status = "completed"
    BY <1>1, <2>1, CompletedStays, RolesStay DEF HistoryKeepsRoles
  <2>2. CASE run[n].status # "completed"
    BY <1>1, <2>2, CompletedNames, RolesStay
  <2>3. QED
    BY <2>1, <2>2
<1>4. ASSUME NEW q \in Requests PROVE Fits(q)'
  <2>1. Fits(q)
    BY DEF HistoryInv
  <2>2. CASE req'[q] = Idle
    BY <2>2 DEF Fits, Idle
  <2>3. CASE req'[q] = req[q] /\ req[q].phase # "idle" /\ req[q].op # "delete"
    <3>1. /\ run'[req[q].n] = run[req[q].n]
          /\ row'[req[q].n] = row[req[q].n]
      BY <1>1, <2>1, <2>3, CompletedStays DEF Fits
    <3>2. QED
      BY <2>1, <2>3, <3>1 DEF Fits, RunRoles
  <2>4. QED
    BY <2>2, <2>3 DEF Fits
<1>5. QED
  BY <1>2, <1>3, <1>4 DEF HistoryInv

\* What a commit of a request that fits writes stays inside the run.
LEMMA CommitFits ==
    ASSUME HistoryInv, NEW q \in Requests, CommitPatch(q) \/ CommitAssign(q)
    PROVE  \A n \in Runs, i \in Applicants :
              \/ row'[n][i] = row[n][i]
              \/ /\ run[n].status = "completed" /\ i \in run[n].applicants
                 /\ row'[n][i].status # "none"
                 /\ row'[n][i].role \in RunRoles(n) /\ row'[n][i].solver \in RunRoles(n)
                 /\ Exists(row'[n][i].role)
                 /\ row'[n][i].solver \in {row[n][i].solver, row'[n][i].role}
<1> DEFINE w == req[q]
<1>1. w \in Request /\ row \in [Runs -> [Applicants -> Row]] /\ Fits(q)
  BY DEF HistoryInv, RTypeOK, TypeOK
<1>2. /\ w.n \in Runs /\ w.i \in Applicants
      /\ run[w.n].status = "completed" /\ w.i \in run[w.n].applicants
  BY <1>1 DEF Fits, CommitPatch, CommitAssign
<1>3. CASE CommitPatch(q)
  <2>1. /\ row' = [row EXCEPT ![w.n][w.i] = Patched(q)] /\ Exists(Patched(q).role)
        /\ w.op = "patch" /\ w.phase # "idle"
    BY <1>3 DEF CommitPatch, Patched
  <2>2. /\ Patched(q).status = IF w.s = w.seen.status THEN row[w.n][w.i].status ELSE w.s
        /\ Patched(q).role = IF Target(w) = w.seen.role THEN row[w.n][w.i].role ELSE Target(w)
        /\ Patched(q).solver = row[w.n][w.i].solver
    BY <1>1, <1>2 DEF Patched, Row
  <2>3. /\ row[w.n][w.i].status # "none" /\ w.s # "none"
        /\ row[w.n][w.i].role \in RunRoles(w.n) /\ row[w.n][w.i].solver \in RunRoles(w.n)
        /\ Target(w) \in RunRoles(w.n)
    BY <1>1, <1>2, <2>1 DEF Fits, Target, Request, HistoryInv, RowsInv, RowsWithinRun
  <2> HIDE DEF w
  <2>4. /\ Patched(q).status # "none"
        /\ Patched(q).role \in RunRoles(w.n) /\ Patched(q).solver \in RunRoles(w.n)
    BY <2>2, <2>3
  <2>5. /\ row'[w.n][w.i] = Patched(q)
        /\ \A n \in Runs, i \in Applicants : n # w.n \/ i # w.i => row'[n][i] = row[n][i]
    BY <1>1, <1>2, <2>1
  <2>6. QED
    BY <1>2, <2>1, <2>2, <2>4, <2>5
<1>4. CASE CommitAssign(q)
  <2> DEFINE new == [status |-> "approved", role |-> w.r, solver |-> w.r]
  <2>1. row' = [row EXCEPT ![w.n][w.i] = new] /\ Exists(w.r) /\ w.r \in RunRoles(w.n)
    BY <1>1, <1>4 DEF CommitAssign, Fits
  <2>2. new.status # "none" /\ new.role = w.r /\ new.solver = w.r
    OBVIOUS
  <2> HIDE DEF new, w
  <2>3. /\ row'[w.n][w.i] = new
        /\ \A n \in Runs, i \in Applicants : n # w.n \/ i # w.i => row'[n][i] = row[n][i]
    BY <1>1, <1>2, <2>1
  <2>4. QED
    BY <1>2, <2>1, <2>2, <2>3
<1>5. QED
  BY <1>3, <1>4

\* The requests keep the invariant.
LEMMA RequestHistory ==
    ASSUME HistoryInv, RTypeOK', NEW q \in Requests, RequestStep(q)
    PROVE  HistoryInv'
<1>0. RTypeOK /\ TypeOK /\ RowsInv /\ RowsWithinRun /\ TaskFollowsRun /\ HistoryKeepsRoles
  BY DEF HistoryInv, RTypeOK, RowsInv
<1>1. \A p \in Requests : Fits(p)
  BY DEF HistoryInv
<1>2. ASSUME UNCHANGED vars, \A p \in Requests \ {q} : req'[p] = req[p], Fits(q)'
      PROVE  HistoryInv'
  <2>1. RowsInv' /\ HistoryKeepsRoles'
    BY <1>0, <1>2 DEF vars, RowsInv, RowsWithinRun, TaskFollowsRun, HistoryKeepsRoles, RunRoles, Exists
  <2>2. \A p \in Requests : Fits(p)'
    BY <1>1, <1>2, SMTT(30) DEF vars, Fits, RunRoles
  <2>3. QED
    BY <2>1, <2>2 DEF HistoryInv
<1>3. ASSUME NEW n \in Runs, NEW i \in Applicants, NEW r \in Roles \cup {NoRole},
             NEW s \in RowStatus \ {"none"}, BeginPatch(q, n, i, r, s)
      PROVE  HistoryInv'
  <2>1. /\ req' = [req EXCEPT ![q] = [phase |-> "begun", op |-> "patch", n |-> n, i |-> i,
                                     r |-> r, s |-> s, seen |-> row[n][i]]]
        /\ UNCHANGED vars
    BY <1>3 DEF BeginPatch, Begin
  <2>2. /\ row[n][i].status # "none" /\ run[n].status = "completed" /\ i \in run[n].applicants
        /\ row[n][i].role \in RunRoles(n) /\ r \in RunRoles(n) \cup {NoRole}
    BY <1>0, <1>3 DEF BeginPatch, CheckOverride, RowsWithinRun
  <2>3. Fits(q)'
    BY <1>0, <2>1, <2>2 DEF Fits, RTypeOK, vars, RunRoles
  <2>4. QED
    BY <1>0, <1>2, <2>1, <2>3 DEF RTypeOK
<1>4. ASSUME NEW n \in Runs, NEW i \in Applicants, NEW r \in Roles, BeginAssign(q, n, i, r)
      PROVE  HistoryInv'
  <2>1. /\ req' = [req EXCEPT ![q] = [phase |-> "begun", op |-> "assign", n |-> n, i |-> i,
                                     r |-> r, s |-> "approved", seen |-> row[n][i]]]
        /\ UNCHANGED vars
    BY <1>4 DEF BeginAssign, Begin
  <2>2. Fits(q)'
    BY <1>0, <1>4, <2>1 DEF BeginAssign, Fits, RTypeOK, vars, RunRoles
  <2>3. QED
    BY <1>0, <1>2, <2>1, <2>2 DEF RTypeOK
<1>5. ASSUME NEW r \in Roles, BeginDelete(q, r) PROVE HistoryInv'
  <2>1. req'[q].op = "delete" /\ UNCHANGED vars /\ \A p \in Requests \ {q} : req'[p] = req[p]
    BY <1>0, <1>5 DEF BeginDelete, Begin, RTypeOK
  <2>2. QED
    BY <1>2, <2>1 DEF Fits
<1>6. CASE Check(q)
  <2>1. /\ req'[q].n = req[q].n /\ req'[q].i = req[q].i /\ req'[q].r = req[q].r
        /\ req'[q].op = req[q].op /\ req'[q].seen = req[q].seen /\ req[q].phase = "begun"
        /\ \A p \in Requests \ {q} : req'[p] = req[p]
        /\ UNCHANGED vars
    BY <1>0, <1>6 DEF Check, RTypeOK, Request
  <2>2. QED
    BY <1>1, <1>2, <2>1 DEF Fits, vars, RunRoles
<1>7. CASE Abort(q)
  <2>1. req'[q] = Idle /\ UNCHANGED vars /\ \A p \in Requests \ {q} : req'[p] = req[p]
    BY <1>0, <1>7 DEF Abort, RTypeOK
  <2>2. QED
    BY <1>2, <2>1 DEF Fits, Idle
<1>8. CASE CommitPatch(q) \/ CommitAssign(q)
  <2>1. /\ req'[q] = Idle /\ \A p \in Requests \ {q} : req'[p] = req[p]
        /\ UNCHANGED <<roleState, run, task, loaded>>
    BY <1>0, <1>8 DEF CommitPatch, CommitAssign, RTypeOK, roleVars, runVars
  <2>2. RowsInv'
    BY <1>0, <1>8, <2>1, CommitFits DEF RowsInv, RowsWithinRun, TaskFollowsRun, RunRoles
  <2>3. HistoryKeepsRoles'
    <3> SUFFICES ASSUME NEW n \in Runs, NEW r \in Roles, run'[n].status = "completed",
                        \/ r \in loaded'[n].roles
                        \/ \E i \in Applicants : r \in {row'[n][i].role, row'[n][i].solver}
                 PROVE  Exists(r)'
      BY DEF HistoryKeepsRoles, Exists
    <3>1. CASE r \in loaded'[n].roles
      BY <1>0, <2>1, <3>1 DEF HistoryKeepsRoles, Exists
    <3>2. ASSUME NEW i \in Applicants, r \in {row'[n][i].role, row'[n][i].solver}
          PROVE  Exists(r)
      BY <1>0, <1>8, <2>1, <3>2, CommitFits DEF HistoryKeepsRoles
    <3>3. QED
      BY <2>1, <3>1, <3>2 DEF Exists
  <2>4. ASSUME NEW p \in Requests PROVE Fits(p)'
    <3>1. CASE p = q
      BY <2>1, <3>1 DEF Fits, Idle
    <3>2. CASE p # q
      BY <1>1, <1>8, <2>1, <3>2, CommitFits, SMTT(30) DEF Fits, RunRoles
    <3>3. QED
      BY <3>1, <3>2
  <2>5. QED
    BY <2>2, <2>3, <2>4 DEF HistoryInv
<1>9. CASE CommitDelete(q)
  <2>1. /\ req'[q] = Idle /\ \A p \in Requests \ {q} : req'[p] = req[p]
        /\ UNCHANGED <<run, task, loaded, row>>
    BY <1>0, <1>9 DEF CommitDelete, RTypeOK, runVars
  <2>2. RowsInv' /\ \A p \in Requests : Fits(p)'
    <3>1. RowsInv'
      BY <1>0, <2>1 DEF RowsInv, RowsWithinRun, TaskFollowsRun, RunRoles
    <3>2. Fits(q)'
      BY <2>1 DEF Fits, Idle
    <3>3. ASSUME NEW p \in Requests \ {q} PROVE Fits(p)'
      BY <1>1, <2>1, <3>3 DEF Fits, RunRoles
    <3>4. QED
      BY <3>1, <3>2, <3>3
  <2>3. HistoryKeepsRoles'
    BY <1>0, <1>9, <2>1 DEF CommitDelete, HistoryKeepsRoles, InUse, Exists, TypeOK
  <2>4. QED
    BY <2>2, <2>3 DEF HistoryInv
<1>10. QED
  BY <1>3, <1>4, <1>5, <1>6, <1>7, <1>8, <1>9 DEF RequestStep

\* The invariant holds however requests, tasks and restarts interleave.
LEMMA HistoryInvHolds == RSpec => []HistoryInv
<1>1. RInit => HistoryInv
  <2> SUFFICES ASSUME RInit PROVE HistoryInv
    OBVIOUS
  <2>1. \A n \in Runs : run[n].status = "new" /\ task[n] = "none"
    BY DEF RInit, Init
  <2>2. \A n \in Runs, i \in Applicants : row[n][i].status = "none"
    BY DEF RInit, Init, NoRow
  <2>3. \A q \in Requests : Fits(q)
    BY DEF RInit, Idle, Fits
  <2>4. QED
    BY <2>1, <2>2, <2>3, RInitType DEF HistoryInv, RowsInv, RowsWithinRun, TaskFollowsRun,
       HistoryKeepsRoles
<1>2. HistoryInv /\ [RNext]_<<vars, req>> => HistoryInv'
  <2> SUFFICES ASSUME HistoryInv, [RNext]_<<vars, req>> PROVE HistoryInv'
    OBVIOUS
  <2>1. RTypeOK /\ RTypeOK'
    BY RNextType DEF HistoryInv
  <2>2. ASSUME NEW q \in Requests, RequestStep(q) PROVE HistoryInv'
    BY <2>1, <2>2, RequestHistory
  <2>3. CASE Background /\ UNCHANGED req
    BY <2>1, <2>3, BackgroundHistory
  <2>4. CASE RCrash
    BY <2>1, <2>4, BackgroundHistory DEF RCrash
  <2>5. CASE UNCHANGED <<vars, req>>
    BY <2>1, <2>5, SMTT(30) DEF HistoryInv, vars, RowsInv, RowsWithinRun, TaskFollowsRun, RunRoles,
       HistoryKeepsRoles, Exists, Fits
  <2>6. QED
    BY <2>2, <2>3, <2>4, <2>5 DEF RNext
<1>3. QED
  BY <1>1, <1>2, PTL DEF RSpec

\* A role that an assignment or a score of a completed run names is never
\* deleted, although requests check before a run commits and delete after it.
THEOREM HistoryKeepsRolesHolds == RSpec => []HistoryKeepsRoles
BY HistoryInvHolds, PTL DEF HistoryInv

\* Overrides, manual placements and approvals that overlap still keep every
\* assignment inside the configuration of its run.
THEOREM RequestsStayWithinRun == RSpec => []RowsWithinRun
BY HistoryInvHolds, PTL DEF HistoryInv, RowsInv

-----------------------------------------------------------------------------
(* Matching: numbers, iterations and sequences *)

\* Every set of natural numbers has a least element: among the intervals that
\* start at 0 and end in it, one is smallest by inclusion.
LEMMA LeastNat ==
    ASSUME NEW S \in SUBSET Nat, S # {}
    PROVE  \E i \in S : \A j \in S : i <= j
<1> DEFINE T == {0 .. i : i \in S}
<1>1. T \subseteq FiniteSubsetsOf(Nat)
  <2>1. \A i \in S : 0 .. i \in SUBSET Nat /\ i \in Int /\ 0 \in Int
    OBVIOUS
  <2>2. \A i \in S : IsFiniteSet(0 .. i)
    BY <2>1, FS_Interval
  <2>3. QED
    BY <2>1, <2>2 DEF FiniteSubsetsOf
<1>2. T # {}
  OBVIOUS
<1>3. PICK U \in T : \A V \in T : ~ (<<V, U>> \in StrictSubsetOrdering(Nat))
  <2> HIDE DEF T
  <2> QED
    BY <1>1, <1>2, FS_StrictSubsetOrderingWellFounded, WFMin
<1>4. PICK i \in S : U = 0 .. i
  BY <1>3
<1>5. ASSUME NEW j \in S
      PROVE  i <= j
  <2>1. ~ (<<0 .. j, 0 .. i>> \in StrictSubsetOrdering(Nat))
    BY <1>3, <1>4
  <2>2. 0 .. j \in SUBSET Nat /\ 0 .. i \in SUBSET Nat
    OBVIOUS
  <2>3. ~ (0 .. j \subseteq 0 .. i /\ 0 .. j # 0 .. i)
    <3> DEFINE V == 0 .. j  W == 0 .. i
    <3>1. V \in SUBSET Nat /\ W \in SUBSET Nat /\ ~ (<<V, W>> \in StrictSubsetOrdering(Nat))
      BY <2>1, <2>2
    <3> HIDE DEF V, W
    <3>2. ~ (V \subseteq W /\ V # W)
      BY <3>1 DEF StrictSubsetOrdering
    <3>3. QED
      BY <3>2 DEF V, W
  <2>4. j < i => 0 .. j \subseteq 0 .. i /\ i \in 0 .. i /\ i \notin 0 .. j
    OBVIOUS
  <2>5. QED
    BY <2>3, <2>4
<1>6. QED
  BY <1>4, <1>5

\* f holds what the first n steps make of x.
Results(f, n, step, x) == f = [i \in 0 .. n |-> IF i = 0 THEN x ELSE step[i][f[i - 1]]]

\* Steps that are taken one after the other have their results.
LEMMA IterateExists ==
    ASSUME NEW n \in Nat, NEW step, NEW x
    PROVE  \E f : Results(f, n, step, x)
<1> USE DEF Results
<1> DEFINE Makes(f, m) == f = [i \in 0 .. m |-> IF i = 0 THEN x ELSE step[i][f[i - 1]]]
           Fails == {m \in Nat : ~ \E f : Makes(f, m)}
<1>1. SUFFICES ASSUME Fails # {} PROVE FALSE
  OBVIOUS
<1>2. PICK m \in Fails : \A k \in Fails : m <= k
  <2>1. Fails \in SUBSET Nat
    OBVIOUS
  <2> HIDE DEF Fails
  <2> QED
    BY <1>1, <2>1, LeastNat
<1>3. CASE m = 0
  <2>1. Makes([i \in 0 .. 0 |-> x], 0)
    OBVIOUS
  <2>2. QED
    BY <1>2, <1>3, <2>1
<1>4. CASE m # 0
  <2>1. m - 1 \in Nat /\ m - 1 \notin Fails
    <3>1. m \in Nat
      OBVIOUS
    <3> HIDE DEF Fails
    <3>2. QED
      BY <1>2, <1>4, <3>1
  <2>2. PICK f : Makes(f, m - 1)
    BY <2>1
  <2> DEFINE g == [i \in 0 .. m |-> IF i < m THEN f[i] ELSE step[m][f[m - 1]]]
  <2>3. \A i \in 0 .. m : g[i] = IF i = 0 THEN x ELSE step[i][g[i - 1]]
    <3>1. SUFFICES ASSUME NEW i \in 0 .. m PROVE g[i] = IF i = 0 THEN x ELSE step[i][g[i - 1]]
      OBVIOUS
    <3>2. CASE i < m
      <4>1. f[i] = IF i = 0 THEN x ELSE step[i][f[i - 1]]
        BY <2>1, <2>2, <3>1, <3>2
      <4>2. i # 0 => i - 1 \in 0 .. m /\ i - 1 < m
        BY <3>1, <3>2
      <4>3. QED
        BY <3>1, <3>2, <4>1, <4>2
    <3>3. CASE i = m
      BY <1>4, <2>1, <3>1, <3>3
    <3>4. QED
      BY <3>1, <3>2, <3>3
  <2>4. Makes(g, m)
    BY <2>3
  <2>5. QED
    BY <1>2, <2>4
<1>5. QED
  BY <1>3, <1>4

\* What holds before the first step and is kept by each step holds after the last.
LEMMA IterateKeeps ==
    ASSUME NEW n \in Nat, NEW step, NEW x, NEW G, x \in G[0],
           \A i \in 1 .. n : \A y \in G[i - 1] : step[i][y] \in G[i]
    PROVE  Iterate(n, step, x) \in G[n]
<1> DEFINE f == CHOOSE f : f = [i \in 0 .. n |-> IF i = 0 THEN x ELSE step[i][f[i - 1]]]
<1>1. f = [i \in 0 .. n |-> IF i = 0 THEN x ELSE step[i][f[i - 1]]]
  <2>1. \E g : Results(g, n, step, x)
    BY IterateExists
  <2>2. QED
    BY <2>1 DEF Results
<1>2. Iterate(n, step, x) = f[n]
  BY DEF Iterate
<1> HIDE DEF f
<1> DEFINE Fails == {m \in 0 .. n : f[m] \notin G[m]}
<1>3. SUFFICES ASSUME Fails # {} PROVE FALSE
  BY <1>2
<1>4. PICK m \in Fails : \A k \in Fails : m <= k
  <2>1. Fails \in SUBSET Nat
    OBVIOUS
  <2> HIDE DEF Fails
  <2> QED
    BY <1>3, <2>1, LeastNat
<1>5. CASE m = 0
  BY <1>1, <1>4, <1>5
<1>6. CASE m # 0
  <2>1. m \in 1 .. n /\ m - 1 \in 0 .. n /\ m - 1 \notin Fails
    BY <1>4, <1>6
  <2>2. f[m - 1] \in G[m - 1] /\ f[m] = step[m][f[m - 1]]
    BY <1>1, <1>6, <2>1
  <2>3. QED
    BY <1>4, <2>1, <2>2
<1>7. QED
  BY <1>5, <1>6

\* The first of some positions is one of them.
LEMMA MinIs == ASSUME NEW S \in SUBSET Nat, S # {} PROVE Min(S) \in S
BY LeastNat DEF Min

-----------------------------------------------------------------------------
(* Repair *)

\* A loaded input: lists of students and projects, and possible team sizes
ContextOK(c) ==
    /\ Len(c.students) \in Nat /\ Students(c) = 1 .. Len(c.students)
    /\ Len(c.projects) \in Nat /\ Projects(c) = 1 .. Len(c.projects)
    /\ \A p \in Projects(c) :
          /\ c.projects[p].min \in Nat \ {0} /\ c.projects[p].max \in Nat
          /\ c.projects[p].min <= c.projects[p].max
          /\ Len(c.projects[p].requirements) \in Nat
          /\ DOMAIN c.projects[p].requirements = 1 .. Len(c.projects[p].requirements)

OptionsOK(c, opts) == \A s \in Students(c) : opts[s] \subseteq Projects(c) \cup {None}

\* Nobody is where he is no candidate, and no team is too large.
Fitting(c, opts) ==
    {a \in Assignments(c) : /\ \A s \in Students(c) : a[s] = None \/ a[s] \in opts[s]
                            /\ \A p \in Projects(c) : Size(a, p) <= c.projects[p].max}

\* Teams are finite.
LEMMA TeamIs ==
    ASSUME NEW c, ContextOK(c), NEW a \in Assignments(c), NEW p
    PROVE  /\ Team(a, p) \in SUBSET Students(c) /\ IsFiniteSet(Team(a, p))
           /\ Size(a, p) \in Nat /\ (Size(a, p) = 0 <=> Team(a, p) = {})
<1>1. Team(a, p) \in SUBSET Students(c)
  BY DEF Team, Assignments
<1>2. IsFiniteSet(Students(c))
  <2>1. Len(c.students) \in Int /\ 1 \in Int
    BY DEF ContextOK
  <2>2. IsFiniteSet(1 .. Len(c.students))
    BY <2>1, FS_Interval
  <2>3. QED
    BY <2>2 DEF ContextOK
<1>3. IsFiniteSet(Team(a, p))
  BY <1>1, <1>2, FS_Subset
<1>4. QED
  BY <1>1, <1>3, FS_CardinalityType, FS_EmptySet DEF Size

\* One student joins a project.
Joins(c, a, s, p, b) == /\ b \in Assignments(c)
                        /\ \A t \in Students(c) : b[t] = IF t = s THEN p ELSE a[t]

LEMMA ExceptJoins ==
    ASSUME NEW c, NEW a \in Assignments(c), NEW s \in Students(c), NEW p \in Projects(c)
    PROVE  Joins(c, a, s, p, [a EXCEPT ![s] = p])
BY DEF Joins, Assignments

LEMMA JoinIs ==
    ASSUME NEW c, ContextOK(c), None \notin Nat, NEW a \in Assignments(c), NEW s \in Students(c),
           a[s] = None, NEW p \in Projects(c), NEW b, Joins(c, a, s, p, b)
    PROVE  /\ Team(b, p) = Team(a, p) \cup {s}
           /\ Size(b, p) = Size(a, p) + 1
           /\ \A q \in Projects(c) \ {p} : Team(b, q) = Team(a, q) /\ Size(b, q) = Size(a, q)
<1>1. p # None /\ \A q \in Projects(c) : q # None
  BY DEF ContextOK
<1>2. DOMAIN b = Students(c) /\ DOMAIN a = Students(c) /\ \A t \in DOMAIN a : b[t] = IF t = s THEN p ELSE a[t]
  BY DEF Assignments, Joins
<1>3. Team(b, p) = Team(a, p) \cup {s} /\ s \notin Team(a, p)
  BY <1>1, <1>2 DEF Team
<1>4. \A q \in Projects(c) \ {p} : Team(b, q) = Team(a, q)
  BY <1>1, <1>2 DEF Team
<1>5. Cardinality(Team(b, p)) = Cardinality(Team(a, p)) + 1
  <2>1. IsFiniteSet(Team(a, p))
    BY TeamIs
  <2>2. QED
    BY <1>3, <2>1, FS_AddElement
<1>6. QED
  BY <1>3, <1>4, <1>5 DEF Size

\* A candidate who joins a project with room leaves the teams fitting.
LEMMA JoinFits ==
    ASSUME NEW c, ContextOK(c), None \notin Nat, NEW opts, NEW a \in Fitting(c, opts),
           NEW s \in Students(c), a[s] = None, NEW p \in Projects(c), p \in opts[s],
           Size(a, p) < c.projects[p].max
    PROVE  [a EXCEPT ![s] = p] \in Fitting(c, opts)
<1>1. a \in Assignments(c)
  BY DEF Fitting
<1>2. PICK b : b = [a EXCEPT ![s] = p]
  OBVIOUS
<1>3. Joins(c, a, s, p, b)
  BY <1>1, <1>2, ExceptJoins
<1>4. /\ b \in Assignments(c) /\ Size(b, p) = Size(a, p) + 1
      /\ \A q \in Projects(c) \ {p} : Size(b, q) = Size(a, q)
  BY <1>1, <1>3, JoinIs DEF Joins
<1>5. \A t \in Students(c) : b[t] = None \/ b[t] \in opts[t]
  BY <1>1, <1>3 DEF Fitting, Joins
<1>6. ASSUME NEW q \in Projects(c) PROVE Size(b, q) <= c.projects[q].max
  <2>1. Size(a, q) <= c.projects[q].max /\ Size(a, p) \in Nat /\ c.projects[p].max \in Nat
    BY <1>1, TeamIs DEF Fitting, ContextOK
  <2>2. QED
    BY <1>4, <2>1
<1>7. QED
  BY <1>2, <1>4, <1>5, <1>6 DEF Fitting

\* Phase 3 keeps the teams fitting.
LEMMA RecruitFits ==
    ASSUME NEW c, ContextOK(c), None \notin Nat, NEW opts, NEW p \in Projects(c),
           NEW a \in Fitting(c, opts)
    PROVE  Recruit(c, opts, p)[a] \in Fitting(c, opts)
<1> DEFINE reqs == c.projects[p].requirements
           able(b, r) == {s \in Free(opts, b, p) : Meets(c, s, r)}
           step == [j \in DOMAIN reqs |-> [b \in Assignments(c) |->
                       IF \/ reqs[j].type # "hard_requirement"
                          \/ \E s \in Team(b, p) : Meets(c, s, reqs[j])
                          \/ Size(b, p) >= c.projects[p].max
                          \/ able(b, reqs[j]) = {}
                       THEN b ELSE [b EXCEPT ![Min(able(b, reqs[j]))] = p]]]
           G == [i \in 0 .. Len(reqs) |-> Fitting(c, opts)]
<1>1. Len(reqs) \in Nat /\ DOMAIN reqs = 1 .. Len(reqs)
  BY DEF ContextOK
<1>2. ASSUME NEW i \in 1 .. Len(reqs), NEW b \in Fitting(c, opts)
      PROVE  step[i][b] \in Fitting(c, opts)
  <2>1. b \in Assignments(c)
    BY DEF Fitting
  <2>2. \/ step[i][b] = b
        \/ /\ Size(b, p) < c.projects[p].max /\ able(b, reqs[i]) # {}
           /\ step[i][b] = [b EXCEPT ![Min(able(b, reqs[i]))] = p]
    <3>1. Size(b, p) \in Nat /\ c.projects[p].max \in Nat
      BY <2>1, TeamIs DEF ContextOK
    <3> HIDE DEF able
    <3>2. step[i][b] = IF \/ reqs[i].type # "hard_requirement"
                          \/ \E s \in Team(b, p) : Meets(c, s, reqs[i])
                          \/ Size(b, p) >= c.projects[p].max
                          \/ able(b, reqs[i]) = {}
                       THEN b ELSE [b EXCEPT ![Min(able(b, reqs[i]))] = p]
      BY <1>1, <2>1
    <3>3. CASE Size(b, p) < c.projects[p].max /\ able(b, reqs[i]) # {}
      BY <3>2, <3>3
    <3>4. CASE ~ (Size(b, p) < c.projects[p].max) \/ able(b, reqs[i]) = {}
      <4>1. Size(b, p) >= c.projects[p].max \/ able(b, reqs[i]) = {}
        BY <3>1, <3>4
      <4>2. QED
        BY <3>2, <4>1
    <3>5. QED
      BY <3>3, <3>4
  <2>3. able(b, reqs[i]) \subseteq {s \in Students(c) : b[s] = None /\ p \in opts[s]}
    BY <2>1 DEF Free, Unassigned, Assignments
  <2>4. Students(c) \subseteq Nat
    BY DEF ContextOK
  <2> HIDE DEF able
  <2>5. able(b, reqs[i]) # {} => Min(able(b, reqs[i])) \in able(b, reqs[i])
    BY <2>3, <2>4, MinIs
  <2> HIDE DEF step
  <2>6. QED
    BY <2>2, <2>3, <2>5, JoinFits
<1>3. Recruit(c, opts, p)[a] = IF Team(a, p) = {} THEN a ELSE Iterate(Len(reqs), step, a)
  BY DEF Recruit, Fitting
<1> HIDE DEF step
<1>4. \A i \in 1 .. Len(reqs) : \A b \in G[i - 1] : step[i][b] \in G[i]
  BY <1>1, <1>2
<1>5. a \in G[0] /\ G[Len(reqs)] = Fitting(c, opts)
  BY <1>1
<1> HIDE DEF G, reqs
<1>6. Iterate(Len(reqs), step, a) \in G[Len(reqs)]
  BY <1>1, <1>4, <1>5, IterateKeeps
<1>7. QED
  BY <1>3, <1>5, <1>6

\* So does phase 4.
LEMMA FillFits ==
    ASSUME NEW c, ContextOK(c), None \notin Nat, NEW opts, NEW p \in Projects(c),
           NEW a \in Fitting(c, opts)
    PROVE  FillMinimum(c, opts, p)[a] \in Fitting(c, opts)
<1> DEFINE step == [s \in Students(c) |-> [b \in Assignments(c) |->
                       IF s \in Free(opts, b, p) /\ Team(b, p) # {} /\ Size(b, p) < c.projects[p].min
                       THEN [b EXCEPT ![s] = p] ELSE b]]
           n == Len(c.students)
           G == [i \in 0 .. n |-> Fitting(c, opts)]
<1>1. n \in Nat /\ Students(c) = 1 .. n
  BY DEF ContextOK
<1>2. ASSUME NEW i \in 1 .. n, NEW b \in Fitting(c, opts)
      PROVE  step[i][b] \in Fitting(c, opts)
  <2>1. b \in Assignments(c)
    BY DEF Fitting
  <2>2. step[i][b] = IF i \in Free(opts, b, p) /\ Team(b, p) # {} /\ Size(b, p) < c.projects[p].min
                     THEN [b EXCEPT ![i] = p] ELSE b
    BY <1>1, <2>1
  <2>3. /\ Size(b, p) \in Nat /\ c.projects[p].max \in Nat /\ c.projects[p].min \in Nat
        /\ c.projects[p].min <= c.projects[p].max
    BY <2>1, TeamIs DEF ContextOK
  <2>4. i \in Free(opts, b, p) => b[i] = None /\ p \in opts[i]
    BY DEF Free, Unassigned
  <2> HIDE DEF step
  <2>5. QED
    BY <1>1, <2>2, <2>3, <2>4, JoinFits
<1>3. FillMinimum(c, opts, p)[a] = Iterate(n, step, a)
  BY DEF FillMinimum, Fitting
<1> HIDE DEF step
<1>4. \A i \in 1 .. n : \A b \in G[i - 1] : step[i][b] \in G[i]
  BY <1>1, <1>2
<1>5. a \in G[0] /\ G[n] = Fitting(c, opts)
  BY <1>1
<1> HIDE DEF G, n
<1>6. Iterate(n, step, a) \in G[n]
  BY <1>1, <1>4, <1>5, IterateKeeps
<1>7. QED
  BY <1>3, <1>5, <1>6

\* So does phase 2, which brings them there.
LEMMA TrimFits ==
    ASSUME NEW c, ContextOK(c), None \notin Nat, NEW opts, NEW g \in Assignments(c),
           NEW a \in Trimmed(c, Normalized(opts, g))
    PROVE  a \in Fitting(c, opts)
<1> DEFINE m == Normalized(opts, g)
<1>1. m \in Assignments(c) /\ \A s \in Students(c) : m[s] = None \/ m[s] \in opts[s]
  BY DEF Normalized, Assignments
<1> HIDE DEF m
<1> DEFINE kept(p) == IF Size(m, p) <= c.projects[p].max THEN {Team(m, p)}
                      ELSE kSubset(c.projects[p].max, Team(m, p))
<1>2. PICK K \in [Projects(c) -> SUBSET DOMAIN m] :
          /\ \A p \in Projects(c) : K[p] \in kept(p)
          /\ a = [s \in DOMAIN m |-> IF s \in UNION Range(K) THEN m[s] ELSE None]
  BY DEF Trimmed, m
<1>3. ASSUME NEW p \in Projects(c)
      PROVE  K[p] \subseteq Team(m, p) /\ Cardinality(K[p]) <= c.projects[p].max
  <2>1. CASE Size(m, p) <= c.projects[p].max
    BY <1>2, <2>1 DEF Size
  <2>2. CASE ~ (Size(m, p) <= c.projects[p].max)
    <3>1. K[p] \in kSubset(c.projects[p].max, Team(m, p))
      BY <1>2, <2>2
    <3>2. K[p] \in SUBSET Team(m, p) /\ Cardinality(K[p]) = c.projects[p].max
      BY <3>1 DEF kSubset
    <3>3. QED
      BY <3>2 DEF ContextOK
  <2>3. QED
    BY <2>1, <2>2
<1>4. /\ DOMAIN m = Students(c) /\ DOMAIN a = Students(c)
      /\ \A s \in Students(c) : a[s] = m[s] \/ a[s] = None
      /\ \A s \in Students(c) : a[s] # None => \E q \in Projects(c) : s \in K[q]
  BY <1>1, <1>2 DEF Assignments, Range
<1>5. a \in Assignments(c) /\ \A s \in Students(c) : a[s] = None \/ a[s] \in opts[s]
  <2>1. a \in [Students(c) -> Projects(c) \cup {None}]
    <3>1. \A s \in Students(c) : a[s] \in Projects(c) \cup {None}
      BY <1>1, <1>4 DEF Assignments
    <3>2. a = [s \in Students(c) |-> a[s]]
      BY <1>2, <1>4
    <3>3. QED
      BY <3>1, <3>2
  <2>2. QED
    BY <1>1, <1>4, <2>1 DEF Assignments
<1>6. ASSUME NEW p \in Projects(c) PROVE Size(a, p) <= c.projects[p].max
  <2>1. p # None
    BY DEF ContextOK
  <2>2. Team(a, p) \subseteq K[p]
    BY <1>3, <1>4, <2>1 DEF Team
  <2>3. K[p] \subseteq Team(m, p) /\ IsFiniteSet(Team(m, p)) /\ IsFiniteSet(K[p])
    BY <1>1, <1>3, TeamIs, FS_Subset
  <2>4. Cardinality(Team(a, p)) <= Cardinality(K[p])
    BY <2>2, <2>3, FS_Subset
  <2>5. /\ Cardinality(K[p]) \in Nat /\ Cardinality(Team(a, p)) \in Nat
        /\ c.projects[p].max \in Nat
    BY <2>2, <2>3, FS_Subset, FS_CardinalityType DEF ContextOK
  <2>6. QED
    BY <1>3, <2>4, <2>5 DEF Size
<1>7. QED
  BY <1>5, <1>6 DEF Fitting

\* Phases 3 and 4 keep the teams of every project fitting.
LEMMA StaffFits ==
    ASSUME NEW c, ContextOK(c), None \notin Nat, NEW opts, NEW a \in Fitting(c, opts)
    PROVE  Staffed(c, opts, a) \in Fitting(c, opts)
<1> DEFINE n == Len(c.projects)
           recruit == [p \in Projects(c) |-> Recruit(c, opts, p)]
           fill == [p \in Projects(c) |-> FillMinimum(c, opts, p)]
           G == [i \in 0 .. n |-> Fitting(c, opts)]
<1>1. n \in Nat /\ Projects(c) = 1 .. n
  BY DEF ContextOK
<1>2. \A i \in 1 .. n : \A b \in G[i - 1] : recruit[i][b] \in G[i]
  BY <1>1, RecruitFits
<1>3. \A i \in 1 .. n : \A b \in G[i - 1] : fill[i][b] \in G[i]
  BY <1>1, FillFits
<1>4. G[0] = Fitting(c, opts) /\ G[n] = Fitting(c, opts)
  BY <1>1
<1>5. Staffed(c, opts, a) = Iterate(n, fill, Iterate(n, recruit, a))
  BY DEF Staffed
<1> HIDE DEF n, recruit, fill, G
<1>6. Iterate(n, recruit, a) \in G[n]
  BY <1>1, <1>2, <1>4, IterateKeeps
<1>7. Iterate(n, fill, Iterate(n, recruit, a)) \in G[n]
  BY <1>1, <1>3, <1>4, <1>6, IterateKeeps
<1>8. QED
  BY <1>4, <1>5, <1>7

\* The teams that fit, are large enough and cover the hard requirements
Feasible(c, opts) ==
    {a \in Fitting(c, opts) :
        \A p \in Projects(c) : Team(a, p) = {} \/ (/\ Size(a, p) >= c.projects[p].min
                                                   /\ HardRequirementsCovered(c, Team(a, p), p))}

\* Phase 5 leaves only such teams.
LEMMA DeactivateLeavesFeasible ==
    ASSUME NEW c, ContextOK(c), None \notin Nat, NEW opts, NEW a \in Fitting(c, opts)
    PROVE  Deactivated(c, a) \in Feasible(c, opts)
<1> DEFINE d == Deactivated(c, a)
           fine(p) == /\ Size(a, p) >= c.projects[p].min
                      /\ HardRequirementsCovered(c, Team(a, p), p)
<1>1. a \in Assignments(c) /\ DOMAIN a = Students(c)
  BY DEF Fitting, Assignments
<1>2. /\ DOMAIN d = Students(c) /\ d = [s \in Students(c) |-> d[s]]
      /\ \A s \in Students(c) : d[s] = IF a[s] # None /\ fine(a[s]) THEN a[s] ELSE None
  BY <1>1 DEF Deactivated
<1> HIDE DEF d, fine
<1>3. d \in Assignments(c) /\ \A s \in Students(c) : d[s] = None \/ d[s] \in opts[s]
  <2>1. \A s \in Students(c) : a[s] \in Projects(c) \cup {None}
    BY <1>1 DEF Assignments
  <2>2. \A s \in Students(c) : d[s] \in Projects(c) \cup {None}
    BY <1>2, <2>1
  <2>3. QED
    BY <1>2, <2>2 DEF Assignments, Fitting
<1>4. ASSUME NEW p \in Projects(c)
      PROVE  IF fine(p) THEN Team(d, p) = Team(a, p) ELSE Team(d, p) = {}
  <2>1. p # None
    BY DEF ContextOK
  <2>2. QED
    BY <1>1, <1>2, <2>1 DEF Team
<1>5. ASSUME NEW p \in Projects(c)
      PROVE  /\ Size(d, p) <= c.projects[p].max
             /\ Team(d, p) = {} \/ (/\ Size(d, p) >= c.projects[p].min
                                    /\ HardRequirementsCovered(c, Team(d, p), p))
  <2>1. Size(a, p) <= c.projects[p].max /\ c.projects[p].max \in Nat
    BY DEF Fitting, ContextOK
  <2>2. CASE fine(p)
    BY <1>4, <2>1, <2>2 DEF fine, Size
  <2>3. CASE ~ fine(p)
    <3>1. Team(d, p) = {} /\ Size(d, p) = 0
      BY <1>3, <1>4, <2>3, TeamIs
    <3>2. QED
      BY <2>1, <3>1
  <2>4. QED
    BY <2>2, <2>3
<1>6. QED
  BY <1>3, <1>5 DEF Feasible, Fitting, d

\* Whoever is left over has no candidate among the running projects with room.
Settled(c, opts) ==
    {a \in Feasible(c, opts) :
        \A s \in Students(c) : a[s] = None =>
            \A p \in opts[s] \ {None} : Team(a, p) # {} => Size(a, p) = c.projects[p].max}

\* A feasible team stays feasible when a student joins it.
LEMMA JoinIsFeasible ==
    ASSUME NEW c, ContextOK(c), None \notin Nat, NEW opts, NEW a \in Feasible(c, opts),
           NEW s \in Students(c), a[s] = None, NEW p \in Projects(c), p \in opts[s],
           Size(a, p) < c.projects[p].max, Team(a, p) # {}
    PROVE  [a EXCEPT ![s] = p] \in Feasible(c, opts)
<1>1. a \in Fitting(c, opts) /\ a \in Assignments(c)
  BY DEF Feasible, Fitting
<1>2. PICK b : b = [a EXCEPT ![s] = p]
  OBVIOUS
<1>3. b \in Fitting(c, opts)
  BY <1>1, <1>2, JoinFits
<1>4. Joins(c, a, s, p, b)
  BY <1>1, <1>2, ExceptJoins
<1>5. /\ Team(b, p) = Team(a, p) \cup {s} /\ Size(b, p) = Size(a, p) + 1
      /\ \A q \in Projects(c) \ {p} : Team(b, q) = Team(a, q) /\ Size(b, q) = Size(a, q)
  BY <1>1, <1>4, JoinIs
<1>6. ASSUME NEW q \in Projects(c), Team(b, q) # {}
      PROVE  Size(b, q) >= c.projects[q].min /\ HardRequirementsCovered(c, Team(b, q), q)
  <2>1. CASE q = p
    <3>1. Size(a, p) >= c.projects[p].min /\ HardRequirementsCovered(c, Team(a, p), p)
      BY DEF Feasible
    <3>2. Size(a, p) \in Nat /\ c.projects[p].min \in Nat
      BY <1>1, TeamIs DEF ContextOK
    <3>3. Size(b, p) >= c.projects[p].min
      BY <1>5, <3>1, <3>2
    <3>4. HardRequirementsCovered(c, Team(b, p), p)
      BY <1>5, <3>1 DEF HardRequirementsCovered
    <3>5. QED
      BY <2>1, <3>3, <3>4
  <2>2. CASE q # p
    BY <1>5, <1>6, <2>2 DEF Feasible
  <2>3. QED
    BY <2>1, <2>2
<1>7. QED
  BY <1>2, <1>3, <1>6 DEF Feasible

\* Phase 6 settles everybody: a student is passed over only when every project he
\* may join is full, and a full project stays full.
LEMMA RefillSettles ==
    ASSUME NEW c, ContextOK(c), None \notin Nat, NEW opts, OptionsOK(c, opts),
           NEW a \in Feasible(c, opts)
    PROVE  Refilled(c, opts, a) \in Settled(c, opts)
<1> DEFINE open(b, s) == {p \in opts[s] \ {None} : Active(a, p) /\ Size(b, p) < c.projects[p].max}
           step == [s \in Students(c) |-> [b \in Assignments(c) |->
                       IF b[s] # None \/ open(b, s) = {} THEN b
                       ELSE [b EXCEPT ![s] = Min(open(b, s))]]]
           n == Len(c.students)
           Same(b) == \A p \in Projects(c) : Team(b, p) # {} <=> Active(a, p)
           Done(b, i) == \A s \in 1 .. i : b[s] = None =>
                            \A p \in opts[s] \ {None} : Active(a, p) => Size(b, p) = c.projects[p].max
           G == [i \in 0 .. n |-> {b \in Feasible(c, opts) : Same(b) /\ Done(b, i)}]
<1>1. n \in Nat /\ Students(c) = 1 .. n /\ \A p \in Projects(c) : p # None
  BY DEF ContextOK
<1>2. \A s \in Students(c) : opts[s] \ {None} \subseteq Projects(c)
  BY DEF OptionsOK
<1>3. ASSUME NEW i \in 1 .. n, NEW b \in Feasible(c, opts), Same(b), Done(b, i - 1)
      PROVE  step[i][b] \in Feasible(c, opts) /\ Same(step[i][b]) /\ Done(step[i][b], i)
  <2>1. b \in Assignments(c) /\ b \in Fitting(c, opts) /\ i \in Students(c)
    BY <1>1 DEF Fitting, Feasible
  <2>2. step[i][b] = IF b[i] # None \/ open(b, i) = {} THEN b ELSE [b EXCEPT ![i] = Min(open(b, i))]
    BY <1>1, <2>1
  <2>3. \A p \in Projects(c) : /\ Size(b, p) \in Nat /\ c.projects[p].max \in Nat
                               /\ Size(b, p) <= c.projects[p].max
    BY <2>1, TeamIs DEF Fitting, ContextOK
  <2> HIDE DEF step
  <2>4. CASE b[i] # None \/ open(b, i) = {}
    <3>1. ASSUME NEW s \in 1 .. i, b[s] = None, NEW p \in opts[s] \ {None}, Active(a, p)
          PROVE  Size(b, p) = c.projects[p].max
      <4>1. CASE s \in 1 .. (i - 1)
        BY <1>3, <3>1, <4>1
      <4>2. CASE s = i
        <5>1. p \in Projects(c) /\ p \notin open(b, i)
          BY <1>2, <2>1, <2>4, <3>1, <4>2
        <5>2. ~ (Size(b, p) < c.projects[p].max)
          BY <3>1, <4>2, <5>1
        <5>3. QED
          BY <2>3, <5>1, <5>2
      <4>3. QED
        BY <4>1, <4>2
    <3>2. QED
      BY <1>3, <2>2, <2>4, <3>1
  <2>5. CASE b[i] = None /\ open(b, i) # {}
    <3>1. PICK p : p = Min(open(b, i))
      OBVIOUS
    <3>2. p \in open(b, i)
      <4>1. open(b, i) \in SUBSET Nat
        BY <1>2, <2>1 DEF ContextOK
      <4> HIDE DEF open
      <4>2. QED
        BY <2>5, <3>1, <4>1, MinIs
    <3>3. p \in Projects(c) /\ p \in opts[i] /\ Active(a, p) /\ Size(b, p) < c.projects[p].max
      BY <1>2, <2>1, <3>2
    <3>4. PICK d : d = [b EXCEPT ![i] = p]
      OBVIOUS
    <3>5. step[i][b] = d
      BY <2>2, <2>5, <3>1, <3>4
    <3>6. d \in Feasible(c, opts)
      BY <1>3, <2>1, <2>5, <3>3, <3>4, JoinIsFeasible
    <3>7. Joins(c, b, i, p, d)
      BY <2>1, <3>3, <3>4, ExceptJoins
    <3>8. /\ Team(d, p) = Team(b, p) \cup {i} /\ Size(d, p) = Size(b, p) + 1
          /\ \A q \in Projects(c) \ {p} : Team(d, q) = Team(b, q) /\ Size(d, q) = Size(b, q)
      BY <2>1, <2>5, <3>3, <3>7, JoinIs
    <3>9. Same(d)
      BY <1>3, <3>3, <3>8
    <3>10. ASSUME NEW s \in 1 .. i, d[s] = None, NEW q \in opts[s] \ {None}, Active(a, q)
           PROVE  Size(d, q) = c.projects[q].max
      <4>1. s \in Students(c) /\ s # i /\ b[s] = None
        BY <1>1, <3>3, <3>7, <3>10 DEF Joins
      <4>2. Size(b, q) = c.projects[q].max /\ q \in Projects(c)
        BY <1>2, <1>3, <3>10, <4>1
      <4>3. q # p
        BY <2>3, <3>3, <4>2
      <4>4. QED
        BY <3>8, <4>2, <4>3
    <3>11. QED
      BY <3>5, <3>6, <3>9, <3>10
  <2>6. QED
    BY <2>4, <2>5
<1>4. Refilled(c, opts, a) = Iterate(n, step, a)
  BY DEF Refilled
<1> HIDE DEF step
<1>5. \A i \in 1 .. n : \A b \in G[i - 1] : step[i][b] \in G[i]
  <2>1. SUFFICES ASSUME NEW i \in 1 .. n, NEW b \in G[i - 1] PROVE step[i][b] \in G[i]
    OBVIOUS
  <2>2. i \in 0 .. n /\ i - 1 \in 0 .. n
    BY <1>1
  <2> HIDE DEF Same, Done
  <2>3. b \in Feasible(c, opts) /\ Same(b) /\ Done(b, i - 1)
    BY <2>2
  <2>4. QED
    BY <1>3, <2>2, <2>3
<1>6. a \in G[0]
  <2>1. Same(a) /\ Done(a, 0)
    BY DEF Active
  <2>2. QED
    BY <1>1, <2>1
<1>7. G[n] = {b \in Feasible(c, opts) : Same(b) /\ Done(b, n)}
  BY <1>1
<1>8. Iterate(n, step, a) \in G[n]
  <2> HIDE DEF G, n
  <2> QED
    BY <1>1, <1>5, <1>6, IterateKeeps
<1>9. QED
  <2>1. PICK b \in Feasible(c, opts) : b = Refilled(c, opts, a) /\ Same(b) /\ Done(b, n)
    BY <1>4, <1>7, <1>8
  <2>2. ASSUME NEW s \in Students(c), b[s] = None, NEW p \in opts[s] \ {None}, Team(b, p) # {}
        PROVE  Size(b, p) = c.projects[p].max
    BY <1>1, <1>2, <2>1, <2>2
  <2>3. QED
    BY <2>1, <2>2 DEF Settled

\* Whatever the search proposes, repair makes a feasible assignment of it that leaves
\* nobody out who could join a running project (repair_assignment).
THEOREM RepairSettles ==
    ASSUME NEW c, ContextOK(c), None \notin Nat, NEW opts, OptionsOK(c, opts),
           NEW g \in Assignments(c), NEW a \in Repaired(c, opts, g)
    PROVE  a \in Settled(c, opts)
<1>1. PICK t \in Trimmed(c, Normalized(opts, g)) :
          a = Refilled(c, opts, Deactivated(c, Staffed(c, opts, t)))
  BY DEF Repaired
<1>2. t \in Fitting(c, opts)
  BY <1>1, TrimFits
<1>3. Staffed(c, opts, t) \in Fitting(c, opts)
  BY <1>2, StaffFits
<1>4. Deactivated(c, Staffed(c, opts, t)) \in Feasible(c, opts)
  BY <1>3, DeactivateLeavesFeasible
<1>5. QED
  BY <1>1, <1>4, RefillSettles

-----------------------------------------------------------------------------
(* The flow *)

\* f holds the concatenations of the first 1 to m of the sequences.
Flattens(f, m, seqs) == f = [i \in 1 .. m |-> IF i = 1 THEN seqs[i] ELSE f[i - 1] \o seqs[i]]

\* Such concatenations exist, and hold what the sequences hold.
LEMMA FlattenExists ==
    ASSUME NEW T, NEW seqs, NEW n \in Nat, \A i \in 1 .. n : seqs[i] \in Seq(T)
    PROVE  \E f : Flattens(f, n, seqs) /\ \A i \in 1 .. n : f[i] \in Seq(T)
<1> USE DEF Flattens
<1> DEFINE Makes(f, m) == f = [i \in 1 .. m |-> IF i = 1 THEN seqs[i] ELSE f[i - 1] \o seqs[i]]
           Typed(f, m) == \A i \in 1 .. m : f[i] \in Seq(T)
           Fails == {m \in 0 .. n : ~ \E f : Makes(f, m) /\ Typed(f, m)}
<1>1. ASSUME Fails # {} PROVE FALSE
  <2>1. PICK m \in Fails : \A k \in Fails : m <= k
    <3>1. Fails \in SUBSET Nat
      <4>1. 0 .. n \subseteq Nat
        OBVIOUS
      <4>2. Fails \subseteq 0 .. n
        BY Zenon
      <4> HIDE DEF Fails
      <4>3. QED
        BY <4>1, <4>2
    <3> HIDE DEF Fails
    <3>2. QED
      BY <1>1, <3>1, LeastNat
  <2>2. m \in 0 .. n
    OBVIOUS
  <2>3. CASE m = 0
    <3> DEFINE g == [i \in 1 .. 0 |-> seqs[i]]
    <3>1. Makes(g, 0)
      <4>1. \A i \in 1 .. 0 : seqs[i] = IF i = 1 THEN seqs[i] ELSE g[i - 1] \o seqs[i]
        OBVIOUS
      <4>2. g = [i \in 1 .. 0 |-> seqs[i]]
        OBVIOUS
      <4> HIDE DEF g
      <4>3. QED
        BY <4>1, <4>2
    <3>2. Typed(g, 0)
      OBVIOUS
    <3> HIDE DEF g
    <3>3. QED
      BY <2>1, <2>3, <3>1, <3>2
  <2>4. CASE m # 0
    <3>1. m - 1 \in 0 .. n /\ m - 1 \notin Fails
      <4> HIDE DEF Fails
      <4>1. QED
        BY <2>1, <2>2, <2>4
    <3>2. PICK f : Makes(f, m - 1) /\ Typed(f, m - 1)
      BY <3>1
    <3> DEFINE e == IF m = 1 THEN seqs[1] ELSE f[m - 1] \o seqs[m]
    <3>3. e \in Seq(T)
      <4>1. seqs[m] \in Seq(T)
        BY <2>2, <2>4
      <4>2. m # 1 => f[m - 1] \in Seq(T)
        BY <2>2, <2>4, <3>2
      <4>3. QED
        BY <4>1, <4>2, ConcatProperties
    <3> HIDE DEF e
    <3> DEFINE g == [i \in 1 .. m |-> IF i < m THEN f[i] ELSE e]
    <3>4. \A i \in 1 .. m : g[i] = IF i = 1 THEN seqs[i] ELSE g[i - 1] \o seqs[i]
      <4>1. SUFFICES ASSUME NEW i \in 1 .. m
                     PROVE  g[i] = IF i = 1 THEN seqs[i] ELSE g[i - 1] \o seqs[i]
        OBVIOUS
      <4>2. CASE i < m
        <5>1. f[i] = IF i = 1 THEN seqs[i] ELSE f[i - 1] \o seqs[i]
          <6>1. i \in 1 .. m - 1
            BY <2>2, <4>1, <4>2
          <6>2. f = [k \in 1 .. m - 1 |-> IF k = 1 THEN seqs[k] ELSE f[k - 1] \o seqs[k]]
            BY <3>2
          <6>3. QED
            BY <6>1, <6>2
        <5>2. i # 1 => i - 1 \in 1 .. m /\ i - 1 < m
          BY <2>2, <4>1, <4>2
        <5>3. QED
          BY <4>1, <4>2, <5>1, <5>2
      <4>3. CASE i = m
        <5>1. g[i] = e
          BY <2>2, <4>1, <4>3
        <5>2. i # 1 => g[i - 1] = f[m - 1]
          BY <2>2, <4>1, <4>3
        <5>3. QED
          BY <4>3, <5>1, <5>2 DEF e
      <4>4. QED
        BY <2>2, <4>1, <4>2, <4>3
    <3>5. Makes(g, m)
      <4>1. g = [i \in 1 .. m |-> g[i]]
        OBVIOUS
      <4> HIDE DEF g
      <4>2. QED
        BY <3>4, <4>1
    <3>6. Typed(g, m)
      BY <2>2, <3>2, <3>3
    <3> HIDE DEF g
    <3>7. QED
      BY <2>1, <3>5, <3>6
  <2>5. QED
    BY <2>3, <2>4
<1>2. n \in 0 .. n /\ n \notin Fails
  <2> HIDE DEF Fails
  <2>1. QED
    BY <1>1
<1>3. QED
  BY <1>2

\* A concatenation holds what the sequences hold.
LEMMA FlattenIs ==
    ASSUME NEW T, NEW seqs \in Seq(Seq(T))
    PROVE  FlattenSeq(seqs) \in Seq(T)
<1> DEFINE n == Len(seqs)
<1>1. n \in Nat /\ \A i \in 1 .. n : seqs[i] \in Seq(T)
  OBVIOUS
<1>2. CASE n = 0
  <2>1. FlattenSeq(seqs) = seqs /\ seqs = <<>>
    BY <1>2 DEF FlattenSeq
  <2>2. QED
    BY <2>1
<1>3. CASE n # 0
  <2> DEFINE g == CHOOSE g : g = [i \in 1 .. n |-> IF i = 1 THEN seqs[i] ELSE g[i - 1] \o seqs[i]]
  <2>1. FlattenSeq(seqs) = g[n]
    BY <1>3 DEF FlattenSeq
  <2>2. PICK f : Flattens(f, n, seqs) /\ \A i \in 1 .. n : f[i] \in Seq(T)
    <3> HIDE DEF n
    <3>1. QED
      BY <1>1, FlattenExists
  <2>3. g = [i \in 1 .. n |-> IF i = 1 THEN seqs[i] ELSE g[i - 1] \o seqs[i]]
    <3>1. \E h : h = [i \in 1 .. n |-> IF i = 1 THEN seqs[i] ELSE h[i - 1] \o seqs[i]]
      BY <2>2 DEF Flattens
    <3>2. QED
      BY <3>1
  <2> HIDE DEF g
  <2> DEFINE Fails == {m \in 1 .. n : g[m] \notin Seq(T)}
  <2>4. ASSUME Fails # {} PROVE FALSE
    <3>1. PICK m \in Fails : \A k \in Fails : m <= k
      <4>1. Fails \in SUBSET Nat
        OBVIOUS
      <4> HIDE DEF Fails
      <4>2. QED
        BY <2>4, <4>1, LeastNat
    <3>2. m \in 1 .. n /\ g[m] \notin Seq(T)
      OBVIOUS
    <3> HIDE DEF Fails
    <3>3. seqs[m] \in Seq(T) /\ (m # 1 => m - 1 \in 1 .. n)
      BY <1>1, <3>2
    <3>4. m # 1 => g[m - 1] \in Seq(T)
      <4>1. m # 1 => m - 1 \notin Fails
        BY <1>1, <3>1, <3>2
      <4>2. QED
        BY <3>3, <4>1 DEF Fails
    <3>5. g[m] = IF m = 1 THEN seqs[m] ELSE g[m - 1] \o seqs[m]
      BY <2>3, <3>2
    <3>6. QED
      BY <3>2, <3>3, <3>4, <3>5, ConcatProperties
  <2>5. n \in 1 .. n /\ n \notin Fails
    <3> HIDE DEF Fails
    <3>1. QED
      BY <1>1, <1>3, <2>4
  <2>6. QED
    BY <2>1, <2>5
<1>4. QED
  BY <1>2, <1>3

\* The records over several files are a list of what the files hold.
LEMMA RecordsAre ==
    ASSUME NEW fs, IsList(fs), NEW T,
           \A f \in ToSet(fs) : IsList(f.records) /\ ToSet(f.records) \subseteq T
    PROVE  Records(fs) \in Seq(T)
<1> DEFINE seqs == [i \in DOMAIN fs |-> fs[i].records]
<1>1. Len(fs) \in Nat /\ DOMAIN fs = 1 .. Len(fs)
  BY DEF IsList
<1>2. \A i \in DOMAIN fs : seqs[i] \in Seq(T)
  <2>1. SUFFICES ASSUME NEW i \in DOMAIN fs PROVE fs[i].records \in Seq(T)
    OBVIOUS
  <2>2. fs[i] \in ToSet(fs)
    BY <2>1 DEF ToSet
  <2>3. fs[i].records \in Seq(ToSet(fs[i].records)) /\ ToSet(fs[i].records) \subseteq T
    BY <2>2 DEF IsList
  <2>4. QED
    BY <2>3
<1>3. seqs \in Seq(Seq(T))
  BY <1>1, <1>2
<1> HIDE DEF seqs
<1>4. FlattenSeq(seqs) \in Seq(T)
  BY <1>3, FlattenIs
<1>5. QED
  BY <1>4 DEF Records, seqs

\* What a generation needs of the configuration.
ConfigOK(g) == g.population_size \in Nat \ {0} /\ g.elite_count \in 0 .. g.population_size - 1

\* The context of an accepted input is one repair can work with.
LEMMA ContextIs ==
    ASSUME NEW src \in Sources, InputAccepted(src)
    PROVE  ContextOK(Context(src)) /\ ConfigOK(Context(src).config)
<1> DEFINE Ss == UNION {ToSet(f.records) : f \in ToSet(src.students)}
           Ps == UNION {ToSet(f.records) : f \in ToSet(src.projects)}
           students == Records(src.students)
           projects == Records(src.projects)
<1>1. students \in Seq(Ss)
  <2>1. /\ IsList(src.students)
        /\ \A f \in ToSet(src.students) : IsList(f.records) /\ ToSet(f.records) \subseteq Ss
    BY SourcesAssumption
  <2> HIDE DEF Ss
  <2>2. QED
    BY <2>1, RecordsAre
<1>2. projects \in Seq(Ps)
  <2>1. /\ IsList(src.projects)
        /\ \A f \in ToSet(src.projects) : IsList(f.records) /\ ToSet(f.records) \subseteq Ps
    BY SourcesAssumption
  <2> HIDE DEF Ps
  <2>2. QED
    BY <2>1, RecordsAre
<1>3. \A p \in Ps : IsProject(p)
  BY SourcesAssumption
<1> HIDE DEF Ss, Ps, students, projects
<1>4. /\ Len(students) \in Nat /\ DOMAIN students = 1 .. Len(students)
      /\ Len(projects) \in Nat /\ DOMAIN projects = 1 .. Len(projects)
  BY <1>1, <1>2
<1>5. ASSUME NEW i \in DOMAIN projects
      PROVE  LET p == NormalizedProject(projects[i])
             IN /\ p.min \in Nat \ {0} /\ p.max \in Nat /\ p.min <= p.max
                /\ Len(p.requirements) \in Nat
                /\ DOMAIN p.requirements = 1 .. Len(p.requirements)
  <2>1. projects[i] \in Ps
    BY <1>2, <1>5
  <2>2. IsProject(projects[i])
    BY <1>3, <2>1
  <2> DEFINE q == projects[i]
             p == NormalizedProject(q)
  <2>3. /\ p.min = q.min /\ p.max = q.max
        /\ p.requirements = [j \in DOMAIN q.requirements |-> NormalizedRequirement(q.requirements[j])]
    <3> HIDE DEF q
    <3>1. q = [id |-> q.id, min |-> q.min, max |-> q.max, requirements |-> q.requirements]
      BY <2>2 DEF IsProject, q
    <3>2. QED
      BY <3>1 DEF NormalizedProject
  <2>4. q.min \in Int /\ q.max \in Int /\ q.requirements \in Seq(ToSet(q.requirements))
    BY <2>2 DEF IsProject, IsList
  <2>5. ProjectAccepted(p)
    <3>1. projects[i] \in ToSet(projects)
      BY <1>5 DEF ToSet
    <3>2. QED
      BY <3>1 DEF InputAccepted, projects
  <2> HIDE DEF p, q
  <2>6. p.min \in Nat \ {0} /\ p.max \in Nat /\ p.min <= p.max
    BY <2>3, <2>4, <2>5 DEF ProjectAccepted
  <2>7. Len(p.requirements) \in Nat /\ DOMAIN p.requirements = 1 .. Len(p.requirements)
    <3>1. p.requirements \in Seq({NormalizedRequirement(q.requirements[j]) : j \in DOMAIN q.requirements})
      BY <2>3, <2>4
    <3>2. QED
      BY <3>1
  <2>8. QED
    BY <2>6, <2>7 DEF p, q
<1> DEFINE c == Context(src)
<1>6. /\ c.students = students /\ c.config = src.config
      /\ c.projects = [i \in DOMAIN projects |-> NormalizedProject(projects[i])]
  BY DEF Context, students, projects
<1> HIDE DEF c
<1>7. Len(c.projects) = Len(projects) /\ DOMAIN c.projects = DOMAIN projects
  <2>1. c.projects \in Seq({NormalizedProject(projects[i]) : i \in DOMAIN projects})
    BY <1>4, <1>6
  <2>2. QED
    BY <1>4, <1>6, <2>1
<1>8. \A i \in DOMAIN projects : c.projects[i] = NormalizedProject(projects[i])
  BY <1>6
<1>9. ContextOK(c)
  BY <1>4, <1>5, <1>6, <1>7, <1>8 DEF ContextOK, Students, Projects
<1>10. ConfigOK(c.config)
  BY <1>6, SourcesAssumption DEF ConfigOK, InputAccepted, ConfigAccepted
<1>11. QED
  BY <1>9, <1>10 DEF c

\* An insertion makes a sequence one longer.
LEMMA InsertIs ==
    ASSUME NEW T, NEW r \in Seq(T), NEW k \in 1 .. Len(r) + 1, NEW e \in T
    PROVE  InsertAt(r, k, e) \in Seq(T) /\ Len(InsertAt(r, k, e)) = Len(r) + 1
<1>1. Len(r) \in Nat /\ k \in Nat /\ k - 1 \in Int /\ 1 \in Int /\ Len(r) \in Int /\ k \in Int
  OBVIOUS
<1>2. /\ SubSeq(r, 1, k - 1) \in Seq(T)
      /\ Len(SubSeq(r, 1, k - 1)) = IF 1 <= k - 1 THEN (k - 1) - 1 + 1 ELSE 0
  <2>1. \A i \in 1 .. k - 1 : r[i] \in T
    OBVIOUS
  <2>2. QED
    BY <1>1, <2>1, SubSeqProperties
<1>3. /\ SubSeq(r, k, Len(r)) \in Seq(T)
      /\ Len(SubSeq(r, k, Len(r))) = IF k <= Len(r) THEN Len(r) - k + 1 ELSE 0
  <2>1. \A i \in k .. Len(r) : r[i] \in T
    OBVIOUS
  <2>2. QED
    BY <1>1, <2>1, SubSeqProperties
<1>4. <<e>> \in Seq(T) /\ Len(<<e>>) = 1
  OBVIOUS
<1> DEFINE u == SubSeq(r, 1, k - 1)  v == SubSeq(r, k, Len(r))  w == <<e>>
<1>5. u \in Seq(T) /\ v \in Seq(T) /\ w \in Seq(T) /\ Len(w) = 1 /\ Len(u) = k - 1 /\ Len(v) = Len(r) - k + 1
  BY <1>1, <1>2, <1>3, <1>4
<1>6. InsertAt(r, k, e) = u \o w \o v
  BY DEF InsertAt
<1> HIDE DEF u, v, w
<1>7. u \o w \in Seq(T) /\ Len(u \o w) = Len(u) + Len(w)
  BY <1>5, ConcatProperties
<1>8. (u \o w) \o v \in Seq(T) /\ Len((u \o w) \o v) = Len(u \o w) + Len(v)
  BY <1>5, <1>7, ConcatProperties
<1>9. Len((u \o w) \o v) = Len(r) + 1
  BY <1>1, <1>5, <1>7, <1>8
<1>10. QED
  BY <1>6, <1>8, <1>9

\* A ranking names as many members of the population as there are.
LEMMA RankedIs ==
    ASSUME NEW T, population \in Seq(T)
    PROVE  Ranked \in Seq(DOMAIN population) /\ Len(Ranked) = Len(population)
<1> DEFINE n == Len(population)
           D == DOMAIN population
           score == [i \in D |-> Fitness(ctx, population[i])]
           ahead(r, i) == {k \in DOMAIN r : score[r[k]] >= score[i]}
           step == [i \in D |-> [r \in Seq(D) |-> InsertAt(r, Cardinality(ahead(r, i)) + 1, i)]]
           G == [i \in 0 .. n |-> {r \in Seq(D) : Len(r) = i}]
<1>1. n \in Nat /\ D = 1 .. n
  OBVIOUS
<1>2. Ranked = Iterate(n, step, <<>>)
  BY DEF Ranked
<1> HIDE DEF score
<1>3. ASSUME NEW i \in 1 .. n, NEW r \in G[i - 1] PROVE step[i][r] \in G[i]
  <2>1. i \in 0 .. n /\ i - 1 \in 0 .. n /\ i \in D
    BY <1>1
  <2>2. r \in Seq(D) /\ Len(r) = i - 1
    BY <2>1
  <2> DEFINE A == ahead(r, i)
  <2>3. A \subseteq 1 .. i - 1
    BY <2>2
  <2> HIDE DEF A
  <2>4. Cardinality(A) \in 0 .. i - 1
    <3>1. IsFiniteSet(1 .. i - 1) /\ Cardinality(1 .. i - 1) = i - 1
      <4>1. 1 \in Int /\ i - 1 \in Int /\ 1 <= i
        BY <1>1, <2>1
      <4>2. /\ IsFiniteSet(1 .. i - 1)
            /\ Cardinality(1 .. i - 1) = IF 1 > i - 1 THEN 0 ELSE (i - 1) - 1 + 1
        BY <4>1, FS_Interval
      <4>3. QED
        BY <4>1, <4>2
    <3>2. IsFiniteSet(A) /\ Cardinality(A) <= i - 1
      BY <2>3, <3>1, FS_Subset
    <3>3. Cardinality(A) \in Nat
      BY <3>2, FS_CardinalityType
    <3>4. QED
      BY <1>1, <2>1, <3>2, <3>3
  <2> DEFINE k == Cardinality(A) + 1
  <2>5. k \in 1 .. Len(r) + 1
    BY <1>1, <2>1, <2>2, <2>4
  <2>6. step[i][r] = InsertAt(r, k, i)
    BY <2>1, <2>2 DEF A
  <2> HIDE DEF k, step, D
  <2>7. InsertAt(r, k, i) \in Seq(D) /\ Len(InsertAt(r, k, i)) = Len(r) + 1
    BY <2>1, <2>2, <2>5, InsertIs, ZenonT(40)
  <2>8. QED
    BY <1>1, <2>1, <2>2, <2>6, <2>7
<1>4. <<>> \in G[0]
  BY <1>1
<1>5. G[n] = {r \in Seq(D) : Len(r) = n}
  BY <1>1
<1> HIDE DEF G, step, n
<1>6. Iterate(n, step, <<>>) \in G[n]
  BY <1>1, <1>3, <1>4, IterateKeeps
<1>7. QED
  BY <1>2, <1>5, <1>6 DEF n

Found == Settled(ctx, options)

\* Nothing is proposed before the candidates are pruned.
Before == /\ phase \in {"load", "prune", "failed"}
          /\ population = <<>> /\ offspring = <<>> /\ best = None
          /\ phase = "prune" => InputAccepted(source) /\ ctx = Context(source)

\* Afterwards every proposal is one that repair has settled, and a generation is as
\* large as configured.
Begun == /\ phase \notin {"load", "prune"}
         /\ InputAccepted(source) /\ ctx = Context(source) /\ OptionsOK(ctx, options)
         /\ population \in Seq(Found) /\ offspring \in Seq(Found) /\ best \in Found \cup {None}
         /\ phase = "seed" => Len(population) < ctx.config.population_size /\ offspring = <<>>
         /\ phase \in {"evaluate", "breed"} => Len(population) = ctx.config.population_size
         /\ phase = "evaluate" => offspring = <<>>
         /\ phase = "breed" => Len(offspring) < ctx.config.population_size

FlowInv == source \in Sources /\ (Before \/ Begun)

\* What repair returns for the context of the run may join a generation.
LEMMA ProposalIsFound ==
    ASSUME FlowInv, Begun, NEW g \in Assignments(ctx), NEW a \in Repaired(ctx, options, g)
    PROVE  a \in Found
<1>1. PICK c : c = ctx
  OBVIOUS
<1>2. PICK opts : opts = options
  OBVIOUS
<1>3. PICK src \in Sources : src = source
  BY DEF FlowInv
<1>4. ContextOK(c)
  BY <1>1, <1>3, ContextIs DEF Begun
<1>5. OptionsOK(c, opts) /\ None \notin Nat
  BY <1>1, <1>2, SourcesAssumption DEF Begun
<1>6. g \in Assignments(c) /\ a \in Repaired(c, opts, g)
  BY <1>1, <1>2
<1>7. a \in Settled(c, opts)
  BY <1>4, <1>5, <1>6, RepairSettles
<1>8. QED
  BY <1>1, <1>2, <1>7 DEF Found

\* The configuration of a run that has begun.
LEMMA SizeIs ==
    ASSUME FlowInv, Begun
    PROVE  ConfigOK(ctx.config)
<1>1. PICK src \in Sources : src = source
  BY DEF FlowInv
<1>2. QED
  BY <1>1, ContextIs DEF Begun

\* The initial states keep it.
LEMMA FlowStarts == FlowInit => FlowInv
  BY DEF FlowInit, FlowInv, Before

LEMMA LoadKeeps == FlowInv /\ Load => FlowInv'
<1>1. SUFFICES ASSUME FlowInv, Load PROVE FlowInv'
  OBVIOUS
<1>2. Before
  BY <1>1 DEF FlowInv, Begun, Load
<1>3. Before'
  BY <1>1, <1>2 DEF Before, Load, search
<1>4. QED
  BY <1>1, <1>3 DEF FlowInv, Load

LEMMA PruneKeeps == FlowInv /\ Prune => FlowInv'
<1>1. SUFFICES ASSUME FlowInv, Prune PROVE FlowInv'
  OBVIOUS
<1>2. Before /\ InputAccepted(source) /\ ctx = Context(source) /\ source \in Sources
  BY <1>1 DEF FlowInv, Begun, Before, Prune
<1>3. CASE phase' = "failed"
  <2>1. Before'
    BY <1>1, <1>2, <1>3 DEF Before, Prune
  <2>2. QED
    BY <1>1, <2>1 DEF FlowInv, Prune
<1>4. CASE phase' # "failed"
  <2>1. phase' = "seed" /\ options' = [s \in Students(ctx) |-> Options(ctx, s)]
    BY <1>1, <1>4 DEF Prune
  <2>2. /\ source' = source /\ ctx' = ctx /\ population' = <<>> /\ offspring' = <<>> /\ best' = None
    BY <1>1, <1>2 DEF Prune, Before
  <2>3. OptionsOK(ctx, options')
    BY <2>1 DEF OptionsOK, Options
  <2>4. PICK src \in Sources : src = source
    BY <1>2
  <2>5. ConfigOK(ctx.config)
    BY <1>2, <2>4, ContextIs
  <2>6. 0 < ctx.config.population_size
    BY <2>5 DEF ConfigOK
  <2>7. Begun'
    <3>1. OptionsOK(ctx, options)'
      BY <2>2, <2>3 DEF OptionsOK, Students, Projects
    <3>2. Len(population') = 0 /\ population' \in Seq(Found') /\ offspring' \in Seq(Found')
      BY <2>2
    <3>3. QED
      BY <1>2, <2>1, <2>2, <2>6, <3>1, <3>2 DEF Begun
  <2>8. QED
    BY <1>2, <2>2, <2>7 DEF FlowInv
<1>5. QED
  BY <1>3, <1>4

LEMMA SeedKeeps == FlowInv /\ SeedMember => FlowInv'
<1>1. SUFFICES ASSUME FlowInv, SeedMember PROVE FlowInv'
  OBVIOUS
<1>2. Begun
  BY <1>1 DEF FlowInv, Before, SeedMember
<1>3. PICK b \in Found : population' = Append(population, b)
  <2>1. PICK a \in Assignments(ctx) : \E b \in Repaired(ctx, options, a) : population' = Append(population, b)
    BY <1>1 DEF SeedMember
  <2>2. PICK b \in Repaired(ctx, options, a) : population' = Append(population, b)
    BY <2>1
  <2>3. b \in Found
    BY <1>1, <1>2, ProposalIsFound
  <2>4. QED
    BY <2>2, <2>3
<1>4. Found' = Found
  BY <1>1 DEF Found, Settled, Feasible, Fitting, SeedMember
<1>5. population' \in Seq(Found) /\ Len(population') = Len(population) + 1
  BY <1>2, <1>3 DEF Begun
<1>6. Len(population) < ctx.config.population_size /\ offspring = <<>> /\ Len(population) \in Nat
  BY <1>1, <1>2 DEF Begun, SeedMember
<1>7. ctx.config.population_size \in Nat
  BY <1>1, <1>2, SizeIs DEF ConfigOK
<1>8. Begun'
  <2>1. phase' = IF Len(population') = ctx.config.population_size THEN "evaluate" ELSE "seed"
    BY <1>1 DEF SeedMember
  <2>2. /\ source' = source /\ ctx' = ctx /\ options' = options /\ offspring' = offspring /\ best' = best
    BY <1>1 DEF SeedMember
  <2>3. Len(population') = ctx.config.population_size \/ Len(population') < ctx.config.population_size
    BY <1>5, <1>6, <1>7
  <2>4. OptionsOK(ctx, options)'
    BY <1>2, <2>2 DEF Begun, OptionsOK, Students, Projects
  <2>5. QED
    BY <1>2, <1>4, <1>5, <1>6, <2>1, <2>2, <2>3, <2>4 DEF Begun
<1>9. QED
  BY <1>1, <1>8 DEF FlowInv, SeedMember

LEMMA EvaluateKeeps == FlowInv /\ Evaluate => FlowInv'
<1>1. SUFFICES ASSUME FlowInv, Evaluate PROVE FlowInv'
  OBVIOUS
<1>2. Begun
  BY <1>1 DEF FlowInv, Before, Evaluate
<1>3. /\ source' = source /\ ctx' = ctx /\ options' = options /\ population' = population
      /\ phase' \in {"breed", "validate"}
      /\ offspring' = IF phase' = "breed" THEN Elites ELSE <<>>
  BY <1>1 DEF Evaluate
<1>4. Found' = Found /\ OptionsOK(ctx, options)'
  BY <1>2, <1>3 DEF Begun, Found, Settled, Feasible, Fitting, OptionsOK, Students, Projects
<1>5. population \in Seq(Found) /\ Len(population) = ctx.config.population_size
  BY <1>1, <1>2 DEF Begun, Evaluate
<1>6. ConfigOK(ctx.config)
  BY <1>1, <1>2, SizeIs
<1>7. Ranked \in Seq(DOMAIN population) /\ Len(Ranked) = Len(population)
  BY <1>5, RankedIs
<1>8. \A i \in 1 .. Len(population) : population[Ranked[i]] \in Found
  BY <1>5, <1>7
<1>9. /\ ctx.config.population_size \in Nat \ {0} /\ ctx.config.elite_count \in Nat
      /\ ctx.config.elite_count < ctx.config.population_size
  BY <1>6 DEF ConfigOK
<1>10. best' \in Found \cup {None}
  <2>1. population[Ranked[1]] \in Found
    BY <1>5, <1>8, <1>9
  <2>2. best' = population[Ranked[1]] \/ best' = best
    BY <1>1 DEF Evaluate
  <2>3. QED
    BY <1>2, <2>1, <2>2 DEF Begun
<1>11. Elites \in Seq(Found) /\ Len(Elites) < ctx.config.population_size
  <2> DEFINE n == ctx.config.elite_count
             e == [i \in 1 .. n |-> population[Ranked[i]]]
  <2>1. \A i \in 1 .. n : population[Ranked[i]] \in Found
    BY <1>5, <1>8, <1>9
  <2>2. e \in Seq(Found) /\ Len(e) = n
    BY <1>9, <2>1
  <2>3. Elites = e
    BY DEF Elites
  <2>4. QED
    BY <1>9, <2>2, <2>3
<1>12. offspring' \in Seq(Found) /\ (phase' = "breed" => Len(offspring') < ctx.config.population_size)
  BY <1>3, <1>11
<1>13. Begun'
  BY <1>2, <1>3, <1>4, <1>5, <1>10, <1>12 DEF Begun
<1>14. QED
  BY <1>1, <1>3, <1>13 DEF FlowInv

LEMMA BreedKeeps == FlowInv /\ BreedChild => FlowInv'
<1>1. SUFFICES ASSUME FlowInv, BreedChild PROVE FlowInv'
  OBVIOUS
<1>2. Begun
  BY <1>1 DEF FlowInv, Before, BreedChild
<1> DEFINE next == Len(offspring) + 1 = ctx.config.population_size
<1>3. PICK child \in Found :
          IF next THEN population' = Append(offspring, child) /\ offspring' = <<>>
          ELSE offspring' = Append(offspring, child) /\ UNCHANGED population
  <2>1. PICK g \in UNION {Children(a, b) : a, b \in Winners} :
           \E child \in Repaired(ctx, options, g) :
              IF next THEN population' = Append(offspring, child) /\ offspring' = <<>>
              ELSE offspring' = Append(offspring, child) /\ UNCHANGED population
    BY <1>1 DEF BreedChild
  <2>2. g \in Assignments(ctx)
    BY DEF Children
  <2>3. PICK child \in Repaired(ctx, options, g) :
              IF next THEN population' = Append(offspring, child) /\ offspring' = <<>>
              ELSE offspring' = Append(offspring, child) /\ UNCHANGED population
    BY <2>1
  <2>4. child \in Found
    BY <1>1, <1>2, <2>2, ProposalIsFound
  <2>5. QED
    BY <2>3, <2>4
<1>4. /\ source' = source /\ ctx' = ctx /\ options' = options /\ best' = best
      /\ phase' = IF next THEN "evaluate" ELSE "breed"
  BY <1>1 DEF BreedChild
<1>5. Found' = Found /\ OptionsOK(ctx, options)'
  BY <1>2, <1>4 DEF Begun, Found, Settled, Feasible, Fitting, OptionsOK, Students, Projects
<1>6. /\ population \in Seq(Found) /\ Len(population) = ctx.config.population_size
      /\ offspring \in Seq(Found) /\ Len(offspring) < ctx.config.population_size
  BY <1>1, <1>2 DEF Begun, BreedChild
<1>7. ctx.config.population_size \in Nat
  BY <1>1, <1>2, SizeIs DEF ConfigOK
<1>8. Append(offspring, child) \in Seq(Found) /\ Len(Append(offspring, child)) = Len(offspring) + 1
  BY <1>3, <1>6
<1>9. CASE next
  <2>1. population' \in Seq(Found) /\ Len(population') = ctx.config.population_size /\ offspring' = <<>>
    BY <1>3, <1>8, <1>9
  <2>2. Begun'
    BY <1>2, <1>4, <1>5, <1>9, <2>1 DEF Begun
  <2>3. QED
    BY <1>1, <1>4, <2>2 DEF FlowInv
<1>10. CASE ~ next
  <2>1. /\ population' = population /\ offspring' \in Seq(Found)
        /\ Len(offspring') < ctx.config.population_size
    <3>1. population' = population /\ offspring' = Append(offspring, child)
      BY <1>3, <1>10
    <3>2. Len(offspring) \in Nat /\ Len(offspring) + 1 # ctx.config.population_size
      BY <1>6, <1>10
    <3>3. Len(offspring) + 1 < ctx.config.population_size
      BY <1>6, <1>7, <3>2
    <3>4. QED
      BY <1>8, <3>1, <3>3
  <2>2. Begun'
    BY <1>2, <1>4, <1>5, <1>6, <1>10, <2>1 DEF Begun
  <2>3. QED
    BY <1>1, <1>4, <2>2 DEF FlowInv
<1>11. QED
  BY <1>9, <1>10

\* Saving proposes nothing.
LEMMA SavingKeeps ==
    ASSUME FlowInv, UNCHANGED <<source, ctx, search>>,
           phase' = phase \/ /\ phase \in {"validate", "scan", "create", "write", "verify"}
                             /\ phase' \in {"scan", "invalid", "create", "write", "failed", "verify",
                                            "saved", "mismatch"}
    PROVE  FlowInv'
<1>1. CASE Before
  <2>1. phase' = phase
    BY <1>1 DEF Before
  <2>2. Before'
    BY <1>1, <2>1 DEF Before, search
  <2>3. QED
    BY <2>2 DEF FlowInv
<1>2. CASE Begun
  <2>1. /\ source' = source /\ ctx' = ctx /\ options' = options /\ population' = population
        /\ offspring' = offspring /\ best' = best
    BY DEF search
  <2>2. Found' = Found /\ OptionsOK(ctx, options)'
    BY <1>2, <2>1 DEF Begun, Found, Settled, Feasible, Fitting, OptionsOK, Students, Projects
  <2>3. Begun'
    <3>1. CASE phase' = phase
      BY <1>2, <2>1, <2>2, <3>1 DEF Begun
    <3>2. CASE phase' # phase
      BY <1>2, <2>1, <2>2, <3>2 DEF Begun
    <3>3. QED
      BY <3>1, <3>2
  <2>4. QED
    BY <2>1, <2>3 DEF FlowInv
<1>3. QED
  BY <1>1, <1>2 DEF FlowInv

LEMMA FlowStep == FlowInv /\ [FlowNext]_flowVars => FlowInv'
<1>1. SUFFICES ASSUME FlowInv, [FlowNext]_flowVars PROVE FlowInv'
  OBVIOUS
<1>2. CASE Load
  BY <1>1, <1>2, LoadKeeps
<1>3. CASE Prune
  BY <1>1, <1>3, PruneKeeps
<1>4. CASE SeedMember
  BY <1>1, <1>4, SeedKeeps
<1>5. CASE Evaluate
  BY <1>1, <1>5, EvaluateKeeps
<1>6. CASE BreedChild
  BY <1>1, <1>6, BreedKeeps
<1>7. CASE ValidateResult
  <2>1. UNCHANGED <<source, ctx, search>> /\ phase = "validate" /\ phase' \in {"scan", "invalid"}
    BY <1>7 DEF ValidateResult
  <2>2. QED
    BY <1>1, <2>1, SavingKeeps
<1>8. CASE ScanDirectory
  <2>1. UNCHANGED <<source, ctx, search>> /\ phase = "scan" /\ phase' = "create"
    BY <1>8 DEF ScanDirectory
  <2>2. QED
    BY <1>1, <2>1, SavingKeeps
<1>9. CASE CreateArtifact
  <2>1. UNCHANGED <<source, ctx, search>> /\ phase = "create" /\ phase' \in {"write", "failed", "create"}
    BY <1>9 DEF CreateArtifact
  <2>2. QED
    BY <1>1, <2>1, SavingKeeps
<1>10. CASE WriteArtifact
  <2>1. UNCHANGED <<source, ctx, search>> /\ phase = "write" /\ phase' = "verify"
    BY <1>10 DEF WriteArtifact
  <2>2. QED
    BY <1>1, <2>1, SavingKeeps
<1>11. CASE VerifyArtifact
  <2>1. UNCHANGED <<source, ctx, search>> /\ phase = "verify" /\ phase' \in {"saved", "mismatch"}
    BY <1>11 DEF VerifyArtifact
  <2>2. QED
    BY <1>1, <2>1, SavingKeeps
<1>12. CASE OtherCreates \/ OtherWrites \/ Ended \/ UNCHANGED flowVars
  <2>1. UNCHANGED <<source, ctx, search>> /\ phase' = phase
    BY <1>12 DEF OtherCreates, OtherWrites, Ended, flowVars
  <2>2. QED
    BY <1>1, <2>1, SavingKeeps
<1>13. QED
  BY <1>1, <1>2, <1>3, <1>4, <1>5, <1>6, <1>7, <1>8, <1>9, <1>10, <1>11, <1>12 DEF FlowNext, Flow

LEMMA FlowInvHolds == FlowSpec => []FlowInv
<1>1. FlowInit => FlowInv
  BY FlowStarts
<1>2. FlowInv /\ [FlowNext]_flowVars => FlowInv'
  BY FlowStep
<1>3. QED
  BY <1>1, <1>2, PTL DEF FlowSpec

\* What repair settles is feasible, and nobody is where he is no candidate.
LEMMA FoundIsFeasible ==
    ASSUME FlowInv, Begun, NEW a \in Found
    PROVE  /\ \A p \in Projects(ctx) : TeamFeasible(a, p)
           /\ OnlyCandidates(a)
           /\ DOMAIN a = Students(ctx)
<1>1. PICK c : c = ctx
  OBVIOUS
<1>2. PICK src \in Sources : src = source
  BY DEF FlowInv
<1>3. ContextOK(c)
  BY <1>1, <1>2, ContextIs DEF Begun
<1>4. a \in Settled(c, options)
  BY <1>1 DEF Found
<1>5. /\ a \in Assignments(c) /\ \A s \in Students(c) : a[s] = None \/ a[s] \in options[s]
      /\ \A p \in Projects(c) : Size(a, p) <= c.projects[p].max
      /\ \A p \in Projects(c) : Team(a, p) = {} \/ /\ Size(a, p) >= c.projects[p].min
                                                   /\ HardRequirementsCovered(c, Team(a, p), p)
  BY <1>4 DEF Settled, Feasible, Fitting
<1>6. DOMAIN a = Students(c)
  BY <1>5 DEF Assignments
<1>7. ASSUME NEW p \in Projects(c) PROVE TeamFeasible(a, p)
  <2>1. Size(a, p) \in Nat /\ (Size(a, p) = 0 <=> Team(a, p) = {})
    BY <1>3, <1>5, TeamIs
  <2>2. c.projects[p].min \in Nat /\ c.projects[p].max \in Nat
    BY <1>3, <1>7 DEF ContextOK
  <2>3. QED
    BY <1>1, <1>5, <1>7, <2>1, <2>2 DEF TeamFeasible
<1>8. QED
  BY <1>1, <1>5, <1>6, <1>7 DEF OnlyCandidates

\* The search only ever returns teams that can run (TeamsFeasible).
THEOREM TeamsFeasibleHolds == FlowSpec => []TeamsFeasible
<1>1. FlowInv => TeamsFeasible
  <2>1. SUFFICES ASSUME FlowInv,
                        NEW a \in ToSet(population) \cup ToSet(offspring) \cup ({best} \ {None})
                 PROVE  (\A p \in Projects(ctx) : TeamFeasible(a, p)) /\ OnlyCandidates(a)
    BY DEF TeamsFeasible
  <2>2. Begun
    BY <2>1 DEF FlowInv, Before, ToSet
  <2>3. a \in Found
    BY <2>1, <2>2 DEF Begun, ToSet
  <2>4. QED
    BY <2>1, <2>2, <2>3, FoundIsFeasible
<1>2. QED
  BY <1>1, FlowInvHolds, PTL

\* Nobody is left out of a project that runs, has a seat and would take him
\* (NobodyStranded).
THEOREM NobodyStrandedHolds == FlowSpec => []NobodyStranded
<1>1. FlowInv => NobodyStranded
  <2>1. SUFFICES ASSUME FlowInv, NEW a \in ToSet(population), NEW s \in DOMAIN a, a[s] = None,
                        NEW p \in options[s] \ {None}, Size(a, p) > 0
                 PROVE  Size(a, p) = ctx.projects[p].max
    BY DEF NobodyStranded
  <2>2. Begun
    BY <2>1 DEF FlowInv, Before, ToSet
  <2>3. a \in Found
    BY <2>1, <2>2 DEF Begun, ToSet
  <2>4. s \in Students(ctx)
    BY <2>1, <2>2, <2>3, FoundIsFeasible
  <2>5. Team(a, p) # {}
    BY <2>1, FS_EmptySet DEF Size
  <2>6. QED
    BY <2>1, <2>3, <2>4, <2>5 DEF Found, Settled
<1>2. QED
  BY <1>1, FlowInvHolds, PTL

\* While this run writes, the number it found free holds its file.
OwnInv == /\ files = [i \in DOMAIN files |-> files[i]]
          /\ phase = "write" => next_index \in DOMAIN files /\ files[next_index] = "torn"
          /\ phase = "verify" => next_index \in DOMAIN files /\ files[next_index] = "mine"

\* Whichever runs save into the directory, none loses what it saved (ArtifactsKept).
THEOREM ArtifactsKeptHolds == FlowSpec => ArtifactsKept
<1> DEFINE Kept == /\ \A i \in DOMAIN files : /\ i \in DOMAIN files'
                                              /\ files[i] = "theirs" => files'[i] = "theirs"
                                              /\ files[i] = "theirs, torn" => files'[i] # "mine"
                   /\ phase' # "mismatch"
<1>1. FlowInit => OwnInv
  BY DEF FlowInit, OwnInv
<1>2. OwnInv /\ [FlowNext]_flowVars => OwnInv' /\ [Kept]_flowVars
  <2>1. SUFFICES ASSUME OwnInv, [FlowNext]_flowVars PROVE OwnInv' /\ [Kept]_flowVars
    OBVIOUS
  <2>2. CASE UNCHANGED flowVars
    BY <2>1, <2>2 DEF OwnInv, flowVars, saving
  <2>3. CASE Load \/ Prune \/ SeedMember \/ Evaluate \/ BreedChild
    <3>1. files' = files /\ phase' \notin {"write", "verify", "mismatch"}
      BY <2>3 DEF Load, Prune, SeedMember, Evaluate, BreedChild, saving
    <3>2. QED
      BY <2>1, <3>1 DEF OwnInv
  <2>4. CASE ValidateResult \/ ScanDirectory
    <3>1. files' = files /\ phase' \notin {"write", "verify", "mismatch"}
      BY <2>4 DEF ValidateResult, ScanDirectory, saving
    <3>2. QED
      BY <2>1, <3>1 DEF OwnInv
  <2>5. CASE CreateArtifact
    BY <2>1, <2>5, ZenonT(40) DEF CreateArtifact, OwnInv, With
  <2>6. CASE WriteArtifact
    BY <2>1, <2>6 DEF WriteArtifact, OwnInv
  <2>7. CASE VerifyArtifact
    BY <2>1, <2>7 DEF VerifyArtifact, OwnInv, saving
  <2>8. CASE OtherCreates
    <3>1. /\ files' = With(NextArtifactIndex, "theirs, torn")
          /\ phase' = phase /\ next_index' = next_index /\ phase # "mismatch"
      BY <2>8 DEF OtherCreates
    <3>2. QED
      BY <2>1, <3>1 DEF OwnInv, With
  <2>9. CASE OtherWrites
    <3>1. PICK i \in DOMAIN files : files[i] = "theirs, torn" /\ files' = [files EXCEPT ![i] = "theirs"]
      BY <2>9 DEF OtherWrites
    <3>2. phase' = phase /\ next_index' = next_index /\ phase # "mismatch"
      BY <2>9 DEF OtherWrites
    <3>3. QED
      BY <2>1, <3>1, <3>2 DEF OwnInv
  <2>10. CASE Ended
    BY <2>1, <2>10 DEF Ended, OwnInv, flowVars, saving
  <2>11. QED
    BY <2>1, <2>2, <2>3, <2>4, <2>5, <2>6, <2>7, <2>8, <2>9, <2>10 DEF FlowNext, Flow
<1>3. QED
  BY <1>1, <1>2, PTL DEF FlowSpec, ArtifactsKept
=============================================================================
