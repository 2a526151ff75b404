-------------------------- MODULE PlacementRequests -------------------------
(***************************************************************************)
(* The same handlers as Placement, run concurrently.  FastAPI serves each  *)
(* request in a thread with its own session (api/deps.py); PostgreSQL runs *)
(* at its default READ COMMITTED level and no query takes a row lock.  So  *)
(* a request that writes a placement does it in three steps with other     *)
(* requests and background tasks in between:                               *)
(*   Begin   loads the row and makes the first checks (override_role,      *)
(*           open_seats, role_in_use);                                     *)
(*   Check   runs check_approval on what is committed by then;             *)
(*   Commit  writes the columns that differ from the row as it was loaded. *)
(* Constraints of the database that the code does not turn into an answer  *)
(* (foreign keys, unique run and applicant) abort the transaction.         *)
(***************************************************************************)
EXTENDS Placement

CONSTANTS Requests,           \* request threads in flight
          NoRun, NoApplicant  \* absent ids

VARIABLE req

Request == [phase : {"idle", "begun", "checked"}, op : {"patch", "assign", "delete"},
            n : Runs \cup {NoRun}, i : Applicants \cup {NoApplicant},
            r : Roles \cup {NoRole}, s : RowStatus \ {"none"}, seen : Row]
Idle == [phase |-> "idle", op |-> "patch", n |-> NoRun, i |-> NoApplicant,
         r |-> NoRole, s |-> "proposed", seen |-> NoRow]

RTypeOK == TypeOK /\ req \in [Requests -> Request]

RInit == Init /\ req = [q \in Requests |-> Idle]

-----------------------------------------------------------------------------
Begin(q, op, n, i, r, s, seen) ==
    /\ req[q].phase = "idle"
    /\ req' = [req EXCEPT ![q] = [phase |-> "begun", op |-> op, n |-> n, i |-> i,
                                  r |-> r, s |-> s, seen |-> seen]]
    /\ UNCHANGED vars

BeginPatch(q, n, i, r, s) ==
    /\ row[n][i].status # "none"
    /\ r # NoRole => CheckOverride(n, i, r)
    /\ Begin(q, "patch", n, i, r, s, row[n][i])

BeginAssign(q, n, i, r) ==
    /\ run[n].status = "completed"
    /\ i \in run[n].applicants
    /\ r \in RunRoles(n)
    /\ Exists(r)
    /\ row[n][i].status \in {"none", "rejected"}
    /\ HasOpenSeat(n, r)
    /\ Begin(q, "assign", n, i, r, "approved", row[n][i])

BeginDelete(q, r) ==
    /\ Exists(r)
    /\ ~ InUse(r)
    /\ Begin(q, "delete", NoRun, NoApplicant, r, "rejected", NoRow)

\* The role the row will have: the requested one, else the one it was loaded with.
Target(w) == IF w.r = NoRole THEN w.seen.role ELSE w.r

NeedsApproval(w) ==
    \/ w.op = "assign"
    \/ w.op = "patch" /\ w.s = "approved" /\ w.seen.status # "approved"

Check(q) ==
    LET w == req[q]
    IN  /\ w.phase = "begun"
        /\ NeedsApproval(w) => CheckApproval(w.n, w.i, Target(w))
        /\ req' = [req EXCEPT ![q].phase = "checked"]
        /\ UNCHANGED vars

\* A refused check, a database constraint or a lost connection: rolled back.
Abort(q) == /\ req[q].phase # "idle"
            /\ req' = [req EXCEPT ![q] = Idle]
            /\ UNCHANGED vars

CommitPatch(q) ==
    LET w   == req[q]
        old == row[w.n][w.i]
        new == [old EXCEPT !.status = IF w.s = w.seen.status THEN @ ELSE w.s,
                           !.role   = IF Target(w) = w.seen.role THEN @ ELSE Target(w)]
    IN  /\ w.phase = "checked"
        /\ w.op = "patch"
        /\ Exists(new.role)   \* foreign key
        /\ row' = [row EXCEPT ![w.n][w.i] = new]
        /\ req' = [req EXCEPT ![q] = Idle]
        /\ UNCHANGED <<ready, roleVars, runVars>>

CommitAssign(q) ==
    LET w == req[q]
    IN  /\ w.phase = "checked"
        /\ w.op = "assign"
        /\ w.seen.status = "none" => row[w.n][w.i].status = "none"  \* uq_assignments_run_applicant
        /\ Exists(w.r)
        /\ row' = [row EXCEPT ![w.n][w.i] = [status |-> "approved", role |-> w.r, solver |-> w.r]]
        /\ req' = [req EXCEPT ![q] = Idle]
        /\ UNCHANGED <<ready, roleVars, runVars>>

\* Fault: no foreign key backs role_in_use up.
CommitDelete_NoForeignKey(q) ==
    LET w == req[q]
    IN  /\ w.phase = "checked"
        /\ w.op = "delete"
        /\ Exists(w.r)
        /\ roleState' = [roleState EXCEPT ![w.r] = "deleted"]
        /\ req' = [req EXCEPT ![q] = Idle]
        /\ UNCHANGED <<ready, capacity, runVars, row>>

CommitDelete(q) ==
    LET w == req[q]
    IN  /\ w.phase = "checked"
        /\ w.op = "delete"
        /\ Exists(w.r)
        /\ ~ InUse(w.r)       \* foreign keys: ondelete RESTRICT
        /\ roleState' = [roleState EXCEPT ![w.r] = "deleted"]
        /\ req' = [req EXCEPT ![q] = Idle]
        /\ UNCHANGED <<ready, capacity, runVars, row>>

-----------------------------------------------------------------------------
RequestStep(q) ==
    \/ \E n \in Runs, i \in Applicants, r \in Roles \cup {NoRole} :
           \E s \in RowStatus \ {"none"} : BeginPatch(q, n, i, r, s)
    \/ \E n \in Runs, i \in Applicants, r \in Roles : BeginAssign(q, n, i, r)
    \/ \E r \in Roles : BeginDelete(q, r)
    \/ Check(q) \/ Abort(q)
    \/ CommitPatch(q) \/ CommitAssign(q) \/ CommitDelete(q)

\* Single-statement handlers and the background tasks, as in Placement.
Background ==
    \/ \E i \in Applicants : ApplicantStatus(i)
    \/ \E r \in Roles : CreateRole(r) \/ UpdateRole(r)
    \/ \E n \in Runs : TaskStep(n) \/ LoseTask(n)
    \/ \E n \in Runs, selected \in SUBSET Roles, requested \in SUBSET Applicants :
           CreateRun(n, selected, requested)

\* A restart drops the open transactions with the background tasks.
RCrash == Crash /\ req' = [q \in Requests |-> Idle]

RNext == \/ \E q \in Requests : RequestStep(q)
         \/ Background /\ UNCHANGED req
         \/ RCrash

RSpec == RInit /\ [][RNext]_<<vars, req>>
=============================================================================
