------------------------- MODULE ProcessingRequests -------------------------
(***************************************************************************)
(* The handlers of Processing run concurrently, each in its own thread and *)
(* session: a request reads the applicant's status (and, for an override,  *)
(* the skill's row), then commits later without reading it again.  In      *)
(* between lies, for reverify-github, an HTTP request to GitHub            *)
(* (check_github_available).  No handler takes a row lock.                 *)
(***************************************************************************)
EXTENDS Processing

CONSTANT Requests   \* request threads in flight, used once each

VARIABLE req

Ops == {"reprocess", "reverify", "update", "add", "delete"}
Request == [phase : {"new", "begun", "done"}, op : Ops, k : Skills, seen : Row]

RTypeOK == TypeOK /\ req \in [Requests -> Request]

NewRequest == [phase |-> "new", op |-> "reprocess", k |-> CHOOSE k \in Skills : TRUE,
               seen |-> NoRow]

RInit == Init /\ req = [q \in Requests |-> NewRequest]

-----------------------------------------------------------------------------
Begin(q, op, k) ==
    /\ req[q].phase = "new"
    /\ req' = [req EXCEPT ![q] = [phase |-> "begun", op |-> op, k |-> k, seen |-> row[k]]]
    /\ UNCHANGED vars

\* reprocess and reverify-github look at the status first
BeginRerun(q) == /\ CanReprocess /\ MayAsk
                 /\ \E op \in {"reprocess", "reverify"} :
                       /\ op = "reverify" => HasProfile
                       /\ Begin(q, op, req[q].k)

\* overrides: _applicant and active_skill (or _any_row)
BeginEdit(q, k) == /\ Editable
                   /\ \E op \in {"update", "add", "delete"} :
                         /\ (op = "add") <=> (row[k].state \in {"absent", "deleted"})
                         /\ Begin(q, op, k)

Done(q) == req' = [req EXCEPT ![q].phase = "done"]

\* Fault: the new status is committed, the task forgotten.
CommitRerun_NoTask(q, t) ==
    /\ req[q].phase = "begun"
    /\ req[q].op \in {"reprocess", "reverify"}
    /\ status' = "processing"
    /\ task[t].pc = "new"
    /\ Done(q)
    /\ UNCHANGED <<task, snapshot, row, edits, record>>

CommitRerun(q, t) ==
    /\ req[q].phase = "begun"
    /\ req[q].op \in {"reprocess", "reverify"}
    /\ status' = "processing"
    /\ Queue(t, IF req[q].op = "reprocess" THEN "process" ELSE "reverify")
    /\ Done(q)
    /\ UNCHANGED <<snapshot, row, edits, record>>

\* The row as it was read must still be there; an UPDATE writes the columns it
\* changes, so a row deleted meanwhile by another manager stays deleted.
CommitEdit(q) ==
    LET w   == req[q]
        k   == w.k
        now == row[k]
    IN  /\ w.phase = "begun"
        /\ w.op \in {"update", "add", "delete"}
        /\ now.origin = w.seen.origin
        /\ edits < MaxEdits
        /\ edits' = edits + 1
        /\ row' = [row EXCEPT ![k] =
                     [state  |-> CASE w.op = "delete" -> "deleted"
                                   [] w.op = "add"    -> "active"
                                   [] w.op = "update" -> IF now.state = "deleted" THEN "deleted"
                                                                                  ELSE "active",
                      origin |-> IF now.state = "absent" THEN edits' ELSE now.origin,
                      edited |-> edits']]
        /\ Done(q)
        /\ UNCHANGED <<status, snapshot, task, record>>

\* The row is gone or in the way, or the connection is lost: an error answer.
Abort(q) == /\ req[q].phase = "begun"
            /\ Done(q)
            /\ UNCHANGED vars

RequestStep(q) == \/ BeginRerun(q)
                  \/ \E k \in Skills : BeginEdit(q, k)
                  \/ \E t \in Tasks : CommitRerun(q, t)
                  \/ CommitEdit(q)
                  \/ Abort(q)

Background == \E t \in Tasks : Submit(t) \/ TaskStep(t) \/ Lose(t)

RNext == \/ \E q \in Requests : RequestStep(q)
         \/ Background /\ UNCHANGED req

\* Tasks keep running next to the requests.
RSpec == /\ RInit /\ [][RNext]_<<vars, req>>
         /\ \A t \in Tasks : WF_<<vars, req>>(TaskStep(t) /\ UNCHANGED req)
=============================================================================
