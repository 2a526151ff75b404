----------------------------- MODULE Processing -----------------------------
(***************************************************************************)
(* One applicant through the agent pipeline:                               *)
(* src/src/backend/services/processing.py (the background tasks),          *)
(* persistence.py (replace_applicant_skills), the reprocess, reverify and  *)
(* override handlers of api/routes_manager.py and skill_overrides.py.      *)
(*                                                                         *)
(* A background task works in the API process for minutes, in many short   *)
(* transactions; each of them is a step here.  Handlers are atomic (one    *)
(* request at a time); ProcessingRequests splits them.  PostgreSQL runs at *)
(* READ COMMITTED: a DELETE sees the rows committed when it starts.        *)
(* A skill's levels and texts are abstracted to who wrote the row last.    *)
(***************************************************************************)
EXTENDS Naturals, FiniteSets

CONSTANTS Skills,    \* taxonomy skill ids
          Tasks,     \* background tasks, used once each
          MaxEdits,  \* bound on the overrides managers make
          Patient,   \* do managers wait for a new application's first result?
          Outages    \* may the process restart, or the database drop a task?

ASSUME ProcessingAssumption == /\ MaxEdits \in Nat
                               /\ Patient \in BOOLEAN
                               /\ Outages \in BOOLEAN
                               /\ Tasks \cap Nat = {}

VARIABLES status,    \* applicants.status; "none" before the application
          snapshot,  \* is there a applicants.github_snapshot?
          row,       \* applicant_skills: the row of each skill
          edits,     \* manager overrides so far
          task,      \* background tasks of this process
          record     \* agent_runs: status of each stage a task recorded

vars == <<status, snapshot, row, edits, task, record>>

Stages == {"profile", "github", "evidence", "resolve"}
Kinds == {"process", "reverify"}

\* Where a task is: in one of the stages, reading, deleting and inserting
\* rows in the last one, or about to record its result.
PC == Stages \cup {"new", "queued", "pinned", "deleting", "committed", "failing", "done"}

\* A row is known by what inserted it: a task, or a manager's edit.
Origins == Tasks \cup 1 .. MaxEdits

\* edited: the last override of the row, 0 if none (the row is pinned if not)
Row == [state : {"absent", "agent", "active", "deleted"}, origin : Origins \cup {0},
        edited : 0 .. MaxEdits]
NoRow == [state |-> "absent", origin |-> 0, edited |-> 0]

Task == [pc : PC, kind : Kinds,
         stored : BOOLEAN,                          \* the snapshot was there at the start
         github : BOOLEAN,                          \* a GitHub profile is in hand
         pinned : SUBSET Skills,                    \* pinned_skill_ids as read
         doomed : SUBSET (Skills \X Origins)]       \* rows the DELETE found
NewTask == [pc |-> "new", kind |-> "process", stored |-> FALSE, github |-> FALSE,
            pinned |-> {}, doomed |-> {}]

TypeOK == /\ status \in {"none", "submitted", "processing", "ready", "failed"}
          /\ snapshot \in BOOLEAN
          /\ row \in [Skills -> Row]
          /\ edits \in 0 .. MaxEdits
          /\ task \in [Tasks -> Task]
          /\ record \in [Tasks -> [Stages -> {"none", "running", "succeeded", "failed", "skipped"}]]

Init == /\ status = "none"
        /\ snapshot = FALSE
        /\ row = [k \in Skills |-> NoRow]
        /\ edits = 0
        /\ task = [t \in Tasks |-> NewTask]
        /\ record = [t \in Tasks |-> [s \in Stages |-> "none"]]

-----------------------------------------------------------------------------
Live(t) == task[t].pc \notin {"new", "done"}

\* A task that has started and has not committed its outcome.
Working(t) == task[t].pc \in (Stages \cup {"pinned", "deleting", "failing"})

Pinned == {k \in Skills : row[k].edited # 0}

\* latest_profile_output finds one
HasProfile == \E t \in Tasks : record[t]["profile"] = "succeeded"

Goto(t, pc) == task' = [task EXCEPT ![t].pc = pc]
Write(t, stage, outcome) == record' = [record EXCEPT ![t][stage] = outcome]
In(t, stage) == task[t].pc = stage /\ record[t][stage] = "running"

-----------------------------------------------------------------------------
(* The background task *)

Queue(t, kind) == /\ task[t].pc = "new"
                  /\ task' = [task EXCEPT ![t].pc = "queued", ![t].kind = kind]

\* _load; reverify_github continues from a stored profile
Load(t) ==
    LET next == IF task[t].kind = "process" THEN "profile"
                ELSE IF HasProfile THEN "github" ELSE "failing"
    IN  /\ task[t].pc = "queued"
        /\ status' = "processing"
        /\ task' = [task EXCEPT ![t].pc = next, ![t].stored = snapshot]
        /\ UNCHANGED <<snapshot, row, edits, record>>

\* _Stage.__enter__
Enter(t) == /\ task[t].pc \in Stages
            /\ record[t][task[t].pc] = "none"
            /\ Write(t, task[t].pc, "running")
            /\ UNCHANGED <<status, snapshot, row, edits, task>>

ProfileStage(t) == /\ In(t, "profile")
                   /\ \/ Write(t, "profile", "succeeded") /\ Goto(t, "github")
                      \/ Write(t, "profile", "failed") /\ Goto(t, "failing")
                   /\ UNCHANGED <<status, snapshot, row, edits>>

\* _ensure_github_profile: the stored snapshot, or a collection stored before
\* the stage closes.
ReusesSnapshot(t) == task[t].kind = "process" /\ task[t].stored

CollectGithub(t) == /\ In(t, "github")
                    /\ ~ ReusesSnapshot(t)
                    /\ ~ task[t].github
                    /\ snapshot' = TRUE
                    /\ task' = [task EXCEPT ![t].github = TRUE]
                    /\ UNCHANGED <<status, row, edits, record>>

\* The stage ends with a profile, or without one (GitHub down, bad login, rate
\* limit): the task goes on unverified.
GithubStage(t) == /\ In(t, "github")
                  /\ IF ReusesSnapshot(t) \/ task[t].github
                     THEN /\ Write(t, "github", "succeeded")
                          /\ task' = [task EXCEPT ![t].pc = "evidence", ![t].github = TRUE]
                     ELSE /\ Write(t, "github", "skipped")
                          /\ Goto(t, "evidence")
                  /\ UNCHANGED <<status, snapshot, row, edits>>

EvidenceStage(t) == /\ In(t, "evidence")
                    /\ IF task[t].github
                       THEN \E outcome \in {"succeeded", "failed"} : Write(t, "evidence", outcome)
                       ELSE Write(t, "evidence", "skipped")
                    /\ Goto(t, "resolve")
                    /\ UNCHANGED <<status, snapshot, row, edits>>

\* replace_applicant_skills, in three statements.  Fault: only the skills that
\* are not deleted are kept.
ReadPinned_ActiveOnly(t) ==
    /\ In(t, "resolve")
    /\ task' = [task EXCEPT ![t].pc = "pinned",
                            ![t].pinned = {k \in Pinned : row[k].state = "active"}]
    /\ UNCHANGED <<status, snapshot, row, edits, record>>

ReadPinned(t) ==
    /\ In(t, "resolve")
    /\ task' = [task EXCEPT ![t].pc = "pinned", ![t].pinned = Pinned]
    /\ UNCHANGED <<status, snapshot, row, edits, record>>

\* Fault: the old skills are merged with the new ones.
DeleteRows_KeepOld(t) ==
    /\ task[t].pc = "pinned"
    /\ task' = [task EXCEPT ![t].pc = "deleting", ![t].doomed = {}]
    /\ UNCHANGED <<status, snapshot, row, edits, record>>

DeleteRows(t) ==
    /\ task[t].pc = "pinned"
    /\ task' = [task EXCEPT ![t].pc = "deleting",
                            ![t].doomed = {<<k, row[k].origin>> :
                                 k \in {s \in Skills \ task[t].pinned : row[s].state # "absent"}}]
    /\ UNCHANGED <<status, snapshot, row, edits, record>>

\* The skills resolved from the profile's claims are inserted, but for pinned
\* ones, and the transaction commits; a row in the way (uq_applicant_skills,
\* committed by another transaction since) makes it fail.
CommitSkills(t) ==
    \E resolved \in SUBSET Skills :
        LET fresh    == resolved \ task[t].pinned
            left(k)  == row[k].state # "absent" /\ <<k, row[k].origin>> \notin task[t].doomed
        IN  /\ task[t].pc = "deleting"
            /\ \A k \in fresh : ~ left(k)
            /\ row' = [k \in Skills |->
                         IF k \in fresh THEN [state |-> "agent", origin |-> t, edited |-> 0]
                         ELSE IF left(k) THEN row[k] ELSE NoRow]
            /\ status' = "ready"
            /\ Goto(t, "committed")
            /\ UNCHANGED <<snapshot, edits, record>>

CloseResolve(t) == /\ task[t].pc = "committed"
                   /\ Write(t, "resolve", "succeeded")
                   /\ Goto(t, "done")
                   /\ UNCHANGED <<status, snapshot, row, edits>>

\* Any exception of the resolve stage rolls its transaction back.
ResolveFails(t) == /\ In(t, "resolve") \/ task[t].pc \in {"pinned", "deleting"}
                   /\ Write(t, "resolve", "failed")
                   /\ Goto(t, "failing")
                   /\ UNCHANGED <<status, snapshot, row, edits>>

\* Fault: the failure is logged but the applicant keeps its status.
Fail_LogOnly(t) == /\ task[t].pc = "failing"
                   /\ Goto(t, "done")
                   /\ UNCHANGED <<status, snapshot, row, edits, record>>

\* _fail
Fail(t) == /\ task[t].pc = "failing"
           /\ status' = "failed"
           /\ Goto(t, "done")
           /\ UNCHANGED <<snapshot, row, edits, record>>

\* The process restarts; or a database error outside the stages that catch it
\* ends the task.
Lose(t) == /\ Outages
           /\ Live(t)
           /\ Goto(t, "done")
           /\ UNCHANGED <<status, snapshot, row, edits, record>>

-----------------------------------------------------------------------------
(* Requests *)

Submit(t) == /\ status = "none"
             /\ status' = "submitted"
             /\ Queue(t, "process")
             /\ UNCHANGED <<snapshot, row, edits, record>>

\* The handlers refuse an applicant that is being processed.
CanReprocess == status \notin {"none", "processing"}

\* A patient manager waits for the first result.
MayAsk == Patient => status # "submitted"

\* Fault: an applicant already in work is not refused.
Reprocess_Unchecked(t) == /\ status # "none"
                          /\ MayAsk
                          /\ status' = "processing"
                          /\ Queue(t, "process")
                          /\ UNCHANGED <<snapshot, row, edits, record>>

Reprocess(t) == /\ CanReprocess /\ MayAsk
                /\ status' = "processing"
                /\ Queue(t, "process")
                /\ UNCHANGED <<snapshot, row, edits, record>>

Reverify(t) == /\ CanReprocess /\ MayAsk
               /\ HasProfile
               /\ status' = "processing"
               /\ Queue(t, "reverify")
               /\ UNCHANGED <<snapshot, row, edits, record>>

Editable == status \notin {"none", "processing"} /\ edits < MaxEdits

\* Every override stamps edited_at, which pins the row.
Override(k, state) ==
    /\ Editable
    /\ edits' = edits + 1
    /\ row' = [row EXCEPT ![k] = [state |-> state, edited |-> edits',
                 origin |-> IF row[k].state = "absent" THEN edits' ELSE row[k].origin]]
    /\ UNCHANGED <<status, snapshot, task, record>>

\* update_skill, add_evidence, update_evidence, delete_evidence
UpdateSkill(k) == row[k].state \in {"agent", "active"} /\ Override(k, "active")

\* add_skill: a new row, or a soft-deleted one restored
AddSkill(k) == row[k].state \in {"absent", "deleted"} /\ Override(k, "active")

DeleteSkill(k) == row[k].state \in {"agent", "active"} /\ Override(k, "deleted")

-----------------------------------------------------------------------------
TaskStep(t) == \/ Load(t) \/ Enter(t)
               \/ ProfileStage(t) \/ CollectGithub(t) \/ GithubStage(t) \/ EvidenceStage(t)
               \/ ReadPinned(t) \/ DeleteRows(t) \/ CommitSkills(t) \/ CloseResolve(t)
               \/ ResolveFails(t) \/ Fail(t)

Next == \/ \E t \in Tasks : TaskStep(t) \/ Lose(t)
        \/ \E t \in Tasks : Submit(t) \/ Reprocess(t) \/ Reverify(t)
        \/ \E k \in Skills : UpdateSkill(k) \/ AddSkill(k) \/ DeleteSkill(k)

\* A task that was started keeps running.
Spec == Init /\ [][Next]_vars /\ \A t \in Tasks : WF_vars(TaskStep(t))

-----------------------------------------------------------------------------
(* Properties *)

\* README "Overridden skills are kept when the applicant is reprocessed": once
\* a manager added, edited or deleted a skill, no task writes over the row.
OverridesKept == [][\A k \in Skills : row'[k].edited >= row[k].edited]_vars

\* persistence.py "A re-run supersedes the previous agent output": the skills
\* of a ready applicant that no manager touched come from one task.
OneResolution == status = "ready" =>
                    \A j, k \in Skills : row[j].state = "agent" /\ row[k].state = "agent" =>
                        row[j].origin = row[k].origin

\* The reprocess and reverify handlers answer 409 "already being processed":
\* two tasks never work on an applicant at the same time.
OneWorker == \A t, u \in Tasks : Working(t) /\ Working(u) => t = u

\* "This applicant is being processed; edit skills when it finishes": no
\* override commits between a task's start and its outcome.
EditsWait == [][edits' # edits => \A t \in Tasks : ~ Working(t)]_vars

\* An applicant shown as processing is in the hands of some task.
NeverOrphaned == status = "processing" => \E t \in Tasks : Live(t)

\* Once nothing works on the applicant, a manager can have it processed again:
\* processing.py "a crash leaves the applicant processing and a manager can
\* reprocess it".
Recoverable == status # "none" /\ (\A t \in Tasks : ~ Live(t)) => CanReprocess

\* Every application, and every re-run, comes to an outcome, whatever stages
\* fail, GitHub being down or the model not answering.
Settles == (status \in {"submitted", "processing"}) ~> (status \in {"ready", "failed"})
=============================================================================
