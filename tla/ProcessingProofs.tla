-------------------------- MODULE ProcessingProofs --------------------------
(***************************************************************************)
(* What Processing guarantees for any number of skills, tasks and          *)
(* overrides, restarts included, when managers wait for the first result   *)
(* of a new application (Patient): one task at a time works on an          *)
(* applicant, no task writes over an override, and the skills of a re-run  *)
(* replace those of the run before.                                        *)
(***************************************************************************)
EXTENDS ProcessingRequests, TLAPS

\* A task that may still write skills or the outcome.
Engaged(t) == task[t].pc \in (Stages \cup {"queued", "pinned", "deleting", "failing"})

OneEngaged == \A t, u \in Tasks : Engaged(t) /\ Engaged(u) => t = u

\* The status tells that a task is engaged.
StatusTells == \A t \in Tasks : /\ Working(t) => status = "processing"
                                /\ Engaged(t) => status \in {"submitted", "processing"}

\* What a task read for its last transaction is still so.
Present(S) == {k \in S : row[k].state # "absent"}
ReadsHold == \A t \in Tasks :
                /\ task[t].pc \in {"pinned", "deleting"} => task[t].pinned = Pinned
                /\ task[t].pc = "deleting" =>
                      task[t].doomed = {<<k, row[k].origin>> : k \in Present(Skills \ task[t].pinned)}

\* A row and who touched it: agent rows are never edited, absent rows are nobody's.
RowsCoherent == \A k \in Skills :
                   /\ row[k].edited <= edits
                   /\ row[k].state = "agent" => row[k].edited = 0
                   /\ row[k].state = "absent" => row[k].edited = 0
                   /\ row[k].state # "absent" => row[k].origin \in Origins

SameOrigin == \A j, k \in Skills : row[j].state = "agent" /\ row[k].state = "agent" =>
                                       row[j].origin = row[k].origin

PInv == TypeOK /\ OneEngaged /\ StatusTells /\ ReadsHold /\ RowsCoherent /\ SameOrigin

\* What the readers of rows need is untouched when rows are.
RowsSame == row' = row /\ edits' = edits

\* A step of one task that does not touch the rows: it goes from pc to pc2, and
\* what it read, if it read anything, holds.
LEMMA TaskOnly ==
    ASSUME PInv, NEW t \in Tasks, NEW w \in Task,
           RowsSame,
           status' \in {"none", "submitted", "processing", "ready", "failed"},
           snapshot' \in BOOLEAN,
           record' \in [Tasks -> [Stages -> {"none", "running", "succeeded", "failed", "skipped"}]],
           task' = [task EXCEPT ![t] = w],
           Engaged(t)' => Engaged(t) \/ \A u \in Tasks : ~ Engaged(u),
           Working(t)' => status' = "processing",
           Engaged(t)' => status' \in {"submitted", "processing"},
           Engaged(t) \/ status' = status \/ \A u \in Tasks : ~ Engaged(u),
           w.pc \in {"pinned", "deleting"} => w.pinned = Pinned,
           w.pc = "deleting" =>
              w.doomed = {<<k, row[k].origin>> : k \in Present(Skills \ w.pinned)}
    PROVE  PInv'
<1>1. TypeOK'
  BY DEF PInv, TypeOK, RowsSame
<1>2. task'[t] = w /\ \A u \in Tasks : u # t => task'[u] = task[u]
  BY DEF PInv, TypeOK
<1>3. \A u \in Tasks : u # t => (Engaged(u)' <=> Engaged(u)) /\ (Working(u)' <=> Working(u))
  BY <1>2 DEF Engaged, Working
<1>4. OneEngaged'
  BY <1>3 DEF PInv, OneEngaged
<1>5. StatusTells'
  <2>1. \A u \in Tasks : u # t /\ Engaged(u)' => status' = status
    BY <1>3 DEF PInv, OneEngaged
  <2>2. \A u \in Tasks : Working(u) => Engaged(u)
    BY DEF Working, Engaged
  <2>3. QED
    BY <1>3, <2>1, <2>2 DEF PInv, StatusTells
<1>6. ReadsHold'
  BY <1>2 DEF PInv, ReadsHold, RowsSame, Pinned, Present
<1>7. RowsCoherent' /\ SameOrigin'
  BY DEF PInv, RowsCoherent, SameOrigin, RowsSame
<1>8. QED
  BY <1>1, <1>4, <1>5, <1>6, <1>7 DEF PInv

\* Recording the result of a stage keeps the records typed.
LEMMA WriteTyped ==
    ASSUME TypeOK, NEW t \in Tasks, NEW stage \in Stages,
           NEW outcome \in {"running", "succeeded", "failed", "skipped"}, Write(t, stage, outcome)
    PROVE  record' \in [Tasks -> [Stages -> {"none", "running", "succeeded", "failed", "skipped"}]]
BY DEF TypeOK, Write

\* A working task that records something, goes on to another step before its
\* last transaction, and changes neither rows nor status.
LEMMA StageStep ==
    ASSUME PInv, NEW t \in Tasks, NEW w \in Task,
           UNCHANGED <<status, row, edits>>, snapshot' \in BOOLEAN,
           Working(t),
           record' \in [Tasks -> [Stages -> {"none", "running", "succeeded", "failed", "skipped"}]],
           task' = [task EXCEPT ![t] = w],
           w.pc \in Stages \cup {"failing"}
    PROVE  PInv'
<1>1. Engaged(t) /\ status = "processing" /\ RowsSame
  BY DEF PInv, StatusTells, Working, Engaged, RowsSame
<1>2. w.pc \notin {"pinned", "deleting"}
  BY DEF Stages
<1>3. status' = "processing"
  BY <1>1
<1>4. QED
  BY <1>1, <1>2, <1>3, TaskOnly

\* Loading a task's applicant keeps the invariant.
LEMMA LoadKeeps == ASSUME PInv, NEW t \in Tasks, Load(t) PROVE PInv'
<1>. DEFINE next == IF task[t].kind = "process" THEN "profile"
                    ELSE IF HasProfile THEN "github" ELSE "failing"
            w == [task[t] EXCEPT !.pc = next, !.stored = snapshot]
<1>1. next \in {"profile", "github", "failing"}
  OBVIOUS
<1>2. task[t] \in Task /\ snapshot \in BOOLEAN
  BY DEF PInv, TypeOK
<1>3. task' = [task EXCEPT ![t] = w] /\ status' = "processing" /\ UNCHANGED <<snapshot, row, edits, record>>
  BY DEF Load, PInv, TypeOK, Task
<1>. HIDE DEF next
<1>4. w \in Task /\ w.pc \in {"profile", "github", "failing"}
  BY <1>1, <1>2 DEF Task, PC, Stages
<1>5. Engaged(t)
  BY DEF Load, Engaged
<1>6. QED
  BY <1>3, <1>4, <1>5, TaskOnly DEF RowsSame, PInv, TypeOK

\* So does entering the processing.
LEMMA EnterKeeps == ASSUME PInv, NEW t \in Tasks, Enter(t) PROVE PInv'
<1>1. task[t] \in Task /\ task = [task EXCEPT ![t] = task[t]] /\ task[t].pc \in Stages
  BY DEF PInv, TypeOK, Enter
<1>2. record' \in [Tasks -> [Stages -> {"none", "running", "succeeded", "failed", "skipped"}]]
  BY <1>1, WriteTyped DEF Enter, PInv
<1>3. Working(t)
  BY <1>1 DEF Working
<1>4. UNCHANGED <<status, snapshot, row, edits, task>>
  BY DEF Enter
<1>5. snapshot' \in BOOLEAN /\ task' = [task EXCEPT ![t] = task[t]]
  BY <1>1, <1>4 DEF PInv, TypeOK
<1>6. QED
  BY <1>1, <1>2, <1>3, <1>4, <1>5, StageStep

\* Going to another program counter.
LEMMA GotoIs ==
    ASSUME TypeOK, NEW t \in Tasks, NEW pc \in PC, Goto(t, pc)
    PROVE  /\ [task[t] EXCEPT !.pc = pc] \in Task
           /\ task' = [task EXCEPT ![t] = [task[t] EXCEPT !.pc = pc]]
           /\ [task[t] EXCEPT !.pc = pc].pc = pc
BY DEF TypeOK, Goto, Task

\* A stage that ends with an outcome, at a program counter it moves to.
LEMMA StageEnds ==
    ASSUME PInv, NEW t \in Tasks, NEW stage \in Stages, NEW pc \in Stages \cup {"failing"},
           NEW outcome \in {"succeeded", "failed", "skipped"},
           Working(t), Write(t, stage, outcome), Goto(t, pc),
           UNCHANGED <<status, snapshot, row, edits>>
    PROVE  PInv'
<1>1. record' \in [Tasks -> [Stages -> {"none", "running", "succeeded", "failed", "skipped"}]]
  BY WriteTyped DEF PInv
<1>2. pc \in PC
  BY DEF PC
<1>3. snapshot' \in BOOLEAN
  BY DEF PInv, TypeOK
<1>. DEFINE w == [task[t] EXCEPT !.pc = pc]
<1>4. w \in Task /\ task' = [task EXCEPT ![t] = w] /\ w.pc = pc
  BY <1>2, GotoIs DEF PInv
<1>. HIDE DEF w
<1>5. QED
  BY <1>1, <1>3, <1>4, StageStep

\* So does the profile stage.
LEMMA ProfileKeeps == ASSUME PInv, NEW t \in Tasks, ProfileStage(t) PROVE PInv'
<1>1. Working(t)
  BY DEF ProfileStage, In, Working, Stages
<1>2. QED
  BY <1>1, StageEnds DEF ProfileStage, Stages

\* So does collecting the repositories.
LEMMA CollectKeeps == ASSUME PInv, NEW t \in Tasks, CollectGithub(t) PROVE PInv'
<1>. DEFINE w == [task[t] EXCEPT !.github = TRUE]
<1>1. w \in Task /\ task' = [task EXCEPT ![t] = w] /\ w.pc = "github"
  BY DEF CollectGithub, In, PInv, TypeOK, Task
<1>2. Working(t) /\ w.pc \in Stages \cup {"failing"}
  BY <1>1 DEF CollectGithub, In, Working, Stages
<1>3. UNCHANGED <<status, row, edits, record>> /\ snapshot' \in BOOLEAN
  BY DEF CollectGithub
<1>. HIDE DEF w
<1>4. QED
  BY <1>1, <1>2, <1>3, StageStep DEF PInv, TypeOK

\* So does the GitHub stage.
LEMMA GithubKeeps == ASSUME PInv, NEW t \in Tasks, GithubStage(t) PROVE PInv'
<1>1. Working(t) /\ UNCHANGED <<status, snapshot, row, edits>> /\ "evidence" \in Stages
  BY DEF GithubStage, In, Working, Stages
<1>2. CASE ReusesSnapshot(t) \/ task[t].github
  <2>. DEFINE w == [task[t] EXCEPT !.pc = "evidence", !.github = TRUE]
  <2>1. w \in Task /\ task' = [task EXCEPT ![t] = w] /\ w.pc = "evidence"
    BY <1>2, ZenonT(40) DEF GithubStage, PInv, TypeOK, Task, PC, Stages
  <2>2. Write(t, "github", "succeeded")
    BY <1>2 DEF GithubStage
  <2>3. record' \in [Tasks -> [Stages -> {"none", "running", "succeeded", "failed", "skipped"}]]
    BY <2>2, WriteTyped DEF PInv, Stages
  <2>4. snapshot' \in BOOLEAN
    BY <1>1 DEF PInv, TypeOK
  <2>. HIDE DEF w
  <2>5. QED
    BY <1>1, <2>1, <2>3, <2>4, StageStep
<1>3. CASE ~ (ReusesSnapshot(t) \/ task[t].github)
  BY <1>1, <1>3, StageEnds DEF GithubStage, Stages
<1>4. QED
  BY <1>2, <1>3

\* So does the evidence stage.
LEMMA EvidenceKeeps == ASSUME PInv, NEW t \in Tasks, EvidenceStage(t) PROVE PInv'
<1>1. Working(t) /\ UNCHANGED <<status, snapshot, row, edits>> /\ Goto(t, "resolve")
  BY DEF EvidenceStage, In, Working, Stages
<1>2. PICK outcome \in {"succeeded", "failed", "skipped"} : Write(t, "evidence", outcome)
  BY DEF EvidenceStage
<1>3. QED
  BY <1>1, <1>2, StageEnds DEF Stages

-----------------------------------------------------------------------------
(* The last transaction of a task *)

\* So does reading the pinned skills: the task is the only one at work.
LEMMA ReadPinnedKeeps == ASSUME PInv, NEW t \in Tasks, ReadPinned(t) PROVE PInv'
<1>. DEFINE w == [task[t] EXCEPT !.pc = "pinned", !.pinned = Pinned]
<1>1. w \in Task /\ task' = [task EXCEPT ![t] = w] /\ w.pc = "pinned" /\ w.pinned = Pinned
  BY DEF ReadPinned, PInv, TypeOK, Task, PC, Pinned
<1>2. Working(t) /\ Engaged(t) /\ status = "processing"
  BY DEF ReadPinned, In, Working, Engaged, Stages, PInv, StatusTells
<1>3. UNCHANGED <<status, snapshot, row, edits, record>>
  BY DEF ReadPinned
<1>. HIDE DEF w
<1>4. QED
  BY <1>1, <1>2, <1>3, TaskOnly DEF RowsSame, PInv, TypeOK

\* So does deleting the agent's rows.
LEMMA DeleteRowsKeeps == ASSUME PInv, NEW t \in Tasks, DeleteRows(t) PROVE PInv'
<1>. DEFINE doomed == {<<k, row[k].origin>> : k \in Present(Skills \ task[t].pinned)}
            w == [task[t] EXCEPT !.pc = "deleting", !.doomed = doomed]
<1>1. doomed \in SUBSET (Skills \X Origins)
  BY DEF Present, PInv, RowsCoherent
<1>2. task' = [task EXCEPT ![t] = w]
  BY DEF DeleteRows, Present, PInv, TypeOK
<1>3. task[t] \in Task /\ task[t].pc = "pinned" /\ task[t].pinned = Pinned
  BY DEF DeleteRows, PInv, TypeOK, ReadsHold
<1>4. w.pinned = task[t].pinned /\ w.doomed = doomed /\ w.pc = "deleting"
  BY <1>3 DEF Task
<1>5. w \in Task
  BY <1>1, <1>3 DEF Task, PC
<1>6. Working(t) /\ Engaged(t) /\ status = "processing"
  BY <1>3 DEF Working, Engaged, PInv, StatusTells
<1>7. UNCHANGED <<status, snapshot, row, edits, record>>
  BY DEF DeleteRows
<1>8. w.doomed = {<<k, row[k].origin>> : k \in Present(Skills \ w.pinned)}
  BY <1>4
<1>. HIDE DEF w, doomed
<1>9. QED
  BY <1>2, <1>3, <1>4, <1>5, <1>6, <1>7, <1>8, TaskOnly DEF RowsSame, PInv, TypeOK

\* What a task leaves behind when its deletions and insertions commit: the rows
\* managers pinned, and its own.
LEMMA CommitLeaves ==
    ASSUME PInv, NEW t \in Tasks, CommitSkills(t)
    PROVE  /\ task[t].pc = "deleting" /\ status' = "ready" /\ edits' = edits
           /\ row' \in [Skills -> Row]
           /\ \A k \in Skills : \/ row'[k] = row[k] /\ row[k].edited # 0
                                \/ row[k].edited = 0 /\ row'[k] = NoRow
                                \/ /\ row[k].edited = 0
                                   /\ row'[k] = [state |-> "agent", origin |-> t, edited |-> 0]
<1>. DEFINE left(k) == row[k].state # "absent" /\ <<k, row[k].origin>> \notin task[t].doomed
            own == [state |-> "agent", origin |-> t, edited |-> 0]
<1>1. PICK resolved \in SUBSET Skills :
         /\ task[t].pc = "deleting"
         /\ row' = [k \in Skills |-> IF k \in resolved \ task[t].pinned THEN own
                                     ELSE IF left(k) THEN row[k] ELSE NoRow]
         /\ status' = "ready" /\ edits' = edits
  BY DEF CommitSkills
<1>2. task[t].pinned = Pinned
  BY <1>1 DEF PInv, ReadsHold
<1>3. task[t].doomed = {<<k, row[k].origin>> : k \in Present(Skills \ Pinned)}
  BY <1>1, <1>2 DEF PInv, ReadsHold
<1>4. \A k \in Skills : left(k) <=> k \in Pinned
  <2>1. \A k \in Skills : k \in Pinned <=> row[k].edited # 0
    BY DEF Pinned
  <2>2. \A k \in Skills : k \in Pinned => row[k].state # "absent"
    BY <2>1 DEF PInv, RowsCoherent
  <2>3. QED
    BY <1>3, <2>1, <2>2 DEF Present
<1>5. own \in Row /\ NoRow \in Row
  BY ProcessingAssumption DEF Row, Origins, NoRow
<1>6. \A k \in Skills : row[k] \in Row /\ (row[k].edited # 0 <=> k \in Pinned)
  BY DEF PInv, TypeOK, Pinned
<1>. HIDE DEF left, own
<1>7. row' \in [Skills -> Row]
  BY <1>1, <1>5, <1>6
<1>8. \A k \in Skills : \/ row'[k] = row[k] /\ row[k].edited # 0
                        \/ row[k].edited = 0 /\ row'[k] = NoRow
                        \/ row[k].edited = 0 /\ row'[k] = own
  BY <1>1, <1>2, <1>4, <1>6
<1>9. QED
  BY <1>1, <1>7, <1>8 DEF own

\* So does committing the resolved rows.
LEMMA CommitKeeps == ASSUME PInv, NEW t \in Tasks, CommitSkills(t) PROVE PInv'
<1>1. /\ task[t].pc = "deleting" /\ status' = "ready" /\ edits' = edits
      /\ row' \in [Skills -> Row]
      /\ \A k \in Skills : \/ row'[k] = row[k] /\ row[k].edited # 0
                           \/ row[k].edited = 0 /\ row'[k] = NoRow
                           \/ /\ row[k].edited = 0
                              /\ row'[k] = [state |-> "agent", origin |-> t, edited |-> 0]
  BY CommitLeaves
<1>2. Goto(t, "committed") /\ UNCHANGED <<snapshot, edits, record>>
  BY DEF CommitSkills
<1>3. task' \in [Tasks -> Task] /\ task'[t].pc = "committed"
      /\ \A u \in Tasks : u # t => task'[u] = task[u]
  BY <1>2, ZenonT(40) DEF Goto, PInv, TypeOK, Task, PC
<1>4. TypeOK'
  BY <1>1, <1>2, <1>3 DEF PInv, TypeOK
<1>5. \A u \in Tasks : ~ Engaged(u)' /\ ~ Working(u)'
  <2>1. \A u \in Tasks : u # t => ~ Engaged(u)
    BY <1>1 DEF PInv, OneEngaged, Engaged
  <2>2. QED
    BY <1>3, <2>1 DEF Engaged, Working, Stages
<1>6. OneEngaged' /\ StatusTells' /\ ReadsHold'
  BY <1>5 DEF OneEngaged, StatusTells, ReadsHold, Engaged
<1>7. RowsCoherent'
  BY <1>1, ProcessingAssumption DEF PInv, TypeOK, RowsCoherent, NoRow, Origins
<1>8. SameOrigin'
  <2>1. \A k \in Skills : row'[k].state = "agent" => row'[k].origin = t
    BY <1>1 DEF PInv, RowsCoherent, NoRow
  <2>2. QED
    BY <2>1 DEF SameOrigin
<1>9. QED
  BY <1>4, <1>6, <1>7, <1>8 DEF PInv

\* So does a resolution that fails.
LEMMA ResolveFailsKeeps == ASSUME PInv, NEW t \in Tasks, ResolveFails(t) PROVE PInv'
<1>1. Working(t) /\ Write(t, "resolve", "failed") /\ Goto(t, "failing")
      /\ UNCHANGED <<status, snapshot, row, edits>>
  BY DEF ResolveFails, In, Working, Stages
<1>2. QED
  BY <1>1, StageEnds DEF Stages

\* A step that ends a task, one way or another.
LEMMA TaskEnds ==
    ASSUME PInv, NEW t \in Tasks, NEW pc \in {"committed", "done"}, Goto(t, pc),
           status' \in {"none", "submitted", "processing", "ready", "failed"},
           record' \in [Tasks -> [Stages -> {"none", "running", "succeeded", "failed", "skipped"}]],
           Engaged(t) \/ status' = status,
           UNCHANGED <<snapshot, row, edits>>
    PROVE  PInv'
<1>. DEFINE w == [task[t] EXCEPT !.pc = pc]
<1>1. w \in Task /\ task' = [task EXCEPT ![t] = w] /\ w.pc = pc
  BY GotoIs DEF PInv, PC
<1>2. task'[t] = w
  BY <1>1 DEF PInv, TypeOK
<1>. HIDE DEF w
<1>3. ~ Engaged(t)' /\ ~ Working(t)'
  BY <1>1, <1>2 DEF Engaged, Working, Stages
<1>4. snapshot' \in BOOLEAN /\ RowsSame
  BY DEF PInv, TypeOK, RowsSame
<1>5. w.pc \notin {"pinned", "deleting"}
  BY <1>1
<1>6. QED
  BY <1>1, <1>3, <1>4, <1>5, TaskOnly

\* So does closing the resolve stage.
LEMMA CloseKeeps == ASSUME PInv, NEW t \in Tasks, CloseResolve(t) PROVE PInv'
<1>1. UNCHANGED <<status, snapshot, row, edits>> /\ Goto(t, "done")
      /\ Write(t, "resolve", "succeeded")
  BY DEF CloseResolve
<1>2. record' \in [Tasks -> [Stages -> {"none", "running", "succeeded", "failed", "skipped"}]]
  BY <1>1, WriteTyped DEF PInv, Stages
<1>3. status' \in {"none", "submitted", "processing", "ready", "failed"}
  BY <1>1 DEF PInv, TypeOK
<1>4. QED
  BY <1>1, <1>2, <1>3, TaskEnds

\* So does a stage that fails.
LEMMA FailKeeps == ASSUME PInv, NEW t \in Tasks, Fail(t) PROVE PInv'
<1>1. Engaged(t) /\ status' = "failed" /\ Goto(t, "done")
      /\ UNCHANGED <<snapshot, row, edits, record>>
  BY DEF Fail, Engaged
<1>2. QED
  BY <1>1, TaskEnds DEF PInv, TypeOK

\* So does the loss of a task in a restart.
LEMMA LoseKeeps == ASSUME PInv, NEW t \in Tasks, Lose(t) PROVE PInv'
<1>1. UNCHANGED <<status, snapshot, row, edits, record>> /\ Goto(t, "done")
  BY DEF Lose
<1>2. QED
  BY <1>1, TaskEnds DEF PInv, TypeOK

-----------------------------------------------------------------------------
(* Requests *)

\* While no task is engaged, a handler may queue one.
LEMMA QueueKeeps ==
    ASSUME PInv, NEW t \in Tasks, NEW kind \in Kinds, Queue(t, kind),
           \A u \in Tasks : ~ Engaged(u),
           status' \in {"submitted", "processing"},
           UNCHANGED <<snapshot, row, edits, record>>
    PROVE  PInv'
<1>. DEFINE w == [task[t] EXCEPT !.pc = "queued", !.kind = kind]
<1>1. w \in Task /\ task' = [task EXCEPT ![t] = w] /\ w.pc = "queued"
  BY DEF Queue, PInv, TypeOK, Task, PC
<1>2. task'[t] = w
  BY <1>1 DEF PInv, TypeOK
<1>. HIDE DEF w
<1>3. ~ Working(t)'
  BY <1>1, <1>2 DEF Working, Stages
<1>4. snapshot' \in BOOLEAN /\ RowsSame
      /\ record' \in [Tasks -> [Stages -> {"none", "running", "succeeded", "failed", "skipped"}]]
  BY DEF PInv, TypeOK, RowsSame
<1>5. w.pc \notin {"pinned", "deleting"}
  BY <1>1
<1>6. QED
  BY <1>1, <1>3, <1>4, <1>5, TaskOnly

\* So does a submission.
LEMMA SubmitKeeps == ASSUME PInv, NEW t \in Tasks, Submit(t) PROVE PInv'
<1>1. \A u \in Tasks : ~ Engaged(u)
  BY DEF Submit, PInv, StatusTells
<1>2. QED
  BY <1>1, QueueKeeps DEF Submit, Kinds

\* So does a manager's reprocess.
LEMMA RerunKeeps ==
    ASSUME Patient, PInv, NEW t \in Tasks, Reprocess(t) \/ Reverify(t) PROVE PInv'
<1>1. \A u \in Tasks : ~ Engaged(u)
  BY DEF Reprocess, Reverify, CanReprocess, MayAsk, PInv, StatusTells
<1>2. CASE Reprocess(t)
  BY <1>1, <1>2, QueueKeeps DEF Reprocess, Kinds
<1>3. CASE Reverify(t)
  BY <1>1, <1>3, QueueKeeps DEF Reverify, Kinds
<1>4. QED
  BY <1>2, <1>3

\* So does a manager's override.
LEMMA OverrideKeeps ==
    ASSUME PInv, NEW k \in Skills, NEW state \in {"active", "deleted"}, Override(k, state),
           state = "deleted" => row[k].state # "absent"
    PROVE  PInv'
<1>. DEFINE new == [state |-> state, edited |-> edits',
                    origin |-> IF row[k].state = "absent" THEN edits' ELSE row[k].origin]
<1>1. edits' = edits + 1 /\ edits' \in 1 .. MaxEdits /\ edits \in Nat
  BY ProcessingAssumption DEF Override, Editable, PInv, TypeOK
<1>2. new \in Row /\ new.edited = edits' /\ new.origin \in Origins /\ new.state = state
  BY <1>1 DEF PInv, TypeOK, RowsCoherent, Row, Origins
<1>3. row' = [row EXCEPT ![k] = new] /\ UNCHANGED <<status, snapshot, task, record>>
  BY DEF Override
<1>. HIDE DEF new
<1>4. TypeOK'
  BY <1>1, <1>2, <1>3 DEF PInv, TypeOK
<1>5. row'[k] = new /\ \A j \in Skills : j # k => row'[j] = row[j]
  BY <1>3 DEF PInv, TypeOK
<1>6. \A u \in Tasks : ~ Working(u)
  BY DEF Override, Editable, PInv, StatusTells
<1>7. ReadsHold'
  BY <1>3, <1>6 DEF ReadsHold, Working
<1>8. OneEngaged' /\ StatusTells'
  BY <1>3 DEF PInv, OneEngaged, StatusTells, Engaged, Working
<1>9. RowsCoherent'
  <2>1. \A j \in Skills : row[j].edited \in Nat
    BY ProcessingAssumption DEF PInv, TypeOK, Row
  <2>2. QED
    BY <1>1, <1>2, <1>5, <2>1 DEF PInv, RowsCoherent
<1>10. SameOrigin'
  BY <1>2, <1>5 DEF PInv, SameOrigin
<1>11. QED
  BY <1>4, <1>7, <1>8, <1>9, <1>10 DEF PInv

\* Every step keeps the invariant.
LEMMA StepKeeps == ASSUME Patient, PInv, [Next]_vars PROVE PInv'
<1>1. CASE \E t \in Tasks : TaskStep(t) \/ Lose(t)
  <2>1. PICK t \in Tasks : TaskStep(t) \/ Lose(t)
    BY <1>1
  <2>2. QED
    BY <2>1, LoadKeeps, EnterKeeps, ProfileKeeps, CollectKeeps, GithubKeeps, EvidenceKeeps,
       ReadPinnedKeeps, DeleteRowsKeeps, CommitKeeps, CloseKeeps, ResolveFailsKeeps, FailKeeps,
       LoseKeeps DEF TaskStep
<1>2. CASE \E t \in Tasks : Submit(t) \/ Reprocess(t) \/ Reverify(t)
  BY <1>2, SubmitKeeps, RerunKeeps
<1>3. ASSUME NEW k \in Skills, UpdateSkill(k) \/ AddSkill(k) \/ DeleteSkill(k) PROVE PInv'
  <2>1. CASE UpdateSkill(k)
    BY <2>1, OverrideKeeps DEF UpdateSkill
  <2>2. CASE AddSkill(k)
    BY <2>2, OverrideKeeps DEF AddSkill
  <2>3. CASE DeleteSkill(k)
    BY <2>3, OverrideKeeps DEF DeleteSkill
  <2>4. QED
    BY <1>3, <2>1, <2>2, <2>3
<1>4. CASE UNCHANGED vars
  BY <1>4 DEF vars, PInv, TypeOK, OneEngaged, StatusTells, ReadsHold, RowsCoherent, SameOrigin,
              Engaged, Working, Pinned, Present
<1>5. QED
  BY <1>1, <1>2, <1>3, <1>4 DEF Next

\* The invariant holds in every reachable state.
LEMMA PInvHolds == ASSUME Patient PROVE Spec => []PInv
<1>1. Init => PInv
  <2>. SUFFICES ASSUME Init PROVE PInv
    OBVIOUS
  <2>1. NoRow \in Row /\ NewTask \in Task
    BY ProcessingAssumption DEF NoRow, Row, NewTask, Task, PC, Kinds
  <2>2. TypeOK
    <3>1. row \in [Skills -> Row] /\ task \in [Tasks -> Task]
      BY <2>1 DEF Init
    <3>2. record \in [Tasks -> [Stages -> {"none", "running", "succeeded", "failed", "skipped"}]]
      BY DEF Init
    <3>3. edits \in 0 .. MaxEdits
      BY ProcessingAssumption DEF Init
    <3>4. QED
      BY <3>1, <3>2, <3>3 DEF Init, TypeOK
  <2>3. \A t \in Tasks : ~ Engaged(t) /\ ~ Working(t) /\ task[t].pc = "new"
    BY DEF Init, NewTask, Engaged, Working, Stages
  <2>4. OneEngaged /\ StatusTells /\ ReadsHold
    BY <2>3 DEF OneEngaged, StatusTells, ReadsHold
  <2>5. RowsCoherent /\ SameOrigin
    BY DEF Init, NoRow, RowsCoherent, SameOrigin
  <2>6. QED
    BY <2>2, <2>4, <2>5 DEF PInv
<1>2. PInv /\ [Next]_vars => PInv'
  BY StepKeeps
<1>3. QED
  BY <1>1, <1>2, PTL DEF Spec

-----------------------------------------------------------------------------
\* If managers wait for the first result of an application, two tasks never
\* work on it at the same time, restarts included.
THEOREM OneWorkerHolds == ASSUME Patient PROVE Spec => []OneWorker
<1>1. PInv => OneWorker
  BY DEF PInv, OneEngaged, Engaged, Working, OneWorker
<1>2. QED
  BY <1>1, PInvHolds, PTL

\* Then the agent rows of a ready applicant all come from its last task.
THEOREM OneResolutionHolds == ASSUME Patient PROVE Spec => []OneResolution
<1>1. PInv => OneResolution
  BY DEF PInv, SameOrigin, OneResolution
<1>2. QED
  BY <1>1, PInvHolds, PTL

\* And nothing a task does undoes an override.
THEOREM OverridesKeptHolds == ASSUME Patient PROVE Spec => OverridesKept
<1>1. PInv /\ [Next]_vars => [\A k \in Skills : row'[k].edited >= row[k].edited]_vars
  <2>. SUFFICES ASSUME PInv, [Next]_vars, NEW k \in Skills
                PROVE  row'[k].edited >= row[k].edited
    OBVIOUS
  <2>1. \A j \in Skills : row[j].edited \in Nat /\ row[j].edited <= edits
    BY ProcessingAssumption DEF PInv, TypeOK, Row, RowsCoherent
  <2>2. CASE row' = row
    <3>1. row'[k] = row[k] /\ row[k].edited \in Nat
      BY <2>1, <2>2
    <3>2. QED
      BY <3>1
  <2>3. ASSUME NEW t \in Tasks, CommitSkills(t) PROVE row'[k].edited >= row[k].edited
    <3>1. row[k].edited \in Nat
      BY <2>1
    <3>2. \/ row'[k] = row[k]
          \/ row[k].edited = 0 /\ row'[k] = NoRow
          \/ row[k].edited = 0 /\ row'[k] = [state |-> "agent", origin |-> t, edited |-> 0]
      BY <2>3, CommitLeaves
    <3>3. row'[k] = row[k] \/ (row[k].edited = 0 /\ row'[k].edited = 0)
      BY <3>2 DEF NoRow
    <3>4. QED
      BY <3>1, <3>3
  <2>4. ASSUME NEW j \in Skills, NEW state \in {"active", "deleted"}, Override(j, state)
        PROVE  row'[k].edited >= row[k].edited
    <3>1. edits' = edits + 1 /\ edits \in Nat
      BY <2>4, ProcessingAssumption DEF Override, PInv, TypeOK
    <3>2. row'[k].edited = edits' \/ row'[k] = row[k]
      BY <2>4 DEF Override, PInv, TypeOK
    <3>3. row[k].edited \in Nat /\ row[k].edited <= edits
      BY <2>1
    <3>4. QED
      BY <3>1, <3>2, <3>3
  <2>5. \/ row' = row
        \/ \E t \in Tasks : CommitSkills(t)
        \/ \E j \in Skills : \E state \in {"active", "deleted"} : Override(j, state)
    BY DEF Next, TaskStep, vars, Load, Enter, ProfileStage, CollectGithub, GithubStage,
           EvidenceStage, ReadPinned, DeleteRows, CloseResolve, ResolveFails, Fail, Lose, Submit,
           Reprocess, Reverify, UpdateSkill, AddSkill, DeleteSkill
  <2>6. QED
    BY <2>2, <2>3, <2>4, <2>5
<1>2. QED
  BY <1>1, PInvHolds, PTL DEF Spec, OverridesKept

\* No override commits while a task works on the applicant.
THEOREM EditsWaitHolds == ASSUME Patient PROVE Spec => EditsWait
<1>1. PInv /\ [Next]_vars => [edits' # edits => \A t \in Tasks : ~ Working(t)]_vars
  <2>. SUFFICES ASSUME PInv, [Next]_vars, edits' # edits
                PROVE  \A t \in Tasks : ~ Working(t)
    OBVIOUS
  <2>1. Editable
    BY DEF Next, TaskStep, vars, Load, Enter, ProfileStage, CollectGithub, GithubStage,
           EvidenceStage, ReadPinned, DeleteRows, CommitSkills, CloseResolve, ResolveFails, Fail,
           Lose, Submit, Reprocess, Reverify, UpdateSkill, AddSkill, DeleteSkill, Override
  <2>2. QED
    BY <2>1 DEF PInv, StatusTells, Editable
<1>2. QED
  BY <1>1, PInvHolds, PTL DEF Spec, EditsWait

-----------------------------------------------------------------------------
(* Requests that overlap *)

\* A task that has not yet committed its outcome.
Unsettled(t) == task[t].pc \notin {"new", "done", "committed"}

\* An applicant shown as processing has a task that still owes it an outcome: a
\* task that only has to close its last stage is not enough, it may end beside
\* a re-run that was queued since.
HeldInv == /\ DOMAIN task = Tasks
           /\ \A t \in Tasks : "pc" \in DOMAIN task[t]
           /\ status = "processing" => \E t \in Tasks : Unsettled(t)

\* A step that moves one task, which is unsettled afterwards, or was settled
\* before, or leaves the applicant in another status.
LEMMA MovesOne ==
    ASSUME HeldInv, NEW t \in Tasks, NEW pc,
           DOMAIN task' = Tasks,
           \A u \in Tasks \ {t} : task'[u] = task[u],
           "pc" \in DOMAIN task'[t], task'[t].pc = pc,
           \/ pc \notin {"new", "done", "committed"}
           \/ status' = status /\ ~ Unsettled(t)
           \/ status' # "processing"
    PROVE  HeldInv'
BY DEF HeldInv, Unsettled

\* Every step of a task keeps it.
LEMMA TaskHeld == ASSUME HeldInv, NEW t \in Tasks, TaskStep(t) PROVE HeldInv'
<1>1. CASE Load(t)
  BY <1>1, MovesOne DEF Load, HeldInv
<1>2. CASE Enter(t)
  BY <1>2 DEF Enter, HeldInv, Unsettled
<1>3. CASE ProfileStage(t) \/ GithubStage(t) \/ EvidenceStage(t)
  <2>1. \E pc \in {"github", "failing", "evidence", "resolve"} :
            task' = [task EXCEPT ![t].pc = pc] \/ task' = [task EXCEPT ![t].pc = pc, ![t].github = TRUE]
    BY <1>3 DEF ProfileStage, GithubStage, EvidenceStage, Goto
  <2>2. QED
    BY <2>1, MovesOne DEF HeldInv
<1>4. CASE CollectGithub(t)
  <2>1. task' = [task EXCEPT ![t].github = TRUE] /\ status' = status /\ task[t].pc = "github"
    BY <1>4 DEF CollectGithub, In
  <2>2. QED
    BY <2>1, MovesOne DEF HeldInv
<1>5. CASE ReadPinned(t)
  BY <1>5, MovesOne DEF ReadPinned, HeldInv
<1>6. CASE DeleteRows(t)
  <2>1. \E doomed : task' = [task EXCEPT ![t].pc = "deleting", ![t].doomed = doomed]
    BY <1>6 DEF DeleteRows
  <2>2. QED
    BY <2>1, MovesOne DEF HeldInv
<1>7. CASE CommitSkills(t)
  <2>1. status' = "ready" /\ task' = [task EXCEPT ![t].pc = "committed"]
    BY <1>7 DEF CommitSkills, Goto
  <2>2. QED
    BY <2>1, MovesOne DEF HeldInv
<1>8. CASE CloseResolve(t)
  <2>1. task[t].pc = "committed" /\ status' = status /\ task' = [task EXCEPT ![t].pc = "done"]
    BY <1>8 DEF CloseResolve, Goto
  <2>2. QED
    BY <2>1, MovesOne DEF HeldInv, Unsettled
<1>9. CASE ResolveFails(t) \/ Fail(t)
  <2>1. \/ task' = [task EXCEPT ![t].pc = "failing"]
        \/ task' = [task EXCEPT ![t].pc = "done"] /\ status' = "failed"
    BY <1>9 DEF ResolveFails, Fail, Goto
  <2>2. QED
    BY <2>1, MovesOne DEF HeldInv
<1>10. QED
  BY <1>1, <1>2, <1>3, <1>4, <1>5, <1>6, <1>7, <1>8, <1>9 DEF TaskStep

\* When nothing loses a task, an applicant shown as processing is in the hands
\* of one, however the requests that queue re-runs overlap and whichever
\* stages fail.
THEOREM NeverOrphanedHolds == ASSUME ~ Outages PROVE RSpec => []NeverOrphaned
<1>1. RInit => HeldInv
  BY DEF RInit, Init, HeldInv, NewTask
<1>2. HeldInv /\ [RNext]_<<vars, req>> => HeldInv'
  <2> SUFFICES ASSUME HeldInv, [RNext]_<<vars, req>> PROVE HeldInv'
    OBVIOUS
  <2>1. ASSUME NEW t \in Tasks, TaskStep(t) PROVE HeldInv'
    BY <2>1, TaskHeld
  <2>2. ASSUME NEW t \in Tasks, Submit(t) PROVE HeldInv'
    BY <2>2, MovesOne DEF Submit, Queue, HeldInv
  <2>3. ASSUME NEW q \in Requests, NEW t \in Tasks, CommitRerun(q, t) PROVE HeldInv'
    <3>1. \E kind : task' = [task EXCEPT ![t].pc = "queued", ![t].kind = kind]
      BY <2>3 DEF CommitRerun, Queue
    <3>2. QED
      BY <3>1, MovesOne DEF HeldInv
  <2>4. CASE UNCHANGED <<status, task>>
    BY <2>4 DEF HeldInv, Unsettled
  <2>5. QED
    BY <2>1, <2>2, <2>3, <2>4 DEF RNext, RequestStep, BeginRerun, BeginEdit, Begin, CommitEdit,
       Abort, Background, Lose, vars
<1>3. HeldInv => NeverOrphaned
  BY DEF HeldInv, Unsettled, NeverOrphaned, Live
<1>4. QED
  BY <1>1, <1>2, <1>3, PTL DEF RSpec
=============================================================================
