----------------------------- MODULE SkillEdits ------------------------------
(***************************************************************************)
(* The life of one skill of one applicant under managers' requests,        *)
(* src/src/backend/services/skill_overrides.py: edited, removed, added     *)
(* again, its evidence items likewise, while a resolution (of processing,  *)
(* or of the legacy import) replaces what no manager touched.  A removal   *)
(* is a mark on the row.  Each request reads in its session and commits    *)
(* later, writing only the columns it changed; a resolution reads the      *)
(* pins, deletes and inserts in three statements at READ COMMITTED         *)
(* (persistence.py, replace_applicant_skills), one resolution at a time.   *)
(***************************************************************************)
EXTENDS Integers, FiniteSets

CONSTANTS Edits,    \* requests that may run at once
          Items,    \* evidence items of a row; a bound on them
          MaxRows   \* bound: rows ever inserted for the skill

VARIABLES skill,     \* the row: its identity, 0 when there is none; its marks
          lastRow,   \* the identity given to a row last
          evidence,  \* the evidence items of the row
          resolver,  \* who resolves the applicant's skills, and how far it is
          edit       \* each request: kind, the row and items it read, the item it is about

editVars == <<skill, lastRow, evidence, resolver, edit>>

NoSkill == [id |-> 0, deleted |-> FALSE, pinned |-> FALSE]
Idle == [kind |-> "idle", row |-> NoSkill, seen |-> {}, item |-> 0]

\* row: the row whose pin was read; doomed: the row the DELETE found, 0 if none
NoResolution == [step |-> "idle", kind |-> "import", row |-> NoSkill, doomed |-> 0]

EditsInit == /\ skill = NoSkill
             /\ lastRow = 0
             /\ evidence = {}
             /\ resolver = NoResolution
             /\ edit = [q \in Edits |-> Idle]

Exists == skill.id # 0
Active == Exists /\ ~ skill.deleted
Visible == {e \in evidence : ~ e.deleted}
Unused == {i \in Items : \A e \in evidence : e.id # i}

-----------------------------------------------------------------------------
(* A resolution *)

\* Processing marks the applicant; the import, another process, does not.
StartResolution == /\ resolver.step = "idle"
                   /\ \E kind \in {"processing", "import"} :
                         resolver' = [NoResolution EXCEPT !.step = "working", !.kind = kind]
                   /\ UNCHANGED <<skill, lastRow, evidence, edit>>

InProcessing == resolver.step # "idle" /\ resolver.kind = "processing"

\* pinned_skill_ids; the import keeps the rows it read before calling it
ReadPins == /\ resolver.step = "working"
            /\ resolver' = [resolver EXCEPT !.step = "read", !.row = skill]
            /\ UNCHANGED <<skill, lastRow, evidence, edit>>

\* Fault: a removed skill is not taken as pinned.
DeleteRow_Removed ==
    /\ resolver.step = "read"
    /\ resolver' = [resolver EXCEPT !.step = "deleted",
                       !.doomed = IF resolver.row.pinned /\ ~ resolver.row.deleted THEN 0 ELSE skill.id]
    /\ UNCHANGED <<skill, lastRow, evidence, edit>>

\* The DELETE takes the row as it is by now, unless its pin was read.
DeleteRow ==
    /\ resolver.step = "read"
    /\ resolver' = [resolver EXCEPT !.step = "deleted",
                                    !.doomed = IF resolver.row.pinned THEN 0 ELSE skill.id]
    /\ UNCHANGED <<skill, lastRow, evidence, edit>>

\* The row goes, and a new one comes when the agents found the skill, with at
\* most one item here.  A row that was added since is in the way of the insert.
CommitResolution ==
    /\ resolver.step = "deleted"
    /\ resolver' = NoResolution
    /\ \/ /\ skill.id = resolver.doomed /\ ~ resolver.row.pinned
          /\ lastRow < MaxRows
          /\ lastRow' = lastRow + 1
          /\ skill' = [id |-> lastRow', deleted |-> FALSE, pinned |-> FALSE]
          /\ \E found \in {{}} \cup {{i} : i \in Items} :
                evidence' = {[id |-> i, deleted |-> FALSE, position |-> 0] : i \in found}
       \/ /\ skill.id = resolver.doomed
          /\ skill' = NoSkill
          /\ evidence' = {}
          /\ UNCHANGED lastRow
       \/ /\ skill.id # resolver.doomed
          /\ UNCHANGED <<skill, lastRow, evidence>>
    /\ UNCHANGED edit

\* Rolled back; or the import finds nothing to change.
EndResolution == /\ resolver.step # "idle"
                 /\ resolver' = NoResolution
                 /\ UNCHANGED <<skill, lastRow, evidence, edit>>

-----------------------------------------------------------------------------
(* Requests *)

\* _applicant, active_skill, _any_row, _evidence: what each request reads, and
\* when it is refused
Allowed(kind, item) ==
    CASE kind = "add"             -> ~ Active
      [] kind \in {"update", "delete", "add evidence"} -> Active
      [] kind = "delete evidence" -> Active /\ \E e \in Visible : e.id = item

Begin(q, kind, item) ==
    /\ edit[q].kind = "idle" /\ ~ InProcessing
    /\ Allowed(kind, item)
    /\ edit' = [edit EXCEPT ![q] = [kind |-> kind, row |-> skill, seen |-> evidence, item |-> item]]
    /\ UNCHANGED <<skill, lastRow, evidence, resolver>>

\* The row the request read is gone, or the row it inserts is there by now.
Stale(q) == skill.id # edit[q].row.id

\* StaleDataError, IntegrityError: the request ends with an error.
Refuse(q) == /\ edit[q] # Idle /\ Stale(q)
             /\ edit' = [edit EXCEPT ![q] = Idle]
             /\ UNCHANGED <<skill, lastRow, evidence, resolver>>

\* An UPDATE waits for the transaction that deletes its row.
Locked == Exists /\ skill.id = resolver.doomed

Commits(q, kind) == /\ edit[q].kind = kind /\ ~ Stale(q) /\ ~ Locked
                    /\ edit' = [edit EXCEPT ![q] = Idle]
                    /\ UNCHANGED resolver

\* Fault: the row is written back as it was read.
CommitUpdate_WholeRow(q) == /\ Commits(q, "update")
                            /\ skill' = [edit[q].row EXCEPT !.pinned = TRUE]
                            /\ UNCHANGED <<lastRow, evidence>>

\* update_skill; update_evidence does the same to the row of its item
CommitUpdate(q) == /\ Commits(q, "update")
                   /\ skill' = [skill EXCEPT !.pinned = TRUE]
                   /\ UNCHANGED <<lastRow, evidence>>

\* delete_skill
CommitDelete(q) == /\ Commits(q, "delete")
                   /\ skill' = [skill EXCEPT !.deleted = TRUE, !.pinned = TRUE]
                   /\ UNCHANGED <<lastRow, evidence>>

\* add_skill: a new row, or the removed one without the evidence it had
CommitAdd(q) == /\ Commits(q, "add")
                /\ \/ /\ Exists
                      /\ skill' = [skill EXCEPT !.deleted = FALSE, !.pinned = TRUE]
                      /\ UNCHANGED lastRow
                   \/ /\ ~ Exists /\ lastRow < MaxRows
                      /\ lastRow' = lastRow + 1
                      /\ skill' = [id |-> lastRow', deleted |-> FALSE, pinned |-> TRUE]
                /\ evidence' = {IF e \in edit[q].seen THEN [e EXCEPT !.deleted = TRUE] ELSE e : e \in evidence}

\* add_evidence: at the position after the last one read
CommitAddEvidence(q) ==
    /\ Commits(q, "add evidence")
    /\ skill' = [skill EXCEPT !.pinned = TRUE]
    /\ UNCHANGED lastRow
    /\ LET last == {e.position : e \in edit[q].seen}
       IN \E i \in Unused :
             evidence' = evidence \cup
                {[id |-> i, deleted |-> FALSE,
                  position |-> IF last = {} THEN 0 ELSE 1 + CHOOSE p \in last : \A o \in last : o <= p]}

\* delete_evidence
CommitDeleteEvidence(q) ==
    /\ Commits(q, "delete evidence")
    /\ skill' = [skill EXCEPT !.pinned = TRUE]
    /\ UNCHANGED lastRow
    /\ evidence' = {IF e.id = edit[q].item THEN [e EXCEPT !.deleted = TRUE] ELSE e : e \in evidence}

EditsNext == \/ StartResolution \/ ReadPins \/ DeleteRow \/ CommitResolution \/ EndResolution
             \/ \E q \in Edits :
                   \/ \E kind \in {"update", "delete", "add", "add evidence"} : Begin(q, kind, 0)
                   \/ \E i \in Items : Begin(q, "delete evidence", i)
                   \/ CommitUpdate(q) \/ CommitDelete(q) \/ CommitAdd(q)
                   \/ CommitAddEvidence(q) \/ CommitDeleteEvidence(q) \/ Refuse(q)

EditsSpec == EditsInit /\ [][EditsNext]_editVars

-----------------------------------------------------------------------------
\* What a manager removed stays removed.  A row with an override is replaced
\* only by a resolution that had read its pin before the override was
\* committed; on the row, only adding the skill again revives it, not a request
\* that read it before the removal; and a removed evidence item never returns
\* (delete_skill, delete_evidence, replace_applicant_skills).
RemovedStaysRemoved ==
    [][/\ skill.pinned /\ skill'.id # skill.id =>
             resolver.step = "deleted" /\ ~ resolver.row.pinned
       /\ skill.deleted /\ skill'.id = skill.id /\ ~ skill'.deleted =>
             \E q \in Edits : edit[q].kind = "add" /\ edit'[q] = Idle
       /\ \A e \in evidence \ Visible : e \in evidence' \/ skill'.id # skill.id]_editVars

\* README "removed" skills "are preserved by applicant reprocessing, GitHub
\* re-verification, and the legacy import": a row with an override is never
\* replaced.  The statements of replace_applicant_skills allow it (README.md).
OverridesPreserved == [][skill.pinned => skill'.id = skill.id]_editVars
=============================================================================
