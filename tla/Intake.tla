------------------------------- MODULE Intake --------------------------------
(***************************************************************************)
(* How applicants and their resumes arrive: POST /api/applications         *)
(* (src/src/backend/api/routes_public.py) from several processes at once,  *)
(* and the import of the older files (legacy_import.py) by an operator,    *)
(* run again after a failure.  Both put a file into the storage            *)
(* (storage.py) and a row into the database; no transaction spans the two, *)
(* and any process may be killed.  Emails are compared without their case. *)
(***************************************************************************)
EXTENDS Integers, Sequences

CONSTANTS Applications,  \* POST requests
          Emails,
          Cohort,        \* rows of applicants.csv: their emails, in order
          MaxImports     \* bound: runs of the import

None == "none"
NoResume == <<>>

VARIABLES applicants,  \* committed rows: who made it, email, key of the resume
          files,       \* keys of the storage, or their temporary names
          post,        \* each request: next step and email
          import,      \* the import: next step, row, and what it has flushed
          imports      \* runs of the import so far

vars == <<applicants, files, post, import, imports>>

Final(key) == [key |-> key, tmp |-> FALSE]
Temporary(key) == [key |-> key, tmp |-> TRUE]
Row(who, email, resume) == [who |-> who, email |-> email, resume |-> resume]
ByWho(rows, who) == {a \in rows : a.who = who}
Taken(email) == \E a \in applicants : a.email = email

Resting == {"idle", "stopped", "done"}
NoImport == [step |-> "idle", row |-> 0, rows |-> {}]

Init == /\ applicants = {} /\ files = {}
        /\ post = [q \in Applications |-> [step |-> "read", email |-> None]]
        /\ import = NoImport
        /\ imports = 0

-----------------------------------------------------------------------------
(* create_application *)

Key(q) == <<"post", q>>
Step(q, step) == post' = [post EXCEPT ![q].step = step]

\* The form is complete, the upload is a PDF within the limit; or 422.
Read(q) == /\ post[q].step = "read"
           /\ \/ \E e \in Emails : post' = [post EXCEPT ![q] = [step |-> "check", email |-> e]]
              \/ Step(q, "invalid")
           /\ UNCHANGED <<applicants, files, import, imports>>

\* get_applicant_by_email: 409 when there is one
Check(q) == /\ post[q].step = "check"
            /\ Step(q, IF Taken(post[q].email) THEN "duplicate" ELSE "save")
            /\ UNCHANGED <<applicants, files, import, imports>>

\* LocalStorage.save: a temporary file, then its final name
SaveTemporary(q) == /\ post[q].step = "save"
                    /\ files' = files \cup {Temporary(Key(q))}
                    /\ Step(q, "rename")
                    /\ UNCHANGED <<applicants, import, imports>>

SaveFinal(q) == /\ post[q].step = "rename"
                /\ files' = (files \ {Temporary(Key(q))}) \cup {Final(Key(q))}
                /\ Step(q, "commit")
                /\ UNCHANGED <<applicants, import, imports>>

\* An insert waits for the import that has flushed the same email.
Waits(q) == \E a \in import.rows : a.email = post[q].email

\* Fault: the refused upload stays in the storage.
Commit_KeepsFile(q) ==
    /\ post[q].step = "commit" /\ ~ Waits(q)
    /\ IF Taken(post[q].email) THEN Step(q, "duplicate") /\ UNCHANGED applicants
       ELSE applicants' = applicants \cup {Row(q, post[q].email, Key(q))} /\ Step(q, "created")
    /\ UNCHANGED <<files, import, imports>>

\* uq_applicants_email_lower: the row is there, or IntegrityError and rollback
Commit(q) == /\ post[q].step = "commit" /\ ~ Waits(q)
             /\ IF Taken(post[q].email) THEN Step(q, "undo") /\ UNCHANGED applicants
                ELSE applicants' = applicants \cup {Row(q, post[q].email, Key(q))} /\ Step(q, "created")
             /\ UNCHANGED <<files, import, imports>>

\* Fault: the resume of the applicant who has the email is deleted.
Undo_Applicants(q) ==
    /\ post[q].step = "undo"
    /\ files' = files \ {Final(a.resume) : a \in {a \in applicants : a.email = post[q].email}}
    /\ Step(q, "duplicate")
    /\ UNCHANGED <<applicants, import, imports>>

\* store.delete, then 409
Undo(q) == /\ post[q].step = "undo"
           /\ files' = files \ {Final(Key(q))}
           /\ Step(q, "duplicate")
           /\ UNCHANGED <<applicants, import, imports>>

InFlight(q) == post[q].step \in {"check", "save", "rename", "commit", "undo"}

\* The API processes are replaced.
KillApi == /\ \E q \in Applications : InFlight(q)
           /\ post' = [q \in Applications |-> IF InFlight(q) THEN [post[q] EXCEPT !.step = "lost"]
                                              ELSE post[q]]
           /\ UNCHANGED <<applicants, files, import, imports>>

-----------------------------------------------------------------------------
(* run, import_applicants: one transaction over all rows *)

ImportKey(i) == <<"import", imports, i>>
ImportRows == applicants \cup import.rows

StartImport == /\ import.step \in Resting /\ imports < MaxImports
               /\ import' = [step |-> IF Cohort = <<>> THEN "commit" ELSE "row", row |-> 1, rows |-> {}]
               /\ imports' = imports + 1
               /\ UNCHANGED <<applicants, files, post>>

Advance == IF import.row = Len(Cohort) THEN [import EXCEPT !.step = "commit"]
           ELSE [import EXCEPT !.step = "row", !.row = @ + 1]

\* A row of the cohort whose spec is incomplete, or whose email another
\* applicant has, is reported and skipped; a known one is updated, keeping the
\* resume it has, if any; a new one is inserted.  A snapshot that cannot be
\* read stops the import.
ImportRow ==
    /\ import.step = "row"
    /\ LET i == import.row
           known == ByWho(ImportRows, i)
       IN \/ import' = Advance
          \/ import' = [NoImport EXCEPT !.step = "stopped"]
          \/ /\ known = {} /\ ~ \E a \in ImportRows : a.email = Cohort[i]
             /\ import' = [import EXCEPT !.step = "insert"]
          \/ /\ known # {}
             /\ import' = [import EXCEPT !.rows = (@ \ known) \cup known,
                                         !.step = IF \E a \in known : a.resume # NoResume THEN "evidence"
                                                  ELSE "resume"]
    /\ UNCHANGED <<applicants, files, post, imports>>

\* session.flush: a request may have committed the email since
InsertRow == /\ import.step = "insert"
             /\ import' = IF Taken(Cohort[import.row]) THEN [NoImport EXCEPT !.step = "stopped"]
                          ELSE [import EXCEPT !.step = "resume",
                                   !.rows = @ \cup {Row(import.row, Cohort[import.row], NoResume)}]
             /\ UNCHANGED <<applicants, files, post, imports>>

\* storage.save of the rendered resume, when there is one
ImportResume ==
    /\ import.step = "resume"
    /\ \/ /\ files' = files \cup {Final(ImportKey(import.row))}
          /\ import' = [import EXCEPT !.step = "evidence",
                           !.rows = {IF a.who = import.row THEN [a EXCEPT !.resume = ImportKey(import.row)]
                                     ELSE a : a \in @}]
       \/ import' = [import EXCEPT !.step = "evidence"] /\ UNCHANGED files
    /\ UNCHANGED <<applicants, post, imports>>

\* The saved verdicts are resolved, or there are none; a file that cannot be
\* read stops the import, and the transaction is rolled back.
ImportEvidence == /\ import.step = "evidence"
                  /\ \/ import' = Advance
                     \/ import' = [NoImport EXCEPT !.step = "stopped"]
                  /\ UNCHANGED <<applicants, files, post, imports>>

CommitImport == /\ import.step = "commit"
                /\ applicants' = {a \in applicants : ByWho(import.rows, a.who) = {}} \cup import.rows
                /\ import' = [NoImport EXCEPT !.step = "done"]
                /\ UNCHANGED <<files, post, imports>>

KillImport == /\ import.step \notin Resting
              /\ import' = [NoImport EXCEPT !.step = "stopped"]
              /\ UNCHANGED <<applicants, files, post, imports>>

Import == StartImport \/ ImportRow \/ InsertRow \/ ImportResume \/ ImportEvidence \/ CommitImport

Next == \/ \E q \in Applications : \/ Read(q) \/ Check(q) \/ SaveTemporary(q) \/ SaveFinal(q)
                                   \/ Commit(q) \/ Undo(q)
        \/ Import \/ KillApi \/ KillImport

Spec == Init /\ [][Next]_vars

-----------------------------------------------------------------------------
(* The intake as a directory of applicants *)

\* What a request has been told; until it has, it is as if nothing was decided.
Answered(q) == IF post[q].step \in {"invalid", "created", "duplicate", "lost"} THEN post[q].step ELSE None

Directory == INSTANCE ApplicantDirectory WITH
                 entries <- {[who |-> a.who, email |-> a.email] : a \in applicants},
                 asked <- [q \in Applications |-> post[q].email],
                 answer <- [q \in Applications |-> Answered(q)]

\* Whatever happens between the look at the email, the upload, the insert and
\* the import's commit, every request and every import acts as one step of the
\* directory: "409" is told only to one whose email is taken at that moment,
\* two rows never share an email, and an import becomes visible as a whole.
ActsAsDirectory == Directory!Spec

-----------------------------------------------------------------------------
\* Every resume a row names can be opened, and an applicant who was told "201"
\* has a row and a resume (create_application, import_applicants).
ResumesReadable ==
    /\ \A a \in applicants : a.resume # NoResume => Final(a.resume) \in files
    /\ \A q \in Applications : post[q].step = "created" => \E a \in applicants : a.who = q /\ a.resume = Key(q)

\* A file without a row belongs to work in progress, or to a process or an
\* import that was cut short: a refused application leaves nothing behind.
NothingLeftBehind ==
    \A f \in files : \/ \E a \in applicants \cup import.rows : a.resume = f.key
                     \/ f.key[1] = "post" /\ (InFlight(f.key[2]) \/ post[f.key[2]].step = "lost")
                     \/ f.key[1] = "import"
=============================================================================
