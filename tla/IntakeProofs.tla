---------------------------- MODULE IntakeProofs -----------------------------
(* No resume is lost and none is left behind, and the intake acts as a         *)
(* directory with one applicant per email, for any number of applications,    *)
(* processes killed anywhere and runs of the import; and what managers remove *)
(* stays removed, for any number of requests and resolutions.                 *)
EXTENDS Intake, SkillEdits, TLAPS

Imported(key) == \E n, i \in Nat : key = <<"import", n, i>>
Resumes == {NoResume} \cup {Key(q) : q \in Applications}
           \cup {<<"import", p[1], p[2]>> : p \in Nat \X Nat}
Mails == Emails \cup {None} \cup {Cohort[i] : i \in Nat}
Rows(makers) == [who : makers, email : Mails, resume : Resumes]
Steps == {"read", "invalid", "check", "duplicate", "save", "rename", "commit", "undo",
          "created", "lost"}
ImportSteps == {"idle", "stopped", "done", "row", "insert", "resume", "evidence", "commit"}

TypeOK ==
    /\ applicants \subseteq Rows(Applications \cup Nat)
    /\ files \subseteq [key : Resumes, tmp : BOOLEAN]
    /\ post \in [Applications -> [step : Steps, email : Mails]]
    /\ import \in [step : ImportSteps, row : Nat, rows : SUBSET Rows(Nat)]
    /\ imports \in Nat

\* A resume is named by the row of the request that stored it, when that request
\* has answered "201", or comes from an import.
Owned == \A a \in ImportRows :
    \/ a.resume = NoResume \/ Imported(a.resume)
    \/ a.who \in Applications /\ a.resume = Key(a.who) /\ post[a.who].step = "created"

\* What a row names is there, also while the import has not been committed.
Stored == \A a \in ImportRows : a.resume # NoResume => Final(a.resume) \in files

Told == \A q \in Applications :
    post[q].step = "created" => \E a \in applicants : a.who = q /\ a.resume = Key(q)

\* A file is where the request that writes it is, or was when it was killed.
Filed == \A f \in files :
    \/ Imported(f.key)
    \/ \E q \in Applications :
          /\ f.key = Key(q)
          /\ \/ post[q].step = "lost"
             \/ f.tmp /\ post[q].step = "rename"
             \/ ~ f.tmp /\ post[q].step \in {"commit", "undo", "created"}

\* What is about to be named is there.
Saved == \A q \in Applications : post[q].step = "commit" => Final(Key(q)) \in files

Inv == TypeOK /\ Owned /\ Stored /\ Told /\ Filed /\ Saved

-----------------------------------------------------------------------------
\* The keys of the two kinds of resume differ from each other and from none.
LEMMA KeyFacts ==
    /\ \A q \in Applications : Key(q)[1] = "post" /\ Key(q)[2] = q /\ Key(q) # NoResume
    /\ \A p, q \in Applications : Key(p) = Key(q) => p = q
    /\ \A key : Imported(key) => key[1] = "import" /\ key # NoResume
    /\ \A key, q : Imported(key) => key # Key(q)
<1>1. \A q : Key(q)[1] = "post" /\ Key(q)[2] = q /\ Key(q) # NoResume
  BY DEF Key, NoResume
<1>2. ASSUME NEW key, Imported(key) PROVE key[1] = "import" /\ key # NoResume
  BY <1>2 DEF Imported, NoResume
<1> QED BY <1>1, <1>2

\* A request that moves on without touching files or rows.
LEMMA PostMoves ==
    ASSUME Inv, UNCHANGED <<applicants, files, import, imports>>,
           post' \in [Applications -> [step : Steps, email : Mails]],
           \A q \in Applications :
               /\ post'[q].step = "created" <=> post[q].step = "created"
               /\ post'[q].step = "commit" => post[q].step = "commit"
               /\ post[q].step = "rename" => post'[q].step \in {"rename", "lost"}
               /\ post[q].step = "commit" => post'[q].step \in {"commit", "undo", "lost"}
               /\ post[q].step = "undo" => post'[q].step \in {"undo", "lost"}
               /\ post[q].step = "lost" => post'[q].step = "lost"
    PROVE  Inv'
<1>1. TypeOK' /\ Stored'
  BY DEF Inv, TypeOK, Stored, ImportRows
<1>2. Owned' /\ Told'
  BY DEF Inv, Owned, Told, ImportRows
<1>3. Filed' /\ Saved'
  BY DEF Inv, Filed, Saved
<1> QED BY <1>1, <1>2, <1>3 DEF Inv

\* The import moves on, with rows it knows or rows without a resume.
LEMMA ImportMoves ==
    ASSUME Inv, UNCHANGED <<applicants, files, post>>, imports' \in Nat,
           import' \in [step : ImportSteps, row : Nat, rows : SUBSET Rows(Nat)],
           \A a \in import'.rows : a \in ImportRows \/ a.resume = NoResume
    PROVE  Inv'
<1>1. TypeOK'
  BY DEF Inv, TypeOK
<1>2. \A a \in ImportRows' : a \in ImportRows \/ a.resume = NoResume
  BY DEF ImportRows
<1>3. Owned' /\ Stored'
  BY <1>2 DEF Inv, Owned, Stored
<1>4. Told' /\ Filed' /\ Saved'
  BY DEF Inv, Told, Filed, Saved
<1> QED BY <1>1, <1>3, <1>4 DEF Inv

-----------------------------------------------------------------------------
\* Reading the form and asking for the email store nothing.
LEMMA ReadKeeps == ASSUME Inv, NEW q \in Applications, Read(q) PROVE Inv'
<1>1. post[q].step = "read" /\ UNCHANGED <<applicants, files, import, imports>>
  BY DEF Read
<1>2. PICK e \in Emails \cup {None}, step \in {"check", "invalid"} :
         \/ post' = [post EXCEPT ![q] = [step |-> step, email |-> e]]
         \/ post' = [post EXCEPT ![q].step = step]
  BY DEF Read, Step
<1>3. post' \in [Applications -> [step : Steps, email : Mails]]
  BY <1>2 DEF Inv, TypeOK, Steps, Mails
<1>4. \A p \in Applications : post'[p].step = IF p = q THEN step ELSE post[p].step
  BY <1>2 DEF Inv, TypeOK
<1> QED BY <1>1, <1>3, <1>4, PostMoves

\* A request moves from one step to another.
LEMMA StepType ==
    ASSUME TypeOK, NEW q \in Applications, NEW step \in Steps, Step(q, step)
    PROVE  /\ post' \in [Applications -> [step : Steps, email : Mails]]
           /\ \A p \in Applications : post'[p].step = IF p = q THEN step ELSE post[p].step
BY DEF TypeOK, Step

\* Asking for the email stores nothing.
LEMMA CheckKeeps == ASSUME Inv, NEW q \in Applications, Check(q) PROVE Inv'
<1>1. post[q].step = "check" /\ UNCHANGED <<applicants, files, import, imports>>
  BY DEF Check
<1>2. PICK step \in {"duplicate", "save"} : Step(q, step)
  BY DEF Check
<1>3. /\ post' \in [Applications -> [step : Steps, email : Mails]]
      /\ \A p \in Applications : post'[p].step = IF p = q THEN step ELSE post[p].step
  BY <1>2, StepType DEF Inv, Steps
<1> QED BY <1>1, <1>3, PostMoves

\* A killed request leaves what it has stored.
LEMMA KillApiKeeps == ASSUME Inv, KillApi PROVE Inv'
<1>1. UNCHANGED <<applicants, files, import, imports>>
  BY DEF KillApi
<1>2. \A q \in Applications : post'[q] = IF InFlight(q) THEN [post[q] EXCEPT !.step = "lost"]
                                         ELSE post[q]
  BY DEF KillApi
<1>3. post' \in [Applications -> [step : Steps, email : Mails]]
  BY DEF KillApi, Inv, TypeOK, Steps
<1>4. \A q \in Applications : post'[q].step = IF InFlight(q) THEN "lost" ELSE post[q].step
  BY <1>2 DEF Inv, TypeOK
<1> QED BY <1>1, <1>3, <1>4, PostMoves DEF InFlight

\* A file is written under its temporary name.
LEMMA SaveTemporaryKeeps == ASSUME Inv, NEW q \in Applications, SaveTemporary(q) PROVE Inv'
<1>1. /\ post[q].step = "save" /\ UNCHANGED <<applicants, import, imports>>
      /\ files' = files \cup {Temporary(Key(q))} /\ Step(q, "rename")
  BY DEF SaveTemporary
<1>2. /\ post' \in [Applications -> [step : Steps, email : Mails]]
      /\ \A p \in Applications : post'[p].step = IF p = q THEN "rename" ELSE post[p].step
  BY <1>1, StepType DEF Inv, Steps
<1>3. TypeOK'
  <2>1. Key(q) \in Resumes
    BY DEF Resumes
  <2>2. Temporary(Key(q)) \in [key : Resumes, tmp : BOOLEAN]
    BY <2>1 DEF Temporary
  <2> QED BY <1>1, <1>2, <2>2 DEF Inv, TypeOK
<1>4. Owned' /\ Stored' /\ Told' /\ Saved'
  BY <1>1, <1>2 DEF Inv, Owned, Stored, Told, Saved, ImportRows
<1>5. Filed'
  BY <1>1, <1>2 DEF Inv, Filed, Temporary
<1> QED BY <1>3, <1>4, <1>5 DEF Inv

\* The temporary name becomes the final one, which no row has named before.
LEMMA SaveFinalKeeps == ASSUME Inv, NEW q \in Applications, SaveFinal(q) PROVE Inv'
<1>1. /\ post[q].step = "rename" /\ UNCHANGED <<applicants, import, imports>>
      /\ files' = (files \ {Temporary(Key(q))}) \cup {Final(Key(q))} /\ Step(q, "commit")
  BY DEF SaveFinal
<1>2. /\ post' \in [Applications -> [step : Steps, email : Mails]]
      /\ \A p \in Applications : post'[p].step = IF p = q THEN "commit" ELSE post[p].step
  BY <1>1, StepType DEF Inv, Steps
<1>3. TypeOK'
  <2>1. Key(q) \in Resumes
    BY DEF Resumes
  <2>2. Final(Key(q)) \in [key : Resumes, tmp : BOOLEAN]
    BY <2>1 DEF Final
  <2> QED BY <1>1, <1>2, <2>2 DEF Inv, TypeOK
<1>4. \A key : Final(key) # Temporary(Key(q))
  <2>1. \A key : Final(key).tmp = FALSE
    BY DEF Final
  <2>2. Temporary(Key(q)).tmp = TRUE
    BY DEF Temporary
  <2> QED BY <2>1, <2>2
<1>5. Owned' /\ Stored' /\ Told' /\ Saved'
  BY <1>1, <1>2, <1>4 DEF Inv, Owned, Stored, Told, Saved, ImportRows
<1>6. Filed'
  <2> SUFFICES ASSUME NEW f \in files'
               PROVE  \/ Imported(f.key)
                      \/ \E p \in Applications :
                            /\ f.key = Key(p)
                            /\ \/ post'[p].step = "lost"
                               \/ f.tmp /\ post'[p].step = "rename"
                               \/ ~ f.tmp /\ post'[p].step \in {"commit", "undo", "created"}
    BY DEF Filed
  <2>1. CASE f = Final(Key(q))
    BY <1>2, <2>1 DEF Final
  <2>2. CASE f \in files /\ f # Temporary(Key(q))
    <3>1. CASE f.key = Key(q)
      <4>1. f.tmp = FALSE
        BY <2>2, <3>1 DEF Inv, TypeOK, Temporary
      <4> QED BY <1>2, <3>1, <4>1
    <3>2. CASE f.key # Key(q)
      BY <1>2, <2>2, <3>2 DEF Inv, Filed
    <3> QED BY <3>1, <3>2
  <2> QED BY <1>1, <2>1, <2>2
<1> QED BY <1>3, <1>5, <1>6 DEF Inv

\* The row is inserted with the file that was stored for it, or is refused.
LEMMA CommitKeeps == ASSUME Inv, NEW q \in Applications, Commit(q) PROVE Inv'
<1>1. post[q].step = "commit" /\ UNCHANGED <<files, import, imports>>
  BY DEF Commit
<1>2. CASE Taken(post[q].email)
  <2>1. Step(q, "undo") /\ applicants' = applicants
    BY <1>2 DEF Commit
  <2>2. /\ post' \in [Applications -> [step : Steps, email : Mails]]
        /\ \A p \in Applications : post'[p].step = IF p = q THEN "undo" ELSE post[p].step
    BY <2>1, StepType DEF Inv, Steps
  <2> QED BY <1>1, <2>1, <2>2, PostMoves
<1>3. CASE ~ Taken(post[q].email)
  <2> DEFINE new == Row(q, post[q].email, Key(q))
  <2>1. Step(q, "created") /\ applicants' = applicants \cup {new}
    BY <1>3 DEF Commit
  <2>2. /\ post' \in [Applications -> [step : Steps, email : Mails]]
        /\ \A p \in Applications : post'[p].step = IF p = q THEN "created" ELSE post[p].step
    BY <2>1, StepType DEF Inv, Steps
  <2>3. new \in Rows(Applications \cup Nat) /\ new.who = q /\ new.resume = Key(q)
    BY DEF Row, Rows, Resumes, Inv, TypeOK
  <2> HIDE DEF new
  <2>4. TypeOK'
    BY <1>1, <2>1, <2>2, <2>3 DEF Inv, TypeOK
  <2>5. \A a \in ImportRows' : a \in ImportRows \/ a = new
    BY <1>1, <2>1 DEF ImportRows
  <2>6. Owned'
    BY <2>2, <2>3, <2>5 DEF Inv, Owned
  <2>7. Told'
    BY <2>1, <2>2, <2>3 DEF Inv, Told
  <2>8. Filed' /\ Saved'
    BY <1>1, <2>2 DEF Inv, Filed, Saved
  <2>9. Stored'
    <3>1. Final(Key(q)) \in files
      BY <1>1 DEF Inv, Saved
    <3> QED BY <1>1, <2>3, <2>5, <3>1 DEF Inv, Stored
  <2> QED BY <2>4, <2>6, <2>7, <2>8, <2>9 DEF Inv
<1> QED BY <1>2, <1>3

\* A refused application takes its own file back: no row names it.
LEMMA UndoKeeps ==
    ASSUME Inv, Applications \cap Nat = {}, NEW q \in Applications, Undo(q)
    PROVE  Inv'
<1>1. /\ post[q].step = "undo" /\ UNCHANGED <<applicants, import, imports>>
      /\ files' = files \ {Final(Key(q))} /\ Step(q, "duplicate")
  BY DEF Undo
<1>2. /\ post' \in [Applications -> [step : Steps, email : Mails]]
      /\ \A p \in Applications : post'[p].step = IF p = q THEN "duplicate" ELSE post[p].step
  BY <1>1, StepType DEF Inv, Steps
<1>3. TypeOK'
  BY <1>1, <1>2 DEF Inv, TypeOK
<1>4. Owned' /\ Told'
  BY <1>1, <1>2 DEF Inv, Owned, Told, ImportRows
<1>5. \A key, other : Final(key) = Final(other) => key = other
  <2>1. \A key : Final(key).key = key
    BY DEF Final
  <2> QED BY <2>1
<1>6. \A a \in ImportRows : a.resume # Key(q)
  BY <1>1, KeyFacts DEF Inv, Owned
<1>7. Stored'
  BY <1>1, <1>5, <1>6 DEF Inv, Stored, ImportRows
<1>8. Saved'
  BY <1>1, <1>2, <1>5, KeyFacts DEF Inv, Saved
<1>9. Filed'
  <2> SUFFICES ASSUME NEW f \in files'
               PROVE  \/ Imported(f.key)
                      \/ \E p \in Applications :
                            /\ f.key = Key(p)
                            /\ \/ post'[p].step = "lost"
                               \/ f.tmp /\ post'[p].step = "rename"
                               \/ ~ f.tmp /\ post'[p].step \in {"commit", "undo", "created"}
    BY DEF Filed
  <2>1. f \in files /\ f # Final(Key(q))
    BY <1>1
  <2>2. f.key = Key(q) => f.tmp = TRUE
    BY <2>1 DEF Inv, TypeOK, Final
  <2>3. f.key # Key(q)
    BY <1>1, <2>1, <2>2, KeyFacts DEF Inv, Filed
  <2> QED BY <1>2, <2>1, <2>3 DEF Inv, Filed
<1> QED BY <1>3, <1>4, <1>7, <1>8, <1>9 DEF Inv

-----------------------------------------------------------------------------
\* What the import becomes when it goes on to the next row, or ends.
LEMMA AdvanceType ==
    ASSUME TypeOK
    PROVE  /\ Advance \in [step : ImportSteps, row : Nat, rows : SUBSET Rows(Nat)]
           /\ Advance.rows = import.rows
           /\ \A step \in ImportSteps :
                 [NoImport EXCEPT !.step = step]
                     \in [step : ImportSteps, row : Nat, rows : SUBSET Rows(Nat)]
           /\ \A step \in ImportSteps : [NoImport EXCEPT !.step = step].rows = {}
<1>1. import \in [step : ImportSteps, row : Nat, rows : SUBSET Rows(Nat)]
  BY DEF TypeOK
<1>2. import.row + 1 \in Nat
  BY <1>1
<1>3. Advance \in [step : ImportSteps, row : Nat, rows : SUBSET Rows(Nat)]
      /\ Advance.rows = import.rows
  BY <1>1, <1>2 DEF Advance, ImportSteps
<1> QED BY <1>3 DEF NoImport

\* The import starts, ends or goes on with the rows it has.
LEMMA ImportEnds ==
    ASSUME Inv, KillImport \/ StartImport \/ ImportEvidence
    PROVE  Inv'
<1>1. UNCHANGED <<applicants, files, post>> /\ imports' \in Nat
  BY DEF KillImport, StartImport, ImportEvidence, Inv, TypeOK
<1>2. /\ import' \in [step : ImportSteps, row : Nat, rows : SUBSET Rows(Nat)]
      /\ \A a \in import'.rows : a \in import.rows
  <2>1. CASE KillImport
    BY <2>1, AdvanceType DEF KillImport, Inv, ImportSteps
  <2>2. CASE StartImport
    BY <2>2 DEF StartImport, ImportSteps
  <2>3. CASE ImportEvidence
    BY <2>3, AdvanceType DEF ImportEvidence, Inv, ImportSteps
  <2> QED BY <2>1, <2>2, <2>3
<1> QED BY <1>1, <1>2, ImportMoves DEF ImportRows

\* A row of the cohort is skipped, found again or about to be inserted.
LEMMA ImportRowKeeps == ASSUME Inv, ImportRow PROVE Inv'
<1> DEFINE known == ByWho(ImportRows, import.row)
           updated == [import EXCEPT !.rows = (@ \ known) \cup known,
                          !.step = IF \E a \in known : a.resume # NoResume THEN "evidence"
                                   ELSE "resume"]
<1>1. UNCHANGED <<applicants, files, post, imports>> /\ imports' \in Nat
  BY DEF ImportRow, Inv, TypeOK
<1>2. import \in [step : ImportSteps, row : Nat, rows : SUBSET Rows(Nat)]
  BY DEF Inv, TypeOK
<1>3. known \subseteq ImportRows /\ known \subseteq Rows(Nat)
  <2>1. \A a \in ImportRows : a \in Rows(Applications \cup Nat)
    BY <1>2 DEF Inv, TypeOK, ImportRows, Rows
  <2>2. \A a \in known : a \in ImportRows /\ a.who = import.row
    BY DEF ByWho
  <2> QED BY <1>2, <2>1, <2>2 DEF Rows
<1>4. updated.rows = (import.rows \ known) \cup known
      /\ updated \in [step : ImportSteps, row : Nat, rows : SUBSET Rows(Nat)]
  <2> HIDE DEF known
  <2> QED BY <1>2, <1>3 DEF ImportSteps
<1>5. \/ import' = Advance
      \/ import' = [NoImport EXCEPT !.step = "stopped"]
      \/ import' = [import EXCEPT !.step = "insert"]
      \/ import' = updated
  BY DEF ImportRow
<1>6. /\ import' \in [step : ImportSteps, row : Nat, rows : SUBSET Rows(Nat)]
      /\ \A a \in import'.rows : a \in ImportRows
  <2>1. CASE import' = Advance \/ import' = [NoImport EXCEPT !.step = "stopped"]
    BY <2>1, AdvanceType DEF Inv, ImportSteps, ImportRows
  <2>2. CASE import' = [import EXCEPT !.step = "insert"]
    BY <1>2, <2>2 DEF ImportSteps, ImportRows
  <2>3. CASE import' = updated
    <3> HIDE DEF updated, known
    <3> QED BY <1>3, <1>4, <2>3 DEF ImportRows
  <2> QED BY <1>5, <2>1, <2>2, <2>3
<1> QED BY <1>1, <1>6, ImportMoves

\* A new applicant of the cohort has no resume yet.
LEMMA InsertRowKeeps == ASSUME Inv, InsertRow PROVE Inv'
<1> DEFINE new == Row(import.row, Cohort[import.row], NoResume)
           inserted == [import EXCEPT !.step = "resume", !.rows = @ \cup {new}]
<1>1. UNCHANGED <<applicants, files, post, imports>> /\ imports' \in Nat
  BY DEF InsertRow, Inv, TypeOK
<1>2. import \in [step : ImportSteps, row : Nat, rows : SUBSET Rows(Nat)]
  BY DEF Inv, TypeOK
<1>3. new \in Rows(Nat) /\ new.resume = NoResume
  BY <1>2 DEF Row, Rows, Resumes, Mails
<1>4. inserted.rows = import.rows \cup {new}
      /\ inserted \in [step : ImportSteps, row : Nat, rows : SUBSET Rows(Nat)]
  <2> HIDE DEF new
  <2> QED BY <1>2, <1>3 DEF ImportSteps
<1>5. import' = [NoImport EXCEPT !.step = "stopped"] \/ import' = inserted
  BY DEF InsertRow
<1>6. /\ import' \in [step : ImportSteps, row : Nat, rows : SUBSET Rows(Nat)]
      /\ \A a \in import'.rows : a \in ImportRows \/ a.resume = NoResume
  <2>1. CASE import' = [NoImport EXCEPT !.step = "stopped"]
    BY <2>1, AdvanceType DEF Inv, ImportSteps
  <2>2. CASE import' = inserted
    <3> HIDE DEF inserted, new
    <3> QED BY <1>3, <1>4, <2>2 DEF ImportRows
  <2> QED BY <1>5, <2>1, <2>2
<1> QED BY <1>1, <1>6, ImportMoves

\* The rendered resume is stored before the row names it.
LEMMA ImportResumeKeeps == ASSUME Inv, ImportResume PROVE Inv'
<1> DEFINE key == ImportKey(import.row)
           Named(a) == IF a.who = import.row THEN [a EXCEPT !.resume = key] ELSE a
           stored == [import EXCEPT !.step = "evidence", !.rows = {Named(a) : a \in @}]
<1>1. UNCHANGED <<applicants, post, imports>>
  BY DEF ImportResume
<1>2. import \in [step : ImportSteps, row : Nat, rows : SUBSET Rows(Nat)] /\ imports \in Nat
  BY DEF Inv, TypeOK
<1>3. CASE import' = [import EXCEPT !.step = "evidence"] /\ files' = files
  <2>1. /\ import' \in [step : ImportSteps, row : Nat, rows : SUBSET Rows(Nat)]
        /\ import'.rows = import.rows
    BY <1>2, <1>3 DEF ImportSteps
  <2> QED BY <1>1, <1>2, <1>3, <2>1, ImportMoves DEF ImportRows
<1>4. CASE import' = stored /\ files' = files \cup {Final(key)}
  <2>1. Imported(key) /\ key \in Resumes /\ key # NoResume
    <3>1. key = <<"import", imports, import.row>>
      BY DEF ImportKey
    <3>2. Imported(key)
      BY <1>2, <3>1 DEF Imported
    <3>3. key \in Resumes
      <4>1. <<imports, import.row>> \in Nat \X Nat
        BY <1>2
      <4>2. key = <<"import", <<imports, import.row>>[1], <<imports, import.row>>[2]>>
        BY <3>1
      <4> QED BY <4>1, <4>2 DEF Resumes
    <3> QED BY <3>2, <3>3, KeyFacts
  <2> HIDE DEF key
  <2>2. ASSUME NEW a \in import.rows
        PROVE  /\ Named(a) \in Rows(Nat)
               /\ Named(a) = a \/ Named(a).resume = key
    <3>1. a \in Rows(Nat)
      BY <1>2
    <3> QED BY <2>1, <3>1 DEF Rows
  <2> HIDE DEF Named
  <2>3. /\ import' \in [step : ImportSteps, row : Nat, rows : SUBSET Rows(Nat)]
        /\ import'.rows = {Named(a) : a \in import.rows}
    BY <1>2, <1>4, <2>2 DEF ImportSteps
  <2>4. \A a \in ImportRows' : a \in ImportRows \/ a.resume = key
    BY <1>1, <2>2, <2>3 DEF ImportRows
  <2>5. Final(key) \in [key : Resumes, tmp : BOOLEAN]
    BY <2>1 DEF Final
  <2>6. TypeOK'
    BY <1>1, <1>4, <2>3, <2>5 DEF Inv, TypeOK
  <2>7. Owned'
    BY <1>1, <2>1, <2>4 DEF Inv, Owned
  <2>8. Stored'
    BY <1>4, <2>4 DEF Inv, Stored
  <2>9. Told' /\ Saved'
    BY <1>1, <1>4 DEF Inv, Told, Saved
  <2>10. Filed'
    <3>1. Imported(Final(key).key)
      BY <2>1 DEF Final
    <3> QED BY <1>1, <1>4, <3>1 DEF Inv, Filed
  <2> QED BY <2>6, <2>7, <2>8, <2>9, <2>10 DEF Inv
<1> QED BY <1>3, <1>4 DEF ImportResume

\* All rows of the import become visible, in the place of those it updated.
LEMMA CommitImportKeeps ==
    ASSUME Inv, Applications \cap Nat = {}, CommitImport
    PROVE  Inv'
<1>1. /\ UNCHANGED <<files, post, imports>> /\ import' = [NoImport EXCEPT !.step = "done"]
      /\ applicants' = {a \in applicants : ByWho(import.rows, a.who) = {}} \cup import.rows
  BY DEF CommitImport
<1>2. import \in [step : ImportSteps, row : Nat, rows : SUBSET Rows(Nat)]
  BY DEF Inv, TypeOK
<1>3. import' \in [step : ImportSteps, row : Nat, rows : SUBSET Rows(Nat)] /\ import'.rows = {}
  BY <1>1, AdvanceType DEF Inv, ImportSteps
<1>4. \A a \in ImportRows' : a \in ImportRows
  BY <1>1, <1>3 DEF ImportRows
<1>5. TypeOK'
  <2>1. applicants' \subseteq Rows(Applications \cup Nat)
    BY <1>1, <1>2 DEF Inv, TypeOK, Rows
  <2> QED BY <1>1, <1>3, <2>1 DEF Inv, TypeOK
<1>6. Owned' /\ Stored' /\ Filed' /\ Saved'
  BY <1>1, <1>4 DEF Inv, Owned, Stored, Filed, Saved
<1>7. Told'
  <2> SUFFICES ASSUME NEW q \in Applications, post[q].step = "created"
               PROVE  \E a \in applicants' : a.who = q /\ a.resume = Key(q)
    BY <1>1 DEF Told
  <2>1. PICK a \in applicants : a.who = q /\ a.resume = Key(q)
    BY DEF Inv, Told
  <2>2. ByWho(import.rows, a.who) = {}
    <3>1. \A b \in import.rows : b.who \in Nat
      BY <1>2 DEF Rows
    <3> QED BY <2>1, <3>1 DEF ByWho
  <2> QED BY <1>1, <2>1, <2>2
<1> QED BY <1>5, <1>6, <1>7 DEF Inv

-----------------------------------------------------------------------------
\* The invariant, for requests that are not numbered like rows of the cohort.
LEMMA InvHolds == ASSUME Applications \cap Nat = {} PROVE Spec => []Inv
<1>1. Init => Inv
  <2> SUFFICES ASSUME Init PROVE Inv
    OBVIOUS
  <2>1. TypeOK
    BY DEF Init, TypeOK, NoImport, Steps, ImportSteps, Mails
  <2>2. ImportRows = {}
    BY DEF Init, ImportRows, NoImport
  <2> QED BY <2>1, <2>2 DEF Init, Inv, Owned, Stored, Told, Filed, Saved
<1>2. Inv /\ [Next]_vars => Inv'
  <2> SUFFICES ASSUME Inv, [Next]_vars PROVE Inv'
    OBVIOUS
  <2>1. ASSUME NEW q \in Applications,
               Read(q) \/ Check(q) \/ SaveTemporary(q) \/ SaveFinal(q) \/ Commit(q) \/ Undo(q)
        PROVE  Inv'
    BY <2>1, ReadKeeps, CheckKeeps, SaveTemporaryKeeps, SaveFinalKeeps, CommitKeeps, UndoKeeps
  <2>2. CASE Import
    BY <2>2, ImportEnds, ImportRowKeeps, InsertRowKeeps, ImportResumeKeeps, CommitImportKeeps
       DEF Import
  <2>3. CASE KillApi \/ KillImport
    BY <2>3, KillApiKeeps, ImportEnds
  <2>4. CASE UNCHANGED vars
    BY <2>4 DEF vars, Inv, TypeOK, Owned, Stored, Told, Filed, Saved, ImportRows
  <2> QED BY <2>1, <2>2, <2>3, <2>4 DEF Next
<1> QED BY <1>1, <1>2, PTL DEF Spec

\* Every resume a row names can be opened, and an applicant who was told "201"
\* has a row and a resume (ResumesReadable), for any number of requests, imports
\* and kills.
THEOREM ResumesAreReadable == ASSUME Applications \cap Nat = {} PROVE Spec => []ResumesReadable
<1>1. Inv => ResumesReadable
  BY DEF Inv, Stored, Told, ResumesReadable, ImportRows
<1> QED BY <1>1, InvHolds, PTL

\* A refused application leaves no file behind (NothingLeftBehind), for any
\* number of requests, imports and kills.
THEOREM NothingStays == ASSUME Applications \cap Nat = {} PROVE Spec => []NothingLeftBehind
<1>1. Inv => NothingLeftBehind
  <2> SUFFICES ASSUME Inv, NEW f \in files
               PROVE  \/ \E a \in applicants \cup import.rows : a.resume = f.key
                      \/ f.key[1] = "post" /\ (InFlight(f.key[2]) \/ post[f.key[2]].step = "lost")
                      \/ f.key[1] = "import"
    BY DEF NothingLeftBehind
  <2>1. CASE Imported(f.key)
    BY <2>1, KeyFacts
  <2>2. CASE ~ Imported(f.key)
    <3>1. PICK q \in Applications :
             f.key = Key(q) /\ post[q].step \in {"lost", "rename", "commit", "undo", "created"}
      BY <2>2 DEF Inv, Filed
    <3>2. CASE post[q].step = "created"
      BY <3>1, <3>2 DEF Inv, Told
    <3>3. CASE post[q].step # "created"
      BY <3>1, <3>3, KeyFacts DEF InFlight
    <3> QED BY <3>2, <3>3
  <2> QED BY <2>1, <2>2
<1> QED BY <1>1, InvHolds, PTL

-----------------------------------------------------------------------------
(* The intake is a directory of applicants *)

\* A request has an email once its form is accepted; one that is taking its
\* upload back does so because the email is taken.
Mailed == \A q \in Applications :
    /\ post[q].step = "read" => post[q].email = None
    /\ InFlight(q) => post[q].email \in Emails
    /\ post[q].step = "undo" => Taken(post[q].email)

\* A numbered applicant is the one of that row of the cohort.
Numbered == \A a \in ImportRows :
    a.who \in Nat => a.who \in DOMAIN Cohort /\ a.email = Cohort[a.who]

\* An email is one applicant's, counting those the import has not committed.
OneEach == \A a, b \in ImportRows : a.email = b.email => a.who = b.who

\* The import is at a row of the cohort; what it is about to insert is new to
\* itself.
AtRow == /\ import.step \in {"row", "insert", "resume", "evidence"} => import.row \in DOMAIN Cohort
         /\ import.step = "insert" => \A a \in import.rows : a.email # Cohort[import.row]

DirectoryInv == Inv /\ Mailed /\ Numbered /\ OneEach /\ AtRow

\* Rows that are changed elsewhere than in their maker and email.
Same(a, b) == a.who = b.who /\ a.email = b.email

LEMMA SameRows ==
    ASSUME Numbered, OneEach, \A a \in ImportRows' : \E b \in ImportRows : Same(a, b)
    PROVE  Numbered' /\ OneEach'
BY DEF Numbered, OneEach, Same

\* A request moves to a step that asks nothing more of its email.
LEMMA MailedMoves ==
    ASSUME Inv, Mailed, applicants' = applicants, NEW q \in Applications, NEW step \in Steps,
           Step(q, step), step # "read", InFlight(q), step = "undo" => Taken(post[q].email)
    PROVE  Mailed'
<1>1. \A p \in Applications : /\ post'[p].step = IF p = q THEN step ELSE post[p].step
                              /\ post'[p].email = post[p].email
  BY DEF Inv, TypeOK, Step
<1> QED BY <1>1 DEF Mailed, InFlight, Taken

\* Requests keep what is known of emails and rows.
LEMMA PostDirectory ==
    ASSUME DirectoryInv, Applications \cap Nat = {}, NEW q \in Applications,
           Read(q) \/ Check(q) \/ SaveTemporary(q) \/ SaveFinal(q) \/ Commit(q) \/ Undo(q)
    PROVE  Mailed' /\ Numbered' /\ OneEach' /\ AtRow'
<1>1. import' = import /\ AtRow'
  BY DEF Read, Check, SaveTemporary, SaveFinal, Commit, Undo, DirectoryInv, AtRow
<1>2. ASSUME applicants' = applicants PROVE Numbered' /\ OneEach'
  BY <1>1, <1>2 DEF DirectoryInv, Numbered, OneEach, ImportRows
<1>3. CASE Read(q)
  <2>1. applicants' = applicants /\ post[q].step = "read"
    BY <1>3 DEF Read
  <2>2. CASE Step(q, "invalid")
    <3>1. \A p \in Applications :
             /\ post'[p].step = IF p = q THEN "invalid" ELSE post[p].step
             /\ post'[p].email = post[p].email
      BY <2>2 DEF DirectoryInv, Inv, TypeOK, Step
    <3> QED BY <1>1, <1>2, <2>1, <3>1 DEF DirectoryInv, Mailed, InFlight, Taken
  <2>3. ASSUME NEW e \in Emails, post' = [post EXCEPT ![q] = [step |-> "check", email |-> e]]
        PROVE  Mailed'
    <3>1. \A p \in Applications :
             /\ post'[p].step = IF p = q THEN "check" ELSE post[p].step
             /\ post'[p].email = IF p = q THEN e ELSE post[p].email
      BY <2>3 DEF DirectoryInv, Inv, TypeOK
    <3> QED BY <2>1, <3>1 DEF DirectoryInv, Mailed, InFlight, Taken
  <2> QED BY <1>1, <1>2, <1>3, <2>1, <2>2, <2>3 DEF Read
<1>4. CASE Check(q) \/ SaveTemporary(q) \/ SaveFinal(q) \/ Undo(q)
  <2>1. applicants' = applicants /\ InFlight(q)
    BY <1>4 DEF Check, SaveTemporary, SaveFinal, Undo, InFlight
  <2>2. PICK step \in {"duplicate", "save", "rename", "commit"} : Step(q, step)
    BY <1>4 DEF Check, SaveTemporary, SaveFinal, Undo
  <2>3. Mailed'
    BY <2>1, <2>2, MailedMoves DEF DirectoryInv, Steps
  <2> QED BY <1>1, <1>2, <2>1, <2>3
<1>5. CASE Commit(q)
  <2>1. post[q].step = "commit" /\ ~ Waits(q)
    BY <1>5 DEF Commit
  <2>2. CASE Taken(post[q].email)
    <3>1. applicants' = applicants /\ Step(q, "undo")
      BY <1>5, <2>2 DEF Commit
    <3>2. Mailed'
      BY <2>1, <2>2, <3>1, MailedMoves DEF DirectoryInv, Steps, InFlight
    <3> QED BY <1>1, <1>2, <3>1, <3>2
  <2>3. CASE ~ Taken(post[q].email)
    <3> DEFINE new == Row(q, post[q].email, Key(q))
    <3>1. applicants' = applicants \cup {new} /\ Step(q, "created")
      BY <1>5, <2>3 DEF Commit
    <3>2. new.who = q /\ new.email = post[q].email
      BY DEF Row
    <3> HIDE DEF new
    <3>3. \A p \in Applications : /\ post'[p].step = IF p = q THEN "created" ELSE post[p].step
                                  /\ post'[p].email = post[p].email
      BY <3>1 DEF DirectoryInv, Inv, TypeOK, Step
    <3>4. Mailed'
      BY <3>1, <3>3 DEF DirectoryInv, Mailed, InFlight, Taken
    <3>5. \A a \in ImportRows' : a \in ImportRows \/ a = new
      BY <1>1, <3>1 DEF ImportRows
    <3>6. \A a \in ImportRows : a.email # new.email
      BY <2>1, <2>3, <3>2 DEF Taken, Waits, ImportRows
    <3>7. OneEach'
      BY <3>5, <3>6 DEF DirectoryInv, OneEach
    <3>8. Numbered'
      BY <3>2, <3>5 DEF DirectoryInv, Numbered
    <3> QED BY <1>1, <3>4, <3>7, <3>8
  <2> QED BY <2>2, <2>3
<1> QED BY <1>3, <1>4, <1>5

\* Nothing is known of a request once it is killed.
LEMMA KillApiDirectory ==
    ASSUME DirectoryInv, KillApi
    PROVE  Mailed' /\ Numbered' /\ OneEach' /\ AtRow'
<1>1. UNCHANGED <<applicants, import>>
  BY DEF KillApi
<1>2. \A q \in Applications : /\ post'[q].step = IF InFlight(q) THEN "lost" ELSE post[q].step
                              /\ post'[q].email = post[q].email
  BY DEF KillApi, DirectoryInv, Inv, TypeOK
<1>3. Mailed'
  BY <1>1, <1>2 DEF DirectoryInv, Mailed, InFlight, Taken
<1> QED BY <1>1, <1>3 DEF DirectoryInv, Numbered, OneEach, AtRow, ImportRows

\* The cohort's rows are counted from one, and the import stops after the last.
LEMMA AdvanceRow ==
    ASSUME Cohort \in Seq(Mails), TypeOK, AtRow, import.step \in {"row", "evidence"}, import' = Advance
    PROVE  AtRow' /\ import'.rows = import.rows
<1>1. import \in [step : ImportSteps, row : Nat, rows : SUBSET Rows(Nat)]
  BY DEF TypeOK
<1>2. import.row \in 1 .. Len(Cohort) /\ DOMAIN Cohort = 1 .. Len(Cohort) /\ Len(Cohort) \in Nat
  BY DEF AtRow
<1>3. CASE import.row = Len(Cohort)
  <2>1. import' = [import EXCEPT !.step = "commit"]
    BY <1>3 DEF Advance
  <2>2. import'.step = "commit" /\ import'.rows = import.rows
    BY <1>1, <2>1
  <2> QED BY <2>2 DEF AtRow
<1>4. CASE import.row # Len(Cohort)
  <2>1. import' = [import EXCEPT !.step = "row", !.row = @ + 1]
    BY <1>4 DEF Advance
  <2>2. import'.step = "row" /\ import'.row = import.row + 1 /\ import'.rows = import.rows
    BY <1>1, <2>1
  <2>3. import.row + 1 \in DOMAIN Cohort
    BY <1>2, <1>4
  <2> QED BY <2>2, <2>3 DEF AtRow
<1> QED BY <1>3, <1>4

\* An import that ends forgets what it has not committed.
LEMMA ImportStops ==
    ASSUME NEW step \in Resting, import' = [NoImport EXCEPT !.step = step]
    PROVE  AtRow' /\ import'.rows = {}
<1>1. import'.step = step /\ import'.rows = {}
  BY DEF NoImport
<1> QED BY <1>1 DEF AtRow, Resting

\* The import keeps what is known of emails and rows as long as it commits
\* nothing, and the rows it works on are those it had or found.
LEMMA UncommittedDirectory ==
    ASSUME DirectoryInv, UNCHANGED <<applicants, post>>, AtRow',
           \A a \in import'.rows : \E b \in ImportRows : Same(a, b)
    PROVE  Mailed' /\ Numbered' /\ OneEach' /\ AtRow'
<1>1. \A a \in ImportRows' : \E b \in ImportRows : Same(a, b)
  BY DEF ImportRows, Same
<1>2. Mailed'
  BY DEF DirectoryInv, Mailed, InFlight, Taken
<1> QED BY <1>1, <1>2, SameRows DEF DirectoryInv

\* Going from row to row, and being cut short.
LEMMA ImportGoesOn ==
    ASSUME DirectoryInv, Cohort \in Seq(Mails),
           StartImport \/ ImportRow \/ ImportEvidence \/ KillImport
    PROVE  Mailed' /\ Numbered' /\ OneEach' /\ AtRow'
<1>1. UNCHANGED <<applicants, post>>
  BY DEF StartImport, ImportRow, ImportEvidence, KillImport
<1>2. import \in [step : ImportSteps, row : Nat, rows : SUBSET Rows(Nat)]
  BY DEF DirectoryInv, Inv, TypeOK
<1>3. /\ AtRow'
      /\ \A a \in import'.rows : a \in ImportRows
  <2>1. CASE import' = [NoImport EXCEPT !.step = "stopped"]
    BY <2>1, ImportStops DEF Resting
  <2>2. CASE StartImport
    <3>1. /\ import'.step = IF Cohort = <<>> THEN "commit" ELSE "row"
          /\ import'.row = 1 /\ import'.rows = {}
      BY <2>2 DEF StartImport
    <3>2. Cohort # <<>> => 1 \in DOMAIN Cohort
      OBVIOUS
    <3> QED BY <3>1, <3>2 DEF AtRow
  <2>3. CASE import.step \in {"row", "evidence"} /\ import' = Advance
    BY <2>3, AdvanceRow DEF DirectoryInv, Inv, ImportRows
  <2>4. CASE /\ import.step = "row" /\ import' = [import EXCEPT !.step = "insert"]
             /\ ~ \E a \in ImportRows : a.email = Cohort[import.row]
    <3>1. import'.step = "insert" /\ import'.row = import.row /\ import'.rows = import.rows
      BY <1>2, <2>4
    <3> QED BY <2>4, <3>1 DEF DirectoryInv, AtRow, ImportRows
  <2>5. ASSUME NEW known, known \subseteq ImportRows, import.step = "row",
               NEW step \in {"evidence", "resume"},
               import' = [import EXCEPT !.rows = (@ \ known) \cup known, !.step = step]
        PROVE  AtRow' /\ \A a \in import'.rows : a \in ImportRows
    <3>1. /\ import'.step = step /\ import'.row = import.row
          /\ import'.rows = (import.rows \ known) \cup known
      BY <1>2, <2>5
    <3> QED BY <2>5, <3>1 DEF DirectoryInv, AtRow, ImportRows
  <2>6. CASE ImportRow
    <3> DEFINE known == ByWho(ImportRows, import.row)
    <3>1. known \subseteq ImportRows
      BY DEF ByWho
    <3>2. import.step = "row"
      BY <2>6 DEF ImportRow
    <3>3. CASE import' = [import EXCEPT !.rows = (@ \ known) \cup known,
                             !.step = IF \E a \in known : a.resume # NoResume THEN "evidence"
                                      ELSE "resume"]
      <4> HIDE DEF known
      <4> QED BY <2>5, <3>1, <3>2, <3>3
    <3> QED BY <2>1, <2>3, <2>4, <2>6, <3>2, <3>3 DEF ImportRow
  <2>7. CASE ImportEvidence \/ KillImport
    BY <2>1, <2>3, <2>7 DEF ImportEvidence, KillImport
  <2> QED BY <2>2, <2>6, <2>7
<1> QED BY <1>1, <1>3, UncommittedDirectory DEF Same

\* A new applicant has an email nobody has, among the applicants or among the
\* rows of the import.
LEMMA InsertRowDirectory ==
    ASSUME DirectoryInv, InsertRow
    PROVE  Mailed' /\ Numbered' /\ OneEach' /\ AtRow'
<1> DEFINE new == Row(import.row, Cohort[import.row], NoResume)
<1>1. UNCHANGED <<applicants, post>> /\ import.step = "insert"
  BY DEF InsertRow
<1>2. import \in [step : ImportSteps, row : Nat, rows : SUBSET Rows(Nat)]
  BY DEF DirectoryInv, Inv, TypeOK
<1>3. new.who = import.row /\ new.email = Cohort[import.row]
  BY DEF Row
<1>4. CASE Taken(Cohort[import.row])
  <2>1. import' = [NoImport EXCEPT !.step = "stopped"]
    BY <1>4 DEF InsertRow
  <2> QED BY <1>1, <2>1, ImportStops, UncommittedDirectory DEF Resting
<1>5. CASE ~ Taken(Cohort[import.row])
  <2>1. import' = [import EXCEPT !.step = "resume", !.rows = @ \cup {new}]
    BY <1>5 DEF InsertRow
  <2> HIDE DEF new
  <2>2. /\ import'.step = "resume" /\ import'.row = import.row
        /\ import'.rows = import.rows \cup {new}
    BY <1>2, <2>1
  <2>3. AtRow'
    BY <1>1, <2>2 DEF DirectoryInv, AtRow
  <2>4. Mailed'
    BY <1>1 DEF DirectoryInv, Mailed, InFlight, Taken
  <2>5. \A a \in ImportRows' : a \in ImportRows \/ a = new
    BY <1>1, <2>2 DEF ImportRows
  <2>6. \A a \in ImportRows : a.email # new.email
    BY <1>1, <1>3, <1>5 DEF DirectoryInv, AtRow, Taken, ImportRows
  <2>7. OneEach'
    BY <2>5, <2>6 DEF DirectoryInv, OneEach
  <2>8. import.row \in DOMAIN Cohort
    BY <1>1 DEF DirectoryInv, AtRow
  <2>9. Numbered'
    BY <1>3, <2>5, <2>8 DEF DirectoryInv, Numbered
  <2> QED BY <2>3, <2>4, <2>7, <2>9
<1> QED BY <1>4, <1>5

\* A stored resume changes neither makers nor emails.
LEMMA ImportResumeDirectory ==
    ASSUME DirectoryInv, ImportResume
    PROVE  Mailed' /\ Numbered' /\ OneEach' /\ AtRow'
<1> DEFINE Named(a) == IF a.who = import.row THEN [a EXCEPT !.resume = ImportKey(import.row)] ELSE a
<1>1. UNCHANGED <<applicants, post>> /\ import.step = "resume"
  BY DEF ImportResume
<1>2. import \in [step : ImportSteps, row : Nat, rows : SUBSET Rows(Nat)]
  BY DEF DirectoryInv, Inv, TypeOK
<1>3. ASSUME NEW a \in import.rows PROVE Same(Named(a), a)
  <2>1. a \in Rows(Nat)
    BY <1>2
  <2> QED BY <2>1 DEF Rows, Same
<1> HIDE DEF Named
<1>4. \/ import' = [import EXCEPT !.step = "evidence", !.rows = {Named(a) : a \in @}]
      \/ import' = [import EXCEPT !.step = "evidence"]
  BY DEF ImportResume, Named
<1>5. /\ import'.step = "evidence" /\ import'.row = import.row
      /\ \A a \in import'.rows : \E b \in import.rows : a = b \/ a = Named(b)
  <2>1. CASE import' = [import EXCEPT !.step = "evidence"]
    BY <1>2, <2>1
  <2>2. CASE import' = [import EXCEPT !.step = "evidence", !.rows = {Named(a) : a \in @}]
    <3>1. /\ import'.step = "evidence" /\ import'.row = import.row
          /\ import'.rows = {Named(a) : a \in import.rows}
      BY <1>2, <2>2
    <3> QED BY <3>1
  <2> QED BY <1>4, <2>1, <2>2
<1>6. AtRow'
  BY <1>1, <1>5 DEF DirectoryInv, AtRow
<1>7. \A a \in import'.rows : \E b \in ImportRows : Same(a, b)
  BY <1>3, <1>5 DEF ImportRows, Same
<1> QED BY <1>1, <1>6, <1>7, UncommittedDirectory

\* A commit replaces rows by rows of the same makers, so no email becomes free.
LEMMA CommitImportDirectory ==
    ASSUME DirectoryInv, CommitImport
    PROVE  /\ Mailed' /\ Numbered' /\ OneEach' /\ AtRow'
           /\ \A email : Taken(email) => Taken(email)'
<1>1. /\ post' = post /\ import' = [NoImport EXCEPT !.step = "done"]
      /\ applicants' = {a \in applicants : ByWho(import.rows, a.who) = {}} \cup import.rows
  BY DEF CommitImport
<1>2. AtRow' /\ import'.rows = {}
  BY <1>1, ImportStops DEF Resting
<1>3. \A a \in ImportRows' : a \in ImportRows
  BY <1>1, <1>2 DEF ImportRows
<1>4. Numbered' /\ OneEach'
  BY <1>3, SameRows DEF DirectoryInv, Same
<1>5. ASSUME NEW a \in applicants PROVE \E b \in applicants' : Same(a, b)
  <2>1. CASE ByWho(import.rows, a.who) = {}
    BY <1>1, <2>1 DEF Same
  <2>2. CASE ByWho(import.rows, a.who) # {}
    <3>1. PICK b \in import.rows : b.who = a.who
      BY <2>2 DEF ByWho
    <3>2. b.who \in Nat
      BY DEF DirectoryInv, Inv, TypeOK, Rows
    <3>3. Same(a, b)
      BY <3>1, <3>2 DEF DirectoryInv, Numbered, ImportRows, Same
    <3> QED BY <1>1, <3>3
  <2> QED BY <2>1, <2>2
<1>6. \A email : Taken(email) => Taken(email)'
  BY <1>5 DEF Taken, Same
<1>7. Mailed'
  BY <1>1, <1>6 DEF DirectoryInv, Mailed, InFlight
<1> QED BY <1>2, <1>4, <1>6, <1>7

\* The strengthened invariant, for any list of emails as the cohort.
LEMMA DirectoryInvHolds ==
    ASSUME Applications \cap Nat = {}, Cohort \in Seq(Mails)
    PROVE  Spec => []DirectoryInv
<1>1. Init => Mailed /\ Numbered /\ OneEach /\ AtRow
  <2> SUFFICES ASSUME Init PROVE Mailed /\ Numbered /\ OneEach /\ AtRow
    OBVIOUS
  <2>1. ImportRows = {} /\ import.step = "idle"
    BY DEF Init, ImportRows, NoImport
  <2>2. \A q \in Applications : post[q].step = "read" /\ post[q].email = None
    BY DEF Init
  <2> QED BY <2>1, <2>2 DEF Mailed, Numbered, OneEach, AtRow, InFlight
<1>2. Inv' /\ DirectoryInv /\ [Next]_vars => DirectoryInv'
  <2> SUFFICES ASSUME Inv', DirectoryInv, [Next]_vars
               PROVE  Mailed' /\ Numbered' /\ OneEach' /\ AtRow'
    BY DEF DirectoryInv
  <2>1. ASSUME NEW q \in Applications,
               Read(q) \/ Check(q) \/ SaveTemporary(q) \/ SaveFinal(q) \/ Commit(q) \/ Undo(q)
        PROVE  Mailed' /\ Numbered' /\ OneEach' /\ AtRow'
    BY <2>1, PostDirectory
  <2>2. CASE Import
    BY <2>2, ImportGoesOn, InsertRowDirectory, ImportResumeDirectory, CommitImportDirectory
       DEF Import
  <2>3. CASE KillApi \/ KillImport
    BY <2>3, KillApiDirectory, ImportGoesOn
  <2>4. CASE UNCHANGED vars
    BY <2>4 DEF vars, DirectoryInv, Mailed, Numbered, OneEach, AtRow, ImportRows, InFlight, Taken
  <2> QED BY <2>1, <2>2, <2>3, <2>4 DEF Next
<1> QED BY <1>1, <1>2, InvHolds, PTL DEF Spec, DirectoryInv

\* The directory's tests, read off the rows.
LEMMA DirectoryReads ==
    /\ \A email : Directory!Used(email) <=> Taken(email)
    /\ \A who : Directory!Entered(who) <=> \E a \in applicants : a.who = who
    /\ \A q \in Applications :
           Directory!Pending(q) <=> Answered(q) = None /\ post[q].email \in Emails
<1>1. \A email : Directory!Used(email) <=> Taken(email)
  <2>1. ASSUME NEW email, Taken(email) PROVE Directory!Used(email)
    <3>1. PICK a \in applicants : a.email = email
      BY <2>1 DEF Taken
    <3>2. [who |-> a.who, email |-> a.email].email = email
      BY <3>1
    <3> QED BY <3>2 DEF Directory!Used
  <2>2. ASSUME NEW email, Directory!Used(email) PROVE Taken(email)
    BY <2>2 DEF Directory!Used, Taken
  <2> QED BY <2>1, <2>2
<1>2. \A who : Directory!Entered(who) <=> \E a \in applicants : a.who = who
  <2>1. ASSUME NEW a \in applicants PROVE Directory!Entered(a.who)
    <3>1. [who |-> a.who, email |-> a.email].who = a.who
      OBVIOUS
    <3> QED BY <3>1 DEF Directory!Entered
  <2>2. ASSUME NEW who, Directory!Entered(who) PROVE \E a \in applicants : a.who = who
    BY <2>2 DEF Directory!Entered
  <2> QED BY <2>1, <2>2
<1>3. \A q \in Applications :
         Directory!Pending(q) <=> Answered(q) = None /\ post[q].email \in Emails
  BY DEF Directory!Pending, Directory!None, None
<1> QED BY <1>1, <1>2, <1>3

\* What a request has been told when it goes from one step to another.
LEMMA AnswerMoves ==
    ASSUME TypeOK, NEW q \in Applications, NEW step \in Steps, Step(q, step)
    PROVE  /\ [p \in Applications |-> post'[p].email] = [p \in Applications |-> post[p].email]
           /\ \A p \in Applications : p # q => Answered(p)' = Answered(p)
           /\ Answered(q)' = IF step \in {"invalid", "created", "duplicate", "lost"} THEN step ELSE None
<1>1. \A p \in Applications : /\ post'[p].step = IF p = q THEN step ELSE post[p].step
                              /\ post'[p].email = post[p].email
  BY DEF TypeOK, Step
<1> QED BY <1>1 DEF Answered

\* Reading a form is asking, or being refused at once.
LEMMA ReadIsAsking ==
    ASSUME DirectoryInv, NEW q \in Applications, Read(q)
    PROVE  Directory!Ask(q) \/ Directory!Invalid(q)
<1>1. /\ applicants' = applicants /\ post[q].step = "read" /\ post[q].email = None
      /\ Answered(q) = None
  BY DEF Read, DirectoryInv, Mailed, Answered
<1>2. ASSUME NEW e \in Emails, post' = [post EXCEPT ![q] = [step |-> "check", email |-> e]]
      PROVE  Directory!Ask(q)
  <2>1. \A p \in Applications :
           /\ post'[p].step = IF p = q THEN "check" ELSE post[p].step
           /\ post'[p].email = IF p = q THEN e ELSE post[p].email
    BY <1>2 DEF DirectoryInv, Inv, TypeOK
  <2>2. \A p \in Applications : Answered(p)' = Answered(p)
    BY <1>1, <2>1 DEF Answered, None
  <2>3. [p \in Applications |-> post'[p].email]
           = [[p \in Applications |-> post[p].email] EXCEPT ![q] = e]
    BY <2>1
  <2> QED BY <1>1, <2>2, <2>3 DEF Directory!Ask, Directory!None, None
<1>3. ASSUME Step(q, "invalid") PROVE Directory!Invalid(q)
  <2>1. /\ [p \in Applications |-> post'[p].email] = [p \in Applications |-> post[p].email]
        /\ \A p \in Applications : p # q => Answered(p)' = Answered(p)
        /\ Answered(q)' = "invalid"
    BY <1>3, AnswerMoves DEF DirectoryInv, Inv, Steps
  <2>2. [p \in Applications |-> Answered(p)']
           = [[p \in Applications |-> Answered(p)] EXCEPT ![q] = "invalid"]
    BY <2>1
  <2> QED BY <1>1, <2>1, <2>2 DEF Directory!Invalid, Directory!None, None
<1> QED BY <1>2, <1>3 DEF Read

\* The steps between them leave the directory as it is, or answer with "409"
\* while the email is taken.
LEMMA WorkIsRefusing ==
    ASSUME DirectoryInv, NEW q \in Applications,
           Check(q) \/ SaveTemporary(q) \/ SaveFinal(q) \/ Undo(q)
    PROVE  [Directory!Next]_(Directory!vars)
<1>1. applicants' = applicants /\ InFlight(q) /\ post[q].email \in Emails /\ Answered(q) = None
  BY DEF Check, SaveTemporary, SaveFinal, Undo, InFlight, DirectoryInv, Mailed, Answered
<1>2. PICK step \in {"duplicate", "save", "rename", "commit"} :
         Step(q, step) /\ (step = "duplicate" => Taken(post[q].email))
  BY DEF Check, SaveTemporary, SaveFinal, Undo, DirectoryInv, Mailed
<1>3. /\ [p \in Applications |-> post'[p].email] = [p \in Applications |-> post[p].email]
      /\ \A p \in Applications : p # q => Answered(p)' = Answered(p)
      /\ Answered(q)' = IF step = "duplicate" THEN step ELSE None
  BY <1>2, AnswerMoves DEF DirectoryInv, Inv, Steps
<1>4. CASE step = "duplicate"
  <2>1. [p \in Applications |-> Answered(p)']
           = [[p \in Applications |-> Answered(p)] EXCEPT ![q] = "duplicate"]
    BY <1>3, <1>4
  <2>2. Directory!Pending(q)
    BY <1>1, DirectoryReads
  <2>3. Directory!Used([p \in Applications |-> post[p].email][q])
    BY <1>2, <1>4, DirectoryReads
  <2>4. Directory!Refuse(q)
    BY <1>1, <1>3, <2>1, <2>2, <2>3 DEF Directory!Refuse
  <2> QED BY <2>4 DEF Directory!Next
<1>5. CASE step # "duplicate"
  <2>1. [p \in Applications |-> Answered(p)'] = [p \in Applications |-> Answered(p)]
    BY <1>1, <1>3, <1>5
  <2> QED BY <1>1, <1>3, <2>1 DEF Directory!vars
<1> QED BY <1>4, <1>5

\* A commit enters the applicant, or only finds the email taken.
LEMMA CommitIsAdmitting ==
    ASSUME DirectoryInv, NEW q \in Applications, Commit(q)
    PROVE  [Directory!Next]_(Directory!vars)
<1>1. post[q].step = "commit" /\ post[q].email \in Emails /\ Answered(q) = None
  BY DEF Commit, InFlight, DirectoryInv, Mailed, Answered
<1>2. CASE Taken(post[q].email)
  <2>1. Step(q, "undo") /\ applicants' = applicants
    BY <1>2 DEF Commit
  <2>2. /\ [p \in Applications |-> post'[p].email] = [p \in Applications |-> post[p].email]
        /\ \A p \in Applications : p # q => Answered(p)' = Answered(p)
        /\ Answered(q)' = None
    BY <2>1, AnswerMoves DEF DirectoryInv, Inv, Steps
  <2>3. [p \in Applications |-> Answered(p)'] = [p \in Applications |-> Answered(p)]
    BY <1>1, <2>2
  <2> QED BY <2>1, <2>2, <2>3 DEF Directory!vars
<1>3. CASE ~ Taken(post[q].email)
  <2> DEFINE new == Row(q, post[q].email, Key(q))
  <2>1. Step(q, "created") /\ applicants' = applicants \cup {new}
    BY <1>3 DEF Commit
  <2>2. /\ [p \in Applications |-> post'[p].email] = [p \in Applications |-> post[p].email]
        /\ \A p \in Applications : p # q => Answered(p)' = Answered(p)
        /\ Answered(q)' = "created"
    BY <2>1, AnswerMoves DEF DirectoryInv, Inv, Steps
  <2>3. [p \in Applications |-> Answered(p)']
           = [[p \in Applications |-> Answered(p)] EXCEPT ![q] = "created"]
    BY <2>2
  <2>4. new.who = q /\ new.email = post[q].email
    BY DEF Row
  <2> HIDE DEF new
  <2>5. {[who |-> a.who, email |-> a.email] : a \in applicants'}
           = {[who |-> a.who, email |-> a.email] : a \in applicants}
             \cup {[who |-> q, email |-> post[q].email]}
    BY <2>1, <2>4
  <2>6. Directory!Pending(q) /\ ~ Directory!Used([p \in Applications |-> post[p].email][q])
    BY <1>1, <1>3, DirectoryReads
  <2>7. Directory!Admit(q)
    BY <2>2, <2>3, <2>5, <2>6 DEF Directory!Admit, Directory!Entry
  <2> QED BY <2>7 DEF Directory!Next
<1> QED BY <1>2, <1>3

\* Killing the API loses the answers of the requests in flight, and nothing else.
LEMMA KillIsLosing ==
    ASSUME DirectoryInv, KillApi
    PROVE  [Directory!Next]_(Directory!vars)
<1> DEFINE lost == {q \in Applications : InFlight(q)}
<1>1. applicants' = applicants
  BY DEF KillApi
<1>2. \A q \in Applications : /\ post'[q].step = IF q \in lost THEN "lost" ELSE post[q].step
                              /\ post'[q].email = post[q].email
  BY DEF KillApi, DirectoryInv, Inv, TypeOK
<1>3. \A q \in lost : Directory!Pending(q)
  <2>1. \A q \in lost : Answered(q) = None /\ post[q].email \in Emails
    BY DEF DirectoryInv, Mailed, Answered, InFlight
  <2> QED BY <2>1, DirectoryReads
<1>4. [q \in Applications |-> post'[q].email] = [q \in Applications |-> post[q].email]
  BY <1>2
<1>5. [q \in Applications |-> Answered(q)']
         = [q \in Applications |->
              IF q \in lost THEN "lost" ELSE [p \in Applications |-> Answered(p)][q]]
  BY <1>2 DEF Answered
<1>6. lost \in SUBSET Applications
  OBVIOUS
<1> HIDE DEF lost
<1>7. Directory!Lose(lost)
  BY <1>1, <1>3, <1>4, <1>5 DEF Directory!Lose
<1> QED BY <1>6, <1>7 DEF Directory!Next

\* Until its commit an import is not seen; its commit adopts at once whom it
\* brings.
LEMMA CommitIsAdopting ==
    ASSUME DirectoryInv, CommitImport
    PROVE  [Directory!Next]_(Directory!vars)
<1> DEFINE new == {i \in DOMAIN Cohort : ByWho(import.rows, i) # {} /\ ByWho(applicants, i) = {}}
           Entries(rows) == {[who |-> a.who, email |-> a.email] : a \in rows}
<1>1. /\ post' = post
      /\ applicants' = {a \in applicants : ByWho(import.rows, a.who) = {}} \cup import.rows
  BY DEF CommitImport
<1>2. \A b \in import.rows : b.who \in DOMAIN Cohort /\ b.email = Cohort[b.who]
  <2>1. \A b \in import.rows : b.who \in Nat
    BY DEF DirectoryInv, Inv, TypeOK, Rows
  <2> QED BY <2>1 DEF DirectoryInv, Numbered, ImportRows
<1>3. ASSUME NEW i \in new PROVE ~ Directory!Entered(i) /\ ~ Directory!Used(Cohort[i])
  <2>1. ~ \E a \in applicants : a.who = i
    BY DEF ByWho
  <2>2. PICK b \in import.rows : b.who = i
    BY DEF ByWho
  <2>3. ~ Taken(Cohort[i])
    BY <1>2, <2>1, <2>2 DEF DirectoryInv, OneEach, ImportRows, Taken
  <2> QED BY <2>1, <2>3, DirectoryReads
<1>4. ASSUME NEW i \in new, NEW j \in new, Cohort[i] = Cohort[j] PROVE i = j
  <2>1. PICK a \in import.rows, b \in import.rows : a.who = i /\ b.who = j
    BY DEF ByWho
  <2> QED BY <1>2, <1>4, <2>1 DEF DirectoryInv, OneEach, ImportRows
<1>5. Entries(applicants') = Entries(applicants)
                              \cup {[who |-> i, email |-> Cohort[i]] : i \in new}
  <2>1. ASSUME NEW a \in applicants'
        PROVE  \/ \E b \in applicants : Same(a, b)
               \/ a.who \in new /\ a.email = Cohort[a.who]
    <3>1. CASE a \in import.rows
      <4>1. CASE ByWho(applicants, a.who) = {}
        BY <1>2, <3>1, <4>1 DEF ByWho
      <4>2. CASE ByWho(applicants, a.who) # {}
        <5>1. PICK b \in applicants : b.who = a.who
          BY <4>2 DEF ByWho
        <5>2. a.who \in Nat
          BY <3>1 DEF DirectoryInv, Inv, TypeOK, Rows
        <5> QED BY <1>2, <3>1, <5>1, <5>2 DEF DirectoryInv, Numbered, ImportRows, Same
      <4> QED BY <4>1, <4>2
    <3> QED BY <1>1, <3>1 DEF Same
  <2>2. ASSUME NEW a \in applicants PROVE \E b \in applicants' : Same(a, b)
    <3>1. CASE ByWho(import.rows, a.who) # {}
      <4>1. PICK b \in import.rows : b.who = a.who
        BY <3>1 DEF ByWho
      <4>2. b.who \in Nat
        BY DEF DirectoryInv, Inv, TypeOK, Rows
      <4> QED BY <1>1, <4>1, <4>2 DEF DirectoryInv, Numbered, ImportRows, Same
    <3> QED BY <1>1, <3>1 DEF Same
  <2>3. ASSUME NEW i \in new PROVE \E b \in applicants' : b.who = i /\ b.email = Cohort[i]
    BY <1>1, <1>2 DEF ByWho
  <2> HIDE DEF new
  <2> QED BY <2>1, <2>2, <2>3 DEF Same
<1>6. PICK some \in SUBSET DOMAIN Cohort : some = new
  OBVIOUS
<1>7. /\ [q \in Applications |-> post'[q].email] = [q \in Applications |-> post[q].email]
      /\ [q \in Applications |-> Answered(q)'] = [q \in Applications |-> Answered(q)]
  BY <1>1 DEF Answered
<1> HIDE DEF new
<1>8. Directory!Adopt(some)
  BY <1>3, <1>4, <1>5, <1>6, <1>7 DEF Directory!Adopt, Directory!Entry
<1> QED BY <1>8 DEF Directory!Next

\* Every step of requests, imports and kills is one of the directory or none.
LEMMA DirectoryStep ==
    ASSUME DirectoryInv, [Next]_vars
    PROVE  [Directory!Next]_(Directory!vars)
<1>1. ASSUME NEW q \in Applications,
             Read(q) \/ Check(q) \/ SaveTemporary(q) \/ SaveFinal(q) \/ Commit(q) \/ Undo(q)
      PROVE  [Directory!Next]_(Directory!vars)
  <2>1. Read(q) => Directory!Next
    BY ReadIsAsking DEF Directory!Next
  <2> QED BY <1>1, <2>1, WorkIsRefusing, CommitIsAdmitting
<1>2. CASE CommitImport
  BY <1>2, CommitIsAdopting
<1>3. CASE UNCHANGED <<applicants, post>>
  BY <1>3 DEF Directory!vars, Answered
<1>4. StartImport \/ ImportRow \/ InsertRow \/ ImportResume \/ ImportEvidence \/ KillImport
        \/ UNCHANGED vars => UNCHANGED <<applicants, post>>
  BY DEF StartImport, ImportRow, InsertRow, ImportResume, ImportEvidence, KillImport, vars
<1> QED BY <1>1, <1>2, <1>3, <1>4, KillIsLosing DEF Next, Import

\* Every run of Intake is a run of ApplicantDirectory (ActsAsDirectory): for any
\* number of requests, imports and kills and any list of emails as the cohort,
\* two rows never share an email, "409" is only told while the email is taken,
\* and an import becomes visible as a whole.
THEOREM ActsAsDirectoryHolds ==
    ASSUME Applications \cap Nat = {}, Cohort \in Seq(Mails)
    PROVE  Spec => ActsAsDirectory
<1>1. Init => Directory!Init
  <2> SUFFICES ASSUME Init PROVE Directory!Init
    OBVIOUS
  <2>1. applicants = {} /\ \A q \in Applications : post[q].email = None /\ Answered(q) = None
    BY DEF Init, Answered
  <2> QED BY <2>1 DEF Directory!Init, Directory!None, None
<1>2. DirectoryInv /\ [Next]_vars => [Directory!Next]_(Directory!vars)
  BY DirectoryStep
<1> QED BY <1>1, <1>2, DirectoryInvHolds, PTL DEF Spec, ActsAsDirectory, Directory!Spec

-----------------------------------------------------------------------------
(* The life of a skill *)

\* An evidence item; a mark on the row is a manager's, so it pins the row.
IsItem(e) == e \in [id : {e.id}, deleted : BOOLEAN, position : {e.position}]

Skill == [id : Nat, deleted : BOOLEAN, pinned : BOOLEAN]
Resolver == [step : {"idle", "working", "read", "deleted"}, kind : {"processing", "import"},
             row : Skill, doomed : Nat]

EditsInv == /\ skill \in Skill
            /\ skill.deleted => skill.pinned
            /\ ~ Exists => ~ skill.pinned /\ evidence = {}
            /\ lastRow \in Nat /\ skill.id <= lastRow
            /\ resolver \in Resolver
            /\ resolver.doomed # 0 => resolver.step = "deleted" /\ ~ resolver.row.pinned
            /\ \A e \in evidence : IsItem(e)
            /\ DOMAIN edit = Edits
            /\ \A q \in Edits : edit[q].kind \notin {"idle", "add"} => edit[q].row.id # 0

\* Marking an item as deleted leaves a deleted item as it is.
LEMMA MarkedStays ==
    ASSUME NEW e, IsItem(e)
    PROVE  /\ IsItem([e EXCEPT !.deleted = TRUE])
           /\ e.deleted => [e EXCEPT !.deleted = TRUE] = e
<1> DEFINE m == [e EXCEPT !.deleted = TRUE]
<1>1. e \in [id : {e.id}, deleted : BOOLEAN, position : {e.position}]
  BY DEF IsItem
<1>2. m \in [id : {e.id}, deleted : BOOLEAN, position : {e.position}]
  BY <1>1
<1>3. m.id = e.id /\ m.position = e.position /\ m.deleted = TRUE
  BY <1>1
<1> HIDE DEF m
<1>4. IsItem(m)
  BY <1>2, <1>3 DEF IsItem
<1>5. ASSUME e.deleted PROVE m = e
  BY <1>1, <1>2, <1>3, <1>5
<1>6. QED
  BY <1>4, <1>5 DEF m

\* An item found by a resolution, or added by a manager.
LEMMA NewItem == ASSUME NEW i, NEW p PROVE IsItem([id |-> i, deleted |-> FALSE, position |-> p])
<1> DEFINE new == [id |-> i, deleted |-> FALSE, position |-> p]
<1>1. new.id = i /\ new.position = p /\ new \in [id : {i}, deleted : BOOLEAN, position : {p}]
  OBVIOUS
<1> HIDE DEF new
<1>2. QED
  BY <1>1 DEF IsItem, new

\* Every step of the requests and of a resolution keeps the invariant.
LEMMA EditsStep == ASSUME EditsInv, [EditsNext]_editVars PROVE EditsInv'
<1> USE DEF EditsInv, Skill
<1>0. NoResolution \in Resolver /\ NoResolution.doomed = 0
  BY DEF NoResolution, NoSkill, Resolver
<1>1. CASE StartResolution \/ ReadPins \/ DeleteRow \/ EndResolution \/ UNCHANGED editVars
  <2>1. /\ resolver' \in Resolver
        /\ resolver'.doomed # 0 => resolver'.step = "deleted" /\ ~ resolver'.row.pinned
    <3>1. CASE StartResolution
      <4>1. PICK kind \in {"processing", "import"} :
              resolver' = [NoResolution EXCEPT !.step = "working", !.kind = kind]
        BY <3>1 DEF StartResolution
      <4>2. QED
        BY <4>1 DEF NoResolution, NoSkill, Resolver
    <3>2. CASE ReadPins
      BY <3>2 DEF ReadPins, Resolver
    <3>3. CASE DeleteRow
      BY <3>3 DEF DeleteRow, Resolver
    <3>4. CASE EndResolution
      BY <1>0, <3>4 DEF EndResolution
    <3>5. QED
      BY <1>1, <3>1, <3>2, <3>3, <3>4 DEF editVars
  <2>2. UNCHANGED <<skill, lastRow, evidence, edit>>
    BY <1>1 DEF StartResolution, ReadPins, DeleteRow, EndResolution, editVars
  <2>3. QED
    BY <2>1, <2>2 DEF Exists
<1>2. CASE CommitResolution
  <2>0. UNCHANGED edit /\ resolver' = NoResolution
    BY <1>2 DEF CommitResolution
  <2>1. CASE UNCHANGED <<skill, lastRow, evidence>>
    BY <1>0, <2>0, <2>1 DEF Exists
  <2>2. CASE skill' = NoSkill /\ evidence' = {} /\ UNCHANGED lastRow
    BY <1>0, <2>0, <2>2 DEF Exists, NoSkill
  <2>3. ASSUME lastRow' = lastRow + 1,
               skill' = [id |-> lastRow', deleted |-> FALSE, pinned |-> FALSE],
               NEW found, evidence' = {[id |-> i, deleted |-> FALSE, position |-> 0] : i \in found}
        PROVE  EditsInv'
    <3>1. lastRow' \in Nat
      BY <2>3
    <3>2. \A e \in evidence' : IsItem(e)
      BY <2>3, NewItem
    <3>3. lastRow' # 0
      BY <2>3
    <3>4. QED
      BY <1>0, <2>0, <2>3, <3>1, <3>2, <3>3 DEF Exists
  <2>4. QED
    BY <1>2, <2>1, <2>2, <2>3 DEF CommitResolution
<1>3. ASSUME NEW q \in Edits, NEW kind \in {"add", "update", "delete", "add evidence", "delete evidence"},
             NEW item, Begin(q, kind, item)
      PROVE  EditsInv'
  <2>1. kind # "add" => Exists
    BY <1>3 DEF Begin, Allowed, Active
  <2>2. DOMAIN edit' = Edits
        /\ \A o \in Edits : edit'[o].kind \notin {"idle", "add"} => edit'[o].row.id # 0
    BY <1>3, <2>1 DEF Begin, Exists
  <2>3. QED
    BY <1>3, <2>2 DEF Begin, Exists
<1>4. ASSUME NEW q \in Edits, Refuse(q) PROVE EditsInv'
  BY <1>4 DEF Refuse, Exists, Idle
<1>5. ASSUME NEW q \in Edits, CommitUpdate(q) \/ CommitDelete(q) \/ CommitAdd(q) \/ CommitAddEvidence(q)
                               \/ CommitDeleteEvidence(q)
      PROVE  EditsInv'
  <2>1. DOMAIN edit' = Edits
        /\ \A o \in Edits : edit'[o].kind \notin {"idle", "add"} => edit'[o].row.id # 0
    <3>1. edit' = [edit EXCEPT ![q] = Idle]
      BY <1>5 DEF CommitUpdate, CommitDelete, CommitAdd, CommitAddEvidence, CommitDeleteEvidence, Commits
    <3>2. QED
      BY <3>1 DEF Idle
  <2>2. \A e \in evidence' : IsItem(e)
    <3>1. CASE CommitUpdate(q) \/ CommitDelete(q)
      BY <3>1 DEF CommitUpdate, CommitDelete
    <3>2. CASE CommitAdd(q) \/ CommitDeleteEvidence(q)
      <4>1. \A e \in evidence' : \E o \in evidence : e = o \/ e = [o EXCEPT !.deleted = TRUE]
        <5>1. CASE CommitAdd(q)
          <6> DEFINE seen == edit[q].seen
          <6>1. evidence' = {IF e \in seen THEN [e EXCEPT !.deleted = TRUE] ELSE e : e \in evidence}
            BY <5>1 DEF CommitAdd
          <6> HIDE DEF seen
          <6>2. QED
            BY <6>1
        <5>2. CASE CommitDeleteEvidence(q)
          <6> DEFINE item == edit[q].item
          <6>1. evidence' = {IF e.id = item THEN [e EXCEPT !.deleted = TRUE] ELSE e : e \in evidence}
            BY <5>2 DEF CommitDeleteEvidence
          <6> HIDE DEF item
          <6>2. QED
            BY <6>1
        <5>3. QED
          BY <3>2, <5>1, <5>2
      <4>2. QED
        BY <4>1, MarkedStays
    <3>3. CASE CommitAddEvidence(q)
      <4>1. PICK i, p : evidence' = evidence \cup {[id |-> i, deleted |-> FALSE, position |-> p]}
        BY <3>3 DEF CommitAddEvidence
      <4>2. QED
        BY <4>1, NewItem
    <3>4. QED
      BY <1>5, <3>1, <3>2, <3>3
  <2>3. CASE CommitAdd(q) /\ ~ Exists
    <3>1. lastRow' \in Nat /\ skill' = [id |-> lastRow', deleted |-> FALSE, pinned |-> TRUE] /\ lastRow' # 0
      BY <2>3 DEF CommitAdd
    <3>2. UNCHANGED resolver
      BY <2>3 DEF CommitAdd, Commits
    <3>3. QED
      BY <2>1, <2>2, <3>1, <3>2 DEF Exists
  <2>4. CASE ~ CommitAdd(q)
    <3>1. Exists
      BY <1>5, <2>4 DEF CommitUpdate, CommitDelete, CommitAddEvidence, CommitDeleteEvidence, Commits, Stale, Exists
    <3>2. /\ skill' \in Skill /\ skill'.id = skill.id /\ skill'.pinned
          /\ UNCHANGED <<lastRow, resolver>>
      BY <1>5, <2>4 DEF CommitUpdate, CommitDelete, CommitAddEvidence, CommitDeleteEvidence, Commits
    <3>3. QED
      BY <2>1, <2>2, <3>1, <3>2 DEF Exists
  <2>5. CASE CommitAdd(q) /\ Exists
    <3>1. /\ skill' \in Skill /\ skill'.id = skill.id /\ skill'.pinned /\ ~ skill'.deleted
          /\ UNCHANGED <<lastRow, resolver>>
      BY <2>5 DEF CommitAdd, Commits
    <3>2. QED
      BY <2>1, <2>2, <2>5, <3>1 DEF Exists
  <2>6. QED
    BY <2>3, <2>4, <2>5
<1>6. QED
  BY <1>1, <1>2, <1>3, <1>4, <1>5 DEF EditsNext

\* A row with an override goes only with a resolution that read it without.
LEMMA ReplacedUnread ==
    ASSUME EditsInv, [EditsNext]_editVars, skill.pinned, skill'.id # skill.id
    PROVE  resolver.step = "deleted" /\ ~ resolver.row.pinned
<1> USE DEF EditsInv, Skill
<1>1. skill' # skill /\ Exists
  OBVIOUS
<1>2. ASSUME NEW q \in Edits, CommitUpdate(q) \/ CommitDelete(q) \/ CommitAdd(q) \/ CommitAddEvidence(q)
                               \/ CommitDeleteEvidence(q)
      PROVE  skill'.id = skill.id
  BY <1>1, <1>2 DEF CommitUpdate, CommitDelete, CommitAdd, CommitAddEvidence, CommitDeleteEvidence
<1>3. CommitResolution
  BY <1>1, <1>2 DEF EditsNext, editVars, StartResolution, ReadPins, DeleteRow, EndResolution, Begin, Refuse
<1>4. skill.id = resolver.doomed
  BY <1>1, <1>3 DEF CommitResolution
<1>5. QED
  BY <1>1, <1>4 DEF Exists

\* On one row, only the commit of an "add" revives the skill.
LEMMA RevivedByAdd ==
    ASSUME EditsInv, [EditsNext]_editVars, skill.deleted, skill'.id = skill.id, ~ skill'.deleted
    PROVE  \E q \in Edits : edit[q].kind = "add" /\ edit'[q] = Idle
<1> USE DEF EditsInv, Skill
<1>1. skill' # skill /\ Exists
  OBVIOUS
<1>2. ~ CommitResolution
  BY <1>1 DEF CommitResolution, NoSkill, Exists
<1>3. ASSUME NEW q \in Edits, CommitUpdate(q) \/ CommitDelete(q) \/ CommitAddEvidence(q)
                               \/ CommitDeleteEvidence(q)
      PROVE  FALSE
  BY <1>3 DEF CommitUpdate, CommitDelete, CommitAddEvidence, CommitDeleteEvidence
<1>4. ASSUME NEW q \in Edits, CommitAdd(q) PROVE edit[q].kind = "add" /\ edit'[q] = Idle
  BY <1>4 DEF CommitAdd, Commits
<1>5. QED
  BY <1>1, <1>2, <1>3, <1>4
     DEF EditsNext, editVars, StartResolution, ReadPins, DeleteRow, EndResolution, Begin, Refuse

\* No step revives an item of the row.
LEMMA RemovedItemStays ==
    ASSUME EditsInv, [EditsNext]_editVars, NEW e \in evidence \ Visible, skill'.id = skill.id
    PROVE  e \in evidence'
<1> USE DEF EditsInv
<1>1. CASE evidence' = evidence
  BY <1>1
<1>2. CASE CommitResolution
  <2>1. CASE Exists
    BY <1>1, <1>2, <2>1 DEF CommitResolution, NoSkill, Exists, Skill
  <2>2. CASE ~ Exists
    BY <2>2
  <2>3. QED
    BY <2>1, <2>2
<1>3. ASSUME NEW q \in Edits, CommitAdd(q) \/ CommitDeleteEvidence(q) PROVE e \in evidence'
  BY <1>3, MarkedStays DEF CommitAdd, CommitDeleteEvidence, Visible
<1>4. ASSUME NEW q \in Edits, CommitAddEvidence(q) PROVE e \in evidence'
  BY <1>4 DEF CommitAddEvidence
<1>5. QED
  BY <1>1, <1>2, <1>3, <1>4
     DEF EditsNext, editVars, StartResolution, ReadPins, DeleteRow, EndResolution, Begin, Refuse,
         CommitUpdate, CommitDelete

\* What a manager removed stays removed, but for a resolution that had read the
\* pins before: for any number of requests that overlap, and any number of
\* resolutions one after the other.
THEOREM RemovedStaysRemovedHolds == EditsSpec => RemovedStaysRemoved
<1>1. EditsInit => EditsInv
  BY DEF EditsInit, EditsInv, NoSkill, NoResolution, Skill, Resolver, Exists, Idle
<1>2. EditsInv /\ [EditsNext]_editVars => EditsInv'
  BY EditsStep
<1>3. EditsInv /\ [EditsNext]_editVars =>
        [/\ skill.pinned /\ skill'.id # skill.id =>
               resolver.step = "deleted" /\ ~ resolver.row.pinned
         /\ skill.deleted /\ skill'.id = skill.id /\ ~ skill'.deleted =>
               \E q \in Edits : edit[q].kind = "add" /\ edit'[q] = Idle
         /\ \A e \in evidence \ Visible : e \in evidence' \/ skill'.id # skill.id]_editVars
  BY ReplacedUnread, RevivedByAdd, RemovedItemStays
<1>4. QED
  BY <1>1, <1>2, <1>3, PTL DEF EditsSpec, RemovedStaysRemoved
=============================================================================
