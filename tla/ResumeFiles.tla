---------------------------- MODULE ResumeFiles -----------------------------
(***************************************************************************)
(* src/generator/resume: a resume is a spec, a PDF and a row of            *)
(* applicants.csv.  "gen" writes the three for an applicant, "remove"      *)
(* deletes them, "manifest --rebuild" computes the rows from the files.    *)
(* Several processes may generate at once; a lock file with a stale-lock   *)
(* rule guards the CSV; a process may fail or die at any step.             *)
(***************************************************************************)
EXTENDS Integers, FiniteSets, TLC

CONSTANTS Processes,
          ResumeApplicants,
          RemoveBesideGen,  \* do "remove" and "rebuild" run beside other commands?
          MaxCommands       \* bound: commands a process runs

NoLock == "free"
ASSUME ProcessesAssumption == NoLock \notin Processes

VARIABLES spec,       \* applicant -> none, whole or torn
          pdf,        \* applicants with a PDF
          tmp,        \* applicants with a temporary PDF
          csv,        \* applicants with a row
          lock,       \* process that created the lock file, or NoLock
          proc,       \* process -> where it is: [pc, command, applicant, rows]
          passedOver, \* applicants whose torn spec the last rebuild passed over
          done,       \* applicants whose last finished gen or remove was a gen
          usurped,    \* history: was a lock ever broken whose owner lived on?
          commands    \* process -> commands it has begun

resumeVars == <<spec, pdf, tmp, csv, lock, proc, passedOver, done, usurped, commands>>
files == <<spec, pdf, tmp, csv, lock>>

NoCommand == [pc |-> "idle", command |-> "none", applicant |-> "none", rows |-> {}]

ResumeInit == /\ spec = [a \in ResumeApplicants |-> "none"]
              /\ pdf = {} /\ tmp = {} /\ csv = {} /\ passedOver = {} /\ done = {}
              /\ lock = NoLock /\ usurped = FALSE
              /\ proc = [p \in Processes |-> NoCommand]
              /\ commands = [p \in Processes |-> 0]

Doing(p, pc) == proc[p].pc = pc
Who(p) == proc[p].applicant
Proceed(p, pc) == proc' = [proc EXCEPT ![p].pc = pc]
Finish(p) == proc' = [proc EXCEPT ![p] = NoCommand]
Alone(p) == \A q \in Processes \ {p} : proc[q].pc \in {"idle", "dead"}

\* gen waits for nobody, the others are run on their own unless
\* RemoveBesideGen
MayBegin(p, command) ==
    \/ RemoveBesideGen
    \/ IF command = "gen" THEN \A q \in Processes : proc[q].command \in {"none", "gen"} \/ Doing(q, "dead")
       ELSE Alone(p)

\* A command begins.  gen has built the spec and found that it fits one page:
\* when it cannot, it is refused and nothing is written (generate).
Begin(p, command, a) ==
    /\ Doing(p, "idle") /\ commands[p] < MaxCommands /\ MayBegin(p, command)
    /\ commands' = [commands EXCEPT ![p] = @ + 1]
    /\ proc' = [proc EXCEPT ![p] = [pc |-> command, command |-> command, applicant |-> a, rows |-> {}]]
    /\ UNCHANGED <<files, passedOver, done, usurped>>

-----------------------------------------------------------------------------
\* generate: the spec file is opened, ...
OpenSpec(p) == /\ Doing(p, "gen")
               /\ spec' = [spec EXCEPT ![Who(p)] = "torn"]
               /\ Proceed(p, "spec")
               /\ UNCHANGED <<pdf, tmp, csv, lock, passedOver, done, usurped, commands>>

\* ... and filled
FillSpec(p) == /\ Doing(p, "spec")
               /\ spec' = [spec EXCEPT ![Who(p)] = "whole"]
               /\ Proceed(p, "render")
               /\ UNCHANGED <<pdf, tmp, csv, lock, passedOver, done, usurped, commands>>

\* Fault: it is written in its final place.
Render_Final(p) == /\ Doing(p, "render")
                   /\ pdf' = pdf \cup {Who(p)}
                   /\ tmp' = tmp \cup {Who(p)}
                   /\ Proceed(p, "acquire")
                   /\ UNCHANGED <<spec, csv, lock, passedOver, done, usurped, commands>>

\* publish: the rendered PDF goes to a file beside the final one.
Render(p) == /\ Doing(p, "render")
             /\ tmp' \in {tmp \cup {Who(p)}, tmp}      \* without a renderer: no PDF, only a row
             /\ Proceed(p, "acquire")
             /\ UNCHANGED <<spec, pdf, csv, lock, passedOver, done, usurped, commands>>

\* Fault: the lock file is opened whether it exists or not.
Acquire_Shared(p) == /\ Doing(p, "acquire")
                     /\ lock' = p
                     /\ Proceed(p, "locked")
                     /\ UNCHANGED <<spec, pdf, tmp, csv, passedOver, done, usurped, commands>>

\* _locked: O_CREAT | O_EXCL
Acquire(p) == /\ Doing(p, "acquire") /\ lock = NoLock
              /\ lock' = p
              /\ Proceed(p, "locked")
              /\ UNCHANGED <<spec, pdf, tmp, csv, passedOver, done, usurped, commands>>

\* The lock file is older than LOCK_STALE_SECONDS.  Its age is all that is looked at:
\* its owner may have died, or be suspended and go on later ...
FindStale(p) == /\ Doing(p, "acquire") /\ lock # NoLock
                /\ Proceed(p, "stale")
                /\ UNCHANGED <<files, passedOver, done, usurped, commands>>

\* ... and the file is unlinked, whoever has created it by now.
BreakLock(p) == /\ Doing(p, "stale")
                /\ lock' = NoLock
                /\ usurped' = (usurped \/ (lock # NoLock /\ ~ Doing(lock, "dead")))
                /\ Proceed(p, "acquire")
                /\ UNCHANGED <<spec, pdf, tmp, csv, passedOver, done, commands>>

\* publish's finally clause
Failed(p) == /\ tmp' = IF proc[p].command = "gen" THEN tmp \ {Who(p)} ELSE tmp
             /\ Finish(p)

\* LOCK_TIMEOUT_SECONDS: TimeoutError
GiveUp(p) == /\ Doing(p, "acquire") /\ lock # NoLock
             /\ Failed(p)
             /\ UNCHANGED <<spec, pdf, csv, lock, passedOver, done, usurped, commands>>

\* With the lock: load the rows, ...
LoadRows(p) == /\ Doing(p, "locked") /\ proc[p].command # "rebuild"
               /\ proc' = [proc EXCEPT ![p].pc = "write",
                             ![p].rows = IF proc[p].command = "gen" THEN csv \cup {Who(p)}
                                         ELSE csv \ {Who(p)}]
               /\ UNCHANGED <<files, passedOver, done, usurped, commands>>

\* ... and replace the file (upsert, remove, rebuild).
WriteRows(p) == /\ Doing(p, "write") \/ (Doing(p, "locked") /\ proc[p].command = "rebuild")
                /\ csv' = proc[p].rows
                /\ passedOver' = IF proc[p].command = "rebuild" THEN {a \in ResumeApplicants : spec[a] = "torn"}
                                 ELSE passedOver \ csv'
                /\ Proceed(p, "unlock")
                /\ UNCHANGED <<spec, pdf, tmp, lock, done, usurped, commands>>

\* _locked's finally: the lock file is unlinked, whoever's it is
Unlock(p) == /\ Doing(p, "unlock")
             /\ lock' = NoLock
             /\ IF proc[p].command = "gen" THEN Proceed(p, "replace") ELSE Finish(p)
             /\ done' = IF proc[p].command = "remove" THEN done \ {Who(p)} ELSE done
             /\ UNCHANGED <<spec, pdf, tmp, csv, passedOver, usurped, commands>>

\* publish: the row is there, so the PDF may take its place; the temporary file may
\* be gone if another process published for the same applicant.
ReplacePdf(p) == /\ Doing(p, "replace")
                 /\ pdf' = IF Who(p) \in tmp THEN pdf \cup {Who(p)} ELSE pdf
                 /\ done' = IF Who(p) \in tmp THEN done \cup {Who(p)} ELSE done
                 /\ Failed(p)
                 /\ UNCHANGED <<spec, csv, lock, passedOver, usurped, commands>>

-----------------------------------------------------------------------------
\* remove: the files first, one after the other (--keep-spec keeps the spec), ...
RemovePdf(p) == /\ Doing(p, "remove")
                /\ pdf' = pdf \ {Who(p)}
                /\ done' = done \ {Who(p)}
                /\ Proceed(p, "removed")
                /\ UNCHANGED <<spec, tmp, csv, lock, passedOver, usurped, commands>>

\* ... then the row
RemoveSpec(p) == /\ Doing(p, "removed")
                 /\ spec' \in {spec, [spec EXCEPT ![Who(p)] = "none"]}
                 /\ Proceed(p, "acquire")
                 /\ UNCHANGED <<pdf, tmp, csv, lock, passedOver, done, usurped, commands>>

\* rebuild: a row for every readable spec, collected before the lock is taken
Scan(p) == /\ Doing(p, "rebuild")
           /\ proc' = [proc EXCEPT ![p].pc = "acquire",
                         ![p].rows = {a \in ResumeApplicants : spec[a] = "whole"}]
           /\ UNCHANGED <<files, passedOver, done, usurped, commands>>

\* A step raises (disk full, rendering): gen's temporary file goes, the lock is
\* given back, and what was written stays.
Raise(p) == /\ proc[p].pc \in {"spec", "render", "locked", "write"}
            /\ lock' = IF proc[p].pc \in {"locked", "write"} THEN NoLock ELSE lock
            /\ Failed(p)
            /\ UNCHANGED <<spec, pdf, csv, passedOver, done, usurped, commands>>

ProcessDies(p) == /\ proc[p].pc \notin {"idle", "dead"}
                  /\ Proceed(p, "dead")
                  /\ UNCHANGED <<files, passedOver, done, usurped, commands>>

ResumeNext == \E p \in Processes :
    \/ \E a \in ResumeApplicants : Begin(p, "gen", a) \/ Begin(p, "remove", a)
    \/ Begin(p, "rebuild", "none")
    \/ OpenSpec(p) \/ FillSpec(p) \/ Render(p) \/ Acquire(p) \/ FindStale(p) \/ BreakLock(p)
    \/ GiveUp(p) \/ LoadRows(p) \/ WriteRows(p) \/ Unlock(p) \/ ReplacePdf(p)
    \/ RemovePdf(p) \/ RemoveSpec(p) \/ Scan(p) \/ Raise(p) \/ ProcessDies(p)

ResumeSpec == ResumeInit /\ [][ResumeNext]_resumeVars

-----------------------------------------------------------------------------
\* "No resume PDF exists without a row pairing it to its GitHub profile"
\* (generate.py:4-5): whatever gens run side by side, fail, die or time out, a PDF has
\* its row as long as no lock was broken whose owner went on.  The one other way to
\* lose a row: a later gen died while it wrote the spec, and rebuild passed the torn
\* spec over.
PdfHasRow == usurped \/ \A a \in pdf : a \in csv \cup passedOver

\* "Every write takes an exclusive lock, re-reads, upserts" (manifest.py:9): the row of a
\* finished gen stays until the applicant is removed, whoever else fails, dies or breaks
\* a dead owner's lock.  The stale-lock rule (manifest.py:70) cannot tell a suspended
\* owner from a dead one: once it has broken a live owner's lock, rows may be lost.
RowsKept == usurped \/ \A a \in done : a \in csv \cup passedOver

\* "Safe under parallel writes" (manifest.py:8), without that reservation: no run checks
\* it, for two processes violate it.
ParallelWritesAreSafe == \A a \in pdf \cup done : a \in csv \cup passedOver
=============================================================================
