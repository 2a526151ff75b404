------------------------------ MODULE DraftRun ------------------------------
(***************************************************************************)
(* src/pipeline/integrated.py: profiles, evidence, catalog extraction and  *)
(* matching connected into a draft placement that a human still has to     *)
(* approve.  Every run writes its artifacts into a folder it must create   *)
(* itself; the agents may fail, a project may need review, and a run may   *)
(* die at any point.                                                       *)
(***************************************************************************)
EXTENDS Integers, SequencesExt

CONSTANTS Drafts, \* runs started with the same --output-dir
          Inputs, \* applicants of the manifest
          Offers  \* projects of the manifest

\* RunInput: both lists have min_length=1.
ASSUME ManifestAssumption == Inputs \in Nat \ {0} /\ Offers \in Nat \ {0}

VARIABLES folder,  \* file of the output folder -> which run wrote it, and what
          draftPc, \* next step of each run
          read,    \* applicants a run has evaluated
          offered  \* projects a run has extracted

draftVars == <<folder, draftPc, read, offered>>

Ended == {"refused", "failed", "draft", "dead"}

\* save: write a JSON file of the folder
Saved(files, d, name, text, count) ==
    [n \in DOMAIN files \cup {name} |->
        IF n = name THEN [by |-> d, text |-> text, count |-> count] ELSE files[n]]
StatusFile(files, d, text) == Saved(files, d, "status", text, 0)

DraftInit == /\ folder = <<>>
             /\ draftPc = [d \in Drafts |-> "start"]
             /\ read = [d \in Drafts |-> 0]
             /\ offered = [d \in Drafts |-> 0]

AtStep(d, step) == draftPc[d] = step
GoOn(d, step) == draftPc' = [draftPc EXCEPT ![d] = step]

\* The except clause of run: the status says failed, the artifacts stay.
Fail(d) == /\ folder' = StatusFile(folder, d, "failed")
           /\ GoOn(d, "failed")

\* mkdir(exist_ok=False), then the first status
MakeFolder(d) == /\ AtStep(d, "start")
                 /\ IF folder # <<>> THEN GoOn(d, "refused") /\ UNCHANGED folder
                    ELSE folder' = StatusFile(folder, d, "running") /\ GoOn(d, "configure")
                 /\ UNCHANGED <<read, offered>>

\* Live mode: the clients and their settings, or replay: nothing
ConfigureDraft(d) == /\ AtStep(d, "configure")
                     /\ \/ GoOn(d, "applicants") /\ UNCHANGED folder
                        \/ Fail(d)
                     /\ UNCHANGED <<read, offered>>

\* One applicant: the collected GitHub profile must exist, the profile must be
\* this applicant's, the evidence must match it (matching_student).
Applicant(d) == /\ AtStep(d, "applicants") /\ read[d] < Inputs
                /\ \/ /\ read' = [read EXCEPT ![d] = @ + 1]
                      /\ folder' = Saved(folder, d, "resolved", "", read'[d])
                      /\ UNCHANGED draftPc
                   \/ Fail(d) /\ UNCHANGED read
                /\ UNCHANGED offered

ApplicantsDone(d) == /\ AtStep(d, "applicants") /\ read[d] = Inputs
                     /\ GoOn(d, "projects")
                     /\ UNCHANGED <<folder, read, offered>>

\* Fault: a project that needs review is passed on.
Project_Unjudged(d) == /\ AtStep(d, "projects") /\ offered[d] < Offers
                       /\ offered' = [offered EXCEPT ![d] = @ + 1]
                       /\ \E text \in {"valid", "invalid"} :
                            folder' = Saved(folder, d, "catalog", text, offered'[d])
                       /\ UNCHANGED <<draftPc, read>>

\* One project: its profile is saved before it is judged; an invalid one, one
\* with an unresolved skill or without a level ends the run (matching_project).
Project(d) == /\ AtStep(d, "projects") /\ offered[d] < Offers
              /\ \/ /\ offered' = [offered EXCEPT ![d] = @ + 1]
                    /\ \/ /\ folder' = Saved(folder, d, "catalog", "valid", offered'[d])
                          /\ UNCHANGED draftPc
                       \/ /\ \E text \in {"valid", "invalid"} :
                               folder' = StatusFile(Saved(folder, d, "catalog", text, offered'[d]),
                                                    d, "failed")
                          /\ GoOn(d, "failed")
                 \/ Fail(d) /\ UNCHANGED offered
              /\ UNCHANGED read

\* The matching input and the scores are saved, then the optimizer runs and
\* its teams are checked once more.
Match(d) == /\ AtStep(d, "projects") /\ offered[d] = Offers
            /\ LET scored == Saved(Saved(folder, d, "matching-input", "", 0), d, "scores", "", 0)
               IN \/ folder' = scored /\ GoOn(d, "matched")
                  \/ folder' = StatusFile(scored, d, "failed") /\ GoOn(d, "failed")
            /\ UNCHANGED <<read, offered>>

SaveDraft(d) == /\ AtStep(d, "matched")
                /\ folder' = Saved(folder, d, "assignment-draft", "pending", 0)
                /\ GoOn(d, "drafted")
                /\ UNCHANGED <<read, offered>>

SaveStatus(d) == /\ AtStep(d, "drafted")
                 /\ folder' = StatusFile(folder, d, "draft_requires_review")
                 /\ GoOn(d, "draft")
                 /\ UNCHANGED <<read, offered>>

DraftDies(d) == /\ draftPc[d] \notin Ended \cup {"start"}
                /\ GoOn(d, "dead")
                /\ UNCHANGED <<folder, read, offered>>

DraftNext == \E d \in Drafts : \/ MakeFolder(d) \/ ConfigureDraft(d) \/ Applicant(d) \/ ApplicantsDone(d)
                               \/ Project(d) \/ Match(d) \/ SaveDraft(d) \/ SaveStatus(d) \/ DraftDies(d)

DraftSpec == DraftInit /\ [][DraftNext]_draftVars

-----------------------------------------------------------------------------
\* A folder whose status asks for a review holds the draft and everything it was
\* computed from: every applicant resolved and every project valid (run).
ReviewIsPossible ==
    ("status" \in DOMAIN folder /\ folder["status"].text = "draft_requires_review") =>
        /\ {"resolved", "catalog", "matching-input", "scores", "assignment-draft"} \subseteq DOMAIN folder
        /\ folder["resolved"].count = Inputs
        /\ folder["catalog"].text = "valid" /\ folder["catalog"].count = Offers
=============================================================================
