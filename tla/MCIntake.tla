------------------------------ MODULE MCIntake ------------------------------
(* An applicant's way into the database and under the managers' hands, in    *)
(* two parts that share no rows here: arriving (Intake), and the life of one *)
(* skill (SkillEdits).  part tells which.                                    *)
EXTENDS Intake, SkillEdits

CONSTANTS e1, e2

VARIABLE part

MCCohort == <<e1, e2>>

MCInit == part \in {"edits", "intake"} /\ Init /\ EditsInit

MCNext == /\ UNCHANGED part
          /\ \/ part = "edits" /\ EditsNext /\ UNCHANGED vars
             \/ part = "intake" /\ Next /\ UNCHANGED editVars

MCSpec == MCInit /\ [][MCNext]_<<part, vars, editVars>>
=============================================================================
