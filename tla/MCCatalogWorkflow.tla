-------------------------- MODULE MCCatalogWorkflow -------------------------
(* Small instances of CatalogWorkflow for TLC. *)
EXTENDS CatalogWorkflow

Req(l, h, v) == [level |-> l, hard |-> h, verbatim |-> v]
Stated == Req(2, TRUE, TRUE)
Vague == Req(NoLevel, TRUE, TRUE)         \* a hard requirement without a level
Optional == Req(NoLevel, FALSE, TRUE)
Paraphrased == Req(2, TRUE, FALSE)        \* its evidence is not in the text

\* Nothing found, evidence that is not verbatim, a level that is missing.
Varied == {<<>>, <<Paraphrased, Optional>>, <<Vague, Stated>>}
\* A short answer, and one with two requirements that may change places.
Plain == {<<Stated>>, <<Stated, Optional, Optional>>}
ThreeStated == {<<Stated, Stated, Stated>>}
VagueAndStated == {<<Vague, Stated>>}

AllMappings == {Resolved(s) : s \in Skills} \cup {Unresolved("needs_review"), Unresolved("unmapped")}
AmbiguousOrNot == {Resolved(s) : s \in Skills} \cup {Unresolved("needs_review")}
=============================================================================
