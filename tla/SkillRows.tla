----------------------------- MODULE SkillRows ------------------------------
(***************************************************************************)
(* The levels in one applicant's row of one skill: written by the resolve  *)
(* stage of processing, then corrected by managers.  Each PATCH reads the  *)
(* row in its own session and thread, computes the derived columns from    *)
(* what it read, and later writes the columns it changed (SQLAlchemy       *)
(* updates no others); there is no row lock.                               *)
(***************************************************************************)
EXTENDS SkillLevels

CONSTANTS Requests,      \* PATCH requests in flight
          TwoSpellings   \* does the resume name a skill in two ways?

ASSUME SkillRowsAssumption == TwoSpellings \in BOOLEAN

VARIABLES row,     \* the row, none before the first resolution
          pinned,  \* edited_at is set: processing leaves the row alone
          req      \* seen: the row as read; new: as it should become

vars == <<row, pinned, req>>

NoRow == [claimed |-> NoClaim, observed |-> Nothing, status |-> "none", flag |-> "none",
          final |-> 0]
Request == [phase : {"idle", "begun"}, seen : SkillRow, new : SkillRow]
Idle == [phase |-> "idle", seen |-> NoRow, new |-> NoRow]

TypeOK == /\ row \in SkillRow
          /\ pinned \in BOOLEAN
          /\ req \in [Requests -> Request]

Init == /\ row = NoRow
        /\ pinned = FALSE
        /\ req = [q \in Requests |-> Idle]

-----------------------------------------------------------------------------
\* The resolve stage; requests that began before fail on commit (the row is a
\* new one), so they are forgotten.
Resolve == /\ ~ pinned
           /\ \E a, b \in Level :
                 /\ TwoSpellings \/ a = b
                 /\ \/ row' = Unchecked(a, b)
                    \/ \E o \in Observed : row' = ResolveClaims(a, b, o)
           /\ req' = [q \in Requests |-> Idle]
           /\ UNCHANGED pinned

\* A row whose levels a manager has cleared looks like none, but is pinned.
Exists == row # NoRow \/ pinned

\* Fault: the levels change, the columns derived from them do not.
BeginPatch_LevelsOnly(q, claimed, observed) ==
    /\ Exists
    /\ req[q].phase = "idle"
    /\ req' = [req EXCEPT ![q] =
                 [phase |-> "begun", seen |-> row,
                  new |-> [row EXCEPT !.claimed = claimed, !.observed = observed]]]
    /\ UNCHANGED <<row, pinned>>

\* update_skill: claimed or observed level, or texts only
BeginPatch(q, claimed, observed) ==
    /\ Exists
    /\ req[q].phase = "idle"
    /\ req' = [req EXCEPT ![q] =
                 [phase |-> "begun", seen |-> row,
                  new |-> IF claimed = row.claimed /\ observed = row.observed THEN row
                          ELSE Rederive(claimed, observed)]]
    /\ UNCHANGED <<row, pinned>>

CommitPatch(q) ==
    /\ req[q].phase = "begun"
    /\ row' = [c \in DOMAIN row |-> IF req[q].new[c] = req[q].seen[c] THEN row[c]
                                    ELSE req[q].new[c]]
    /\ pinned' = TRUE
    /\ req' = [req EXCEPT ![q] = Idle]

Next == \/ Resolve
        \/ \E q \in Requests :
              \/ \E c \in Level \cup {NoClaim}, o \in Observed : BeginPatch(q, c, o)
              \/ CommitPatch(q)

Spec == Init /\ [][Next]_vars

-----------------------------------------------------------------------------
(* Properties *)

\* skill_overrides.py "re-derives the verification status, flag and final
\* level with the pipeline's own rules": whoever wrote a row last, its verdict
\* is on the claim and the observation next to it, and so are the flag and the
\* final level (claims that were never checked have no verdict).
DerivedColumns ==
    LET by == Rederive(row.claimed, row.observed)
    IN  /\ row.final = by.final /\ row.flag = by.flag
        /\ row.status = by.status \/ (row.status = "none" /\ row.observed = Nothing)
=============================================================================
