---------------------------- MODULE SkillLevels -----------------------------
(***************************************************************************)
(* Level arithmetic of one skill: a level claimed in the resume against    *)
(* the level observed on GitHub.  src/pipeline/resolve_profile.py,         *)
(* src/src/evidence_agent/{verify,claims}.py and                           *)
(* src/src/backend/services/{skill_resolution,skill_overrides}.py.         *)
(* Levels are 1 Entry, 2 Intermediate, 3 Advanced.                         *)
(***************************************************************************)
EXTENDS Integers

Level == 1 .. 3
Nothing == 0                  \* no observed level (None)
Observed == Level \cup {Nothing}

Lower(a, b) == IF a <= b THEN a ELSE b
Higher(a, b) == IF a <= b THEN b ELSE a

Statuses == {"verified", "partially_verified", "conflicting", "not_observed"}

\* verify.judge, verification_status: the verdict follows from the two levels.
Status(claimed, observed) ==
    CASE observed = Nothing       -> "not_observed"
      [] observed # Nothing /\ observed >= claimed     -> "verified"
      [] observed # Nothing /\ observed = claimed - 1  -> "partially_verified"
      [] OTHER                    -> "conflicting"

\* resolve_skill, level
Final(claimed, observed, status) ==
    CASE status = "verified"           -> observed
      [] status = "conflicting"        -> Lower(claimed, observed)
      [] status = "partially_verified" -> Lower(claimed, observed + 1)
      [] status = "not_observed"       -> claimed

\* resolve_skill, flag
Flag(status) == CASE status = "conflicting"  -> "conflicting"
                  [] status = "not_observed" -> "unverified"
                  [] OTHER                   -> "none"

NoClaim == 0                  \* claimed_level None: a manager cleared it

SkillRow == [claimed : Level \cup {NoClaim}, observed : Observed,
             status : Statuses \cup {"none"},
             flag : {"none", "conflicting", "unverified"}, final : 0 .. 3]

\* A row with the verdict status on its two levels
Derive(claimed, observed, status) ==
    [claimed |-> claimed, observed |-> observed, status |-> status,
     flag |-> Flag(status), final |-> Final(claimed, observed, status)]

\* rederive: without a claim, the observation is all there is
Rederive(claimed, observed) ==
    IF claimed = NoClaim
    THEN [claimed |-> NoClaim, observed |-> observed, status |-> "none", flag |-> "none",
          final |-> observed]
    ELSE Derive(claimed, observed, Status(claimed, observed))

\* One skill claimed in two spellings at levels a and b (a = b: one spelling):
\* the evidence agent judges the higher claim (claims.from_profile_payload),
\* resolve_skills stores and resolves the lower one.
ResolveClaims(a, b, observed) == Derive(Lower(a, b), observed, Status(Higher(a, b), observed))

\* A claim no verification covers: GitHub evidence is unavailable.
Unchecked(a, b) == [claimed |-> Lower(a, b), observed |-> Nothing, status |-> "none",
                    flag |-> "unverified", final |-> Lower(a, b)]

-----------------------------------------------------------------------------
(* The evidence agent's model may move the rules' reading, within bounds. *)

MAX_LEVEL_SHIFT == 1
UNSEEN_LEVEL_CAP == 2

\* settled_by_rules: no model is asked about the claim
Settled(claimed, observed, weak) == \/ Status(claimed, observed) = "verified"
                                    \/ observed = Nothing /\ ~ weak

\* _accept: a level without a cited repository is rejected (the rules' level
\* stands); else it is bounded by the rules' level, or capped where there is none.
Accepted(observed, level, cited) ==
    CASE level # Nothing /\ ~ cited -> observed
      [] level # Nothing /\ cited /\ observed # Nothing ->
             Lower(Higher(level, observed - MAX_LEVEL_SHIFT), observed + MAX_LEVEL_SHIFT)
      [] level # Nothing /\ cited /\ observed = Nothing -> Lower(level, UNSEEN_LEVEL_CAP)
      [] level = Nothing -> Nothing
=============================================================================
