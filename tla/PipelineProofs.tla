--------------------------- MODULE PipelineProofs ----------------------------
(***************************************************************************)
(* Proofs about skill levels and the programs that turn documents into a   *)
(* draft: the rules of a skill's row (SkillLevels, SkillRows), the profile *)
(* agent (ProfileAgent), the evidence agent (EvidenceAgent), the stages of *)
(* the orchestrator (OrchestratorRun) and the folder of the integrated     *)
(* flow (DraftRun).                                                        *)
(***************************************************************************)
EXTENDS SkillRows, EvidenceAgent, ProfileAgent, OrchestratorRun, DraftRun, FiniteSetTheorems, TLAPS

-----------------------------------------------------------------------------
(* SkillLevels, SkillRows: what the level rules guarantee for every pair of *)
(* levels, and that a row edited by one request at a time always shows what *)
(* its levels yield.                                                        *)

\* A verdict about the claim a, b with a <= b, applied to the lower claim as
\* resolve_skills does, still settles between the claim and the observation.
LEMMA FinalWithin ==
    ASSUME NEW a \in Level, NEW b \in Level, NEW o \in Level, a <= b
    PROVE  Final(a, o, Status(b, o)) \in Lower(a, o) .. Higher(a, o)
BY DEF Final, Status, Lower, Higher, Level, Nothing

\* Claiming more than one level above what GitHub shows never pays: the final
\* level is then the observed one.
THEOREM OverclaimNeverPays ==
    ASSUME NEW c \in Level, NEW o \in Level, c > o + 1
    PROVE  Final(c, o, Status(c, o)) = o
BY DEF Final, Status, Lower, Level, Nothing

\* More evidence never lowers the final level of a claim.
THEOREM MoreEvidenceNeverHurts ==
    ASSUME NEW c \in Level, NEW o \in Level, NEW p \in Level, o <= p
    PROVE  Final(c, o, Status(c, o)) <= Final(c, p, Status(c, p))
BY DEF Final, Status, Lower, Level, Nothing

\* The model's level stays within one of the rules' level, and is at most
\* Intermediate where the rules found nothing.
THEOREM AcceptedIsBounded ==
    ASSUME NEW o \in Observed, NEW level \in Observed, NEW cited \in BOOLEAN
    PROVE  LET is == Accepted(o, level, cited)
           IN  /\ is \in Observed
               /\ o # Nothing /\ is # Nothing => is - o \in -1 .. 1
               /\ o = Nothing => is <= UNSEEN_LEVEL_CAP
BY DEF Accepted, Observed, Level, Nothing, Lower, Higher, MAX_LEVEL_SHIFT, UNSEEN_LEVEL_CAP

-----------------------------------------------------------------------------
(* One request at a time, one spelling per skill: the inductive invariant   *)
(* is that what a request will write agrees with its levels, and that       *)
(* nothing changed the row since the request read it.                       *)

OneRequest == ~ TwoSpellings /\ \A p, q \in Requests : p = q

\* What a row looks like after a resolution or an override.
Agrees(r) == LET by == Rederive(r.claimed, r.observed)
             IN  /\ r.final = by.final /\ r.flag = by.flag
                 /\ r.status = by.status \/ (r.status = "none" /\ r.observed = Nothing)

Current(q) == req[q].phase = "begun" =>
                  /\ req[q].seen = row
                  /\ Agrees(req[q].new)

RowInv == /\ TypeOK
          /\ Agrees(row)
          /\ \A q \in Requests : Current(q)

\* Whatever is derived fits the row's columns.
LEMMA RederiveFits ==
    ASSUME NEW c \in Level \cup {NoClaim}, NEW o \in Observed
    PROVE  Rederive(c, o) \in SkillRow /\ Agrees(Rederive(c, o))
<1>1. CASE c = NoClaim
  BY <1>1 DEF Rederive, SkillRow, Agrees, NoClaim, Nothing, Observed, Level
<1>2. CASE c # NoClaim
  <2>. DEFINE s == Status(c, o)
  <2>1. s \in Statuses
    BY <1>2 DEF Status, Statuses, Level, Nothing, Observed, NoClaim
  <2>2. Final(c, o, s) \in 0 .. 3 /\ Flag(s) \in {"none", "conflicting", "unverified"}
    BY <1>2 DEF Final, Flag, Lower, Status, Statuses, Level, Nothing, Observed, NoClaim
  <2>3. Rederive(c, o) = Derive(c, o, s)
    BY <1>2 DEF Rederive
  <2>. HIDE DEF s
  <2>4. Derive(c, o, s) \in SkillRow
    BY <2>1, <2>2 DEF Derive, SkillRow
  <2>5. Derive(c, o, s).claimed = c /\ Derive(c, o, s).observed = o
    BY DEF Derive
  <2>6. QED
    BY <2>3, <2>4, <2>5 DEF Agrees
<1>3. QED
  BY <1>1, <1>2

\* One spelling: what the resolve stage writes is what rederive would.
LEMMA ResolveFits ==
    ASSUME NEW a \in Level, NEW o \in Observed
    PROVE  /\ ResolveClaims(a, a, o) = Rederive(a, o)
           /\ Unchecked(a, a) \in SkillRow /\ Agrees(Unchecked(a, a))
<1>1. Lower(a, a) = a /\ Higher(a, a) = a /\ a # NoClaim
  BY DEF Lower, Higher, Level, NoClaim
<1>2. ResolveClaims(a, a, o) = Rederive(a, o)
  BY <1>1 DEF ResolveClaims, Rederive
<1>3. Unchecked(a, a) \in SkillRow
  BY <1>1 DEF Unchecked, SkillRow, Level, Observed, Nothing
<1>4. Agrees(Unchecked(a, a))
  BY <1>1 DEF Agrees, Unchecked, Rederive, Derive, Status, Final, Flag, Nothing
<1>5. QED
  BY <1>2, <1>3, <1>4

\* No step of one request at a time breaks the invariant.
LEMMA RowInvStep ==
    ASSUME OneRequest, RowInv, [Next]_vars
    PROVE  RowInv'
<1>. USE DEF RowInv
<1>1. CASE Resolve
  <2>1. row' \in SkillRow /\ Agrees(row')
    <3>1. PICK a \in Level, b \in Level :
             /\ TwoSpellings \/ a = b
             /\ \/ row' = Unchecked(a, b)
                \/ \E o \in Observed : row' = ResolveClaims(a, b, o)
      BY <1>1 DEF Resolve
    <3>2. a = b
      BY <3>1 DEF OneRequest
    <3>3. CASE row' = Unchecked(a, b)
      BY <3>2, <3>3, ResolveFits DEF Observed
    <3>4. CASE \E o \in Observed : row' = ResolveClaims(a, b, o)
      BY <3>2, <3>4, ResolveFits, RederiveFits
    <3>5. QED
      BY <3>1, <3>3, <3>4
  <2>2. req' \in [Requests -> Request]
    <3>1. Idle \in Request
      BY DEF Idle, Request, NoRow, SkillRow, NoClaim, Nothing, Observed
    <3>2. QED
      BY <1>1, <3>1 DEF Resolve
  <2>3. \A q \in Requests : req'[q].phase # "begun"
    BY <1>1 DEF Resolve, Idle
  <2>4. QED
    BY <1>1, <2>1, <2>2, <2>3 DEF Resolve, TypeOK, Current, Agrees
<1>2. ASSUME NEW q \in Requests, NEW c \in Level \cup {NoClaim}, NEW o \in Observed,
             BeginPatch(q, c, o)
      PROVE  RowInv'
  <2>. DEFINE new == IF c = row.claimed /\ o = row.observed THEN row ELSE Rederive(c, o)
  <2>1. new \in SkillRow /\ Agrees(new)
    BY <1>2, RederiveFits DEF BeginPatch, TypeOK
  <2>. HIDE DEF new
  <2>2. req' = [req EXCEPT ![q] = [phase |-> "begun", seen |-> row, new |-> new]]
    BY <1>2 DEF BeginPatch, new
  <2>3. req' \in [Requests -> Request]
    BY <2>1, <2>2 DEF TypeOK, Request
  <2>4. \A p \in Requests : p = q
    BY DEF OneRequest
  <2>5. req'[q].seen = row /\ req'[q].new = new
    BY <2>2 DEF TypeOK
  <2>6. row' = row /\ pinned' = pinned
    BY <1>2 DEF BeginPatch
  <2>7. Current(q)'
    BY <2>1, <2>5, <2>6 DEF Current, Agrees
  <2>8. QED
    BY <2>3, <2>4, <2>6, <2>7 DEF TypeOK, Agrees
<1>3. ASSUME NEW q \in Requests, CommitPatch(q)
      PROVE  RowInv'
  <2>1. req[q].seen = row /\ Agrees(req[q].new) /\ req[q] \in Request
    BY <1>3 DEF CommitPatch, Current, TypeOK
  <2>2. req[q].new \in SkillRow /\ row \in SkillRow
    BY <2>1 DEF Request, TypeOK
  <2>3. row' = [f \in DOMAIN row |-> req[q].new[f]]
    BY <1>3, <2>1 DEF CommitPatch
  <2>4. row' = req[q].new
    BY <2>2, <2>3 DEF SkillRow
  <2>5. req' = [req EXCEPT ![q] = Idle] /\ pinned' = TRUE
    BY <1>3 DEF CommitPatch
  <2>6. req' \in [Requests -> Request]
    <3>1. Idle \in Request
      BY DEF Idle, Request, NoRow, SkillRow, NoClaim, Nothing, Observed
    <3>2. QED
      BY <2>5, <3>1 DEF TypeOK
  <2>7. \A p \in Requests : req'[p].phase # "begun"
    BY <2>5 DEF OneRequest, Idle, TypeOK
  <2>8. QED
    BY <2>1, <2>2, <2>4, <2>5, <2>6, <2>7 DEF TypeOK, Current, Agrees
<1>4. CASE UNCHANGED vars
  BY <1>4 DEF vars, TypeOK, Current, Agrees
<1>5. QED
  BY <1>1, <1>2, <1>3, <1>4 DEF Next

\* As long as PATCH requests of a skill do not overlap and no skill is claimed
\* under two spellings, its verdict, flag and final level are always those of
\* the two levels next to them.
THEOREM OneRequestDerived == ASSUME OneRequest PROVE Spec => []DerivedColumns
<1>1. Init => RowInv
  <2>1. NoRow \in SkillRow
    BY DEF NoRow, SkillRow, NoClaim, Nothing, Observed
  <2>2. Idle \in Request /\ Idle.phase # "begun"
    BY <2>1 DEF Idle, Request
  <2>3. Agrees(NoRow)
    BY DEF NoRow, Agrees, Rederive, NoClaim, Nothing
  <2>4. QED
    BY <2>1, <2>2, <2>3 DEF Init, RowInv, TypeOK, Current
<1>2. RowInv /\ [Next]_vars => RowInv'
  BY RowInvStep
<1>3. RowInv => DerivedColumns
  BY DEF RowInv, DerivedColumns, Agrees
<1>4. QED
  BY <1>1, <1>2, <1>3, PTL DEF Spec

-----------------------------------------------------------------------------
(* ProfileAgent *)

\* What is about to be written is a profile that was validated.
ProfileInv == /\ output \in {"absent", "earlier profile", "valid"}
              /\ profilePc \in {"write", "replace"} => answer = "valid"
              /\ profilePc = "written" => output = "valid"

\* Every step of the agent keeps that, in whatever order the gateway fails, the
\* model errs and the process is killed (_parse_profile_text, write_json_atomic).
THEOREM OutputIsWholeHolds == ProfileSpec => []OutputIsWhole
<1>1. ProfileInit => ProfileInv
  BY DEF ProfileInit, ProfileInv
<1>2. ASSUME ProfileInv, [ProfileNext]_profileVars
      PROVE  ProfileInv'
  <2> USE ProfileInv DEF ProfileInv
  <2>1. CASE StartProfile
    BY <2>1 DEF StartProfile
  <2>2. CASE ExtractDocuments
    BY <2>2 DEF ExtractDocuments
  <2>3. CASE ConfigureGateway
    BY <2>3 DEF ConfigureGateway
  <2>4. CASE InvokeModel
    BY <2>4 DEF InvokeModel
  <2>5. CASE Parse
    BY <2>5 DEF Parse
  <2>6. CASE WriteTemporary
    BY <2>6 DEF WriteTemporary
  <2>7. CASE ReplaceOutput
    BY <2>7 DEF ReplaceOutput
  <2>8. CASE Kill
    BY <2>8 DEF Kill
  <2>9. CASE UNCHANGED profileVars
    BY <2>9 DEF profileVars
  <2>10. QED
    BY <1>2, <2>1, <2>2, <2>3, <2>4, <2>5, <2>6, <2>7, <2>8, <2>9 DEF ProfileNext, Agent
<1>3. ProfileInv => OutputIsWhole
  BY DEF ProfileInv, OutputIsWhole
<1>4. QED
  BY <1>1, <1>2, <1>3, PTL DEF ProfileSpec

-----------------------------------------------------------------------------
(* EvidenceAgent *)

\* Levels and strengths have a greatest one.
LEMMA MaxOfLevels ==
    ASSUME NEW S, S \subseteq 0 .. 3, S # {}
    PROVE  Max(S) \in S /\ \A y \in S : Max(S) >= y
<1>1. \E x \in S : \A y \in S : x >= y
  <2>1. CASE 3 \in S
    BY <2>1
  <2>2. CASE 3 \notin S /\ 2 \in S
    BY <2>2
  <2>3. CASE 3 \notin S /\ 2 \notin S /\ 1 \in S
    BY <2>3
  <2>4. CASE 3 \notin S /\ 2 \notin S /\ 1 \notin S
    <3>1. \A x \in S : x = 0
      BY <2>4
    <3>2. PICK x : x \in S
      OBVIOUS
    <3>3. QED
      BY <3>1, <3>2
  <2>5. QED
    BY <2>1, <2>2, <2>3, <2>4
<1>2. QED
  BY <1>1 DEF Max

\* A repository shows a level (repo_level).
LEMMA RepoLevelType == \A r : RepoLevel(r) \in 1 .. 3
  BY DEF RepoLevel

\* The level read for a skill is one of those its repositories show, and the
\* highest; without any it is Nothing (observe).
LEMMA ObservedIsHighest ==
    ASSUME NEW R, NEW k
    PROVE  /\ ObservedLevel(R, k) \in 0 .. 3
           /\ \A r \in Shown(R, k) : RepoLevel(r) <= ObservedLevel(R, k)
           /\ ObservedLevel(R, k) = Nothing \/ \E r \in Shown(R, k) : RepoLevel(r) = ObservedLevel(R, k)
<1> DEFINE S == {RepoLevel(r) : r \in Shown(R, k)} \cup {Nothing}
<1>1. S \subseteq 0 .. 3 /\ S # {}
  BY RepoLevelType DEF Nothing
<1>2. Max(S) \in S /\ \A y \in S : Max(S) >= y
  BY <1>1, MaxOfLevels
<1>3. ObservedLevel(R, k) = Max(S)
  BY DEF ObservedLevel
<1>4. QED
  BY <1>1, <1>2, <1>3

\* Fewer repositories show a skill at most as high (observe).
LEMMA ObservedGrows ==
    ASSUME NEW R, NEW some \in SUBSET R, NEW k
    PROVE  ObservedLevel(some, k) <= ObservedLevel(R, k)
<1>1. Shown(some, k) \subseteq Shown(R, k)
  BY DEF Shown
<1>2. QED
  BY <1>1, ObservedIsHighest DEF Nothing

\* Fewer repositories show a skill at most as strongly (observe, judge).
LEMMA StrengthGrows ==
    ASSUME NEW R, IsFiniteSet(R), NEW some \in SUBSET R, NEW k
    PROVE  Strength(some, k) <= Strength(R, k)
<1> DEFINE solid(Q) == {r \in Shown(Q, k) : RepoLevel(r) >= 2}
           n(Q) == Cardinality(solid(Q))
           m(Q) == Cardinality(Shown(Q, k))
<1>1. /\ Shown(some, k) \subseteq Shown(R, k) /\ Shown(R, k) \subseteq R
      /\ WeakOnly(some, k) => WeakOnly(R, k) \/ Shown(R, k) # {}
  BY DEF Shown, WeakOnly, Named
<1>2. solid(some) \subseteq solid(R) /\ solid(R) \subseteq R
  BY <1>1
<1>3. /\ IsFiniteSet(Shown(R, k)) /\ IsFiniteSet(Shown(some, k))
      /\ m(some) <= m(R) /\ m(some) \in Nat /\ m(R) \in Nat
  BY <1>1, FS_Subset, FS_CardinalityType
<1>4. IsFiniteSet(solid(R)) /\ IsFiniteSet(solid(some)) /\ n(some) <= n(R) /\ n(some) \in Nat /\ n(R) \in Nat
  <2> HIDE DEF solid
  <2>1. QED
    BY <1>2, FS_Subset, FS_CardinalityType
<1>5. ObservedLevel(some, k) <= ObservedLevel(R, k) /\ ObservedLevel(some, k) \in 0 .. 3 /\ ObservedLevel(R, k) \in 0 .. 3
  BY ObservedGrows, ObservedIsHighest
<1>6. ASSUME NEW Q \in {some, R}
      PROVE  Strength(Q, k) = IF Shown(Q, k) = {} THEN IF WeakOnly(Q, k) THEN 1 ELSE 0
                              ELSE IF n(Q) >= 2 \/ ObservedLevel(Q, k) = 3 THEN 3
                              ELSE IF n(Q) = 1 \/ m(Q) >= 2 THEN 2 ELSE 1
  BY DEF Strength
<1> HIDE DEF n, m, solid
<1>7. QED
  BY <1>1, <1>3, <1>4, <1>5, <1>6

\* The repositories do not change while the agent runs, and for the skills a
\* profile may claim the reading is monotone in them (observe).
THEOREM EvidenceNeverHurtsHolds == EvidenceSpec => []EvidenceNeverHurts
<1> DEFINE Inv == repos \in Repositories
<1>1. EvidenceInit => Inv
  BY DEF EvidenceInit
<1>2. Inv /\ [EvidenceNext]_evidenceVars => Inv'
  BY DEF EvidenceNext, Load, Assess, Verify, Invoke, Read, Reconcile, inputs, evidenceVars
<1>3. Inv => EvidenceNeverHurts
  BY EvidenceAssumption, ObservedGrows, StrengthGrows DEF EvidenceNeverHurts
<1>4. QED
  BY <1>1, <1>2, <1>3, PTL DEF EvidenceSpec

\* The highest claim of a skill is what is judged (from_profile_payload).
LEMMA ClaimIsHighest ==
    ASSUME NEW P \in Payloads, NEW p \in ToSet(P), SkillOf[p.name] # Unmapped
    PROVE  /\ SkillOf[p.name] \in ClaimedSkills(P)
           /\ Claims(P)[SkillOf[p.name]] \in Level /\ Claims(P)[SkillOf[p.name]] >= p.level
<1> DEFINE k == SkillOf[p.name]
           S == {c.level : c \in {c \in ToSet(P) : SkillOf[c.name] = k}}
<1>1. k \in ClaimedSkills(P)
  BY DEF ClaimedSkills
<1>2. S \subseteq Level /\ p.level \in S
  BY EvidenceAssumption
<1>3. S \subseteq 0 .. 3 /\ S # {}
  BY <1>2 DEF Level
<1>4. Max(S) \in S /\ Max(S) >= p.level
  BY <1>2, <1>3, MaxOfLevels
<1>5. Claims(P)[k] = Max(S)
  BY <1>1 DEF Claims
<1>6. QED
  BY <1>1, <1>2, <1>4, <1>5

\* What the report says of a skill follows from the claim and from the level it
\* shows, whether that is the rules' or the model's (judge, _accept).
Judged == /\ DOMAIN report = DOMAIN claim
          /\ \A k \in DOMAIN claim : /\ report[k].observed \in Observed
                                     /\ report[k].status = Status(claim[k], report[k].observed)

EvidenceInv == /\ payload \in Payloads
               /\ pc \notin {"load", "refused"} => claim = Claims(payload)
               /\ pc \in {"verify", "invoke", "read", "reconcile"} =>
                     \A k \in DOMAIN claim : rule[k].observed \in Observed
               /\ \A k \in DOMAIN verdict : verdict[k] \in Verdict
               /\ pc = "done" => Judged

\* Whatever the model answers or leaves out, and however its gateway fails, every
\* claim is reported, and verified only by a level as high as the claim
\* (from_profile_payload, reconcile).
THEOREM EveryClaimIsJudgedHolds == EvidenceSpec => []EveryClaimIsJudged
<1>1. EvidenceInit => EvidenceInv
  BY DEF EvidenceInit, EvidenceInv
<1>2. ASSUME EvidenceInv, [EvidenceNext]_evidenceVars
      PROVE  EvidenceInv'
  <2> USE <1>2
  <2>1. CASE Load
    BY <2>1 DEF Load, EvidenceInv
  <2>2. CASE Assess
    <3>1. \A k \in DOMAIN claim : rule'[k].observed \in Observed
      BY <2>2, ObservedIsHighest DEF Assess, RuleReading, Observed, Level, Nothing
    <3>2. QED
      BY <2>2, <3>1 DEF Assess, EvidenceInv
  <2>3. CASE Verify
    BY <2>3 DEF Verify, EvidenceInv, inputs
  <2>4. CASE Invoke
    BY <2>4 DEF Invoke, EvidenceInv, inputs
  <2>5. CASE Read
    <3>1. \A k \in DOMAIN verdict' : verdict'[k] \in Verdict
      BY <2>5 DEF Read, Partial, EvidenceInv
    <3>2. QED
      BY <2>5, <3>1 DEF Read, EvidenceInv, inputs
  <2>6. CASE Reconcile
    <3>1. UNCHANGED <<payload, claim>> /\ pc = "reconcile" /\ DOMAIN report' = DOMAIN claim
      BY <2>6 DEF Reconcile, inputs
    <3>2. ASSUME NEW k \in DOMAIN claim
          PROVE  /\ report'[k].observed \in Observed
                 /\ report'[k].status = Status(claim[k], report'[k].observed)
      <4>1. report'[k] = ByRules(k) \/ (k \in DOMAIN verdict /\ report'[k] = ByModel(k))
        BY <2>6 DEF Reconcile
      <4>2. rule[k].observed \in Observed
        BY <3>1 DEF EvidenceInv
      <4>3. /\ ByRules(k).observed \in Observed
            /\ ByRules(k).status = Status(claim[k], ByRules(k).observed)
        BY <4>2 DEF ByRules
      <4>4. ASSUME k \in DOMAIN verdict
            PROVE  /\ ByModel(k).observed \in Observed
                   /\ ByModel(k).status = Status(claim[k], ByModel(k).observed)
        <5>1. verdict[k].level \in Observed /\ verdict[k].cited \in BOOLEAN
          BY <4>4 DEF EvidenceInv, Verdict
        <5>2. Accepted(rule[k].observed, verdict[k].level, verdict[k].cited) \in Observed
          BY <4>2, <5>1, AcceptedIsBounded
        <5>3. QED
          BY <4>3, <5>2 DEF ByModel
      <4>5. QED
        BY <4>1, <4>3, <4>4
    <3>3. QED
      BY <2>6, <3>1, <3>2 DEF Reconcile, EvidenceInv, Judged
  <2>7. CASE UNCHANGED evidenceVars
    BY <2>7 DEF evidenceVars, EvidenceInv, Judged
  <2>8. QED
    BY <2>1, <2>2, <2>3, <2>4, <2>5, <2>6, <2>7 DEF EvidenceNext
<1>3. EvidenceInv => EveryClaimIsJudged
  <2>1. SUFFICES ASSUME EvidenceInv, pc = "done"
                 PROVE  /\ DOMAIN report = ClaimedSkills(payload)
                        /\ \A p \in ToSet(payload) : SkillOf[p.name] # Unmapped =>
                              (report[SkillOf[p.name]].status = "verified"
                               => report[SkillOf[p.name]].observed >= p.level)
    BY DEF EveryClaimIsJudged
  <2>2. DOMAIN report = ClaimedSkills(payload) /\ claim = Claims(payload)
    BY <2>1 DEF EvidenceInv, Judged, Claims
  <2>3. ASSUME NEW p \in ToSet(payload), SkillOf[p.name] # Unmapped,
               report[SkillOf[p.name]].status = "verified"
        PROVE  report[SkillOf[p.name]].observed >= p.level
    <3>1. PICK k, o : k = SkillOf[p.name] /\ o = report[k].observed
      OBVIOUS
    <3>2. k \in DOMAIN claim /\ claim[k] >= p.level /\ claim[k] \in Level /\ p.level \in Level
      BY <2>1, <2>2, <2>3, <3>1, ClaimIsHighest, EvidenceAssumption DEF EvidenceInv, Claims
    <3>3. o \in Observed /\ Status(claim[k], o) = "verified"
      BY <2>1, <2>3, <3>1, <3>2 DEF EvidenceInv, Judged
    <3>4. o >= claim[k]
      BY <3>3 DEF Status
    <3>5. QED
      BY <3>1, <3>2, <3>3, <3>4 DEF Level, Observed, Nothing
  <2>4. QED
    BY <2>2, <2>3
<1>4. QED
  BY <1>1, <1>2, <1>3, PTL DEF EvidenceSpec

-----------------------------------------------------------------------------
(* DraftRun *)

DraftSteps == {"start", "configure", "applicants", "projects", "matched", "drafted"} \cup Ended

\* The run that made the folder
Working(d) == draftPc[d] \notin {"start", "refused"}

DraftTypeOK == /\ draftPc \in [Drafts -> DraftSteps]
               /\ read \in [Drafts -> Nat]
               /\ offered \in [Drafts -> Nat]

\* What the folder holds of its run d so far
Holds(d) ==
    /\ "status" \in DOMAIN folder
    /\ draftPc[d] = "failed" => folder["status"].text = "failed"
    /\ draftPc[d] \notin {"failed", "draft"} => folder["status"].text = "running"
    /\ draftPc[d] \in {"projects", "matched", "drafted", "draft"} => read[d] = Inputs
    /\ read[d] > 0 => "resolved" \in DOMAIN folder /\ folder["resolved"].count = read[d]
    /\ draftPc[d] \in {"matched", "drafted", "draft"} =>
          offered[d] = Offers /\ {"matching-input", "scores"} \subseteq DOMAIN folder
    /\ draftPc[d] # "failed" /\ offered[d] > 0 =>
          /\ "catalog" \in DOMAIN folder
          /\ folder["catalog"].text = "valid" /\ folder["catalog"].count = offered[d]
    /\ draftPc[d] \in {"drafted", "draft"} => "assignment-draft" \in DOMAIN folder

DraftInv == /\ DraftTypeOK
            /\ folder = <<>> \/ \E d \in Drafts : Working(d)
            /\ \A d, e \in Drafts : Working(d) /\ Working(e) => d = e
            /\ \A d \in Drafts : IF Working(d) THEN Holds(d) ELSE read[d] = 0 /\ offered[d] = 0

\* A step of the run that makes or made the folder keeps the invariant when it
\* keeps what the folder holds of that run (mkdir with exist_ok=False).
LEMMA OneRunWrites ==
    ASSUME NEW d \in Drafts, DraftInv, Working(d) \/ folder = <<>>,
           NEW step \in DraftSteps \ {"start", "refused"}, GoOn(d, step) \/ (AtStep(d, step) /\ UNCHANGED draftPc),
           NEW n \in Nat, read' = [read EXCEPT ![d] = n],
           NEW m \in Nat, offered' = [offered EXCEPT ![d] = m],
           Holds(d)'
    PROVE  DraftInv'
<1>1. DraftTypeOK'
  BY DEF DraftInv, DraftTypeOK, GoOn
<1>2. draftPc'[d] = step /\ \A e \in Drafts \ {d} : draftPc'[e] = draftPc[e]
  BY DEF DraftInv, DraftTypeOK, GoOn, AtStep
<1>3. Working(d)'
  BY <1>2 DEF Working
<1>4. \A e \in Drafts \ {d} : ~ Working(e) /\ ~ Working(e)'
  BY <1>2 DEF DraftInv, Working, Holds
<1>5. \A e \in Drafts \ {d} : read'[e] = 0 /\ offered'[e] = 0
  BY <1>4 DEF DraftInv, DraftTypeOK
<1>6. QED
  BY <1>1, <1>3, <1>4, <1>5 DEF DraftInv

\* In every interleaving of the runs the folder has one writer, and what it
\* holds is what that writer's next step needs (run).
THEOREM ReviewIsPossibleHolds == DraftSpec => []ReviewIsPossible
<1>1. DraftInit => DraftInv
  BY DEF DraftInit, DraftInv, DraftTypeOK, DraftSteps, Working
<1>2. ASSUME DraftInv, [DraftNext]_draftVars
      PROVE  DraftInv'
  <2>1. CASE UNCHANGED draftVars
    BY <1>2, <2>1 DEF DraftInv, DraftTypeOK, Working, Holds, draftVars
  <2>2. SUFFICES ASSUME NEW d \in Drafts,
                        \/ MakeFolder(d) \/ ConfigureDraft(d) \/ Applicant(d) \/ ApplicantsDone(d)
                        \/ Project(d) \/ Match(d) \/ SaveDraft(d) \/ SaveStatus(d) \/ DraftDies(d)
                 PROVE  DraftInv'
    BY <1>2, <2>1 DEF DraftNext
  <2> USE <1>2
  <2>3. DraftTypeOK /\ (Working(d) => Holds(d)) /\ (~ Working(d) => read[d] = 0 /\ offered[d] = 0)
    BY DEF DraftInv
  <2>4. /\ read' = read => read' = [read EXCEPT ![d] = read[d]]
        /\ offered' = offered => offered' = [offered EXCEPT ![d] = offered[d]]
        /\ draftPc[d] \in DraftSteps /\ read[d] \in Nat /\ offered[d] \in Nat
    BY <2>3 DEF DraftTypeOK
  <2>5. CASE MakeFolder(d)
    <3>1. CASE folder # <<>>
      <4>1. draftPc' = [draftPc EXCEPT ![d] = "refused"] /\ draftPc[d] = "start" /\ UNCHANGED <<folder, read, offered>>
        BY <2>5, <3>1 DEF MakeFolder, GoOn, AtStep
      <4>2. DraftTypeOK'
        BY <4>1, <2>3 DEF DraftTypeOK, DraftSteps, Ended
      <4>3. \A e \in Drafts : Working(e)' <=> Working(e)
        BY <4>1, <2>3 DEF DraftTypeOK, Working
      <4>4. \A e \in Drafts : Working(e) => draftPc'[e] = draftPc[e]
        BY <4>1, <2>3 DEF DraftTypeOK, Working
      <4>5. \A e \in Drafts : Working(e) => Holds(e)'
        BY <4>1, <4>4 DEF DraftInv, Holds
      <4>6. QED
        BY <4>1, <4>2, <4>3, <4>5 DEF DraftInv
    <3>2. CASE folder = <<>>
      <4>1. folder' = StatusFile(folder, d, "running") /\ GoOn(d, "configure") /\ UNCHANGED <<read, offered>>
        BY <2>5, <3>2 DEF MakeFolder
      <4>2. draftPc'[d] = "configure" /\ read'[d] = 0 /\ offered'[d] = 0
        BY <2>3, <2>5, <4>1 DEF GoOn, DraftTypeOK, MakeFolder, AtStep, Working
      <4>3. Holds(d)'
        BY <4>1, <4>2 DEF Holds, StatusFile, Saved
      <4>4. "configure" \in DraftSteps \ {"start", "refused"}
        BY DEF DraftSteps
      <4>5. QED
        BY <4>1, <4>3, <4>4, <3>2, <2>4, OneRunWrites
    <3>3. QED
      BY <3>1, <3>2
  <2>6. ASSUME Fail(d), draftPc[d] \in {"configure", "applicants", "projects"}, UNCHANGED <<read, offered>>
        PROVE  DraftInv'
    <3>1. draftPc'[d] = "failed" /\ folder' = StatusFile(folder, d, "failed") /\ Working(d)
      BY <2>3, <2>6 DEF Fail, GoOn, DraftTypeOK, Working
    <3>2. Holds(d)'
      BY <3>1, <2>3, <2>6 DEF Holds, StatusFile, Saved
    <3>3. GoOn(d, "failed") /\ "failed" \in DraftSteps \ {"start", "refused"}
      BY <2>6 DEF Fail, DraftSteps, Ended
    <3>4. QED
      BY <2>4, <2>6, <3>1, <3>2, <3>3, OneRunWrites
  <2>7. CASE ConfigureDraft(d)
    <3>1. CASE Fail(d)
      BY <2>6, <2>7, <3>1 DEF ConfigureDraft, AtStep
    <3>2. CASE GoOn(d, "applicants") /\ UNCHANGED folder
      <4>1. draftPc'[d] = "applicants" /\ draftPc[d] = "configure" /\ Working(d) /\ UNCHANGED <<read, offered>>
        BY <2>3, <2>7, <3>2 DEF ConfigureDraft, AtStep, GoOn, DraftTypeOK, Working
      <4>2. Holds(d)'
        BY <4>1, <2>3, <3>2 DEF Holds
      <4>3. "applicants" \in DraftSteps \ {"start", "refused"}
        BY DEF DraftSteps
      <4>4. QED
        BY <4>1, <4>2, <4>3, <3>2, <2>4, OneRunWrites
    <3>3. QED
      BY <3>1, <3>2, <2>7 DEF ConfigureDraft
  <2>8. CASE Applicant(d)
    <3>1. CASE Fail(d) /\ UNCHANGED read
      BY <2>6, <2>8, <3>1 DEF Applicant, AtStep
    <3>2. CASE /\ read' = [read EXCEPT ![d] = @ + 1]
               /\ folder' = Saved(folder, d, "resolved", "", read'[d])
               /\ UNCHANGED draftPc
      <4>1. draftPc'[d] = "applicants" /\ draftPc[d] = "applicants" /\ Working(d) /\ UNCHANGED offered
        BY <2>8, <3>2 DEF Applicant, AtStep, Working
      <4>2. read'[d] = read[d] + 1 /\ read[d] + 1 \in Nat
        <5>1. read \in [Drafts -> Nat] /\ read' = [read EXCEPT ![d] = @ + 1]
          BY <2>3, <3>2 DEF DraftTypeOK
        <5>2. QED
          BY <5>1
      <4>3. Holds(d)'
        BY <4>1, <4>2, <2>3, <3>2 DEF Holds, Saved
      <4>4. "applicants" \in DraftSteps \ {"start", "refused"} /\ AtStep(d, "applicants")
        BY <4>1 DEF DraftSteps, AtStep
      <4>5. QED
        BY <4>1, <4>2, <4>3, <4>4, <3>2, <2>4, OneRunWrites
    <3>3. QED
      BY <3>1, <3>2, <2>8 DEF Applicant
  <2>9. CASE ApplicantsDone(d)
    <3>1. /\ draftPc'[d] = "projects" /\ draftPc[d] = "applicants" /\ read[d] = Inputs
          /\ Working(d) /\ UNCHANGED <<folder, read, offered>>
      BY <2>3, <2>9 DEF ApplicantsDone, AtStep, GoOn, DraftTypeOK, Working
    <3>2. Holds(d)'
      BY <3>1, <2>3 DEF Holds
    <3>3. GoOn(d, "projects") /\ "projects" \in DraftSteps \ {"start", "refused"}
      BY <2>9 DEF ApplicantsDone, DraftSteps
    <3>4. QED
      BY <3>1, <3>2, <3>3, <2>4, OneRunWrites
  <2>10. CASE Project(d)
    <3>1. CASE Fail(d) /\ UNCHANGED offered
      BY <2>6, <2>10, <3>1 DEF Project, AtStep
    <3>2. CASE /\ offered' = [offered EXCEPT ![d] = @ + 1]
               /\ \/ /\ folder' = Saved(folder, d, "catalog", "valid", offered'[d])
                     /\ UNCHANGED draftPc
                  \/ /\ \E text \in {"valid", "invalid"} :
                           folder' = StatusFile(Saved(folder, d, "catalog", text, offered'[d]),
                                                d, "failed")
                     /\ GoOn(d, "failed")
      <4>1. draftPc[d] = "projects" /\ Working(d) /\ UNCHANGED read
        BY <2>10 DEF Project, AtStep, Working
      <4>2. offered'[d] = offered[d] + 1 /\ offered[d] + 1 \in Nat
        BY <2>3, <3>2 DEF DraftTypeOK
      <4>3. CASE folder' = Saved(folder, d, "catalog", "valid", offered'[d]) /\ UNCHANGED draftPc
        <5>1. Holds(d)'
          BY <4>1, <4>2, <4>3, <2>3 DEF Holds, Saved
        <5>2. "projects" \in DraftSteps \ {"start", "refused"} /\ AtStep(d, "projects")
          BY <4>1 DEF DraftSteps, AtStep
        <5>3. QED
          BY <4>1, <4>2, <4>3, <5>1, <5>2, <3>2, <2>4, OneRunWrites
      <4>4. ASSUME NEW text, GoOn(d, "failed"),
                   folder' = StatusFile(Saved(folder, d, "catalog", text, offered'[d]), d, "failed")
            PROVE  DraftInv'
        <5>1. draftPc'[d] = "failed"
          BY <4>4, <2>3 DEF GoOn, DraftTypeOK
        <5>2. PICK saved : saved = Saved(folder, d, "catalog", text, offered'[d])
          OBVIOUS
        <5>3. /\ DOMAIN saved = DOMAIN folder \cup {"catalog"}
              /\ \A n \in DOMAIN folder \ {"catalog"} : saved[n] = folder[n]
          BY <5>2 DEF Saved
        <5>4. /\ DOMAIN folder' = DOMAIN saved \cup {"status"}
              /\ folder'["status"].text = "failed"
              /\ \A n \in DOMAIN saved \ {"status"} : folder'[n] = saved[n]
          BY <4>4, <5>2 DEF StatusFile, Saved
        <5>5. Holds(d)'
          BY <4>1, <5>1, <5>3, <5>4, <2>3 DEF Holds
        <5>6. "failed" \in DraftSteps \ {"start", "refused"}
          BY DEF DraftSteps, Ended
        <5>7. QED
          BY <4>1, <4>2, <4>4, <5>5, <5>6, <3>2, <2>4, OneRunWrites
      <4>5. QED
        BY <4>3, <4>4, <3>2
    <3>3. QED
      BY <3>1, <3>2, <2>10 DEF Project
  <2>11. CASE Match(d)
    <3> DEFINE input == Saved(folder, d, "matching-input", "", 0)
               scored == Saved(input, d, "scores", "", 0)
    <3>1. draftPc[d] = "projects" /\ Working(d) /\ offered[d] = Offers /\ UNCHANGED <<read, offered>>
      BY <2>11 DEF Match, AtStep, Working
    <3>2. /\ DOMAIN input = DOMAIN folder \cup {"matching-input"}
          /\ \A n \in DOMAIN folder \ {"matching-input"} : input[n] = folder[n]
      BY DEF Saved
    <3>3. /\ DOMAIN scored = DOMAIN input \cup {"scores"}
          /\ \A n \in DOMAIN input \ {"scores"} : scored[n] = input[n]
      BY DEF Saved
    <3> HIDE DEF input, scored
    <3>4. CASE folder' = scored /\ GoOn(d, "matched")
      <4>1. draftPc'[d] = "matched"
        BY <3>4, <2>3 DEF GoOn, DraftTypeOK
      <4>2. Holds(d)'
        BY <4>1, <3>1, <3>2, <3>3, <3>4, <2>3 DEF Holds
      <4>3. "matched" \in DraftSteps \ {"start", "refused"}
        BY DEF DraftSteps
      <4>4. QED
        BY <4>2, <4>3, <3>1, <3>4, <2>4, OneRunWrites
    <3>5. CASE folder' = StatusFile(scored, d, "failed") /\ GoOn(d, "failed")
      <4>1. draftPc'[d] = "failed"
        BY <3>5, <2>3 DEF GoOn, DraftTypeOK
      <4>2. /\ DOMAIN folder' = DOMAIN scored \cup {"status"}
            /\ folder'["status"].text = "failed"
            /\ \A n \in DOMAIN scored \ {"status"} : folder'[n] = scored[n]
        BY <3>5 DEF StatusFile, Saved
      <4>3. Holds(d)'
        BY <4>1, <4>2, <3>1, <3>2, <3>3, <2>3 DEF Holds
      <4>4. "failed" \in DraftSteps \ {"start", "refused"}
        BY DEF DraftSteps, Ended
      <4>5. QED
        BY <4>3, <4>4, <3>1, <3>5, <2>4, OneRunWrites
    <3>6. QED
      BY <3>4, <3>5, <2>11 DEF Match, input, scored
  <2>12. CASE SaveDraft(d)
    <3>1. draftPc[d] = "matched" /\ draftPc'[d] = "drafted" /\ Working(d) /\ UNCHANGED <<read, offered>>
      BY <2>12, <2>3 DEF SaveDraft, AtStep, Working, GoOn, DraftTypeOK
    <3>2. /\ DOMAIN folder' = DOMAIN folder \cup {"assignment-draft"}
          /\ \A n \in DOMAIN folder \ {"assignment-draft"} : folder'[n] = folder[n]
      BY <2>12 DEF SaveDraft, Saved
    <3>3. Holds(d)'
      BY <3>1, <3>2, <2>3 DEF Holds
    <3>4. GoOn(d, "drafted") /\ "drafted" \in DraftSteps \ {"start", "refused"}
      BY <2>12 DEF SaveDraft, DraftSteps
    <3>5. QED
      BY <3>1, <3>3, <3>4, <2>4, OneRunWrites
  <2>13. CASE SaveStatus(d)
    <3>1. draftPc[d] = "drafted" /\ draftPc'[d] = "draft" /\ Working(d) /\ UNCHANGED <<read, offered>>
      BY <2>13, <2>3 DEF SaveStatus, AtStep, Working, GoOn, DraftTypeOK
    <3>2. /\ DOMAIN folder' = DOMAIN folder \cup {"status"}
          /\ \A n \in DOMAIN folder \ {"status"} : folder'[n] = folder[n]
      BY <2>13 DEF SaveStatus, StatusFile, Saved
    <3>3. Holds(d)'
      BY <3>1, <3>2, <2>3 DEF Holds
    <3>4. GoOn(d, "draft") /\ "draft" \in DraftSteps \ {"start", "refused"}
      BY <2>13 DEF SaveStatus, DraftSteps, Ended
    <3>5. QED
      BY <3>1, <3>3, <3>4, <2>4, OneRunWrites
  <2>14. CASE DraftDies(d)
    <3>1. draftPc[d] \notin {"failed", "draft", "dead"} /\ draftPc'[d] = "dead" /\ Working(d) /\ UNCHANGED <<folder, read, offered>>
      BY <2>14, <2>3 DEF DraftDies, Ended, Working, GoOn, DraftTypeOK
    <3>2. Holds(d)'
      BY <3>1, <2>3 DEF Holds
    <3>3. GoOn(d, "dead") /\ "dead" \in DraftSteps \ {"start", "refused"}
      BY <2>14 DEF DraftDies, DraftSteps, Ended
    <3>4. QED
      BY <3>1, <3>2, <3>3, <2>4, OneRunWrites
  <2>15. QED
    BY <2>2, <2>5, <2>7, <2>8, <2>9, <2>10, <2>11, <2>12, <2>13, <2>14
<1>3. DraftInv => ReviewIsPossible
  <2>1. SUFFICES ASSUME DraftInv, "status" \in DOMAIN folder, folder["status"].text = "draft_requires_review"
                 PROVE  /\ {"resolved", "catalog", "matching-input", "scores", "assignment-draft"} \subseteq DOMAIN folder
                        /\ folder["resolved"].count = Inputs
                        /\ folder["catalog"].text = "valid" /\ folder["catalog"].count = Offers
    BY DEF ReviewIsPossible
  <2>2. PICK d \in Drafts : Working(d)
    BY <2>1 DEF DraftInv
  <2>3. Holds(d) /\ draftPc[d] = "draft"
    BY <2>1, <2>2 DEF DraftInv, Holds
  <2>4. QED
    BY <2>3, ManifestAssumption DEF Holds
<1>4. QED
  BY <1>1, <1>2, <1>3, PTL DEF DraftSpec

-----------------------------------------------------------------------------
(* OrchestratorRun *)

Everything == RunApplicants \cup ProjectInputs \cup (RunApplicants \X ProjectInputs)

RunTypeOK ==
    /\ given.applicants \subseteq RunApplicants /\ given.projects \subseteq ProjectInputs
    /\ memory \in Seq(SUBSET Everything) /\ Len(memory) <= 5
    /\ disk \in [1 .. 5 -> {Absent, Torn} \cup {File(units) : units \in SUBSET Everything}]

IsFile(i) == disk[i] # Absent /\ disk[i] # Torn

\* A stage has a file, torn or not, only when the stage before it has a whole
\* one, and the files fit each other, whenever each of them was written.
FilesFit == /\ \A i \in 2 .. 5 : disk[i] # Absent => IsFile(i - 1)
            /\ IsFile(1) => disk[1].units \subseteq RunApplicants
            /\ IsFile(2) => disk[2].units = disk[1].units
            /\ IsFile(3) => disk[3].units = disk[2].units
            /\ IsFile(4) => disk[4].units \subseteq ProjectInputs
            /\ IsFile(5) => disk[5].units = disk[3].units \X disk[4].units

\* What a call of run has in memory is what is in the files.
MemoryFits == \A i \in 1 .. Len(memory) : disk[i] = File(memory[i])

\* The stage being computed has no whole file, and its units come from the
\* stages before it.
StageFits == unit # <<>> => /\ running /\ stage \in 1 .. 5
                            /\ ~ IsFile(stage)
                            /\ DOMAIN unit = Units

RunInv == /\ RunTypeOK /\ FilesFit /\ MemoryFits /\ StageFits
          /\ outcome = "assigned" => ~ running /\ AssignmentValid

\* An absent, a torn and a whole file are three different things.
LEMMA FilesDiffer ==
    /\ Absent # Torn
    /\ \A units : File(units) # Absent /\ File(units) # Torn /\ File(units).units = units
  BY DEF Absent, Torn, File

\* The units of a stage are what its file has to hold (the arguments of fan_out).
LEMMA UnitsFit ==
    ASSUME RunTypeOK, FilesFit, MemoryFits, stage \in 1 .. 5
    PROVE  /\ Units \subseteq Everything
           /\ stage > 1 => IsFile(stage - 1)
           /\ stage = 1 => Units \subseteq RunApplicants
           /\ stage = 2 => Units = disk[1].units
           /\ stage = 3 => Units = disk[2].units
           /\ stage = 4 => Units \subseteq ProjectInputs
           /\ stage = 5 => Units = disk[3].units \X disk[4].units
<1>1. \A i \in 1 .. Len(memory) : IsFile(i) /\ memory[i] = disk[i].units
  BY FilesDiffer DEF MemoryFits, IsFile
<1>2. Len(memory) \in Nat /\ Len(memory) + 1 = stage
  BY DEF RunTypeOK, stage
<1>3. \A i \in 1 .. Len(memory) : disk[i].units \subseteq Everything
  BY <1>1 DEF RunTypeOK
<1>4. CASE stage = 1
  <2>1. Units = given.applicants
    BY <1>4 DEF Units
  <2>2. QED
    BY <1>4, <2>1 DEF RunTypeOK, Everything
<1>5. CASE stage = 2
  <2>1. Units = memory[1]
    BY <1>5 DEF Units
  <2>2. QED
    BY <1>1, <1>2, <1>3, <1>5, <2>1
<1>6. CASE stage = 3
  <2>1. Units = memory[1] \cap memory[2]
    BY <1>6 DEF Units
  <2>2. QED
    BY <1>1, <1>2, <1>3, <1>6, <2>1 DEF FilesFit
<1>7. CASE stage = 4
  <2>1. Units = given.projects
    BY <1>7 DEF Units
  <2>2. QED
    BY <1>1, <1>2, <1>7, <2>1 DEF RunTypeOK, Everything
<1>8. CASE stage = 5
  <2>1. Units = memory[3] \X memory[4]
    BY <1>8 DEF Units
  <2>2. /\ memory[3] = disk[3].units /\ memory[4] = disk[4].units
        /\ memory[3] \subseteq RunApplicants /\ memory[4] \subseteq ProjectInputs
    BY <1>1, <1>2, <1>8 DEF FilesFit
  <2>3. QED
    BY <1>1, <1>2, <1>8, <2>1, <2>2 DEF Everything
<1>9. QED
  BY <1>4, <1>5, <1>6, <1>7, <1>8

\* Writing the file of the current stage, first torn and then whole, keeps the
\* files together (stage).
LEMMA WritingFits ==
    ASSUME RunTypeOK, FilesFit, MemoryFits, NEW k \in 1 .. 5, k = stage, ~ IsFile(k),
           NEW file \in {Torn, File(Units)}, disk' = [disk EXCEPT ![k] = file]
    PROVE  FilesFit'
<1>1. /\ disk \in [1 .. 5 -> {Absent, Torn} \cup {File(units) : units \in SUBSET Everything}]
      /\ disk'[k] = file /\ \A i \in 1 .. 5 : i # k => disk'[i] = disk[i]
      /\ k \in Int
  BY DEF RunTypeOK
<1>2. ASSUME NEW i \in 2 .. 5, disk'[i] # Absent
      PROVE  IsFile(i - 1)'
  <2>1. CASE i = k
    BY <1>1, <2>1, UnitsFit DEF IsFile
  <2>2. CASE i # k
    BY <1>1, <1>2, <2>2 DEF IsFile, FilesFit
  <2>3. QED
    BY <2>1, <2>2
<1>3. IsFile(k)' => file = File(Units) /\ disk'[k].units = Units
  BY <1>1, FilesDiffer DEF IsFile
<1>4. \A i \in 1 .. 5 : i # k => (IsFile(i)' <=> IsFile(i)) /\ disk'[i] = disk[i]
  BY <1>1 DEF IsFile
<1>5. \A i \in 1 .. 5 : i >= k => ~ IsFile(i)
  <2>1. \A i \in 2 .. 5 : IsFile(i) => IsFile(i - 1)
    BY DEF FilesFit, IsFile
  <2>2. QED
    BY <2>1
<1>6. /\ k > 1 => IsFile(k - 1)
      /\ k = 1 => Units \subseteq RunApplicants
      /\ k = 2 => Units = disk[1].units
      /\ k = 3 => Units = disk[2].units
      /\ k = 4 => Units \subseteq ProjectInputs
      /\ k = 5 => Units = disk[3].units \X disk[4].units
  BY UnitsFit
<1>7. QED
  <2>1. CASE k = 1
    BY <1>2, <1>3, <1>4, <1>5, <2>1, <1>6 DEF FilesFit
  <2>2. CASE k = 2
    BY <1>2, <1>3, <1>4, <1>5, <2>2, <1>6 DEF FilesFit
  <2>3. CASE k = 3
    BY <1>2, <1>3, <1>4, <1>5, <2>3, <1>6 DEF FilesFit
  <2>4. CASE k = 4
    BY <1>2, <1>3, <1>4, <1>5, <2>4, <1>6 DEF FilesFit
  <2>5. CASE k = 5
    BY <1>2, <1>3, <1>4, <1>5, <2>5, <1>6 DEF FilesFit
  <2>6. QED
    BY <2>1, <2>2, <2>3, <2>4, <2>5

\* The seats of some projects, and who of a placement is placed in a project
SeatsOf(projects) == UNION {{p} \X (1 .. Capacity[p]) : p \in projects}
TeamOf(placed, p) == {a \in DOMAIN placed : placed[a] = p}

\* A project gets no more applicants than seats when no two applicants get one
\* seat: the mapping from seats back to projects that solve calls "the single
\* most likely place for a silent bug".
LEMMA SeatsBound ==
    ASSUME NEW who, NEW projects \in SUBSET ProjectInputs,
           NEW seat \in Injection(who, SeatsOf(projects)),
           NEW placed, placed = [a \in who |-> seat[a][1]]
    PROVE  /\ \A a \in who : placed[a] \in projects
           /\ \A p \in projects : Cardinality(TeamOf(placed, p)) <= Capacity[p]
<1>1. \A a \in who : \E p \in projects : \E i \in 1 .. Capacity[p] : seat[a] = <<p, i>>
  BY DEF Injection, SeatsOf
<1>2. \A a, b \in who : seat[a] = seat[b] => a = b
  BY DEF Injection, IsInjective
<1>3. \A a \in who : placed[a] \in projects
  BY <1>1
<1>4. ASSUME NEW p \in projects
      PROVE  Cardinality(TeamOf(placed, p)) <= Capacity[p]
  <2> DEFINE team == TeamOf(placed, p)
             number == [a \in team |-> seat[a][2]]
  <2>1. team \subseteq who /\ \A a \in team : seat[a][2] \in 1 .. Capacity[p] /\ seat[a] = <<p, seat[a][2]>>
    BY <1>1 DEF TeamOf
  <2>2. number \in Injection(team, 1 .. Capacity[p])
    BY <1>2, <2>1 DEF Injection, IsInjective
  <2>3. Capacity[p] \in Nat
    BY CapacityAssumption
  <2> HIDE DEF team, number
  <2>4. IsFiniteSet(1 .. Capacity[p]) /\ Cardinality(1 .. Capacity[p]) = Capacity[p]
    <3>1. PICK n \in Nat : n = Capacity[p]
      BY <2>3
    <3>2. 1 \in Int /\ n \in Int
      OBVIOUS
    <3>3. IsFiniteSet(1 .. n) /\ Cardinality(1 .. n) = IF 1 > n THEN 0 ELSE n - 1 + 1
      BY <3>2, FS_Interval
    <3>4. Cardinality(1 .. n) = n
      BY <3>3
    <3>5. QED
      BY <3>1, <3>3, <3>4
  <2>5. Cardinality(team) <= Cardinality(1 .. Capacity[p])
    BY <2>2, <2>4, FS_Injection
  <2>6. QED
    BY <2>4, <2>5 DEF team
<1>5. QED
  BY <1>3, <1>4

\* However often run is called again, whatever it is given and wherever it
\* stopped, the stage files on disk belong together, and so do the results that
\* are loaded from them or computed behind them (run, stage, solve, validate).
THEOREM MatrixFitsHolds == RunSpec => []MatrixFits
<1>1. RunInit => RunInv
  <2>1. SUFFICES ASSUME RunInit PROVE RunInv
    OBVIOUS
  <2>2. DOMAIN Stages = 1 .. 5
    BY DEF Stages
  <2>3. RunTypeOK /\ \A i \in 1 .. 5 : ~ IsFile(i) /\ disk[i] = Absent
    BY <2>1, <2>2 DEF RunInit, RunTypeOK, IsFile
  <2>4. QED
    BY <2>1, <2>3 DEF RunInit, RunInv, FilesFit, MemoryFits, StageFits
<1>2. ASSUME RunInv, [RunNext]_runVars
      PROVE  RunInv'
  <2> USE <1>2
  <2>1. /\ RunTypeOK /\ FilesFit /\ MemoryFits /\ StageFits
        /\ outcome = "assigned" => ~ running /\ AssignmentValid
    BY DEF RunInv
  <2>2. Len(memory) \in Nat /\ stage = Len(memory) + 1 /\ DOMAIN Stages = 1 .. 5 /\ Len(Stages) = 5
    BY <2>1 DEF RunTypeOK, stage, Stages
  <2>3. UNCHANGED disk => (FilesFit' /\ \A i \in 1 .. 5 : IsFile(i)' <=> IsFile(i))
    BY <2>1 DEF FilesFit, IsFile
  <2>4. UNCHANGED <<memory, disk>> => (MemoryFits' /\ stage' = stage)
    BY <2>1 DEF MemoryFits, stage
  <2>5. UNCHANGED <<memory, given>> => Units' = Units
    BY DEF Units, stage
  <2>6. CASE Run
    <3>1. RunTypeOK' /\ MemoryFits'
      BY <2>1, <2>6 DEF Run, RunTypeOK, MemoryFits
    <3>2. QED
      BY <2>3, <2>6, <3>1 DEF Run, RunInv, StageFits
  <2>7. CASE LoadStage
    <3>1. /\ running /\ unit = <<>> /\ unit' = <<>> /\ stage \in 1 .. 5 /\ disk[stage] # Absent
          /\ UNCHANGED <<disk, given, assignment>> /\ outcome # "assigned" /\ outcome' # "assigned"
      BY <2>1, <2>2, <2>7 DEF LoadStage
    <3>2. CASE disk[stage] = Torn
      <4>1. UNCHANGED memory
        BY <2>7, <3>2 DEF LoadStage
      <4>2. QED
        BY <2>1, <2>3, <2>4, <3>1, <4>1 DEF RunInv, RunTypeOK, StageFits
    <3>3. CASE disk[stage] # Torn
      <4>1. memory' = Append(memory, disk[stage].units)
        BY <2>7, <3>3 DEF LoadStage
      <4>2. disk[stage] = File(disk[stage].units) /\ disk[stage].units \subseteq Everything
        BY <2>1, <3>1, <3>3, FilesDiffer DEF RunTypeOK
      <4>3. RunTypeOK'
        BY <2>1, <2>2, <3>1, <4>1, <4>2 DEF RunTypeOK
      <4>4. MemoryFits'
        BY <2>1, <2>2, <3>1, <4>1, <4>2 DEF MemoryFits, RunTypeOK
      <4>5. QED
        BY <2>3, <3>1, <4>3, <4>4 DEF RunInv, StageFits
    <3>4. QED
      BY <3>2, <3>3
  <2>8. CASE StartStage
    <3>1. /\ running /\ running' /\ stage \in 1 .. 5 /\ disk[stage] = Absent /\ DOMAIN unit' = Units
          /\ UNCHANGED <<disk, memory, given, outcome, assignment>>
      BY <2>2, <2>8 DEF StartStage
    <3>2. StageFits'
      BY <2>4, <2>5, <3>1 DEF StageFits, IsFile
    <3>3. QED
      BY <2>1, <2>3, <2>4, <3>1, <3>2 DEF RunInv, RunTypeOK
  <2>9. ASSUME NEW u \in DOMAIN unit, TakeUnit(u) \/ Attempt(u)
        PROVE  RunInv'
    <3>1. /\ running /\ running' /\ unit # <<>> /\ DOMAIN unit' = DOMAIN unit
          /\ UNCHANGED <<disk, memory, given, outcome, assignment>>
      BY <2>9 DEF TakeUnit, Attempt, Computing
    <3>2. StageFits'
      BY <2>1, <2>4, <2>5, <3>1 DEF StageFits, IsFile
    <3>3. QED
      BY <2>1, <2>3, <2>4, <3>1, <3>2 DEF RunInv, RunTypeOK
  <2>10. CASE StageRaises
    BY <2>1, <2>3, <2>4, <2>10 DEF StageRaises, RunInv, RunTypeOK, StageFits
  <2>11. CASE Crash
    BY <2>1, <2>3, <2>4, <2>11 DEF Crash, RunInv, RunTypeOK, StageFits
  <2>12. CASE OpenFile
    <3>1. PICK k : k = stage
      OBVIOUS
    <3>2. /\ running /\ running' /\ outcome' = outcome /\ unit # <<>> /\ unit' = unit
          /\ k \in 1 .. 5 /\ ~ IsFile(k) /\ DOMAIN unit = Units
          /\ disk' = [disk EXCEPT ![k] = Torn] /\ UNCHANGED <<memory, given, assignment>>
      BY <2>1, <2>12, <3>1 DEF OpenFile, Computing, StageFits
    <3>3. FilesFit'
      BY <2>1, <3>1, <3>2, WritingFits
    <3>4. RunTypeOK' /\ disk'[k] = Torn /\ \A i \in 1 .. 5 : i # k => disk'[i] = disk[i]
      BY <2>1, <3>2 DEF RunTypeOK
    <3>5. MemoryFits'
      BY <2>1, <2>2, <3>1, <3>2, <3>4 DEF MemoryFits
    <3>6. stage' = k /\ Units' = Units
      BY <2>5, <3>1, <3>2 DEF stage
    <3>7. StageFits'
      BY <3>2, <3>4, <3>6 DEF StageFits, IsFile
    <3>8. QED
      BY <2>1, <3>2, <3>3, <3>4, <3>5, <3>7 DEF RunInv
  <2>13. CASE FillFile
    <3>1. PICK k : k = stage
      OBVIOUS
    <3>2. /\ running /\ running' = running /\ outcome' = outcome /\ unit' = <<>>
          /\ k \in 1 .. 5 /\ ~ IsFile(k) /\ DOMAIN unit = Units
          /\ disk' = [disk EXCEPT ![k] = File(Units)] /\ memory' = Append(memory, Units)
          /\ UNCHANGED <<given, assignment>>
      BY <2>1, <2>13, <3>1 DEF FillFile, Computing, StageFits
    <3>3. FilesFit'
      BY <2>1, <3>1, <3>2, WritingFits
    <3>4. Units \subseteq Everything
      BY <2>1, <3>1, <3>2, UnitsFit
    <3>5. RunTypeOK' /\ disk'[k] = File(Units) /\ \A i \in 1 .. 5 : i # k => disk'[i] = disk[i]
      BY <2>1, <2>2, <3>1, <3>2, <3>4 DEF RunTypeOK
    <3>6. MemoryFits'
      BY <2>1, <2>2, <3>1, <3>2, <3>4, <3>5 DEF MemoryFits, RunTypeOK
    <3>7. QED
      BY <2>1, <3>2, <3>3, <3>5, <3>6 DEF RunInv, StageFits
  <2>14. CASE Assign
    <3>1. /\ ~ running' /\ running /\ Len(memory) = 5 /\ UNCHANGED <<given, disk, memory, unit>>
      BY <2>1, <2>2, <2>14 DEF Assign, RunTypeOK
    <3>2. unit = <<>>
      BY <2>1, <2>2, <3>1 DEF StageFits
    <3>3. RunTypeOK' /\ FilesFit' /\ MemoryFits' /\ StageFits'
      BY <2>1, <2>3, <2>4, <3>1, <3>2 DEF RunTypeOK, StageFits
    <3>4. memory[4] \in SUBSET ProjectInputs
      <4>1. disk[4] = File(memory[4])
        BY <2>1, <3>1 DEF MemoryFits
      <4>2. QED
        BY <2>1, <4>1, FilesDiffer DEF FilesFit, IsFile
    <3>5. ASSUME outcome' = "assigned" PROVE AssignmentValid'
      <4>1. outcome # "assigned"
        BY <2>1, <3>1
      <4>2. PICK seat \in Injection(memory[3], Seats) :
              assignment' = [a \in memory[3] |-> seat[a][1]]
        BY <2>14, <3>5, <4>1 DEF Assign
      <4>3. /\ \A a \in memory[3] : assignment'[a] \in memory[4]
            /\ \A p \in memory[4] : Cardinality(TeamOf(assignment', p)) <= Capacity[p]
        <5>1. PICK who, projects, placed : who = memory[3] /\ projects = memory[4] /\ placed = assignment'
          OBVIOUS
        <5>2. /\ projects \in SUBSET ProjectInputs
              /\ seat \in Injection(who, SeatsOf(projects))
              /\ placed = [a \in who |-> seat[a][1]]
          BY <3>4, <4>2, <5>1 DEF Seats, SeatsOf
        <5>3. /\ \A a \in who : placed[a] \in projects
              /\ \A p \in projects : Cardinality(TeamOf(placed, p)) <= Capacity[p]
          BY <5>2, SeatsBound
        <5>4. QED
          BY <5>1, <5>3
      <4>4. DOMAIN assignment' = memory[3] /\ Range(assignment') = {assignment'[a] : a \in memory[3]}
        BY <4>2 DEF Range
      <4>5. QED
        BY <3>1, <4>3, <4>4 DEF AssignmentValid, TeamOf
    <3>6. QED
      BY <3>1, <3>3, <3>5 DEF RunInv
  <2>15. CASE UNCHANGED runVars
    <3>1. UNCHANGED <<given, disk, memory, running, outcome, unit, assignment>>
      BY <2>15 DEF runVars
    <3>2. AssignmentValid => AssignmentValid'
      BY <3>1 DEF AssignmentValid
    <3>3. QED
      BY <2>1, <2>3, <2>4, <2>5, <3>1, <3>2 DEF RunInv, RunTypeOK, StageFits
  <2>16. QED
    BY <1>2, <2>6, <2>7, <2>8, <2>9, <2>10, <2>11, <2>12, <2>13, <2>14, <2>15 DEF RunNext
<1>3. RunInv => MatrixFits
  <2>1. SUFFICES ASSUME RunInv, Len(memory) = 5
                 PROVE  /\ memory[1] = memory[2] /\ memory[2] = memory[3]
                        /\ memory[5] = memory[3] \X memory[4]
    BY DEF MatrixFits, RunInv, Stages
  <2>2. \A i \in 1 .. 5 : IsFile(i) /\ memory[i] = disk[i].units
    BY <2>1, FilesDiffer DEF RunInv, MemoryFits, IsFile
  <2>3. QED
    BY <2>1, <2>2 DEF RunInv, FilesFit
<1>4. QED
  BY <1>1, <1>2, <1>3, PTL DEF RunSpec
=============================================================================
