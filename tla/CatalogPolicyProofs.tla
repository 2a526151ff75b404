------------------------- MODULE CatalogPolicyProofs ------------------------
(***************************************************************************)
(* Lemmas about the operators of CatalogProfile and CatalogPolicy: what a  *)
(* built profile and its validation hold, that the policy's choice of an   *)
(* issue exists, and what its choice of a recovery says of the history.    *)
(***************************************************************************)
EXTENDS CatalogPolicy, FiniteSetTheorems, WellFoundedInduction, TLAPS

\* Every set of natural numbers has a least element: among the intervals that
\* start at 0 and end in it, one is smallest by inclusion.
LEMMA LeastNat ==
    ASSUME NEW S \in SUBSET Nat, S # {}
    PROVE  \E i \in S : \A j \in S : i <= j
<1> DEFINE T == {0 .. i : i \in S}
<1>1. T \subseteq FiniteSubsetsOf(Nat)
  <2>1. \A i \in S : 0 .. i \in SUBSET Nat /\ i \in Int /\ 0 \in Int
    OBVIOUS
  <2>2. \A i \in S : IsFiniteSet(0 .. i)
    BY <2>1, FS_Interval
  <2>3. QED
    BY <2>1, <2>2 DEF FiniteSubsetsOf
<1>2. T # {}
  OBVIOUS
<1>3. PICK U \in T : \A V \in T : ~ (<<V, U>> \in StrictSubsetOrdering(Nat))
  <2> HIDE DEF T
  <2> QED
    BY <1>1, <1>2, FS_StrictSubsetOrderingWellFounded, WFMin
<1>4. PICK i \in S : U = 0 .. i
  BY <1>3
<1>5. ASSUME NEW j \in S
      PROVE  i <= j
  <2>1. ~ (<<0 .. j, 0 .. i>> \in StrictSubsetOrdering(Nat))
    BY <1>3, <1>4
  <2>2. 0 .. j \in SUBSET Nat /\ 0 .. i \in SUBSET Nat
    OBVIOUS
  <2>3. ~ (0 .. j \subseteq 0 .. i /\ 0 .. j # 0 .. i)
    <3> DEFINE V == 0 .. j  W == 0 .. i
    <3>1. V \in SUBSET Nat /\ W \in SUBSET Nat /\ ~ (<<V, W>> \in StrictSubsetOrdering(Nat))
      BY <2>1, <2>2
    <3> HIDE DEF V, W
    <3>2. ~ (V \subseteq W /\ V # W)
      BY <3>1 DEF StrictSubsetOrdering
    <3>3. QED
      BY <3>2 DEF V, W
  <2>4. j < i => 0 .. j \subseteq 0 .. i /\ i \in 0 .. i /\ i \notin 0 .. j
    OBVIOUS
  <2>5. QED
    BY <2>3, <2>4
<1>6. QED
  BY <1>4, <1>5

\* The first of some numbers is one of them, and no later than any of them.
LEMMA EarliestIs ==
    ASSUME NEW S \in SUBSET Nat, S # {}
    PROVE  Earliest(S) \in S /\ \A j \in S : Earliest(S) <= j
BY LeastNat DEF Earliest

\* Among some things that are numbered, one has the least number.
LEMMA LeastBy ==
    ASSUME NEW S, S # {}, NEW f \in [S -> Nat]
    PROVE  \E a \in S : \A b \in S : f[a] <= f[b]
<1> DEFINE R == {f[a] : a \in S}
<1>1. R \in SUBSET Nat /\ R # {}
  OBVIOUS
<1>2. PICK i \in R : \A j \in R : i <= j
  <2> HIDE DEF R
  <2> QED
    BY <1>1, LeastNat
<1>3. QED
  BY <1>2

\* The issues a validation may hold.
RealIssues == [code : Codes, at : Nat, sub : Nat]

\* An issue is ordered by four numbers.
LEMMA SortKeyIs ==
    ASSUME NEW a \in RealIssues
    PROVE  \E p, n, i, j \in Nat : SortKey(a) = <<p, n, i, j>>
<1>1. Priority(a.code) \in Nat
  BY DEF RealIssues, Priority, Codes, ExtractionIssues
<1>2. PICK n, i, j \in Nat : Listed(a) = <<n, i, j>>
  BY DEF RealIssues, Listed, Codes, ExtractionIssues
<1>3. QED
  BY <1>1, <1>2 DEF SortKey

\* The order of issues is lexicographic, so a non-empty set has a first one.
LEMMA SelectedIs ==
    ASSUME NEW S \in SUBSET RealIssues, S # {}
    PROVE  Selected(S) \in S
<1> DEFINE f(k) == [a \in S |-> SortKey(a)[k]]
           Best(k, T) == {a \in T : \A b \in T : f(k)[a] <= f(k)[b]}
<1>1. ASSUME NEW k \in 1 .. 4, NEW T \in SUBSET S, T # {}
      PROVE  Best(k, T) # {} /\ Best(k, T) \subseteq T
  <2>1. \A a \in T : SortKey(a)[k] \in Nat
    BY SortKeyIs
  <2>2. [a \in T |-> SortKey(a)[k]] \in [T -> Nat]
    BY <2>1
  <2>3. PICK a \in T : \A b \in T : [c \in T |-> SortKey(c)[k]][a] <= [c \in T |-> SortKey(c)[k]][b]
    BY <2>2, <1>1, LeastBy
  <2>4. QED
    BY <2>3
<1> DEFINE S1 == Best(1, S)  S2 == Best(2, S1)  S3 == Best(3, S2)  S4 == Best(4, S3)
<1>2. S1 # {} /\ S1 \subseteq S
  <2> HIDE DEF Best
  <2> QED BY <1>1
<1>3. S2 # {} /\ S2 \subseteq S1
  <2> HIDE DEF Best, S1
  <2> QED BY <1>1, <1>2
<1>4. S3 # {} /\ S3 \subseteq S2
  <2> HIDE DEF Best, S1, S2
  <2> QED BY <1>1, <1>2, <1>3
<1>5. S4 # {} /\ S4 \subseteq S3
  <2> HIDE DEF Best, S1, S2, S3
  <2> QED BY <1>1, <1>2, <1>3, <1>4
<1>6. PICK a \in S4 : TRUE
  BY <1>5
<1>7. ASSUME NEW b \in S
      PROVE  NotAfter(a, b)
  <2>0. a \in S /\ a \in S1 /\ a \in S2 /\ a \in S3 /\ a \in S4
    <3> HIDE DEF S1, S2, S3, S4
    <3> QED BY <1>2, <1>3, <1>4, <1>5, <1>6
  <2>1. PICK p, n, i, j \in Nat : SortKey(a) = <<p, n, i, j>>
    BY <2>0, SortKeyIs
  <2>2. PICK q, m, g, h \in Nat : SortKey(b) = <<q, m, g, h>>
    BY SortKeyIs
  <2>3. /\ p <= q
        /\ p = q => n <= m
        /\ p = q /\ n = m => i <= g
        /\ p = q /\ n = m /\ i = g => j <= h
    <3>1. p <= q
      BY <2>0, <2>1, <2>2
    <3>2. p = q => b \in S1
      BY <2>0, <2>1, <2>2
    <3>3. p = q => n <= m
      BY <2>0, <2>1, <2>2, <3>2
    <3>4. p = q /\ n = m => b \in S2
      BY <2>0, <2>1, <2>2, <3>2
    <3>5. p = q /\ n = m => i <= g
      BY <2>0, <2>1, <2>2, <3>4
    <3>6. p = q /\ n = m /\ i = g => b \in S3
      BY <2>0, <2>1, <2>2, <3>4
    <3>7. p = q /\ n = m /\ i = g => j <= h
      BY <2>0, <2>1, <2>2, <3>6
    <3>8. QED
      BY <3>1, <3>3, <3>5, <3>7
  <2> HIDE DEF S1, S2, S3, S4
  <2> DEFINE x == <<p, n, i, j>>  y == <<q, m, g, h>>
  <2>4. x[1] = p /\ x[2] = n /\ x[3] = i /\ x[4] = j /\ y[1] = q /\ y[2] = m /\ y[3] = g /\ y[4] = h
    OBVIOUS
  <2>5. x = y \/ \E k \in 1 .. 4 : x[k] < y[k] /\ \A l \in 1 .. k - 1 : x[l] = y[l]
    <3>1. CASE p < q
      <4>1. x[1] < y[1] /\ \A l \in 1 .. 1 - 1 : x[l] = y[l]
        BY <3>1, <2>4
      <4>2. QED
        BY <4>1
    <3>2. CASE p = q /\ n < m
      <4>1. x[2] < y[2] /\ \A l \in 1 .. 2 - 1 : x[l] = y[l]
        BY <3>2, <2>4
      <4>2. QED
        BY <4>1
    <3>3. CASE p = q /\ n = m /\ i < g
      <4>1. x[3] < y[3] /\ \A l \in 1 .. 3 - 1 : x[l] = y[l]
        BY <3>3, <2>4
      <4>2. QED
        BY <4>1
    <3>4. CASE p = q /\ n = m /\ i = g /\ j < h
      <4>1. x[4] < y[4] /\ \A l \in 1 .. 4 - 1 : x[l] = y[l]
        BY <3>4, <2>4
      <4>2. QED
        BY <4>1
    <3>5. CASE p = q /\ n = m /\ i = g /\ j = h
      BY <3>5
    <3>6. QED
      BY <2>3, <3>1, <3>2, <3>3, <3>4, <3>5
  <2>6. QED
    BY <2>1, <2>2, <2>5 DEF NotAfter, SortKey
<1>8. \E c \in S : \A b \in S : NotAfter(c, b)
  <2> HIDE DEF S1, S2, S3, S4
  <2> QED
    BY <1>2, <1>3, <1>4, <1>5, <1>6, <1>7
<1>9. QED
  BY <1>8 DEF Selected

\* The place of anything in a finite list is a number.
LEMMA PlaceIs ==
    ASSUME NEW i, NEW S, IsFiniteSet(S)
    PROVE  Place(i, S) \in Nat
<1> DEFINE T == {j \in S : j < i}
<1>1. IsFiniteSet(T)
  BY FS_Subset
<1>2. QED
  BY <1>1, FS_CardinalityType DEF Place

\* A profile's entries stand at places of its lists and have finitely many sources.
LEMMA BuildTyped ==
    ASSUME NEW e, NEW n \in Seq(Mapping)
    PROVE  /\ \A r \in Build(e, n).requirements : r.at \in Nat /\ IsFiniteSet(r.sources)
           /\ \A u \in Build(e, n).unresolved : u.at \in Nat
<1> DEFINE Group(s) == {i \in DOMAIN n : n[i] = Resolved(s)}
           named    == {s \in Skills : Group(s) # {}}
           firsts   == {Earliest(Group(s)) : s \in named}
           open     == {i \in DOMAIN n : n[i].status # "resolved"}
<1>1. DOMAIN n = 1 .. Len(n) /\ Len(n) \in Nat /\ 1 \in Int /\ Len(n) \in Int
  OBVIOUS
<1>2. IsFiniteSet(DOMAIN n) /\ DOMAIN n \in SUBSET Nat
  BY <1>1, FS_Interval
<1>3. \A s \in Skills : IsFiniteSet(Group(s)) /\ Group(s) \in SUBSET Nat
  BY <1>2, FS_Subset
<1>4. IsFiniteSet(firsts)
  <2>1. \A s \in named : Earliest(Group(s)) \in Group(s)
    <3> SUFFICES ASSUME NEW s \in named PROVE Earliest(Group(s)) \in Group(s)
      OBVIOUS
    <3>1. Group(s) \in SUBSET Nat /\ Group(s) # {}
      BY <1>3
    <3> HIDE DEF Group
    <3> QED
      BY <3>1, EarliestIs
  <2>2. firsts \in SUBSET (DOMAIN n)
    BY <2>1
  <2> HIDE DEF firsts
  <2>3. QED
    BY <1>2, <2>2, FS_Subset
<1>5. IsFiniteSet(open)
  BY <1>2, FS_Subset
<1>6. /\ Build(e, n).requirements = {MergeGroup(e, s, Group(s), firsts) : s \in named}
      /\ Build(e, n).unresolved = {[source |-> i, at |-> Place(i, open), status |-> n[i].status]
                                      : i \in open}
  BY DEF Build
<1>7. \A s \in named : MergeGroup(e, s, Group(s), firsts).at \in Nat
  <2> SUFFICES ASSUME NEW s \in named PROVE MergeGroup(e, s, Group(s), firsts).at \in Nat
    OBVIOUS
  <2>1. Place(Earliest(Group(s)), firsts) \in Nat
    <3> HIDE DEF firsts
    <3> QED BY <1>4, PlaceIs
  <2>2. QED
    BY <2>1 DEF MergeGroup
<1>8. \A s \in named : IsFiniteSet(MergeGroup(e, s, Group(s), firsts).sources)
  BY <1>3 DEF MergeGroup
<1>9. \A i \in open : Place(i, open) \in Nat
  <2> HIDE DEF open
  <2> QED BY <1>5, PlaceIs
<1>10. QED
  <2> HIDE DEF Group, firsts, open, named
  <2> QED BY <1>6, <1>7, <1>8, <1>9

\* What blocks a built profile is one of the issues the policy knows.
LEMMA ValidateReal ==
    ASSUME NEW e, NEW n \in Seq(Mapping)
    PROVE  Validate(Build(e, n)) \subseteq RealIssues
<1> DEFINE p == Build(e, n)
<1>1. ProfileIssues(p) \subseteq RealIssues
  BY DEF ProfileIssues, When, Issue, RealIssues, Codes
<1>2. \A r \in p.requirements : RequirementIssues(r) \subseteq RealIssues
  BY BuildTyped DEF RequirementIssues, When, Issue, RealIssues, Codes, ExtractionIssues
<1>3. \A r \in p.requirements : ProvenanceIssues(r) \subseteq RealIssues
  <2> SUFFICES ASSUME NEW r \in p.requirements PROVE ProvenanceIssues(r) \subseteq RealIssues
    OBVIOUS
  <2>1. r.at \in Nat /\ \A i : Place(i, r.sources) \in Nat
    BY BuildTyped, PlaceIs
  <2>2. QED
    BY <2>1 DEF ProvenanceIssues, Issue, RealIssues, Codes, ExtractionIssues
<1>4. \A u \in p.unresolved : UnresolvedIssue(u) \in RealIssues
  BY BuildTyped DEF UnresolvedIssue, Issue, RealIssues, Codes
<1>5. QED
  <2> HIDE DEF p
  <2>1. Validate(p) \subseteq RealIssues
    BY <1>1, <1>2, <1>3, <1>4 DEF Validate
  <2>2. QED
    BY <2>1 DEF p

\* A profile that validation lets through can be staffed.
LEMMA ValidIsSound ==
    ASSUME NEW p, Validate(p) = {}
    PROVE  /\ p.unresolved = {} /\ p.requirements # {}
           /\ \A r \in p.requirements :
                 /\ r.skill \notin Inactive
                 /\ r.hard => r.level # NoLevel
                 /\ \A i \in r.sources : r.verbatim[i]
<1>1. p.requirements # {}
  BY DEF Validate, ProfileIssues, When
<1>2. p.unresolved = {}
  BY DEF Validate
<1>3. ASSUME NEW r \in p.requirements
      PROVE  RequirementIssues(r) = {} /\ ProvenanceIssues(r) = {}
  BY DEF Validate
<1>4. ASSUME NEW r \in p.requirements
      PROVE  r.skill \notin Inactive /\ (r.hard => r.level # NoLevel)
  <2>1. RequirementIssues(r) = {}
    BY <1>3
  <2>2. QED
    BY <2>1 DEF RequirementIssues, When
<1>5. ASSUME NEW r \in p.requirements
      PROVE  \A i \in r.sources : r.verbatim[i]
  <2>1. ProvenanceIssues(r) = {}
    BY <1>3
  <2>2. QED
    BY <2>1 DEF ProvenanceIssues
<1>6. QED
  BY <1>1, <1>2, <1>4, <1>5

-----------------------------------------------------------------------------
(* The recovery chosen.                                                    *)

\* The history is a sequence, of whatever the entries hold.
IsHistory(h) == \E S : h \in Seq(S)

\* The policy takes a usable recovery, or escalates once, or stops.
LEMMA RecoveryIs ==
    ASSUME NEW h, NEW issue \in RealIssues
    PROVE  LET d == DecideRecovery(h, issue) IN
           \/ \E a \in Actions \ {"escalate"} :
                 d = Decision("execute_recovery", a, issue) /\ Usable(h, issue, a)
           \/ /\ d = Decision("execute_recovery", "escalate", issue)
              /\ Attempts(h, issue, "escalate") = {}
           \/ d = Decision("permanent_failure", "none", issue)
<1> DEFINE prefer == Preferences(issue.code)
           usable == {k \in DOMAIN prefer : Usable(h, issue, prefer[k])}
<1>1. issue.code \in Codes
  BY DEF RealIssues
<1>2. DOMAIN prefer \in SUBSET Nat /\ \A k \in DOMAIN prefer : prefer[k] \in Actions \ {"escalate"}
  <2>1. \/ prefer = <<"reextract_field", "lookup_taxonomy", "request_clarification">>
        \/ prefer = <<"reextract_field", "request_clarification">>
        \/ prefer = <<"lookup_taxonomy", "reconsider_mapping", "request_clarification">>
        \/ prefer = <<"reconsider_mapping", "request_clarification">>
    BY <1>1 DEF Preferences, Codes, ExtractionIssues
  <2> HIDE DEF prefer
  <2>2. QED
    BY <2>1 DEF Actions
<1>3. CASE usable = {}
  <2>1. DecideRecovery(h, issue) = EscalateOrStop(h, issue)
    BY <1>3 DEF DecideRecovery
  <2>2. QED
    BY <2>1 DEF EscalateOrStop
<1>4. CASE usable # {}
  <2>1. Earliest(usable) \in usable
    <3>1. usable \in SUBSET Nat
      BY <1>2
    <3> HIDE DEF usable
    <3> QED BY <3>1, <1>4, EarliestIs
  <2>2. DecideRecovery(h, issue) = Decision("execute_recovery", prefer[Earliest(usable)], issue)
    BY <1>4 DEF DecideRecovery
  <2>3. prefer[Earliest(usable)] \in Actions \ {"escalate"} /\ Usable(h, issue, prefer[Earliest(usable)])
    BY <1>2, <2>1
  <2>4. QED
    BY <2>2, <2>3
<1>5. QED
  BY <1>3, <1>4

\* One more entry at the end of a history.
LEMMA HistoryAppend ==
    ASSUME NEW h, IsHistory(h), NEW e
    PROVE  /\ IsHistory(Append(h, e)) /\ Len(Append(h, e)) = Len(h) + 1 /\ Len(h) \in Nat
           /\ DOMAIN Append(h, e) = 1 .. Len(h) + 1 /\ DOMAIN h = 1 .. Len(h)
           /\ \A k \in DOMAIN h : Append(h, e)[k] = h[k]
           /\ Append(h, e)[Len(h) + 1] = e
<1>1. PICK S : h \in Seq(S)
  BY DEF IsHistory
<1> DEFINE T == S \cup {e}  g == Append(h, e)
<1>2. h \in Seq(T) /\ e \in T
  BY <1>1
<1>3. /\ g \in Seq(T) /\ Len(g) = Len(h) + 1 /\ Len(h) \in Nat
      /\ DOMAIN g = 1 .. Len(h) + 1 /\ DOMAIN h = 1 .. Len(h)
      /\ \A k \in DOMAIN h : g[k] = h[k]
      /\ g[Len(h) + 1] = e
  <2> HIDE DEF T
  <2> QED BY <1>2
<1> HIDE DEF g, T
<1>4. IsHistory(g)
  BY <1>3 DEF IsHistory
<1>5. QED
  BY <1>3, <1>4 DEF g

\* One more entry is one more attempt at its own issue, and at no other.
LEMMA AttemptsAppend ==
    ASSUME NEW h, IsHistory(h), NEW e, NEW issue, NEW action
    PROVE  /\ IsFiniteSet(Attempts(h, issue, action))
           /\ Cardinality(Attempts(h, issue, action)) \in Nat
           /\ Cardinality(Attempts(Append(h, e), issue, action)) =
                 Cardinality(Attempts(h, issue, action))
                    + IF e.issue = issue /\ e.action = action THEN 1 ELSE 0
<1> DEFINE g == Append(h, e)
<1>3. /\ Len(h) \in Nat
      /\ DOMAIN g = 1 .. Len(h) + 1 /\ DOMAIN h = 1 .. Len(h)
      /\ \A k \in DOMAIN h : g[k] = h[k]
      /\ g[Len(h) + 1] = e
  BY HistoryAppend
<1> HIDE DEF g
<1> DEFINE A == Attempts(h, issue, action)  B == Attempts(g, issue, action)
<1>4. IsFiniteSet(A) /\ Cardinality(A) \in Nat
  <2>1. 1 \in Int /\ Len(h) \in Int /\ A \in SUBSET (1 .. Len(h))
    BY <1>3 DEF Attempts
  <2>2. IsFiniteSet(A)
    BY <2>1, FS_Interval, FS_Subset
  <2>3. QED
    BY <2>2, FS_CardinalityType
<1>5. CASE e.issue = issue /\ e.action = action
  <2>1. B = A \cup {Len(h) + 1} /\ Len(h) + 1 \notin A
    BY <1>3, <1>5 DEF Attempts
  <2> HIDE DEF A, B
  <2>2. Cardinality(B) = Cardinality(A) + 1
    BY <1>4, <2>1, FS_AddElement
  <2>3. QED
    BY <1>4, <1>5, <2>2 DEF A, B, g
<1>6. CASE ~ (e.issue = issue /\ e.action = action)
  <2>1. B = A
    BY <1>3, <1>6 DEF Attempts
  <2>2. QED
    BY <1>4, <1>6, <2>1 DEF A, B, g
<1>7. QED
  BY <1>5, <1>6
====
