-------------------------- MODULE CatalogAgentProofs -------------------------
(***************************************************************************)
(* Proofs about what surrounds the catalog agent's decisions: a recovery   *)
(* reaches the requirement its issue is about (CatalogRecovery); an answer *)
(* fits the question its administrator was shown, and a saved review       *)
(* stays, for any number of terminals, administrators and questions        *)
(* (AdminTerminal); a finished normalization is sound, for every taxonomy  *)
(* file and whatever the model answers (CatalogTaxonomy).                  *)
(***************************************************************************)
EXTENDS CatalogRecovery, AdminTerminal, CatalogTaxonomy, CatalogPolicyProofs, TLAPS

-----------------------------------------------------------------------------
(* CatalogRecovery *)

\* A place belongs to one entry of a list.
LEMMA PlaceTells ==
    ASSUME NEW S \in SUBSET Nat, IsFiniteSet(S), NEW i \in S, NEW j \in S, Place(i, S) = Place(j, S)
    PROVE  i = j
<1>1. ASSUME NEW k \in S, NEW l \in S, k < l
      PROVE  Place(k, S) # Place(l, S)
  <2>1. PICK A \in SUBSET S, B \in SUBSET S : A = {m \in S : m < k} /\ B = {m \in S : m < l}
    OBVIOUS
  <2>2. (\A m \in S : m < k => m < l) /\ ~ (k < k)
    <3>1. \A m \in S : m \in Nat
      OBVIOUS
    <3>2. QED
      BY <1>1, <3>1
  <2>3. A \in SUBSET B /\ k \in B /\ k \notin A
    BY <1>1, <2>1, <2>2
  <2>4. IsFiniteSet(B)
    BY FS_Subset
  <2>5. Cardinality(A) # Cardinality(B)
    BY <2>3, <2>4, FS_Subset
  <2>6. QED
    BY <2>1, <2>5 DEF Place
<1>2. i < j \/ j < i \/ i = j
  OBVIOUS
<1>3. QED
  BY <1>1, <1>2

\* The first place is that of the earliest entry.
LEMMA PlaceZero ==
    ASSUME NEW S \in SUBSET Nat, IsFiniteSet(S), NEW i \in S
    PROVE  Place(i, S) = 0 <=> i = Earliest(S)
<1>1. Earliest(S) \in S /\ \A j \in S : Earliest(S) <= j
  BY EarliestIs
<1>2. Place(Earliest(S), S) = 0
  <2>1. PICK first \in Nat : first = Earliest(S)
    BY <1>1
  <2>2. \A j \in S : ~ (j < first)
    <3>1. \A j \in S : j \in Nat /\ first <= j
      BY <1>1, <2>1
    <3>2. QED
      BY <3>1
  <2>3. {j \in S : j < first} = {}
    BY <2>2
  <2>4. QED
    BY <2>1, <2>3, FS_EmptySet DEF Place
<1>3. QED
  BY <1>1, <1>2, PlaceTells

\* Of some levels one is the highest.
LEMMA LatestIs ==
    ASSUME NEW S \in SUBSET (Levels \cup {NoLevel}), S # {}
    PROVE  Latest(S) \in S /\ \A j \in S : j <= Latest(S)
<1> DEFINE R == {3 - l : l \in S}
<1>1. \A l \in S : l \in 0 .. 3
  BY DEF Levels, NoLevel
<1>2. R \in SUBSET Nat /\ R # {}
  BY <1>1
<1>3. PICK r \in R : \A q \in R : r <= q
  <2> HIDE DEF R
  <2>1. QED
    BY <1>2, LeastNat
<1>4. PICK l \in S : r = 3 - l
  OBVIOUS
<1>5. \A j \in S : j <= l
  BY <1>1, <1>3, <1>4
<1>6. QED
  BY <1>5 DEF Latest

\* Of the requirements that name one skill one dominates the others.
LEMMA DominantIs ==
    ASSUME NEW e \in Seq(Requirement), NEW S \in SUBSET (DOMAIN e), S # {}
    PROVE  Dominant(e, S) \in S
<1> DEFINE Weight(i) == (IF e[i].hard THEN 0 ELSE 4) + (3 - e[i].level)
           f == [i \in S |-> Weight(i)]
<1>1. \A i \in S : i \in Nat /\ e[i].level \in 0 .. 3 /\ e[i].hard \in BOOLEAN
  <2>1. \A i \in S : e[i] \in Requirement /\ i \in Nat
    OBVIOUS
  <2>2. QED
    BY <2>1 DEF Requirement, Levels, NoLevel
<1>2. f \in [S -> Nat]
  BY <1>1
<1>3. PICK a \in S : \A b \in S : Weight(a) <= Weight(b)
  <2>1. PICK a \in S : \A b \in S : f[a] <= f[b]
    <3> HIDE DEF f
    <3>1. QED
      BY <1>2, LeastBy
  <2>2. QED
    BY <2>1
<1>4. PICK T \in SUBSET S : T = {b \in S : Weight(b) = Weight(a)}
  OBVIOUS
<1>5. T \in SUBSET Nat /\ T # {}
  BY <1>1, <1>3, <1>4
<1>6. PICK i \in T : \A j \in T : i <= j
  BY <1>5, LeastNat
<1>7. ASSUME NEW j \in S
      PROVE  Dominates(e, i, j)
  <2>1. i \in S /\ Weight(i) <= Weight(j) /\ (Weight(i) = Weight(j) => i <= j)
    BY <1>3, <1>4, <1>6
  <2>2. QED
    BY <1>1, <2>1, SMTT(30) DEF Dominates
<1>8. QED
  BY <1>6, <1>7 DEF Dominant

\* The requirements that name a skill, the places where those of each skill begin, and
\* the requirements that name none
Group(n, s) == {i \in DOMAIN n : n[i] = Resolved(s)}
Firsts(n) == {Earliest(Group(n, s)) : s \in {k \in Skills : Group(n, k) # {}}}
Unnamed(n) == {i \in DOMAIN n : n[i].status # "resolved"}

\* An entry of the profile's requirements: what the model extracted for one skill.
GroupOK(e, n, q) ==
    /\ q.sources # {} /\ q.sources \subseteq DOMAIN n /\ IsFiniteSet(q.sources)
    /\ \A i \in q.sources : /\ n[i].status = "resolved" /\ n[i].skill = q.skill
                            /\ q.sources = {j \in DOMAIN e : n[j] = n[i]}
    /\ q.hard => \E i \in q.sources : e[i].hard
    /\ q.level = NoLevel => \A i \in q.sources : e[i].level = NoLevel
    /\ q.lead \in q.sources
    /\ \A i \in q.sources : q.verbatim[i] = e[i].verbatim

\* The lists of a profile tell the requirements of the extraction apart.
ProfileOK(e, n, p) ==
    /\ \A q \in p.requirements : GroupOK(e, n, q)
    /\ \A q, r \in p.requirements : q.at = r.at \/ q.sources \cap r.sources # {} => q = r
    /\ \A u \in p.unresolved : /\ u.source \in DOMAIN n /\ u.status = n[u.source].status
                               /\ u.status \in {"unmapped", "needs_review"}
    /\ \A u, v \in p.unresolved : u.at = v.at \/ u.source = v.source => u = v

\* That is how the builder makes a profile of an extraction and its mappings.
LEMMA BuildIs ==
    ASSUME NEW e \in Seq(Requirement), NEW n \in [DOMAIN e -> Mapping]
    PROVE  ProfileOK(e, n, Build(e, n))
<1>1. /\ DOMAIN n = DOMAIN e /\ DOMAIN n = 1 .. Len(e) /\ Len(e) \in Nat /\ DOMAIN n \in SUBSET Nat
      /\ 1 \in Int /\ Len(e) \in Int
  OBVIOUS
<1>2. IsFiniteSet(DOMAIN n)
  BY <1>1, FS_Interval
<1>3. \A s : Group(n, s) \in SUBSET (DOMAIN n) /\ IsFiniteSet(Group(n, s))
  <2>1. \A s : Group(n, s) \in SUBSET (DOMAIN n)
    BY DEF Group
  <2>2. QED
    BY <1>2, <2>1, FS_Subset
<1>4. \A s : Group(n, s) # {} => Earliest(Group(n, s)) \in Group(n, s)
  BY <1>1, <1>3, EarliestIs
<1>5. Firsts(n) \in SUBSET (DOMAIN n) /\ IsFiniteSet(Firsts(n))
  <2>1. Firsts(n) \in SUBSET (DOMAIN n)
    BY <1>3, <1>4 DEF Firsts
  <2>2. QED
    BY <1>2, <2>1, FS_Subset
<1>6. Unnamed(n) \in SUBSET (DOMAIN n) /\ IsFiniteSet(Unnamed(n))
  <2>1. Unnamed(n) \in SUBSET (DOMAIN n)
    BY DEF Unnamed
  <2>2. QED
    BY <1>2, <2>1, FS_Subset
<1>7. PICK p : p = Build(e, n)
  OBVIOUS
<1>8. /\ p.requirements = {MergeGroup(e, s, Group(n, s), Firsts(n))
                               : s \in {k \in Skills : Group(n, k) # {}}}
      /\ p.unresolved = {[source |-> i, at |-> Place(i, Unnamed(n)), status |-> n[i].status]
                             : i \in Unnamed(n)}
  BY <1>7 DEF Build, Group, Firsts, Unnamed
<1>9. \A s, t : Group(n, s) \cap Group(n, t) # {} => s = t
  BY DEF Group, Resolved
<1>10. ASSUME NEW s \in Skills, Group(n, s) # {}, NEW q,
              q = MergeGroup(e, s, Group(n, s), Firsts(n))
       PROVE  /\ q.skill = s /\ q.sources = Group(n, s)
              /\ q.at = Place(Earliest(Group(n, s)), Firsts(n)) /\ GroupOK(e, n, q)
  <2>1. PICK S \in SUBSET (DOMAIN n) : S = Group(n, s)
    BY <1>3
  <2>2. /\ q.skill = s /\ q.sources = S /\ q.at = Place(Earliest(S), Firsts(n))
        /\ q.hard = \E i \in S : e[i].hard
        /\ q.level = Latest({e[i].level : i \in S})
        /\ q.verbatim = [i \in S |-> e[i].verbatim]
        /\ q.lead = Dominant(e, S)
    BY <1>10, <2>1 DEF MergeGroup
  <2>3. IsFiniteSet(S) /\ S # {}
    BY <1>3, <1>10, <2>1
  <2>4. \A i \in S : n[i] = Resolved(s) /\ S = {j \in DOMAIN e : n[j] = n[i]}
    BY <1>1, <2>1 DEF Group
  <2>5. \A i \in S : n[i].status = "resolved" /\ n[i].skill = s
    BY <2>4 DEF Resolved
  <2>6. q.lead \in S
    BY <1>1, <2>2, <2>3, DominantIs
  <2>7. ASSUME q.level = NoLevel, NEW i \in S PROVE e[i].level = NoLevel
    <3>1. PICK R : R = {e[j].level : j \in S}
      OBVIOUS
    <3>2. \A j \in S : e[j] \in Requirement
      BY <1>1
    <3>3. R \in SUBSET (Levels \cup {NoLevel}) /\ R # {} /\ e[i].level \in R
      BY <2>3, <3>1, <3>2 DEF Requirement
    <3>4. e[i].level <= q.level
      BY <2>2, <3>1, <3>3, LatestIs
    <3>5. e[i].level \in Levels \cup {0}
      BY <3>3 DEF NoLevel
    <3>6. e[i].level <= 0
      BY <2>7, <3>4 DEF NoLevel
    <3>7. QED
      BY <3>5, <3>6 DEF Levels, NoLevel
  <2>8. QED
    BY <2>1, <2>2, <2>3, <2>4, <2>5, <2>6, <2>7 DEF GroupOK
<1>11. \A q \in p.requirements : GroupOK(e, n, q)
  BY <1>8, <1>10
<1>12. ASSUME NEW q \in p.requirements, NEW r \in p.requirements,
              q.at = r.at \/ q.sources \cap r.sources # {}
       PROVE  q = r
  <2>1. PICK s \in Skills : Group(n, s) # {} /\ q = MergeGroup(e, s, Group(n, s), Firsts(n))
    BY <1>8, <1>12
  <2>2. PICK t \in Skills : Group(n, t) # {} /\ r = MergeGroup(e, t, Group(n, t), Firsts(n))
    BY <1>8, <1>12
  <2>3. Earliest(Group(n, s)) \in Firsts(n) /\ Earliest(Group(n, t)) \in Firsts(n)
    BY <2>1, <2>2 DEF Firsts
  <2>4. ASSUME q.at = r.at PROVE s = t
    <3>1. Place(Earliest(Group(n, s)), Firsts(n)) = Place(Earliest(Group(n, t)), Firsts(n))
      BY <1>10, <2>1, <2>2, <2>4
    <3>2. Earliest(Group(n, s)) = Earliest(Group(n, t))
      BY <1>1, <1>5, <2>3, <3>1, PlaceTells
    <3>3. QED
      BY <1>4, <1>9, <2>1, <2>2, <3>2
  <2>5. ASSUME q.sources \cap r.sources # {} PROVE s = t
    BY <1>9, <1>10, <2>1, <2>2, <2>5
  <2>6. QED
    BY <1>12, <2>1, <2>2, <2>4, <2>5
<1>13. \A u \in p.unresolved : /\ u.source \in DOMAIN n /\ u.status = n[u.source].status
                               /\ u.status \in {"unmapped", "needs_review"}
  <2>1. \A i \in Unnamed(n) : i \in DOMAIN n /\ n[i].status \in {"unmapped", "needs_review"}
    BY DEF Unnamed, Mapping, Resolved, Unresolved
  <2>2. QED
    BY <1>8, <2>1
<1>14. ASSUME NEW u \in p.unresolved, NEW v \in p.unresolved, u.at = v.at \/ u.source = v.source
       PROVE  u = v
  <2>1. PICK i \in Unnamed(n) : u = [source |-> i, at |-> Place(i, Unnamed(n)), status |-> n[i].status]
    BY <1>8, <1>14
  <2>2. PICK j \in Unnamed(n) : v = [source |-> j, at |-> Place(j, Unnamed(n)), status |-> n[j].status]
    BY <1>8, <1>14
  <2>3. i = j
    <3>1. Place(i, Unnamed(n)) = Place(j, Unnamed(n)) \/ i = j
      BY <1>14, <2>1, <2>2
    <3>2. QED
      BY <1>1, <1>6, <3>1, PlaceTells
  <2>4. QED
    BY <2>1, <2>2, <2>3
<1>15. ProfileOK(e, n, p)
  BY <1>11, <1>12, <1>13, <1>14 DEF ProfileOK
<1>16. QED
  BY <1>7, <1>15

\* What the validator says of an entry.
Says(issue, q) ==
    \/ issue = Issue("INACTIVE_SKILL", q.at, 0) /\ q.skill \in Inactive
    \/ issue = Issue("MISSING_REQUIRED_LEVEL", q.at, 0) /\ q.hard /\ q.level = NoLevel
    \/ issue = Issue("EVIDENCE_NOT_VERBATIM", q.at, 0) /\ ~ q.verbatim[q.lead]
    \/ \E i \in q.sources :
          /\ issue = Issue("PROVENANCE_EVIDENCE_NOT_VERBATIM", q.at, Place(i, q.sources))
          /\ ~ q.verbatim[i]

\* An issue is about the whole list, an entry of it, or a requirement without a skill.
LEMMA IssueIs ==
    ASSUME NEW p, NEW issue \in Validate(p)
    PROVE  \/ issue = Issue("NO_RESOLVED_REQUIREMENTS", 0, 0) /\ p.requirements = {}
           \/ \E q \in p.requirements : Says(issue, q)
           \/ \E u \in p.unresolved : issue = UnresolvedIssue(u)
<1>1. CASE issue \in ProfileIssues(p)
  BY <1>1 DEF ProfileIssues, When
<1>2. ASSUME NEW q \in p.requirements, issue \in RequirementIssues(q)
      PROVE  Says(issue, q)
  BY <1>2 DEF RequirementIssues, When, Says
<1>3. ASSUME NEW q \in p.requirements, issue \in ProvenanceIssues(q)
      PROVE  Says(issue, q)
  BY <1>3 DEF ProvenanceIssues, Says
<1>4. QED
  BY <1>1, <1>2, <1>3 DEF Validate

\* The requirement of the extraction that an issue is about, without places: the one
\* without a skill, the one whose evidence is not verbatim, or the first that names the
\* skill of the entry.
About(issue, i) ==
    \/ \E u \in profile.unresolved : issue = UnresolvedIssue(u) /\ i = u.source
    \/ \E q \in profile.requirements :
          /\ Says(issue, q) /\ i \in q.sources
          /\ IF issue.code = "PROVENANCE_EVIDENCE_NOT_VERBATIM"
             THEN issue.sub = Place(i, q.sources) /\ ~ q.verbatim[i]
             ELSE i = Earliest(q.sources)

\* The profile is one that was built.
Built == /\ extraction \in Seq(Requirement) /\ normalization \in [DOMAIN extraction -> Mapping]
         /\ ProfileOK(extraction, normalization, profile)

\* Every entry has its sources in the extraction.
LEMMA SourcesAre ==
    ASSUME Built, NEW q \in profile.requirements
    PROVE  /\ q.sources \in SUBSET Nat /\ IsFiniteSet(q.sources) /\ q.sources # {}
           /\ Earliest(q.sources) \in q.sources
           /\ GroupOK(extraction, normalization, q)
<1>1. GroupOK(extraction, normalization, q)
  BY DEF Built, ProfileOK
<1>2. DOMAIN normalization = 1 .. Len(extraction) /\ Len(extraction) \in Nat
  BY DEF Built
<1>3. DOMAIN normalization \in SUBSET Nat
  BY <1>2
<1>4. q.sources \in SUBSET Nat /\ q.sources # {} /\ IsFiniteSet(q.sources)
  BY <1>1, <1>3 DEF GroupOK
<1>5. QED
  BY <1>1, <1>4, EarliestIs

\* Every issue but one is about a requirement.
LEMMA AboutOne ==
    ASSUME Built, NEW issue \in Validate(profile), issue.code # "NO_RESOLVED_REQUIREMENTS"
    PROVE  \E i \in DOMAIN normalization : About(issue, i)
<1>1. PICK p : p = profile
  OBVIOUS
<1>2. CASE \E u \in p.unresolved : issue = UnresolvedIssue(u)
  BY <1>1, <1>2 DEF Built, ProfileOK, About
<1>3. ASSUME NEW q \in p.requirements, Says(issue, q)
      PROVE  \E i \in DOMAIN normalization : About(issue, i)
  <2>1. /\ q.sources # {} /\ q.sources \subseteq DOMAIN normalization
        /\ Earliest(q.sources) \in q.sources
    BY <1>1, SourcesAre DEF GroupOK
  <2>2. CASE issue.code = "PROVENANCE_EVIDENCE_NOT_VERBATIM"
    <3>1. PICK i \in q.sources : issue.sub = Place(i, q.sources) /\ ~ q.verbatim[i]
      BY <1>3, <2>2 DEF Says, Issue
    <3>2. QED
      BY <1>1, <1>3, <2>1, <2>2, <3>1 DEF About
  <2>3. CASE issue.code # "PROVENANCE_EVIDENCE_NOT_VERBATIM"
    BY <1>1, <1>3, <2>1, <2>3 DEF About
  <2>4. QED
    BY <2>2, <2>3
<1>4. CASE issue = Issue("NO_RESOLVED_REQUIREMENTS", 0, 0)
  BY <1>4 DEF Issue
<1>5. QED
  BY <1>1, <1>2, <1>3, <1>4, IssueIs

\* What the validator says of a requirement is true of it (Concerns).
LEMMA AboutConcerns ==
    ASSUME Built, NEW issue, NEW i, About(issue, i)
    PROVE  Concerns(issue, i)
<1>1. CASE \E u \in profile.unresolved : issue = UnresolvedIssue(u) /\ i = u.source
  <2>1. PICK u \in profile.unresolved : issue = UnresolvedIssue(u) /\ i = u.source
    BY <1>1
  <2>2. u.status = normalization[i].status /\ u.status \in {"unmapped", "needs_review"}
    BY <2>1 DEF Built, ProfileOK
  <2>3. QED
    BY <2>1, <2>2 DEF UnresolvedIssue, Issue, Concerns
<1>2. ASSUME NEW q \in profile.requirements, Says(issue, q), i \in q.sources,
             IF issue.code = "PROVENANCE_EVIDENCE_NOT_VERBATIM"
             THEN issue.sub = Place(i, q.sources) /\ ~ q.verbatim[i]
             ELSE i = Earliest(q.sources)
      PROVE  Concerns(issue, i)
  <2>1. GroupOK(extraction, normalization, q)
    BY SourcesAre
  <2>2. /\ normalization[i].status = "resolved" /\ normalization[i].skill = q.skill
        /\ q.sources = SameSkill(i)
        /\ q.hard => \E j \in q.sources : extraction[j].hard
        /\ q.level = NoLevel => \A j \in q.sources : extraction[j].level = NoLevel
        /\ q.lead \in q.sources
        /\ \A j \in q.sources : q.verbatim[j] = extraction[j].verbatim
    BY <1>2, <2>1 DEF GroupOK, SameSkill
  <2>3. QED
    BY <1>2, <2>2 DEF Says, Issue, Concerns
<1>3. QED
  BY <1>1, <1>2 DEF About

\* Two issues of one kind are never about one requirement.
LEMMA AboutTells ==
    ASSUME Built, NEW a, NEW b, NEW i, About(a, i), About(b, i), a.code = b.code
    PROVE  a = b
<1> DEFINE Of(issue, q) == /\ Says(issue, q) /\ i \in q.sources
                           /\ IF issue.code = "PROVENANCE_EVIDENCE_NOT_VERBATIM"
                              THEN issue.sub = Place(i, q.sources) /\ ~ q.verbatim[i]
                              ELSE i = Earliest(q.sources)
<1>1. ASSUME NEW u \in profile.unresolved, a = UnresolvedIssue(u), i = u.source,
             NEW v \in profile.unresolved, b = UnresolvedIssue(v), i = v.source
      PROVE  a = b
  BY <1>1 DEF Built, ProfileOK
<1>2. ASSUME NEW q \in profile.requirements, Of(a, q), NEW r \in profile.requirements, Of(b, r)
      PROVE  a = b
  <2>1. q = r
    BY <1>2 DEF Built, ProfileOK
  <2>2. QED
    BY <1>2, <2>1 DEF Says, Issue
<1>3. ASSUME NEW u \in profile.unresolved, NEW q \in profile.requirements, NEW c, NEW d,
             c = UnresolvedIssue(u), Says(d, q)
      PROVE  c.code # d.code
  BY <1>3 DEF UnresolvedIssue, Says, Issue
<1>4. QED
  BY <1>1, <1>2, <1>3 DEF About

\* A recovery goes through the lists of places to the requirement its issue is about.
LEMMA TargetIs ==
    ASSUME Built, NEW issue, NEW action, NEW i, About(issue, i)
    PROVE  Targets(Request(issue, action)) = {i}
<1>1. PICK r : r = Request(issue, action)
  OBVIOUS
<1>2. CASE \E u \in profile.unresolved : issue = UnresolvedIssue(u) /\ i = u.source
  <2>1. PICK u \in profile.unresolved : issue = UnresolvedIssue(u) /\ i = u.source
    BY <1>2
  <2>2. r.unresolved = {u.at}
    BY <1>1, <2>1 DEF UnresolvedIssue, Issue, Request, Unresolving
  <2>3. {v \in profile.unresolved : v.at \in r.unresolved} = {u}
    BY <2>1, <2>2 DEF Built, ProfileOK
  <2>4. QED
    BY <1>1, <2>1, <2>2, <2>3 DEF Targets
<1>3. ASSUME NEW q \in profile.requirements, Says(issue, q), i \in q.sources,
             IF issue.code = "PROVENANCE_EVIDENCE_NOT_VERBATIM"
             THEN issue.sub = Place(i, q.sources) /\ ~ q.verbatim[i]
             ELSE i = Earliest(q.sources)
      PROVE  Targets(Request(issue, action)) = {i}
  <2>1. /\ q.sources \in SUBSET Nat /\ IsFiniteSet(q.sources) /\ Earliest(q.sources) \in q.sources
    BY SourcesAre
  <2>2. PICK at : at = IF r.provenance = {} THEN {0} ELSE r.provenance
    OBVIOUS
  <2>3. r.unresolved = {} /\ r.requirement = {q.at}
    BY <1>1, <1>3 DEF Says, Issue, Request, Unresolving
  <2>4. at = {Place(i, q.sources)}
    <3>1. CASE issue.code = "PROVENANCE_EVIDENCE_NOT_VERBATIM"
      BY <1>1, <1>3, <2>2, <3>1 DEF Request
    <3>2. CASE issue.code # "PROVENANCE_EVIDENCE_NOT_VERBATIM"
      <4>1. Place(i, q.sources) = 0
        BY <1>3, <2>1, <3>2, PlaceZero
      <4>2. QED
        BY <1>1, <2>2, <3>2, <4>1 DEF Request
    <3>3. QED
      BY <3>1, <3>2
  <2>5. {k \in q.sources : Place(k, q.sources) \in at} = {i}
    <3>1. \A k \in q.sources : Place(k, q.sources) = Place(i, q.sources) => k = i
      BY <1>3, <2>1, PlaceTells
    <3>2. QED
      BY <1>3, <2>4, <3>1
  <2>6. {o \in profile.requirements : o.at \in r.requirement} = {q}
    BY <2>3 DEF Built, ProfileOK
  <2>7. QED
    BY <1>1, <2>2, <2>3, <2>5, <2>6 DEF Targets
<1>4. QED
  BY <1>2, <1>3 DEF About

\* The recoveries of the whole list have no target.
LEMMA WholeIs ==
    ASSUME NEW action
    PROVE  LET r == Request(Issue("NO_RESOLVED_REQUIREMENTS", 0, 0), action)
           IN  Whole(r) /\ Targets(r) = {}
BY DEF Request, Issue, Unresolving, Whole, Targets

\* A recovery that is to be executed was asked for by an issue of the profile.
Asked == recovery # None /\ result = None =>
    \E issue \in Validate(profile) : \E action \in Permitted(issue.code) :
        recovery = Request(issue, action)

\* The inductive invariant
RecoveryInv == Built /\ Asked /\ (result # None => result.status \notin {"refused", "raised"})

\* The artifacts a result has to come with
Shaped(status, artifacts) ==
    \/ status \in {"no_change", "failed", "refused"} /\ artifacts = {}
    \/ status = "succeeded" /\ artifacts \in {{"extraction"}, {"normalization"}}
    \/ status = "awaiting_input" /\ artifacts = {"question"}
    \/ status = "escalated" /\ artifacts = {"escalation"}

\* A result of such a shape is returned as it is.
LEMMA ReturnsIs ==
    ASSUME NEW status, NEW artifacts, Shaped(status, artifacts), Returns(Result(status, artifacts))
    PROVE  result' = Result(status, artifacts) /\ result'.status = status /\ result' # None
<1>1. PICK res : res = Result(status, artifacts)
  OBVIOUS
<1>2. res.status = status /\ res.artifacts = artifacts /\ DOMAIN res # {}
  BY <1>1 DEF Result
<1>3. WellShaped(res)
  <2>1. CASE artifacts = {}
    BY <1>2, <2>1 DEF Shaped, WellShaped
  <2>2. CASE artifacts # {}
    BY <1>2, <2>2 DEF Shaped, WellShaped
  <2>3. QED
    BY <2>1, <2>2
<1>4. result' = res
  BY <1>1, <1>3 DEF Returns
<1>5. DOMAIN None = {}
  BY DEF None
<1>6. QED
  BY <1>1, <1>2, <1>4, <1>5

\* Every action returns such a result; only what has no target is refused.
LEMMA ExecuteReturns ==
    ASSUME Execute
    PROVE  /\ result' # None /\ result'.status # "raised"
           /\ result'.status = "refused" =>
                 \/ recovery.action = "reextract_field" /\ ~ Aimed(recovery, TRUE)
                 \/ /\ recovery.action \in {"lookup_taxonomy", "reconsider_mapping"}
                    /\ ~ AimedAtMapping(recovery)
                 \/ recovery.action = "request_clarification" /\ ~ Askable(recovery)
<1> DEFINE Accepted == result' # None /\ result'.status \notin {"refused", "raised"}
           Turned == result' # None /\ result'.status = "refused"
<1>1. Returns(Result("refused", {})) => Turned
  BY ReturnsIs DEF Shaped
<1>2. Returns(Result("no_change", {})) => Accepted
  BY ReturnsIs DEF Shaped
<1>3. Returns(Result("failed", {})) => Accepted
  BY ReturnsIs DEF Shaped
<1>4. \A made \in {"extraction", "normalization"} : Returns(Result("succeeded", {made})) => Accepted
  BY ReturnsIs DEF Shaped
<1>5. Returns(Result("awaiting_input", {"question"})) => Accepted
  BY ReturnsIs DEF Shaped
<1>6. Returns(Result("escalated", {"escalation"})) => Accepted
  BY ReturnsIs DEF Shaped
<1>7. CASE Rebuild
  BY <1>2, <1>7 DEF Rebuild
<1>8. CASE Reextract
  <2>1. ASSUME NEW e, Returns(IF e = extraction THEN Result("no_change", {})
                              ELSE Result("succeeded", {"extraction"}))
        PROVE  Accepted
    <3>1. Returns(Result("no_change", {})) \/ Returns(Result("succeeded", {"extraction"}))
      BY <2>1 DEF Returns
    <3>2. QED
      BY <1>2, <1>4, <3>1
  <2>2. QED
    BY <1>1, <1>3, <1>8, <2>1 DEF Reextract, Refused
<1>9. CASE Renormalize
  <2>1. ASSUME NEW n, Returns(IF n = normalization THEN Result("no_change", {})
                              ELSE Result("succeeded", {"normalization"}))
        PROVE  Accepted
    <3>1. Returns(Result("no_change", {})) \/ Returns(Result("succeeded", {"normalization"}))
      BY <2>1 DEF Returns
    <3>2. QED
      BY <1>2, <1>4, <3>1
  <2>2. QED
    BY <1>1, <1>3, <1>9, <2>1 DEF Renormalize, Refused
<1>10. CASE Ask
  BY <1>1, <1>5, <1>10 DEF Ask
<1>11. CASE Escalate
  BY <1>6, <1>11 DEF Escalate
<1>12. QED
  BY <1>7, <1>8, <1>9, <1>10, <1>11 DEF Execute

\* The action it asks for can be executed (executor).
LEMMA ExecuteKeeps ==
    ASSUME Built, Asked, Execute
    PROVE  result'.status \notin {"refused", "raised"}
<1>1. PICK issue \in Validate(profile) :
          \E action \in Permitted(issue.code) : recovery = Request(issue, action)
  BY DEF Execute, Asked
<1> PICK action \in Permitted(issue.code) : recovery = Request(issue, action)
  BY <1>1
<1>2. /\ recovery.action = action /\ recovery.issue = issue
      /\ recovery.unresolved = IF issue.code \in Unresolving THEN {issue.at} ELSE {}
      /\ recovery.requirement = IF issue.code \in Unresolving \cup {"NO_RESOLVED_REQUIREMENTS"}
                                THEN {} ELSE {issue.at}
  BY <1>1 DEF Request
<1>3. CASE issue.code = "NO_RESOLVED_REQUIREMENTS"
  <2>1. issue = Issue("NO_RESOLVED_REQUIREMENTS", 0, 0)
    BY <1>1, <1>3, IssueIs DEF Says, UnresolvedIssue, Issue
  <2>2. Whole(recovery) /\ Targets(recovery) = {}
    BY <1>1, <2>1, WholeIs
  <2>3. action \in {"reextract_field", "lookup_taxonomy", "escalate"}
    BY <1>1, <1>3 DEF Permitted, ResolvableBy
  <2>4. Aimed(recovery, TRUE)
    BY <2>2 DEF Aimed
  <2>5. action = "lookup_taxonomy" => AimedAtMapping(recovery)
    BY <1>2, <1>3, <2>4 DEF AimedAtMapping
  <2>6. QED
    BY <1>2, <2>3, <2>4, <2>5, ExecuteReturns
<1>4. CASE issue.code # "NO_RESOLVED_REQUIREMENTS"
  <2>1. PICK i \in DOMAIN normalization : Targets(recovery) = {i}
    BY <1>1, <1>4, AboutOne, TargetIs
  <2>2. Aimed(recovery, TRUE)
    BY <2>1 DEF Aimed
  <2>3. action \in {"lookup_taxonomy", "reconsider_mapping"} => AimedAtMapping(recovery)
    BY <1>2, <2>1 DEF AimedAtMapping, Aimed, HintsValid
  <2>4. action = "request_clarification" => Askable(recovery)
    <3>1. SUFFICES ASSUME action = "request_clarification" PROVE Askable(recovery)
      OBVIOUS
    <3>2. issue.code \in {"MISSING_REQUIRED_LEVEL", "NEEDS_REVIEW_REQUIREMENT"}
      <4>1. issue.code \in Codes
        BY <1>1, IssueIs DEF Says, UnresolvedIssue, Issue, Codes, ExtractionIssues
      <4>2. QED
        BY <1>1, <3>1, <4>1 DEF Permitted, ResolvableBy, Codes, ExtractionIssues
    <3>3. QED
      BY <1>2, <2>1, <3>2 DEF Askable, Unresolving
  <2>5. QED
    BY <1>2, <2>2, <2>3, <2>4, ExecuteReturns
<1>5. QED
  BY <1>3, <1>4

\* Whatever is extracted and mapped, the lists are made anew from it.
LEMMA BuiltStays ==
    ASSUME extraction \in Seq(Requirement), normalization \in [DOMAIN extraction -> Mapping]
    PROVE  Built
BY BuildIs DEF Built, profile

\* Nothing is asked for yet.
LEMMA RecoveryInvStarts == RecoveryInit => RecoveryInv
<1>1. SUFFICES ASSUME RecoveryInit PROVE RecoveryInv
  OBVIOUS
<1>2. extraction \in Seq(Requirement) /\ normalization \in [DOMAIN extraction -> Mapping]
  BY <1>1, AnswersAssumption DEF RecoveryInit
<1>3. QED
  BY <1>1, <1>2, BuiltStays DEF RecoveryInit, RecoveryInv, Asked

\* Every decision, execution and rebuilt profile keeps that.
LEMMA RecoveryInvSteps ==
    ASSUME RecoveryInv, [RecoveryNext]_recoveryVars
    PROVE  RecoveryInv'
<1>1. Built /\ Asked /\ (result # None => result.status \notin {"refused", "raised"})
  BY DEF RecoveryInv
<1>2. UNCHANGED <<extraction, normalization>> => Built' /\ profile' = profile
  BY <1>1 DEF Built, profile
<1>3. CASE RequestRecovery
  BY <1>1, <1>2, <1>3 DEF RequestRecovery, RecoveryInv, Asked
<1>4. CASE Execute
  <2>1. extraction' \in Seq(Requirement) /\ normalization' \in [DOMAIN extraction' -> Mapping]
    <3>1. extraction \in Seq(Requirement) /\ normalization \in [DOMAIN extraction -> Mapping]
      BY <1>1 DEF Built
    <3>2. QED
      BY <1>4, <3>1, AnswersAssumption
      DEF Execute, Rebuild, Reextract, Renormalize, Ask, Escalate, Refused
  <2>2. Built'
    BY <2>1, BuildIs DEF Built, profile
  <2>3. result' # None
    BY <1>4, ExecuteReturns
  <2>4. QED
    BY <1>1, <1>4, <2>2, <2>3, ExecuteKeeps DEF RecoveryInv, Asked
<1>5. CASE Settle
  BY <1>1, <1>2, <1>5 DEF Settle, RecoveryInv, Asked
<1>6. CASE UNCHANGED recoveryVars
  BY <1>1, <1>2, <1>6 DEF recoveryVars, RecoveryInv, Asked
<1>7. QED
  BY <1>3, <1>4, <1>5, <1>6 DEF RecoveryNext

\* Whatever the models extract and map, the executor accepts every request that an issue
\* leads to, and what the request is aimed at through two lists of places is a
\* requirement of which the issue is true; two issues of one kind never share a target
\* (decision.py, recovery.py, executor.py).
THEOREM IssueHasItsTargetHolds == RecoverySpec => []IssueHasItsTarget
<1>1. ASSUME RecoveryInv PROVE IssueHasItsTarget
  <2>1. SUFFICES ASSUME recovery # None, result = None
                 PROVE  /\ \A i \in Targets(recovery) : Concerns(recovery.issue, i)
                        /\ Targets(recovery) = {} => recovery.issue.code = "NO_RESOLVED_REQUIREMENTS"
                        /\ \A other \in Validate(profile) \ {recovery.issue} :
                              other.code = recovery.issue.code
                                => Targets(Request(other, recovery.action)) \cap Targets(recovery) = {}
    BY <1>1 DEF RecoveryInv, IssueHasItsTarget
  <2> PICK issue \in Validate(profile) :
            \E action \in Permitted(issue.code) : recovery = Request(issue, action)
    BY <1>1, <2>1 DEF RecoveryInv, Asked
  <2>2. PICK action \in Permitted(issue.code) : recovery = Request(issue, action)
    OBVIOUS
  <2>3. recovery.issue = issue /\ Built
    BY <1>1, <2>2 DEF Request, RecoveryInv
  <2>4. CASE issue.code = "NO_RESOLVED_REQUIREMENTS"
    <3>1. issue = Issue("NO_RESOLVED_REQUIREMENTS", 0, 0)
      BY <2>2, <2>4, IssueIs DEF Says, UnresolvedIssue, Issue
    <3>2. Targets(recovery) = {}
      BY <2>2, <3>1, WholeIs
    <3>3. QED
      BY <2>3, <2>4, <3>2
  <2>5. CASE issue.code # "NO_RESOLVED_REQUIREMENTS"
    <3>1. PICK i \in DOMAIN normalization : About(issue, i)
      BY <2>2, <2>3, <2>5, AboutOne
    <3>2. Targets(recovery) = {i} /\ Concerns(issue, i)
      BY <2>2, <2>3, <3>1, TargetIs, AboutConcerns
    <3>3. ASSUME NEW other \in Validate(profile) \ {issue}, other.code = issue.code
          PROVE  i \notin Targets(Request(other, recovery.action))
      <4>1. PICK j \in DOMAIN normalization : About(other, j)
        BY <2>3, <2>5, <3>3, AboutOne
      <4>2. Targets(Request(other, recovery.action)) = {j}
        BY <2>3, <4>1, TargetIs
      <4>3. i # j
        BY <2>3, <3>1, <3>3, <4>1, AboutTells
      <4>4. QED
        BY <4>2, <4>3
    <3>4. QED
      BY <2>3, <2>5, <3>2, <3>3
  <2>6. QED
    BY <2>4, <2>5
<1>2. QED
  BY <1>1, RecoveryInvStarts, RecoveryInvSteps, PTL DEF RecoverySpec

-----------------------------------------------------------------------------
(* AdminTerminal *)

Ids == {"none"} \cup {q.id : q \in Questions} \cup Escalations
Topics == {"none"} \cup {q.about : q \in Questions}
Actors == Names \cup {NoAdmin}
Answers == [on : Ids, to : Topics, shown : Topics]
Reviews == [by : Actors, on : Ids, decision : {"acknowledge", "reject"}]
Requests == [stage : {"processing", "awaiting", "escalated", "completed"}, open : Ids,
             about : Topics, answers : Seq(Answers), reviews : Seq(Reviews)]
Places == {"closed", "menu", "review_login", "answer_login", "decide", "record", "saving", "answer"}
Events == [actor : Actors, on : Ids, outcome : {"succeeded", "rejected", "cancelled"}]

Sessions == [pc : Places, seen : Requests, tries : Nat, actor : Actors, choices : Nat]

TypeOK ==
    /\ request \in Requests
    /\ terminal \in [Terminals -> Sessions]
    /\ audit \in [Terminals -> Seq(Events)]
    /\ refused \in Nat

-----------------------------------------------------------------------------
\* A change of place leaves a session a session.
LEMMA GoesType ==
    ASSUME TypeOK, NEW t \in Terminals, NEW pc \in Places, Goes(t, pc)
    PROVE  terminal' \in [Terminals -> Sessions]
<1>1. ASSUME NEW s \in Sessions PROVE [s EXCEPT !.pc = pc] \in Sessions
  BY DEF Sessions
<1>2. terminal' = [terminal EXCEPT ![t] = [terminal[t] EXCEPT !.pc = pc]]
  BY DEF Goes
<1> QED BY <1>1, <1>2 DEF TypeOK

\* An event recorded for a terminal is an event.
LEMMA AuditedType ==
    ASSUME TypeOK, NEW t \in Terminals, NEW outcome \in {"succeeded", "rejected", "cancelled"},
           Audited(t, outcome)
    PROVE  audit' \in [Terminals -> Seq(Events)]
<1>1. terminal[t].actor \in Actors /\ terminal[t].seen.open \in Ids
  BY DEF TypeOK, Sessions, Requests
<1>2. [actor |-> terminal[t].actor, on |-> terminal[t].seen.open, outcome |-> outcome] \in Events
  BY <1>1 DEF Events
<1>3. audit' = [audit EXCEPT ![t] = Append(audit[t],
          [actor |-> terminal[t].actor, on |-> terminal[t].seen.open, outcome |-> outcome])]
  BY DEF Audited
<1>4. Append(audit[t], [actor |-> terminal[t].actor, on |-> terminal[t].seen.open,
                        outcome |-> outcome]) \in Seq(Events)
  BY <1>2 DEF TypeOK
<1> QED BY <1>3, <1>4 DEF TypeOK

\* Every action keeps the types (the shape of the checkpoint and of a session).
LEMMA TypeStep == TypeOK /\ [Next]_vars => TypeOK'
<1> SUFFICES ASSUME TypeOK, [Next]_vars PROVE TypeOK'
  OBVIOUS
<1>1. CASE Automation
  <2>1. request' \in Requests
    <3>1. CASE \E q \in Questions :
              request' = [request EXCEPT !.stage = "awaiting", !.open = q.id, !.about = q.about]
      <4>1. PICK q \in Questions :
               request' = [request EXCEPT !.stage = "awaiting", !.open = q.id, !.about = q.about]
        BY <3>1
      <4>2. q.id \in Ids /\ q.about \in Topics
        BY DEF Ids, Topics
      <4> QED BY <4>1, <4>2 DEF TypeOK, Requests
    <3>2. CASE \E e \in Escalations :
              request' = [request EXCEPT !.stage = "escalated", !.open = e, !.about = "none"]
      BY <3>2 DEF TypeOK, Requests, Ids, Topics
    <3>3. CASE request' = [request EXCEPT !.stage = "completed", !.open = "none"]
      BY <3>3 DEF TypeOK, Requests, Ids, Topics
    <3> QED BY <1>1, <3>1, <3>2, <3>3 DEF Automation
  <2> QED BY <1>1, <2>1 DEF Automation, TypeOK
<1>2. ASSUME NEW t \in Terminals, Open(t) \/ Exit(t) \/ Cancel(t) PROVE TypeOK'
  <2>1. PICK pc \in {"menu", "closed"} : Goes(t, pc)
    BY <1>2 DEF Open, Exit, Cancel
  <2>2. terminal' \in [Terminals -> Sessions]
    BY <2>1, GoesType DEF Places
  <2> QED BY <1>2, <2>2 DEF Open, Exit, Cancel, TypeOK
<1>3. ASSUME NEW t \in Terminals, ChooseReview(t) \/ ChooseAnswer(t) PROVE TypeOK'
  <2>1. PICK pc \in {"menu", "review_login", "answer_login"} : Reads(t, pc)
    BY <1>3 DEF ChooseReview, ChooseAnswer
  <2> DEFINE s == [pc |-> pc, seen |-> request, tries |-> 0, actor |-> NoAdmin,
                   choices |-> terminal[t].choices + 1]
  <2>2. s \in Sessions
    <3>1. terminal[t] \in Sessions /\ request \in Requests
      BY DEF TypeOK
    <3>2. NoAdmin \in Actors /\ pc \in Places
      BY DEF Actors, Places
    <3> QED BY <3>1, <3>2 DEF Sessions
  <2>3. terminal' \in [Terminals -> Sessions]
    <3>1. terminal' = [terminal EXCEPT ![t] = s]
      BY <2>1 DEF Reads
    <3> QED BY <3>1, <2>2 DEF TypeOK
  <2> QED BY <1>3, <2>3 DEF ChooseReview, ChooseAnswer, TypeOK
<1>4. ASSUME NEW t \in Terminals, LoginReviewer(t) \/ LoginClarifier(t) PROVE TypeOK'
  <2>1. PICK required \in {"escalator", "clarifier"}, next \in {"decide", "answer"} :
           Login(t, required, next)
    BY <1>4 DEF LoginReviewer, LoginClarifier
  <2>2. ASSUME NEW name \in Names
        PROVE  [terminal[t] EXCEPT !.pc = next, !.actor = name] \in Sessions
    <3>1. terminal[t] \in Sessions
      BY DEF TypeOK
    <3>2. name \in Actors /\ next \in Places
      BY <2>2 DEF Actors, Places
    <3> QED BY <3>1, <3>2 DEF Sessions
  <2>3. Denied(terminal[t]) \in Sessions
    <3> DEFINE n == terminal[t].tries + 1
               pc == IF n < MaxLogins THEN terminal[t].pc ELSE "menu"
    <3>1. terminal[t] \in Sessions
      BY DEF TypeOK
    <3>2. n \in Nat /\ pc \in Places
      BY <3>1 DEF Sessions, Places
    <3>3. Denied(terminal[t]) = [terminal[t] EXCEPT !.tries = n, !.pc = pc]
      BY DEF Denied
    <3> HIDE DEF n, pc
    <3> QED BY <3>1, <3>2, <3>3 DEF Sessions
  <2>4. PICK name \in Names, right \in BOOLEAN :
           IF right /\ Authorized(name, required)
           THEN terminal' = [terminal EXCEPT ![t] = [@ EXCEPT !.pc = next, !.actor = name]]
           ELSE terminal' = [terminal EXCEPT ![t] = Denied(@)]
    BY <2>1 DEF Login
  <2>5. terminal' \in [Terminals -> Sessions]
    <3>1. CASE right /\ Authorized(name, required)
      <4>1. terminal' = [terminal EXCEPT ![t] = [terminal[t] EXCEPT !.pc = next, !.actor = name]]
        BY <2>4, <3>1
      <4> QED BY <4>1, <2>2 DEF TypeOK
    <3>2. CASE ~(right /\ Authorized(name, required))
      BY <2>3, <2>4, <3>2 DEF TypeOK
    <3> QED BY <3>1, <3>2
  <2> QED BY <2>1, <2>5 DEF Login, TypeOK
<1>5. ASSUME NEW t \in Terminals, Decide(t) PROVE TypeOK'
  <2>1. ASSUME NEW decision \in {"acknowledge", "reject"}
        PROVE  WithReview(t, decision) \in Requests
    <3>1. terminal[t].seen \in Requests /\ terminal[t].actor \in Actors
      BY DEF TypeOK, Sessions
    <3>2. [by |-> terminal[t].actor, on |-> terminal[t].seen.open, decision |-> decision]
             \in Reviews
      BY <3>1 DEF Requests, Reviews
    <3> DEFINE review == [by |-> terminal[t].actor, on |-> terminal[t].seen.open,
                          decision |-> decision]
    <3>3. Append(terminal[t].seen.reviews, review) \in Seq(Reviews)
      BY <3>1, <3>2 DEF Requests
    <3>4. WithReview(t, decision) =
             [terminal[t].seen EXCEPT !.reviews = Append(terminal[t].seen.reviews, review)]
      BY DEF WithReview
    <3> HIDE DEF review
    <3> QED BY <3>1, <3>3, <3>4 DEF Requests
  <2>2. request' = request /\ refused' = refused
    BY <1>5 DEF Decide
  <2>3. CASE Reviewable(t)
    <3>1. PICK decision \in {"acknowledge", "reject"} :
             terminal' = [terminal EXCEPT ![t].pc = "record", ![t].seen = WithReview(t, decision)]
      BY <1>5, <2>3 DEF Decide
    <3>2. [terminal[t] EXCEPT !.pc = "record", !.seen = WithReview(t, decision)] \in Sessions
      BY <2>1 DEF TypeOK, Sessions, Places
    <3>3. terminal' \in [Terminals -> Sessions]
      BY <3>1, <3>2 DEF TypeOK
    <3>4. audit' \in [Terminals -> Seq(Events)]
      BY <1>5, <2>3, AuditedType DEF Decide
    <3> QED BY <2>2, <3>3, <3>4 DEF TypeOK
  <2>4. CASE ~Reviewable(t)
    BY <1>5, <2>2, <2>4, GoesType, AuditedType DEF Decide, TypeOK, Places
  <2> QED BY <2>3, <2>4
<1>6. ASSUME NEW t \in Terminals, NoDecision(t) PROVE TypeOK'
  <2>1. terminal' \in [Terminals -> Sessions]
    BY <1>6, GoesType DEF NoDecision, Places
  <2>2. audit' \in [Terminals -> Seq(Events)]
    BY <1>6, AuditedType DEF NoDecision
  <2> QED BY <1>6, <2>1, <2>2 DEF NoDecision, TypeOK
<1>7. ASSUME NEW t \in Terminals, ReadBack(t) PROVE TypeOK'
  <2>1. terminal' \in [Terminals -> Sessions]
    BY <1>7, GoesType DEF ReadBack, Places
  <2> QED BY <1>7, <2>1 DEF ReadBack, TypeOK
<1>8. ASSUME NEW t \in Terminals, Save(t) PROVE TypeOK'
  <2>1. terminal' \in [Terminals -> Sessions]
    BY <1>8, GoesType DEF Save, Places
  <2>2. request' \in Requests
    BY <1>8 DEF Save, TypeOK, Sessions
  <2> QED BY <1>8, <2>1, <2>2 DEF Save, TypeOK
<1>9. ASSUME NEW t \in Terminals, Answer(t) PROVE TypeOK'
  <2>1. terminal' \in [Terminals -> Sessions]
    BY <1>9, GoesType DEF Answer, Places
  <2>2. terminal[t].seen.about \in Topics /\ request.open \in Ids /\ request.about \in Topics
    BY DEF TypeOK, Sessions, Requests
  <2>3. [on |-> request.open, to |-> request.about, shown |-> terminal[t].seen.about] \in Answers
    BY <2>2 DEF Answers
  <2>4. [request EXCEPT !.stage = "processing", !.open = "none", !.about = "none",
            !.answers = Append(@, [on |-> request.open, to |-> request.about,
                                   shown |-> terminal[t].seen.about])] \in Requests
    <3> DEFINE answer == [on |-> request.open, to |-> request.about,
                          shown |-> terminal[t].seen.about]
    <3>1. "none" \in Ids /\ "none" \in Topics
      BY DEF Ids, Topics
    <3>2. request \in Requests
      BY DEF TypeOK
    <3>3. Append(request.answers, answer) \in Seq(Answers)
      BY <2>3, <3>2 DEF Requests
    <3> HIDE DEF answer
    <3>4. [request EXCEPT !.stage = "processing", !.open = "none", !.about = "none",
              !.answers = Append(request.answers, answer)] \in Requests
      BY <3>1, <3>2, <3>3 DEF Requests
    <3> QED BY <3>4 DEF answer
  <2>5. request' \in Requests /\ refused' \in Nat
    BY <1>9, <2>4 DEF Answer, TypeOK
  <2> QED BY <1>9, <2>1, <2>5 DEF Answer, TypeOK
<1>10. CASE UNCHANGED vars
  BY <1>10 DEF vars, TypeOK
<1> QED BY <1>1, <1>2, <1>3, <1>4, <1>5, <1>6, <1>7, <1>8, <1>9, <1>10 DEF Next

\* Every action keeps the types, for any administrators, questions and
\* escalations (the shape of the checkpoint and of a terminal's session).
THEOREM TypeCorrect == Spec => []TypeOK
<1>1. Init => TypeOK
  BY DEF Init, TypeOK, Idle, Fresh, Requests, Sessions, Places, Ids, Topics, Actors
<1>2. TypeOK /\ [Next]_vars => TypeOK'
  BY TypeStep
<1> QED BY <1>1, <1>2, PTL DEF Spec

-----------------------------------------------------------------------------
(* An answer fits its question                                             *)

Answered(r, id) == \E k \in DOMAIN r.answers : r.answers[k].on = id

\* What a session has read agrees with the checkpoint where it matters: an
\* escalation is the end, and a question that was read and is no longer the open
\* one has been answered.
Agrees(r, s) ==
    /\ s.seen.stage = "escalated" =>
          r.stage = "escalated" /\ s.seen.open = r.open /\ s.seen.answers = r.answers
    /\ s.pc \in {"record", "saving"} => s.seen.stage = "escalated"
    /\ s.pc \in {"answer_login", "answer"} =>
          \/ Answered(r, s.seen.open)
          \/ r.stage = "awaiting" /\ r.open = s.seen.open /\ r.about = s.seen.about

AllAgree == \A t \in Terminals : Agrees(request, terminal[t])

\* A step of one terminal that leaves the checkpoint alone has only its own
\* session to account for.
LEMMA OneMoves ==
    ASSUME TypeOK, AllAgree, NEW t \in Terminals, NEW s, request' = request,
           terminal' = [terminal EXCEPT ![t] = s], Agrees(request, s)
    PROVE  AllAgree'
<1>1. \A u \in Terminals : terminal'[u] = IF u = t THEN s ELSE terminal[u]
  BY DEF TypeOK
<1> QED BY <1>1 DEF AllAgree, Agrees, Answered

\* A change of place to the menu, to the end or to the next place of the same task.
LEMMA OneGoes ==
    ASSUME TypeOK, AllAgree, NEW t \in Terminals, NEW pc, request' = request, Goes(t, pc),
           pc \in {"record", "saving"} => terminal[t].seen.stage = "escalated",
           pc \notin {"answer_login", "answer"}
    PROVE  AllAgree'
<1> DEFINE s == [terminal[t] EXCEPT !.pc = pc]
<1>1. terminal' = [terminal EXCEPT ![t] = s]
  BY DEF Goes
<1>2. s.pc = pc /\ s.seen = terminal[t].seen
  BY DEF TypeOK, Sessions
<1>3. Agrees(request, terminal[t])
  BY DEF AllAgree
<1>4. Agrees(request, s)
  <2> HIDE DEF s
  <2> QED BY <1>2, <1>3 DEF Agrees
<1> HIDE DEF s
<1> QED BY <1>1, <1>4, OneMoves

\* Reading the checkpoint makes a session agree with it.
LEMMA OneReads ==
    ASSUME TypeOK, AllAgree, NEW t \in Terminals, request' = request,
           ChooseReview(t) \/ ChooseAnswer(t)
    PROVE  AllAgree'
<1>1. PICK pc \in {"menu", "review_login", "answer_login"} :
         Reads(t, pc) /\ (pc = "answer_login" => request.stage = "awaiting")
  <2>1. CASE ChooseReview(t)
    BY <2>1 DEF ChooseReview
  <2>2. CASE ChooseAnswer(t)
    BY <2>2 DEF ChooseAnswer
  <2> QED BY <2>1, <2>2
<1> DEFINE s == [pc |-> pc, seen |-> request, tries |-> 0, actor |-> NoAdmin,
                 choices |-> terminal[t].choices + 1]
<1>2. terminal' = [terminal EXCEPT ![t] = s]
  BY <1>1 DEF Reads
<1>3. s.pc = pc /\ s.seen = request
  OBVIOUS
<1>4. Agrees(request, s)
  <2> HIDE DEF s
  <2> QED BY <1>1, <1>3 DEF Agrees
<1> HIDE DEF s
<1> QED BY <1>2, <1>4, OneMoves

\* A login moves on to the place of its own task, and a refused one stays or ends.
LEMMA OneLogsIn ==
    ASSUME TypeOK, AllAgree, NEW t \in Terminals, request' = request,
           LoginReviewer(t) \/ LoginClarifier(t)
    PROVE  AllAgree'
<1>1. Agrees(request, terminal[t]) /\ terminal[t] \in Sessions
  BY DEF AllAgree, TypeOK
<1>2. PICK required, next :
         /\ Login(t, required, next)
         /\ \/ next = "decide"
            \/ next = "answer" /\ terminal[t].pc = "answer_login"
         /\ terminal[t].pc \in {"review_login", "answer_login"}
  BY DEF LoginReviewer, LoginClarifier
<1>3. PICK name \in Names, right \in BOOLEAN :
         IF right /\ Authorized(name, required)
         THEN terminal' = [terminal EXCEPT ![t] = [@ EXCEPT !.pc = next, !.actor = name]]
         ELSE terminal' = [terminal EXCEPT ![t] = Denied(@)]
  BY <1>2 DEF Login
<1>4. CASE right /\ Authorized(name, required)
  <2> DEFINE s == [terminal[t] EXCEPT !.pc = next, !.actor = name]
  <2>1. terminal' = [terminal EXCEPT ![t] = s]
    BY <1>3, <1>4
  <2>2. s.pc = next /\ s.seen = terminal[t].seen
    BY <1>1 DEF Sessions
  <2> HIDE DEF s
  <2>3. Agrees(request, s)
    BY <1>1, <1>2, <2>2 DEF Agrees
  <2> QED BY <2>1, <2>3, OneMoves
<1>5. CASE ~(right /\ Authorized(name, required))
  <2> DEFINE s == Denied(terminal[t])
  <2>1. terminal' = [terminal EXCEPT ![t] = s]
    BY <1>3, <1>5
  <2>2. s.pc \in {terminal[t].pc, "menu"} /\ s.seen = terminal[t].seen
    BY <1>1 DEF Sessions, Denied
  <2> HIDE DEF s
  <2>3. Agrees(request, s)
    BY <1>1, <1>2, <2>2 DEF Agrees
  <2> QED BY <2>1, <2>3, OneMoves
<1> QED BY <1>4, <1>5

\* A decision writes a review into what was read, and nothing else.
LEMMA OneDecides ==
    ASSUME TypeOK, AllAgree, NEW t \in Terminals, Decide(t)
    PROVE  AllAgree'
<1>1. request' = request
  BY DEF Decide
<1>2. CASE ~Reviewable(t)
  BY <1>1, <1>2, OneGoes DEF Decide
<1>3. CASE Reviewable(t)
  <2>1. PICK decision \in {"acknowledge", "reject"} :
           terminal' = [terminal EXCEPT ![t].pc = "record", ![t].seen = WithReview(t, decision)]
    BY <1>3 DEF Decide
  <2> DEFINE s == [terminal[t] EXCEPT !.pc = "record", !.seen = WithReview(t, decision)]
             w == WithReview(t, decision)
  <2>2. terminal' = [terminal EXCEPT ![t] = s]
    BY <2>1
  <2>3. terminal[t] \in Sessions /\ terminal[t].seen \in Requests
    BY DEF TypeOK, Sessions
  <2>4. s.pc = "record" /\ s.seen = w
    BY <2>3 DEF Sessions
  <2>5. w.stage = terminal[t].seen.stage /\ w.open = terminal[t].seen.open
        /\ w.answers = terminal[t].seen.answers
    BY <2>3 DEF WithReview, Requests
  <2>6. terminal[t].seen.stage = "escalated"
    BY <1>3 DEF Reviewable
  <2>7. Agrees(request, terminal[t])
    BY DEF AllAgree
  <2> HIDE DEF s, w
  <2>8. Agrees(request, s)
    BY <2>4, <2>5, <2>6, <2>7 DEF Agrees
  <2> QED BY <1>1, <2>2, <2>8, OneMoves
<1> QED BY <1>2, <1>3

\* The workflow moves only between two questions, when nothing that was read is
\* an escalation and every question that was read is answered.
LEMMA WorkflowMoves ==
    ASSUME TypeOK, AllAgree, AnswerFitsQuestion, Automation
    PROVE  AllAgree' /\ AnswerFitsQuestion'
<1>1. request.stage = "processing" /\ terminal' = terminal /\ request \in Requests
  BY DEF Automation, TypeOK
<1>2. request'.answers = request.answers
  BY <1>1 DEF Automation, Requests
<1>3. ASSUME NEW t \in Terminals PROVE Agrees(request', terminal[t])
  <2>1. Agrees(request, terminal[t])
    BY DEF AllAgree
  <2> QED BY <1>1, <1>2, <2>1 DEF Agrees, Answered
<1>4. AllAgree'
  BY <1>1, <1>3 DEF AllAgree
<1> QED BY <1>2, <1>4 DEF AnswerFitsQuestion

\* A review is saved over the escalation it was read from.
LEMMA ReviewSaved ==
    ASSUME TypeOK, AllAgree, AnswerFitsQuestion, NEW t \in Terminals, Save(t)
    PROVE  AllAgree' /\ AnswerFitsQuestion'
<1>1. request' = terminal[t].seen /\ Goes(t, "menu") /\ terminal[t].pc = "saving"
  BY DEF Save
<1>2. /\ request'.stage = "escalated" /\ request.stage = "escalated"
      /\ request'.open = request.open /\ request'.answers = request.answers
  BY <1>1 DEF AllAgree, Agrees
<1>3. ASSUME NEW u \in Terminals PROVE Agrees(request', terminal'[u])
  <2>1. Agrees(request, terminal[u])
    BY DEF AllAgree
  <2>2. CASE u = t
    <3>1. terminal'[u].pc = "menu" /\ terminal'[u].seen = terminal[u].seen
      BY <1>1, <2>2 DEF Goes, TypeOK, Sessions
    <3> QED BY <1>2, <2>1, <3>1 DEF Agrees
  <2>3. CASE u # t
    <3>1. terminal'[u] = terminal[u]
      BY <1>1, <2>3 DEF Goes, TypeOK
    <3> QED BY <1>2, <2>1, <3>1 DEF Agrees, Answered
  <2> QED BY <2>2, <2>3
<1>4. AllAgree'
  BY <1>3 DEF AllAgree
<1> QED BY <1>2, <1>4 DEF AnswerFitsQuestion

\* An answer that is accepted meets the question its terminal has read; every
\* other terminal that read it finds it answered.
LEMMA QuestionAnswered ==
    ASSUME TypeOK, AllAgree, AnswerFitsQuestion, NEW t \in Terminals, Answer(t)
    PROVE  AllAgree' /\ AnswerFitsQuestion'
<1>1. Goes(t, "menu") /\ terminal[t].pc = "answer"
  BY DEF Answer
<1>2. CASE request' = request
  BY <1>1, <1>2, OneGoes DEF AnswerFitsQuestion
<1>3. CASE request' # request
  <2> DEFINE answer == [on |-> request.open, to |-> request.about,
                        shown |-> terminal[t].seen.about]
  <2>1. /\ request.stage = "awaiting" /\ Accepts(t)
        /\ request' = [request EXCEPT
               !.stage = "processing", !.open = "none", !.about = "none",
               !.answers = Append(@, answer)]
    BY <1>3 DEF Answer
  <2>2. request \in Requests /\ request.answers \in Seq(Answers)
    BY DEF TypeOK, Requests
  <2>3. answer.on = request.open /\ answer.to = request.about
        /\ answer.shown = terminal[t].seen.about
    OBVIOUS
  <2>4. answer.to = answer.shown
    <3>1. Agrees(request, terminal[t]) /\ ~Answered(request, request.open)
          /\ terminal[t].seen.open = request.open
      BY <2>1 DEF AllAgree, Accepts, Answered
    <3> QED BY <1>1, <2>3, <3>1 DEF Agrees
  <2> HIDE DEF answer
  <2>5. request'.answers = Append(request.answers, answer) /\ request'.stage = "processing"
    BY <2>1, <2>2 DEF Requests
  <2>6. /\ \A k \in DOMAIN request.answers :
              k \in DOMAIN request'.answers /\ request'.answers[k] = request.answers[k]
        /\ \A k \in DOMAIN request'.answers :
              k \in DOMAIN request.answers \/ request'.answers[k] = answer
        /\ \E k \in DOMAIN request'.answers : request'.answers[k] = answer
    <3>1. /\ DOMAIN request.answers = 1..Len(request.answers) /\ Len(request.answers) \in Nat
          /\ DOMAIN request'.answers = 1..(Len(request.answers) + 1)
          /\ \A k \in 1..Len(request.answers) : request'.answers[k] = request.answers[k]
          /\ request'.answers[Len(request.answers) + 1] = answer
      BY <2>2, <2>5
    <3> QED BY <3>1
  <2>7. AnswerFitsQuestion'
    BY <2>4, <2>6 DEF AnswerFitsQuestion
  <2>8. ASSUME NEW u \in Terminals PROVE Agrees(request', terminal'[u])
    <3>1. Agrees(request, terminal[u])
      BY DEF AllAgree
    <3>2. terminal'[u].seen = terminal[u].seen
      BY <1>1 DEF Goes, TypeOK, Sessions
    <3>3. IF u = t THEN terminal'[u].pc = "menu" ELSE terminal'[u].pc = terminal[u].pc
      BY <1>1 DEF Goes, TypeOK, Sessions
    <3>4. terminal[u].seen.stage # "escalated"
      BY <2>1, <3>1 DEF Agrees
    <3>5. Answered(request', request.open)
      BY <2>3, <2>6 DEF Answered
    <3>6. Answered(request, terminal[u].seen.open) => Answered(request', terminal[u].seen.open)
      BY <2>6 DEF Answered
    <3> QED BY <3>1, <3>2, <3>3, <3>4, <3>5, <3>6 DEF Agrees
  <2> QED BY <2>7, <2>8 DEF AllAgree
<1> QED BY <1>2, <1>3

\* An answer is applied to the requirement its administrator was shown, for any
\* number of terminals and whatever IDs the questions get (AnswerFitsQuestion).
THEOREM AnswerFits == Spec => []AnswerFitsQuestion
<1>1. Init => AllAgree /\ AnswerFitsQuestion
  BY DEF Init, Idle, Fresh, AllAgree, Agrees, AnswerFitsQuestion
<1>2. TypeOK /\ AllAgree /\ AnswerFitsQuestion /\ [Next]_vars => (AllAgree /\ AnswerFitsQuestion)'
  <2> SUFFICES ASSUME TypeOK, AllAgree, AnswerFitsQuestion, [Next]_vars
               PROVE  AllAgree' /\ AnswerFitsQuestion'
    OBVIOUS
  <2>1. CASE Automation
    BY <2>1, WorkflowMoves
  <2>2. ASSUME NEW t \in Terminals, Open(t) \/ Exit(t) \/ Cancel(t) \/ NoDecision(t)
        PROVE  AllAgree' /\ AnswerFitsQuestion'
    <3>1. PICK pc \in {"menu", "closed"} : Goes(t, pc)
      BY <2>2 DEF Open, Exit, Cancel, NoDecision
    <3>2. request' = request
      BY <2>2 DEF Open, Exit, Cancel, NoDecision
    <3> QED BY <3>1, <3>2, OneGoes DEF AnswerFitsQuestion
  <2>3. ASSUME NEW t \in Terminals, ChooseReview(t) \/ ChooseAnswer(t)
        PROVE  AllAgree' /\ AnswerFitsQuestion'
    <3>1. request' = request
      BY <2>3 DEF ChooseReview, ChooseAnswer
    <3> QED BY <2>3, <3>1, OneReads DEF AnswerFitsQuestion
  <2>4. ASSUME NEW t \in Terminals, LoginReviewer(t) \/ LoginClarifier(t)
        PROVE  AllAgree' /\ AnswerFitsQuestion'
    <3>1. request' = request
      BY <2>4 DEF LoginReviewer, LoginClarifier, Login
    <3> QED BY <2>4, <3>1, OneLogsIn DEF AnswerFitsQuestion
  <2>5. ASSUME NEW t \in Terminals, Decide(t) PROVE AllAgree' /\ AnswerFitsQuestion'
    <3>1. request' = request
      BY <2>5 DEF Decide
    <3> QED BY <2>5, <3>1, OneDecides DEF AnswerFitsQuestion
  <2>6. ASSUME NEW t \in Terminals, ReadBack(t) PROVE AllAgree' /\ AnswerFitsQuestion'
    <3>1. request' = request
      BY <2>6 DEF ReadBack
    <3>2. PICK pc \in {"saving", "menu"} : Goes(t, pc)
      BY <2>6 DEF ReadBack
    <3>3. terminal[t].seen.stage = "escalated"
      BY <2>6 DEF ReadBack, AllAgree, Agrees
    <3> QED BY <3>1, <3>2, <3>3, OneGoes DEF AnswerFitsQuestion
  <2>7. ASSUME NEW t \in Terminals, Save(t) PROVE AllAgree' /\ AnswerFitsQuestion'
    BY <2>7, ReviewSaved
  <2>8. ASSUME NEW t \in Terminals, Answer(t) PROVE AllAgree' /\ AnswerFitsQuestion'
    BY <2>8, QuestionAnswered
  <2>9. CASE UNCHANGED vars
    BY <2>9 DEF vars, AllAgree, Agrees, Answered, AnswerFitsQuestion
  <2> QED BY <2>1, <2>2, <2>3, <2>4, <2>5, <2>6, <2>7, <2>8, <2>9 DEF Next
<1> QED BY <1>1, <1>2, TypeCorrect, PTL DEF Spec

-----------------------------------------------------------------------------
(* A saved review stays                                                    *)

Event(review) == [actor |-> review.by, on |-> review.on, outcome |-> "succeeded"]

\* An escalator made this review, in a terminal that recorded it.
Proven(a, review) ==
    /\ Authorized(review.by, "escalator")
    /\ \E t \in Terminals : \E i \in DOMAIN a[t] : a[t][i] = Event(review)

\* The only review is one of the open escalation, and the workflow is over.
SoundRequest(r, a) ==
    /\ Len(r.reviews) <= 1
    /\ r.reviews # <<>> => r.stage = "escalated"
    /\ \A k \in DOMAIN r.reviews : r.reviews[k].on = r.open /\ Proven(a, r.reviews[k])

\* A session that holds a review to be saved holds it alone and recorded, and
\* while it is being saved the checkpoint has none.
SoundSession(r, a, s) ==
    /\ s.seen.stage = "escalated" =>
          /\ Len(s.seen.reviews) <= 1
          /\ \A k \in DOMAIN s.seen.reviews : s.seen.reviews[k].on = s.seen.open
    /\ s.pc \in {"record", "saving"} =>
          /\ s.seen.stage = "escalated"
          /\ Len(s.seen.reviews) = 1
          /\ Proven(a, s.seen.reviews[1])
    /\ s.pc = "saving" => r.reviews = <<>>

OneSaves == \A t, u \in Terminals :
    terminal[t].pc = "saving" /\ terminal[u].pc = "saving" => t = u

ReviewInv == /\ SoundRequest(request, audit)
             /\ \A t \in Terminals : SoundSession(request, audit, terminal[t])
             /\ OneSaves

\* Events are only appended, and the administrators stay.
Grows == /\ credentials' = credentials
         /\ \A t \in Terminals : \A i \in DOMAIN audit[t] :
               i \in DOMAIN audit'[t] /\ audit'[t][i] = audit[t][i]

\* Every step only appends to the audit.
LEMMA AuditGrows == TypeOK /\ [Next]_vars => Grows
<1> SUFFICES ASSUME TypeOK, [Next]_vars PROVE Grows
  OBVIOUS
<1>1. CASE audit' = audit /\ credentials' = credentials
  BY <1>1 DEF Grows
<1>2. ASSUME NEW t \in Terminals, Decide(t) \/ NoDecision(t) PROVE Grows
  <2>1. PICK outcome \in {"succeeded", "rejected", "cancelled"} : Audited(t, outcome)
    BY <1>2 DEF Decide, NoDecision
  <2> DEFINE e == [actor |-> terminal[t].actor, on |-> terminal[t].seen.open, outcome |-> outcome]
  <2>2. audit' = [audit EXCEPT ![t] = Append(audit[t], e)]
    BY <2>1 DEF Audited
  <2> HIDE DEF e
  <2>3. ASSUME NEW u \in Terminals, NEW i \in DOMAIN audit[u]
        PROVE  i \in DOMAIN audit'[u] /\ audit'[u][i] = audit[u][i]
    <3>1. audit[u] \in Seq(Events)
      BY DEF TypeOK
    <3>2. audit'[u] = audit[u] \/ audit'[u] = Append(audit[u], e)
      BY <2>2 DEF TypeOK
    <3> QED BY <3>1, <3>2
  <2>4. credentials' = credentials
    BY <1>2 DEF Decide, NoDecision
  <2> QED BY <2>3, <2>4 DEF Grows
<1>3. CASE Automation
  BY <1>1, <1>3 DEF Automation
<1>4. ASSUME NEW t \in Terminals,
             \/ Open(t) \/ ChooseReview(t) \/ ChooseAnswer(t) \/ Exit(t)
             \/ LoginReviewer(t) \/ LoginClarifier(t) \/ Cancel(t)
             \/ ReadBack(t) \/ Save(t) \/ Answer(t)
      PROVE  Grows
  BY <1>1, <1>4 DEF Open, ChooseReview, ChooseAnswer, Exit, LoginReviewer, LoginClarifier,
                    Login, Cancel, ReadBack, Save, Answer
<1>5. CASE UNCHANGED vars
  BY <1>1, <1>5 DEF vars
<1> QED BY <1>2, <1>3, <1>4, <1>5 DEF Next

\* What was recorded stays recorded.
LEMMA ProvenStays ==
    ASSUME Grows, NEW review, Proven(audit, review)
    PROVE  Proven(audit', review) /\ Proven(audit, review)'
<1>1. Proven(audit', review)
  BY DEF Grows, Proven
<1> QED BY <1>1 DEF Grows, Proven, Authorized, Event

\* The checkpoint keeps its soundness while its reviews, its escalation and its
\* end stay.
LEMMA RequestStays ==
    ASSUME Grows, SoundRequest(request, audit),
           request'.reviews = request.reviews,
           request.reviews # <<>> =>
               request'.stage = request.stage /\ request'.open = request.open
    PROVE  SoundRequest(request, audit)'
<1>1. \A k \in DOMAIN request.reviews : Proven(audit', request.reviews[k])
  BY ProvenStays DEF SoundRequest
<1>2. SoundRequest(request', audit')
  BY <1>1 DEF SoundRequest
<1> QED BY <1>2 DEF SoundRequest, Grows, Proven, Authorized

\* A session that does not move stays sound while the reviews stay.
LEMMA SessionStays ==
    ASSUME Grows, NEW s, SoundSession(request, audit, s),
           request'.reviews = request.reviews \/ s.pc # "saving"
    PROVE  SoundSession(request', audit', s)
<1>1. s.pc \in {"record", "saving"} => Proven(audit', s.seen.reviews[1])
  BY ProvenStays DEF SoundSession
<1> QED BY <1>1 DEF SoundSession

\* A step of one terminal that leaves the checkpoint alone.
LEMMA OneMovesSoundly ==
    ASSUME TypeOK, ReviewInv, Grows, NEW t \in Terminals, NEW s, request' = request,
           terminal' = [terminal EXCEPT ![t] = s], SoundSession(request, audit', s),
           s.pc = "saving" => \A u \in Terminals \ {t} : terminal[u].pc # "saving"
    PROVE  ReviewInv'
<1>1. \A u \in Terminals : terminal'[u] = IF u = t THEN s ELSE terminal[u]
  BY DEF TypeOK
<1>2. SoundRequest(request, audit)'
  BY RequestStays DEF ReviewInv
<1>3. ASSUME NEW u \in Terminals PROVE SoundSession(request, audit, terminal[u])'
  <2>1. SoundSession(request', audit', terminal'[u])
    <3>1. CASE u = t
      BY <1>1, <3>1
    <3>2. CASE u # t
      BY <1>1, <3>2, SessionStays DEF ReviewInv
    <3> QED BY <3>1, <3>2
  <2> QED BY <2>1 DEF SoundSession, Grows, Proven, Authorized
<1>4. OneSaves'
  BY <1>1 DEF ReviewInv, OneSaves
<1> QED BY <1>2, <1>3, <1>4 DEF ReviewInv

\* A change of place: a review is only taken along from where it already was, and
\* it is saved only over a checkpoint without one, by one terminal at a time.
LEMMA OneGoesSoundly ==
    ASSUME TypeOK, ReviewInv, Grows, NEW t \in Terminals, NEW pc, request' = request, Goes(t, pc),
           pc # "record",
           pc = "saving" =>
               /\ terminal[t].pc = "record" /\ request.reviews = <<>>
               /\ \A u \in Terminals \ {t} : terminal[u].pc # "saving"
    PROVE  ReviewInv'
<1> DEFINE s == [terminal[t] EXCEPT !.pc = pc]
<1>1. terminal' = [terminal EXCEPT ![t] = s]
  BY DEF Goes
<1>2. s.pc = pc /\ s.seen = terminal[t].seen
  BY DEF TypeOK, Sessions
<1>3. SoundSession(request, audit, terminal[t])
  BY DEF ReviewInv
<1>4. SoundSession(request', audit', terminal[t])
  BY <1>3, SessionStays
<1> HIDE DEF s
<1>5. SoundSession(request, audit', s)
  BY <1>2, <1>4 DEF SoundSession
<1> QED BY <1>1, <1>2, <1>5, OneMovesSoundly

\* A session that has just read the checkpoint has its reviews.
LEMMA OneReadsSoundly ==
    ASSUME TypeOK, ReviewInv, Grows, NEW t \in Terminals, request' = request,
           ChooseReview(t) \/ ChooseAnswer(t)
    PROVE  ReviewInv'
<1>1. PICK pc \in {"menu", "review_login", "answer_login"} : Reads(t, pc)
  <2>1. CASE ChooseReview(t)
    BY <2>1 DEF ChooseReview
  <2>2. CASE ChooseAnswer(t)
    BY <2>2 DEF ChooseAnswer
  <2> QED BY <2>1, <2>2
<1> DEFINE s == [pc |-> pc, seen |-> request, tries |-> 0, actor |-> NoAdmin,
                 choices |-> terminal[t].choices + 1]
<1>2. terminal' = [terminal EXCEPT ![t] = s]
  BY <1>1 DEF Reads
<1>3. s.pc = pc /\ s.seen = request
  OBVIOUS
<1> HIDE DEF s
<1>4. SoundSession(request, audit', s)
  BY <1>1, <1>3 DEF SoundSession, SoundRequest, ReviewInv
<1> QED BY <1>1, <1>2, <1>3, <1>4, OneMovesSoundly

\* A login changes neither what was read nor what is saved.
LEMMA OneLogsInSoundly ==
    ASSUME TypeOK, ReviewInv, Grows, NEW t \in Terminals, request' = request,
           LoginReviewer(t) \/ LoginClarifier(t)
    PROVE  ReviewInv'
<1>1. SoundSession(request, audit, terminal[t]) /\ terminal[t] \in Sessions
  BY DEF ReviewInv, TypeOK
<1>2. PICK required, next :
         /\ Login(t, required, next) /\ next \in {"decide", "answer"}
         /\ terminal[t].pc \in {"review_login", "answer_login"}
  BY DEF LoginReviewer, LoginClarifier
<1>3. PICK name \in Names, right \in BOOLEAN :
         IF right /\ Authorized(name, required)
         THEN terminal' = [terminal EXCEPT ![t] = [@ EXCEPT !.pc = next, !.actor = name]]
         ELSE terminal' = [terminal EXCEPT ![t] = Denied(@)]
  BY <1>2 DEF Login
<1>4. PICK s : /\ terminal' = [terminal EXCEPT ![t] = s]
               /\ s.pc \in {next, terminal[t].pc, "menu"} /\ s.seen = terminal[t].seen
  <2>1. CASE right /\ Authorized(name, required)
    <3> DEFINE s == [terminal[t] EXCEPT !.pc = next, !.actor = name]
    <3>1. terminal' = [terminal EXCEPT ![t] = s]
      BY <1>3, <2>1
    <3>2. s.pc = next /\ s.seen = terminal[t].seen
      BY <1>1 DEF Sessions
    <3> HIDE DEF s
    <3> QED BY <3>1, <3>2
  <2>2. CASE ~(right /\ Authorized(name, required))
    <3> DEFINE s == Denied(terminal[t])
    <3>1. terminal' = [terminal EXCEPT ![t] = s]
      BY <1>3, <2>2
    <3>2. s.pc \in {terminal[t].pc, "menu"} /\ s.seen = terminal[t].seen
      BY <1>1 DEF Sessions, Denied
    <3> HIDE DEF s
    <3> QED BY <3>1, <3>2
  <2> QED BY <2>1, <2>2
<1>5. SoundSession(request, audit', s)
  BY <1>1, <1>2, <1>4 DEF SoundSession
<1> QED BY <1>2, <1>4, <1>5, OneMovesSoundly

\* An escalation without a review gets one, and its event is recorded.
LEMMA OneDecidesSoundly ==
    ASSUME TypeOK, ReviewInv, Grows, NEW t \in Terminals, Decide(t)
    PROVE  ReviewInv'
<1>1. request' = request
  BY DEF Decide
<1>2. CASE ~Reviewable(t)
  BY <1>1, <1>2, OneGoesSoundly DEF Decide
<1>3. CASE Reviewable(t)
  <2>1. PICK decision \in {"acknowledge", "reject"} :
           terminal' = [terminal EXCEPT ![t].pc = "record", ![t].seen = WithReview(t, decision)]
    BY <1>3 DEF Decide
  <2> DEFINE s == [terminal[t] EXCEPT !.pc = "record", !.seen = WithReview(t, decision)]
             w == WithReview(t, decision)
             v == [by |-> terminal[t].actor, on |-> terminal[t].seen.open, decision |-> decision]
  <2>2. terminal' = [terminal EXCEPT ![t] = s]
    BY <2>1
  <2>3. /\ terminal[t] \in Sessions /\ terminal[t].seen \in Requests
        /\ terminal[t].seen.reviews \in Seq(Reviews)
    BY DEF TypeOK, Sessions, Requests
  <2>4. s.pc = "record" /\ s.seen = w
    BY <2>3 DEF Sessions
  <2>5. v.by = terminal[t].actor /\ v.on = terminal[t].seen.open
    OBVIOUS
  <2>6. w.stage = terminal[t].seen.stage /\ w.open = terminal[t].seen.open
        /\ w.reviews = Append(terminal[t].seen.reviews, v)
    BY <2>3 DEF WithReview, Requests
  <2>7. Event(v) = [actor |-> terminal[t].actor, on |-> terminal[t].seen.open,
                    outcome |-> "succeeded"]
    BY <2>5 DEF Event
  <2> HIDE DEF s, w, v
  <2>8. Len(terminal[t].seen.reviews) = 0
    <3>1. \A k \in DOMAIN terminal[t].seen.reviews : FALSE
      BY <1>3 DEF ReviewInv, SoundSession, Reviewable
    <3>2. /\ DOMAIN terminal[t].seen.reviews = 1..Len(terminal[t].seen.reviews)
          /\ Len(terminal[t].seen.reviews) \in Nat
      BY <2>3
    <3>3. Len(terminal[t].seen.reviews) > 0 => 1 \in DOMAIN terminal[t].seen.reviews
      BY <3>2
    <3> QED BY <3>1, <3>2, <3>3
  <2>9. Len(w.reviews) = 1 /\ w.reviews[1] = v /\ DOMAIN w.reviews = 1..1
    BY <2>3, <2>6, <2>8
  <2>10. Proven(audit', v)
    <3>1. audit' = [audit EXCEPT ![t] = Append(audit[t], Event(v))]
      BY <1>3, <2>7 DEF Decide, Audited
    <3>2. audit[t] \in Seq(Events) /\ audit'[t] = Append(audit[t], Event(v))
      BY <3>1 DEF TypeOK
    <3>3. \E i \in DOMAIN audit'[t] : audit'[t][i] = Event(v)
      <4>1. Len(audit[t]) + 1 \in DOMAIN audit'[t]
            /\ audit'[t][Len(audit[t]) + 1] = Event(v)
        BY <3>2
      <4> QED BY <4>1
    <3> QED BY <1>3, <2>5, <3>3 DEF Proven, Reviewable
  <2>11. terminal[t].seen.stage = "escalated"
    BY <1>3 DEF Reviewable
  <2>12. SoundSession(request, audit', s)
    BY <2>4, <2>5, <2>6, <2>9, <2>10, <2>11 DEF SoundSession
  <2> QED BY <1>1, <2>2, <2>4, <2>12, OneMovesSoundly
<1> QED BY <1>2, <1>3

\* The workflow and an answer leave a checkpoint that has no review yet.
LEMMA ReviewlessMoves ==
    ASSUME TypeOK, ReviewInv, Grows, request.stage \in {"processing", "awaiting"},
           request'.reviews = request.reviews,
           \A u \in Terminals : terminal'[u].seen = terminal[u].seen
                                /\ terminal'[u].pc \in {terminal[u].pc, "menu"}
    PROVE  ReviewInv'
<1>1. SoundRequest(request, audit)'
  BY RequestStays DEF ReviewInv, SoundRequest
<1>2. ASSUME NEW u \in Terminals PROVE SoundSession(request, audit, terminal[u])'
  <2>1. SoundSession(request', audit', terminal[u])
    BY SessionStays DEF ReviewInv
  <2>2. SoundSession(request', audit', terminal'[u])
    BY <2>1 DEF SoundSession
  <2> QED BY <2>2 DEF SoundSession, Grows, Proven, Authorized
<1>3. OneSaves'
  BY DEF ReviewInv, OneSaves
<1> QED BY <1>1, <1>2, <1>3 DEF ReviewInv

\* The review is written over a checkpoint that has none.
LEMMA ReviewSavedSoundly ==
    ASSUME TypeOK, ReviewInv, Grows, NEW t \in Terminals, Save(t)
    PROVE  ReviewInv'
<1>1. request' = terminal[t].seen /\ terminal[t].pc = "saving" /\ Goes(t, "menu")
  BY DEF Save
<1>2. SoundSession(request, audit, terminal[t]) /\ terminal[t].seen.reviews \in Seq(Reviews)
  BY DEF ReviewInv, TypeOK, Sessions, Requests
<1>3. /\ request'.stage = "escalated" /\ Len(request'.reviews) = 1
      /\ DOMAIN request'.reviews = 1..1 /\ request'.reviews[1].on = request'.open
      /\ Proven(audit, request'.reviews[1])
  BY <1>1, <1>2 DEF SoundSession
<1>4. SoundRequest(request, audit)'
  <2>1. Proven(audit', request'.reviews[1])
    BY <1>3, ProvenStays
  <2>2. SoundRequest(request', audit')
    BY <1>3, <2>1 DEF SoundRequest
  <2> QED BY <2>2 DEF SoundRequest, Grows, Proven, Authorized
<1>5. \A u \in Terminals : /\ terminal'[u].seen = terminal[u].seen
                           /\ terminal'[u].pc = IF u = t THEN "menu" ELSE terminal[u].pc
  BY <1>1 DEF Goes, TypeOK, Sessions
<1>6. \A u \in Terminals : terminal'[u].pc # "saving"
  BY <1>1, <1>5 DEF ReviewInv, OneSaves
<1>7. ASSUME NEW u \in Terminals PROVE SoundSession(request, audit, terminal[u])'
  <2>1. u # t => SoundSession(request', audit', terminal[u])
    BY <1>5, <1>6, SessionStays DEF ReviewInv
  <2>2. SoundSession(request', audit', terminal'[u])
    <3>1. CASE u = t
      BY <1>2, <1>5, <3>1 DEF SoundSession
    <3>2. CASE u # t
      BY <1>5, <2>1, <3>2 DEF SoundSession
    <3> QED BY <3>1, <3>2
  <2> QED BY <2>2 DEF SoundSession, Grows, Proven, Authorized
<1>8. OneSaves'
  BY <1>6 DEF OneSaves
<1> QED BY <1>4, <1>7, <1>8 DEF ReviewInv

\* Every step keeps the invariant when no two saves interleave.
LEMMA ReviewStep == ~Together /\ TypeOK /\ ReviewInv /\ [Next]_vars => ReviewInv'
<1> SUFFICES ASSUME ~Together, TypeOK, ReviewInv, [Next]_vars PROVE ReviewInv'
  OBVIOUS
<1>0. Grows
  BY AuditGrows
<1>1. CASE Automation
  <2>1. request.stage = "processing" /\ terminal' = terminal /\ request \in Requests
    BY <1>1 DEF Automation, TypeOK
  <2>2. request'.reviews = request.reviews
    BY <1>1, <2>1 DEF Automation, Requests
  <2> QED BY <1>0, <2>1, <2>2, ReviewlessMoves
<1>2. ASSUME NEW t \in Terminals, Open(t) \/ Exit(t) \/ Cancel(t) \/ NoDecision(t)
      PROVE  ReviewInv'
  <2>1. PICK pc \in {"menu", "closed"} : Goes(t, pc)
    BY <1>2 DEF Open, Exit, Cancel, NoDecision
  <2>2. request' = request
    BY <1>2 DEF Open, Exit, Cancel, NoDecision
  <2> QED BY <1>0, <2>1, <2>2, OneGoesSoundly
<1>3. ASSUME NEW t \in Terminals, ChooseReview(t) \/ ChooseAnswer(t) PROVE ReviewInv'
  BY <1>0, <1>3, OneReadsSoundly DEF ChooseReview, ChooseAnswer
<1>4. ASSUME NEW t \in Terminals, LoginReviewer(t) \/ LoginClarifier(t) PROVE ReviewInv'
  <2>1. request' = request
    BY <1>4 DEF LoginReviewer, LoginClarifier, Login
  <2> QED BY <1>0, <1>4, <2>1, OneLogsInSoundly
<1>5. ASSUME NEW t \in Terminals, Decide(t) PROVE ReviewInv'
  BY <1>0, <1>5, OneDecidesSoundly
<1>6. ASSUME NEW t \in Terminals, ReadBack(t) PROVE ReviewInv'
  <2>1. /\ request' = request /\ terminal[t].pc = "record"
        /\ \A u \in Terminals \ {t} : terminal[u].pc # "saving"
    BY <1>6 DEF ReadBack, MaySave
  <2>2. CASE OneMore(t)
    <3>1. Len(request.reviews) = 0
      <4>1. request.reviews \in Seq(Reviews) /\ Len(terminal[t].seen.reviews) = 1
        BY <2>1 DEF TypeOK, Requests, ReviewInv, SoundSession
      <4>2. Len(request.reviews) \in Nat
        BY <4>1
      <4>3. Len(terminal[t].seen.reviews) = Len(request.reviews) + 1
        BY <2>2 DEF OneMore
      <4> DEFINE n == Len(request.reviews)
                 m == Len(terminal[t].seen.reviews)
      <4>4. n \in Nat /\ m = n + 1 /\ m = 1
        BY <4>1, <4>2, <4>3
      <4> HIDE DEF n, m
      <4>5. n = 0
        BY <4>4
      <4> QED BY <4>5 DEF n
    <3>2. request.reviews = <<>>
      BY <3>1 DEF TypeOK, Requests
    <3>3. Goes(t, "saving")
      BY <1>6, <2>2 DEF ReadBack
    <3> QED BY <1>0, <2>1, <3>2, <3>3, OneGoesSoundly
  <2>3. CASE ~OneMore(t)
    <3>1. Goes(t, "menu")
      BY <1>6, <2>3 DEF ReadBack
    <3> QED BY <1>0, <2>1, <3>1, OneGoesSoundly
  <2> QED BY <2>2, <2>3
<1>7. ASSUME NEW t \in Terminals, Save(t) PROVE ReviewInv'
  BY <1>0, <1>7, ReviewSavedSoundly
<1>8. ASSUME NEW t \in Terminals, Answer(t) PROVE ReviewInv'
  <2>1. Goes(t, "menu")
    BY <1>8 DEF Answer
  <2>2. CASE request' = request
    BY <1>0, <2>1, <2>2, OneGoesSoundly
  <2>3. CASE request' # request
    <3>1. request.stage = "awaiting" /\ request \in Requests
      BY <1>8, <2>3 DEF Answer, TypeOK
    <3>2. request'.reviews = request.reviews
      BY <1>8, <2>3, <3>1 DEF Answer, Requests
    <3>3. \A u \in Terminals : terminal'[u].seen = terminal[u].seen
                               /\ terminal'[u].pc \in {terminal[u].pc, "menu"}
      BY <2>1 DEF Goes, TypeOK, Sessions
    <3> QED BY <1>0, <3>1, <3>2, <3>3, ReviewlessMoves
  <2> QED BY <2>2, <2>3
<1>9. CASE UNCHANGED vars
  BY <1>9 DEF vars, ReviewInv, SoundRequest, SoundSession, OneSaves, Proven, Authorized
<1> QED BY <1>1, <1>2, <1>3, <1>4, <1>5, <1>6, <1>7, <1>8, <1>9 DEF Next

\* A step keeps the reviews that are there.
LEMMA ReviewKept ==
    ~Together /\ TypeOK /\ ReviewInv /\ [Next]_vars => [ReviewIsKept]_vars
<1> SUFFICES ASSUME ~Together, TypeOK, ReviewInv, [Next]_vars PROVE ReviewIsKept
  OBVIOUS
<1>1. ReviewInv' /\ Grows /\ TypeOK
  BY ReviewStep, AuditGrows
<1>2. \A k \in DOMAIN request.reviews :
         k \in DOMAIN request'.reviews /\ request'.reviews[k] = request.reviews[k]
  <2>1. CASE \E t \in Terminals : Save(t)
    <3>1. request.reviews = <<>>
      BY <2>1 DEF Save, ReviewInv, SoundSession
    <3> QED BY <3>1
  <2>2. CASE ~\E t \in Terminals : Save(t)
    <3>1. request \in Requests
      BY DEF TypeOK
    <3>2. request'.reviews = request.reviews
      <4>1. CASE Automation
        BY <3>1, <4>1 DEF Automation, Requests
      <4>2. ASSUME NEW t \in Terminals, Answer(t) PROVE request'.reviews = request.reviews
        BY <3>1, <4>2 DEF Answer, Requests
      <4>3. ASSUME NEW t \in Terminals,
                   \/ Open(t) \/ ChooseReview(t) \/ ChooseAnswer(t) \/ Exit(t)
                   \/ LoginReviewer(t) \/ LoginClarifier(t) \/ Cancel(t)
                   \/ Decide(t) \/ NoDecision(t) \/ ReadBack(t)
            PROVE  request'.reviews = request.reviews
        BY <4>3 DEF Open, ChooseReview, ChooseAnswer, Exit, LoginReviewer, LoginClarifier,
                    Login, Cancel, Decide, NoDecision, ReadBack
      <4>4. CASE UNCHANGED vars
        BY <4>4 DEF vars
      <4> QED BY <2>2, <4>1, <4>2, <4>3, <4>4 DEF Next
    <3> QED BY <3>2
  <2> QED BY <2>1, <2>2
<1>3. request' \in Requests
  BY TypeStep DEF TypeOK
<1>4. \A k, l \in DOMAIN request'.reviews : k = l
  <2>1. request'.reviews \in Seq(Reviews) /\ Len(request'.reviews) <= 1
    BY <1>1, <1>3 DEF ReviewInv, SoundRequest, Requests
  <2> QED BY <2>1
<1>5. ASSUME NEW k \in DOMAIN request'.reviews
      PROVE  \E t \in Terminals : \E i \in DOMAIN audit'[t] :
                /\ audit'[t][i] = [actor |-> request'.reviews[k].by,
                                   on |-> request'.reviews[k].on, outcome |-> "succeeded"]
                /\ Authorized(audit'[t][i].actor, "escalator")
  <2>1. Proven(audit', request'.reviews[k])
    BY <1>1, <1>5 DEF ReviewInv, SoundRequest, Grows, Proven, Authorized
  <2> QED BY <2>1 DEF Proven, Event
<1> QED BY <1>2, <1>4, <1>5 DEF ReviewIsKept

\* While only one process at a time is between its read and its write of the
\* checkpoint, a saved review stays, alone, and was made and recorded by an
\* escalator (ReviewsStay), for any number of terminals and administrators.
THEOREM ReviewsAreKept == ASSUME ~Together PROVE Spec => ReviewsStay
<1>1. Init => ReviewInv
  BY DEF Init, Idle, Fresh, ReviewInv, SoundRequest, SoundSession, OneSaves
<1>2. TypeOK /\ ReviewInv /\ [Next]_vars => ReviewInv'
  BY ReviewStep
<1>3. TypeOK /\ ReviewInv /\ [Next]_vars => [ReviewIsKept]_vars
  BY ReviewKept
<1> QED BY <1>1, <1>2, <1>3, TypeCorrect, PTL DEF Spec, ReviewsStay

-----------------------------------------------------------------------------
(* CatalogTaxonomy *)

\* Some places of a list, in order: each of them, and none twice.
LEMMA InOrderIs ==
    ASSUME NEW n \in Nat, NEW I \in SUBSET (1 .. n)
    PROVE  /\ IsFiniteSet(I) /\ Cardinality(I) \in Nat
           /\ DOMAIN InOrder(I) = 1 .. Cardinality(I)
           /\ \A k \in 1 .. Cardinality(I) : InOrder(I)[k] \in I
           /\ \A k, l \in 1 .. Cardinality(I) : InOrder(I)[k] = InOrder(I)[l] => k = l
<1>1. IsFiniteSet(I) /\ Cardinality(I) \in Nat
  <2>1. 1 \in Int /\ n \in Int
    OBVIOUS
  <2>2. IsFiniteSet(1 .. n)
    BY <2>1, FS_Interval
  <2>3. QED
    BY <2>2, FS_Subset, FS_CardinalityType
<1> DEFINE N == Cardinality(I)
           T == 0 .. N - 1
           f == [i \in I |-> Place(i, I)]
<1>2. I \in SUBSET Nat
  OBVIOUS
<1>3. \A i \in I : Place(i, I) \in T
  <2>1. SUFFICES ASSUME NEW i \in I PROVE Place(i, I) \in T
    OBVIOUS
  <2>2. PICK A \in SUBSET I : A = {j \in I : j < i}
    OBVIOUS
  <2>3. i \notin A
    BY <1>2, <2>2
  <2>4. Cardinality(A) \in Nat /\ Cardinality(A) <= N /\ Cardinality(A) # N
    BY <1>1, <2>3, FS_Subset, FS_CardinalityType
  <2>5. Cardinality(A) \in T
    BY <1>1, <2>4
  <2>6. QED
    BY <2>2, <2>5 DEF Place
<1>4. \A i, j \in I : Place(i, I) = Place(j, I) => i = j
  BY <1>1, <1>2, PlaceTells
<1>5. f \in Injection(I, T)
  BY <1>3, <1>4 DEF Injection, IsInjective
<1>6. IsFiniteSet(T) /\ Cardinality(T) = N
  <2>1. 0 \in Int /\ N - 1 \in Int
    BY <1>1
  <2>2. IsFiniteSet(T) /\ Cardinality(T) = IF 0 > N - 1 THEN 0 ELSE (N - 1) - 0 + 1
    BY <2>1, FS_Interval
  <2>3. QED
    BY <1>1, <2>2
<1>7. f \in Surjection(I, T)
  <2> HIDE DEF f, T
  <2>1. QED
    BY <1>5, <1>6, FS_Injection
<1>8. \A t \in T : \E i \in I : Place(i, I) = t
  BY <1>7 DEF Surjection
<1>9. DOMAIN InOrder(I) = 1 .. N
  BY DEF InOrder
<1>10. \A k \in 1 .. N : InOrder(I)[k] \in I /\ Place(InOrder(I)[k], I) = k - 1
  <2>1. SUFFICES ASSUME NEW k \in 1 .. N
                 PROVE  InOrder(I)[k] \in I /\ Place(InOrder(I)[k], I) = k - 1
    OBVIOUS
  <2>2. k - 1 \in T
    BY <1>1
  <2>3. \E i \in I : Place(i, I) = k - 1
    BY <1>8, <2>2
  <2>4. InOrder(I)[k] = CHOOSE i \in I : Place(i, I) = k - 1
    BY DEF InOrder, Place
  <2>5. QED
    BY <2>3, <2>4
<1>11. \A k, l \in 1 .. N : InOrder(I)[k] = InOrder(I)[l] => k = l
  <2>1. SUFFICES ASSUME NEW k \in 1 .. N, NEW l \in 1 .. N, InOrder(I)[k] = InOrder(I)[l]
                 PROVE  k = l
    OBVIOUS
  <2>2. k - 1 = l - 1
    BY <1>10, <2>1
  <2>3. QED
    BY <1>1, <2>2
<1>12. QED
  BY <1>1, <1>9, <1>10, <1>11

\* A list whose entries differ has as many of them as places, so two if it has two places.
LEMMA TwoDiffer ==
    ASSUME NEW N \in Nat, NEW s, DOMAIN s = 1 .. N, N >= 2, s[1] # s[2]
    PROVE  Cardinality(Elements(s)) >= 2
<1>1. IsFiniteSet(Elements(s))
  <2>1. [i \in 1 .. N |-> s[i]] \in Surjection(1 .. N, Elements(s))
    BY DEF Surjection, Elements
  <2>2. IsFiniteSet(1 .. N)
    <3>1. 1 \in Int /\ N \in Int
      OBVIOUS
    <3>2. QED
      BY <3>1, FS_Interval
  <2>3. QED
    BY <2>1, <2>2, FS_Surjection
<1>2. IsFiniteSet({s[1]}) /\ Cardinality({s[1]}) = 1
  BY FS_Singleton
<1>3. Cardinality({s[1]} \cup {s[2]}) = 2
  BY <1>2, FS_AddElement
<1>4. {s[1]} \cup {s[2]} \in SUBSET Elements(s)
  BY DEF Elements
<1>5. Cardinality({s[1]} \cup {s[2]}) <= Cardinality(Elements(s))
  BY <1>1, <1>4, FS_Subset
<1>6. Cardinality(Elements(s)) \in Nat
  BY <1>1, FS_CardinalityType
<1>7. QED
  BY <1>3, <1>5, <1>6

\* dict.fromkeys keeps what there is, once.
LEMMA DistinctIs ==
    ASSUME NEW T, NEW s \in Seq(T)
    PROVE  /\ Elements(Distinct(s)) \subseteq Elements(s)
           /\ Len(Distinct(s)) >= 2 => Cardinality(Elements(Distinct(s))) >= 2
<1> DEFINE I == {i \in DOMAIN s : \A j \in DOMAIN s : j < i => s[j] # s[i]}
           firsts == InOrder(I)
           d == [k \in DOMAIN firsts |-> s[firsts[k]]]
<1>1. Len(s) \in Nat /\ DOMAIN s = 1 .. Len(s)
  OBVIOUS
<1>2. I \in SUBSET (1 .. Len(s))
  BY <1>1
<1>3. \A i, j \in I : s[i] = s[j] => i = j
  <2>1. \A i, j \in I : i \in Nat /\ j \in Nat
    BY <1>2
  <2>2. QED
    BY <2>1
<1>4. Distinct(s) = d
  BY DEF Distinct
<1> HIDE DEF I
<1> DEFINE N == Cardinality(I)
<1>5. /\ IsFiniteSet(I) /\ N \in Nat
      /\ DOMAIN firsts = 1 .. N
      /\ \A k \in 1 .. N : firsts[k] \in I
      /\ \A k, l \in 1 .. N : firsts[k] = firsts[l] => k = l
  BY <1>1, <1>2, InOrderIs
<1> HIDE DEF N, firsts
<1>6. DOMAIN d = 1 .. N /\ \A k \in 1 .. N : d[k] = s[firsts[k]]
  BY <1>5
<1>7. \A k \in 1 .. N : d[k] \in Elements(s)
  BY <1>1, <1>2, <1>5, <1>6 DEF Elements
<1>8. Len(d) = N
  <2>1. d \in Seq(Elements(s))
    BY <1>5, <1>6, <1>7
  <2>2. QED
    BY <1>5, <1>6, <2>1
<1> HIDE DEF d
<1>9. N >= 2 => d[1] # d[2]
  <2>1. N >= 2 => 1 \in 1 .. N /\ 2 \in 1 .. N
    BY <1>5
  <2>2. QED
    BY <1>3, <1>5, <1>6, <2>1
<1>10. N >= 2 => Cardinality(Elements(d)) >= 2
  BY <1>5, <1>6, <1>9, TwoDiffer
<1>11. Elements(d) \subseteq Elements(s)
  BY <1>6, <1>7 DEF Elements
<1>12. QED
  BY <1>4, <1>8, <1>10, <1>11

\* In a sound file, a spelling stands for one skill.
LEMMA OneMatch ==
    ASSUME Integrity(skills), NEW key
    PROVE  /\ \A i \in WithName(key), j \in WithName(key) \cup WithAlias(key) : i = j
           /\ \A i, j \in WithAlias(key) : i = j
<1>1. \A i, j \in WithName(key) : i = j
  BY DEF Integrity, WithName
<1>2. ASSUME NEW i \in WithAlias(key)
      PROVE  i \in DOMAIN skills /\ \E a \in DOMAIN skills[i].aliases : Key[skills[i].aliases[a]] = key
  BY <1>2 DEF WithAlias, Elements
<1>3. ASSUME NEW i \in WithName(key), NEW j \in WithAlias(key) PROVE i = j
  <2>1. PICK a \in DOMAIN skills[j].aliases : Key[skills[j].aliases[a]] = key
    BY <1>2, <1>3
  <2>2. i \in DOMAIN skills /\ Key[skills[i].name] = key /\ j \in DOMAIN skills
    BY <1>2, <1>3 DEF WithName
  <2>3. QED
    BY <2>1, <2>2 DEF Integrity
<1>4. ASSUME NEW i \in WithAlias(key), NEW j \in WithAlias(key) PROVE i = j
  <2>1. PICK a \in DOMAIN skills[i].aliases : Key[skills[i].aliases[a]] = key
    BY <1>2, <1>4
  <2>2. PICK b \in DOMAIN skills[j].aliases : Key[skills[j].aliases[b]] = key
    BY <1>2, <1>4
  <2>3. i \in DOMAIN skills /\ j \in DOMAIN skills
    BY <1>2, <1>4
  <2>4. <<i, a>> = <<j, b>>
    BY <2>1, <2>2, <2>3 DEF Integrity
  <2>5. QED
    BY <2>4
<1>5. QED
  BY <1>1, <1>3, <1>4

\* The last of skills that are one and the same.
LEMMA LastOfOne ==
    ASSUME skills \in Seq(Elements(skills)), NEW S \in SUBSET (DOMAIN skills), S # {},
           \A i, j \in S : i = j
    PROVE  \A i \in S : LastOf(S) = skills[i]
<1>1. PICK k \in S : S = {k}
  OBVIOUS
<1>2. k \in Int
  <2>1. DOMAIN skills = 1 .. Len(skills) /\ Len(skills) \in Nat
    OBVIOUS
  <2>2. QED
    BY <2>1
<1>3. Max(S) = k
  BY <1>1, <1>2 DEF Max
<1>4. QED
  BY <1>1, <1>3 DEF LastOf

\* What holds of the mapping of the requirement at place k.
SoundMapping(k, m) ==
    /\ m.source = k /\ m.raw = raws[k]
    /\ m.status = "resolved" <=> m.skill # NoSkill
    /\ m.skill # NoSkill => WithId(m.skill) # {}
    /\ \A c \in Elements(m.candidates) : WithId(c) # {}
    /\ m.status = "needs_review" => Cardinality(Elements(m.candidates)) >= 2
    /\ \A i \in Exact(m.raw) : m.skill = skills[i].id

NormalizeInv ==
    /\ skills \in Files
    /\ normalizing \in {"load", "no_taxonomy", "extract", "normalize", "done", "failed"}
    /\ normalizing \in {"extract", "normalize", "done"} => Integrity(skills)
    /\ normalizing \in {"load", "no_taxonomy", "extract"} => mappings = <<>>
    /\ raws \in Seq(Elements(raws)) /\ mappings \in Seq(Elements(mappings))
    /\ Len(mappings) <= Len(raws)
    /\ \A k \in DOMAIN mappings : SoundMapping(k, mappings[k])
    /\ normalizing = "done" => Len(mappings) = Len(raws)

\* A spelling of a skill is mapped to it.
LEMMA ExactIsSound ==
    ASSUME NormalizeInv, Normalizing, Exact(raws[Next1]) # {}, WellFormed(ExactMapping(Next1))
    PROVE  SoundMapping(Next1, ExactMapping(Next1))
<1> DEFINE key == Key[raws[Next1]]
           m == ExactMapping(Next1)
<1>1. skills \in Seq(Elements(skills)) /\ Integrity(skills)
  BY ListsAssumption DEF NormalizeInv, Normalizing
<1>2. WithName(key) \in SUBSET (DOMAIN skills) /\ WithAlias(key) \in SUBSET (DOMAIN skills)
  BY DEF WithName, WithAlias
<1>3. /\ \A i \in WithName(key), j \in WithName(key) \cup WithAlias(key) : i = j
      /\ \A i, j \in WithAlias(key) : i = j
  BY <1>1, OneMatch
<1>4. Exact(raws[Next1]) = WithName(key) \cup WithAlias(key)
  BY DEF Exact
<1>5. \A i \in WithName(key) \cup WithAlias(key) : m.skill = skills[i].id
  <2>1. CASE WithName(key) # {}
    <3>1. m.skill = LastOf(WithName(key)).id
      BY <2>1 DEF ExactMapping, Mapped
    <3>2. \A i \in WithName(key) : LastOf(WithName(key)) = skills[i]
      BY <1>1, <1>2, <1>3, <2>1, LastOfOne
    <3>3. QED
      BY <1>3, <2>1, <3>1, <3>2
  <2>2. CASE WithName(key) = {}
    <3>1. m.skill = LastOf(WithAlias(key)).id
      BY <2>2 DEF ExactMapping, Mapped
    <3>2. \A i \in WithAlias(key) : LastOf(WithAlias(key)) = skills[i]
      BY <1>1, <1>2, <1>3, <1>4, <2>2, LastOfOne
    <3>3. QED
      BY <2>2, <3>1, <3>2
  <2>3. QED
    BY <2>1, <2>2
<1>6. m.source = Next1 /\ m.raw = raws[Next1] /\ m.status = "resolved" /\ m.candidates = <<>>
  BY DEF ExactMapping, Mapped
<1>7. m.skill # NoSkill /\ WithId(m.skill) # {}
  <2>1. m.skill # NoSkill
    BY <1>6 DEF WellFormed
  <2>2. PICK i \in WithName(key) \cup WithAlias(key) : m.skill = skills[i].id
    BY <1>4, <1>5
  <2>3. i \in WithId(m.skill)
    BY <1>2, <2>2 DEF WithId
  <2>4. QED
    BY <2>1, <2>3
<1> HIDE DEF m, key
<1>8. Elements(m.candidates) = {}
  BY <1>6 DEF Elements
<1>9. \A i \in Exact(m.raw) : m.skill = skills[i].id
  BY <1>4, <1>5, <1>6
<1>10. SoundMapping(Next1, m)
  BY <1>6, <1>7, <1>8, <1>9 DEF SoundMapping
<1>11. QED
  BY <1>10 DEF m

\* The candidates by words are skills of the file, and two differ.
LEMMA LexicalIs ==
    ASSUME skills \in Seq(Elements(skills)), Integrity(skills), NEW raw
    PROVE  /\ \A c \in Elements(Lexical(raw)) : WithId(c) # {}
           /\ Len(Lexical(raw)) >= 2 => Cardinality(Elements(Lexical(raw))) >= 2
<1> DEFINE I == {i \in DOMAIN skills : skills[i].active /\ Overlaps(raw, skills[i])}
           hits == InOrder(I)
           d == [k \in DOMAIN hits |-> skills[hits[k]].id]
<1>1. Len(skills) \in Nat /\ DOMAIN skills = 1 .. Len(skills)
  OBVIOUS
<1>2. I \in SUBSET (1 .. Len(skills))
  BY <1>1
<1>3. Lexical(raw) = d
  BY DEF Lexical
<1> HIDE DEF I
<1> DEFINE N == Cardinality(I)
<1>4. /\ IsFiniteSet(I) /\ N \in Nat
      /\ DOMAIN hits = 1 .. N
      /\ \A k \in 1 .. N : hits[k] \in I
      /\ \A k, l \in 1 .. N : hits[k] = hits[l] => k = l
  BY <1>1, <1>2, InOrderIs
<1> HIDE DEF N, hits
<1>5. DOMAIN d = 1 .. N /\ \A k \in 1 .. N : d[k] = skills[hits[k]].id
  BY <1>4
<1>6. \A k \in 1 .. N : hits[k] \in DOMAIN skills
  BY <1>1, <1>2, <1>4
<1>7. Len(d) = N
  <2>1. d \in Seq({skills[i].id : i \in DOMAIN skills})
    BY <1>4, <1>5, <1>6
  <2>2. QED
    BY <1>4, <1>5, <2>1
<1> HIDE DEF d
<1>8. N >= 2 => d[1] # d[2]
  <2>1. N >= 2 => 1 \in 1 .. N /\ 2 \in 1 .. N
    BY <1>4
  <2>2. N >= 2 => hits[1] # hits[2] /\ hits[1] \in DOMAIN skills /\ hits[2] \in DOMAIN skills
    BY <1>4, <1>6, <2>1
  <2>3. QED
    BY <1>5, <2>1, <2>2 DEF Integrity
<1>9. N >= 2 => Cardinality(Elements(d)) >= 2
  BY <1>4, <1>5, <1>8, TwoDiffer
<1>10. \A c \in Elements(d) : WithId(c) # {}
  <2>1. SUFFICES ASSUME NEW k \in 1 .. N PROVE WithId(d[k]) # {}
    BY <1>5 DEF Elements
  <2>2. hits[k] \in WithId(d[k])
    BY <1>5, <1>6 DEF WithId
  <2>3. QED
    BY <2>2
<1>11. QED
  BY <1>3, <1>7, <1>9, <1>10

\* What is no spelling of a skill is mapped to none, or offered for review.
LEMMA FallbackIsSound ==
    ASSUME NormalizeInv, Normalizing, Exact(raws[Next1]) = {}
    PROVE  SoundMapping(Next1, Fallback(Next1))
<1> DEFINE m == Fallback(Next1)
<1>1. skills \in Seq(Elements(skills)) /\ Integrity(skills)
  BY ListsAssumption DEF NormalizeInv, Normalizing
<1> DEFINE offered == Lexical(raws[Next1])
<1>2. /\ \A c \in Elements(offered) : WithId(c) # {}
      /\ Len(offered) >= 2 => Cardinality(Elements(offered)) >= 2
  BY <1>1, LexicalIs
<1>3. /\ m.source = Next1 /\ m.raw = raws[Next1] /\ m.skill = NoSkill
      /\ \/ m.status = "needs_review" /\ m.candidates = offered /\ Len(offered) >= 2
         \/ m.status = "unmapped" /\ m.candidates = <<>>
  BY DEF Fallback, Mapped
<1> HIDE DEF m, offered
<1>4. Elements(<<>>) = {}
  BY DEF Elements
<1>5. SoundMapping(Next1, m)
  BY <1>2, <1>3, <1>4 DEF SoundMapping
<1>6. QED
  BY <1>5 DEF m

\* What is selected was verified against the file.
LEMMA SelectionIsSound ==
    ASSUME NormalizeInv, Normalizing, Exact(raws[Next1]) = {},
           NEW p \in Proposals, ValidProposal(p), Verified(p)
    PROVE  SoundMapping(Next1, FromSelection(Next1, p))
<1> DEFINE m == FromSelection(Next1, p)
           kept == Distinct(p.candidates)
<1>1. /\ Elements(kept) \subseteq Elements(p.candidates)
      /\ Len(kept) >= 2 => Cardinality(Elements(kept)) >= 2
  <2>1. p.candidates \in Seq(Elements(p.candidates))
    BY ListsAssumption
  <2>2. QED
    BY <2>1, DistinctIs
<1>2. \A c \in Elements(kept) : WithId(c) # {}
  BY <1>1 DEF Verified, IsActive
<1>3. /\ m.source = Next1 /\ m.raw = raws[Next1] /\ m.candidates = kept
      /\ m.status = "needs_review" => p.decision = "needs_review"
      /\ m.status = "resolved" <=> p.decision = "select"
      /\ m.skill = IF p.decision = "select" THEN p.selected ELSE NoSkill
  BY DEF FromSelection, Mapped
<1>4. /\ p.decision = "select" <=> p.selected # NoSkill
      /\ p.decision = "select" => WithId(p.selected) # {}
      /\ p.decision = "needs_review" => Len(kept) >= 2
  BY DEF ValidProposal, Verified, IsActive
<1> HIDE DEF m, kept
<1>5. SoundMapping(Next1, m)
  BY <1>1, <1>2, <1>3, <1>4 DEF SoundMapping
<1>6. QED
  BY <1>5 DEF m

\* A sound mapping that is added keeps the others.
LEMMA AddKeeps ==
    ASSUME NormalizeInv, Normalizing, NEW m, WellFormed(m) => SoundMapping(Next1, m), Add(m)
    PROVE  NormalizeInv'
<1>1. /\ skills' = skills /\ raws' = raws
      /\ \/ mappings' = Append(mappings, m) /\ normalizing' = "normalize" /\ SoundMapping(Next1, m)
         \/ mappings' = mappings /\ normalizing' = "failed"
  BY DEF Add, Normalizing
<1>2. /\ mappings \in Seq(Elements(mappings)) /\ raws \in Seq(Elements(raws))
      /\ Next1 = Len(mappings) + 1 /\ Next1 \in DOMAIN raws /\ normalizing = "normalize"
      /\ Len(mappings) \in Nat /\ Len(raws) \in Nat /\ Next1 \in Nat /\ Next1 <= Len(raws)
      /\ DOMAIN mappings = 1 .. Len(mappings)
  BY DEF NormalizeInv, Normalizing, Next1
<1>3. ASSUME NEW k, NEW x, SoundMapping(k, x) PROVE SoundMapping(k, x)'
  BY <1>1, <1>3 DEF SoundMapping, WithId, Exact, WithName, WithAlias
<1>4. CASE mappings' = mappings /\ normalizing' = "failed"
  BY <1>1, <1>3, <1>4 DEF NormalizeInv
<1>5. CASE mappings' = Append(mappings, m) /\ normalizing' = "normalize" /\ SoundMapping(Next1, m)
  <2>1. /\ mappings' \in Seq(Elements(mappings) \cup {m}) /\ Len(mappings') = Next1
        /\ DOMAIN mappings' = 1 .. Next1
        /\ mappings'[Next1] = m /\ \A k \in 1 .. Len(mappings) : mappings'[k] = mappings[k]
    BY <1>2, <1>5
  <2>2. mappings' \in Seq(Elements(mappings'))
    <3>1. \A k \in 1 .. Next1 : mappings'[k] \in Elements(mappings')
      BY <2>1 DEF Elements
    <3>2. mappings' = [k \in 1 .. Next1 |-> mappings'[k]]
      BY <2>1
    <3>3. QED
      BY <1>2, <3>1, <3>2
  <2>3. ASSUME NEW k \in 1 .. Next1 PROVE SoundMapping(k, mappings[k])'
    <3>1. k = Next1 \/ k \in 1 .. Len(mappings)
      BY <1>2, <2>1, <2>3
    <3>2. PICK x : x = IF k = Next1 THEN m ELSE mappings[k]
      OBVIOUS
    <3>3. SoundMapping(k, x) /\ mappings'[k] = x
      <4>1. CASE k = Next1
        BY <1>5, <2>1, <3>2, <4>1
      <4>2. CASE k # Next1
        <5>1. k \in 1 .. Len(mappings) /\ k \in DOMAIN mappings
          BY <1>2, <3>1, <4>2
        <5>2. x = mappings[k] /\ mappings'[k] = mappings[k]
          BY <2>1, <3>2, <4>2, <5>1
        <5>3. SoundMapping(k, mappings[k])
          BY <5>1 DEF NormalizeInv
        <5>4. QED
          BY <5>2, <5>3
      <4>3. QED
        BY <4>1, <4>2
    <3>4. SoundMapping(k, x)'
      BY <1>3, <3>3
    <3>5. QED
      BY <3>3, <3>4 DEF SoundMapping
  <2>4. QED
    BY <1>1, <1>2, <1>5, <2>1, <2>2, <2>3 DEF NormalizeInv
<1>6. QED
  BY <1>1, <1>4, <1>5

\* Steps that map nothing.
LEMMA RestKeeps ==
    ASSUME NormalizeInv, UNCHANGED <<skills, raws>>,
           \/ mappings' = mappings
              /\ \/ normalizing' \in {normalizing, "failed"}
                 \/ normalizing = "load" /\ normalizing' = "extract" /\ Integrity(skills)
                 \/ normalizing = "load" /\ normalizing' = "no_taxonomy"
                 \/ normalizing = "normalize" /\ normalizing' = "done" /\ Len(mappings) = Len(raws)
           \/ mappings' = <<>> /\ normalizing = "done" /\ normalizing' = "normalize"
    PROVE  NormalizeInv'
<1>1. skills' = skills /\ raws' = raws
  OBVIOUS
<1>2. ASSUME NEW k, NEW x, SoundMapping(k, x) PROVE SoundMapping(k, x)'
  BY <1>1, <1>2 DEF SoundMapping, WithId, Exact, WithName, WithAlias
<1>3. CASE mappings' = mappings
  <2>1. \A k \in DOMAIN mappings : SoundMapping(k, mappings[k])'
    <3>1. ASSUME NEW k \in DOMAIN mappings PROVE SoundMapping(k, mappings[k])'
      <4>1. PICK x : x = mappings[k]
        OBVIOUS
      <4>2. SoundMapping(k, x)'
        BY <1>2, <3>1, <4>1 DEF NormalizeInv
      <4>3. QED
        BY <1>3, <4>1, <4>2 DEF SoundMapping
    <3>2. QED
      BY <3>1
  <2>2. QED
    BY <1>1, <1>3, <2>1 DEF NormalizeInv
<1>4. CASE mappings' = <<>>
  <2>1. Len(raws) \in Nat /\ raws \in Seq(Elements(raws))
    BY DEF NormalizeInv
  <2>2. DOMAIN mappings' = {} /\ Len(mappings') = 0 /\ mappings' \in Seq(Elements(mappings'))
    BY <1>4
  <2>3. QED
    BY <1>1, <1>4, <2>1, <2>2 DEF NormalizeInv
<1>5. QED
  BY <1>3, <1>4

LEMMA NormalizeStarts == TaxonomyInit => NormalizeInv
<1>1. SUFFICES ASSUME TaxonomyInit PROVE NormalizeInv
  OBVIOUS
<1>2. raws = <<>> /\ mappings = <<>> /\ skills \in Files /\ normalizing = "load"
  BY <1>1 DEF TaxonomyInit
<1>3. raws \in Seq(Elements(raws)) /\ mappings \in Seq(Elements(mappings)) /\ DOMAIN mappings = {}
  BY <1>2
<1>4. QED
  BY <1>2, <1>3 DEF NormalizeInv

LEMMA NormalizeStep == NormalizeInv /\ [TaxonomyNext]_taxonomyVars => NormalizeInv'
<1>1. SUFFICES ASSUME NormalizeInv, [TaxonomyNext]_taxonomyVars PROVE NormalizeInv'
  OBVIOUS
<1>2. CASE UNCHANGED taxonomyVars
  <2>1. UNCHANGED <<skills, raws>> /\ mappings' = mappings /\ normalizing' = normalizing
    BY <1>2 DEF taxonomyVars
  <2>2. QED
    BY <1>1, <2>1, RestKeeps
<1>3. CASE LoadTaxonomy
  <2>1. /\ UNCHANGED <<skills, raws>> /\ mappings' = mappings /\ normalizing = "load"
        /\ normalizing' = IF Integrity(skills) THEN "extract" ELSE "no_taxonomy"
    BY <1>3 DEF LoadTaxonomy
  <2>2. QED
    BY <1>1, <2>1, RestKeeps
<1>4. ASSUME AskAgain \/ Gone PROVE NormalizeInv'
  <2>1. UNCHANGED <<skills, raws>> /\ mappings' = mappings /\ normalizing' \in {normalizing, "failed"}
    BY <1>4 DEF AskAgain, Gone
  <2>2. QED
    BY <1>1, <2>1, RestKeeps
<1>5. CASE Extract
  <2>1. CASE /\ raws' \in RawSkills /\ normalizing' = "normalize" /\ UNCHANGED <<skills, selector, mappings>>
    <3>1. mappings' = <<>> /\ Integrity(skills) /\ skills' = skills
      BY <1>1, <1>5, <2>1 DEF NormalizeInv, Extract
    <3>2. raws' \in Seq(Elements(raws'))
      BY <2>1, ListsAssumption
    <3>3. Len(raws') \in Nat
      BY <3>2
    <3>4. DOMAIN mappings' = {} /\ Len(mappings') = 0 /\ mappings' \in Seq(Elements(mappings'))
      BY <3>1
    <3>5. QED
      BY <1>1, <2>1, <3>1, <3>2, <3>3, <3>4 DEF NormalizeInv
  <2>2. QED
    BY <1>4, <1>5, <2>1 DEF Extract
<1>6. CASE ByName
  BY <1>1, <1>6, ExactIsSound, AddKeeps DEF ByName
<1>7. CASE ByOverlap
  BY <1>1, <1>7, FallbackIsSound, AddKeeps DEF ByOverlap
<1>8. CASE BySelector
  <2>1. CASE \E p \in Proposals : ValidProposal(p) /\ Verified(p) /\ Add(FromSelection(Next1, p))
    <3>1. PICK p \in Proposals : ValidProposal(p) /\ Verified(p) /\ Add(FromSelection(Next1, p))
      BY <2>1
    <3>2. Normalizing /\ Exact(raws[Next1]) = {}
      BY <1>8 DEF BySelector
    <3>3. SoundMapping(Next1, FromSelection(Next1, p))
      BY <1>1, <3>1, <3>2, SelectionIsSound
    <3>4. QED
      BY <1>1, <3>1, <3>2, <3>3, AddKeeps
  <2>2. QED
    BY <1>4, <1>8, <2>1 DEF BySelector
<1>9. CASE FinishMappings
  <2>1. /\ UNCHANGED <<skills, raws>> /\ mappings' = mappings /\ normalizing = "normalize"
        /\ normalizing' = "done" /\ Len(mappings) = Len(raws)
    BY <1>9 DEF FinishMappings
  <2>2. QED
    BY <1>1, <2>1, RestKeeps
<1>10. CASE Rerun
  <2>1. UNCHANGED <<skills, raws>> /\ mappings' = <<>> /\ normalizing = "done" /\ normalizing' = "normalize"
    BY <1>10 DEF Rerun
  <2>2. QED
    BY <1>1, <2>1, RestKeeps
<1>11. QED
  BY <1>1, <1>2, <1>3, <1>5, <1>6, <1>7, <1>8, <1>9, <1>10 DEF TaxonomyNext

\* Whatever the file holds and the model answers: a finished normalization maps every
\* requirement once, names only skills the file has, offers two for a review, and maps
\* a spelling of a skill to that skill and no other (normalize, NormalizationIsSound).
THEOREM NormalizationIsSoundHolds == TaxonomySpec => []NormalizationIsSound
<1>1. NormalizeInv => NormalizationIsSound
  <2>1. SUFFICES ASSUME NormalizeInv, normalizing = "done"
                 PROVE  /\ SafeAndComplete(mappings) /\ Indexed(mappings)
                        /\ \A m \in Elements(mappings) :
                              /\ m.status = "needs_review" => Cardinality(Elements(m.candidates)) >= 2
                              /\ \A i \in Exact(m.raw) : m.skill = skills[i].id
    BY DEF NormalizationIsSound
  <2>2. /\ Len(mappings) = Len(raws) /\ DOMAIN mappings = 1 .. Len(mappings) /\ DOMAIN raws = 1 .. Len(raws)
        /\ \A k \in DOMAIN mappings : SoundMapping(k, mappings[k])
    BY <2>1 DEF NormalizeInv
  <2>3. {m.source : m \in Elements(mappings)} = DOMAIN raws
    <3>1. \A k \in DOMAIN mappings : mappings[k].source = k
      BY <2>2 DEF SoundMapping
    <3>2. \A k \in DOMAIN raws : \E m \in Elements(mappings) : m.source = k
      BY <2>2, <3>1 DEF Elements
    <3>3. \A m \in Elements(mappings) : m.source \in DOMAIN raws
      BY <2>2, <3>1 DEF Elements
    <3>4. QED
      BY <3>2, <3>3
  <2>4. ASSUME NEW m \in Elements(mappings) PROVE \E k \in DOMAIN mappings : SoundMapping(k, m)
    BY <2>2, <2>4 DEF Elements
  <2>5. SafeAndComplete(mappings)
    BY <2>2, <2>3, <2>4 DEF SafeAndComplete, SoundMapping
  <2>6. Indexed(mappings)
    BY <2>2, <2>3, <2>4 DEF Indexed, SoundMapping
  <2>7. QED
    BY <2>4, <2>5, <2>6 DEF SoundMapping
<1>2. NormalizeInv /\ [TaxonomyNext]_taxonomyVars => NormalizeInv'
  BY NormalizeStep
<1>3. QED
  BY <1>1, <1>2, NormalizeStarts, PTL DEF TaxonomySpec
=============================================================================
