-------------------------- MODULE GeneratorProofs ---------------------------
(***************************************************************************)
(* Proofs about the corpus generator: the applicant IDs in candidates.json *)
(* (CorpusRegistry), the bundles of GitHub data (GitHubCollection), the    *)
(* spec, PDF and row of a resume (ResumeFiles), and the placements of      *)
(* assign (CorpusSlots).                                                   *)
(***************************************************************************)
EXTENDS CorpusRegistry, GitHubCollection, ResumeFiles, CorpusSlots, FiniteSetTheorems,
        SequenceTheorems, WellFoundedInduction, TLAPS

-----------------------------------------------------------------------------
(* CorpusRegistry *)

\* Finitely many numbers have a greatest one: of the sets of those that are no
\* smaller than one of them, one is smallest by inclusion.
LEMMA MaxOfFinite ==
    ASSUME NEW S \in SUBSET Nat, IsFiniteSet(S), S # {}
    PROVE  Max(S) \in S /\ \A y \in S : Max(S) >= y
<1> DEFINE Above(x) == {y \in S : y >= x}
           T == {Above(x) : x \in S}
<1>1. T \subseteq FiniteSubsetsOf(S)
  <2>1. \A x \in S : Above(x) \in SUBSET S
    OBVIOUS
  <2> HIDE DEF Above
  <2>2. \A x \in S : IsFiniteSet(Above(x))
    BY <2>1, FS_Subset
  <2>3. QED
    BY <2>1, <2>2 DEF FiniteSubsetsOf
<1>2. T # {}
  OBVIOUS
<1>3. PICK U \in T : \A V \in T : ~ (<<V, U>> \in StrictSubsetOrdering(S))
  <2> HIDE DEF T
  <2> QED
    BY <1>1, <1>2, FS_StrictSubsetOrderingWellFounded, WFMin
<1>4. PICK x \in S : U = Above(x)
  BY <1>3
<1>5. ASSUME NEW y \in S
      PROVE  x >= y
  <2>1. ~ (<<Above(y), Above(x)>> \in StrictSubsetOrdering(S))
    BY <1>3, <1>4
  <2>2. Above(x) \in SUBSET S /\ Above(y) \in SUBSET S
    OBVIOUS
  <2>3. ASSUME y > x
        PROVE  Above(y) \subseteq Above(x) /\ x \in Above(x) /\ x \notin Above(y)
    <3>1. \A z \in S : z \in Int
      OBVIOUS
    <3>2. \A z \in S : z >= y => z >= x
      BY <2>3, <3>1
    <3>3. x >= x /\ ~ (x >= y)
      BY <2>3, <3>1
    <3>4. QED
      BY <3>2, <3>3
  <2> HIDE DEF Above
  <2>4. ~ (Above(y) \subseteq Above(x) /\ Above(y) # Above(x))
    BY <2>1, <2>2 DEF StrictSubsetOrdering
  <2>5. ~ (y > x)
    BY <2>3, <2>4
  <2>6. QED
    BY <2>5
<1>6. QED
  BY <1>5 DEF Max

Rec == [login : STRING, selected : BOOLEAN, id : Nat]

\* The old ID file
OldOK == /\ IsFiniteSet(DOMAIN legacy)
         /\ \A l \in DOMAIN legacy : legacy[l] \in Nat \ {NoId}

\* What is found for a login is its record in the list.
LEMMA IdOfRecord ==
    ASSUME NEW list, NEW old, Numbered(list, old), NEW i \in DOMAIN list
    PROVE  IdOf(list, list[i].login) = list[i].id
<1>1. {c \in Range(list) : c.login = list[i].login} = {list[i]}
  BY DEF Numbered, Range
<1>2. QED
  BY <1>1 DEF IdOf

\* Folding the old file in loses no login, no ID and no order.
LEMMA FoldedFits ==
    ASSUME candidates \in Seq(Rec), Numbered(candidates, legacy), OldOK
    PROVE  /\ Folded \in Seq(Rec) /\ Len(Folded) = Len(candidates) /\ Numbered(Folded, legacy)
           /\ \A i \in 1 .. Len(candidates) :
                 /\ Folded[i].login = candidates[i].login
                 /\ candidates[i].id # NoId => Folded[i].id = candidates[i].id
<1>1. DOMAIN candidates = 1 .. Len(candidates) /\ Len(candidates) \in Nat
  OBVIOUS
<1>2. \A i \in 1 .. Len(candidates) : candidates[i] \in Rec
  OBVIOUS
<1>3. ASSUME NEW i \in 1 .. Len(candidates)
      PROVE  /\ Folded[i] \in Rec
             /\ Folded[i].login = candidates[i].login
             /\ Folded[i].id = IF candidates[i].id = NoId /\ candidates[i].login \in DOMAIN legacy
                               THEN legacy[candidates[i].login] ELSE candidates[i].id
  BY <1>1, <1>2 DEF Folded, Rec, OldOK
<1>4. Folded \in Seq(Rec) /\ Len(Folded) = Len(candidates) /\ DOMAIN Folded = 1 .. Len(candidates)
  <2>1. Folded \in [1 .. Len(candidates) -> Rec]
    <3>1. DOMAIN Folded = 1 .. Len(candidates) /\ Folded = [i \in DOMAIN Folded |-> Folded[i]]
      BY <1>1 DEF Folded
    <3>2. QED
      BY <1>3, <3>1
  <2>2. QED
    BY <1>1, <2>1
<1>5. Numbered(Folded, legacy)
  BY <1>1, <1>3, <1>4 DEF Numbered, NoId, OldOK
<1>6. QED
  BY <1>1, <1>3, <1>4, <1>5

\* The next number is above every ID in use (assign), if each has four digits.
LEMMA NextIsFree ==
    ASSUME candidates \in Seq(Rec), Numbered(candidates, legacy), OldOK, FourDigits
    PROVE  /\ NextNumber \in Nat \ {NoId}
           /\ \A i \in DOMAIN Folded : Folded[i].id < NextNumber
           /\ \A l \in DOMAIN legacy : legacy[l] < NextNumber
<1> DEFINE A == {c.id : c \in Range(Folded)}
           B == {legacy[l] : l \in DOMAIN legacy}
           S == {0} \cup A \cup B
<1>1. Folded \in Seq(Rec) /\ DOMAIN Folded = 1 .. Len(Folded) /\ Len(Folded) \in Nat
  BY FoldedFits
<1>2. A = {Folded[i].id : i \in DOMAIN Folded} /\ A \subseteq Nat
  <2>1. Range(Folded) = {Folded[i] : i \in DOMAIN Folded}
    BY DEF Range
  <2>2. \A i \in DOMAIN Folded : Folded[i] \in Rec
    BY <1>1
  <2>3. \A i \in DOMAIN Folded : Folded[i].id \in Nat
    BY <2>2 DEF Rec
  <2>4. QED
    BY <2>1, <2>3
<1>3. IsFiniteSet(A)
  <2>1. [i \in DOMAIN Folded |-> Folded[i].id] \in Surjection(DOMAIN Folded, A)
    BY <1>2 DEF Surjection
  <2>2. IsFiniteSet(DOMAIN Folded)
    BY <1>1, FS_Interval
  <2> HIDE DEF A
  <2>3. QED
    BY <2>1, <2>2, FS_Surjection
<1>4. IsFiniteSet(B) /\ B \subseteq Nat
  <2>1. [l \in DOMAIN legacy |-> legacy[l]] \in Surjection(DOMAIN legacy, B) /\ B \subseteq Nat
    BY DEF Surjection, OldOK
  <2> HIDE DEF B
  <2>2. QED
    BY <2>1, FS_Surjection DEF OldOK
<1>5. IsFiniteSet(S) /\ S \in SUBSET Nat /\ S # {}
  <2>1. IsFiniteSet({0}) /\ A \subseteq Nat /\ B \subseteq Nat
    BY <1>2, <1>4, FS_Singleton
  <2> HIDE DEF A, B
  <2>2. IsFiniteSet({0} \cup A)
    BY <1>3, <2>1, FS_Union
  <2>3. IsFiniteSet(({0} \cup A) \cup B)
    BY <1>4, <2>2, FS_Union
  <2>4. QED
    BY <2>1, <2>3
<1>6. Max(S) \in S /\ \A y \in S : Max(S) >= y
  <2> HIDE DEF S
  <2> QED
    BY <1>5, MaxOfFinite
<1>7. NextNumber = Max(S) + 1
  <2>1. \A i \in DOMAIN Folded : Folded[i].id <= LastNumber
    <3>1. \A i \in DOMAIN candidates : candidates[i].id <= LastNumber
      BY DEF FourDigits, Range
    <3>2. \A i \in DOMAIN candidates : candidates[i] \in Rec
      OBVIOUS
    <3>3. QED
      BY <3>1, <3>2 DEF Folded, FourDigits, Rec
  <2>2. \A n \in A \cup B : n <= LastNumber
    BY <1>2, <2>1 DEF FourDigits
  <2>3. InUse = A \cup B
    BY DEF InUse
  <2> HIDE DEF A, B
  <2>4. {n \in InUse : n <= LastNumber} = A \cup B
    BY <2>2, <2>3
  <2>5. {0} \cup {n \in InUse : n <= LastNumber} = S
    BY <2>4
  <2>6. QED
    BY <2>5, Zenon DEF NextNumber
<1>8. \A i \in DOMAIN Folded : Folded[i].id \in S
  BY <1>2
<1>9. \A l \in DOMAIN legacy : legacy[l] \in S
  OBVIOUS
<1> HIDE DEF S
<1>10. PICK m \in Nat : m \in S /\ (\A y \in S : m >= y) /\ NextNumber = m + 1
  BY <1>5, <1>6, <1>7
<1>11. \A y \in S : y \in Nat /\ y < NextNumber
  BY <1>5, <1>10
<1>12. NextNumber \in Nat \ {NoId}
  BY <1>10 DEF NoId
<1>13. \A i \in DOMAIN Folded : Folded[i].id < NextNumber
  BY <1>8, <1>11
<1>14. \A l \in DOMAIN legacy : legacy[l] < NextNumber
  BY <1>9, <1>11
<1>15. QED
  BY <1>12, <1>13, <1>14

\* A sequence of the elements of a finite set, each once
LEMMA SetToSeqFits ==
    ASSUME NEW S, IsFiniteSet(S)
    PROVE  /\ Cardinality(S) \in Nat
           /\ SetToSeq(S) \in [1 .. Cardinality(S) -> S]
           /\ \A i, j \in 1 .. Cardinality(S) : SetToSeq(S)[i] = SetToSeq(S)[j] => i = j
           /\ \A x \in S : \E i \in 1 .. Cardinality(S) : SetToSeq(S)[i] = x
<1>1. Cardinality(S) \in Nat /\ ExistsBijection(1 .. Cardinality(S), S)
  BY FS_CardinalityType
<1>2. \E f \in [1 .. Cardinality(S) -> S] : IsInjective(f)
  BY <1>1 DEF ExistsBijection, Bijection, Injection
<1>3. SetToSeq(S) \in [1 .. Cardinality(S) -> S] /\ IsInjective(SetToSeq(S))
  BY <1>2 DEF SetToSeq
<1>4. SetToSeq(S) \in Injection(1 .. Cardinality(S), S)
  BY <1>3 DEF Injection
<1>5. Cardinality(1 .. Cardinality(S)) = Cardinality(S) /\ IsFiniteSet(1 .. Cardinality(S))
  BY <1>1, FS_Interval
<1>6. SetToSeq(S) \in Surjection(1 .. Cardinality(S), S)
  BY <1>4, <1>5, FS_Injection
<1>7. QED
  BY <1>1, <1>3, <1>6 DEF IsInjective, Surjection

\* A list of candidates goes on from another one: nobody leaves, moves or gets
\* another ID.
GoesOn(list, from) ==
    /\ Len(from) <= Len(list)
    /\ \A i \in 1 .. Len(from) : /\ list[i].login = from[i].login
                                 /\ from[i].id # NoId => list[i].id = from[i].id

\* Who is listed with an ID
HasId(list, l) == \E i \in DOMAIN list : list[i].login = l /\ list[i].id # NoId

\* Numbering gives every login that is asked for an ID of its own and takes
\* nobody's away (assign).
LEMMA AssignedFits ==
    ASSUME candidates \in Seq(Rec), Numbered(candidates, legacy), OldOK, FourDigits,
           NEW asked \in SUBSET STRING, IsFiniteSet(asked)
    PROVE  /\ Assigned(asked) \in Seq(Rec) /\ Numbered(Assigned(asked), legacy)
           /\ GoesOn(Assigned(asked), candidates)
           /\ \A l \in asked : HasId(Assigned(asked), l)
<1> DEFINE strangers == asked \ Known(candidates)
           new == SetToSeq(strangers)
           m == Cardinality(strangers)
           n == Len(candidates)
           tail == [i \in DOMAIN new |-> Candidate(new[i], TRUE, NoId)]
           all == Folded \o tail
           need == {i \in DOMAIN all : all[i].login \in asked /\ all[i].id = NoId}
           rank(i) == Cardinality({j \in need : j < i})
           list == [i \in DOMAIN all |->
                      IF i \in need THEN [all[i] EXCEPT !.id = NextNumber + rank(i)] ELSE all[i]]
<1>1. Assigned(asked) = list
  BY DEF Assigned
<1>2. n \in Nat /\ DOMAIN candidates = 1 .. n
  OBVIOUS
<1>3. /\ Folded \in Seq(Rec) /\ Len(Folded) = n /\ DOMAIN Folded = 1 .. n
      /\ Numbered(Folded, legacy)
      /\ \A i \in 1 .. n : /\ Folded[i].login = candidates[i].login
                           /\ candidates[i].id # NoId => Folded[i].id = candidates[i].id
  BY FoldedFits
<1>4. /\ m \in Nat /\ new \in [1 .. m -> strangers]
      /\ \A i, j \in 1 .. m : new[i] = new[j] => i = j
      /\ \A x \in strangers : \E i \in 1 .. m : new[i] = x
  <2>1. IsFiniteSet(strangers)
    BY FS_Subset
  <2> HIDE DEF strangers
  <2>2. QED
    BY <2>1, SetToSeqFits
<1>5. \A i \in 1 .. m : new[i] \in asked /\ new[i] \notin Known(candidates)
  BY <1>4
<1>6. /\ tail \in Seq(Rec) /\ Len(tail) = m /\ DOMAIN tail = 1 .. m
      /\ \A i \in 1 .. m : tail[i].login = new[i] /\ tail[i].id = NoId
  <2>1. \A i \in 1 .. m : Candidate(new[i], TRUE, NoId) \in Rec
    BY <1>5 DEF Candidate, Rec, NoId
  <2>2. DOMAIN new = 1 .. m
    BY <1>4
  <2>3. tail \in [1 .. m -> Rec]
    BY <2>1, <2>2
  <2>4. \A i \in 1 .. m : tail[i].login = new[i] /\ tail[i].id = NoId
    BY <2>2 DEF Candidate
  <2> HIDE DEF tail, new, m
  <2>5. QED
    BY <1>4, <2>3, <2>4
<1> HIDE DEF tail, new, m, strangers
<1>7. /\ all \in Seq(Rec) /\ DOMAIN all = 1 .. (n + m) /\ Len(all) = n + m
      /\ \A i \in 1 .. n : all[i] = Folded[i]
      /\ \A i \in (n + 1) .. (n + m) : all[i] = tail[i - n] /\ i - n \in 1 .. m
  <2> HIDE DEF n
  <2>1. all \in Seq(Rec) /\ Len(all) = n + m
    BY <1>3, <1>6, ConcatProperties
  <2>2. DOMAIN all = 1 .. (n + m)
    BY <2>1
  <2>3. \A i \in 1 .. (n + m) : all[i] = IF i <= n THEN Folded[i] ELSE tail[i - n]
    BY <1>3, <1>6, ConcatProperties, ZenonT(40)
  <2> HIDE DEF all
  <2>4. QED
    BY <1>2, <1>4, <2>1, <2>2, <2>3
<1> HIDE DEF all, n
<1>8. \A i \in 1 .. (n + m) : all[i] \in Rec /\ all[i].login \in STRING /\ all[i].id \in Nat
  <2>1. \A i \in 1 .. (n + m) : all[i] \in Rec
    BY <1>7
  <2>2. QED
    BY <2>1 DEF Rec
<1>8a. \A i \in 1 .. (n + m) : all[i].id # NoId => i \in 1 .. n
  <2>1. \A i \in (n + 1) .. (n + m) : all[i].id = NoId
    BY <1>6, <1>7
  <2>2. \A i \in 1 .. (n + m) : i \in 1 .. n \/ i \in (n + 1) .. (n + m)
    BY <1>2, <1>4
  <2>3. QED
    BY <2>1, <2>2
<1>9. ASSUME NEW i \in 1 .. (n + m), NEW j \in 1 .. (n + m), all[i].login = all[j].login
      PROVE  i = j
  <2>1. \A k \in 1 .. n : all[k].login \in Known(candidates)
    <3>1. \A k \in 1 .. n : candidates[k] \in Range(candidates)
      BY <1>2 DEF Range
    <3>2. \A k \in 1 .. n : candidates[k].login \in Known(candidates)
      BY <3>1 DEF Known
    <3>3. QED
      BY <1>3, <1>7, <3>2
  <2>2. \A k \in (n + 1) .. (n + m) : all[k].login = new[k - n] /\ all[k].login \notin Known(candidates)
    BY <1>5, <1>6, <1>7
  <2>3. CASE i \in 1 .. n /\ j \in 1 .. n
    BY <1>3, <1>7, <1>9, <2>3 DEF Numbered
  <2>4. CASE i \notin 1 .. n /\ j \notin 1 .. n
    <3>1. i \in (n + 1) .. (n + m) /\ j \in (n + 1) .. (n + m)
      BY <2>4, <1>2, <1>4
    <3>2. i - n = j - n
      BY <3>1, <2>2, <1>4, <1>7, <1>9
    <3>3. QED
      BY <3>2, <1>2
  <2>5. CASE (i \in 1 .. n) # (j \in 1 .. n)
    <3>1. \A k \in 1 .. (n + m) : k \in 1 .. n \/ k \in (n + 1) .. (n + m)
      BY <1>2, <1>4
    <3>2. QED
      BY <2>1, <2>2, <2>5, <1>9, <3>1
  <2>6. QED
    BY <2>3, <2>4, <2>5
<1>10. NextNumber \in Nat \ {NoId} /\ \A l \in DOMAIN legacy : legacy[l] < NextNumber
  BY NextIsFree
<1>11. \A i \in 1 .. (n + m) : all[i].id < NextNumber
  <2>1. \A i \in 1 .. n : all[i].id < NextNumber
    BY <1>3, <1>7, NextIsFree
  <2>2. \A i \in (n + 1) .. (n + m) : all[i].id < NextNumber
    BY <1>6, <1>7, <1>10 DEF NoId
  <2>3. QED
    BY <2>1, <2>2, <1>2, <1>4
<1>12. \A i \in Nat : rank(i) \in Nat
  <2>1. need \subseteq 1 .. (n + m)
    BY <1>7
  <2>2. IsFiniteSet(1 .. (n + m))
    <3>1. 1 \in Int /\ n + m \in Int
      BY <1>2, <1>4
    <3>2. QED
      BY <3>1, FS_Interval
  <2> HIDE DEF need
  <2>3. \A i \in Nat : {j \in need : j < i} \in SUBSET (1 .. (n + m))
    BY <2>1
  <2>4. QED
    BY <2>2, <2>3, FS_Subset, FS_CardinalityType
<1>13. \A i, k \in need : i < k => rank(i) < rank(k)
  <2>1. need \subseteq 1 .. (n + m) /\ \A i \in need : i \in Nat
    BY <1>7, <1>2, <1>4
  <2>2. IsFiniteSet(1 .. (n + m))
    <3>1. 1 \in Int /\ n + m \in Int
      BY <1>2, <1>4
    <3>2. QED
      BY <3>1, FS_Interval
  <2> HIDE DEF need
  <2>3. SUFFICES ASSUME NEW i \in need, NEW k \in need, i < k
                 PROVE  rank(i) < rank(k)
    OBVIOUS
  <2> DEFINE low == {j \in need : j < i}
             high == {j \in need : j < k}
  <2>4. low \cup {i} \subseteq high /\ i \notin low /\ high \in SUBSET (1 .. (n + m)) /\ low \in SUBSET high
    <3>1. \A j \in need : j < i => j < k
      BY <2>1, <2>3
    <3>2. ~ (i < i)
      BY <2>1
    <3>3. QED
      BY <2>1, <2>3, <3>1, <3>2
  <2>5. IsFiniteSet(high)
    <3> HIDE DEF low, high
    <3> QED
      BY <2>2, <2>4, FS_Subset
  <2>6. IsFiniteSet(low)
    <3> HIDE DEF low, high
    <3> QED
      BY <2>4, <2>5, FS_Subset
  <2>7. Cardinality(low \cup {i}) = Cardinality(low) + 1 /\ Cardinality(low) \in Nat
    <3> HIDE DEF low, high
    <3> QED
      BY <2>4, <2>6, FS_AddElement, FS_CardinalityType
  <2>8. Cardinality(low \cup {i}) <= Cardinality(high) /\ Cardinality(high) \in Nat
    <3> HIDE DEF low, high
    <3> QED
      BY <2>4, <2>5, FS_Subset, FS_CardinalityType
  <2>9. rank(i) = Cardinality(low) /\ rank(k) = Cardinality(high)
    OBVIOUS
  <2> HIDE DEF low, high, rank
  <2>10. QED
    BY <2>7, <2>8, <2>9
<1>14. need \subseteq 1 .. (n + m) /\ \A i \in need : all[i].id = NoId /\ all[i].login \in asked
  BY <1>7
<1>15. \A i \in 1 .. (n + m) : i \notin need => all[i].login \notin asked \/ all[i].id # NoId
  BY <1>7
<1> HIDE DEF need, rank
<1>16. DOMAIN list = 1 .. (n + m)
  BY <1>7
<1>17. ASSUME NEW i \in 1 .. (n + m)
       PROVE  /\ list[i] \in Rec /\ list[i].login = all[i].login
              /\ i \in need => list[i].id = NextNumber + rank(i)
              /\ i \notin need => list[i].id = all[i].id
  <2>1. CASE i \in need
    <3>1. list[i] = [all[i] EXCEPT !.id = NextNumber + rank(i)]
      BY <1>7, <2>1
    <3>2. rank(i) \in Nat
      BY <1>12, <1>2, <1>4, SMTT(30)
    <3>3. QED
      BY <1>8, <1>10, <2>1, <3>1, <3>2 DEF Rec
  <2>2. CASE i \notin need
    BY <1>7, <1>8, <2>2
  <2>3. QED
    BY <2>1, <2>2
<1>18. list \in [1 .. (n + m) -> Rec]
  <2>1. list = [i \in 1 .. (n + m) |-> list[i]]
    BY <1>7
  <2> HIDE DEF list
  <2>2. QED
    BY <1>17, <2>1
<1> HIDE DEF list
<1>19. list \in Seq(Rec) /\ Len(list) = n + m
  BY <1>2, <1>4, <1>18
<1>20. \A i \in need : list[i].id \in Nat /\ list[i].id >= NextNumber
  <2>1. \A i \in need : rank(i) \in Nat
    BY <1>12, <1>14, <1>2, <1>4
  <2>2. QED
    BY <1>10, <1>14, <1>17, <2>1
<1>21. ASSUME NEW i \in 1 .. (n + m), NEW j \in 1 .. (n + m), list[i].id = list[j].id, list[i].id # NoId
       PROVE  i = j
  <2>1. CASE i \in need /\ j \in need
    <3>1. rank(i) = rank(j) /\ i \in Nat /\ j \in Nat /\ rank(i) \in Nat
      <4>1. i \in Nat /\ j \in Nat
        BY <1>2, <1>4
      <4>2. rank(i) \in Nat /\ rank(j) \in Nat
        BY <4>1, <1>12
      <4>3. NextNumber + rank(i) = NextNumber + rank(j)
        BY <1>17, <1>21, <2>1
      <4>4. QED
        BY <4>1, <4>2, <4>3, <1>10
    <3>2. QED
      BY <1>13, <2>1, <3>1
  <2>2. CASE i \notin need /\ j \notin need
    <3>1. all[i].id = all[j].id /\ all[i].id # NoId
      BY <1>17, <1>21, <2>2
    <3>2. i \in 1 .. n /\ j \in 1 .. n
      BY <1>8a, <3>1
    <3>3. all[i] = Folded[i] /\ all[j] = Folded[j]
      BY <1>7, <3>2
    <3>4. QED
      BY <1>3, <3>1, <3>2, <3>3 DEF Numbered
  <2>3. CASE (i \in need) # (j \in need)
    BY <1>8, <1>10, <1>11, <1>17, <1>20, <1>21, <2>3
  <2>4. QED
    BY <2>1, <2>2, <2>3
<1>22. ASSUME NEW i \in 1 .. (n + m), NEW l \in DOMAIN legacy, list[i].id = legacy[l]
       PROVE  list[i].login = l
  <2>1. legacy[l] \in Nat \ {NoId} /\ legacy[l] < NextNumber
    BY <1>10 DEF OldOK
  <2>2. i \notin need
    BY <1>10, <1>20, <1>22, <2>1
  <2>3. all[i].id = legacy[l]
    BY <1>17, <1>22, <2>2
  <2>4. i \in 1 .. n
    BY <1>22, <1>8a, <2>1, <2>3
  <2>5. QED
    BY <1>3, <1>7, <1>17, <2>3, <2>4, SMTT(30) DEF Numbered
<1>23. Numbered(list, legacy)
  <2>1. \A i, j \in 1 .. (n + m) : list[i].login = list[j].login => i = j
    BY <1>9, <1>17
  <2>2. QED
    BY <1>16, <1>21, <1>22, <2>1 DEF Numbered
<1>24. GoesOn(list, candidates)
  <2>1. Len(candidates) = n
    BY DEF n
  <2>2. ASSUME NEW i \in 1 .. n
        PROVE  /\ list[i].login = candidates[i].login
               /\ candidates[i].id # NoId => list[i].id = candidates[i].id
    <3>1. i \in 1 .. (n + m) /\ all[i] = Folded[i]
      BY <1>7, <1>2, <1>4
    <3>2. QED
      BY <1>3, <1>14, <1>17, <3>1
  <2>3. QED
    BY <1>19, <2>1, <2>2, <1>2, <1>4 DEF GoesOn
<1>25. ASSUME NEW l \in asked
       PROVE  HasId(list, l)
  <2>1. \E i \in 1 .. (n + m) : all[i].login = l
    <3>1. CASE l \in Known(candidates)
      <4>1. PICK i \in 1 .. n : candidates[i].login = l
        BY <1>2, <3>1 DEF Known, Range
      <4>2. i \in 1 .. (n + m)
        BY <1>2, <1>4
      <4>3. QED
        BY <1>3, <1>7, <4>1, <4>2
    <3>2. CASE l \notin Known(candidates)
      <4>1. l \in strangers
        BY <3>2 DEF strangers
      <4>2. PICK i \in 1 .. m : new[i] = l
        BY <1>4, <4>1
      <4>3. n + i \in (n + 1) .. (n + m) /\ (n + i) - n = i /\ n + i \in 1 .. (n + m)
        BY <1>2, <1>4
      <4>4. QED
        BY <1>6, <1>7, <4>2, <4>3
    <3>3. QED
      BY <3>1, <3>2
  <2>2. PICK i \in 1 .. (n + m) : all[i].login = l
    BY <2>1
  <2>3. list[i].id # NoId
    <3>1. CASE i \in need
      BY <1>10, <1>17, <1>20, <3>1 DEF NoId
    <3>2. CASE i \notin need
      BY <1>15, <1>17, <2>2, <3>2
    <3>3. QED
      BY <3>1, <3>2
  <2>4. QED
    BY <1>16, <1>17, <2>2, <2>3 DEF HasId
<1>26. QED
  BY <1>1, <1>19, <1>23, <1>24, <1>25

SampleMemory == [pc : {"search"}, list : Seq(Rec), windows : SUBSET DOMAIN Found,
                 seen : SUBSET STRING, items : Seq(STRING)]
BuildMemory == [pc : {"numbered", "saved", "profiles"}, list : Seq(Rec), todo : SUBSET STRING]

\* gh sample adds logins it has not seen, without IDs, behind the candidates.
Sampling == sampling # NotRunning =>
    /\ sampling \in SampleMemory
    /\ GoesOn(sampling.list, candidates)
    /\ \A i \in DOMAIN sampling.list :
          /\ sampling.list[i].login \in sampling.seen
          /\ sampling.list[i].id # NoId =>
                i \in DOMAIN candidates /\ sampling.list[i].id = candidates[i].id
    /\ \A i, j \in DOMAIN sampling.list : sampling.list[i].login = sampling.list[j].login => i = j

\* gh build has an ID for every login whose profile it will write, and writes none
\* before the IDs are in candidates.json.
Building == building # NotRunning =>
    /\ building \in BuildMemory
    /\ Numbered(building.list, legacy) /\ GoesOn(building.list, candidates)
    /\ \A l \in building.todo : HasId(building.list, l)
    /\ building.pc # "numbered" => candidates = building.list

\* Every profile file ever written has its login and ID in candidates.json.
Recorded == \A x \in written :
    /\ x.id # NoId
    /\ \E i \in DOMAIN candidates : candidates[i].login = x.login /\ candidates[i].id = x.id

RegistryInv ==
    /\ candidates \in Seq(Rec) /\ Numbered(candidates, legacy) /\ OldOK
    /\ consumed \in SUBSET DOMAIN Found /\ bundles \subseteq Owners
    /\ sampling = NotRunning \/ building = NotRunning
    /\ Sampling /\ Building /\ Recorded

\* The candidates another command finds go on from those that were there, so what
\* was recorded still is.
LEMMA RecordedStays ==
    ASSUME candidates \in Seq(Rec), NEW list \in Seq(Rec), GoesOn(list, candidates), Recorded,
           candidates' = list, written' = written
    PROVE  Recorded'
<1>1. ASSUME NEW i \in DOMAIN candidates
      PROVE  /\ i \in DOMAIN list /\ list[i].login = candidates[i].login
             /\ candidates[i].id # NoId => list[i].id = candidates[i].id
  BY DEF GoesOn
<1>2. QED
  BY <1>1 DEF Recorded

\* What is recorded makes IDs permanent.
LEMMA RecordedIsForever ==
    ASSUME Numbered(candidates, legacy), Recorded
    PROVE  IdIsForever
<1>1. ASSUME NEW x \in written
      PROVE  IdOf(candidates, x.login) = x.id
  <2>1. PICK i \in DOMAIN candidates : candidates[i].login = x.login /\ candidates[i].id = x.id
    BY DEF Recorded
  <2>2. QED
    BY <2>1, IdOfRecord
<1>2. ASSUME NEW x \in written, NEW y \in written
      PROVE  x.login = y.login <=> x.id = y.id
  BY DEF Recorded, Numbered
<1>3. QED
  BY <1>1, <1>2 DEF IdIsForever

\* A sampling run that found more goes on sampling.
LEMMA SamplingStep ==
    ASSUME NEW list \in Seq(Rec), NEW e \in Rec, NEW more, more = list \o <<e>>
    PROVE  /\ more \in Seq(Rec) /\ Len(more) = Len(list) + 1
           /\ \A i \in 1 .. Len(list) : more[i] = list[i]
           /\ more[Len(list) + 1] = e
<1>1. more = Append(list, e)
  BY AppendIsConcat
<1>2. QED
  BY <1>1, AppendProperties

\* While no operator samples beside a build and the IDs in use have four digits, an ID
\* is assigned once and never changes or gets reused, whatever either command finds and
\* wherever it dies (ids.assign, sample, save).
THEOREM IdIsForeverHolds ==
    ASSUME ~ SampleBesideBuild PROVE RegistrySpec /\ []FourDigits => []IdIsForever
<1>1. RegistryInit => RegistryInv
  <2>1. SUFFICES ASSUME RegistryInit PROVE RegistryInv
    OBVIOUS
  <2>2. PICK h \in Histories : candidates = h.candidates /\ legacy = h.legacy
    BY <2>1 DEF RegistryInit
  <2>3. candidates \in Seq(Rec) /\ Numbered(candidates, legacy) /\ OldOK
    BY <2>2, RegistryAssumption DEF Rec, OldOK
  <2>4. QED
    BY <2>1, <2>3 DEF RegistryInit, RegistryInv, Sampling, Building, Recorded
<1>2. ASSUME RegistryInv, FourDigits, [RegistryNext]_registryVars
      PROVE  RegistryInv'
  <2> USE <1>2
  <2>1. /\ candidates \in Seq(Rec) /\ Numbered(candidates, legacy) /\ OldOK
        /\ consumed \in SUBSET DOMAIN Found /\ bundles \subseteq Owners
        /\ sampling = NotRunning \/ building = NotRunning
        /\ Sampling /\ Building /\ Recorded
    BY DEF RegistryInv
  <2>2. \A other : MayStart(other) => other = NotRunning
    BY DEF MayStart
  <2>3. sampling # NotRunning => sampling \in SampleMemory
    BY <2>1 DEF Sampling
  <2>4. building # NotRunning => building \in BuildMemory
    BY <2>1 DEF Building
  <2>5. UNCHANGED <<candidates, legacy, written>> =>
           /\ candidates' \in Seq(Rec) /\ Numbered(candidates, legacy)' /\ OldOK' /\ Recorded'
           /\ UNCHANGED sampling => Sampling'
           /\ UNCHANGED building => Building'
    <3>1. SUFFICES ASSUME UNCHANGED <<candidates, legacy, written>>
                   PROVE  /\ candidates' \in Seq(Rec) /\ Numbered(candidates, legacy)' /\ OldOK' /\ Recorded'
                          /\ UNCHANGED sampling => Sampling'
                          /\ UNCHANGED building => Building'
      OBVIOUS
    <3>2. Numbered(candidates, legacy)' /\ OldOK' /\ Recorded'
      BY <2>1, <3>1 DEF Numbered, OldOK, Recorded
    <3>3. UNCHANGED sampling => Sampling'
      BY <2>1, <3>1 DEF Sampling, GoesOn
    <3>4. UNCHANGED building => Building'
      BY <2>1, <3>1 DEF Building, GoesOn, Numbered, HasId
    <3>5. QED
      BY <2>1, <3>1, <3>2, <3>3, <3>4
  <2>6. CASE SampleStart
    <3>1. /\ building = NotRunning /\ UNCHANGED <<candidates, consumed, legacy, bundles, building, written>>
          /\ sampling' = [pc |-> "search", list |-> candidates, windows |-> consumed,
                          seen |-> Known(candidates), items |-> <<>>]
      BY <2>2, <2>6 DEF SampleStart
    <3>2. \A i \in DOMAIN candidates : candidates[i] \in Rec
      BY <2>1
    <3>3. Known(candidates) \subseteq STRING /\ \A i \in DOMAIN candidates : candidates[i].login \in Known(candidates)
      BY <3>2 DEF Known, Range, Rec
    <3>4. Sampling'
      <4>1. sampling' \in SampleMemory
        BY <2>1, <3>1, <3>3 DEF SampleMemory
      <4>2. sampling'.list = candidates /\ sampling'.seen = Known(candidates)
        BY <3>1
      <4>3. GoesOn(candidates, candidates)
        BY <2>1 DEF GoesOn
      <4>4. QED
        BY <2>1, <3>1, <3>3, <4>1, <4>2, <4>3 DEF Sampling, GoesOn, Numbered
    <3>5. QED
      BY <2>1, <2>5, <3>1, <3>4 DEF RegistryInv
  <2>7. ASSUME NEW w \in DOMAIN Found, Search(w)
        PROVE  RegistryInv'
    <3>1. /\ sampling.pc = "search" /\ UNCHANGED <<candidates, consumed, legacy, bundles, building, written>>
          /\ sampling' = [sampling EXCEPT !.windows = @ \cup {w}, !.items = Found[w]]
      BY <2>7 DEF Search
    <3>2. sampling # NotRunning /\ building = NotRunning
      BY <2>1, <3>1 DEF NotRunning
    <3>3. Found[w] \in Seq(STRING)
      BY RegistryAssumption
    <3>4. sampling' \in SampleMemory /\ sampling'.list = sampling.list /\ sampling'.seen = sampling.seen
      BY <2>3, <3>1, <3>2, <3>3 DEF SampleMemory
    <3>5. Sampling'
      BY <2>1, <3>1, <3>2, <3>4 DEF Sampling, GoesOn
    <3>6. QED
      BY <2>1, <2>5, <3>1, <3>2, <3>5 DEF RegistryInv
  <2>8. CASE Examine
    <3>1. /\ sampling.pc = "search" /\ sampling.items # <<>>
          /\ UNCHANGED <<candidates, consumed, legacy, bundles, building, written>>
      BY <2>8 DEF Examine
    <3>2. sampling # NotRunning /\ building = NotRunning
      BY <2>1, <3>1 DEF NotRunning
    <3>3. sampling.items \in Seq(STRING) /\ sampling.list \in Seq(Rec) /\ sampling.seen \subseteq STRING
      BY <2>3, <3>2 DEF SampleMemory
    <3>4. Head(sampling.items) \in STRING /\ Tail(sampling.items) \in Seq(STRING)
      <4>1. PICK items : items = sampling.items
        OBVIOUS
      <4>2. items \in Seq(STRING) /\ items # <<>>
        BY <3>1, <3>3, <4>1
      <4>3. Head(items) \in STRING /\ Tail(items) \in Seq(STRING)
        BY <4>2, HeadTailProperties
      <4>4. QED
        BY <4>1, <4>3
    <3>5. PICK l : l = Head(sampling.items)
      OBVIOUS
    <3>6. CASE l \in sampling.seen /\ sampling' = [sampling EXCEPT !.items = Tail(@)]
      <4>1. sampling' \in SampleMemory /\ sampling'.list = sampling.list /\ sampling'.seen = sampling.seen
        BY <2>3, <3>2, <3>4, <3>6 DEF SampleMemory
      <4>2. Sampling'
        BY <2>1, <3>1, <3>2, <4>1 DEF Sampling, GoesOn
      <4>3. QED
        BY <2>1, <2>5, <3>1, <3>2, <4>2 DEF RegistryInv
    <3>7. ASSUME l \notin sampling.seen,
                 NEW found \in {<<>>} \cup {<<Candidate(l, ok, NoId)>> : ok \in BOOLEAN},
                 sampling' = [sampling EXCEPT !.items = Tail(@), !.seen = @ \cup {l},
                                              !.list = @ \o found]
          PROVE  RegistryInv'
      <4>1. PICK list, more : list = sampling.list /\ more = list \o found
        OBVIOUS
      <4>2. \A ok \in BOOLEAN : Candidate(l, ok, NoId) \in Rec
        BY <3>4, <3>5 DEF Candidate, Rec, NoId
      <4>3. found = <<>> \/ \E e \in Rec : found = <<e>> /\ e.login = l /\ e.id = NoId
        <5>1. CASE found = <<>>
          BY <5>1
        <5>2. ASSUME NEW ok \in BOOLEAN, found = <<Candidate(l, ok, NoId)>>
              PROVE  \E e \in Rec : found = <<e>> /\ e.login = l /\ e.id = NoId
          BY <4>2, <5>2 DEF Candidate
        <5>3. QED
          BY <3>7, <5>1, <5>2
      <4>4. list \in Seq(Rec)
        BY <3>3, <4>1
      <4>5. /\ more \in Seq(Rec) /\ Len(list) <= Len(more)
            /\ \A i \in DOMAIN list : i \in DOMAIN more /\ more[i] = list[i]
            /\ \A i \in DOMAIN more \ DOMAIN list : i = Len(list) + 1 /\ found = <<more[i]>>
        <5>1. found = <<>> \/ \E e \in Rec : found = <<e>>
          BY <4>3
        <5>2. more = list \o found
          BY <4>1
        <5>3. QED
          <6>1. CASE found = <<>>
            BY <4>4, <5>2, <6>1
          <6>2. ASSUME NEW e \in Rec, found = <<e>>
                PROVE  /\ more \in Seq(Rec) /\ Len(list) <= Len(more)
                       /\ \A i \in DOMAIN list : i \in DOMAIN more /\ more[i] = list[i]
                       /\ \A i \in DOMAIN more \ DOMAIN list : i = Len(list) + 1 /\ found = <<more[i]>>
            <7>1. more = list \o <<e>>
              BY <5>2, <6>2
            <7>2. /\ more \in Seq(Rec) /\ Len(more) = Len(list) + 1
                  /\ \A i \in 1 .. Len(list) : more[i] = list[i]
                  /\ more[Len(list) + 1] = e
              BY <4>4, <7>1, SamplingStep
            <7>3. QED
              BY <4>4, <6>2, <7>2
          <6>3. QED
            BY <5>1, <6>1, <6>2
      <4>6. \A i \in DOMAIN more \ DOMAIN list : more[i].login = l /\ more[i].id = NoId
        <5>1. SUFFICES ASSUME NEW i \in DOMAIN more \ DOMAIN list
                       PROVE  more[i].login = l /\ more[i].id = NoId
          OBVIOUS
        <5>2. PICK m : m = more[i]
          OBVIOUS
        <5>3. found = <<m>>
          BY <4>5, <5>2
        <5>4. found # <<>>
          BY <5>3
        <5>5. PICK e \in Rec : found = <<e>> /\ e.login = l /\ e.id = NoId
          BY <4>3, <5>4
        <5>6. m = e
          BY <5>3, <5>5
        <5>7. QED
          BY <5>2, <5>5, <5>6
      <4>7. /\ sampling' \in SampleMemory /\ sampling'.list = more
            /\ sampling'.seen = sampling.seen \cup {l}
        <5>1. sampling' = [sampling EXCEPT !.items = Tail(@), !.seen = @ \cup {l}, !.list = more]
          BY <3>7, <4>1
        <5>2. QED
          BY <2>3, <3>2, <3>4, <3>5, <4>5, <5>1 DEF SampleMemory
      <4>8. /\ GoesOn(list, candidates)
            /\ \A i \in DOMAIN list :
                  /\ list[i].login \in sampling.seen
                  /\ list[i].id # NoId => i \in DOMAIN candidates /\ list[i].id = candidates[i].id
            /\ \A i, j \in DOMAIN list : list[i].login = list[j].login => i = j
        BY <2>1, <3>2, <4>1 DEF Sampling
      <4>9. GoesOn(more, candidates)
        <5>1. Len(candidates) \in Nat /\ Len(list) \in Nat /\ Len(more) \in Nat /\ DOMAIN list = 1 .. Len(list)
          BY <2>1, <4>4, <4>5
        <5>2. Len(candidates) <= Len(more) /\ \A i \in 1 .. Len(candidates) : i \in DOMAIN list
          BY <4>5, <4>8, <5>1 DEF GoesOn
        <5>3. QED
          BY <4>5, <4>8, <5>2 DEF GoesOn
      <4>10. \A i \in DOMAIN more :
                /\ more[i].login \in sampling.seen \cup {l}
                /\ more[i].id # NoId => i \in DOMAIN candidates /\ more[i].id = candidates[i].id
        BY <4>5, <4>6, <4>8
      <4>11. \A i, j \in DOMAIN more : more[i].login = more[j].login => i = j
        BY <3>7, <4>5, <4>6, <4>8
      <4>12. Sampling'
        <5>1. candidates' = candidates
          BY <3>1
        <5>2. QED
          BY <4>7, <4>9, <4>10, <4>11, <5>1 DEF Sampling, GoesOn
      <4>13. QED
        BY <2>1, <2>5, <3>1, <3>2, <4>12 DEF RegistryInv
    <3>8. QED
      BY <2>8, <3>5, <3>6, <3>7, ZenonT(60) DEF Examine
  <2>9. CASE SampleSave
    <3>1. /\ sampling.pc = "search" /\ candidates' = sampling.list /\ consumed' = sampling.windows
          /\ sampling' = NotRunning /\ UNCHANGED <<legacy, bundles, building, written>>
      BY <2>9 DEF SampleSave
    <3>2. sampling # NotRunning /\ building = NotRunning
      BY <2>1, <3>1 DEF NotRunning
    <3>3. PICK list : list = sampling.list
      OBVIOUS
    <3>4. /\ list \in Seq(Rec) /\ consumed' \in SUBSET DOMAIN Found /\ GoesOn(list, candidates)
          /\ \A i \in DOMAIN list : list[i].id # NoId => i \in DOMAIN candidates /\ list[i].id = candidates[i].id
          /\ \A i, j \in DOMAIN list : list[i].login = list[j].login => i = j
      BY <2>1, <2>3, <3>1, <3>2, <3>3 DEF Sampling, SampleMemory
    <3>5. \A i \in DOMAIN candidates : list[i].login = candidates[i].login
      BY <2>1, <3>4 DEF GoesOn
    <3>6. Numbered(list, legacy)
      <4>1. \A i, j \in DOMAIN list : list[i].id = list[j].id /\ list[i].id # NoId => i = j
        BY <2>1, <3>4 DEF Numbered
      <4>2. \A i \in DOMAIN list, l \in DOMAIN legacy : list[i].id = legacy[l] => list[i].login = l
        BY <2>1, <3>4, <3>5 DEF Numbered, OldOK
      <4>3. QED
        BY <2>1, <3>4, <4>1, <4>2 DEF Numbered
    <3>7. Recorded'
      BY <2>1, <3>1, <3>3, <3>4, RecordedStays
    <3>8. /\ candidates' \in Seq(Rec) /\ Numbered(candidates, legacy)' /\ OldOK'
      BY <2>1, <3>1, <3>3, <3>4, <3>6 DEF OldOK
    <3>9. QED
      BY <2>1, <3>1, <3>2, <3>4, <3>7, <3>8 DEF RegistryInv, Sampling, Building
  <2>10. ASSUME NEW l \in Owners, Collect(l)
         PROVE  RegistryInv'
    BY <2>1, <2>5, <2>10 DEF Collect, RegistryInv
  <2>11. CASE BuildStart
    <3>1. /\ sampling = NotRunning /\ UNCHANGED <<candidates, consumed, legacy, bundles, sampling, written>>
      BY <2>2, <2>11 DEF BuildStart
    <3>2. PICK asked \in SUBSET bundles \ {{}} :
            building' = [pc |-> "numbered", list |-> Assigned(asked), todo |-> asked]
      BY <2>11 DEF BuildStart
    <3>3. asked \in SUBSET STRING /\ IsFiniteSet(asked)
      BY <2>1, FS_Subset, RegistryAssumption
    <3>4. PICK list : list = Assigned(asked)
      OBVIOUS
    <3>5. /\ list \in Seq(Rec) /\ Numbered(list, legacy) /\ GoesOn(list, candidates)
          /\ \A l \in asked : HasId(list, l)
      BY <2>1, <3>3, <3>4, AssignedFits
    <3>6. building' = [pc |-> "numbered", list |-> list, todo |-> asked]
      BY <3>2, <3>4
    <3>7. building' \in BuildMemory
      BY <3>3, <3>5, <3>6 DEF BuildMemory
    <3>8. Building'
      <4>1. building'.list = list /\ building'.todo = asked /\ building'.pc = "numbered"
        BY <3>6
      <4>2. UNCHANGED <<candidates, legacy>>
        BY <3>1
      <4>3. GoesOn(list, candidates)' /\ Numbered(list, legacy)'
        BY <3>5, <4>2 DEF GoesOn, Numbered
      <4>4. QED
        BY <3>5, <3>7, <4>1, <4>2, <4>3 DEF Building, GoesOn, Numbered, HasId
    <3>9. QED
      BY <2>1, <2>5, <3>1, <3>8 DEF RegistryInv
  <2>12. CASE BuildWrite
    <3>1. /\ building.pc = "numbered" /\ candidates' = building.list
          /\ building' = [building EXCEPT !.pc = "saved"]
          /\ UNCHANGED <<consumed, legacy, bundles, sampling, written>>
      BY <2>12 DEF BuildWrite
    <3>2. building # NotRunning /\ sampling = NotRunning
      BY <2>1, <3>1 DEF NotRunning
    <3>3. PICK list : list = building.list
      OBVIOUS
    <3>4. /\ list \in Seq(Rec) /\ Numbered(list, legacy) /\ GoesOn(list, candidates)
          /\ \A l \in building.todo : HasId(list, l)
      BY <2>1, <2>4, <3>2, <3>3 DEF Building, BuildMemory
    <3>5. Recorded'
      BY <2>1, <3>1, <3>3, <3>4, RecordedStays
    <3>6. /\ building' \in BuildMemory /\ building'.list = list /\ building'.todo = building.todo
          /\ candidates' = list
      BY <2>4, <3>1, <3>2, <3>3 DEF BuildMemory
    <3>7. Numbered(list, legacy)' /\ GoesOn(list, list)
      BY <3>1, <3>4 DEF Numbered, GoesOn
    <3>8. Building'
      BY <3>4, <3>6, <3>7 DEF Building, GoesOn, Numbered, HasId
    <3>9. /\ candidates' \in Seq(Rec) /\ Numbered(candidates, legacy)' /\ OldOK'
      BY <2>1, <3>1, <3>3, <3>4 DEF OldOK
    <3>10. QED
      BY <2>1, <3>1, <3>2, <3>5, <3>8, <3>9 DEF RegistryInv, Sampling
  <2>13. CASE BuildUnlink
    <3>1. /\ building.pc = "saved" /\ legacy' = <<>> /\ building' = [building EXCEPT !.pc = "profiles"]
          /\ UNCHANGED <<candidates, consumed, bundles, sampling, written>>
      BY <2>13 DEF BuildUnlink
    <3>2. building # NotRunning /\ sampling = NotRunning
      BY <2>1, <3>1 DEF NotRunning
    <3>3. DOMAIN legacy' = {} /\ OldOK'
      BY <3>1, FS_EmptySet DEF OldOK
    <3>4. Numbered(candidates, legacy)' /\ Numbered(building.list, legacy')
      BY <2>1, <3>1, <3>2, <3>3 DEF Numbered, Building
    <3>5. Building'
      <4>1. /\ building' \in BuildMemory /\ building'.list = building.list /\ building'.todo = building.todo
            /\ building'.pc = "profiles"
        BY <2>4, <3>1, <3>2 DEF BuildMemory
      <4>2. candidates' = building.list /\ GoesOn(building.list, candidates) /\ UNCHANGED candidates
        BY <2>1, <3>1, <3>2 DEF Building
      <4>3. \A l \in building.todo : HasId(building.list, l)
        BY <2>1, <3>2 DEF Building
      <4>4. QED
        BY <3>4, <4>1, <4>2, <4>3 DEF Building, GoesOn, Numbered, HasId
    <3>6. QED
      BY <2>1, <3>1, <3>2, <3>3, <3>4, <3>5 DEF RegistryInv, Sampling, Recorded
  <2>14. ASSUME NEW l \in Owners, BuildProfile(l)
         PROVE  RegistryInv'
    <3>1. /\ building.pc = "profiles" /\ l \in building.todo
          /\ building' = [building EXCEPT !.todo = @ \ {l}]
          /\ UNCHANGED <<candidates, consumed, legacy, bundles, sampling>>
          /\ \/ written' = written \cup {[login |-> l, id |-> IdOf(building.list, l)]}
             \/ written' = written
      BY <2>14 DEF BuildProfile
    <3>2. building # NotRunning /\ sampling = NotRunning
      BY <2>1, <3>1 DEF NotRunning
    <3>3. /\ candidates = building.list /\ HasId(building.list, l) /\ Numbered(building.list, legacy)
      BY <2>1, <3>1, <3>2 DEF Building
    <3>4. PICK i \in DOMAIN candidates : candidates[i].login = l /\ candidates[i].id # NoId
      BY <3>3 DEF HasId
    <3>5. IdOf(building.list, l) = candidates[i].id
      BY <3>3, <3>4, IdOfRecord
    <3>6. Recorded'
      BY <2>1, <3>1, <3>4, <3>5 DEF Recorded
    <3>7. Building'
      <4>1. /\ building' \in BuildMemory /\ building'.list = building.list
            /\ building'.todo \subseteq building.todo /\ building'.pc = building.pc
        BY <2>4, <3>1, <3>2 DEF BuildMemory
      <4>2. UNCHANGED <<candidates, legacy>>
        BY <3>1
      <4>3. QED
        BY <2>1, <3>2, <4>1, <4>2 DEF Building, GoesOn, Numbered, HasId
    <3>8. candidates' \in Seq(Rec) /\ Numbered(candidates, legacy)' /\ OldOK'
      BY <2>1, <3>1 DEF Numbered, OldOK
    <3>9. QED
      BY <2>1, <3>1, <3>2, <3>6, <3>7, <3>8 DEF RegistryInv, Sampling
  <2>15. CASE BuildDone
    BY <2>1, <2>5, <2>15 DEF BuildDone, RegistryInv, Building
  <2>16. CASE RegistryDies
    BY <2>1, <2>5, <2>16 DEF RegistryDies, RegistryInv, Sampling, Building
  <2>17. CASE UNCHANGED registryVars
    BY <2>1, <2>5, <2>17 DEF registryVars, RegistryInv
  <2>18. QED
    BY <1>2, <2>6, <2>7, <2>8, <2>9, <2>10, <2>11, <2>12, <2>13, <2>14, <2>15, <2>16, <2>17
       DEF RegistryNext
<1>3. RegistryInv => IdIsForever
  BY RecordedIsForever DEF RegistryInv
<1>4. QED
  BY <1>1, <1>2, <1>3, PTL DEF RegistrySpec

-----------------------------------------------------------------------------
(* GitHubCollection *)

\* The URLs of a bundle
PartNames == Range(Parts)

\* The parts by name; there are ten.
LEMMA PartsAreNamed == /\ DOMAIN Parts = 1 .. 10
                       /\ PartNames = {"user", "repos", "languages", "tree", "commits", "contributors",
                                       "unfiltered", "releases", "contents", "events"}
  BY DEF PartNames, Parts, Range

\* The parts are fetched in their order, until there is none left.
LEMMA PartsInOrder ==
    \/ NextPart = "done" /\ PartNames \subseteq DOMAIN got
    \/ \E i \in 1 .. 10 : /\ NextPart = Parts[i] /\ Parts[i] \in PartNames /\ Parts[i] \notin DOMAIN got
                          /\ \A j \in 1 .. 10 : j < i => Parts[j] \in DOMAIN got
<1> DEFINE left == {i \in DOMAIN Parts : Parts[i] \notin DOMAIN got}
<1>1. DOMAIN Parts = 1 .. 10 /\ PartNames = {Parts[i] : i \in 1 .. 10}
  BY PartsAreNamed DEF PartNames, Range
<1>2. CASE left = {}
  BY <1>1, <1>2 DEF NextPart
<1>3. CASE left # {}
  <2>1. \E i \in left : \A j \in left : i <= j
    <3> DEFINE S == {n \in 1 .. 10 : 11 - n \in left}
    <3>1. left \subseteq 1 .. 10
      BY <1>1
    <3> HIDE DEF left
    <3>2. S \in SUBSET Nat /\ S \subseteq 1 .. 10
      OBVIOUS
    <3>3. IsFiniteSet(S)
      <4>1. IsFiniteSet(1 .. 10)
        <5>1. 1 \in Int /\ 10 \in Int
          OBVIOUS
        <5>2. QED
          BY <5>1, FS_Interval
      <4> HIDE DEF S
      <4>2. QED
        BY <3>2, <4>1, FS_Subset
    <3>4. S # {}
      <4>1. PICK i \in 1 .. 10 : i \in left
        BY <1>3, <3>1
      <4>2. 11 - i \in 1 .. 10 /\ 11 - (11 - i) = i
        OBVIOUS
      <4>3. QED
        BY <4>1, <4>2
    <3>5. Max(S) \in S /\ \A n \in S : Max(S) >= n
      <4> HIDE DEF S
      <4>1. QED
        BY <3>2, <3>3, <3>4, MaxOfFinite
    <3>6. PICK m \in 1 .. 10 : m \in S /\ \A n \in S : m >= n
      BY <3>2, <3>5
    <3>7. ASSUME NEW j \in left PROVE 11 - m <= j
      <4>1. j \in 1 .. 10 /\ 11 - j \in 1 .. 10 /\ 11 - (11 - j) = j
        BY <3>1
      <4>2. 11 - j \in S
        BY <4>1
      <4> HIDE DEF S
      <4>3. QED
        BY <3>6, <4>1, <4>2
    <3>8. QED
      BY <3>6, <3>7
  <2>2. PICK i : i = CHOOSE k \in left : \A j \in left : k <= j
    OBVIOUS
  <2>3. i \in left /\ \A j \in left : i <= j
    BY <2>1, <2>2
  <2>4. NextPart = Parts[i]
    BY <1>3, <2>2 DEF NextPart
  <2>5. \A j \in 1 .. 10 : j < i => j \notin left
    BY <1>1, <2>3
  <2>6. QED
    BY <1>1, <2>3, <2>4, <2>5
<1>4. QED
  BY <1>2, <1>3

\* What the cache may hold for a URL
Entries == {NoEntry, Half, "value", "empty", "missing", "refused"}

\* A bundle so far
Filled == UNION {[P -> {"value", "absent", "skipped"}] : P \in SUBSET PartNames}

\* What is empty in parts GitHub does not serve; unlinked commits are there only when
\* the list of contributors was asked for and names nobody else.
Faithful(l, parts) ==
    /\ parts \in Filled
    /\ \A p \in DOMAIN parts : parts[p] = "absent" => account[l].answers[p] # "value"
    /\ "contributors" \in DOMAIN parts /\ parts["contributors"] = "skipped"
          => "repos" \in DOMAIN parts /\ parts["repos"] # "value"
    /\ "unfiltered" \in DOMAIN parts /\ parts["unfiltered"] = "value"
          => /\ "repos" \in DOMAIN parts /\ parts["repos"] = "value"
             /\ "contributors" \in DOMAIN parts
             /\ parts["contributors"] = "value" =>
                   ~ account[l].repository.others /\ account[l].repository.unlinked <= 1

\* Commits are credited to the owner only after the unlinked ones were looked at.
Credited(l, saved) == saved.attribution = "sole_author" =>
    saved.parts["unfiltered"] = "value" /\ ~ account[l].repository.imported

\* The cache says of no URL that it is empty, missing or refused unless GitHub does.
CacheOK == /\ account \in [Logins -> Accounts] /\ todo \in Seq(Logins)
           /\ cache \in [Logins -> [PartNames -> Entries]]
           /\ \A l \in Logins, p \in PartNames :
                 cache[l][p] \in {NoEntry, Half, "value"} \/ cache[l][p] = account[l].answers[p]

\* The bundle in memory is faithful, and so is every bundle on disk, whole and fit to
\* be credited.
FetchOK == collecting = "fetching" => todo # <<>> /\ Faithful(Current, got)

BundlesOK == /\ bundle \in [Logins -> {bundle[l] : l \in Logins}]
             /\ \A l \in Logins : bundle[l] # <<>> =>
                   /\ PartNames \subseteq DOMAIN bundle[l].parts
                   /\ Faithful(l, bundle[l].parts) /\ Credited(l, bundle[l])

CollectionInv == CacheOK /\ FetchOK /\ BundlesOK

\* One more part keeps a bundle faithful.
LEMMA FilledFurther ==
    ASSUME CacheOK, NEW l \in Logins, l = Current, Faithful(l, got), NextPart # "done",
           NEW value \in {"value", "absent", "skipped"},
           value = "absent" => account[l].answers[NextPart] # "value",
           value = "skipped" <=> Skipped
    PROVE  Faithful(l, With(value))
<1>1. /\ account[l].answers \in [PartNames -> {"value", "empty", "missing", "refused"}]
      /\ account[l].repository \in [few : BOOLEAN, others : BOOLEAN, unlinked : Nat, imported : BOOLEAN]
  BY DEF CacheOK, Accounts, PartNames
<1>2. PICK part : part = NextPart
  OBVIOUS
<1>3. PICK i \in 1 .. 10 : /\ part = Parts[i] /\ part \in PartNames /\ part \notin DOMAIN got
                          /\ \A j \in 1 .. 10 : j < i => Parts[j] \in DOMAIN got
  BY <1>2, PartsInOrder
<1>4. PICK parts : parts = With(value)
  OBVIOUS
<1>5. /\ DOMAIN parts = DOMAIN got \cup {part} /\ parts[part] = value
      /\ \A p \in DOMAIN got : parts[p] = got[p]
  BY <1>2, <1>3, <1>4 DEF With
<1>6. parts \in Filled
  <2>1. parts = [p \in DOMAIN got \cup {part} |-> IF p = part THEN value ELSE got[p]]
    BY <1>2, <1>4 DEF With
  <2>2. PICK P \in SUBSET PartNames : got \in [P -> {"value", "absent", "skipped"}]
    BY DEF Faithful, Filled
  <2>3. parts \in [P \cup {part} -> {"value", "absent", "skipped"}]
    BY <2>1, <2>2
  <2>4. P \cup {part} \in SUBSET PartNames
    BY <1>3, <2>2
  <2>5. QED
    BY <2>3, <2>4 DEF Filled
<1>7. \A p \in DOMAIN parts : parts[p] = "absent" => account[l].answers[p] # "value"
  BY <1>2, <1>5 DEF Faithful
<1>8. part = "contributors" => "repos" \in DOMAIN got /\ part # "repos"
  BY <1>3 DEF Parts
<1>9. part = "unfiltered" => /\ "repos" \in DOMAIN got /\ "contributors" \in DOMAIN got
                            /\ part # "repos" /\ part # "contributors"
  BY <1>3 DEF Parts
<1>10. "contributors" \in DOMAIN parts /\ parts["contributors"] = "skipped"
          => "repos" \in DOMAIN parts /\ parts["repos"] # "value"
  BY <1>2, <1>3, <1>5, <1>8 DEF Faithful, Skipped
<1>11. "unfiltered" \in DOMAIN parts /\ parts["unfiltered"] = "value"
          => /\ "repos" \in DOMAIN parts /\ parts["repos"] = "value"
             /\ "contributors" \in DOMAIN parts
             /\ parts["contributors"] = "value" =>
                   ~ account[l].repository.others /\ account[l].repository.unlinked <= 1
  BY <1>2, <1>3, <1>5, <1>9 DEF Faithful, Skipped, MaySearchUnlinked, repository
<1>12. QED
  BY <1>4, <1>6, <1>7, <1>10, <1>11 DEF Faithful

\* A bundle of which nothing was fetched yet is faithful.
LEMMA NothingIsFaithful == <<>> \in Filled /\ DOMAIN <<>> = {}
<1>1. <<>> \in [{} -> {"value", "absent", "skipped"}]
  OBVIOUS
<1>2. {} \in SUBSET PartNames
  OBVIOUS
<1>3. QED
  BY <1>1, <1>2 DEF Filled

\* The collection is idle again or turns to the next login with nothing in memory.
LEMMA NextLoginKeeps ==
    ASSUME CacheOK, NextLogin, todo # <<>>, UNCHANGED account
    PROVE  FetchOK' /\ todo' \in Seq(Logins)
<1>1. PICK list \in Seq(Logins) : list = todo
  BY DEF CacheOK
<1>2. todo' = Tail(list) /\ list # <<>>
  BY <1>1 DEF NextLogin
<1>3. Tail(list) \in Seq(Logins)
  BY <1>1, <1>2, HeadTailProperties
<1>4. got' = <<>> /\ DOMAIN got' = {}
  BY DEF NextLogin
<1>5. ASSUME collecting' = "fetching" PROVE todo' # <<>>
  BY <1>5 DEF NextLogin
<1>6. Faithful(Current, got)'
  BY <1>4, NothingIsFaithful DEF Faithful
<1>7. QED
  BY <1>2, <1>3, <1>5, <1>6 DEF FetchOK

\* An answer that GitHub gave, now or when it was cached, is kept as it is.
LEMMA ReceivedKeeps ==
    ASSUME CacheOK, FetchOK, Fetching, UNCHANGED account,
           NEW answer \in Entries, answer = "value" \/ answer = account[Current].answers[NextPart],
           Received(answer)
    PROVE  FetchOK' /\ todo' \in Seq(Logins)
<1>1. todo # <<>> /\ todo \in Seq(Logins) /\ Faithful(Current, got) /\ NextPart # "done" /\ ~ Skipped
  BY DEF FetchOK, CacheOK, Fetching
<1>2. Current \in Logins
  BY <1>1, HeadTailProperties DEF Current
<1>3. CASE NextLogin
  BY <1>1, <1>3, NextLoginKeeps
<1>4. CASE ~ (NextPart = "user" /\ answer \in {"missing", "refused"})
  <2>1. PICK value \in {"value", "absent", "skipped"} : value = IF answer = "value" THEN "value" ELSE "absent"
    OBVIOUS
  <2>2. got' = With(value) /\ UNCHANGED <<collecting, todo>>
    BY <1>4, <2>1 DEF Received
  <2>3. value = "absent" => account[Current].answers[NextPart] # "value"
    BY <2>1
  <2>4. value # "skipped"
    BY <2>1
  <2>5. Faithful(Current, With(value))
    BY <1>1, <1>2, <2>3, <2>4, FilledFurther
  <2>6. Faithful(Current, got)'
    BY <2>2, <2>5 DEF Faithful, Current
  <2>7. QED
    BY <1>1, <2>2, <2>6 DEF FetchOK
<1>5. QED
  BY <1>3, <1>4 DEF Received

\* An entry that is written half, restored, or what GitHub answered keeps the cache.
LEMMA CacheStep ==
    ASSUME CacheOK, UNCHANGED account, todo' \in Seq(Logins),
           NEW l \in Logins, NEW p \in PartNames, NEW entry \in Entries,
           entry \in {NoEntry, Half, "value"} \/ entry = account[l].answers[p],
           cache' = [cache EXCEPT ![l][p] = entry]
    PROVE  CacheOK'
<1>1. PICK f \in [PartNames -> Entries] : f = cache[l]
  BY DEF CacheOK
<1>2. PICK g : g = [f EXCEPT ![p] = entry]
  OBVIOUS
<1>3. g \in [PartNames -> Entries] /\ \A q \in PartNames : g[q] = IF q = p THEN entry ELSE f[q]
  BY <1>2
<1>4. cache' = [cache EXCEPT ![l] = g]
  BY <1>1, <1>2
<1>5. /\ cache' \in [Logins -> [PartNames -> Entries]]
      /\ \A k \in Logins : cache'[k] = IF k = l THEN g ELSE cache[k]
  BY <1>3, <1>4 DEF CacheOK
<1>6. QED
  BY <1>1, <1>3, <1>5 DEF CacheOK

\* Bundles that are not written stay as they were.
LEMMA BundlesStay ==
    ASSUME BundlesOK, UNCHANGED <<account, bundle>>
    PROVE  BundlesOK'
  BY DEF BundlesOK, Faithful, Credited

\* While the command is online, a bundle is faithful to what GitHub holds, however
\* its parts were cached, retried, failed or rewritten meanwhile.
LEMMA CollectionInvSteps ==
    ASSUME ~ Offline, CollectionInv, [CollectionNext]_collectionVars
    PROVE  CollectionInv'
<1>1. CacheOK /\ FetchOK /\ BundlesOK
  BY DEF CollectionInv
<1>2. /\ account \in [Logins -> Accounts] /\ todo \in Seq(Logins)
      /\ cache \in [Logins -> [PartNames -> Entries]]
      /\ \A l \in Logins, p \in PartNames :
            cache[l][p] \in {NoEntry, Half, "value"} \/ cache[l][p] = account[l].answers[p]
  BY <1>1 DEF CacheOK
<1>3. Fetching => /\ todo # <<>> /\ Current \in Logins /\ NextPart \in PartNames
                  /\ account[Current].answers[NextPart] \in Entries
  <2>1. SUFFICES ASSUME Fetching
                 PROVE  /\ todo # <<>> /\ Current \in Logins /\ NextPart \in PartNames
                        /\ account[Current].answers[NextPart] \in Entries
    OBVIOUS
  <2>2. todo # <<>> /\ NextPart # "done"
    BY <1>1, <2>1 DEF Fetching, FetchOK
  <2>3. Current \in Logins
    BY <1>2, <2>2, HeadTailProperties DEF Current
  <2>4. NextPart \in PartNames
    BY <2>2, PartsInOrder
  <2>5. account[Current].answers \in [PartNames -> {"value", "empty", "missing", "refused"}]
    BY <1>2, <2>3 DEF Accounts, PartNames
  <2>6. \A p \in PartNames : account[Current].answers[p] \in Entries
    <3>1. PICK f \in [PartNames -> {"value", "empty", "missing", "refused"}] : f = account[Current].answers
      BY <2>5
    <3>2. \A p \in PartNames : f[p] \in {"value", "empty", "missing", "refused"}
      BY <3>1
    <3>3. \A x \in {"value", "empty", "missing", "refused"} : x \in Entries
      BY DEF Entries
    <3>4. QED
      BY <3>1, <3>2, <3>3
  <2>7. QED
    BY <2>2, <2>3, <2>4, <2>6
<1>4. UNCHANGED <<account, cache, bundle>> /\ FetchOK' /\ todo' \in Seq(Logins) => CollectionInv'
  BY <1>1, <1>2, BundlesStay DEF CollectionInv, CacheOK
<1>5. UNCHANGED <<account, collecting, todo, got>> => FetchOK'
  BY <1>1 DEF FetchOK, Faithful, Current
<1>6. CASE Start
  <2>1. PICK S \in SUBSET Logins : S = {l \in Logins : bundle[l] = <<>>}
    OBVIOUS
  <2>2. todo' \in SetToSeqs(S) /\ todo' # <<>> /\ got' = <<>> /\ UNCHANGED <<account, cache, bundle>>
    BY <1>6, <2>1 DEF Start
  <2>3. IsFiniteSet(S)
    BY CollectionAssumption, FS_Subset
  <2>4. Cardinality(S) \in Nat
    BY <2>3, FS_CardinalityType
  <2>5. todo' \in [1 .. Cardinality(S) -> S]
    BY <2>2 DEF SetToSeqs
  <2>6. todo' \in Seq(Logins)
    BY <2>4, <2>5
  <2>7. Faithful(Current, got)'
    BY <2>2, NothingIsFaithful DEF Faithful
  <2>8. QED
    BY <1>4, <2>2, <2>6, <2>7 DEF FetchOK
<1>7. CASE Skip
  <2>1. todo # <<>> /\ Faithful(Current, got) /\ Skipped /\ collecting = "fetching"
    BY <1>1, <1>7 DEF Skip, FetchOK
  <2>2. Current \in Logins
    BY <1>2, <2>1, HeadTailProperties DEF Current
  <2>3. NextPart # "done"
    BY <2>1 DEF Skipped
  <2>4. Faithful(Current, With("skipped"))
    BY <1>1, <2>1, <2>2, <2>3, FilledFurther
  <2>5. Faithful(Current, got)'
    BY <1>7, <2>4 DEF Skip, Faithful, Current
  <2>6. QED
    BY <1>2, <1>4, <1>7, <2>1, <2>5 DEF Skip, FetchOK
<1>8. CASE Cache
  <2>1. PICK answer : answer = Cached
    OBVIOUS
  <2>2. Fetching /\ Received(answer) /\ UNCHANGED <<account, cache, bundle>> /\ answer \notin {NoEntry, Half}
    BY <1>8, <2>1 DEF Cache
  <2>3. answer \in Entries /\ (answer = "value" \/ answer = account[Current].answers[NextPart])
    BY <1>2, <1>3, <2>1, <2>2 DEF Cached
  <2>4. QED
    BY <1>1, <1>4, <2>2, <2>3, ReceivedKeeps
<1>9. CASE Answered
  <2>1. PICK l \in Logins, part \in PartNames : l = Current /\ part = NextPart
    BY <1>3, <1>9 DEF Answered, Asking
  <2>2. PICK answer \in Entries : answer = account[l].answers[part]
    BY <1>3, <1>9, <2>1 DEF Answered, Asking
  <2>3. /\ Fetching /\ Received(answer) /\ UNCHANGED <<account, bundle>>
        /\ cache' \in {cache, [cache EXCEPT ![l][part] = answer]}
    BY <1>9, <2>1, <2>2 DEF Answered, Asking
  <2>4. FetchOK' /\ todo' \in Seq(Logins)
    BY <1>1, <2>1, <2>2, <2>3, ReceivedKeeps
  <2>5. CacheOK'
    <3>1. CASE cache' = cache
      BY <1>2, <2>3, <2>4, <3>1 DEF CacheOK
    <3>2. CASE cache' = [cache EXCEPT ![l][part] = answer]
      BY <1>1, <2>2, <2>3, <2>4, <3>2, CacheStep
    <3>3. QED
      BY <2>3, <3>1, <3>2
  <2>6. QED
    BY <1>1, <2>3, <2>4, <2>5, BundlesStay DEF CollectionInv
<1>10. CASE Again
  BY <1>2, <1>4, <1>5, <1>10 DEF Again
<1>11. CASE NoResponse
  BY <1>1, <1>3, <1>4, <1>11, NextLoginKeeps DEF NoResponse, Asking
<1>12. CASE Stop
  <2>1. todo' = <<>> /\ collecting' = "idle" /\ UNCHANGED <<account, cache, bundle>>
    BY <1>12 DEF Stop
  <2>2. FetchOK' /\ todo' \in Seq(Logins)
    BY <2>1 DEF FetchOK
  <2>3. QED
    BY <1>4, <2>1, <2>2
<1>13. CASE SaveBundle
  <2>1. /\ todo # <<>> /\ Faithful(Current, got) /\ NextPart = "done" /\ NextLogin
        /\ UNCHANGED <<account, cache>>
        /\ bundle' = [bundle EXCEPT ![Current] = [parts |-> got, attribution |-> Attribution]]
    BY <1>1, <1>13 DEF SaveBundle, FetchOK
  <2>2. PICK l \in Logins : l = Current
    BY <1>2, <2>1, HeadTailProperties DEF Current
  <2>3. FetchOK' /\ todo' \in Seq(Logins)
    BY <1>1, <2>1, NextLoginKeeps
  <2>4. CacheOK'
    BY <1>2, <2>1, <2>3 DEF CacheOK
  <2>5. PICK saved : saved = [parts |-> got, attribution |-> Attribution]
    OBVIOUS
  <2>6. saved.parts = got /\ saved.attribution = Attribution
    BY <2>5
  <2>7. PartNames \subseteq DOMAIN got
    BY <2>1, PartsInOrder, PartsAreNamed
  <2>8. Credited(l, saved)
    BY <2>2, <2>6 DEF Credited, Attribution, repository
  <2>9. bundle' = [bundle EXCEPT ![l] = saved]
    BY <2>1, <2>2, <2>5
  <2>10. bundle \in [Logins -> {bundle[k] : k \in Logins}]
    BY <1>1 DEF BundlesOK
  <2>11. DOMAIN bundle' = Logins /\ bundle'[l] = saved /\ \A k \in Logins \ {l} : bundle'[k] = bundle[k]
    BY <2>9, <2>10
  <2>12. bundle' \in [Logins -> {bundle'[k] : k \in Logins}]
    BY <2>9, <2>10
  <2>13. ASSUME NEW k \in Logins, bundle'[k] # <<>>
         PROVE  /\ PartNames \subseteq DOMAIN bundle'[k].parts
                /\ Faithful(k, bundle[k].parts)' /\ Credited(k, bundle[k])'
    <3>1. CASE k = l
      BY <2>1, <2>2, <2>6, <2>7, <2>8, <2>11, <3>1 DEF Faithful, Credited
    <3>2. CASE k # l
      BY <1>1, <2>1, <2>11, <2>13, <3>2, SMTT(30) DEF BundlesOK, Faithful, Credited
    <3>3. QED
      BY <3>1, <3>2
  <2>14. BundlesOK'
    BY <2>12, <2>13 DEF BundlesOK
  <2>15. QED
    BY <2>3, <2>4, <2>14 DEF CollectionInv
<1>14. ASSUME NEW l \in Logins, Touch(l)
       PROVE  CollectionInv'
  <2>1. /\ UNCHANGED <<account, bundle, collecting, todo, got>>
        /\ cache' \in {cache, [cache EXCEPT ![l]["user"] = Half], [cache EXCEPT ![l]["user"] = "value"]}
    BY <1>2, <1>14 DEF Touch
  <2>2. CacheOK'
    <3>1. CASE cache' = cache
      BY <1>2, <2>1, <3>1 DEF CacheOK
    <3>2. ASSUME NEW entry \in {Half, "value"}, cache' = [cache EXCEPT ![l]["user"] = entry]
          PROVE  CacheOK'
      <4>1. entry \in Entries
        BY <3>2 DEF Entries
      <4>2. "user" \in PartNames
        BY PartsAreNamed
      <4>3. QED
        BY <1>1, <1>2, <2>1, <3>2, <4>1, <4>2, CacheStep
    <3>3. QED
      BY <2>1, <3>1, <3>2
  <2>3. QED
    BY <1>1, <1>5, <2>1, <2>2, BundlesStay DEF CollectionInv
<1>15. CASE UNCHANGED collectionVars
  BY <1>2, <1>4, <1>5, <1>15 DEF collectionVars
<1>16. QED
  BY <1>6, <1>7, <1>8, <1>9, <1>10, <1>11, <1>12, <1>13, <1>14, <1>15 DEF CollectionNext

\* So it is when the command is first started.
LEMMA CollectionInvStarts == CollectionInit => CollectionInv
<1>1. SUFFICES ASSUME CollectionInit PROVE CollectionInv
  OBVIOUS
<1>2. account \in [Logins -> Accounts] /\ todo = <<>> /\ collecting = "idle"
  BY <1>1, CollectionAssumption DEF CollectionInit
<1>3. PICK none, known : /\ none = [p \in Range(Parts) |-> NoEntry]
                         /\ known = [p \in Range(Parts) |-> IF p = "user" THEN "value" ELSE NoEntry]
  OBVIOUS
<1>4. /\ none \in [PartNames -> Entries] /\ known \in [PartNames -> Entries]
      /\ \A p \in PartNames : none[p] = NoEntry /\ known[p] \in {NoEntry, "value"}
  <2>1. NoEntry \in Entries /\ "value" \in Entries
    BY DEF Entries
  <2>2. QED
    BY <1>3, <2>1 DEF PartNames
<1>5. cache \in [Logins -> {none, known}]
  BY <1>1, <1>3 DEF CollectionInit
<1>6. CacheOK
  BY <1>2, <1>4, <1>5 DEF CacheOK
<1>7. BundlesOK
  BY <1>1 DEF CollectionInit, BundlesOK
<1>8. QED
  BY <1>2, <1>6, <1>7 DEF CollectionInv, FetchOK

\* Unless the client is offline, a bundle that is saved holds as empty only what
\* GitHub does not have or refuses to serve, however often requests fail, runs stop
\* and cache entries are rewritten (GitHubClient.get, collect_repo, collect_user).
THEOREM BundleIsCompleteHolds == ASSUME ~ Offline PROVE CollectionSpec => []BundleIsComplete
<1>1. CollectionInv => BundleIsComplete
  BY DEF CollectionInv, BundlesOK, Faithful, BundleIsComplete, PartNames
<1>2. QED
  BY <1>1, CollectionInvStarts, CollectionInvSteps, PTL DEF CollectionSpec

\* Unless the client is offline, the owner of a repository is credited with unlinked
\* commits only if nobody else can have made them, as long as GitHub serves the list
\* of contributors (collect_repo).
THEOREM CreditIsSafeHolds == ASSUME ~ Offline PROVE CollectionSpec => []CreditIsSafe
<1>1. CollectionInv => CreditIsSafe
  <2>1. SUFFICES ASSUME CollectionInv, NEW l \in Logins, bundle[l] # <<>>,
                        bundle[l].attribution = "sole_author", account[l].answers["contributors"] = "value"
                 PROVE  /\ ~ account[l].repository.others /\ account[l].repository.unlinked <= 1
                        /\ ~ account[l].repository.imported
    BY DEF CreditIsSafe
  <2>2. PICK parts : parts = bundle[l].parts
    OBVIOUS
  <2>3. /\ PartNames \subseteq DOMAIN parts /\ Faithful(l, parts)
        /\ parts["unfiltered"] = "value" /\ ~ account[l].repository.imported
    BY <2>1, <2>2 DEF CollectionInv, BundlesOK, Credited
  <2>4. "unfiltered" \in DOMAIN parts /\ "contributors" \in DOMAIN parts
    BY <2>3, PartsAreNamed
  <2>5. parts["contributors"] \in {"value", "absent", "skipped"}
    BY <2>3, <2>4 DEF Faithful, Filled
  <2>6. parts["contributors"] = "value"
    BY <2>1, <2>3, <2>4, <2>5 DEF Faithful
  <2>7. QED
    BY <2>3, <2>4, <2>6 DEF Faithful
<1>2. QED
  BY <1>1, CollectionInvStarts, CollectionInvSteps, PTL DEF CollectionSpec

-----------------------------------------------------------------------------
(* ResumeFiles *)

\* The process runs a command.
Live(p) == proc[p].pc \notin {"idle", "dead"}

\* The places a command goes through, and what a process holds there
Places(command) == CASE command = "gen" -> {"gen", "spec", "render", "acquire", "stale", "locked", "write",
                                            "unlock", "replace"}
                     [] command = "remove" -> {"remove", "removed", "acquire", "stale", "locked", "write",
                                               "unlock"}
                     [] command = "rebuild" -> {"rebuild", "acquire", "stale", "locked", "unlock"}
                     [] command = "none" -> {"idle"}

\* All of them, and what a process remembers
AllPlaces == {"idle", "dead", "gen", "spec", "render", "acquire", "stale", "locked", "write", "unlock",
              "replace", "remove", "removed", "rebuild"}

Commands == [pc : AllPlaces, command : {"none", "gen", "remove", "rebuild"},
             applicant : ResumeApplicants \cup {"none"}, rows : SUBSET ResumeApplicants]

\* The files, the lock and the processes are of their types.
FilesOK == /\ spec \in [ResumeApplicants -> {"none", "whole", "torn"}]
           /\ pdf \subseteq ResumeApplicants /\ done \subseteq ResumeApplicants
           /\ csv \subseteq ResumeApplicants /\ passedOver \subseteq ResumeApplicants
           /\ lock \in Processes \cup {NoLock}
           /\ proc \in [Processes -> Commands]

\* A process is at a place of its command.
PlaceOK(p) == /\ Doing(p, "dead") \/ proc[p].pc \in Places(proc[p].command)
              /\ proc[p].command \in {"gen", "remove"} => Who(p) \in ResumeApplicants

\* remove and manifest run beside no other command.
AloneOK(p) == Live(p) /\ proc[p].command # "gen" => Alone(p)

\* Who has the lock is who the lock file names.
LockOK(p) == proc[p].pc \in {"locked", "write", "unlock"} => lock = p

\* gen has the manifest's rows and its own in memory, a spec on disk from its first
\* write on, and its row in the manifest before the PDF (publish).
GenOK(p) == Live(p) /\ proc[p].command = "gen" =>
    /\ proc[p].pc = "write" => proc[p].rows = csv \cup {Who(p)}
    /\ proc[p].pc # "gen" => spec[Who(p)] # "none"
    /\ proc[p].pc \in {"unlock", "replace"} => Who(p) \in csv \cup passedOver

\* remove takes the row after the PDF is gone (remove).
RemoveOK(p) == Live(p) /\ proc[p].command = "remove" =>
    /\ proc[p].pc = "write" => proc[p].rows = csv \ {Who(p)}
    /\ proc[p].pc # "remove" => Who(p) \notin pdf \cup done

\* manifest writes a row for every spec it can read (cmd_manifest).
RebuildOK(p) == Live(p) /\ proc[p].command = "rebuild" =>
    (proc[p].pc \in {"acquire", "stale", "locked"} =>
          proc[p].rows = {a \in ResumeApplicants : spec[a] = "whole"})

\* What has a PDF, or was finished, has its row and a spec.
KeptOK == \A a \in pdf \cup done : a \in csv \cup passedOver /\ spec[a] # "none"

ProcessOK(p) == PlaceOK(p) /\ AloneOK(p) /\ LockOK(p) /\ GenOK(p) /\ RemoveOK(p) /\ RebuildOK(p)

\* What holds as long as every lock that was broken was a dead process's
ResumeInv == FilesOK /\ (\A p \in Processes : ProcessOK(p)) /\ KeptOK

\* The inductive invariant: it holds until a live owner's lock is broken.
UntilUsurped == /\ usurped \in BOOLEAN
                /\ usurped \/ ResumeInv

\* One process goes to another place with these rows.
Moved(p, pc, rows) ==
    /\ proc' \in [Processes -> Commands]
    /\ proc'[p].pc = pc /\ proc'[p].rows = rows
    /\ proc'[p].command = proc[p].command /\ proc'[p].applicant = proc[p].applicant
    /\ \A q \in Processes \ {p} : proc'[q] = proc[q]

\* One process is done with its command.
Over(p) ==
    /\ proc' \in [Processes -> Commands]
    /\ proc'[p].pc = "idle" /\ proc'[p].command = "none"
    /\ \A q \in Processes \ {p} : proc'[q] = proc[q]

\* Proceed is such a step.
LEMMA ProceedMoves == ASSUME proc \in [Processes -> Commands], NEW p \in Processes, NEW pc \in AllPlaces,
                             Proceed(p, pc)
                      PROVE  Moved(p, pc, proc[p].rows)
<1>1. PICK c \in Commands : c = proc[p]
  OBVIOUS
<1>2. [c EXCEPT !.pc = pc] \in Commands
  BY DEF Commands
<1>3. proc' = [proc EXCEPT ![p] = [c EXCEPT !.pc = pc]]
  BY <1>1 DEF Proceed
<1>4. proc'[p] = [c EXCEPT !.pc = pc]
  BY <1>3
<1>5. QED
  BY <1>1, <1>2, <1>3, <1>4 DEF Moved, Commands

\* So is Finish.
LEMMA FinishEnds ==
    ASSUME proc \in [Processes -> Commands], NEW p \in Processes, Finish(p)
    PROVE  Over(p)
<1>1. NoCommand \in Commands
  <2>1. {} \in SUBSET ResumeApplicants /\ "none" \in ResumeApplicants \cup {"none"}
    OBVIOUS
  <2>2. QED
    BY <2>1 DEF NoCommand, Commands, AllPlaces
<1>2. proc' = [proc EXCEPT ![p] = NoCommand]
  BY DEF Finish
<1>3. proc'[p] = NoCommand
  BY <1>2
<1>4. QED
  BY <1>1, <1>2, <1>3 DEF Over, NoCommand

\* So is a step that reads rows.
LEMMA RowsMove == ASSUME proc \in [Processes -> Commands], NEW p \in Processes, NEW pc \in AllPlaces,
                         NEW rows \in SUBSET ResumeApplicants,
                         proc' = [proc EXCEPT ![p].pc = pc, ![p].rows = rows]
                  PROVE  Moved(p, pc, rows)
<1>1. PICK c \in Commands : c = proc[p]
  OBVIOUS
<1>2. [c EXCEPT !.pc = pc, !.rows = rows] \in Commands
  BY DEF Commands
<1>3. proc' = [proc EXCEPT ![p] = [c EXCEPT !.pc = pc, !.rows = rows]]
  BY <1>1
<1>4. proc'[p] = [c EXCEPT !.pc = pc, !.rows = rows]
  BY <1>3
<1>5. QED
  BY <1>1, <1>2, <1>3, <1>4 DEF Moved, Commands

\* The spec is opened and empty: no PDF of the applicant is lost by that, and no
\* rebuild runs that would read it.
LEMMA OpenSpecKeeps ==
    ASSUME ~ RemoveBesideGen, ResumeInv, NEW p \in Processes, OpenSpec(p)
    PROVE  ResumeInv'
<1>1. FilesOK /\ KeptOK /\ \A q \in Processes : ProcessOK(q)
  BY DEF ResumeInv
<1>2. Moved(p, "spec", proc[p].rows)
  <2>1. proc \in [Processes -> Commands]
    BY <1>1 DEF FilesOK
  <2>2. Proceed(p, "spec")
    BY DEF OpenSpec
  <2>3. QED
    BY <2>1, <2>2, ProceedMoves DEF AllPlaces
<1>3. FilesOK'
  BY <1>1, <1>2 DEF FilesOK, OpenSpec, Moved
<1>4. KeptOK'
  BY <1>1, <1>2 DEF OpenSpec, KeptOK
<1>5. ASSUME NEW q \in Processes PROVE ProcessOK(q)'
  <2>1. PlaceOK(q)'
    BY <1>1, <1>2 DEF Commands, OpenSpec, Doing, Who, Places, Moved, ProcessOK, PlaceOK
  <2>2. AloneOK(q)'
    BY <1>1, <1>2 DEF OpenSpec, Doing, Live, Moved, ProcessOK, AloneOK, Alone
  <2>3. LockOK(q)'
    BY <1>1, <1>2 DEF OpenSpec, Moved, ProcessOK, LockOK
  <2>4. GenOK(q)'
    BY <1>1, <1>2 DEF FilesOK, OpenSpec, Who, Live, Moved, ProcessOK, PlaceOK, GenOK
  <2>5. RemoveOK(q)'
    BY <1>1, <1>2
       DEF OpenSpec, Doing, Live, Places, Moved, ProcessOK, PlaceOK, AloneOK, Alone, RemoveOK
  <2>6. RebuildOK(q)'
    BY <1>1, <1>2 DEF OpenSpec, Doing, Live, Moved, ProcessOK, AloneOK, Alone, RebuildOK
  <2>7. QED
    BY <2>1, <2>2, <2>3, <2>4, <2>5, <2>6 DEF ProcessOK
<1>6. QED
  BY <1>3, <1>4, <1>5 DEF ResumeInv

\* The spec is whole again.
LEMMA FillSpecKeeps ==
    ASSUME ~ RemoveBesideGen, ResumeInv, NEW p \in Processes, FillSpec(p)
    PROVE  ResumeInv'
<1>1. FilesOK /\ KeptOK /\ \A q \in Processes : ProcessOK(q)
  BY DEF ResumeInv
<1>2. Moved(p, "render", proc[p].rows)
  <2>1. proc \in [Processes -> Commands]
    BY <1>1 DEF FilesOK
  <2>2. Proceed(p, "render")
    BY DEF FillSpec
  <2>3. QED
    BY <2>1, <2>2, ProceedMoves DEF AllPlaces
<1>3. FilesOK'
  BY <1>1, <1>2 DEF FilesOK, FillSpec, Moved
<1>4. KeptOK'
  BY <1>1, <1>2 DEF FillSpec, KeptOK
<1>5. ASSUME NEW q \in Processes PROVE ProcessOK(q)'
  <2>1. PlaceOK(q)'
    BY <1>1, <1>2, SMTT(30) DEF Commands, FillSpec, Doing, Who, Places, Moved, ProcessOK, PlaceOK
  <2>2. AloneOK(q)'
    BY <1>1, <1>2 DEF FillSpec, Doing, Live, Moved, ProcessOK, AloneOK, Alone
  <2>3. LockOK(q)'
    BY <1>1, <1>2 DEF FillSpec, Moved, ProcessOK, LockOK
  <2>4. GenOK(q)'
    BY <1>1, <1>2 DEF FillSpec, Doing, Who, Live, Moved, ProcessOK, GenOK
  <2>5. RemoveOK(q)'
    BY <1>1, <1>2
       DEF FillSpec, Doing, Live, Places, Moved, ProcessOK, PlaceOK, AloneOK, Alone, RemoveOK
  <2>6. RebuildOK(q)'
    BY <1>1, <1>2 DEF FillSpec, Doing, Live, Moved, ProcessOK, AloneOK, Alone, RebuildOK
  <2>7. QED
    BY <2>1, <2>2, <2>3, <2>4, <2>5, <2>6 DEF ProcessOK
<1>6. QED
  BY <1>3, <1>4, <1>5 DEF ResumeInv

\* A PDF that is not yet in place has no row to have.
LEMMA RenderKeeps ==
    ASSUME ~ RemoveBesideGen, ResumeInv, NEW p \in Processes, Render(p)
    PROVE  ResumeInv'
<1>1. FilesOK /\ KeptOK /\ \A q \in Processes : ProcessOK(q)
  BY DEF ResumeInv
<1>2. Moved(p, "acquire", proc[p].rows)
  <2>1. proc \in [Processes -> Commands]
    BY <1>1 DEF FilesOK
  <2>2. Proceed(p, "acquire")
    BY DEF Render
  <2>3. QED
    BY <2>1, <2>2, ProceedMoves DEF AllPlaces
<1>3. FilesOK'
  BY <1>1, <1>2 DEF FilesOK, Render, Moved
<1>4. KeptOK'
  BY <1>1, <1>2 DEF Render, KeptOK
<1>5. ASSUME NEW q \in Processes PROVE ProcessOK(q)'
  <2>1. PlaceOK(q)'
    BY <1>1, <1>2 DEF Commands, Render, Doing, Who, Places, Moved, ProcessOK, PlaceOK
  <2>2. AloneOK(q)'
    BY <1>1, <1>2 DEF Render, Doing, Live, Moved, ProcessOK, AloneOK, Alone
  <2>3. LockOK(q)'
    BY <1>1, <1>2 DEF Render, Moved, ProcessOK, LockOK
  <2>4. GenOK(q)'
    BY <1>1, <1>2 DEF Render, Doing, Who, Live, Moved, ProcessOK, GenOK
  <2>5. RemoveOK(q)'
    BY <1>1, <1>2
       DEF Render, Doing, Live, Places, Moved, ProcessOK, PlaceOK, AloneOK, Alone, RemoveOK
  <2>6. RebuildOK(q)'
    BY <1>1, <1>2 DEF Render, Doing, Live, Places, Moved, ProcessOK, PlaceOK, RebuildOK
  <2>7. QED
    BY <2>1, <2>2, <2>3, <2>4, <2>5, <2>6 DEF ProcessOK
<1>6. QED
  BY <1>3, <1>4, <1>5 DEF ResumeInv

\* Whoever takes the lock finds it free.
LEMMA AcquireKeeps ==
    ASSUME ~ RemoveBesideGen, ResumeInv, NEW p \in Processes, Acquire(p)
    PROVE  ResumeInv'
<1>1. FilesOK /\ KeptOK /\ \A q \in Processes : ProcessOK(q)
  BY DEF ResumeInv
<1>2. Moved(p, "locked", proc[p].rows)
  <2>1. proc \in [Processes -> Commands]
    BY <1>1 DEF FilesOK
  <2>2. Proceed(p, "locked")
    BY DEF Acquire
  <2>3. QED
    BY <2>1, <2>2, ProceedMoves DEF AllPlaces
<1>3. FilesOK'
  BY <1>1, <1>2 DEF FilesOK, Acquire, Moved
<1>4. KeptOK'
  BY <1>1, <1>2 DEF Acquire, KeptOK
<1>5. ASSUME NEW q \in Processes PROVE ProcessOK(q)'
  <2>1. PlaceOK(q)'
    BY <1>1, <1>2 DEF Commands, Acquire, Doing, Who, Places, Moved, ProcessOK, PlaceOK
  <2>2. AloneOK(q)'
    BY <1>1, <1>2 DEF Acquire, Doing, Live, Moved, ProcessOK, AloneOK, Alone
  <2>3. LockOK(q)'
    BY <1>1, <1>2, ProcessesAssumption DEF Acquire, Moved, ProcessOK, LockOK
  <2>4. GenOK(q)'
    BY <1>1, <1>2 DEF Acquire, Doing, Who, Live, Moved, ProcessOK, GenOK
  <2>5. RemoveOK(q)'
    BY <1>1, <1>2 DEF Acquire, Doing, Who, Live, Moved, ProcessOK, RemoveOK
  <2>6. RebuildOK(q)'
    BY <1>1, <1>2 DEF Acquire, Doing, Live, Moved, ProcessOK, RebuildOK
  <2>7. QED
    BY <2>1, <2>2, <2>3, <2>4, <2>5, <2>6 DEF ProcessOK
<1>6. QED
  BY <1>3, <1>4, <1>5 DEF ResumeInv

\* Looking at the lock changes no file.
LEMMA FindStaleKeeps ==
    ASSUME ~ RemoveBesideGen, ResumeInv, NEW p \in Processes, FindStale(p)
    PROVE  ResumeInv'
<1>1. FilesOK /\ KeptOK /\ \A q \in Processes : ProcessOK(q)
  BY DEF ResumeInv
<1>2. Moved(p, "stale", proc[p].rows)
  <2>1. proc \in [Processes -> Commands]
    BY <1>1 DEF FilesOK
  <2>2. Proceed(p, "stale")
    BY DEF FindStale
  <2>3. QED
    BY <2>1, <2>2, ProceedMoves DEF AllPlaces
<1>3. FilesOK'
  BY <1>1, <1>2 DEF files, FilesOK, FindStale, Moved
<1>4. KeptOK'
  BY <1>1, <1>2 DEF files, FindStale, KeptOK
<1>5. ASSUME NEW q \in Processes PROVE ProcessOK(q)'
  <2>1. PlaceOK(q)'
    BY <1>1, <1>2 DEF Commands, FindStale, Doing, Who, Places, Moved, ProcessOK, PlaceOK
  <2>2. AloneOK(q)'
    BY <1>1, <1>2 DEF FindStale, Doing, Live, Moved, ProcessOK, AloneOK, Alone
  <2>3. LockOK(q)'
    BY <1>1, <1>2 DEF files, FindStale, Doing, Moved, ProcessOK, LockOK
  <2>4. GenOK(q)'
    BY <1>1, <1>2 DEF files, FindStale, Doing, Who, Live, Moved, ProcessOK, GenOK
  <2>5. RemoveOK(q)'
    BY <1>1, <1>2 DEF files, FindStale, Doing, Who, Live, Moved, ProcessOK, RemoveOK
  <2>6. RebuildOK(q)'
    BY <1>1, <1>2 DEF files, FindStale, Doing, Live, Moved, ProcessOK, RebuildOK
  <2>7. QED
    BY <2>1, <2>2, <2>3, <2>4, <2>5, <2>6 DEF ProcessOK
<1>6. QED
  BY <1>3, <1>4, <1>5 DEF ResumeInv

\* The lock that is broken is nobody's who is alive.
LEMMA BreakLockKeeps ==
    ASSUME ~ RemoveBesideGen, ResumeInv, NEW p \in Processes, BreakLock(p), ~ usurped'
    PROVE  ResumeInv'
<1>1. FilesOK /\ KeptOK /\ \A q \in Processes : ProcessOK(q)
  BY DEF ResumeInv
<1>2. Moved(p, "acquire", proc[p].rows)
  <2>1. proc \in [Processes -> Commands]
    BY <1>1 DEF FilesOK
  <2>2. Proceed(p, "acquire")
    BY DEF BreakLock
  <2>3. QED
    BY <2>1, <2>2, ProceedMoves DEF AllPlaces
<1>3. FilesOK'
  BY <1>1, <1>2 DEF FilesOK, BreakLock, Moved
<1>4. KeptOK'
  BY <1>1, <1>2 DEF BreakLock, KeptOK
<1>5. ASSUME NEW q \in Processes PROVE ProcessOK(q)'
  <2>1. PlaceOK(q)'
    BY <1>1, <1>2 DEF Commands, BreakLock, Doing, Who, Places, Moved, ProcessOK, PlaceOK
  <2>2. AloneOK(q)'
    BY <1>1, <1>2 DEF BreakLock, Doing, Live, Moved, ProcessOK, AloneOK, Alone
  <2>3. LockOK(q)'
    <3>1. lock = NoLock \/ Doing(lock, "dead")
      BY Zenon DEF BreakLock
    <3>2. lock # q \/ q \notin Processes \/ Doing(q, "dead")
      BY <3>1, ProcessesAssumption
    <3>3. QED
      BY <1>1, <1>2, <3>2 DEF BreakLock, Doing, Moved, ProcessOK, LockOK
  <2>4. GenOK(q)'
    BY <1>1, <1>2 DEF BreakLock, Doing, Who, Live, Moved, ProcessOK, GenOK
  <2>5. RemoveOK(q)'
    BY <1>1, <1>2 DEF BreakLock, Doing, Who, Live, Moved, ProcessOK, RemoveOK
  <2>6. RebuildOK(q)'
    BY <1>1, <1>2 DEF BreakLock, Doing, Live, Moved, ProcessOK, RebuildOK
  <2>7. QED
    BY <2>1, <2>2, <2>3, <2>4, <2>5, <2>6 DEF ProcessOK
<1>6. QED
  BY <1>3, <1>4, <1>5 DEF ResumeInv

\* A gen that gives up leaves the earlier PDF, which has the row of the earlier gen.
LEMMA GiveUpKeeps ==
    ASSUME ~ RemoveBesideGen, ResumeInv, NEW p \in Processes, GiveUp(p)
    PROVE  ResumeInv'
<1>1. FilesOK /\ KeptOK /\ \A q \in Processes : ProcessOK(q)
  BY DEF ResumeInv
<1>2. Over(p)
  <2>1. proc \in [Processes -> Commands]
    BY <1>1 DEF FilesOK
  <2>2. Finish(p)
    BY DEF GiveUp, Failed
  <2>3. QED
    BY <2>1, <2>2, FinishEnds
<1>3. FilesOK'
  BY <1>1, <1>2 DEF FilesOK, GiveUp, Over
<1>4. KeptOK'
  BY <1>1, <1>2 DEF GiveUp, KeptOK
<1>5. ASSUME NEW q \in Processes PROVE ProcessOK(q)'
  <2>1. PlaceOK(q)'
    BY <1>1, <1>2 DEF Doing, Who, Places, Over, ProcessOK, PlaceOK
  <2>2. AloneOK(q)'
    BY <1>1, <1>2 DEF Live, Over, ProcessOK, AloneOK, Alone
  <2>3. LockOK(q)'
    BY <1>1, <1>2 DEF GiveUp, Over, ProcessOK, LockOK
  <2>4. GenOK(q)'
    BY <1>1, <1>2 DEF GiveUp, Who, Live, Over, ProcessOK, GenOK
  <2>5. RemoveOK(q)'
    BY <1>1, <1>2 DEF GiveUp, Who, Live, Over, ProcessOK, RemoveOK
  <2>6. RebuildOK(q)'
    BY <1>1, <1>2 DEF GiveUp, Live, Over, ProcessOK, RebuildOK
  <2>7. QED
    BY <2>1, <2>2, <2>3, <2>4, <2>5, <2>6 DEF ProcessOK
<1>6. QED
  BY <1>3, <1>4, <1>5 DEF ResumeInv

\* The rows are read under the lock.
LEMMA LoadRowsKeeps ==
    ASSUME ~ RemoveBesideGen, ResumeInv, NEW p \in Processes, LoadRows(p)
    PROVE  ResumeInv'
<1>1. FilesOK /\ KeptOK /\ \A q \in Processes : ProcessOK(q)
  BY DEF ResumeInv
<1>2. Moved(p, "write", IF proc[p].command = "gen" THEN csv \cup {Who(p)} ELSE csv \ {Who(p)})
  <2>1. proc \in [Processes -> Commands]
    BY <1>1 DEF FilesOK
  <2>2. PICK rows : rows = IF proc[p].command = "gen" THEN csv \cup {Who(p)} ELSE csv \ {Who(p)}
    OBVIOUS
  <2>3. rows \in SUBSET ResumeApplicants
    BY <1>1, <2>2 DEF FilesOK, LoadRows, Commands
  <2>4. proc' = [proc EXCEPT ![p].pc = "write", ![p].rows = rows]
    BY <2>2 DEF LoadRows, Who
  <2>5. Moved(p, "write", rows)
    BY <2>1, <2>3, <2>4, RowsMove DEF AllPlaces
  <2>6. QED
    BY <2>2, <2>5
<1>3. FilesOK'
  BY <1>1, <1>2 DEF files, FilesOK, LoadRows, Moved
<1>4. KeptOK'
  BY <1>1, <1>2 DEF files, LoadRows, KeptOK
<1>5. ASSUME NEW q \in Processes PROVE ProcessOK(q)'
  <2>1. PlaceOK(q)'
    BY <1>1, <1>2 DEF Commands, FilesOK, LoadRows, Doing, Who, Places, ProcessOK, PlaceOK
  <2>2. AloneOK(q)'
    BY <1>1, <1>2 DEF LoadRows, Doing, Live, Moved, ProcessOK, AloneOK, Alone
  <2>3. LockOK(q)'
    BY <1>1, <1>2 DEF files, LoadRows, Doing, Moved, ProcessOK, LockOK
  <2>4. GenOK(q)'
    BY <1>1, <1>2 DEF files, LoadRows, Doing, Who, Live, Moved, ProcessOK, GenOK
  <2>5. RemoveOK(q)'
    BY <1>1, <1>2 DEF files, LoadRows, Doing, Who, Live, Moved, ProcessOK, RemoveOK
  <2>6. RebuildOK(q)'
    BY <1>1, <1>2 DEF LoadRows, Doing, Live, Moved, ProcessOK, AloneOK, Alone, RebuildOK
  <2>7. QED
    BY <2>1, <2>2, <2>3, <2>4, <2>5, <2>6 DEF ProcessOK
<1>6. QED
  BY <1>3, <1>4, <1>5 DEF ResumeInv

\* The rows that are written are those read under the lock, and the one added or
\* removed.
LEMMA WriteRowsKeeps ==
    ASSUME ~ RemoveBesideGen, ResumeInv, NEW p \in Processes, WriteRows(p)
    PROVE  ResumeInv'
<1>1. FilesOK /\ KeptOK /\ \A q \in Processes : ProcessOK(q)
  BY DEF ResumeInv
<1>2. Moved(p, "unlock", proc[p].rows)
  <2>1. proc \in [Processes -> Commands]
    BY <1>1 DEF FilesOK
  <2>2. Proceed(p, "unlock")
    BY DEF WriteRows
  <2>3. QED
    BY <2>1, <2>2, ProceedMoves DEF AllPlaces
<1>3. FilesOK'
  BY <1>1, <1>2 DEF Commands, FilesOK, WriteRows, Moved
<1>4. KeptOK'
  BY <1>1, <1>2
     DEF Commands, FilesOK, WriteRows, Doing, Live, Places, ProcessOK, PlaceOK, KeptOK, GenOK,
         RemoveOK, RebuildOK
<1>5. ASSUME NEW q \in Processes PROVE ProcessOK(q)'
  <2>1. PlaceOK(q)'
    BY <1>1, <1>2 DEF Commands, WriteRows, Doing, Who, Places, Moved, ProcessOK, PlaceOK
  <2>2. AloneOK(q)'
    BY <1>1, <1>2 DEF WriteRows, Doing, Live, Moved, ProcessOK, AloneOK, Alone
  <2>3. LockOK(q)'
    BY <1>1, <1>2 DEF WriteRows, Doing, Moved, ProcessOK, LockOK
  <2>4. GenOK(q)'
    BY <1>1, <1>2 DEF WriteRows, Doing, Who, Live, Moved, ProcessOK, AloneOK, Alone, LockOK, GenOK
  <2>5. RemoveOK(q)'
    BY <1>1, <1>2 DEF WriteRows, Doing, Who, Live, Moved, ProcessOK, LockOK, RemoveOK
  <2>6. RebuildOK(q)'
    BY <1>1, <1>2 DEF WriteRows, Live, Moved, ProcessOK, RebuildOK
  <2>7. QED
    BY <2>1, <2>2, <2>3, <2>4, <2>5, <2>6 DEF ProcessOK
<1>6. QED
  BY <1>3, <1>4, <1>5 DEF ResumeInv

\* The lock is given up after the rows are written.
LEMMA UnlockKeeps ==
    ASSUME ~ RemoveBesideGen, ResumeInv, NEW p \in Processes, Unlock(p)
    PROVE  ResumeInv'
<1>1. FilesOK /\ KeptOK /\ \A q \in Processes : ProcessOK(q)
  BY DEF ResumeInv
<1>2. IF proc[p].command = "gen" THEN Moved(p, "replace", proc[p].rows) ELSE Over(p)
  <2>1. proc \in [Processes -> Commands]
    BY <1>1 DEF FilesOK
  <2>2. CASE proc[p].command = "gen"
    <3>1. Proceed(p, "replace")
      BY <2>2 DEF Unlock
    <3>2. QED
      BY <2>1, <2>2, <3>1, ProceedMoves DEF AllPlaces
  <2>3. CASE proc[p].command # "gen"
    <3>1. Finish(p)
      BY <2>3 DEF Unlock
    <3>2. QED
      BY <2>1, <2>3, <3>1, FinishEnds
  <2>4. QED
    BY <2>2, <2>3
<1>3. FilesOK'
  BY <1>1, <1>2 DEF FilesOK, Unlock, Moved, Over
<1>4. KeptOK'
  BY <1>1, <1>2 DEF Unlock, KeptOK
<1>5. ASSUME NEW q \in Processes PROVE ProcessOK(q)'
  <2>1. PlaceOK(q)'
    BY <1>1, <1>2 DEF Doing, Who, Places, Moved, Over, ProcessOK, PlaceOK
  <2>2. AloneOK(q)'
    BY <1>1, <1>2 DEF Unlock, Doing, Live, Moved, Over, ProcessOK, AloneOK, Alone
  <2>3. LockOK(q)'
    BY <1>1, <1>2 DEF Unlock, Doing, Moved, Over, ProcessOK, LockOK
  <2>4. GenOK(q)'
    BY <1>1, <1>2 DEF Unlock, Doing, Who, Live, Moved, Over, ProcessOK, GenOK
  <2>5. RemoveOK(q)'
    BY <1>1, <1>2 DEF Unlock, Who, Live, Moved, Over, ProcessOK, RemoveOK
  <2>6. RebuildOK(q)'
    BY <1>1, <1>2 DEF Unlock, Live, Moved, Over, ProcessOK, RebuildOK
  <2>7. QED
    BY <2>1, <2>2, <2>3, <2>4, <2>5, <2>6 DEF ProcessOK
<1>6. QED
  BY <1>3, <1>4, <1>5 DEF ResumeInv

\* The PDF takes its place after its row.
LEMMA ReplacePdfKeeps ==
    ASSUME ~ RemoveBesideGen, ResumeInv, NEW p \in Processes, ReplacePdf(p)
    PROVE  ResumeInv'
<1>1. FilesOK /\ KeptOK /\ \A q \in Processes : ProcessOK(q)
  BY DEF ResumeInv
<1>2. Over(p)
  <2>1. proc \in [Processes -> Commands]
    BY <1>1 DEF FilesOK
  <2>2. Finish(p)
    BY DEF ReplacePdf, Failed
  <2>3. QED
    BY <2>1, <2>2, FinishEnds
<1>3. FilesOK'
  BY <1>1, <1>2 DEF Commands, FilesOK, ReplacePdf, Doing, Places, Over, ProcessOK, PlaceOK
<1>4. KeptOK'
  BY <1>1, <1>2
     DEF Commands, FilesOK, ReplacePdf, Doing, Who, Live, Places, ProcessOK, PlaceOK, KeptOK,
         GenOK, RemoveOK
<1>5. ASSUME NEW q \in Processes PROVE ProcessOK(q)'
  <2>1. PlaceOK(q)'
    BY <1>1, <1>2 DEF Doing, Who, Places, Over, ProcessOK, PlaceOK
  <2>2. AloneOK(q)'
    BY <1>1, <1>2 DEF Live, Over, ProcessOK, AloneOK, Alone
  <2>3. LockOK(q)'
    BY <1>1, <1>2 DEF ReplacePdf, Over, ProcessOK, LockOK
  <2>4. GenOK(q)'
    BY <1>1, <1>2 DEF ReplacePdf, Who, Live, Over, ProcessOK, GenOK
  <2>5. RemoveOK(q)'
    BY <1>1, <1>2 DEF ReplacePdf, Doing, Live, Over, ProcessOK, AloneOK, Alone, RemoveOK
  <2>6. RebuildOK(q)'
    BY <1>1, <1>2 DEF ReplacePdf, Live, Over, ProcessOK, RebuildOK
  <2>7. QED
    BY <2>1, <2>2, <2>3, <2>4, <2>5, <2>6 DEF ProcessOK
<1>6. QED
  BY <1>3, <1>4, <1>5 DEF ResumeInv

\* The PDF goes before its row and its spec.
LEMMA RemovePdfKeeps ==
    ASSUME ~ RemoveBesideGen, ResumeInv, NEW p \in Processes, RemovePdf(p)
    PROVE  ResumeInv'
<1>1. FilesOK /\ KeptOK /\ \A q \in Processes : ProcessOK(q)
  BY DEF ResumeInv
<1>2. Moved(p, "removed", proc[p].rows)
  <2>1. proc \in [Processes -> Commands]
    BY <1>1 DEF FilesOK
  <2>2. Proceed(p, "removed")
    BY DEF RemovePdf
  <2>3. QED
    BY <2>1, <2>2, ProceedMoves DEF AllPlaces
<1>3. FilesOK'
  BY <1>1, <1>2 DEF FilesOK, RemovePdf, Moved
<1>4. KeptOK'
  BY <1>1, <1>2 DEF RemovePdf, KeptOK
<1>5. ASSUME NEW q \in Processes PROVE ProcessOK(q)'
  <2>1. PlaceOK(q)'
    BY <1>1, <1>2 DEF Commands, RemovePdf, Doing, Who, Places, Moved, ProcessOK, PlaceOK
  <2>2. AloneOK(q)'
    BY <1>1, <1>2 DEF RemovePdf, Doing, Live, Moved, ProcessOK, AloneOK, Alone
  <2>3. LockOK(q)'
    BY <1>1, <1>2 DEF RemovePdf, Moved, ProcessOK, LockOK
  <2>4. GenOK(q)'
    BY <1>1, <1>2
       DEF RemovePdf, Doing, Live, Places, Moved, ProcessOK, PlaceOK, AloneOK, Alone, GenOK
  <2>5. RemoveOK(q)'
    BY <1>1, <1>2 DEF RemovePdf, Who, Live, Moved, ProcessOK, RemoveOK
  <2>6. RebuildOK(q)'
    BY <1>1, <1>2 DEF RemovePdf, Live, Moved, ProcessOK, RebuildOK
  <2>7. QED
    BY <2>1, <2>2, <2>3, <2>4, <2>5, <2>6 DEF ProcessOK
<1>6. QED
  BY <1>3, <1>4, <1>5 DEF ResumeInv

\* The spec goes when the PDF is gone.
LEMMA RemoveSpecKeeps ==
    ASSUME ~ RemoveBesideGen, ResumeInv, NEW p \in Processes, RemoveSpec(p)
    PROVE  ResumeInv'
<1>1. FilesOK /\ KeptOK /\ \A q \in Processes : ProcessOK(q)
  BY DEF ResumeInv
<1>2. Moved(p, "acquire", proc[p].rows)
  <2>1. proc \in [Processes -> Commands]
    BY <1>1 DEF FilesOK
  <2>2. Proceed(p, "acquire")
    BY DEF RemoveSpec
  <2>3. QED
    BY <2>1, <2>2, ProceedMoves DEF AllPlaces
<1>3. FilesOK'
  BY <1>1, <1>2 DEF FilesOK, RemoveSpec, Moved
<1>4. KeptOK'
  BY <1>1, <1>2, SMTT(30)
     DEF Commands, FilesOK, RemoveSpec, Doing, Live, Places, Moved, ProcessOK, PlaceOK, KeptOK,
         GenOK, RemoveOK, RebuildOK
<1>5. ASSUME NEW q \in Processes PROVE ProcessOK(q)'
  <2>1. PlaceOK(q)'
    BY <1>1, <1>2 DEF Commands, RemoveSpec, Doing, Who, Places, Moved, ProcessOK, PlaceOK
  <2>2. AloneOK(q)'
    BY <1>1, <1>2 DEF RemoveSpec, Doing, Live, Moved, ProcessOK, AloneOK, Alone
  <2>3. LockOK(q)'
    BY <1>1, <1>2 DEF RemoveSpec, Moved, ProcessOK, LockOK
  <2>4. GenOK(q)'
    BY <1>1, <1>2
       DEF RemoveSpec, Doing, Live, Places, Moved, ProcessOK, PlaceOK, AloneOK, Alone, GenOK
  <2>5. RemoveOK(q)'
    BY <1>1, <1>2 DEF RemoveSpec, Doing, Who, Live, Moved, ProcessOK, RemoveOK
  <2>6. RebuildOK(q)'
    BY <1>1, <1>2
       DEF RemoveSpec, Doing, Live, Places, Moved, ProcessOK, PlaceOK, AloneOK, Alone, RebuildOK
  <2>7. QED
    BY <2>1, <2>2, <2>3, <2>4, <2>5, <2>6 DEF ProcessOK
<1>6. QED
  BY <1>3, <1>4, <1>5 DEF ResumeInv

\* manifest reads all specs while no gen runs.
LEMMA ScanKeeps ==
    ASSUME ~ RemoveBesideGen, ResumeInv, NEW p \in Processes, Scan(p)
    PROVE  ResumeInv'
<1>1. FilesOK /\ KeptOK /\ \A q \in Processes : ProcessOK(q)
  BY DEF ResumeInv
<1>2. PICK rows \in SUBSET ResumeApplicants : rows = {a \in ResumeApplicants : spec[a] = "whole"}
  OBVIOUS
<1>3. Moved(p, "acquire", rows)
  <2>1. proc \in [Processes -> Commands]
    BY <1>1 DEF FilesOK
  <2>2. proc' = [proc EXCEPT ![p].pc = "acquire", ![p].rows = rows]
    BY <1>2 DEF Scan
  <2>3. QED
    BY <2>1, <2>2, RowsMove DEF AllPlaces
<1>4. /\ Doing(p, "rebuild") /\ proc[p].command = "rebuild"
      /\ UNCHANGED <<spec, pdf, tmp, csv, lock, passedOver, done>>
  BY <1>1 DEF Scan, files, FilesOK, Commands, ProcessOK, PlaceOK, Places, Doing
<1>5. FilesOK'
  BY <1>1, <1>3, <1>4 DEF FilesOK, Moved
<1>6. KeptOK'
  BY <1>1, <1>3, <1>4 DEF KeptOK
<1>7. ASSUME NEW q \in Processes PROVE ProcessOK(q)'
  <2>1. PlaceOK(q)'
    BY <1>1, <1>3, <1>4 DEF Doing, Who, Places, Moved, ProcessOK, PlaceOK
  <2>2. AloneOK(q)'
    BY <1>1, <1>3, <1>4 DEF Doing, Live, Moved, ProcessOK, AloneOK, Alone
  <2>3. LockOK(q)'
    BY <1>1, <1>3, <1>4 DEF Moved, ProcessOK, LockOK
  <2>4. GenOK(q)'
    BY <1>1, <1>3, <1>4 DEF Who, Live, Moved, ProcessOK, GenOK
  <2>5. RemoveOK(q)'
    BY <1>1, <1>3, <1>4 DEF Who, Live, Moved, ProcessOK, RemoveOK
  <2>6. RebuildOK(q)'
    BY <1>1, <1>2, <1>3, <1>4 DEF Live, Moved, ProcessOK, RebuildOK
  <2>7. QED
    BY <2>1, <2>2, <2>3, <2>4, <2>5, <2>6 DEF ProcessOK
<1>8. QED
  BY <1>5, <1>6, <1>7 DEF ResumeInv

\* A step that fails leaves what was there.
LEMMA RaiseKeeps ==
    ASSUME ~ RemoveBesideGen, ResumeInv, NEW p \in Processes, Raise(p)
    PROVE  ResumeInv'
<1>1. FilesOK /\ KeptOK /\ \A q \in Processes : ProcessOK(q)
  BY DEF ResumeInv
<1>2. Over(p)
  <2>1. proc \in [Processes -> Commands]
    BY <1>1 DEF FilesOK
  <2>2. Finish(p)
    BY DEF Raise, Failed
  <2>3. QED
    BY <2>1, <2>2, FinishEnds
<1>3. FilesOK'
  BY <1>1, <1>2 DEF FilesOK, Raise, Over
<1>4. KeptOK'
  BY <1>1, <1>2 DEF Raise, KeptOK
<1>5. ASSUME NEW q \in Processes PROVE ProcessOK(q)'
  <2>1. PlaceOK(q)'
    BY <1>1, <1>2 DEF Doing, Who, Places, Over, ProcessOK, PlaceOK
  <2>2. AloneOK(q)'
    BY <1>1, <1>2 DEF Live, Over, ProcessOK, AloneOK, Alone
  <2>3. LockOK(q)'
    BY <1>1, <1>2 DEF Raise, Over, ProcessOK, LockOK
  <2>4. GenOK(q)'
    BY <1>1, <1>2 DEF Raise, Who, Live, Over, ProcessOK, GenOK
  <2>5. RemoveOK(q)'
    BY <1>1, <1>2 DEF Raise, Live, Over, ProcessOK, AloneOK, Alone, RemoveOK
  <2>6. RebuildOK(q)'
    BY <1>1, <1>2 DEF Raise, Live, Over, ProcessOK, RebuildOK
  <2>7. QED
    BY <2>1, <2>2, <2>3, <2>4, <2>5, <2>6 DEF ProcessOK
<1>6. QED
  BY <1>3, <1>4, <1>5 DEF ResumeInv

\* A process that dies keeps the lock it has and is never resumed.
LEMMA ProcessDiesKeeps ==
    ASSUME ~ RemoveBesideGen, ResumeInv, NEW p \in Processes, ProcessDies(p)
    PROVE  ResumeInv'
<1>1. FilesOK /\ KeptOK /\ \A q \in Processes : ProcessOK(q)
  BY DEF ResumeInv
<1>2. Moved(p, "dead", proc[p].rows)
  <2>1. proc \in [Processes -> Commands]
    BY <1>1 DEF FilesOK
  <2>2. Proceed(p, "dead")
    BY DEF ProcessDies
  <2>3. QED
    BY <2>1, <2>2, ProceedMoves DEF AllPlaces
<1>3. FilesOK'
  BY <1>1, <1>2 DEF files, FilesOK, ProcessDies, Moved
<1>4. KeptOK'
  BY <1>1, <1>2 DEF files, ProcessDies, KeptOK
<1>5. ASSUME NEW q \in Processes PROVE ProcessOK(q)'
  <2>1. PlaceOK(q)'
    BY <1>1, <1>2 DEF Doing, Who, Moved, ProcessOK, PlaceOK
  <2>2. AloneOK(q)'
    BY <1>1, <1>2 DEF Live, Moved, ProcessOK, AloneOK, Alone
  <2>3. LockOK(q)'
    BY <1>1, <1>2 DEF files, ProcessDies, Moved, ProcessOK, LockOK
  <2>4. GenOK(q)'
    BY <1>1, <1>2 DEF files, ProcessDies, Who, Live, Moved, ProcessOK, GenOK
  <2>5. RemoveOK(q)'
    BY <1>1, <1>2 DEF ProcessDies, Live, Moved, ProcessOK, AloneOK, Alone, RemoveOK
  <2>6. RebuildOK(q)'
    BY <1>1, <1>2 DEF ProcessDies, Live, Moved, ProcessOK, AloneOK, Alone, RebuildOK
  <2>7. QED
    BY <2>1, <2>2, <2>3, <2>4, <2>5, <2>6 DEF ProcessOK
<1>6. QED
  BY <1>3, <1>4, <1>5 DEF ResumeInv

\* A command begins with nothing in memory.
LEMMA BeginKeeps == ASSUME ~ RemoveBesideGen, ResumeInv, NEW p \in Processes,
                           NEW command, NEW a, Begin(p, command, a),
                           \/ command \in {"gen", "remove"} /\ a \in ResumeApplicants
                           \/ command = "rebuild" /\ a = "none"
                    PROVE  ResumeInv'
<1>1. FilesOK /\ KeptOK /\ \A q \in Processes : ProcessOK(q)
  BY DEF ResumeInv
<1>2. PICK c : c = [pc |-> command, command |-> command, applicant |-> a, rows |-> {}]
  OBVIOUS
<1>3. c \in Commands
  <2>1. {} \in SUBSET ResumeApplicants
    OBVIOUS
  <2>2. QED
    BY <1>2, <2>1 DEF Commands, AllPlaces
<1>4. /\ proc' \in [Processes -> Commands] /\ proc'[p] = c
      /\ \A q \in Processes \ {p} : proc'[q] = proc[q]
  BY <1>1, <1>2, <1>3 DEF FilesOK, Begin
<1>5. /\ proc'[p].pc = command /\ proc'[p].command = command /\ proc'[p].applicant = a
      /\ UNCHANGED <<files, passedOver, done>>
  BY <1>2, <1>4 DEF Begin
<1>6. FilesOK' /\ KeptOK'
  BY <1>1, <1>4, <1>5 DEF FilesOK, KeptOK, files
<1>7. ASSUME NEW q \in Processes PROVE ProcessOK(q)'
  <2>1. PlaceOK(q)' /\ LockOK(q)'
    BY <1>1, <1>4, <1>5 DEF ProcessOK, PlaceOK, LockOK, Doing, Who, Places, files
  <2>2. AloneOK(q)'
    BY <1>1, <1>4, <1>5 DEF Begin, MayBegin, ProcessOK, PlaceOK, Places, Doing, AloneOK, Alone, Live
  <2>3. GenOK(q)' /\ RemoveOK(q)' /\ RebuildOK(q)'
    BY <1>1, <1>4, <1>5 DEF ProcessOK, GenOK, RemoveOK, RebuildOK, Live, Who, files
  <2>4. QED
    BY <2>1, <2>2, <2>3 DEF ProcessOK
<1>8. QED
  BY <1>6, <1>7 DEF ResumeInv

\* No command runs yet.
LEMMA ResumeInvStarts == ResumeInit => ResumeInv
<1>1. SUFFICES ASSUME ResumeInit PROVE ResumeInv
  OBVIOUS
<1>2. NoCommand \in Commands
  <2>1. {} \in SUBSET ResumeApplicants /\ "none" \in ResumeApplicants \cup {"none"}
    OBVIOUS
  <2>2. QED
    BY <2>1 DEF NoCommand, Commands, AllPlaces
<1>3. \A p \in Processes : proc[p] = NoCommand
  BY <1>1 DEF ResumeInit
<1>4. FilesOK /\ KeptOK
  BY <1>1, <1>2 DEF ResumeInit, FilesOK, KeptOK
<1>5. ASSUME NEW p \in Processes PROVE ProcessOK(p)
  BY <1>3
     DEF NoCommand, ProcessOK, PlaceOK, AloneOK, LockOK, GenOK, RemoveOK, RebuildOK, Live, Places
<1>6. QED
  BY <1>4, <1>5 DEF ResumeInv

\* Every step of every process keeps it unless the step breaks a live owner's lock.
LEMMA ResumeInvSteps ==
    ASSUME ~ RemoveBesideGen, ResumeInv, ~ usurped', [ResumeNext]_resumeVars
    PROVE  ResumeInv'
<1>1. CASE UNCHANGED resumeVars
  <2>1. FilesOK' /\ KeptOK'
    BY <1>1 DEF ResumeInv, FilesOK, KeptOK, resumeVars
  <2>2. ASSUME NEW p \in Processes PROVE ProcessOK(p)'
    BY <1>1
       DEF ResumeInv, ProcessOK, PlaceOK, AloneOK, Alone, LockOK, GenOK, RemoveOK, RebuildOK,
           Live,
                Doing, Who, resumeVars
  <2>3. QED
    BY <2>1, <2>2 DEF ResumeInv
<1>2. ASSUME NEW p \in Processes, NEW a \in ResumeApplicants, Begin(p, "gen", a) \/ Begin(p, "remove", a)
      PROVE  ResumeInv'
  BY <1>2, BeginKeeps
<1>3. ASSUME NEW p \in Processes, Begin(p, "rebuild", "none")
      PROVE  ResumeInv'
  BY <1>3, BeginKeeps
<1>4. QED
  BY <1>1, <1>2, <1>3, OpenSpecKeeps, FillSpecKeeps, RenderKeeps, AcquireKeeps, FindStaleKeeps,
     BreakLockKeeps, GiveUpKeeps, LoadRowsKeeps, WriteRowsKeeps, UnlockKeeps, ReplacePdfKeeps,
     RemovePdfKeeps, RemoveSpecKeeps, ScanKeeps, RaiseKeeps, ProcessDiesKeeps
  DEF ResumeNext

\* That a live owner lost its lock is not forgotten.
LEMMA UsurpedStays ==
    ASSUME usurped \in BOOLEAN, [ResumeNext]_resumeVars
    PROVE  usurped' \in BOOLEAN /\ (usurped => usurped')
<1>1. ASSUME NEW p \in Processes, BreakLock(p)
      PROVE  usurped' \in BOOLEAN /\ (usurped => usurped')
  BY <1>1, Zenon DEF BreakLock
<1>2. ASSUME UNCHANGED usurped
      PROVE  usurped' \in BOOLEAN /\ (usurped => usurped')
  BY <1>2
<1>3. (\E p \in Processes : BreakLock(p)) \/ UNCHANGED usurped
  BY DEF ResumeNext, resumeVars, Begin, OpenSpec, FillSpec, Render, Acquire, FindStale, GiveUp,
         LoadRows, WriteRows, Unlock, ReplacePdf, RemovePdf, RemoveSpec, Scan, Raise, ProcessDies
<1>4. QED
  BY <1>1, <1>2, <1>3

\* Whatever any number of gens do side by side, fail, die or time out, and whatever is
\* removed or rebuilt in between: until a lock is broken whose owner lives on, the
\* files are as ResumeInv says.
LEMMA FilesStayPaired ==
    ASSUME ~ RemoveBesideGen
    PROVE  ResumeSpec => []UntilUsurped
<1>1. ResumeInit => UntilUsurped
  BY ResumeInvStarts DEF ResumeInit, UntilUsurped
<1>2. UntilUsurped /\ [ResumeNext]_resumeVars => UntilUsurped'
  BY UsurpedStays, ResumeInvSteps DEF UntilUsurped
<1>3. QED
  BY <1>1, <1>2, PTL DEF ResumeSpec

\* With no remove or rebuild beside another command, and any number of processes that
\* fail, die or time out: every PDF has its row until a lock is broken whose owner
\* lives on (publish, upsert, _locked).
THEOREM PdfHasRowHolds ==
    ASSUME ~ RemoveBesideGen PROVE ResumeSpec => []PdfHasRow
<1>1. UntilUsurped => PdfHasRow
  BY DEF UntilUsurped, ResumeInv, KeptOK, PdfHasRow
<1>2. QED
  BY <1>1, FilesStayPaired, PTL

\* Likewise the row of a finished gen stays until its applicant is removed, or a lock
\* is broken whose owner lives on (upsert, cmd_manifest).
THEOREM RowsKeptHolds ==
    ASSUME ~ RemoveBesideGen PROVE ResumeSpec => []RowsKept
<1>1. UntilUsurped => RowsKept
  BY DEF UntilUsurped, ResumeInv, KeptOK, RowsKept
<1>2. QED
  BY <1>1, FilesStayPaired, PTL
-----------------------------------------------------------------------------
(* CorpusSlots: sums over finite sets, then the costs of assign *)

\* Of some subsets of a finite set, one is smallest by inclusion.
LEMMA SmallestSubset ==
    ASSUME NEW S, IsFiniteSet(S), NEW B, B \subseteq SUBSET S, B # {}
    PROVE  \E T \in B : \A U \in B : U \subseteq T => U = T
<1>1. B \subseteq FiniteSubsetsOf(S)
  BY FS_Subset DEF FiniteSubsetsOf
<1>2. PICK T \in B : \A U \in B : ~ (<<U, T>> \in StrictSubsetOrdering(S))
  BY <1>1, FS_StrictSubsetOrderingWellFounded, WFMin
<1>3. ASSUME NEW U \in B, U \subseteq T, U # T
      PROVE  FALSE
  <2>1. U \in SUBSET S /\ T \in SUBSET S
    BY <1>3
  <2>2. <<U, T>> \in StrictSubsetOrdering(S)
    BY <1>3, <2>1 DEF StrictSubsetOrdering
  <2>3. QED
    BY <1>2, <2>2
<1>4. QED
  BY <1>2, <1>3

\* The function that SumFunctionOnSet defines by recursion on the subsets of T
First(s) == CHOOSE x \in s : TRUE
Sums(f, g, T) == g = [s \in SUBSET T |-> IF s = {} THEN 0 ELSE f[First(s)] + g[s \ {First(s)}]]

\* The term taken first is one of the terms.
LEMMA FirstIsMember ==
    ASSUME NEW s, s # {}
    PROVE  First(s) \in s
BY DEF First

\* It is the same for a smaller set.
LEMMA SumsAgree ==
    ASSUME NEW f, NEW g, NEW h, NEW T, NEW U, IsFiniteSet(T), T \subseteq U,
           Sums(f, g, T), Sums(f, h, U)
    PROVE  g[T] = h[T]
<1> DEFINE B == {s \in SUBSET T : g[s] # h[s]}
<1>1. SUFFICES ASSUME B # {}
               PROVE  FALSE
  OBVIOUS
<1>2. PICK s \in B : \A u \in B : u \subseteq s => u = s
  <2> B \subseteq SUBSET T
    OBVIOUS
  <2> HIDE DEF B
  <2> QED
    BY <1>1, SmallestSubset
<1>3. s \in SUBSET T /\ s \in SUBSET U /\ g[s] # h[s]
  BY <1>2
<1>4. s # {}
  BY <1>3 DEF Sums
<1>5. First(s) \in s
  BY <1>4, FirstIsMember
<1>6. PICK u : u = s \ {First(s)}
  OBVIOUS
<1>7. g[u] = h[u]
  BY <1>2, <1>3, <1>5, <1>6
<1>8. g[s] = f[First(s)] + g[u] /\ h[s] = f[First(s)] + h[u]
  BY <1>3, <1>4, <1>6 DEF Sums
<1>9. QED
  BY <1>3, <1>7, <1>8

\* There is one for every finite set.
LEMMA SumsExist ==
    ASSUME NEW f, NEW S, IsFiniteSet(S)
    PROVE  \E g : Sums(f, g, S)
<1> DEFINE B == {T \in SUBSET S : ~ \E g : Sums(f, g, T)}
<1>1. SUFFICES ASSUME B # {}
               PROVE  FALSE
  OBVIOUS
<1>2. PICK T \in B : \A U \in B : U \subseteq T => U = T
  <2> B \subseteq SUBSET S
    OBVIOUS
  <2> HIDE DEF B
  <2> QED
    BY <1>1, SmallestSubset
<1> DEFINE G(U) == CHOOSE g : Sums(f, g, U)
           rest(s) == s \ {First(s)}
           h == [s \in SUBSET T |-> IF s = T
                                    THEN IF T = {} THEN 0 ELSE f[First(T)] + G(rest(T))[rest(T)]
                                    ELSE G(s)[s]]
<1>3. T \in SUBSET S /\ \A U \in SUBSET T : U # T => Sums(f, G(U), U)
  <2>1. T \in SUBSET S
    BY <1>2
  <2>2. ASSUME NEW U \in SUBSET T, U # T
        PROVE  \E g : Sums(f, g, U)
    BY <1>2, <2>1, <2>2
  <2>3. QED
    BY <2>1, <2>2
<1>4. \A s \in SUBSET T : IsFiniteSet(s)
  BY <1>3, FS_Subset
<1> HIDE DEF G
<1>5. ASSUME NEW s \in SUBSET T
      PROVE  h[s] = IF s = {} THEN 0 ELSE f[First(s)] + h[rest(s)]
  <2>1. CASE s = {}
    <3>1. CASE s = T
      BY <2>1, <3>1
    <3>2. CASE s # T
      <4>1. Sums(f, G(s), s)
        BY <1>3, <3>2
      <4>2. G(s)[s] = 0
        BY <4>1, <2>1 DEF Sums
      <4>3. QED
        BY <4>2, <2>1, <3>2
    <3>3. QED
      BY <3>1, <3>2
  <2>2. CASE s # {}
    <3>1. First(s) \in s
      BY <2>2, FirstIsMember
    <3>2. rest(s) \in SUBSET T /\ rest(s) # T /\ rest(s) \subseteq s
      BY <3>1
    <3>3. h[rest(s)] = G(rest(s))[rest(s)]
      BY <3>2
    <3>4. CASE s = T
      <4>1. h[s] = f[First(s)] + G(rest(s))[rest(s)]
        BY <2>2, <3>4
      <4>2. QED
        BY <2>2, <3>3, <4>1
    <3>5. CASE s # T
      <4>1. Sums(f, G(s), s) /\ Sums(f, G(rest(s)), rest(s))
        BY <1>3, <3>2, <3>5
      <4>2. G(rest(s))[rest(s)] = G(s)[rest(s)]
        <5> HIDE DEF rest
        <5> QED
          BY <1>4, <3>2, <4>1, SumsAgree
      <4>3. G(s)[s] = f[First(s)] + G(s)[rest(s)]
        BY <2>2, <4>1 DEF Sums
      <4>4. h[s] = G(s)[s]
        BY <3>5
      <4>5. QED
        BY <2>2, <3>3, <4>2, <4>3, <4>4
    <3>6. QED
      BY <3>4, <3>5
  <2>3. QED
    BY <2>1, <2>2
<1>6. Sums(f, h, T)
  <2>1. h = [s \in SUBSET T |-> h[s]]
    OBVIOUS
  <2> HIDE DEF h
  <2>2. QED
    BY <1>5, <2>1 DEF Sums
<1>7. QED
  BY <1>2, <1>6

\* SumFunctionOnSet is the value at the set of such a function.
LEMMA SumIsSums ==
    ASSUME NEW f, NEW S, IsFiniteSet(S)
    PROVE  \E g : Sums(f, g, S) /\ SumFunctionOnSet(f, S) = g[S]
<1>1. PICK h : Sums(f, h, S)
  BY SumsExist
<1> DEFINE g == CHOOSE g : g = [s \in SUBSET S |-> IF s = {} THEN 0 ELSE f[CHOOSE x \in s : TRUE] + g[s \ {CHOOSE x \in s : TRUE}]]
<1>2. g = [s \in SUBSET S |-> IF s = {} THEN 0 ELSE f[CHOOSE x \in s : TRUE] + g[s \ {CHOOSE x \in s : TRUE}]]
  BY <1>1 DEF Sums, First
<1>3. Sums(f, g, S)
  BY <1>2 DEF Sums, First
<1>4. SumFunctionOnSet(f, S) = g[S]
  BY DEF SumFunctionOnSet, FoldFunctionOnSet, MapThenFoldSet
<1>5. QED
  BY <1>3, <1>4

\* A sum takes one term after the other, whichever one.
LEMMA SumOfFirst ==
    ASSUME NEW f, NEW S, IsFiniteSet(S), S # {}
    PROVE  SumFunctionOnSet(f, S) = f[First(S)] + SumFunctionOnSet(f, S \ {First(S)})
<1>1. First(S) \in S
  BY FirstIsMember
<1>2. IsFiniteSet(S \ {First(S)})
  BY FS_Subset, S \ {First(S)} \subseteq S
<1>3. PICK g : Sums(f, g, S) /\ SumFunctionOnSet(f, S) = g[S]
  BY SumIsSums
<1>4. PICK h : Sums(f, h, S \ {First(S)})
                /\ SumFunctionOnSet(f, S \ {First(S)}) = h[S \ {First(S)}]
  BY <1>2, SumIsSums
<1>5. h[S \ {First(S)}] = g[S \ {First(S)}]
  BY <1>2, <1>3, <1>4, SumsAgree, S \ {First(S)} \subseteq S
<1>6. g[S] = f[First(S)] + g[S \ {First(S)}]
  BY <1>3 DEF Sums
<1>7. QED
  BY <1>3, <1>4, <1>5, <1>6

\* No terms add up to zero.
LEMMA SumOfNone ==
    ASSUME NEW f
    PROVE  SumFunctionOnSet(f, {}) = 0
<1>1. IsFiniteSet({})
  BY FS_EmptySet
<1>2. PICK g : Sums(f, g, {}) /\ SumFunctionOnSet(f, {}) = g[{}]
  BY <1>1, SumIsSums
<1>3. QED
  BY <1>2 DEF Sums

\* A sum of integers is an integer.
LEMMA SumIsInt ==
    ASSUME NEW f, NEW S, IsFiniteSet(S), \A x \in S : f[x] \in Int
    PROVE  SumFunctionOnSet(f, S) \in Int
<1> DEFINE B == {T \in SUBSET S : SumFunctionOnSet(f, T) \notin Int}
<1>1. SUFFICES ASSUME B # {}
               PROVE  FALSE
  OBVIOUS
<1>2. PICK T \in B : \A U \in B : U \subseteq T => U = T
  <2> B \subseteq SUBSET S
    OBVIOUS
  <2> HIDE DEF B
  <2> QED
    BY <1>1, SmallestSubset
<1>3. T \in SUBSET S /\ SumFunctionOnSet(f, T) \notin Int /\ IsFiniteSet(T)
  BY <1>2, FS_Subset
<1>4. T # {}
  BY <1>3, SumOfNone
<1>5. First(T) \in T
  BY <1>4, FirstIsMember
<1>6. SumFunctionOnSet(f, T \ {First(T)}) \in Int
  BY <1>2, <1>3, <1>5
<1>7. SumFunctionOnSet(f, T) = f[First(T)] + SumFunctionOnSet(f, T \ {First(T)})
  BY <1>3, <1>4, SumOfFirst
<1>8. f[First(T)] \in Int
  BY <1>3, <1>5
<1>9. QED
  BY <1>3, <1>6, <1>7, <1>8

\* Any term may be taken first: the sum does not depend on the order.
LEMMA SumOfOne ==
    ASSUME NEW f, NEW S, IsFiniteSet(S), \A x \in S : f[x] \in Int, NEW y \in S
    PROVE  SumFunctionOnSet(f, S) = f[y] + SumFunctionOnSet(f, S \ {y})
<1> DEFINE Sum(T) == SumFunctionOnSet(f, T)
           B == {T \in SUBSET S : \E x \in T : Sum(T) # f[x] + Sum(T \ {x})}
<1>1. SUFFICES ASSUME B # {}
               PROVE  FALSE
  OBVIOUS
<1>2. PICK T \in B : \A U \in B : U \subseteq T => U = T
  <2> B \subseteq SUBSET S
    OBVIOUS
  <2> HIDE DEF B
  <2> QED
    BY <1>1, SmallestSubset
<1>3. \A U \in SUBSET S : IsFiniteSet(U)
  BY FS_Subset
<1>4. \A U \in SUBSET S : Sum(U) \in Int
  BY <1>3, SumIsInt
<1>5. \A U \in SUBSET S : U # {} => Sum(U) = f[First(U)] + Sum(U \ {First(U)})
  BY <1>3, SumOfFirst
<1> HIDE DEF Sum
<1>6. PICK x \in T : Sum(T) # f[x] + Sum(T \ {x})
  BY <1>2
<1>7. T \in SUBSET S /\ T # {}
  BY <1>2, <1>6
<1>8. PICK z \in T : z = First(T)
  BY <1>7, FirstIsMember
<1>9. Sum(T) = f[z] + Sum(T \ {z}) /\ x # z
  BY <1>5, <1>6, <1>7, <1>8
<1>10. Sum(T \ {z}) = f[x] + Sum((T \ {z}) \ {x})
  BY <1>2, <1>7, <1>9
<1>11. Sum(T \ {x}) = f[z] + Sum((T \ {x}) \ {z})
  BY <1>2, <1>7, <1>9
<1>12. (T \ {x}) \ {z} = (T \ {z}) \ {x}
  OBVIOUS
<1>13. PICK a \in Int, b \in Int, s \in Int :
           a = f[x] /\ b = f[z] /\ s = Sum((T \ {z}) \ {x})
  <2>1. f[x] \in Int /\ f[z] \in Int
    BY <1>7
  <2>2. Sum((T \ {z}) \ {x}) \in Int
    BY <1>4, <1>7
  <2>3. QED
    BY <2>1, <2>2
<1>14. Sum(T) = b + (a + s) /\ Sum(T \ {x}) = b + s
  BY <1>9, <1>10, <1>11, <1>12, <1>13
<1>15. QED
  BY <1>6, <1>13, <1>14

\* Sums can be added and scaled.
Combines(h, c, f, d, g, S) ==
    \A x \in S : f[x] \in Int /\ g[x] \in Int /\ h[x] = c * f[x] + d * g[x]

LEMMA SumAdds ==
    ASSUME NEW f, NEW g, NEW h, NEW S, IsFiniteSet(S), NEW c \in Int, NEW d \in Int,
           Combines(h, c, f, d, g, S)
    PROVE  SumFunctionOnSet(h, S) = c * SumFunctionOnSet(f, S) + d * SumFunctionOnSet(g, S)
<1> DEFINE F(T) == SumFunctionOnSet(f, T)
           G(T) == SumFunctionOnSet(g, T)
           H(T) == SumFunctionOnSet(h, T)
           B == {T \in SUBSET S : H(T) # c * F(T) + d * G(T)}
<1>1. SUFFICES ASSUME B # {}
               PROVE  FALSE
  OBVIOUS
<1>2. PICK T \in B : \A U \in B : U \subseteq T => U = T
  <2> B \subseteq SUBSET S
    OBVIOUS
  <2> HIDE DEF B
  <2> QED
    BY <1>1, SmallestSubset
<1>3. T \in SUBSET S /\ H(T) # c * F(T) + d * G(T)
  BY <1>2
<1>4. IsFiniteSet(T)
  BY <1>3, FS_Subset
<1>5. T # {}
  <2>1. F({}) = 0 /\ G({}) = 0 /\ H({}) = 0
    BY SumOfNone
  <2> HIDE DEF F, G, H
  <2>2. H({}) = c * F({}) + d * G({})
    BY <2>1
  <2>3. QED
    BY <1>3, <2>2
<1>6. PICK x \in T : x = First(T)
  BY <1>5, FirstIsMember
<1>7. PICK U \in SUBSET S : U = T \ {x} /\ U # T /\ U \subseteq T
  <2>1. T \ {x} \in SUBSET S /\ T \ {x} # T /\ T \ {x} \subseteq T
    BY <1>3
  <2>2. QED
    BY <2>1
<1>8. IsFiniteSet(U)
  BY FS_Subset
<1>9. F(U) \in Int /\ G(U) \in Int
  <2>1. \A z \in U : f[z] \in Int /\ g[z] \in Int
    BY DEF Combines
  <2>2. QED
    BY <1>8, <2>1, SumIsInt
<1>10. F(T) = f[x] + F(U) /\ G(T) = g[x] + G(U) /\ H(T) = h[x] + H(U)
  BY <1>4, <1>5, <1>6, <1>7, SumOfFirst
<1>11. f[x] \in Int /\ g[x] \in Int /\ h[x] = c * f[x] + d * g[x]
  BY <1>3 DEF Combines
<1>12. H(U) = c * F(U) + d * G(U)
  BY <1>2, <1>7
<1> HIDE DEF F, G, H
<1>13. PICK a \in Int, b \in Int, p \in Int, q \in Int :
           a = f[x] /\ b = g[x] /\ p = F(U) /\ q = G(U)
  BY <1>9, <1>11
<1>14. H(T) = (c * a + d * b) + (c * p + d * q) /\ F(T) = a + p /\ G(T) = b + q
  BY <1>10, <1>11, <1>12, <1>13
<1>15. (c * a + d * b) + (c * p + d * q) = c * (a + p) + d * (b + q)
  OBVIOUS
<1>16. QED
  BY <1>3, <1>14, <1>15

\* A sum of bounded terms is bounded.
LEMMA SumBounds ==
    ASSUME NEW f, NEW S, IsFiniteSet(S), NEW b \in Nat, \A x \in S : f[x] \in 0 .. b
    PROVE  SumFunctionOnSet(f, S) \in Nat /\ SumFunctionOnSet(f, S) <= b * Cardinality(S)
<1> DEFINE F(T) == SumFunctionOnSet(f, T)
           B == {T \in SUBSET S : ~ (F(T) \in Nat /\ F(T) <= b * Cardinality(T))}
<1>1. SUFFICES ASSUME B # {}
               PROVE  FALSE
  OBVIOUS
<1>2. PICK T \in B : \A U \in B : U \subseteq T => U = T
  <2> B \subseteq SUBSET S
    OBVIOUS
  <2> HIDE DEF B
  <2> QED
    BY <1>1, SmallestSubset
<1>3. T \in SUBSET S /\ ~ (F(T) \in Nat /\ F(T) <= b * Cardinality(T))
  BY <1>2
<1>4. IsFiniteSet(T)
  BY <1>3, FS_Subset
<1>5. T # {}
  <2>1. F({}) = 0 /\ Cardinality({}) = 0
    BY SumOfNone, FS_EmptySet
  <2> HIDE DEF F
  <2>2. QED
    BY <1>3, <2>1
<1>6. PICK x \in T : x = First(T)
  BY <1>5, FirstIsMember
<1>7. PICK U \in SUBSET S : U = T \ {x} /\ U # T /\ U \subseteq T
  <2>1. T \ {x} \in SUBSET S /\ T \ {x} # T /\ T \ {x} \subseteq T
    BY <1>3
  <2>2. QED
    BY <2>1
<1>8. IsFiniteSet(U)
  BY FS_Subset
<1>9. F(T) = f[x] + F(U)
  BY <1>4, <1>5, <1>6, <1>7, SumOfFirst
<1>10. F(U) \in Nat /\ F(U) <= b * Cardinality(U)
  BY <1>2, <1>7
<1>11. PICK n \in Nat : n = Cardinality(U) /\ Cardinality(T) = n + 1
  <2>1. Cardinality(U) = Cardinality(T) - 1
    BY <1>4, <1>7, FS_RemoveElement
  <2>2. Cardinality(U) \in Nat /\ Cardinality(T) \in Nat
    BY <1>4, <1>8, FS_CardinalityType
  <2>3. QED
    BY <2>1, <2>2
<1>12. f[x] \in 0 .. b
  BY <1>3
<1> HIDE DEF F
<1>13. PICK a \in Nat, s \in Nat : a = f[x] /\ s = F(U) /\ a <= b /\ s <= b * n
  BY <1>10, <1>11, <1>12
<1>14. F(T) = a + s /\ a + s \in Nat
  BY <1>9, <1>13
<1>15. b * (n + 1) = b * n + b
  OBVIOUS
<1>16. b * n \in Nat
  OBVIOUS
<1>17. a + s <= b * n + b
  BY <1>13, <1>16
<1>18. QED
  BY <1>3, <1>11, <1>14, <1>15, <1>17

\* A sum of ones and zeros counts the ones.
LEMMA SumCounts ==
    ASSUME NEW f, NEW S, IsFiniteSet(S), NEW A, A \subseteq S,
           \A x \in S : f[x] = IF x \in A THEN 1 ELSE 0
    PROVE  SumFunctionOnSet(f, S) = Cardinality(A)
<1> DEFINE F(T) == SumFunctionOnSet(f, T)
           B == {T \in SUBSET S : F(T) # Cardinality(A \cap T)}
<1>1. SUFFICES ASSUME B # {}
               PROVE  FALSE
  <2>1. A \cap S = A
    OBVIOUS
  <2>2. QED
    BY <2>1
<1>2. PICK T \in B : \A U \in B : U \subseteq T => U = T
  <2> B \subseteq SUBSET S
    OBVIOUS
  <2> HIDE DEF B
  <2> QED
    BY <1>1, SmallestSubset
<1>3. T \in SUBSET S /\ F(T) # Cardinality(A \cap T)
  BY <1>2
<1>4. IsFiniteSet(T) /\ IsFiniteSet(A \cap T)
  <2>1. IsFiniteSet(T)
    BY <1>3, FS_Subset
  <2>2. QED
    BY <2>1, FS_Subset, A \cap T \in SUBSET T
<1>5. T # {}
  <2>1. F({}) = 0 /\ Cardinality({}) = 0
    BY SumOfNone, FS_EmptySet
  <2>2. A \cap {} = {}
    OBVIOUS
  <2> HIDE DEF F
  <2>3. QED
    BY <1>3, <2>1, <2>2
<1>6. PICK x \in T : x = First(T)
  BY <1>5, FirstIsMember
<1>7. PICK U \in SUBSET S : U = T \ {x} /\ U # T /\ U \subseteq T
  <2>1. T \ {x} \in SUBSET S /\ T \ {x} # T /\ T \ {x} \subseteq T
    BY <1>3
  <2>2. QED
    BY <2>1
<1>8. F(T) = f[x] + F(U) /\ F(U) = Cardinality(A \cap U)
  <2>1. F(T) = f[x] + F(U)
    BY <1>4, <1>5, <1>6, <1>7, SumOfFirst
  <2>2. F(U) = Cardinality(A \cap U)
    BY <1>2, <1>7
  <2>3. QED
    BY <2>1, <2>2
<1>9. PICK n \in Nat : n = Cardinality(A \cap T)
  BY <1>4, FS_CardinalityType
<1> HIDE DEF F
<1>10. CASE x \in A
  <2>1. A \cap U = (A \cap T) \ {x} /\ x \in A \cap T
    BY <1>7, <1>10
  <2>2. Cardinality(A \cap U) = n - 1
    <3>1. PICK Q : Q = A \cap T
      OBVIOUS
    <3>2. Cardinality(Q \ {x}) = Cardinality(Q) - 1
      BY <1>4, <2>1, <3>1, FS_RemoveElement
    <3>3. QED
      BY <1>9, <2>1, <3>1, <3>2
  <2>3. f[x] = 1
    BY <1>3, <1>10
  <2>4. QED
    BY <1>3, <1>8, <1>9, <2>2, <2>3
<1>11. CASE x \notin A
  <2>1. A \cap U = A \cap T
    BY <1>7, <1>11
  <2>2. f[x] = 0
    BY <1>3, <1>11
  <2>3. QED
    BY <1>3, <1>8, <1>9, <2>1, <2>2
<1>12. QED
  BY <1>10, <1>11

\* Terms that are zero can be left out.
LEMMA SumLeavesOut ==
    ASSUME NEW f, NEW g, NEW S, IsFiniteSet(S), NEW A, A \subseteq S,
           \A x \in A : g[x] \in Int,
           \A x \in S : f[x] = IF x \in A THEN g[x] ELSE 0
    PROVE  SumFunctionOnSet(f, S) = SumFunctionOnSet(g, A)
<1> DEFINE F(T) == SumFunctionOnSet(f, T)
           G(T) == SumFunctionOnSet(g, A \cap T)
           B == {T \in SUBSET S : F(T) # G(T)}
<1>1. SUFFICES ASSUME B # {}
               PROVE  FALSE
  <2>1. A \cap S = A
    OBVIOUS
  <2>2. QED
    BY <2>1
<1>2. PICK T \in B : \A U \in B : U \subseteq T => U = T
  <2> B \subseteq SUBSET S
    OBVIOUS
  <2> HIDE DEF B
  <2> QED
    BY <1>1, SmallestSubset
<1>3. T \in SUBSET S /\ F(T) # G(T)
  BY <1>2
<1>4. IsFiniteSet(T) /\ IsFiniteSet(A \cap T)
  <2>1. IsFiniteSet(T)
    BY <1>3, FS_Subset
  <2>2. QED
    BY <2>1, FS_Subset, A \cap T \in SUBSET T
<1>5. T # {}
  <2>1. A \cap {} = {}
    OBVIOUS
  <2>2. F({}) = 0 /\ G({}) = 0
    BY <2>1, SumOfNone
  <2> HIDE DEF F, G
  <2>3. QED
    BY <1>3, <2>2
<1>6. PICK x \in T : x = First(T)
  BY <1>5, FirstIsMember
<1>7. PICK U \in SUBSET S : U = T \ {x} /\ U # T /\ U \subseteq T
  <2>1. T \ {x} \in SUBSET S /\ T \ {x} # T /\ T \ {x} \subseteq T
    BY <1>3
  <2>2. QED
    BY <2>1
<1>8. F(T) = f[x] + F(U)
  BY <1>4, <1>5, <1>6, <1>7, SumOfFirst
<1>9. F(U) = G(U)
  BY <1>2, <1>7
<1>10. G(U) \in Int
  <2>1. A \cap U \in SUBSET T
    BY <1>7
  <2>2. IsFiniteSet(A \cap U)
    BY <1>4, <2>1, FS_Subset
  <2>3. QED
    BY <2>2, SumIsInt
<1>11. CASE x \in A
  <2>1. A \cap U = (A \cap T) \ {x} /\ x \in A \cap T
    BY <1>7, <1>11
  <2>2. G(T) = g[x] + G(U)
    BY <1>4, <2>1, SumOfOne
  <2>3. f[x] = g[x]
    BY <1>3, <1>11
  <2>4. QED
    BY <1>3, <1>8, <1>9, <2>2, <2>3
<1>12. CASE x \notin A
  <2>1. A \cap U = A \cap T
    BY <1>7, <1>12
  <2>2. G(T) = G(U)
    BY <2>1
  <2>3. f[x] = 0
    BY <1>3, <1>12
  <2> HIDE DEF F, G
  <2>4. QED
    BY <1>3, <1>8, <1>9, <1>10, <2>2, <2>3
<1>13. QED
  BY <1>11, <1>12

\* The greater of two numbers
LEMMA MaxOfTwo ==
    ASSUME NEW a \in Nat, NEW b \in Nat
    PROVE  Max({a, b}) \in {a, b} /\ Max({a, b}) >= a /\ Max({a, b}) >= b
<1>1. \E x \in {a, b} : \A y \in {a, b} : x >= y
  <2>1. CASE a >= b
    <3>1. \A y \in {a, b} : a >= y
      BY <2>1
    <3>2. QED
      BY <3>1
  <2>2. CASE ~ (a >= b)
    <3>1. \A y \in {a, b} : b >= y
      BY <2>2
    <3>2. QED
      BY <3>1
  <2>3. QED
    BY <2>1, <2>2
<1>2. QED
  BY <1>1 DEF Max

\* A hundred times a part, divided by the whole
LEMMA PercentOfWhole ==
    ASSUME NEW a \in Nat, NEW b \in Nat \ {0}, a <= 100 * b
    PROVE  a \div b \in 0 .. 100
<1>1. a \div b \in Int /\ b * (a \div b) <= a
  OBVIOUS
<1>2. a \div b >= 0
  OBVIOUS
<1>3. a \div b <= 100
  OBVIOUS
<1>4. QED
  BY <1>1, <1>2, <1>3

\* What a profile says of the languages of a repository
LEMMA CodeOfKind ==
    ASSUME NEW k \in DOMAIN Kinds, NEW r \in Kinds[k]
    PROVE  IsFiniteSet(DOMAIN r.code) /\ \A l \in DOMAIN r.code : r.code[l] \in Nat
<1>1. IsFiniteSet(DOMAIN r.code) /\ r.code \in [DOMAIN r.code -> Nat]
  BY SlotsAssumption
<1>2. PICK c, D : c = r.code /\ D = DOMAIN c
  OBVIOUS
<1>3. \A l \in D : c[l] \in Nat
  BY <1>1, <1>2
<1>4. QED
  BY <1>1, <1>2, <1>3

\* Sums of natural numbers are natural numbers.
LEMMA SumIsNat ==
    ASSUME NEW f, NEW S, IsFiniteSet(S), \A x \in S : f[x] \in Nat
    PROVE  SumFunctionOnSet(f, S) \in Nat
<1> DEFINE B == {T \in SUBSET S : SumFunctionOnSet(f, T) \notin Nat}
<1>1. SUFFICES ASSUME B # {}
               PROVE  FALSE
  OBVIOUS
<1>2. PICK T \in B : \A U \in B : U \subseteq T => U = T
  <2> B \subseteq SUBSET S
    OBVIOUS
  <2> HIDE DEF B
  <2> QED
    BY <1>1, SmallestSubset
<1>3. T \in SUBSET S /\ SumFunctionOnSet(f, T) \notin Nat /\ IsFiniteSet(T)
  BY <1>2, FS_Subset
<1>4. T # {}
  BY <1>3, SumOfNone
<1>5. First(T) \in T
  BY <1>4, FirstIsMember
<1>6. SumFunctionOnSet(f, T \ {First(T)}) \in Nat
  BY <1>2, <1>3, <1>5
<1>7. SumFunctionOnSet(f, T) = f[First(T)] + SumFunctionOnSet(f, T \ {First(T)})
  BY <1>3, <1>4, SumOfFirst
<1>8. f[First(T)] \in Nat
  BY <1>3, <1>5
<1>9. QED
  BY <1>3, <1>6, <1>7, <1>8

\* No repository is divided by zero bytes (repo_distribution).
LEMMA TotalIsPositive ==
    ASSUME NEW k \in DOMAIN Kinds, NEW r \in Kinds[k]
    PROVE  Total(r) \in Nat \ {0}
<1>1. SumFunctionOnSet(r.code, DOMAIN r.code) \in Nat
  BY CodeOfKind, SumIsNat
<1>2. PICK n \in Nat : n = SumFunction(r.code)
  BY <1>1 DEF SumFunction
<1>3. Max({1, n}) \in {1, n} /\ Max({1, n}) >= 1
  BY MaxOfTwo
<1>4. QED
  BY <1>2, <1>3 DEF Total

\* A quotient of natural numbers is one.
LEMMA DivIsNat ==
    ASSUME NEW a \in Nat, NEW b \in Nat \ {0}
    PROVE  a \div b \in Nat
OBVIOUS

\* What a repository weighs in a stratum is a natural number.
LEMMA OwnWeightIsNat ==
    ASSUME NEW k \in DOMAIN Kinds, NEW r \in Kinds[k], NEW s \in Strata
    PROVE  OwnWeight(r, s) \in Nat
<1>1. StratumLanguages[s] \cap DOMAIN r.code \in SUBSET DOMAIN r.code
  OBVIOUS
<1>2. IsFiniteSet(StratumLanguages[s] \cap DOMAIN r.code)
  BY <1>1, CodeOfKind, FS_Subset
<1>3. Kilobytes(r, s) \in Nat
  BY <1>1, <1>2, CodeOfKind, SumIsNat DEF Kilobytes
<1>4. PICK n \in Nat, t \in Nat \ {0} : n = Kilobytes(r, s) /\ t = Total(r)
  BY <1>3, TotalIsPositive
<1>5. (100 * n) \div t \in Nat
  BY DivIsNat, 100 * n \in Nat
<1>6. \A a \in Nat, b \in Nat : Max({a, b}) \in Nat
  BY MaxOfTwo
<1>7. QED
  BY <1>4, <1>5, <1>6 DEF OwnWeight

\* So it is after Python that does data work went to data work.
LEMMA WeightIsNat ==
    ASSUME NEW k \in DOMAIN Kinds, NEW r \in Kinds[k], NEW s \in Strata
    PROVE  Weight(r, s) \in Nat
<1>1. OwnWeight(r, s) \in Nat /\ OwnWeight(r, Backend) \in Nat /\ OwnWeight(r, DataMl) \in Nat
  BY OwnWeightIsNat, SlotsAssumption
<1>2. Max({OwnWeight(r, DataMl), OwnWeight(r, Backend)}) \in Nat
  BY <1>1, MaxOfTwo
<1>3. DoesDataMl(r) \in BOOLEAN
  BY DEF DoesDataMl
<1>4. QED
  BY <1>1, <1>2, <1>3 DEF Weight

\* A stratum's portion of a repository is at most the whole.
LEMMA PortionIsPercent ==
    ASSUME NEW k \in DOMAIN Kinds, NEW r \in Kinds[k], NEW s \in Strata
    PROVE  Portion(r, s) \in 0 .. 100
<1>1. PICK w : w = [t \in Strata |-> Weight(r, t)]
  OBVIOUS
<1>2. \A t \in Strata : w[t] \in Nat
  BY <1>1, WeightIsNat
<1>3. IsFiniteSet(Strata) /\ IsFiniteSet(Strata \ {s})
  BY SlotsAssumption, FS_Subset, Strata \ {s} \in SUBSET Strata
<1>4. Mass(r) = SumFunctionOnSet(w, Strata)
  BY <1>1 DEF Mass, SumFunction
<1>5. SumFunctionOnSet(w, Strata) = w[s] + SumFunctionOnSet(w, Strata \ {s})
  <2>1. \A t \in Strata : w[t] \in Int
    BY <1>2
  <2>2. QED
    BY <1>3, <2>1, SumOfOne
<1>6. SumFunctionOnSet(w, Strata \ {s}) \in Nat
  BY <1>2, <1>3, SumIsNat
<1>7. PICK a \in Nat, b \in Nat : a = Weight(r, s) /\ Mass(r) = a + b
  BY <1>1, <1>2, <1>4, <1>5, <1>6
<1>8. CASE a + b = 0
  BY <1>7, <1>8 DEF Portion
<1>9. CASE a + b # 0
  <2>1. (100 * a) \div (a + b) \in 0 .. 100
    <3>1. 100 * a \in Nat /\ a + b \in Nat \ {0} /\ 100 * a <= 100 * (a + b)
      BY <1>9
    <3>2. QED
      BY <3>1, PercentOfWhole
  <2>2. QED
    BY <1>7, <1>9, <2>1 DEF Portion
<1>10. QED
  BY <1>8, <1>9

\* The surprise at a share of the whole is at most MAX_SURPRISAL.
LEMMA SurpriseIsSmall ==
    ASSUME NEW share \in 0 .. 100
    PROVE  Surprise(share) \in 0 .. 6
<1>1. PICK p \in 1 .. 100 : p = Max({share, 1})
  <2>1. share \in Nat /\ 1 \in Nat /\ share <= 100
    OBVIOUS
  <2>2. Max({share, 1}) \in {share, 1} /\ Max({share, 1}) >= 1
    BY <2>1, MaxOfTwo
  <2>3. Max({share, 1}) \in 1 .. 100
    BY <2>1, <2>2
  <2>4. QED
    BY <2>3
<1> DEFINE K == {k \in 0 .. 6 : p <= Halved[k + 1]}
<1>2. Halved[1] = 100
  BY DEF Halved
<1>3. 0 \in K
  BY <1>2
<1>4. K \in SUBSET Nat /\ K \subseteq 0 .. 6
  OBVIOUS
<1>5. IsFiniteSet(K)
  BY <1>4, FS_Interval, FS_Subset, 0 \in Int, 6 \in Int
<1>6. Surprise(share) = Max(K)
  BY <1>1 DEF Surprise
<1> HIDE DEF K
<1>7. Max(K) \in K
  BY <1>3, <1>4, <1>5, MaxOfFinite
<1>8. QED
  BY <1>4, <1>6, <1>7

\* The mean of the portions is at most the whole; somebody without relevant
\* repositories is unusable and divides nothing by zero.
LEMMA ShareIsPercent ==
    ASSUME NEW k \in DOMAIN Kinds, NEW s \in Strata, Tier(Kinds[k]) # "unusable"
    PROVE  Share(Kinds[k], s) \in 0 .. 100
<1>1. PICK R : R = RelevantOf(Kinds[k])
  OBVIOUS
<1>2. R \in SUBSET Kinds[k] /\ IsFiniteSet(Kinds[k])
  BY <1>1, SlotsAssumption DEF RelevantOf
<1>3. IsFiniteSet(R)
  BY <1>2, FS_Subset
<1>4. PICK n \in Nat : n = Cardinality(R)
  BY <1>3, FS_CardinalityType
<1>5. n \in Nat \ {0}
  <2>1. ~ (Cardinality(R) < 3)
    BY <1>1 DEF Tier
  <2>2. QED
    BY <1>4, <2>1
<1>6. PICK q : q = [r \in R |-> Portion(r, s)]
  OBVIOUS
<1>7. \A r \in R : q[r] \in 0 .. 100
  BY <1>2, <1>6, PortionIsPercent
<1>8. SumFunctionOnSet(q, R) \in Nat /\ SumFunctionOnSet(q, R) <= 100 * Cardinality(R)
  BY <1>3, <1>7, SumBounds, 100 \in Nat
<1>9. PICK m \in Nat : m = SumFunction(q) /\ m <= 100 * n
  BY <1>4, <1>6, <1>8 DEF SumFunction
<1>10. m \div n \in 0 .. 100
  BY <1>5, <1>9, PercentOfWhole
<1>11. QED
  BY <1>1, <1>4, <1>6, <1>9, <1>10 DEF Share

\* The tiers are three, and no surprise is greater than MAX_SURPRISAL.
LEMMA EligibilityBounds ==
    ASSUME NEW k \in DOMAIN Kinds, NEW s \in DOMAIN Eligibility(Kinds[k])
    PROVE  /\ Eligibility(Kinds[k])[s].rank \in 0 .. 2
           /\ Eligibility(Kinds[k])[s].surprise \in 0 .. 6
<1>1. Tier(Kinds[k]) # "unusable"
  BY DEF Eligibility
<1>2. s \in Touched(Kinds[k])
  BY <1>1 DEF Eligibility
<1>3. s \in Strata
  BY <1>2 DEF Touched
<1>4. Surprise(Share(Kinds[k], s)) \in 0 .. 6
  BY <1>1, <1>3, ShareIsPercent, SurpriseIsSmall
<1>5. QED
  BY <1>1, <1>2, <1>4 DEF Eligibility

-----------------------------------------------------------------------------
\* Profiles are of a known kind, and each kind was graded.
SlotsInv == /\ kind \in [People -> DOMAIN Kinds]
            /\ graded = [k \in DOMAIN Kinds |-> Eligibility(Kinds[k])]

\* The same of the options assign reads
LEMMA OptionBounds ==
    ASSUME SlotsInv, NEW p \in People, NEW s \in DOMAIN Options(p)
    PROVE  Options(p)[s].rank \in 0 .. 2 /\ Options(p)[s].surprise \in 0 .. 6
<1>1. PICK k \in DOMAIN Kinds : k = kind[p]
  BY DEF SlotsInv
<1>2. Options(p) = Eligibility(Kinds[k])
  BY <1>1 DEF SlotsInv, Options
<1>3. QED
  BY <1>2, EligibilityBounds

\* There are finitely many slots.
LEMMA SlotsAreFinite ==
    IsFiniteSet(Slots) /\ Cardinality(Slots) \in Nat
<1>1. IsFiniteSet(1 .. Quota)
  BY SlotsAssumption, FS_Interval, 1 \in Int, Quota \in Int
<1>2. IsFiniteSet(Slots)
  BY <1>1, SlotsAssumption, FS_Product DEF Slots
<1>3. QED
  BY <1>2, FS_CardinalityType

\* The smaller of two numbers
LEMMA MinOfTwo ==
    ASSUME NEW a \in Nat, NEW b \in Nat
    PROVE  Min({a, b}) \in {a, b} /\ Min({a, b}) <= a /\ Min({a, b}) <= b
<1>1. \E x \in {a, b} : \A y \in {a, b} : x <= y
  <2>1. CASE a <= b
    <3>1. \A y \in {a, b} : a <= y
      BY <2>1
    <3>2. QED
      BY <3>1
  <2>2. CASE ~ (a <= b)
    <3>1. \A y \in {a, b} : b <= y
      BY <2>2
    <3>2. QED
      BY <3>1
  <2>3. QED
    BY <2>1, <2>2
<1>2. QED
  BY <1>1 DEF Min

\* As many people are paired as there are of the fewer.
Paired == Min({Cardinality(Candidates), Cardinality(Slots)})

\* No more people are paired than there are slots.
LEMMA PairedBounds ==
    Paired \in Nat /\ Paired <= Cardinality(Slots)
<1>1. Candidates \in SUBSET People
  BY DEF Candidates
<1>2. IsFiniteSet(Candidates)
  BY <1>1, SlotsAssumption, FS_Subset
<1>3. PICK a \in Nat, b \in Nat : a = Cardinality(Candidates) /\ b = Cardinality(Slots)
  BY <1>2, SlotsAreFinite, FS_CardinalityType
<1>4. QED
  BY <1>3, MinOfTwo DEF Paired

\* A pairing gives slots to so many people.
LEMMA DomainOfPairing ==
    ASSUME NEW f \in Pairings
    PROVE  /\ IsFiniteSet(DOMAIN f) /\ Cardinality(DOMAIN f) = Paired
           /\ DOMAIN f \subseteq People
<1>1. PICK C \in kSubset(Paired, Candidates) : \E h \in Injection(C, Slots) :
                                                  f = [p \in DOMAIN h |-> h[p][1]]
  <2>1. PICK h \in UNION {Injection(C, Slots) : C \in kSubset(Paired, Candidates)} :
                 f = [p \in DOMAIN h |-> h[p][1]]
    BY DEF Pairings, Paired
  <2>2. PICK C \in kSubset(Paired, Candidates) : h \in Injection(C, Slots)
    BY <2>1
  <2>3. QED
    BY <2>1, <2>2
<1>2. PICK h \in Injection(C, Slots) : f = [p \in DOMAIN h |-> h[p][1]]
  BY <1>1
<1>3. DOMAIN h = C
  BY <1>2 DEF Injection
<1>4. DOMAIN f = C
  BY <1>2, <1>3
<1>5. C \in SUBSET Candidates /\ Cardinality(C) = Paired
  BY <1>1 DEF kSubset
<1>6. Candidates \in SUBSET People
  BY DEF Candidates
<1>7. IsFiniteSet(C)
  BY <1>5, <1>6, SlotsAssumption, FS_Subset, C \in SUBSET People
<1>8. QED
  BY <1>4, <1>5, <1>6, <1>7

-----------------------------------------------------------------------------
(* The terms of a price, one function each *)

One(f) == [p \in DOMAIN f |-> 1]
Fits(f) == [p \in DOMAIN f |-> IF p \in Placeable(f) THEN 1 ELSE 0]
Ranks(f) == [p \in DOMAIN f |-> IF p \in Placeable(f) THEN Options(p)[f[p]].rank ELSE 0]
Surprises(f) == [p \in DOMAIN f |-> IF p \in Placeable(f) THEN Options(p)[f[p]].surprise ELSE 0]
WithResume(f) == {p \in Placeable(f) : p \in committed}
Resumes(f) == [p \in DOMAIN f |-> IF p \in WithResume(f) THEN 1 ELSE 0]
Staying(f) == {p \in Placeable(f) : f[p] = Previous(p)}
Stays(f) == [p \in DOMAIN f |-> IF p \in Staying(f) THEN 1 ELSE 0]
TotalOf(f) == SumFunctionOnSet(f, DOMAIN f)

\* The terms of a price are the measures of the priorities, each with its greatest
\* total.
LEMMA TermsOfPrice ==
    ASSUME SlotsInv, NEW f \in Pairings
    PROVE  /\ TotalOf(Ranks(f)) \in Nat /\ TotalOf(Ranks(f)) <= 2 * Paired
           /\ TotalOf(Surprises(f)) \in Nat /\ TotalOf(Surprises(f)) <= 6 * Paired
           /\ TotalOf(Fits(f)) = Cardinality(Placeable(f))
           /\ TotalOf(Resumes(f)) = Cardinality(WithResume(f))
           /\ TotalOf(Stays(f)) = Cardinality(Staying(f))
           /\ Cardinality(Placeable(f)) \in 0 .. Paired
           /\ Cardinality(WithResume(f)) \in 0 .. Paired
           /\ Cardinality(Staying(f)) \in 0 .. Paired
<1> DEFINE D == DOMAIN f
<1>1. IsFiniteSet(D) /\ Cardinality(D) = Paired /\ D \subseteq People
  BY DomainOfPairing
<1>2. Placeable(f) \in SUBSET D /\ WithResume(f) \in SUBSET D /\ Staying(f) \in SUBSET D
  BY DEF Placeable, WithResume, Staying
<1>3. \A p \in Placeable(f) : /\ Options(p)[f[p]].rank \in 0 .. 2
                              /\ Options(p)[f[p]].surprise \in 0 .. 6
  <2> SUFFICES ASSUME NEW p \in Placeable(f)
               PROVE  /\ Options(p)[f[p]].rank \in 0 .. 2
                      /\ Options(p)[f[p]].surprise \in 0 .. 6
    OBVIOUS
  <2>1. p \in People /\ f[p] \in DOMAIN Options(p)
    BY <1>1, <1>2 DEF Placeable
  <2>2. QED
    BY <2>1, OptionBounds
<1>4. DOMAIN Ranks(f) = D /\ \A p \in D : Ranks(f)[p] \in 0 .. 2
  BY <1>3 DEF Ranks
<1>5. DOMAIN Surprises(f) = D /\ \A p \in D : Surprises(f)[p] \in 0 .. 6
  BY <1>3 DEF Surprises
<1>6. TotalOf(Ranks(f)) \in Nat /\ TotalOf(Ranks(f)) <= 2 * Paired
  BY <1>1, <1>4, SumBounds, 2 \in Nat DEF TotalOf
<1>7. TotalOf(Surprises(f)) \in Nat /\ TotalOf(Surprises(f)) <= 6 * Paired
  BY <1>1, <1>5, SumBounds, 6 \in Nat DEF TotalOf
<1>8. TotalOf(Fits(f)) = Cardinality(Placeable(f))
  <2>1. DOMAIN Fits(f) = D /\ \A p \in D : Fits(f)[p] = IF p \in Placeable(f) THEN 1 ELSE 0
    BY DEF Fits
  <2>2. QED
    BY <1>1, <1>2, <2>1, SumCounts DEF TotalOf
<1>9. TotalOf(Resumes(f)) = Cardinality(WithResume(f))
  <2>1. DOMAIN Resumes(f) = D
        /\ \A p \in D : Resumes(f)[p] = IF p \in WithResume(f) THEN 1 ELSE 0
    BY DEF Resumes
  <2>2. QED
    BY <1>1, <1>2, <2>1, SumCounts DEF TotalOf
<1>10. TotalOf(Stays(f)) = Cardinality(Staying(f))
  <2>1. DOMAIN Stays(f) = D /\ \A p \in D : Stays(f)[p] = IF p \in Staying(f) THEN 1 ELSE 0
    BY DEF Stays
  <2>2. QED
    BY <1>1, <1>2, <2>1, SumCounts DEF TotalOf
<1>11. ASSUME NEW E \in SUBSET D
       PROVE  Cardinality(E) \in 0 .. Paired
  <2>1. IsFiniteSet(E) /\ Cardinality(E) <= Cardinality(D)
    BY <1>1, FS_Subset
  <2>2. Cardinality(E) \in Nat /\ Paired \in Nat
    BY <2>1, FS_CardinalityType, PairedBounds
  <2>3. QED
    BY <1>1, <2>1, <2>2
<1>12. QED
  BY <1>2, <1>6, <1>7, <1>8, <1>9, <1>10, <1>11

\* The costs of the levels are natural numbers.
LEMMA BonusesAreNat ==
    StayBonus \in Nat /\ TierStep \in Nat /\ ResumeBonus \in Nat /\ Ineligible \in Nat
<1>1. PICK m \in Nat : m = MaxSlots
  BY SlotsAssumption
<1>2. PICK y \in Nat : y = StayBonus
  BY <1>1 DEF StayBonus
<1>3. PICK t \in Nat : t = TierStep
  <2>1. y * m + 1 \in Nat
    OBVIOUS
  <2>2. QED
    BY <1>1, <1>2, <2>1 DEF TierStep
<1>4. PICK b \in Nat : b = ResumeBonus
  <2>1. t * 2 * m + 1 \in Nat
    OBVIOUS
  <2>2. QED
    BY <1>1, <1>3, <2>1 DEF ResumeBonus
<1>5. b * m + 1 \in Nat
  OBVIOUS
<1>6. QED
  BY <1>1, <1>2, <1>3, <1>4, <1>5 DEF Ineligible

\* What a pair costs, by its terms
LEMMA CostOfPair ==
    ASSUME SlotsInv, NEW f \in Pairings, NEW p \in DOMAIN f
    PROVE  /\ Fits(f)[p] \in 0 .. 1 /\ Ranks(f)[p] \in Int /\ Surprises(f)[p] \in Int
           /\ Resumes(f)[p] \in 0 .. 1 /\ Stays(f)[p] \in 0 .. 1
           /\ Cost(p, f[p]) = Ineligible * (1 - Fits(f)[p])
                              + (TierStep * Ranks(f)[p] + Surprises(f)[p])
                              - (ResumeBonus * Resumes(f)[p] + StayBonus * Stays(f)[p])
<1>1. PICK y \in Nat, t \in Nat, b \in Nat, i \in Nat :
           y = StayBonus /\ t = TierStep /\ b = ResumeBonus /\ i = Ineligible
  BY BonusesAreNat
<1>2. p \in People
  BY DomainOfPairing
<1>3. CASE p \in Placeable(f)
  <2>1. f[p] \in DOMAIN Options(p)
    BY <1>3 DEF Placeable
  <2>2. PICK r \in 0 .. 2, u \in 0 .. 6 :
             r = Options(p)[f[p]].rank /\ u = Options(p)[f[p]].surprise
    BY <1>2, <2>1, OptionBounds
  <2>3. Fits(f)[p] = 1 /\ Ranks(f)[p] = r /\ Surprises(f)[p] = u
    BY <1>3, <2>2 DEF Fits, Ranks, Surprises
  <2>4. Resumes(f)[p] = IF p \in committed THEN 1 ELSE 0
    BY <1>3 DEF Resumes, WithResume
  <2>5. Stays(f)[p] = IF f[p] = Previous(p) THEN 1 ELSE 0
    BY <1>3 DEF Stays, Staying
  <2>6. PICK c \in 0 .. 1, z \in 0 .. 1 : c = Resumes(f)[p] /\ z = Stays(f)[p]
    BY <2>4, <2>5
  <2>7. (IF p \in committed THEN b ELSE 0) = b * c
    BY <2>4, <2>6
  <2>8. (IF f[p] = Previous(p) THEN y ELSE 0) = y * z
    BY <2>5, <2>6
  <2>9. Cost(p, f[p]) = t * r + u - (IF p \in committed THEN b ELSE 0)
                        - (IF f[p] = Previous(p) THEN y ELSE 0)
    BY <1>1, <2>1, <2>2 DEF Cost
  <2>10. Cost(p, f[p]) = t * r + u - b * c - y * z
    BY <2>7, <2>8, <2>9
  <2>11. t * r + u - b * c - y * z = i * (1 - 1) + (t * r + u) - (b * c + y * z)
    OBVIOUS
  <2>12. Cost(p, f[p]) = i * (1 - Fits(f)[p]) + (t * Ranks(f)[p] + Surprises(f)[p])
                         - (b * Resumes(f)[p] + y * Stays(f)[p])
    <3>1. Cost(p, f[p]) = i * (1 - 1) + (t * r + u) - (b * c + y * z)
      BY <2>10, <2>11
    <3>2. QED
      BY <2>3, <2>6, <3>1, Zenon
  <2>13. /\ Fits(f)[p] \in 0 .. 1 /\ Ranks(f)[p] \in Int /\ Surprises(f)[p] \in Int
         /\ Resumes(f)[p] \in 0 .. 1 /\ Stays(f)[p] \in 0 .. 1
    BY <2>3, <2>6
  <2>14. QED
    BY <1>1, <2>12, <2>13, Zenon
<1>4. CASE p \notin Placeable(f)
  <2>1. f[p] \notin DOMAIN Options(p)
    BY <1>4 DEF Placeable
  <2>2. Fits(f)[p] = 0 /\ Ranks(f)[p] = 0 /\ Surprises(f)[p] = 0
    BY <1>4 DEF Fits, Ranks, Surprises
  <2>3. Resumes(f)[p] = 0 /\ Stays(f)[p] = 0
    BY <1>4 DEF Resumes, WithResume, Stays, Staying
  <2>4. Cost(p, f[p]) = i
    BY <1>1, <2>1 DEF Cost
  <2>5. i = i * (1 - 0) + (t * 0 + 0) - (b * 0 + y * 0)
    OBVIOUS
  <2>6. QED
    BY <1>1, <2>2, <2>3, <2>4, <2>5
<1>5. QED
  BY <1>3, <1>4

\* What a pairing costs, by its terms
LEMMA PriceOfPairing ==
    ASSUME SlotsInv, NEW f \in Pairings
    PROVE  Price(f) = Ineligible * (Paired - Cardinality(Placeable(f)))
                      + (TierStep * TotalOf(Ranks(f)) + TotalOf(Surprises(f)))
                      - (ResumeBonus * Cardinality(WithResume(f))
                         + StayBonus * Cardinality(Staying(f)))
<1> DEFINE D == DOMAIN f
           Sum(g) == SumFunctionOnSet(g, D)
<1>1. PICK y \in Int, t \in Int, b \in Int, i \in Int :
           y = StayBonus /\ t = TierStep /\ b = ResumeBonus /\ i = Ineligible
  BY BonusesAreNat
<1>2. IsFiniteSet(D) /\ Cardinality(D) = Paired
  BY DomainOfPairing
<1>3. PICK o, e, r, u, c, z : /\ o = One(f) /\ e = Fits(f) /\ r = Ranks(f)
                              /\ u = Surprises(f) /\ c = Resumes(f) /\ z = Stays(f)
  OBVIOUS
<1>4. \A p \in D : /\ e[p] \in Int /\ r[p] \in Int /\ u[p] \in Int
                    /\ c[p] \in Int /\ z[p] \in Int
                    /\ Cost(p, f[p]) = i * (1 - e[p]) + (t * r[p] + u[p])
                                       - (b * c[p] + y * z[p])
  BY <1>1, <1>3, CostOfPair
<1>5. \A p \in D : o[p] = 1
  BY <1>3 DEF One
<1>6. Sum(o) = Paired
  <2>1. \A p \in D : o[p] = IF p \in D THEN 1 ELSE 0
    BY <1>5
  <2>2. QED
    BY <1>2, <2>1, SumCounts
<1>7. PICK v, w, x, k, a :
          /\ v = [p \in D |-> i * o[p] + (-i) * e[p]]
          /\ w = [p \in D |-> t * r[p] + 1 * u[p]]
          /\ x = [p \in D |-> b * c[p] + y * z[p]]
          /\ a = [p \in D |-> 1 * v[p] + 1 * w[p]]
          /\ k = [p \in D |-> Cost(p, f[p])]
  OBVIOUS
<1>8. \A p \in D : /\ v[p] = i * o[p] + (-i) * e[p]
                    /\ w[p] = t * r[p] + 1 * u[p]
                    /\ x[p] = b * c[p] + y * z[p]
                    /\ a[p] = 1 * v[p] + 1 * w[p]
                    /\ k[p] = Cost(p, f[p])
  BY <1>7
<1>9. ASSUME NEW p \in D
      PROVE  v[p] \in Int /\ w[p] \in Int /\ x[p] \in Int /\ a[p] \in Int
             /\ k[p] = 1 * a[p] + (-1) * x[p]
  <2>1. PICK e1 \in Int, r1 \in Int, u1 \in Int, c1 \in Int, z1 \in Int :
             e1 = e[p] /\ r1 = r[p] /\ u1 = u[p] /\ c1 = c[p] /\ z1 = z[p]
    BY <1>4
  <2>2. v[p] = i * 1 + (-i) * e1 /\ w[p] = t * r1 + 1 * u1 /\ x[p] = b * c1 + y * z1
    BY <1>5, <1>8, <2>1
  <2>3. i * 1 + (-i) * e1 \in Int /\ t * r1 + 1 * u1 \in Int /\ b * c1 + y * z1 \in Int
    OBVIOUS
  <2>4. PICK v1 \in Int, w1 \in Int, x1 \in Int : v1 = v[p] /\ w1 = w[p] /\ x1 = x[p]
    BY <2>2, <2>3
  <2>5. a[p] = 1 * v1 + 1 * w1
    BY <1>8, <2>4
  <2>6. k[p] = i * (1 - e1) + (t * r1 + u1) - (b * c1 + y * z1)
    BY <1>4, <1>8, <2>1
  <2>7. i * (1 - e1) + (t * r1 + u1) - (b * c1 + y * z1)
        = 1 * (1 * (i * 1 + (-i) * e1) + 1 * (t * r1 + 1 * u1)) + (-1) * (b * c1 + y * z1)
    OBVIOUS
  <2>8. k[p] = 1 * (1 * v1 + 1 * w1) + (-1) * x1
    BY <2>2, <2>4, <2>6, <2>7
  <2>9. QED
    BY <2>4, <2>5, <2>8
<1>10. Sum(v) = i * Sum(o) + (-i) * Sum(e)
  <2>1. Combines(v, i, o, -i, e, D)
    BY <1>4, <1>5, <1>8 DEF Combines
  <2>2. QED
    BY <1>2, <2>1, SumAdds, -i \in Int
<1>11. Sum(w) = t * Sum(r) + 1 * Sum(u)
  <2>1. Combines(w, t, r, 1, u, D)
    BY <1>4, <1>8 DEF Combines
  <2>2. QED
    BY <1>2, <2>1, SumAdds, 1 \in Int
<1>12. Sum(x) = b * Sum(c) + y * Sum(z)
  <2>1. Combines(x, b, c, y, z, D)
    BY <1>4, <1>8 DEF Combines
  <2>2. QED
    BY <1>2, <2>1, SumAdds
<1>13. Sum(a) = 1 * Sum(v) + 1 * Sum(w)
  <2>1. Combines(a, 1, v, 1, w, D)
    BY <1>8, <1>9 DEF Combines
  <2>2. QED
    BY <1>2, <2>1, SumAdds, 1 \in Int
<1>14. Sum(k) = 1 * Sum(a) + (-1) * Sum(x)
  <2>1. Combines(k, 1, a, -1, x, D)
    BY <1>9 DEF Combines
  <2>2. QED
    BY <1>2, <2>1, SumAdds, 1 \in Int, -1 \in Int
<1>15. Price(f) = Sum(k)
  BY <1>7 DEF Price, SumFunction
<1>16. /\ DOMAIN Fits(f) = D /\ DOMAIN Ranks(f) = D /\ DOMAIN Surprises(f) = D
       /\ DOMAIN Resumes(f) = D /\ DOMAIN Stays(f) = D
  BY DEF Fits, Ranks, Surprises, Resumes, Stays
<1>17. /\ Sum(e) = Cardinality(Placeable(f)) /\ Sum(c) = Cardinality(WithResume(f))
       /\ Sum(z) = Cardinality(Staying(f))
       /\ Sum(r) = TotalOf(Ranks(f)) /\ Sum(u) = TotalOf(Surprises(f))
  BY <1>3, <1>16, TermsOfPrice DEF TotalOf
<1> HIDE DEF Sum
<1>18. PICK n \in Int, e2 \in Int, r2 \in Int, u2 \in Int, c2 \in Int, z2 \in Int :
           /\ n = Sum(o) /\ e2 = Sum(e) /\ r2 = Sum(r) /\ u2 = Sum(u) /\ c2 = Sum(c)
           /\ z2 = Sum(z)
  <2>1. Paired \in Int
    BY PairedBounds
  <2>2. /\ Sum(e) \in Int /\ Sum(c) \in Int /\ Sum(z) \in Int
        /\ Sum(r) \in Int /\ Sum(u) \in Int
    BY <1>17, TermsOfPrice
  <2>3. QED
    BY <1>6, <2>1, <2>2
<1>19. Sum(k) = 1 * (1 * (i * n + (-i) * e2) + 1 * (t * r2 + 1 * u2)) + (-1) * (b * c2 + y * z2)
  BY <1>10, <1>11, <1>12, <1>13, <1>14, <1>18
<1>20. 1 * (1 * (i * n + (-i) * e2) + 1 * (t * r2 + 1 * u2)) + (-1) * (b * c2 + y * z2)
       = i * (n - e2) + (t * r2 + u2) - (b * c2 + y * z2)
  OBVIOUS
<1>21. Sum(k) = i * (n - e2) + (t * r2 + u2) - (b * c2 + y * z2)
  BY <1>19, <1>20
<1>22. QED
  BY <1>1, <1>6, <1>15, <1>17, <1>18, <1>21

\* The priorities of the placements a pairing leaves, by the same terms
LEMMA FitnessOfPairing ==
    ASSUME SlotsInv, NEW f \in Pairings
    PROVE  Fitness(Placed(f)) = << Cardinality(Placeable(f)), Cardinality(WithResume(f)),
                                   - TotalOf(Ranks(f)), Cardinality(Staying(f)),
                                   - TotalOf(Surprises(f)) >>
<1> DEFINE D == DOMAIN f
           E == Placeable(f)
<1>1. IsFiniteSet(D) /\ D \subseteq People
  BY DomainOfPairing
<1>2. E \subseteq D /\ E \in SUBSET D
  BY DEF Placeable
<1>3. PICK q : q = Placed(f)
  OBVIOUS
<1>4. DOMAIN q = E /\ \A p \in E : q[p] = f[p]
  BY <1>3 DEF Placed
<1>5. {p \in E : p \in committed} = WithResume(f)
  BY DEF WithResume
<1>6. {p \in E : q[p] = Previous(p)} = Staying(f)
  BY <1>4 DEF Staying
<1>7. \A p \in E : /\ Options(p)[q[p]].rank \in 0 .. 2 /\ Options(p)[q[p]].surprise \in 0 .. 6
                    /\ q[p] = f[p]
  <2> SUFFICES ASSUME NEW p \in E
               PROVE  /\ Options(p)[f[p]].rank \in 0 .. 2
                      /\ Options(p)[f[p]].surprise \in 0 .. 6
    BY <1>4
  <2>1. p \in People /\ f[p] \in DOMAIN Options(p)
    BY <1>1, <1>2 DEF Placeable
  <2>2. QED
    BY <2>1, OptionBounds
<1>8. PICK r, u : /\ r = [p \in E |-> Options(p)[q[p]].rank]
                  /\ u = [p \in E |-> Options(p)[q[p]].surprise]
  OBVIOUS
<1>9. SumFunction(r) = TotalOf(Ranks(f))
  <2>1. \A p \in E : r[p] \in Int
    BY <1>7, <1>8
  <2>2. DOMAIN Ranks(f) = D /\ \A p \in D : Ranks(f)[p] = IF p \in E THEN r[p] ELSE 0
    BY <1>7, <1>8 DEF Ranks
  <2>3. SumFunctionOnSet(Ranks(f), D) = SumFunctionOnSet(r, E)
    <3> HIDE DEF E, D
    <3> QED
      BY <1>1, <1>2, <2>1, <2>2, SumLeavesOut
  <2>4. DOMAIN r = E
    BY <1>8
  <2>5. QED
    BY <2>2, <2>3, <2>4 DEF TotalOf, SumFunction
<1>10. SumFunction(u) = TotalOf(Surprises(f))
  <2>1. \A p \in E : u[p] \in Int
    BY <1>7, <1>8
  <2>2. DOMAIN Surprises(f) = D /\ \A p \in D : Surprises(f)[p] = IF p \in E THEN u[p] ELSE 0
    BY <1>7, <1>8 DEF Surprises
  <2>3. SumFunctionOnSet(Surprises(f), D) = SumFunctionOnSet(u, E)
    <3> HIDE DEF E, D
    <3> QED
      BY <1>1, <1>2, <2>1, <2>2, SumLeavesOut
  <2>4. DOMAIN u = E
    BY <1>8
  <2>5. QED
    BY <2>2, <2>3, <2>4 DEF TotalOf, SumFunction
<1> HIDE DEF E, D
<1>11. Fitness(q) = << Cardinality(E), Cardinality(WithResume(f)), - SumFunction(r),
                       Cardinality(Staying(f)), - SumFunction(u) >>
  BY <1>4, <1>5, <1>6, <1>8 DEF Fitness
<1>12. QED
  BY <1>3, <1>9, <1>10, <1>11 DEF E

\* A product grows with its second factor.
LEMMA ProductGrows ==
    ASSUME NEW a \in Nat, NEW x \in Int, NEW y \in Int, x <= y
    PROVE  a * x <= a * y
<1>1. a * (y - x) >= 0
  <2>1. PICK d \in Nat : d = y - x
    BY y - x \in Nat
  <2>2. a * d \in Nat
    OBVIOUS
  <2>3. QED
    BY <2>1, <2>2
<1>2. a * (y - x) = a * y - a * x
  OBVIOUS
<1>3. a * x \in Int /\ a * y \in Int
  OBVIOUS
<1>4. QED
  BY <1>1, <1>2, <1>3

\* Fewer slots than MaxSlots: each bonus outweighs all that is below it together.
LEMMA BonusesOutweigh ==
    ASSUME Cardinality(Slots) < MaxSlots
    PROVE  /\ 6 * Paired < StayBonus
           /\ 6 * Paired + StayBonus * Paired < TierStep
           /\ 6 * Paired + StayBonus * Paired + TierStep * (2 * Paired) < ResumeBonus
           /\ 6 * Paired + StayBonus * Paired + TierStep * (2 * Paired)
              + ResumeBonus * Paired < Ineligible
<1>1. PICK m \in Nat : m = MaxSlots
  BY SlotsAssumption
<1>2. PICK n \in Nat : n = Paired /\ n + 1 <= m
  BY <1>1, PairedBounds, SlotsAreFinite
<1>3. PICK y \in Nat, t \in Nat, b \in Nat, i \in Nat :
           y = StayBonus /\ t = TierStep /\ b = ResumeBonus /\ i = Ineligible
  BY BonusesAreNat
<1>4. /\ y = 6 * m + 1 /\ t = y * m + 1 /\ b = t * 2 * m + 1 /\ i = b * m + 1
  BY <1>1, <1>3 DEF StayBonus, TierStep, ResumeBonus, Ineligible
<1>5. /\ y * (n + 1) <= y * m /\ t * (2 * (n + 1)) <= t * (2 * m) /\ b * (n + 1) <= b * m
  <2>1. y * (n + 1) <= y * m /\ b * (n + 1) <= b * m
    BY <1>2, ProductGrows, n + 1 \in Int, m \in Int
  <2>2. 2 * (n + 1) <= 2 * m /\ 2 * (n + 1) \in Int /\ 2 * m \in Int
    BY <1>2
  <2>3. t * (2 * (n + 1)) <= t * (2 * m)
    BY <2>2, ProductGrows
  <2>4. QED
    BY <2>1, <2>3
<1>6. PICK yn \in Nat, ym \in Nat, tn \in Nat, tm \in Nat, bn \in Nat, bm \in Nat :
          /\ yn = y * n /\ ym = y * m /\ tn = t * (2 * n) /\ tm = t * (2 * m)
          /\ bn = b * n /\ bm = b * m
  <2>1. /\ y * n \in Nat /\ y * m \in Nat /\ t * (2 * n) \in Nat /\ t * (2 * m) \in Nat
        /\ b * n \in Nat /\ b * m \in Nat
    OBVIOUS
  <2>2. QED
    BY <2>1
<1>7. y * (n + 1) = yn + y /\ t * (2 * (n + 1)) = tn + 2 * t /\ b * (n + 1) = bn + b
  <2>1. y * (n + 1) = y * n + y /\ t * (2 * (n + 1)) = t * (2 * n) + 2 * t
        /\ b * (n + 1) = b * n + b
    OBVIOUS
  <2>2. QED
    BY <1>6, <2>1
<1>8. yn + y <= ym /\ tn + 2 * t <= tm /\ bn + b <= bm
  BY <1>5, <1>6, <1>7
<1>9. t = ym + 1 /\ b = tm + 1 /\ i = bm + 1
  <2>1. t * 2 * m = t * (2 * m)
    OBVIOUS
  <2>2. QED
    BY <1>4, <1>6, <2>1
<1>10. y = 6 * m + 1
  BY <1>4
<1>11. 6 * n < y
  BY <1>2, <1>10
<1>12. 6 * n + yn < t
  BY <1>2, <1>8, <1>9, <1>10
<1>13. 6 * n + yn + tn < b
  BY <1>8, <1>9, <1>12
<1>14. 6 * n + yn + tn + bn < i
  BY <1>8, <1>9, <1>13
<1>15. QED
  BY <1>2, <1>3, <1>6, <1>11, <1>12, <1>13, <1>14

\* Of two pairings one better than the other by the priorities is cheaper.
LEMMA BetterIsCheaper ==
    ASSUME SlotsInv, Cardinality(Slots) < MaxSlots, NEW f \in Pairings, NEW g \in Pairings,
           Better(Fitness(Placed(g)), Fitness(Placed(f)))
    PROVE  ~ (Price(f) <= Price(g))
<1>1. PICK n \in Nat : n = Paired
  BY PairedBounds
<1>2. PICK y \in Nat, t \in Nat, b \in Nat, i \in Nat :
           y = StayBonus /\ t = TierStep /\ b = ResumeBonus /\ i = Ineligible
  BY BonusesAreNat
<1>3. PICK e1 \in 0 .. n, c1 \in 0 .. n, r1 \in 0 .. 2 * n, z1 \in 0 .. n, u1 \in 0 .. 6 * n :
           /\ e1 = Cardinality(Placeable(f)) /\ c1 = Cardinality(WithResume(f))
           /\ r1 = TotalOf(Ranks(f)) /\ z1 = Cardinality(Staying(f)) /\ u1 = TotalOf(Surprises(f))
  BY <1>1, TermsOfPrice
<1>4. PICK e2 \in 0 .. n, c2 \in 0 .. n, r2 \in 0 .. 2 * n, z2 \in 0 .. n, u2 \in 0 .. 6 * n :
           /\ e2 = Cardinality(Placeable(g)) /\ c2 = Cardinality(WithResume(g))
           /\ r2 = TotalOf(Ranks(g)) /\ z2 = Cardinality(Staying(g)) /\ u2 = TotalOf(Surprises(g))
  BY <1>1, TermsOfPrice
<1>5. PICK p \in Int, q \in Int :
           /\ p = i * (n - e1) + (t * r1 + u1) - (b * c1 + y * z1)
           /\ q = i * (n - e2) + (t * r2 + u2) - (b * c2 + y * z2)
           /\ Price(f) = p /\ Price(g) = q
  <2>1. /\ Price(f) = i * (n - e1) + (t * r1 + u1) - (b * c1 + y * z1)
        /\ Price(g) = i * (n - e2) + (t * r2 + u2) - (b * c2 + y * z2)
    BY <1>1, <1>2, <1>3, <1>4, PriceOfPairing, Zenon
  <2>2. /\ i * (n - e1) + (t * r1 + u1) - (b * c1 + y * z1) \in Int
        /\ i * (n - e2) + (t * r2 + u2) - (b * c2 + y * z2) \in Int
    OBVIOUS
  <2>3. QED
    BY <2>1, <2>2
<1>6. Better(<<e2, c2, -r2, z2, -u2>>, <<e1, c1, -r1, z1, -u1>>)
  <2>1. Fitness(Placed(f)) = <<e1, c1, -r1, z1, -u1>>
    BY <1>3, FitnessOfPairing, Zenon
  <2>2. Fitness(Placed(g)) = <<e2, c2, -r2, z2, -u2>>
    BY <1>4, FitnessOfPairing, Zenon
  <2>3. QED
    BY <2>1, <2>2
<1>7. PICK v \in Int : v = 6 * n /\ u1 <= v /\ u2 <= v
  BY 6 * n \in Int
\* one product for each term of the difference
<1>8. PICK ie \in Int, tr \in Int, bc \in Int, yz \in Int :
           /\ ie = i * (e2 - e1) /\ tr = t * (r2 - r1) /\ bc = b * (c2 - c1) /\ yz = y * (z2 - z1)
  <2>1. /\ i * (e2 - e1) \in Int /\ t * (r2 - r1) \in Int /\ b * (c2 - c1) \in Int
        /\ y * (z2 - z1) \in Int
    OBVIOUS
  <2>2. QED
    BY <2>1
<1>9. q - p = tr + (u2 - u1) - ie - bc - yz
  <2>1. (i * (n - e2) + (t * r2 + u2) - (b * c2 + y * z2))
        - (i * (n - e1) + (t * r1 + u1) - (b * c1 + y * z1))
        = t * (r2 - r1) + (u2 - u1) - i * (e2 - e1) - b * (c2 - c1) - y * (z2 - z1)
    OBVIOUS
  <2>2. QED
    BY <1>5, <1>8, <2>1
<1>10. PICK yn \in Int, tn \in Int, bn \in Int :
            /\ yn = y * n /\ tn = t * (2 * n) /\ bn = b * n
            /\ v < y /\ v + yn < t /\ v + yn + tn < b /\ v + yn + tn + bn < i
  <2>1. y * n \in Int /\ t * (2 * n) \in Int /\ b * n \in Int
    OBVIOUS
  <2>2. QED
    BY <1>1, <1>2, <1>7, <2>1, BonusesOutweigh
<1>11. -yn <= yz /\ tr <= tn /\ -bn <= bc
  <2>1. y * (-n) <= y * (z2 - z1) /\ b * (-n) <= b * (c2 - c1)
    <3>1. -n <= z2 - z1 /\ -n <= c2 - c1 /\ -n \in Int /\ z2 - z1 \in Int /\ c2 - c1 \in Int
      OBVIOUS
    <3>2. QED
      BY <3>1, ProductGrows
  <2>2. t * (r2 - r1) <= t * (2 * n)
    <3>1. r2 - r1 <= 2 * n /\ r2 - r1 \in Int /\ 2 * n \in Int
      OBVIOUS
    <3>2. QED
      BY <3>1, ProductGrows
  <2>3. y * (-n) = -(y * n) /\ b * (-n) = -(b * n)
    OBVIOUS
  <2>4. QED
    BY <1>8, <1>10, <2>1, <2>2, <2>3
<1>12. /\ e1 = e2 => ie = 0
       /\ c1 = c2 => bc = 0
       /\ r1 = r2 => tr = 0
       /\ z1 = z2 => yz = 0
  BY <1>8
<1>13. ASSUME NEW a \in Nat, NEW d \in Int, d >= 1
       PROVE  a * d >= a
  <2>1. a * 1 <= a * d
    BY <1>13, ProductGrows, 1 \in Int
  <2>2. QED
    BY <2>1
<1>14. ASSUME e2 > e1
       PROVE  q < p
  <2>1. ie >= i
    BY <1>8, <1>13, <1>14, e2 - e1 \in Int, e2 - e1 >= 1
  <2>2. QED
    BY <1>7, <1>9, <1>10, <1>11, <2>1
<1>15. ASSUME e2 = e1 /\ c2 > c1
       PROVE  q < p
  <2>1. bc >= b
    BY <1>8, <1>13, <1>15, c2 - c1 \in Int, c2 - c1 >= 1
  <2>2. QED
    BY <1>7, <1>9, <1>10, <1>11, <1>12, <1>15, <2>1
<1>16. ASSUME e2 = e1 /\ c2 = c1 /\ r2 < r1
       PROVE  q < p
  <2>1. t * (r1 - r2) >= t
    BY <1>13, <1>16, r1 - r2 \in Int, r1 - r2 >= 1
  <2>2. t * (r1 - r2) = - (t * (r2 - r1))
    OBVIOUS
  <2>3. tr <= -t
    BY <1>8, <2>1, <2>2
  <2>4. QED
    BY <1>7, <1>9, <1>10, <1>11, <1>12, <1>16, <2>3
<1>17. ASSUME e2 = e1 /\ c2 = c1 /\ r2 = r1 /\ z2 > z1
       PROVE  q < p
  <2>1. yz >= y
    BY <1>8, <1>13, <1>17, z2 - z1 \in Int, z2 - z1 >= 1
  <2>2. QED
    BY <1>7, <1>9, <1>10, <1>12, <1>17, <2>1
<1>18. ASSUME e2 = e1 /\ c2 = c1 /\ r2 = r1 /\ z2 = z1 /\ u2 < u1
       PROVE  q < p
  BY <1>9, <1>12, <1>18
<1>19. \/ e2 > e1
       \/ e2 = e1 /\ c2 > c1
       \/ e2 = e1 /\ c2 = c1 /\ r2 < r1
       \/ e2 = e1 /\ c2 = c1 /\ r2 = r1 /\ z2 > z1
       \/ e2 = e1 /\ c2 = c1 /\ r2 = r1 /\ z2 = z1 /\ u2 < u1
  <2> DEFINE x == <<e1, c1, -r1, z1, -u1>>
             w == <<e2, c2, -r2, z2, -u2>>
  <2>1. PICK k \in 1 .. 5 : w[k] > x[k] /\ \A j \in 1 .. k - 1 : w[j] = x[j]
    <3>1. DOMAIN w = 1 .. 5
      OBVIOUS
    <3> HIDE DEF w, x
    <3>2. QED
      BY <1>6, <3>1 DEF Better, w, x
  <2>2. /\ x[1] = e1 /\ x[2] = c1 /\ x[3] = -r1 /\ x[4] = z1 /\ x[5] = -u1
        /\ w[1] = e2 /\ w[2] = c2 /\ w[3] = -r2 /\ w[4] = z2 /\ w[5] = -u2
    OBVIOUS
  <2> HIDE DEF w, x
  <2>3. CASE k = 1
    BY <2>1, <2>2, <2>3
  <2>4. CASE k = 2
    <3>1. 1 \in 1 .. k - 1
      BY <2>4
    <3>2. QED
      BY <2>1, <2>2, <2>4, <3>1
  <2>5. CASE k = 3
    <3>1. 1 \in 1 .. k - 1 /\ 2 \in 1 .. k - 1
      BY <2>5
    <3>2. e2 = e1 /\ c2 = c1 /\ -r2 > -r1
      BY <2>1, <2>2, <2>5, <3>1
    <3>3. QED
      BY <3>2
  <2>6. CASE k = 4
    <3>1. 1 \in 1 .. k - 1 /\ 2 \in 1 .. k - 1 /\ 3 \in 1 .. k - 1
      BY <2>6
    <3>2. e2 = e1 /\ c2 = c1 /\ -r2 = -r1 /\ z2 > z1
      BY <2>1, <2>2, <2>6, <3>1
    <3>3. QED
      BY <3>2
  <2>7. CASE k = 5
    <3>1. 1 \in 1 .. k - 1 /\ 2 \in 1 .. k - 1 /\ 3 \in 1 .. k - 1 /\ 4 \in 1 .. k - 1
      BY <2>7
    <3>2. e2 = e1 /\ c2 = c1 /\ -r2 = -r1 /\ z2 = z1 /\ -u2 > -u1
      BY <2>1, <2>2, <2>7, <3>1
    <3>3. QED
      BY <3>2
  <2>8. QED
    BY <2>3, <2>4, <2>5, <2>6, <2>7
<1>20. q < p
  BY <1>14, <1>15, <1>16, <1>17, <1>18, <1>19
<1>21. QED
  BY <1>5, <1>20

\* Every profile on disk is of a kind that was graded, and the grades are what
\* eligibility says of it.
THEOREM SlotsInvHolds == CorpusSpec => []SlotsInv
<1>1. CorpusInit => SlotsInv
  BY DEF CorpusInit, SlotsInv
<1>2. SlotsInv /\ [CorpusNext]_corpusVars => SlotsInv'
  <2> SUFFICES ASSUME SlotsInv, [CorpusNext]_corpusVars
               PROVE  SlotsInv'
    OBVIOUS
  <2>1. CASE BuildCorpus
    BY <2>1 DEF BuildCorpus, SlotsInv
  <2>2. ASSUME NEW p \in People, Publish(p)
        PROVE  SlotsInv'
    BY <2>2 DEF Publish, SlotsInv
  <2>3. ASSUME NEW p \in People, Recollect(p)
        PROVE  SlotsInv'
    BY <2>3 DEF Recollect, SlotsInv
  <2>4. CASE UNCHANGED corpusVars
    BY <2>4 DEF corpusVars, SlotsInv
  <2>5. QED
    BY <2>1, <2>2, <2>3, <2>4 DEF CorpusNext
<1>3. QED
  BY <1>1, <1>2, PTL DEF CorpusSpec

\* The slots are filled by the priorities in their order, whatever the profiles
\* and whoever has a resume: the cheapest pairing leaves no placement that is
\* better by the first priority in which they differ (assign.py:21-29). It needs
\* one slot fewer than MAX_SLOTS: with as many, the tier step outweighs the
\* bonuses for staying by one, and the surprises come on top of them.
THEOREM PrioritiesHoldHolds ==
    ASSUME Cardinality(Slots) < MaxSlots
    PROVE  CorpusSpec => []PrioritiesHold
<1>1. SlotsInv => PrioritiesHold
  <2> SUFFICES ASSUME SlotsInv, NEW f \in Cheapest, NEW g \in Pairings,
                      Better(Fitness(Placed(g)), Fitness(Placed(f)))
               PROVE  FALSE
    BY DEF PrioritiesHold
  <2>1. f \in Pairings /\ Price(f) <= Price(g)
    BY DEF Cheapest
  <2>2. ~ (Price(f) <= Price(g))
    BY <2>1, BetterIsCheaper
  <2>3. QED
    BY <2>1, <2>2
<1>2. QED
  BY <1>1, SlotsInvHolds, PTL
=============================================================================
