---------------------------- MODULE CorpusSlots -----------------------------
(***************************************************************************)
(* src/generator/github: from the repositories of a bundle to a place in   *)
(* the corpus.  skill_map and signals say what a repository shows and      *)
(* whether it is skill work at all, normalize grades the profile, assign   *)
(* places people into the slots of the strata by one minimisation whose    *)
(* costs encode five priorities.  A placed person may get a resume and is  *)
(* committed from then on; profiles are collected anew meanwhile.          *)
(***************************************************************************)
EXTENDS Integers, SequencesExt, FiniteSetsExt

CONSTANTS People,
          Kinds,          \* a person's repositories: name -> set of repositories
          Strata, Quota,
          LanguageSkill,  \* LANGUAGE_TO_SKILL: language -> skill
          StratumLanguages, StratumSkills,   \* STRATUM_LANGUAGES, STRATUM_SKILLS
          Backend, DataMl, DataMlSkills,     \* "python-backend", "python-data-ml", DATA_ML_SKILLS
          MaxSlots        \* MAX_SLOTS

\* A repository is [fork, project, hasCode, code (language -> kB), deps, files
\* (the skills its manifests and its tree show), commits, share (percent of the
\* commits that are the person's), readable].
Total(r) == Max({1, SumFunction(r.code)})
Percent(r, language) == (100 * r.code[language]) \div Total(r)
Skilled(r) == DOMAIN r.code \cap DOMAIN LanguageSkill

\* Skills at manifest, file or language strength (0.55): a language below 15
\* percent or that is a rounding error does not reach it.
StrongSkills(r) ==
    {LanguageSkill[l] : l \in {k \in Skilled(r) : Percent(r, k) >= 15}} \cup r.deps \cup r.files

\* skill_relevance: every rule must pass
Relevant(r) == /\ ~ r.fork /\ r.project /\ r.hasCode
               /\ SumFunctionOnSet(r.code, Skilled(r)) >= 2
               /\ StrongSkills(r) # {}
               /\ r.commits >= 1
               /\ r.share >= 20

RelevantOf(repos) == {r \in repos : Relevant(r)}

\* assess_usability, over the skills aggregate_skills rolls up
Tier(repos) ==
    IF Cardinality(RelevantOf(repos)) < 3 \/ ~ \E r \in repos : r.readable THEN "unusable"
    ELSE IF \/ SumFunction([r \in repos |-> r.commits]) < 20
            \/ Cardinality(UNION {StrongSkills(r) : r \in repos}) < 3
         THEN "relaxed" ELSE "strict"

\* _main_strata: the primary language, or a quarter of the bytes
DoesDataMl(r) == StrongSkills(r) \cap DataMlSkills # {}
Primary(r) == {l \in DOMAIN r.code : \A k \in DOMAIN r.code : r.code[k] <= r.code[l]}
Main(r) ==
    LET languages == {l \in DOMAIN r.code : Percent(r, l) >= 25} \cup Primary(r)
        strata == {s \in Strata : StratumLanguages[s] \cap languages # {}}
    IN IF Backend \in strata /\ DoesDataMl(r) THEN (strata \ {Backend}) \cup {DataMl} ELSE strata

\* repo_distribution: bytes, at least 30 percent for a skill; Python that does
\* data work is data work
Kilobytes(r, s) == SumFunctionOnSet(r.code, StratumLanguages[s] \cap DOMAIN r.code)
OwnWeight(r, s) ==
    LET wanted == IF s = DataMl THEN DataMlSkills ELSE StratumSkills[s]
    IN Max({IF Kilobytes(r, s) >= 1 THEN (100 * Kilobytes(r, s)) \div Total(r) ELSE 0,
            IF StrongSkills(r) \cap wanted # {} THEN 30 ELSE 0})
Weight(r, s) ==
    CASE ~ DoesDataMl(r) -> OwnWeight(r, s)
      [] DoesDataMl(r) /\ s = Backend -> 0
      [] DoesDataMl(r) /\ s = DataMl -> Max({OwnWeight(r, DataMl), OwnWeight(r, Backend)})
      [] DoesDataMl(r) /\ s \notin {Backend, DataMl} -> OwnWeight(r, s)
Mass(r) == SumFunction([s \in Strata |-> Weight(r, s)])
Portion(r, s) == IF Mass(r) = 0 THEN 0 ELSE (100 * Weight(r, s)) \div Mass(r)

\* -log2 p, rounded down; p is at least one percent, and halved k times what
\* entry k + 1 leaves of the whole
Halved == <<100, 50, 25, 12, 6, 3, 1>>
Surprise(share) == Max({k \in 0 .. 6 : Max({share, 1}) <= Halved[k + 1]})

\* eligibility: tier rank (0 strict, 1 relaxed, 2 partial) and -log2 p(stratum)
Touched(repos) == {s \in Strata : \E r \in RelevantOf(repos) : Weight(r, s) > 0 \/ s \in Main(r)}
Support(repos, s) == Cardinality({r \in RelevantOf(repos) : s \in Main(r)})
Share(repos, s) == SumFunction([r \in RelevantOf(repos) |-> Portion(r, s)])
                   \div Cardinality(RelevantOf(repos))
Eligibility(repos) ==
    IF Tier(repos) = "unusable" THEN <<>>
    ELSE [s \in Touched(repos) |->
             [rank |-> IF Tier(repos) = "strict" /\ Support(repos, s) >= 2 THEN 0
                       ELSE IF Support(repos, s) >= 1 THEN 1 ELSE 2,
              surprise |-> Surprise(Share(repos, s))]]

StayBonus == 6 * MaxSlots + 1
TierStep == StayBonus * MaxSlots + 1
ResumeBonus == TierStep * 2 * MaxSlots + 1
Ineligible == ResumeBonus * MaxSlots + 1

\* Profiles are finite, their numbers of bytes natural; assign refuses more slots
\* than MaxSlots.
ASSUME SlotsAssumption ==
    /\ IsFiniteSet(People) /\ IsFiniteSet(Strata) /\ Quota \in Nat /\ MaxSlots \in Nat
    /\ Cardinality(Strata \X (1 .. Quota)) <= MaxSlots
    /\ {Backend, DataMl} \subseteq Strata
    /\ \A k \in DOMAIN Kinds :
          /\ IsFiniteSet(Kinds[k])
          /\ \A r \in Kinds[k] : IsFiniteSet(DOMAIN r.code) /\ r.code \in [DOMAIN r.code -> Nat]

VARIABLES kind,      \* person -> kind of profile on disk
          graded,    \* kind of profile -> the strata it is eligible for; worked out once
          committed, \* people with a resume in applicants.csv
          corpus     \* corpus.json: person -> stratum of the last build

corpusVars == <<kind, graded, committed, corpus>>

CorpusInit == /\ kind \in [People -> DOMAIN Kinds]
              /\ graded = [k \in DOMAIN Kinds |-> Eligibility(Kinds[k])]
              /\ committed = {} /\ corpus = <<>>

Options(p) == graded[kind[p]]
Previous(p) == IF p \in committed /\ p \in DOMAIN corpus THEN corpus[p] ELSE "none"

\* Fault: a resume weighs no more than staying put.
Cost_LightResume(p, s) ==
    IF s \notin DOMAIN Options(p) THEN Ineligible
    ELSE TierStep * Options(p)[s].rank + Options(p)[s].surprise
         - (IF p \in committed THEN StayBonus ELSE 0)
         - (IF s = Previous(p) THEN StayBonus ELSE 0)

\* placement_cost, and the cost of a pair that must not be
Cost(p, s) ==
    IF s \notin DOMAIN Options(p) THEN Ineligible
    ELSE TierStep * Options(p)[s].rank + Options(p)[s].surprise
         - (IF p \in committed THEN ResumeBonus ELSE 0)
         - (IF s = Previous(p) THEN StayBonus ELSE 0)

\* assign: people with any option against the slots; linear_sum_assignment pairs
\* as many as there are of the fewer, at the least total; ineligible pairs go.
Candidates == {p \in People : Options(p) # <<>>}
Slots == Strata \X (1 .. Quota)

\* Every way to give slots to people: person -> stratum
Pairings == LET size == Min({Cardinality(Candidates), Cardinality(Slots)})
            IN {[p \in DOMAIN f |-> f[p][1]] :
                   f \in UNION {Injection(C, Slots) : C \in kSubset(size, Candidates)}}
Price(pairing) == SumFunction([p \in DOMAIN pairing |-> Cost(p, pairing[p])])
Placeable(pairing) == {p \in DOMAIN pairing : pairing[p] \in DOMAIN Options(p)}
Placed(pairing) == [p \in Placeable(pairing) |-> pairing[p]]
Cheapest == {f \in Pairings : \A g \in Pairings : Price(f) <= Price(g)}
Assignments == {Placed(f) : f \in Cheapest}

\* gh build: the assignment is computed and saved
BuildCorpus == /\ corpus' \in Assignments
               /\ UNCHANGED <<kind, graded, committed>>

\* A resume is generated for someone placed by assign.current() (build_spec)
Publish(p) == /\ p \notin committed
              /\ \E placed \in Assignments : p \in DOMAIN placed
              /\ committed' = committed \cup {p}
              /\ UNCHANGED <<kind, graded, corpus>>

\* The person is collected and normalized again.
Recollect(p) == /\ \E k \in DOMAIN Kinds \ {kind[p]} : kind' = [kind EXCEPT ![p] = k]
                /\ UNCHANGED <<graded, committed, corpus>>

CorpusNext == \/ BuildCorpus
              \/ \E p \in People : Publish(p) \/ Recollect(p)

CorpusSpec == CorpusInit /\ [][CorpusNext]_corpusVars

-----------------------------------------------------------------------------
\* The priorities of a set of placements, the first ones first (assign.py:21-29)
Fitness(placed) ==
    << Cardinality(DOMAIN placed),
       Cardinality({p \in DOMAIN placed : p \in committed}),
       - SumFunction([p \in DOMAIN placed |-> Options(p)[placed[p]].rank]),
       Cardinality({p \in DOMAIN placed : placed[p] = Previous(p)}),
       - SumFunction([p \in DOMAIN placed |-> Options(p)[placed[p]].surprise]) >>

Better(a, b) == \E i \in DOMAIN a : a[i] > b[i] /\ \A j \in 1 .. i - 1 : a[j] = b[j]

\* "Slots are filled by an optimal assignment, with priorities in this order": no
\* other placement is better by the first priority in which they differ - the
\* costs of one level outweigh all lower ones together (assign.py:21-29, 101-109).
PrioritiesHold ==
    \A f \in Cheapest, g \in Pairings : ~ Better(Fitness(Placed(g)), Fitness(Placed(f)))
=============================================================================
