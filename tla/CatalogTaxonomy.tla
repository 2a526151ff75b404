--------------------------- MODULE CatalogTaxonomy --------------------------
(***************************************************************************)
(* How the requirements of one catalog request get their skills: the       *)
(* taxonomy file (taxonomy/document.py, json_repository.py), the extractor *)
(* (extraction/llm_extractor.py), the hybrid normalizer and its selector   *)
(* (taxonomy/normalizer.py, selector.py), both asking a model through      *)
(* llm/gateway_client.py, and the check the recovery executor makes of a   *)
(* result (actions/executor.py).                                           *)
(***************************************************************************)
EXTENDS Integers, Sequences, FiniteSetsExt

CONSTANTS
    Files,           \* taxonomy files: sequences of [id, name, aliases, active]
    Key,             \* normalize_lookup_value of every spelling
    Tokens,          \* the words of every spelling
    RawSkills,       \* what the model may extract: sequences of raw skills
    Proposals,       \* what it may propose for one of them
    ClientAttempts   \* GatewayStructuredLLMClient's max_attempts

NoSkill == "none"
Elements(s) == {s[i] : i \in DOMAIN s}

\* Some places of a list, the earliest first
InOrder(I) == [k \in 1 .. Cardinality(I) |->
                  CHOOSE i \in I : Cardinality({j \in I : j < i}) = k - 1]

\* Raw skills, and what is proposed for one, come as lists, as do the skills of a file.
ASSUME ListsAssumption ==
    /\ \A d \in Files : d \in Seq(Elements(d))
    /\ \A e \in RawSkills : e \in Seq(Elements(e))
    /\ \A p \in Proposals : p.candidates \in Seq(Elements(p.candidates))

VARIABLES
    skills,       \* the taxonomy file
    selector,     \* a TaxonomyMappingSelector is configured
    normalizing, raws, mappings,
    refusals      \* answers of the current model call that were invalid
taxonomyVars == <<skills, selector, normalizing, raws, mappings, refusals>>

-----------------------------------------------------------------------------
(* The file and the lookups made of it                                     *)

\* Fault: an alias is compared with other aliases only.
Integrity_AliasesOnly(d) ==
    /\ d # <<>>
    /\ \A i, j \in DOMAIN d : i # j => d[i].id # d[j].id /\ Key[d[i].name] # Key[d[j].name]
    /\ \A i, j \in DOMAIN d : \A a \in DOMAIN d[i].aliases, b \in DOMAIN d[j].aliases :
          Key[d[i].aliases[a]] = Key[d[j].aliases[b]] => <<i, a>> = <<j, b>>

\* validate_document_integrity: an alias may repeat its own skill's name.
Integrity(d) ==
    /\ d # <<>>
    /\ \A i, j \in DOMAIN d : i # j => d[i].id # d[j].id /\ Key[d[i].name] # Key[d[j].name]
    /\ \A i, j \in DOMAIN d : \A a \in DOMAIN d[i].aliases :
          /\ Key[d[i].aliases[a]] = Key[d[j].name] => i = j
          /\ \A b \in DOMAIN d[j].aliases :
                Key[d[i].aliases[a]] = Key[d[j].aliases[b]] => <<i, a>> = <<j, b>>

\* The repository's dictionaries keep the last of several equal keys.
WithName(key) == {i \in DOMAIN skills : Key[skills[i].name] = key}
WithAlias(key) == {i \in DOMAIN skills : \E a \in Elements(skills[i].aliases) : Key[a] = key}
WithId(id) == {i \in DOMAIN skills : skills[i].id = id}
LastOf(I) == skills[Max(I)]

IsActive(id) == WithId(id) # {} /\ LastOf(WithId(id)).active

-----------------------------------------------------------------------------
(* Mappings                                                                *)

Mapped(i, status, method, skill, candidates) ==
    [source |-> i, raw |-> raws[i], status |-> status, method |-> method,
     skill |-> skill, candidates |-> candidates]

\* TaxonomyMapping.validate_resolution
WellFormed(m) ==
    /\ m.status = "resolved" <=> m.skill # NoSkill
    /\ m.method \in {"exact", "alias"} => m.status = "resolved"
    /\ m.method = "llm_selected" => m.status \in {"resolved", "needs_review"}
    /\ m.method = "unresolved" => m.status \in {"needs_review", "unmapped"}

\* resolve_exact: canonical names before aliases, active or not.
Exact(raw) == WithName(Key[raw]) \cup WithAlias(Key[raw])
ExactMapping(i) ==
    LET named == WithName(Key[raws[i]])
    IN  IF named # {} THEN Mapped(i, "resolved", "exact", LastOf(named).id, <<>>)
        ELSE Mapped(i, "resolved", "alias", LastOf(WithAlias(Key[raws[i]])).id, <<>>)

\* _lexical_candidates: active skills, in the file's order, one of whose
\* phrases has all its words in the raw skill.
Overlaps(raw, s) ==
    \E phrase \in {s.name} \cup Elements(s.aliases) :
        Tokens[phrase] # {} /\ Tokens[phrase] \subseteq Tokens[raw]
Lexical(raw) ==
    LET hits == InOrder({i \in DOMAIN skills : skills[i].active /\ Overlaps(raw, skills[i])})
    IN  [k \in DOMAIN hits |-> skills[hits[k]].id]

\* _fallback_mapping
Fallback(i) ==
    IF Len(Lexical(raws[i])) >= 2
    THEN Mapped(i, "needs_review", "unresolved", NoSkill, Lexical(raws[i]))
    ELSE Mapped(i, "unmapped", "unresolved", NoSkill, <<>>)

\* TaxonomySelection.validate_decision
ValidProposal(p) ==
    /\ p.decision = "select" <=> p.selected # NoSkill
    /\ p.decision = "needs_review" => Len(p.candidates) >= 2

\* dict.fromkeys
Distinct(s) ==
    LET firsts == InOrder({i \in DOMAIN s : \A j \in DOMAIN s : j < i => s[j] # s[i]})
    IN  [k \in DOMAIN firsts |-> s[firsts[k]]]

\* _verified_candidate, _verified_skill, and the two candidates of a review
Verified(p) ==
    /\ \A c \in Elements(p.candidates) : IsActive(c)
    /\ p.decision = "select" => IsActive(p.selected)
    /\ p.decision = "needs_review" => Len(Distinct(p.candidates)) >= 2

\* _mapping_from_selection
FromSelection(i, p) ==
    CASE p.decision = "select" ->
           Mapped(i, "resolved", "llm_selected", p.selected, Distinct(p.candidates))
      [] p.decision = "needs_review" ->
           Mapped(i, "needs_review", "unresolved", NoSkill, Distinct(p.candidates))
      [] OTHER -> Mapped(i, "unmapped", "unresolved", NoSkill, Distinct(p.candidates))

-----------------------------------------------------------------------------
TaxonomyInit == /\ skills \in Files /\ selector \in BOOLEAN
                /\ normalizing = "load" /\ raws = <<>> /\ mappings = <<>> /\ refusals = 0

\* JsonTaxonomyRepository: a file that is not sound is not used at all.
LoadTaxonomy == /\ normalizing = "load"
                /\ normalizing' = IF Integrity(skills) THEN "extract" ELSE "no_taxonomy"
                /\ UNCHANGED <<skills, selector, raws, mappings, refusals>>

\* generate_structured: an invalid answer is asked again, a provider that
\* fails is not.
AskAgain == /\ refusals' = refusals + 1
            /\ normalizing' = IF refusals' < ClientAttempts THEN normalizing ELSE "failed"
            /\ UNCHANGED <<skills, selector, raws, mappings>>
Gone == normalizing' = "failed" /\ UNCHANGED <<skills, selector, raws, mappings, refusals>>

\* LLMRequirementExtractor.extract
Extract ==
    /\ normalizing = "extract"
    /\ \/ /\ raws' \in RawSkills
          /\ normalizing' = "normalize" /\ refusals' = 0
          /\ UNCHANGED <<skills, selector, mappings>>
       \/ AskAgain
       \/ Gone

Next1 == Len(mappings) + 1
Normalizing == normalizing = "normalize" /\ Next1 \in DOMAIN raws

\* A mapping its contract refuses ends the normalization.
Add(m) == /\ IF WellFormed(m)
             THEN mappings' = Append(mappings, m) /\ normalizing' = normalizing
             ELSE mappings' = mappings /\ normalizing' = "failed"
          /\ refusals' = 0
          /\ UNCHANGED <<skills, selector, raws>>

\* normalize: the first of three ways that serves.
ByName == Normalizing /\ Exact(raws[Next1]) # {} /\ Add(ExactMapping(Next1))
ByOverlap == Normalizing /\ Exact(raws[Next1]) = {} /\ ~selector /\ Add(Fallback(Next1))
BySelector ==
    /\ Normalizing /\ Exact(raws[Next1]) = {} /\ selector
    /\ \/ \E p \in Proposals :
             IF ~ValidProposal(p) THEN AskAgain
             ELSE IF Verified(p) THEN Add(FromSelection(Next1, p)) ELSE Gone
       \/ Gone

FinishMappings == /\ normalizing = "normalize" /\ Len(mappings) = Len(raws)
                  /\ normalizing' = "done"
                  /\ UNCHANGED <<skills, selector, raws, mappings, refusals>>

\* The recovery executor normalizes the same extraction again: lookup_taxonomy
\* and reconsider_mapping.
Rerun == /\ normalizing = "done"
         /\ normalizing' = "normalize" /\ mappings' = <<>>
         /\ UNCHANGED <<skills, selector, raws, refusals>>

TaxonomyNext == LoadTaxonomy \/ Extract \/ ByName \/ ByOverlap \/ BySelector \/ FinishMappings \/ Rerun
TaxonomySpec == TaxonomyInit /\ [][TaxonomyNext]_taxonomyVars

-----------------------------------------------------------------------------
\* _normalization_is_safe_and_complete: one mapping for every requirement, by
\* its own raw skill, naming only skills the taxonomy has.
SafeAndComplete(ms) ==
    /\ Len(ms) = Len(raws)
    /\ {m.source : m \in Elements(ms)} = DOMAIN raws
    /\ \A m \in Elements(ms) :
          /\ m.raw = raws[m.source]
          /\ m.skill # NoSkill => WithId(m.skill) # {}
          /\ \A c \in Elements(m.candidates) : WithId(c) # {}

\* ProjectProfileBuilder._validate_and_index: what the builder refuses to build
\* from.
Indexed(ms) ==
    /\ \A k, l \in DOMAIN ms : ms[k].source = ms[l].source => k = l
    /\ {m.source : m \in Elements(ms)} = DOMAIN raws
    /\ \A m \in Elements(ms) :
          m.raw = raws[m.source] /\ (m.status = "resolved" <=> m.skill # NoSkill)

\* Whatever the file and the model say, a finished normalization passes the
\* checks that recovery and the builder make of it, a review offers two skills
\* to choose from, and a raw skill that spells a name or an alias of a skill is
\* mapped to that skill and could be mapped to no other.
NormalizationIsSound ==
    normalizing = "done" =>
        /\ SafeAndComplete(mappings) /\ Indexed(mappings)
        /\ \A m \in Elements(mappings) :
              /\ m.status = "needs_review" => Cardinality(Elements(m.candidates)) >= 2
              /\ \A i \in Exact(m.raw) : m.skill = skills[i].id
=============================================================================
