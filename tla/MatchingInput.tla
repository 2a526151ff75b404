---------------------------- MODULE MatchingInput ----------------------------
(***************************************************************************)
(* What the matching flow loads: src/src/matching/preprocessing.py reads   *)
(* student, project and taxonomy files, brings older shapes into today's,  *)
(* and schemas.py accepts or refuses them.  A source is what the files     *)
(* hold; a missing or malformed file is one that is not readable.          *)
(***************************************************************************)
EXTENDS Integers, SequencesExt

CONSTANT None     \* no parent, no type, no legacy word, and a refused input

IdsUnique(records) == IsInjective([i \in DOMAIN records |-> records[i].id])

\* _read_json, _extract_records over the files given: at least one, none
\* unreadable or empty
Readable(files) == files # <<>> /\ \A f \in ToSet(files) : f.readable /\ f.records # <<>>
Records(files) == FlattenSeq([i \in DOMAIN files |-> files[i].records])

\* StudentSkill, StudentProfile
StudentAccepted(s) == IdsUnique(s.skills) /\ \A k \in ToSet(s.skills) : k.level \in 0 .. 5

\* _normalize_project_record: an old record says "hard", "soft" or "learning"
\* where today's importance stands
LegacyTypes == [hard |-> "hard_requirement", soft |-> "preferred", learning |-> "learning_opportunity"]
NormalizedRequirement(r) ==
    [id |-> r.id, level |-> r.level,
     type |-> IF r.type # None THEN r.type
              ELSE IF r.legacy \in DOMAIN LegacyTypes THEN LegacyTypes[r.legacy] ELSE "preferred",
     importance |-> IF r.legacy = None THEN r.importance ELSE 1]
NormalizedProject(p) ==
    [p EXCEPT !.requirements = [i \in DOMAIN @ |-> NormalizedRequirement(@[i])]]

\* ProjectSkillRequirement, ProjectProfile
ProjectAccepted(p) == /\ p.min >= 1 /\ p.max >= p.min
                      /\ IdsUnique(p.requirements)
                      /\ \A r \in ToSet(p.requirements) : r.level \in 0 .. 5 /\ r.importance > 0

\* _normalize_taxonomy_data: a catalog of skills becomes root - category -
\* skill; a category's node is named by its folded name
TaxonomyNodes(t) ==
    IF t.shape = "nodes" THEN t.records
    ELSE LET new(i) == \A j \in 1 .. i - 1 : t.records[j].category # t.records[i].category
         IN <<[id |-> "root", parent |-> None]>> \o
            FlattenSeq([i \in DOMAIN t.records |->
                (IF new(i) THEN <<[id |-> t.records[i].folded, parent |-> "root"]>> ELSE <<>>)
                \o <<[id |-> t.records[i].id, parent |-> t.records[i].folded]>>])

\* TaxonomyNode, TaxonomyTree
TaxonomyAccepted(nodes) ==
    /\ nodes # <<>> /\ IdsUnique(nodes)
    /\ \A n \in ToSet(nodes) : n.parent # n.id /\ (n.parent = None \/ \E m \in ToSet(nodes) : m.id = n.parent)

\* GAConfig
ConfigAccepted(g) == /\ g.population_size > 0 /\ g.max_generations > 0
                     /\ g.elite_count \in 0 .. g.population_size - 1
                     /\ g.tournament_size \in 1 .. g.population_size

\* load_matching_input: the duplicates are looked for across the files
InputAccepted(src) ==
    /\ Readable(src.students) /\ Readable(src.projects) /\ src.taxonomy.readable
    /\ IdsUnique(Records(src.students)) /\ IdsUnique(Records(src.projects))
    /\ \A s \in ToSet(Records(src.students)) : StudentAccepted(s)
    /\ \A p \in ToSet(Records(src.projects)) : ProjectAccepted(NormalizedProject(p))
    /\ TaxonomyAccepted(TaxonomyNodes(src.taxonomy))
    /\ ConfigAccepted(src.config) /\ src.minimum_lca_depth >= 0

\* preprocess_inputs: the context, with the parent of each known skill
Context(src) ==
    LET nodes == TaxonomyNodes(src.taxonomy)
    IN [students |-> Records(src.students),
        projects |-> [i \in DOMAIN Records(src.projects) |-> NormalizedProject(Records(src.projects)[i])],
        parent |-> [k \in {n.id : n \in ToSet(nodes)} |->
                       (CHOOSE n \in ToSet(nodes) : n.id = k).parent],
        minimum_lca_depth |-> src.minimum_lca_depth,
        allow_unassigned |-> src.allow_unassigned,
        config |-> src.config]
=============================================================================
