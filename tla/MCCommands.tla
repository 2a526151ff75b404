----------------------------- MODULE MCCommands -----------------------------
(* The programs an operator runs, each on its own: command tells which.  The *)
(* two agents, the two pipelines built from them, and the parts of the       *)
(* corpus generator.  Each has variables of its own.                         *)
EXTENDS AdminTerminal, EvidenceAgent, ProfileAgent, OrchestratorRun, DraftRun,
        GitHubCollection, CorpusRegistry, ResumeFiles, CatalogRecovery,
        CatalogTaxonomy, CorpusSlots

VARIABLES command

-----------------------------------------------------------------------------
MCSkills == {"python", "sql"}
MCSkillOf == [Python |-> "python", Python3 |-> "python", SQL |-> "sql", Whittling |-> "unmapped"]

Repo(follow, commits, independent, python, sql) ==
    [is_fork |-> FALSE, own_commits |-> TRUE, own_share |-> TRUE, follow |-> follow,
     commits |-> commits, independent |-> independent, others_depend |-> FALSE, judged |-> 0,
     sustained |-> FALSE, signals |-> [python |-> python, sql |-> sql]]

Tutorial == Repo(TRUE, 9, 3, "hard", "none")
Small == Repo(FALSE, 4, 2, "hard", "weak")
Solid == Repo(FALSE, 5, 2, "hard", "hard")
Used == [Repo(FALSE, 5, 2, "none", "hard") EXCEPT !.others_depend = TRUE]
Maintained == [Repo(FALSE, 9, 2, "hard", "none") EXCEPT !.judged = 3, !.sustained = TRUE]
Topic == Repo(FALSE, 9, 2, "weak", "weak")
Fork == [Maintained EXCEPT !.is_fork = TRUE]

MCRepositories == {R \in SUBSET {Tutorial, Small, Solid, Used, Maintained, Topic, Fork} :
                      Cardinality(R) <= 3}

Claim(name, level) == [name |-> name, level |-> level]
MCPayloads == { <<Claim("Python", 3)>>,
                <<Claim("Python", 1), Claim("Python3", 3), Claim("SQL", 2)>>,
                <<Claim("SQL", 3), Claim("Whittling", 3), Claim("Python", 2)>>,
                <<>> }

-----------------------------------------------------------------------------
MCCapacity == [small |-> 1, large |-> 2]

\* What GitHub holds: one person in every situation, another with nothing
AllParts == [p \in Range(Parts) |-> "value"]
Account(replies, few, others, imported) ==
    [answers |-> replies,
     repository |-> [few |-> few, others |-> others, unlinked |-> 1, imported |-> imported]]
Solo == Account(AllParts, TRUE, FALSE, FALSE)
Team == Account(AllParts, TRUE, TRUE, FALSE)
Imported == Account(AllParts, TRUE, FALSE, TRUE)
Busy == Account([AllParts EXCEPT !["releases"] = "missing"], FALSE, TRUE, FALSE)
Empty == Account([AllParts EXCEPT !["repos"] = "empty"], FALSE, TRUE, FALSE)
Declined == Account([AllParts EXCEPT !["contributors"] = "refused"], TRUE, TRUE, FALSE)
Nobody == Account([p \in Range(Parts) |-> "missing"], FALSE, TRUE, FALSE)
MCWorlds == {[octocat |-> a, ghost |-> Nobody] : a \in {Solo, Team, Imported, Busy, Declined}}
            \cup {[octocat |-> Empty, ghost |-> Solo]}

MCFound == <<<<"ann", "bob", "ann">>, <<"bob", "cyd">>>>
Examined(login, selected) == [login |-> login, selected |-> selected, id |-> 0]
MCHistories == {[candidates |-> <<>>, legacy |-> <<>>],
                [candidates |-> <<Examined("cyd", TRUE), Examined("dan", FALSE)>>,
                 legacy |-> [dan |-> 1, cyd |-> 3]]}

\* Collected repositories, and the profiles made of them
Collected(python, javascript, go, deps, commits, share) ==
    [fork |-> FALSE, project |-> TRUE, hasCode |-> TRUE, readable |-> TRUE,
     code |-> [python |-> python, javascript |-> javascript, go |-> go],
     deps |-> deps, files |-> {}, commits |-> commits, share |-> share]
Api == Collected(30, 10, 0, {"django"}, 8, 60)
Service == Collected(60, 10, 0, {"django"}, 4, 60)
Script == Collected(20, 2, 0, {}, 3, 100)
Study == Collected(25, 0, 1, {"pandas"}, 7, 100)
Site == Collected(0, 9, 3, {}, 1, 100)
Shared == Collected(80, 50, 0, {"django"}, 2, 10)
Forked == [Api EXCEPT !.fork = TRUE]
Notes == [Study EXCEPT !.project = FALSE]
ProfileKinds == [both |-> {Api, Service, Script, Study},
          tools |-> {Script, Site, Service, Notes},
          study |-> {Study, [Study EXCEPT !.commits = 9], Site},
          thin |-> {Site, Script, Shared, Forked}]
\* Two who are as good in either stratum, or better where less of their work is
Notebook(n) == Collected(1, 0, 9, {"pandas"}, n, 100)
SplitKinds == [thin |-> ProfileKinds.thin,
               study |-> ProfileKinds.study,
               even |-> {Api, Service, Study, [Study EXCEPT !.commits = 9]},
               split |-> {Api, Service, Study} \cup {Notebook(n) : n \in 1 .. 5}]
SkillOfLanguage == [python |-> "python", javascript |-> "js", go |-> "go"]
LanguagesOf == [backend |-> {"python"}, dataml |-> {}]
SkillsOf == [backend |-> {"django"}, dataml |-> {}]

\* Taxonomy files: two that are sound, one in which an alias is another skill's
\* name, one in which two skills share an ID, and an empty one
Skill(id, name, aliases, active) ==
    [id |-> id, name |-> name, aliases |-> aliases, active |-> active]
Clouds == <<Skill("cloud", "Cloud", <<"cloud ">>, TRUE), Skill("aws", "AWS", <<>>, TRUE),
            Skill("azure", "Azure", <<>>, TRUE), Skill("k8s", "K8s", <<>>, FALSE)>>
TaxonomyFiles == {Clouds, SubSeq(Clouds, 2, 4),
                  <<Clouds[2], Skill("cloud", "Cloud", <<>>, TRUE),
                    Skill("azure", "Azure", <<"cloud ">>, TRUE)>>,
                  <<Clouds[2], Skill("aws", "Azure", <<>>, TRUE)>>, <<>>}
Lookup == ("Cloud" :> "cloud") @@ ("cloud " :> "cloud") @@ ("AWS" :> "aws") @@
          ("Azure" :> "azure") @@ ("Cloud AWS Azure" :> "all") @@ ("K8s" :> "k8s")
Words == ("Cloud" :> {"cloud"}) @@ ("cloud " :> {"cloud"}) @@ ("AWS" :> {"aws"}) @@
         ("Azure" :> {"azure"}) @@ ("Cloud AWS Azure" :> {"cloud", "aws", "azure"}) @@
         ("K8s" :> {"k8s"})
RawSkillLists == {<<>>, <<"cloud ", "Cloud AWS Azure">>, <<"K8s", "AWS", "Azure">>}
Proposal(decision, selected, alternatives) ==
    [decision |-> decision, selected |-> selected, candidates |-> alternatives]
ModelProposals ==
    {Proposal("select", "aws", <<"azure">>), Proposal("select", "k8s", <<>>),
     Proposal("select", "none", <<"aws">>), Proposal("select", "gcp", <<>>),
     Proposal("needs_review", "none", <<"aws", "azure">>),
     Proposal("needs_review", "none", <<"aws", "aws">>),
     Proposal("needs_review", "none", <<"gcp", "aws">>),
     Proposal("unmapped", "none", <<"azure">>)}

\* Requirements, and the mappings a model may give them
Required(level, hard, verbatim) == [level |-> level, hard |-> hard, verbatim |-> verbatim]
Requirements == {<<>>, <<Required(0, TRUE, TRUE)>>,
                 <<Required(1, TRUE, TRUE), Required(0, FALSE, FALSE), Required(0, TRUE, TRUE)>>,
                 <<Required(0, FALSE, FALSE), Required(2, TRUE, FALSE)>>}
PossibleMappings ==
    {[status |-> "resolved", skill |-> k] : k \in Skills}
    \cup {[status |-> status, skill |-> "none"] : status \in {"needs_review", "unmapped"}}

\* Administrators: two who share the two roles, a name given twice, a bad hash
Administrator(name, hash, role) == [name |-> name, hash |-> hash, role |-> role]
Bo == Administrator("bo", "argon2id", "clarifier")
Unhashed == <<Bo, Administrator("ada", "md5", "escalator")>>
Administrators == {<<Bo, Administrator("ada", "argon2id", "escalator")>>,
                   <<Bo, Administrator("bo", "argon2id", "escalator")>>, Unhashed}
OpenQuestions == {[id |-> "level_0", about |-> "python"], [id |-> "level_0", about |-> "sql"],
                  [id |-> "text_0", about |-> "python"]}

-----------------------------------------------------------------------------
\* Nothing but the part that command names has more than one initial state.
MCInit == /\ command \in {"evidence", "profile", "pipeline", "draft", "collect", "registry",
                           "corpus", "resumes", "normalize", "recover", "administer"}
          /\ command = "evidence" \/ (repos = {} /\ payload = <<>>)
          /\ EvidenceInit
          /\ command = "profile" \/ output = "absent"
          /\ ProfileInit
          /\ RunInit /\ DraftInit /\ ResumeInit
          /\ command = "collect"
             \/ (account = [octocat |-> Empty, ghost |-> Solo]
                 /\ cache = [l \in Logins |-> [p \in Range(Parts) |-> "none"]])
          /\ CollectionInit
          /\ command = "registry" \/ candidates = <<>>
          /\ RegistryInit
          /\ command = "corpus" \/ kind = [p \in People |-> "thin"]
          /\ CorpusInit
          /\ command = "normalize" \/ (skills = <<>> /\ selector = FALSE)
          /\ TaxonomyInit
          /\ command = "recover" \/ (extraction = <<>> /\ normalization = <<>>)
          /\ RecoveryInit
          /\ command = "administer" \/ credentials = Unhashed
          /\ Init

MCNext == \/ command = "evidence" /\ EvidenceNext
             /\ UNCHANGED <<command, profileVars, runVars, draftVars, collectionVars,
                            registryVars, corpusVars, resumeVars, taxonomyVars, recoveryVars, vars>>
          \/ command = "profile" /\ ProfileNext
             /\ UNCHANGED <<command, evidenceVars, runVars, draftVars, collectionVars,
                            registryVars, corpusVars, resumeVars, taxonomyVars, recoveryVars, vars>>
          \/ command = "pipeline" /\ RunNext
             /\ UNCHANGED <<command, evidenceVars, profileVars, draftVars,
                            collectionVars, registryVars, corpusVars, resumeVars, taxonomyVars,
                            recoveryVars, vars>>
          \/ command = "draft" /\ DraftNext
             /\ UNCHANGED <<command, evidenceVars, profileVars, runVars, collectionVars,
                            registryVars, corpusVars, resumeVars, taxonomyVars, recoveryVars, vars>>
          \/ command = "collect" /\ CollectionNext
             /\ UNCHANGED <<command, evidenceVars, profileVars, runVars, draftVars,
                            registryVars, corpusVars, resumeVars, taxonomyVars, recoveryVars, vars>>
          \/ command = "registry" /\ RegistryNext
             /\ UNCHANGED <<command, evidenceVars, profileVars, runVars, draftVars,
                            collectionVars, corpusVars, resumeVars, taxonomyVars, recoveryVars,
                            vars>>
          \/ command = "corpus" /\ CorpusNext
             /\ UNCHANGED <<command, evidenceVars, profileVars, runVars, draftVars,
                            collectionVars, registryVars, resumeVars, taxonomyVars, recoveryVars,
                            vars>>
          \/ command = "resumes" /\ ResumeNext
             /\ UNCHANGED <<command, evidenceVars, profileVars, runVars, draftVars,
                            collectionVars, registryVars, corpusVars, taxonomyVars, recoveryVars,
                            vars>>
          \/ command = "normalize" /\ TaxonomyNext
             /\ UNCHANGED <<command, evidenceVars, profileVars, runVars, draftVars,
                            collectionVars, registryVars, corpusVars, resumeVars, recoveryVars,
                            vars>>
          \/ command = "recover" /\ RecoveryNext
             /\ UNCHANGED <<command, evidenceVars, profileVars, runVars, draftVars,
                            collectionVars, registryVars, corpusVars, resumeVars, taxonomyVars,
                            vars>>
          \/ command = "administer" /\ Next
             /\ UNCHANGED <<command, evidenceVars, profileVars, runVars, draftVars,
                            collectionVars, registryVars, corpusVars, resumeVars, taxonomyVars,
                            recoveryVars>>

MCSpec == MCInit /\ [][MCNext]_<<command, evidenceVars, profileVars, runVars, draftVars,
                                collectionVars, registryVars, corpusVars, resumeVars, taxonomyVars,
                                recoveryVars, vars>>
=============================================================================
