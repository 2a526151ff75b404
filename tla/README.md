# Formal models of the intern assignment platform

The platform takes intern applications (a résumé and a GitHub login), lets
agents read skills and levels out of them, keeps a catalog of company projects
with the skills their roles need, and matches applicants to roles with a
genetic optimizer whose proposals managers approve, move or reject. This
directory holds TLA+ models of the parts of it where the order of events
matters, TLC configurations that check them on small instances, and proofs,
checked by TLAPS, that the main properties hold for every instance.

Paths below are those of the repository, with the prefix `src/`.

## Inventory

| Part (code) | State it keeps | Operations | Module |
|---|---|---|---|
| Placement service: `src/src/backend/services/assignment.py`, `repositories.py`, `api/routes_manager.py` | assignment runs and their configuration, assignments, role capacities, one background task per run | create run, optimize, patch an assignment, assign manually, edit and delete roles | `SeatLedger`, `Placement`, `PlacementRequests` |
| Matching engine: `src/src/matching`, `src/scripts/run_matching_flow.py` | population, best assignment, artifact files | load, prune, seed, evaluate, breed, repair, validate, save | `MatchingInput`, `MatchingEngine`, `MatchingFlow` |
| Applicant processing: `services/processing.py`, `persistence.py`, `skill_overrides.py` | applicant status, agent runs, skill rows and their pins, GitHub snapshot | submit, reprocess, reverify, the four stages, manager overrides | `Processing`, `ProcessingRequests` |
| Skill levels: `src/pipeline/resolve_profile.py`, `services/skill_resolution.py`, `skill_overrides.py`, `evidence_agent/{claims,verify}.py` | levels, verdict, flag and final level of a skill row; its marks and evidence items | resolve, re-derive, PATCH, add, remove | `SkillLevels`, `SkillRows`, `SkillEdits` |
| Intake and storage: `api/routes_public.py`, `storage.py`, `legacy_import.py` | applicant rows, résumé files | apply, import the older files | `ApplicantDirectory`, `Intake` |
| Evidence agent: `src/src/evidence_agent` | claims, rule readings, verdicts, report | load, assess, ask the model, retry, correct, reconcile | `EvidenceRules`, `EvidenceAgent` |
| Profile agent: `src/src/profile_agent` | answers so far, the output file | extract, ask, correct, write | `ProfileAgent` |
| Catalog workflow: `src/src/project_catalog_agent/{workflow,agent,actions,persistence,profile}` | graph checkpoint, artifacts, recovery and clarification histories, stored project | ten graph nodes, start, resume | `CatalogProfile`, `CatalogPolicy`, `CatalogWorkflow`, `CatalogRecovery` |
| Catalog extraction and normalization: `project_catalog_agent/{taxonomy,extraction,llm}` | the taxonomy file, the mappings | load, extract, normalize, ask the model | `CatalogTaxonomy` |
| Catalog administration: `project_catalog_agent/admin`, `workflow_cli.py`, `agent/escalation.py` | credentials, one session per terminal, the checkpoint, audit events | log in, review, answer | `AdminTerminal` |
| Batch pipeline: `src/pipeline/orchestrator.py`, `integrated.py` | stage files, a run's folder | run, run again, draft | `OrchestratorRun`, `DraftRun` |
| Corpus generator: `src/generator` | GitHub cache and bundles, `candidates.json`, profiles, slots, specs, PDFs, `applicants.csv` | `gh sample`, `gh collect`, `gh build`, `assign`, `gen`, `remove`, `manifest --rebuild` | `GitHubCollection`, `CorpusRegistry`, `CorpusSlots`, `ResumeFiles` |
| Catalog management, evaluation scripts, résumé texts, demo, frontend, schema and migrations | — | — | not modelled |

How they interact. FastAPI serves every request in a thread with a session of
its own; PostgreSQL runs at READ COMMITTED and no query locks a row. Handlers
start background tasks in the same process; a task works for seconds (an
assignment run) or minutes (an applicant) in many short transactions while
managers go on working. A restart loses the tasks and nothing picks them up
again (`src/README.md:286`). Processing publishes an applicant as `ready`;
placement reads ready applicants only. The catalog workflow is a LangGraph graph
with durable SQLite checkpoints after each superstep, run from
`workflow_cli.py`, next to a project repository that is a database of its own.

The command line programs (the two agents, the pipelines, the generator, the
catalog terminals) are processes of their own. They meet in files: the catalog
terminals in a checkpoint database, `gh` commands in `candidates.json` and the
cache, `gen` commands in `applicants.csv`, matching flows in a directory of
numbered artifacts. An operator may kill any of them and start it again.

What is hard: a check and the commit it guards lie in different moments
(approvals, overrides, pins); capacity is counted from two overlapping sources
and may be edited under a running optimizer; several runs compete for the same
applicants and seats; two tasks may work on one applicant; a model may answer
anything, fail, or be retried inside a retry; the catalog graph loops through
recoveries and is only stopped by counters; issues, questions and requirements
are named by places in lists that change; a crash may fall between two writes
that belong together (a row and its file, a commit and its checkpoint, a spec, a
PDF and its row). `PROJECT.json` lists these hazards line by line with the
properties that cover each.

## The modules

### Placement

`SeatLedger` is the promise: each applicant holds at most one seat, a free one
when taken, and seats are taken, moved, released and resized, nothing else.

`Placement` has one action per handler and four per background task. `run`,
`row`, `roleState`, `capacity`, `ready` are the tables; `task` and `loaded` are
the process's memory: which tasks exist and what they read. `CheckApproval`,
`CheckOverride`, `HasOpenSeat` and `InUse` are `check_approval`,
`override_role`'s tests, `open_seats` and `role_in_use`. `CreateRun` freezes the
seats left; `LoadRun` reads what is still there; `CompleteRun` commits any
proposal inside the seats it was created with (the optimizer is abstracted to
this set), all rows or none. A restart (`Crash`), or a database error that its
`except` cannot record either (`LoseTask`), makes a task `lost`; a task that
ends in any other way leaves its run completed or failed. A project is the set of its roles. `ImplementsLedger` states
that Placement, seen through `Holder`, is a SeatLedger.

`PlacementRequests` splits the handlers that write placements into `Begin`
(loads and first checks), `Check` (`check_approval` on what is committed then)
and `Commit` (writes the columns that changed). Foreign keys and the unique key
on run and applicant are guards of the commits.

### Applicant processing

`Processing` follows the background task transaction by transaction: `Load`,
`Enter` for each stage, the outcome of each stage, `CollectGithub` (a
transaction of its own), then `ReadPinned`, `DeleteRows`, `CommitSkills` for
the three statements of `replace_applicant_skills`, `CloseResolve`, and `Fail`.
A row is abstracted to who inserted it and the last override; `doomed` is what
the DELETE saw. `Lose` is a restart, or a database error outside the `try`
blocks. `CanReprocess` is what the handlers refuse; `Patient` says whether managers
wait on their own accord for the first result of a new application before they
reprocess it (`MayAsk`), `Outages` whether tasks get lost.

`ProcessingRequests` splits reprocess, reverify and the overrides into the read
of the status and the commit. Between the two lies, for reverify, an HTTP
request to GitHub.

### Matching engine

`MatchingInput` is what the flow loads: files in their older and today's shapes,
accepted or refused. `MatchingEngine` is pure: the candidates of a student by the
depth of the lowest common ancestor of two skills, the score of an assignment in
hundredths of a percent rounded down, and `Repaired`, the six phases of
`repair.py` one after the other, as the set of results its random choices can
have; a phase that loops is a function for one turn, iterated over the positions. `MatchingFlow` is one run: load, prune, seed the population member by
member, evaluate, the stop reasons in the order of the code, elites, tournament,
crossover, mutation and repair of each child, validation, and the artifact that
is saved under the next free number while `MaxOthers` other flows save too.
Whatever a random generator draws is a `\E`.

### Skill levels

`SkillLevels` is pure: verdict, final level and flag from a claimed and an
observed level, the merging of two spellings of a skill (each component has its
own rule), and the bounds on what a model may change. `SkillRows` adds the
resolve stage and concurrent PATCH requests: each computes derived columns from
the row it read and writes the columns that changed. `SkillEdits` is the life of
one row and its evidence items: a removal is a mark, requests overlap, and a
resolution replaces what is not pinned in the three statements of
`replace_applicant_skills` (`ReadPins`, `DeleteRow`, `CommitResolution`), any of which
may fail. Processing refuses requests while it works, but not those that read the row
before; the legacy import, which calls the same function, refuses none. An UPDATE of
the row waits (`Locked`) while a transaction that deletes it is open. One resolution
at a time is modelled; two tasks at once are in `ProcessingRequests`.

### Intake

`Intake` follows `POST /api/applications` through its steps (the form, the email
check, the temporary file, its final name, the insert that may meet
`uq_applicants_email_lower`, the deletion of the refused upload) and the import,
one transaction over all rows with a file per applicant. `KillApi` and
`KillImport` may fall anywhere; the import is run again. An empty cohort goes straight
to its commit.

`ApplicantDirectory` is the promise, without files, transactions or steps: one applicant
per email, each request answered once and truly, each import entered as a whole.
`ActsAsDirectory` states that Intake, seen through the makers and emails of the
committed rows and what each request has been told, is such a directory. A request
that is between two steps has been told nothing yet; it is decided where its answer
becomes final: at the insert for "201", at the look at the email or at the end of the undo for "409".

### The agents

`EvidenceRules` reads repositories: a level, a strength or a weak hint for each
skill, by the rules of `observe.py`, and the claims from the names a profile
uses. `EvidenceAgent` is one call of the agent's graph over these: every answer
the model may give, transient and final gateway failures, attempts nested in
correction rounds. `ProfileAgent` is one call of the other agent: documents, the
gateway, an answer that is cut, about someone else, or usable, and the atomic
write over an earlier profile, killed anywhere.

### Catalog requests around the workflow

`CatalogTaxonomy` loads a taxonomy file (its integrity check and its two
dictionaries), extracts, and normalizes each raw skill by name, by overlap or by
asking the model, whose proposals are checked. `CatalogRecovery` follows one issue
of a validated profile from its field path through the request to the requirement
an action works on, and has the result each action returns. `AdminTerminal` has
several terminals at one checkpoint: each reads the request, logs an
administrator in, and decides or answers on what it has read; a review is read
back and saved in two steps. `Together` says whether the two steps of two
processes may interleave.

### Pipelines

`OrchestratorRun` is `orchestrator.run`, called again with the same `run_id`: a
stage is loaded from its file or computed by worker threads under a budget, and
its file is opened and filled in place. `DraftRun` is `integrated.run`, from the
manifest to a draft that asks for a review, in a folder it must create.

### Corpus generator

`GitHubCollection` fetches a bundle part by part through a cache, with retries,
refusals and limits, and attributes unlinked commits. `CorpusRegistry` is
`candidates.json` between `gh sample`, `gh collect` and `gh build`, with the old
ID file that `build` takes over. `CorpusSlots` goes from repositories to
relevance, tiers and the minimisation that fills the slots. `ResumeFiles` has the
spec, the PDF and the row of a résumé, the lock file and its stale-lock rule. The age of
the lock file is not modelled: a process that waits may find any lock too old, the lock
of a process that goes on too (one that was suspended for two minutes while it had it).
The history variable `usurped` remembers that such a lock was broken.
In all four a process may be killed between any two steps. `SampleBesideBuild` and
`RemoveBesideGen` say whether commands run beside each other that an operator is
expected to run alone.

`MCCommands` puts these programs, the agents, the pipelines and two parts of the
catalog into one instance: `command` chooses a program, which then runs alone with
its own variables. It extends the modules, so that each says its `Init`, `Next` and
`Spec` under a name of its own (`EvidenceInit`, `RunInit`, `CollectionInit`,
`CorpusInit`, `RecoveryInit`, `TaxonomyInit`, ...). `MCIntake` does the same for `SkillEdits` and `Intake`, and
`MCMatchingFlow` for `SkillRows` and `MatchingFlow`, which works with the levels of
such rows.

### Catalog workflow

`CatalogProfile` builds a profile from an extraction (a sequence of
requirements) and its taxonomy mappings, and validates it. `CatalogPolicy` is
`decision.py`: which issue comes first, which recovery is usable for it given
the history, escalation. `CatalogWorkflow` is the graph, one step per superstep
(LangGraph checkpoints after each), with the state updater's rules, the recovery
executor, the interrupt, accepted and refused answers, the publication guard and
the idempotent insert, and the environment's faults: `Crash` between two
supersteps (which loses the one it falls in), `CrashAfterCreate` between
the repository's commit and the checkpoint, `FreshCheckpoint` for a request that
is submitted again with another checkpoint database.

Abstractions: names, texts and quotes are dropped, an extraction is the level,
hardness and verbatim evidence of each requirement, and confidences are taken
equal. Left out: `rebuild_profile` and the structural issues, which the agent's
own builder cannot cause; warnings; the review record of an escalation; the
repeated previous decision after an exception of `decide`, which the state
contract rules out (`ContractKept`). A thread whose process died stays
`orphaned` unless it waits for an answer: `start` reports its checkpoint and
does not continue it (`workflow/facade.py:56`).

## What the runs check

Deadlock checking is on in `matching`, whose flows end in a saved result or a
refusal and stay there, and whose rows can always be changed again. It is off in the others: the requests, tasks and edits of
an instance are used once each, so an instance stops when they are used up.

| Run | Instance | Shows |
|---|---|---|
| `placement` | 2 applicants, 2 roles of one seat, 2 runs | one placement per applicant; the seat ledger is implemented, by every sequence of proposals, moves, rejections, approvals and manual placements |
| `placement_tasks` | 3 applicants, 1 role of up to 2 seats, 1 run; capacities may shrink | no step overfills a seat, whatever managers do to capacities, roles and applicants while the optimizer works; every queued run is completed or failed, unless a restart or a database error lost its task |
| `placement_requests` | 2 applicants, 1 role, 1 run, 2 concurrent requests | when checks and commits interleave, no role that history names is deleted |
| `matching` | one skill's levels with 1 PATCH; 3 students, 2 projects, 5 inputs that can be matched and 5 that are refused; every random choice; 2 other flows | the derived columns of a row follow from its levels; every team of every generation is feasible, nobody is left out who could join a running project, no artifact is overwritten |
| `processing` | 2 skills, 2 tasks, 2 overrides, patient managers, outages | one task at a time, one task's rows, overrides kept |
| `processing_requests` | 1 skill, 2 tasks, 2 concurrent requests, impatient managers, no outages | with two tasks on one applicant: `processing` has a live task, every application and re-run settles |
| `intake` | 1 skill, 2 evidence items, 2 overlapping requests, 3 rows inserted by managers, processing or the import; 2 applications, 2 emails, 2 imports of 2 rows | what was removed stays removed, but for a resolution that had read the pins before; every résumé a row names can be opened; a refused application leaves nothing behind |
| `catalog` | 3 skills of which 1 inactive, up to 2 requirements, 3 recoveries, 20 transitions, 1 refused answer | fresh artifacts, sound publications, bounded recoveries, a limit that only refusals exhaust |
| `catalog_restart` | 2 skills, up to 3 requirements, 3 recoveries, 11 transitions, 1 run on a fresh checkpoint database | a project is created once and never replaced, `completed` means stored, no question is asked twice, a running graph ends or asks |
| `commands` | eleven programs, each on its own; see below | what each program leaves on disk or hands on is complete and belongs together |
| `approve_twice` | counterexample | two concurrent approvals of one applicant in two runs both commit (`src/README.md:76` says each applicant can hold one) |
| `stuck_after_crash` | counterexample | a task lost in a restart leaves an applicant that reprocess refuses for ever (`processing.py:15` says a manager can reprocess it) |

The programs of `commands`, the value of `command`, and what is shown of each:

| `command` | Instance | Property |
|---|---|---|
| `evidence` | up to 3 of 7 kinds of repositories, 2 skills, 4 payloads, 3 attempts, 3 rounds | `EveryClaimIsJudged`, `EvidenceNeverHurts` |
| `profile` | 3 attempts, 3 answers, 2 calls, killed anywhere | `OutputIsWhole`: the file is never torn, unvalidated or another applicant's |
| `pipeline` | 2 applicants, 2 project inputs, 6 calls, 2 workers, 2 runs | `MatrixFits`: the parts of the matrix belong together after any failure and re-run |
| `draft` | 2 runs at one folder, 2 inputs, 2 offers | `ReviewIsPossible` |
| `collect` | 2 logins, 6 worlds, 2 requests a URL, 2 starts, another command at the cache | `BundleIsComplete`, `CreditIsSafe` |
| `registry` | 3 people, 2 windows, with and without older files, 3 runs | `IdIsForever` |
| `corpus` | 3 people, 2 strata, 4 kinds of profiles | `PrioritiesHold`: one sum of costs orders five priorities |
| `resumes` | 2 processes, 2 applicants, 2 commands each | `PdfHasRow`, `RowsKept`: until a lock is broken whose owner goes on |
| `normalize` | 5 taxonomy files, 3 extractions, 8 proposals | `NormalizationIsSound` |
| `recover` | every mapping of up to 3 requirements to 2 skills | `IssueHasItsTarget` |
| `administer` | 2 terminals, 2 administrators, 3 questions of which 2 share an ID, 1 escalation | `ReviewsStay`, `AnswerFitsQuestion` |

### Why the bounds are enough

Two applicants for one seat, or one applicant in two runs, are the smallest
instances where capacity and one placement can be violated; two roles are needed for
moves, three applicants for a capacity of two that is lowered under two holders.
`placement` restricts TLC to states in which roles and applicants are settled
before the first run (`Settled`, a state constraint); `placement_tasks` has no
constraint and lets them change at any time. Applicants, roles, runs, tasks and
requests are interchangeable, so symmetry is used in runs without liveness.

In `processing` two tasks and two overrides suffice for a re-run, an override
before and after it, and a restart in either task. `processing_requests` has
two requests and two tasks, so that two requests can both pass the status check
and two tasks run at once.

The sources of `matching` were chosen so that each phase of repair has work: a
project above its maximum, one below its minimum that is filled, one that cannot
be filled and loses its team, an uncovered hard requirement, students left over,
and both shapes of a taxonomy, one of them with a cycle that is refused or
survived. Two skills, three students and two projects are the smallest instance
in which a phase can undo what an earlier one did.

In `intake` two requests and the import compete for two emails, so each pair can
meet; three identities of a skill row are one before, one during and one after a
resolution. In `commands` every program has two actors wherever the code has several
(workers, terminals, processes, runs), one more start than it needs to recover
from a kill, and inputs of each kind the code tells apart; in
`GitHubCollection` one mined repository stands for all, since a bundle is kept
or dropped as a whole.

In the catalog runs the inputs were chosen so that each issue of the policy
occurs: an empty extraction, a hard requirement without a level, evidence that
is not verbatim, an inactive, an ambiguous and an unmapped skill, two
requirements merged into one, and two in competition. `MaxTransitions` is
5 * MaxTotal + 5 in `catalog`, as it is in the defaults (30 and 5). In
`catalog_restart` it is 11, below that, so the limit is met as well. Its long
answer has three requirements: with one mapped and two ambiguous, answering the
first question moves the other requirement into its place, and an issue is known
by its place.

### Further configurations

Two more configurations end in a counterexample each. They mark where an issue
that is known by its place is taken for another one.

| Configuration | Module | Property | What it shows |
|---|---|---|---|
| `MCAnswerLost.cfg` | `MCCatalogWorkflow` | `AnswerStands` | answering a missing level clears the mapping an administrator chose before; the requirement is ambiguous again, may not be asked again and is escalated (`clarification.py:217` says the answer was applied) |
| `MCPositionalIssue.cfg` | `MCCatalogWorkflow` | `ExhaustedWasTried` | when an earlier entry of a list is resolved the next one inherits its attempts and is escalated untried (`decision.py:365`, `executor.py:290`) |

`MCIntake.cfg` with `ActsAsDirectory` as its only property (the same states)
checks the refinement of `ApplicantDirectory`, and ends without error. It has a
counterexample when the insert does not test the email, when the import's insert does
not, or when a request does not wait for an import that has flushed the email.

The constants of the passing runs hold assumptions; changing one shows what each
is for.

| Change | Property lost | What happens |
|---|---|---|
| `MCPlacement`: `MayShrink = TRUE` | `CapacityRespected` | a capacity may be lowered below the seats in use (`src/README.md:77`) |
| `MCPlacementRequests` with one run | `CapacityRespected` | two concurrent approvals take the last seat (`assignment.py:456`) |
| none, on `MCPlacement` | `SolverChoiceKept` | a manual placement over a rejected row replaces the solver's role (`models.py:391` says it is never overwritten; `src/README.md:73` describes the replacement) |
| `MCProcessingRequests` | `OneWorker` | two requests pass the "already being processed" check (`routes_manager.py:122`) |
| `MCProcessing`: `Patient = FALSE` | `OverridesKept`, `OneResolution` | an override made while the application is still `submitted` is deleted by its task (`src/README.md:59`); two tasks at once leave rows of both (`persistence.py:59`) |
| none, on `MCIntake` | `OverridesPreserved` | a manager's override (a removal, say) that is committed after a resolution read the pins (`persistence.py:63`) and before its DELETE (`persistence.py:64`) is deleted with the row, and the skill comes back as the agents see it. Processing leaves this to requests that began before it; beside the legacy import, which reads the pins before it has looked at the status (`legacy_import.py:191-199`), any request will do. `src/README.md:86-88` says such skills are preserved by both |
| `SkillRows`: two requests | `DerivedColumns` | one PATCH of the claim and one of the observation leave the verdict of neither (`skill_overrides.py:7`) |
| `SkillRows`: `TwoSpellings = TRUE` | `DerivedColumns` | a skill named in two spellings is judged at the higher claim and stored at the lower (`skill_resolution.py:84`, `claims.py:80`) |
| `MCCatalogWorkflow`: a missing level that is answered at a small `MaxTransitions` | `LimitIsFailure` | the limit met in front of a question reports a permanent failure over a state that still awaits an answer (`graph.py:412`, `tests/workflow/test_workflow.py:351`) |
| `GitHubCollection`: `Offline = TRUE` | `BundleIsComplete` | offline, what is not cached counts as missing, and the bundle is saved with the hole (`client.py:117`) |
| none, on `GitHubCollection` | `CreditOnlyWhenSafe` | a refused contributor list counts as no contributors (`collector.py:149`) |
| `CorpusSlots` in `MCCommands`: 2 `People`, `Kinds <- SplitKinds`, `MaxSlots = 2` | `PrioritiesHold` | with as many slots as `MAX_SLOTS`, `COST_TIER_STEP` exceeds the bonuses of everybody staying by one only; two points of surprise keep somebody in a worse tier (`assign.py:101-102` says a level outweighs all lower ones across every slot, and `assign.py:281` lets so many slots pass) |
| `CorpusRegistry`: `SampleBesideBuild = TRUE` | `IdIsForever` | `gh sample` writes back the list it read before `gh build` gave IDs (`sampler.py:273`; `ids.py:8-9` says an ID never changes) |
| `CorpusRegistry`: `LastNumber = 3` | `IdIsForever` | from the 10,000th ID on (here the fourth) `gh build` does not see the numbers it gave and gives them again (`ids.py:21`, `ids.py:54-57`) |
| `ResumeFiles`: `RemoveBesideGen = TRUE` | `RowsKept`, `PdfHasRow` | a rebuild works on files that change under it |
| none, on `MCCommands` | `ParallelWritesAreSafe` | a `gen` that is suspended between reading and writing the rows loses its lock after 120 s (`manifest.py:70` compares an age); another one writes its row and publishes its PDF; the first one goes on and writes the rows it had read, without that row (`manifest.py:8` says parallel writes are safe). Of three processes, two that wait can also find one dead owner's lock stale, and the second removes the first one's new lock (`manifest.py:70-71`) |
| `AdminTerminal`: `Together = TRUE` | `ReviewsStay` | two terminals both find one review fewer than their own and both save (`facade.py:121-147`) |
| none, on `OrchestratorRun` | `OthersNotRedone` | a stage is saved as a whole, so a failure of one applicant does redo the others of its stage (`orchestrator.py:49` says it does not) |
| none, on `OrchestratorRun` | `HardCeiling` | a retried unit is counted once (`orchestrator.py:19` calls the limit a hard ceiling) |

Some hazards have no property of their own. A re-collection of GitHub that fails
in reverify leaves the resolve stage without evidence, so verified levels become
unverified (`processing.py:290`); that is what the code decides, and no document
says otherwise. Two `add_evidence` requests may give two items one position
(`skill_overrides.py:160`), which only changes the order they are shown in. An
import that is rolled back leaves its files (`legacy_import.py:207`), which
`NothingLeftBehind` allows. A thread whose process died stays `orphaned`
unless it waits for an answer (`workflow/facade.py:56`). The repeated previous decision
after an exception of `decide` (`workflow/graph.py:124`) cannot be reached.

## Fairness

`Placement` and `Processing` assume weak fairness of each background task: the
process runs a task it has started until it ends. That is an assumption about
everything the task calls: `Settles` and `RunsFinish` say nothing of a call to
GitHub or to the model gateway that neither answers nor fails; the gateway
client is given no timeout by this code. `CatalogWorkflow` assumes that a process that runs the graph takes
its next superstep; no fairness is assumed of people (answers, restarts,
requests), of crashes, or of a resumption. The other modules assume none: what they
say is said of every state, or of every step.

## What is proved

TLAPS proves the following for every number of applicants, roles, runs, tasks,
requests, processes, terminals and retries, and every set of answers of the models
and of GitHub. In each module the argument is an inductive invariant: initial states
satisfy it, every action preserves it (one lemma or one step per action), and it
implies the property. Before it was proved, TLC checked each invariant on a small
instance. Of the 40 properties of the passing runs, 37 are theorems.

### Placement (`PlacementProofs`)

From `PlacementAssumption` (finite sets of applicants and runs):

* `TypeCorrect`, `OnePlacementHolds`. One placement is inductive with the types: the only ways
  to a new approval pass `check_approval`, and the other actions change no
  approval.
* `NeverOverfillsHolds`: by counting the occupants of one role before and after
  one row changes.
* `CapacityRespectedHolds`, assuming that managers do not lower a capacity below
  the seats in use (`~MayShrink`). This one is proved and not part of a run.
* `RowsWithinRunHolds`. Strengthened with what ties a task to its run
  (`TaskFollowsRun`): only a run whose task is optimizing completes, and
  what it loaded is inside its configuration.
* `ImplementsLedgerHolds`: the refinement `Placement => SeatLedger`. `Holder`
  is well defined by `OnePlacement`, so every step maps to a step of one
  applicant or to a stutter.
* `HistoryKeepsRolesHolds` and `RequestsStayWithinRun`, of `PlacementRequests`. A
  request that is past its checks holds what it read; the invariant (`HistoryInv`)
  says what of that is still so when it commits (`Fits`): the run it was checked
  against is still completed, and the applicant and the role it names are still of
  that run. A role is deleted by a commit whose foreign keys are checked then, so no
  earlier check has to hold.

Of `MatchingFlow`, from `SourcesAssumption` (the files hold lists, sizes are integers, and the
mark of an unassigned student is not a position):

* `RepairSettles`, of `MatchingEngine`: whatever assignment enters repair, what
  leaves it is feasible and strands nobody (`Settled`). The six phases are loops, here
  functions iterated over positions; `IterateKeeps` carries an invariant through such
  a loop, by the least number of steps that would break it. Each phase keeps
  teams within their maxima and students within their options; `Deactivated` leaves
  feasible teams only, `Refilled` keeps them feasible and, for every student, ends
  with no active project that has room for that student: teams only grow
  from there.
* `TeamsFeasibleHolds`, `NobodyStrandedHolds`. Before the candidates are pruned nothing is
  proposed; from then on every member, child and best assignment was settled by
  repair, and a generation is never larger than configured (`FlowInv`, which is
  `Before` or `Begun`).
* `ArtifactsKeptHolds`: while this run writes and reads back, the number it found free
  holds its own file (`OwnInv`), however many others save.

### Applicant processing (`ProcessingProofs`)

* Assuming patient managers: `OneWorkerHolds`, `OneResolutionHolds`,
  `OverridesKeptHolds`, `EditsWaitHolds`, from one invariant (`PInv`) that says which
  stages of which tasks exclude which statuses, and that what the working task read as
  pinned or doomed is still so. Without the assumption `OverridesKept` and
  `OneResolution` have counterexamples.
* `NeverOrphanedHolds`, of `ProcessingRequests`, assuming `~Outages` and nothing of
  the managers: an applicant who is shown as processing has a task that still owes it an
  outcome (`HeldInv`). A task that only has to close its last stage is not enough:
  it may end beside a re-run that was queued since, which is why `NeverOrphaned` is not
  inductive by itself. Two requests may both pass the check of the status and queue two
  tasks; each sets the status before its task starts, and a task only gives it up with
  its outcome.

### Skill levels, agents and pipelines (`PipelineProofs`)

* Claiming more never pays (`OverclaimNeverPays`), more evidence never lowers a final
  level (`MoreEvidenceNeverHurts`), what is accepted from a model is bounded by the rules
  (`AcceptedIsBounded`), and `OneRequestDerived`, with one spelling and one request.
* `OutputIsWholeHolds`: the file of the profile agent, killed anywhere.
* `EvidenceNeverHurtsHolds`: the rules of `observe.py` are monotone in the
  repositories, for any repositories and skills: the observed level is determined by
  tests that more repositories can only make true.
* `EveryClaimIsJudgedHolds` (`EvidenceInv`): the claims of a report are those of the
  payload, and a level is only kept after it was bounded.
* `ReviewIsPossibleHolds` (`DraftInv`): the run that created the folder is its only
  writer, and what the folder holds is what the next step of that run needs.
* `MatrixFitsHolds`, from `CapacityAssumption` (`RunInv`): the files of the stages fit
  together (`FilesFit`), so do the results in memory that were loaded from them or
  computed behind them (`MemoryFits`), and a stage that is being computed has the
  results of those before it (`StageFits`).

### Corpus generator (`GeneratorProofs`)

* `IdIsForeverHolds`, assuming that no `gh sample` runs beside a `gh build`
  (`~SampleBesideBuild`) and, of the files a command finds at first
  (`RegistryAssumption`), that they name each login once and give no ID to two logins
  (`RegistryInv`). The IDs in use must have four digits in every state (`FourDigits`):
  `assign` looks for the highest number among those only, so that from the 10,000th ID
  on numbers would be given twice (`NextIsFree` is the lemma that needs it). It speaks of IDs a profile file was written for since: an ID
  of the older file whose login is not in `candidates.json` is not carried over by
  `assign`.
* `BundleIsCompleteHolds` and `CreditIsSafeHolds`, assuming `~Offline`
  (`CollectionInv`): the cache says of no URL that it is empty or refused unless
  GitHub does (`CacheOK`); hence the parts fetched so far are faithful (`FetchOK`),
  and every bundle was such a collection when it was saved (`BundlesOK`).
* `PdfHasRowHolds` and `RowsKeptHolds`, of `ResumeFiles`, for any number of processes,
  assuming `~RemoveBesideGen` (`FilesStayPaired`): every PDF has its row, and the row of
  a finished `gen` stays, until a lock is broken whose owner goes on (`usurped`). The
  invariant `ResumeInv` has one part per command: `GenOK` says that whoever is between
  reading and writing the CSV has read what is still there, which is so because the
  lock is its own (`LockOK`). `BreakLockKeeps` is where a lock taken from a process that
  goes on would break it: the inductive invariant is `usurped \/ ResumeInv`
  (`UntilUsurped`), and after that step nothing is claimed. `ParallelWritesAreSafe`,
  the property without the reservation, is not true of the code (see above).
* `PrioritiesHoldHolds`, of `CorpusSlots`, assuming fewer slots than `MaxSlots` and, of the
  profiles (`SlotsAssumption`), that they are finite and count natural numbers of
  bytes. The state matters little: profiles are of a graded kind (`SlotsInv`). The rest is
  arithmetic over sums. That `SumFunctionOnSet` adds up its terms in any order is
  proved from its recursion: functions that satisfy it exist on every finite set
  (`SumsExist`) and agree (`SumsAgree`), and in place of an induction theorem each
  lemma takes a smallest subset for which it fails (`SmallestSubset`). A price is then
  the five measures of the priorities, each times its cost (`PriceOfPairing`); ranks are at
  most 2 and surprises at most 6, because portions are percentages
  (`EligibilityBounds`); with a slot to spare each cost is greater than
  all below it together (`BonusesOutweigh`), so what is better is cheaper
  (`BetterIsCheaper`). With no slot to spare it fails (see "Further configurations"), so the
  hypothesis is part of the theorem.

### Intake and skill edits (`IntakeProofs`)

* `ResumesAreReadable` and `NothingStays`, assuming that a request is never also a row
  number of the cohort (`Applications \cap Nat = {}`). A file is
  placed by the step of the request that writes it (`Filed`), a row with a résumé
  belongs to a request that was answered "201" or to an import (`Owned`); hence the
  file an `Undo` deletes is one that no row names, committed or not.
* `ActsAsDirectoryHolds`: the refinement `Intake => ApplicantDirectory`, with the same
  assumption and any list of emails as the cohort. `DirectoryInv` adds to the invariant
  that an email is one applicant's among the committed rows and those an import has
  flushed together (`OneEach`, kept because an insert waits and a flush tests), that a
  numbered row has its cohort's email, and that a request whose insert was refused still
  finds the email taken: a commit of an import replaces rows by rows of the same
  makers, so no email becomes free (`CommitImportDirectory`). Each action then is one
  of the directory's or none: `CommitIsAdmitting`, `WorkIsRefusing`, `CommitIsAdopting`,
  `KillIsLosing`.
* `RemovedStaysRemovedHolds`, of `SkillEdits` (`EditsInv`): for any number of requests that
  overlap, and of resolutions one after the other. `EditsInv` says that a resolution
  found a row to delete only if it had read no pin, and that rows are
  numbered as they are inserted, so that a later row is never taken for the removed one. What the theorem leaves open, a removal between the
  reading of the pins and the DELETE, is a loss the code allows: `OverridesPreserved` is
  not true of it (see above).

### Catalog (`CatalogPolicyProofs`, `CatalogWorkflowProofs`, `CatalogAgentProofs`)

`CatalogPolicyProofs` has the lemmas about the pure operators: sets of issues
have a first one, a validation holds only known issues, a valid profile is
sound, the policy's choice is usable or the one escalation, and how one more
entry changes the counts of a history.

`CatalogWorkflowProofs` proves every safety property of the two catalog runs, and two more.
`Core` (types, the state contract, fresh artifacts, and that the decision a node
acts on is the one the policy would take now) is inductive; the others rest on it:

* `TypeCorrect`, `ContractHolds`, `FreshHolds` are parts of `Core`.
* `StoredIsSoundHolds`: the guard trusts the validation, and by `Core` it is the
  validation of the profile being published. `StoredOnceHolds` and
  `CompletedIsStoredHolds` by cases on who writes the repository and who completes.
* `RecoveryBoundedHolds`: strengthened from the recorded issues to all issues.
* `LimitHolds`, when `MaxTransitions >= 5 * MaxTotal + 5`: a budget argument. The
  supersteps counted so far and those still to do are paid for by the first run
  (five), by the recoveries (five each) and by refused answers (one each).
* `EndedIsSettledHolds`, when `MaxTransitions > 5 * MaxTotal + MaxRefused`; proved,
  not part of a run.
* `QuestionIsOpenHolds`: an issue is asked about at most once, and what was
  answered was asked.

`CatalogAgentProofs`:

* `IssueHasItsTargetHolds`, of `CatalogRecovery`, from `AnswersAssumption` (the
  models answer with sequences of requirements and with mappings). A place in a list
  belongs to one entry (`PlaceTells`); so an issue, which names places only, is
  about one requirement of the extraction (`AboutOne`), its request leads back there
  (`TargetIs`), and that requirement tells it from the other issues of its kind
  (`AboutTells`). `RecoveryInv` adds that a pending request came from an issue of the
  current profile and that no result was a refusal.
* `AnswerFits`, of `AdminTerminal`. What a session has read agrees with the checkpoint
  where it matters (`Agrees`): an escalation is the end, and a question that was read and
  is no longer open has been answered, so that its ID is refused even when it is
  asked again about something else. No assumption is made on the IDs.
* `ReviewsAreKept`, of `AdminTerminal`, assuming `~Together`. While a review is being saved the
  checkpoint has none, and its event was recorded before (`SoundSession`).
* `NormalizationIsSoundHolds`, of `CatalogTaxonomy`, from `ListsAssumption` (what comes as a
  list is one). `InOrderIs`: a selection of places in the order of the list has
  each of them, and none twice, because an injection of a finite set into one of the same
  size reaches all of it. Of a sound file at most one skill has a spelling
  (`OneMatch`), so that the last entry of a dictionary is the only one. `NormalizeInv`
  says of each mapping made so far that it is sound for its own place
  (`SoundMapping`), and each of the three ways to make one (`ExactIsSound`,
  `FallbackIsSound`, `SelectionIsSound`) makes a sound one.

The proofs use the assumptions named in the modules and those stated above, and no
others. TLC evaluates the assumptions of the modules in every run.

## What is only model-checked

* Liveness (`RunsFinish`, `Settles` of `Processing` and of `CatalogWorkflow`): the prover does
  not handle fairness and ENABLED.

## What is not modelled

The reasons stand with each component in `PROJECT.json`. In short:

* What a model or GitHub answers is an arbitrary input; the wording of prompts, résumés and
  reports is left out, as are evaluation scripts, rendering and the frontend.
* The demonstration mode and the scripted clarification handler of the catalog agent:
  they drive the modelled operations with fixed inputs.
* Catalog management in the backend: edits of single rows that nothing else writes.
* The schema and its migrations, except for the constraints the handlers meet.
* In `Placement` scores are represented by the roles a run loaded and the optimizer is any
  proposal within the seats; `MatchingFlow` models the optimizer of the same repository by
  itself, on files.
* In `Processing` the contents of rows are left to `SkillRows` and `SkillEdits`, and the agents
  to their own modules.
* Manager authentication of the web API. The administrators of the catalog terminals are modelled.

## Order of work, and what is left

The modules were written in the order Placement, Processing, SkillLevels, CatalogWorkflow,
each with its proofs; then the matching engine, intake and overrides, the agents, the
pipelines, the generator and the catalog's taxonomy, recovery and administration.

Left, in this order:

1. The composition of `Processing` with `EvidenceRules`, to state which levels survive a
   re-collection of GitHub that fails.
2. A refinement of `Placement`'s optimizer by `MatchingEngine`, over one set of students and
   roles.
