SPECIFICATION MCSpec
CONSTANTS
  TaxonomySkills <- MCSkills
  SkillOf <- MCSkillOf
  Repositories <- MCRepositories
  Payloads <- MCPayloads
  MaxAttempts = 3
  MaxRounds = 3
  PromptAttempts = 3
  MaxAnswers = 3
  ProfileCalls = 2
  RunApplicants = {"a1", "a2"}
  ProjectInputs = {"small", "large"}
  Capacity <- MCCapacity
  MaxCalls = 6
  MaxWorkers = 2
  RunAttempts = 2
  MaxRuns = 2
  Drafts = {"d1", "d2"}
  Inputs = 2
  Offers = 2
  Logins = {"octocat", "ghost"}
  MaxTries = 2
  MaxStarts = 2
  Worlds <- MCWorlds
  Offline = FALSE
  Owners = {"ann", "bob", "cyd"}
  Found <- MCFound
  Histories <- MCHistories
  SampleBesideBuild = FALSE
  LastNumber = 9999
  MaxRegistryRuns = 3
  People = {"p1", "p2", "p3"}
  Strata = {"backend", "dataml"}
  Quota = 1
  Kinds <- ProfileKinds
  LanguageSkill <- SkillOfLanguage
  StratumLanguages <- LanguagesOf
  StratumSkills <- SkillsOf
  Backend = "backend"
  DataMl = "dataml"
  DataMlSkills = {"pandas"}
  MaxSlots = 4
  Processes = {"w1", "w2"}
  ResumeApplicants = {"a1", "a2"}
  RemoveBesideGen = FALSE
  MaxCommands = 2
  ClientAttempts = 3
  Files <- TaxonomyFiles
  Key <- Lookup
  Tokens <- Words
  RawSkills <- RawSkillLists
  Proposals <- ModelProposals
  Skills = {"k1", "k2"}
  Inactive = {"k2"}
  MaxTotal = 3
  Extractions <- Requirements
  Mappings <- PossibleMappings
  Configurations <- Administrators
  Questions <- OpenQuestions
  Together = FALSE
  Terminals = {"t1", "t2"}
  NoAdmin = ""
  Escalations = {"e1"}
  MaxLogins = 2
  MaxRefused = 1
  MaxChoices = 2
CHECK_DEADLOCK FALSE
INVARIANTS
  EveryClaimIsJudged
  EvidenceNeverHurts
  OutputIsWhole
  MatrixFits
  ReviewIsPossible
  BundleIsComplete
  CreditIsSafe
  IdIsForever
  PrioritiesHold
  PdfHasRow
  RowsKept
  NormalizationIsSound
  IssueHasItsTarget
  AnswerFitsQuestion
PROPERTIES
  ReviewsStay
