SPECIFICATION PartsSpec
CONSTANTS
  Voters = {a, b, c}
  Rounds = {r}
  NoVoter = none
  Earners = {a, b}
  Callers = {a}
  Earning = 2
  VotePrice = 1
  ProposalFee = 1
  MinVoters = 2
  QuorumPct = 50
  ApprovalPct = 60
  MaxPerRound = 1
  MaxEarnings = 1
  MaxReceipts = 1
  BatchSize = 2
  Holders = {"a", "b"}
  Amounts = {2}
  MaxTransfersPerHour = 1
  MaxCreditRows = 4
  MaxCreditFaults = 1
  MaxRecords = 5
  MaxStakes = 2
  Steps = 2
  FullBatch = 2
  OomRetries = 1
  MaxRuns = 2
  Workers = {"w1", "w2"}
  MinWorkers = 2
  MaxSends = 2
  WorkerIds = {"w1", "w2"}
  OtherNodes = {"other"}
  GroupSize = 2
  MaxRounds = 2
  MaxMessages = 3
  Addresses = {"x", "y"}
  Machines = {"m", "n"}
  ChallengeIds = {"c", "d"}
  Capacity = 3
  RefillRate = 1
  BlockDuration = 1
  MaxBuckets = 1
  ViolationLimit = 1
  StaleAfter = 0
  ChallengeExpiry = 0
  MaxAttempts = 1
  MaxPerAddress = 1
  MaxPerHardware = 1
  ReasonsTooMany = 3
  MaxTime = 1
  MaxServed = 4
  MaxTriggers = 2
  MaxJobs = 2
  MaxBreaks = 1
  MaxCommits = 3
  Hosts <- PartsHosts
  UnpackTries = 2
  MaxScripts = 2
  Payloads <- PartsPayloads
  MaxGradients = 4
  TrimOneIn = 3
  ReputationFrom = 3
  WeighFrom = 4
  Gradients <- PartsGradients
  TokenCounts = {1, 2, 3, 4, 16, 17, 40}
  SeqLens = {0, 1, 6, 33}
  Seeds = {0, 7}
  KeepOneIn = 2
  MaxTasks = 2
  Operators = {"a", "b"}
  Columns = {"k"}
  MaxMigrations = 2
  MaxDeaths = 1
  DayLength = 4
  Offsets = {0, 3}
  SlotTimes = {0, 3}
  Percents = {0, 50}
  MaxSlots = 2
  MaxSaves = 1
  MaxConnects = 2
  MaxLaunches = 2
  Ports = {"p", "q"}
  MaxThreads = 2
  MaxEdits = 1
  Consoles = {"cli", "tui"}
  TUIs = {"tui"}
  MaxSpawned = 2
  MaxSettings = 1
  Sessions = {"s"}
  MaxTunnels = 2
  OtherPort = 7
  Translations = {1, 2}
  Scripts <- PartsScripts
  Shapes <- PartsShapes
  Members = {"a", "b"}
  MaxCount = 2
  Channels = {"c", "d"}
  Builds <- PartsBuilds
  Entries = {"a", "b"}
  MaxPublished = 2
  Replicas = {"m", "n"}
  JobIds = {"i"}
  MaxChanges = 2
  MaxSubmits = 2
  MaxTurns = 1
  Measured <- PartsMeasured
  MaxSuites = 2
  MaxHistory = 2
  MaxSamples = 3
  Viewers = {"u", "v", "w"}
  Address <- PartsAddress
  MaxStreams = 2
  MaxPerIp = 1
  ByteRate = 2
  Chunks = {1, 5}
  MaxTicks = 4
  Processes = {"w1", "w2"}
  Attempts = 1
  MaxMishaps = 3
INVARIANTS
  DelegationIsAForest
  VotesArePaidFor
  ProofsVerify
  DriftNeedsAFailure
  SuccessWentThroughEachStepOnce
  LetGoOnlyForAReason
  EachPseudoGradientCountsOnce
  AdvantagesAreOfTheLastReport
  AdmissionIsEarned
  EndIsTold
  OutlivesOnlyWithoutAHandle
  AggregateLiesBetweenItsSources
  EveryWindowHasItsTarget
  RecordedMeansApplied
  ActiveWhenShown
  TransfersConserve
PROPERTIES
  RequestedBenchmarkRuns
CHECK_DEADLOCK FALSE
