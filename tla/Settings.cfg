SPECIFICATION FairSpec
CONSTANTS
  Handlers = {a1, a2}
  None = None
  DirKeys = {}
  RuleKeys = {r1}
  Exprs = {hourly}
  Invalid = {}
  YamlDirs = {}
  YamlRules = {}
  YamlCron = nightly
  MaxRequests = 2
  MaxPulls = 2
  MaxTroubles = 1
CHECK_DEADLOCK FALSE
INVARIANTS
  TypeOK
  SettingsKept
  ScheduleRuns
  StoppedIsQuiet
PROPERTIES
  RequestsAnswered
