SPECIFICATION Spec
CONSTANTS
  Handlers = {a1, a2}
  None = None
  DirKeys = {d1}
  RuleKeys = {r1}
  Exprs = {hourly}
  Invalid = {}
  YamlDirs = {}
  YamlRules = {r1}
  YamlCron = nightly
  MaxRequests = 3
  MaxPulls = 2
  MaxTroubles = 0
CHECK_DEADLOCK FALSE
INVARIANTS
  LocalSettingsWin
