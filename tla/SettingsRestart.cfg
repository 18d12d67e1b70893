SPECIFICATION Spec
CONSTANTS
  Handlers = {a1, a2}
  None = None
  DirKeys = {d1}
  RuleKeys = {r1}
  Exprs = {hourly}
  Invalid = {}
  YamlDirs = {}
  YamlRules = {r1}
  YamlCron = None
  MaxRequests = 1
  MaxPulls = 2
  MaxTroubles = 1
CHECK_DEADLOCK FALSE
INVARIANTS
  SettingsSurviveRestart
