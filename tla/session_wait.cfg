CONSTANTS
  a = a
  b = b
  Job = {a, b}
  IntentJob = {}
  Untyped = {}
  HasResources = TRUE
  TargetState <- AllFinal
  MaxSubmissions = 2
  Fault = {"purge", "detached"}
SPECIFICATION FairSpec
PROPERTIES WaitEnds OnlySupersededSurvive
