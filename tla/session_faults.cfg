CONSTANTS
  a = a
  b = b
  Job = {a, b}
  IntentJob = {b}
  Untyped = {}
  HasResources = TRUE
  TargetState <- AllFinal
  MaxSubmissions = 3
  Fault = {"refuse", "lose", "crash", "overwrite", "purge", "detached", "bypass"}
SPECIFICATION Spec
PROPERTIES WaitReturnsSettled AppliedIsDurable DestroyCancelsKnown SavedUntilDestroyed
