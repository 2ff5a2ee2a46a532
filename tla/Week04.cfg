SPECIFICATION Week04Spec
CONSTANTS
  Callers <- TwoCallers
  Watchers <- OneWatcher
  MaxAttempts = 2
  MaxForeign = 1
  Cases = 1
  MaxInvocations = 2
  MaxTrouble = 1
CHECK_DEADLOCK FALSE
INVARIANT OnlyOursSignalled
INVARIANT LiveIsRecorded
INVARIANT EvidenceHonest
PROPERTY ScriptEnds
