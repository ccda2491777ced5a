SPECIFICATION Spec
CONSTANTS
  NumIrq = 3
  MaxPrio = 2
  Thresholds = {0, 2}
  Modes <- SomeModes
  Boots <- MixedBoots
  Rewritten = {1, 2}
PROPERTIES MissedOnlyByTargetcfg StaleOnlyByUnevaluatedWrites PhantomOnlyByMasking LevelPendingFollowsWire
