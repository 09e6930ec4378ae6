SPECIFICATION FairEvtSpec
CONSTANTS
  Blocks = 3
  Stimuli <- MCStimuli
INVARIANTS PoolAccounting NoLostWakeup
PROPERTIES QueueSpec QueuedIsHandled ExhaustionIsFatal
CHECK_DEADLOCK FALSE
