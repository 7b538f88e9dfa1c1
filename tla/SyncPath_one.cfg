SPECIFICATION FairSpec
CONSTANTS
  MaxChanges = 3
  MaxEvents = 1
INVARIANTS TypeOK BaselinePairs DeferredSweepKept
PROPERTIES EditsSurvive UploadsOverBaseline ComesToRest SweepHeals
CHECK_DEADLOCK FALSE
