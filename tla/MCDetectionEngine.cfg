SPECIFICATION Spec
CONSTANTS
  Levels <- MCLevels
  Scenarios <- MCScenarios
  MaxGroups = 3
  MaxCachedActions = 1
INVARIANTS TypeOK FiresWhatMatches ThresholdExact
