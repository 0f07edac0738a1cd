SPECIFICATION Spec
CONSTANTS
  RotMod = 8
  AuthMaxPages = 2
  PackMax = 6
  KeepsRotation = FALSE
  RegionChoices <- OneRegion
  RefusedChoices <- NoneRefused
INVARIANTS EveryMessageInTurn
