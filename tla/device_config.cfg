CONSTANTS
  Patches <- StorablePatches
  MaxFaults = 1
SPECIFICATION Spec
INVARIANT TypeOK
INVARIANT OneConfigOnAir
INVARIANT AcknowledgedSurvives
PROPERTY StoreKeepsPromise
