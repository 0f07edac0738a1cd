CONSTANTS
  Patches <- NamingPatches
  MaxFaults = 1
SPECIFICATION Spec
INVARIANT CoreIsDerived
