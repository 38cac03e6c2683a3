SPECIFICATION FairSpec
CONSTANTS
  Hosts <- MachinesOfOperators
  MaxStops = 1
INVARIANTS
  DeploymentTypeOK
  WrittenSettingsInEffect
  ServingIsSound
PROPERTY EventuallyServes
