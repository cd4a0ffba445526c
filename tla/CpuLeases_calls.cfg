CONSTANTS
  p1 = p1  p2 = p2  p3 = p3
  Callers <- MCCallers3
  Cpus <- MCCpus
  Allowed <- MCAllowed3
  Need <- MCNeed3
  MaxPasses = 1
  MaxFaults = 1
  Nobody = Nobody
SPECIFICATION Spec
PROPERTY AllocatorSpec
