SPECIFICATION Spec
CONSTANTS
  j1 = j1
  j2 = j2
  j3 = j3
  Jobs <- ThreeJobs
  Served <- FirstTwo
  Grace = 2
  Configs <- OnAndOff
  MaxFaults = 0
  MaxReloads = 1
PROPERTY CancelsOnlyServedJobs
