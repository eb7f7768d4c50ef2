SPECIFICATION Spec
CONSTANTS
  Disks = {mmcblk0, sda}
  Stacked = FALSE
  Wrap = 16
  MaxWrites = 3
  MaxTime = 2
  MaxFaults = 1
INVARIANT
  DeltaExact
