SPECIFICATION Spec
CONSTANTS
  Disks = {mmcblk0, sda}
  Stacked = FALSE
  Wrap = 16
  MaxWrites = 4
  MaxTime = 3
  MaxFaults = 1
INVARIANT
  NeverOverstates
