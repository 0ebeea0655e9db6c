SPECIFICATION Spec
CONSTANTS
  Machines <- MCMachines
  Lbas <- MCLbas
  Counts <- MCCounts
  LbaLimit = 2
  NULL = NULL
  Ahci = Ahci
  Phantom = Phantom
  Junk = Junk
CHECK_DEADLOCK FALSE
INVARIANTS TypeOK EachDiskOnce BootDisk ReadsItsSector
PROPERTIES ReadsEnd
