-------------------------------- MODULE MCDisk --------------------------------
(***************************************************************************)
(* Every machine with up to four drives, with and without controllers on   *)
(* the PCI bus; a mute drive only in the last position. Reads of one and   *)
(* two sectors, across the end of what the sector registers can hold.      *)
(***************************************************************************)
EXTENDS Disk

MCMachines ==
  {m \in Machine : \A p \in Positions : m.drive[p] = "mute" => p = 3 /\ m.drive[0] = "ata"}
MCLbas == {0, 1}
MCCounts == {1, 2}
=============================================================================
