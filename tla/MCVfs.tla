-------------------------------- MODULE MCVfs --------------------------------
(***************************************************************************)
(* Two descriptors, two places for the name of a mount point in the        *)
(* shell's line, two texts that can be there, a device that cannot be      *)
(* mounted and two that can, and offsets of two bits.                      *)
(***************************************************************************)
EXTENDS Vfs

MCOffsets == {1, 2}
MCDevIds == {0, 32, 33}
MCSizes == {0}
MCMoves == {-1, 1}
=============================================================================
