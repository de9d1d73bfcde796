---------------------------- MODULE MCConfigFile ----------------------------
(***************************************************************************)
(* Small instances of ConfigFile: three savers and two readers.            *)
(***************************************************************************)
EXTENDS ConfigFile, TLC

CONSTANTS s1, s2, s3, c1, c2, on, off, i1, i2, i3, i4, i5

InodeSymmetry == Permutations(Inode)
=============================================================================
