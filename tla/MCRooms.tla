------------------------------ MODULE MCRooms ------------------------------
(***************************************************************************)
(* Instances of Rooms for TLC.                                             *)
(***************************************************************************)
EXTENDS Rooms

\* A hit past death is possible: hit points go from 1 to -1.
BelowZero == -1
=============================================================================
