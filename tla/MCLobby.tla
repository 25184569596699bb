------------------------------ MODULE MCLobby ------------------------------
(***************************************************************************)
(* Instances of Lobby for TLC.                                             *)
(***************************************************************************)
EXTENDS LobbyInv

\* Hit points never bind: a client sends a few hits at most.
BelowZero == -5
=============================================================================
