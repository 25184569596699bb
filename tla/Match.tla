------------------------------- MODULE Match -------------------------------
(***************************************************************************)
(* What the room services promise their players: who is in which room, on  *)
(* which team, and that every battle ends in a result for each of them,    *)
(* the right one.  Messages, owners, timers and hit points are left out.   *)
(* Module Rooms implements this one.                                       *)
(***************************************************************************)
EXTENDS Integers, FiniteSets

CONSTANTS Player, Room, TeamSize

VARIABLES
  at,         \* the room a player is in, 0 for none
  team,       \* 0 outside a room
  alive,
  playing,    \* rooms with a battle on
  won, lost

matchVars == <<at, team, alive, playing, won, lost>>

Members(r) == {p \in Player : at[p] = r}
Team(r, c) == {p \in Members(r) : team[p] = c}

\* f with one more for everybody in S.
PlusOne(f, S) == [p \in Player |-> IF p \in S THEN f[p] + 1 ELSE f[p]]

Init ==
  /\ at = [p \in Player |-> 0]
  /\ team = [p \in Player |-> 0]
  /\ alive = [p \in Player |-> FALSE]
  /\ playing = {}
  /\ won = [p \in Player |-> 0]
  /\ lost = [p \in Player |-> 0]

\* Nobody joins a battle, or the larger team.
Join(r, p) ==
  /\ at[p] = 0
  /\ r \notin playing
  /\ at' = [at EXCEPT ![p] = r]
  /\ \E c \in {1, 2} :
       /\ Cardinality(Team(r, c)) < TeamSize
       /\ Cardinality(Team(r, c)) <= Cardinality(Team(r, 3 - c))
       /\ team' = [team EXCEPT ![p] = c]
  /\ UNCHANGED <<alive, playing, won, lost>>

\* Who leaves a battle has lost it.
Leave(r, p) ==
  /\ at[p] = r
  /\ at' = [at EXCEPT ![p] = 0]
  /\ team' = [team EXCEPT ![p] = 0]
  /\ lost' = PlusOne(lost, IF r \in playing THEN {p} ELSE {})
  /\ UNCHANGED <<alive, playing, won>>

Start(r) ==
  /\ r \notin playing
  /\ Cardinality(Members(r)) >= 2
  /\ playing' = playing \cup {r}
  /\ alive' = [p \in Player |-> p \in Members(r) \/ alive[p]]
  /\ UNCHANGED <<at, team, won, lost>>

Fall(r, p) ==
  /\ r \in playing
  /\ at[p] = r
  /\ alive' = [alive EXCEPT ![p] = FALSE]
  /\ UNCHANGED <<at, team, playing, won, lost>>

\* A team without survivors has lost.
End(r) ==
  /\ r \in playing
  /\ playing' = playing \ {r}
  /\ \E c \in {1, 2} :
       /\ \A p \in Team(r, c) : ~alive[p]
       /\ lost' = PlusOne(lost, Team(r, c))
       /\ won' = PlusOne(won, Members(r) \ Team(r, c))
  /\ UNCHANGED <<at, team, alive>>

Next ==
  \E r \in Room :
    \/ Start(r)
    \/ End(r)
    \/ \E p \in Player : Join(r, p) \/ Leave(r, p) \/ Fall(r, p)

Spec == Init /\ [][Next]_matchVars
=============================================================================
