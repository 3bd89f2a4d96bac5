------------------------------ MODULE MCRaceMode ------------------------------
(* RaceMode on small instances.                                             *)
EXTENDS RaceMode, TLC

TwoScores == {1, 2}

\* The players are interchangeable.
EitherPlayer == Permutations(Players)

==============================================================================
