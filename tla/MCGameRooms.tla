----------------------------- MODULE MCGameRooms -----------------------------
(* GameRooms on small instances.                                            *)
EXTENDS GameRooms

OneToTwo == 1..2

==============================================================================
