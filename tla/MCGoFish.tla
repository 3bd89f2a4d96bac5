------------------------------ MODULE MCGoFish ------------------------------
(* Three ranks of four cards, hands of two.                                 *)
EXTENDS GoFish
MCRanks == 1..3
=============================================================================
