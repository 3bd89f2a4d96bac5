--------------------------- MODULE MCTradingLeader ---------------------------
(* TradingLeader on small instances.                                        *)
EXTENDS TradingLeader, TLC

\* The processes are interchangeable where nothing is said of fairness.
AnyProcess == Permutations(Procs)

==============================================================================
