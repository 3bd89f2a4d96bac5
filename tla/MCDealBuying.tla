---------------------------- MODULE MCDealBuying ----------------------------
(* DealBuying on small instances: the sets of events the runs allow.        *)
EXTENDS DealBuying

NoEvents     == {}
AllButCancel == AllEvents \ {"cancel_shutdown"}
GivingUp     == {"give_up"}
GivingUpAndCancel == {"give_up", "cancel_shutdown"}

=============================================================================
