---------------------------- MODULE MCLimitClose ----------------------------
(* LimitClose on small instances: the sets of events the runs allow.        *)
EXTENDS LimitClose

NoEvents     == {}
ExchangeSide == {"expire"}

=============================================================================
