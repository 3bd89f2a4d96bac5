--------------------------- MODULE MCClientSession ---------------------------
(* ClientSession on small instances.                                        *)
EXTENDS ClientSession

\* Every login is of the one account.
OneOwner == [l \in Logins |-> "alice"]

==============================================================================
