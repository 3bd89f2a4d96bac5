------------------------------ MODULE FillLedger ------------------------------
(***************************************************************************)
(* What the trading engine promises of its trades, buying or selling and   *)
(* whatever session books them: for each order the exchange fills, the     *)
(* trades recorded never exceed the fills and are never taken back.        *)
(***************************************************************************)
EXTENDS Integers

CONSTANT OrderId
VARIABLES filled, booked

Init ==
  /\ filled = [o \in OrderId |-> 0]
  /\ booked = [o \in OrderId |-> 0]

Fill(o) ==
  /\ filled'[o] > filled[o]
  /\ filled' = [filled EXCEPT ![o] = filled'[o]]
  /\ UNCHANGED booked

Record(o) ==
  /\ booked[o] < booked'[o] /\ booked'[o] <= filled[o]
  /\ booked' = [booked EXCEPT ![o] = booked'[o]]
  /\ UNCHANGED filled

Next == \E o \in OrderId : Fill(o) \/ Record(o)

Spec == Init /\ [][Next]_<<filled, booked>>

===============================================================================
