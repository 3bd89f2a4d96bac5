--------------------------- MODULE LimitCloseProofs ---------------------------
(***************************************************************************)
(* Proofs about LimitClose, for every position size, number of sessions,   *)
(* bound and set of events: type correctness, that no fill is booked       *)
(* twice, and that the trades implement FillLedger.                        *)
(*                                                                         *)
(* TypeOK /\ BookingInv is inductive. Most actions book nothing and touch  *)
(* no row's order or cumulative amount: for them BookkeepingKept gives the *)
(* five parts about the books at once. Booked does the same for the three  *)
(* actions of the monitor that book.                                       *)
(***************************************************************************)
EXTENDS LimitClose, TLAPS

\* The invariant holds before the first order is placed.
LEMMA InitInv == Init => TypeOK /\ BookingInv
<1> USE SizesAssumption, SessionsAssumption
    DEF Init, OrderId, OptionalOrder, NoOrder, Proc, NoRow, NoPoll, Watched
<1>1. Init => TypeOK
  BY DEF TypeOK, Order, PositionRow, PendingRow, OrderData, Where, OrderStatus, RowStatus
<1>2. Init => UnplacedIsPrivate /\ HeldIsPrivate /\ SessionsHold
  BY DEF UnplacedIsPrivate, HeldIsPrivate, SessionsHold, Private, Watching
<1>3. Init => RowCovers /\ OneRowPerOrder /\ PollBetween /\ NoOverBooking
  BY DEF RowCovers, OneRowPerOrder, PollBetween, NoOverBooking
<1> QED
  BY <1>1, <1>2, <1>3 DEF BookingInv

-------------------------------------------------------------------------------
(* What a step of the exchange does to the orders.                          *)

\* Orders only gain fills, and one that is placed stays placed.
Grows ==
  \A o \in OrderId :
    /\ order'[o].filled >= order[o].filled
    /\ order'[o].st = "none" => order[o].st = "none" /\ order'[o].filled = order[o].filled

ExchangeType == order' \in [OrderId -> Order] /\ wallet' \in Int

\* A step that leaves the exchange alone takes no fill back.
LEMMA StillGrows == ASSUME TypeOK, UNCHANGED exchange PROVE ExchangeType /\ Grows
BY DEF TypeOK, Order, exchange, ExchangeType, Grows

\* Placing an order takes no fill back and uses an id that was free.
LEMMA AcceptGrows ==
  ASSUME TypeOK, BookingInv, NEW o \in OrderId, NEW n \in Int, Accept(o, n)
  PROVE  ExchangeType /\ Grows /\ order'[o].st = "open" /\ order[o].st = "none"
BY DEF TypeOK, BookingInv, UnplacedIsPrivate, Accept, Order, OrderStatus, ExchangeType, Grows

\* An order that leaves the book keeps what it filled.
LEMMA WithdrawGrows ==
  ASSUME TypeOK, NEW o \in OrderId, Withdraw(o)
  PROVE  ExchangeType /\ Grows
BY DEF TypeOK, Withdraw, Order, OrderStatus, ExchangeType, Grows

\* So does a cancel, whether or not the exchange obeys it.
LEMMA CancelGrows ==
  ASSUME TypeOK, NEW o \in OrderId, CancelOrder(o)
  PROVE  ExchangeType /\ Grows
BY StillGrows, WithdrawGrows DEF CancelOrder

\* A fill only adds to what the order has filled.
LEMMA FillGrows ==
  ASSUME TypeOK, NEW o \in OrderId, ExchangeFill(o)
  PROVE  ExchangeType /\ Grows
<1>1. PICK n \in 1..(order[o].size - order[o].filled) :
        order' = [order EXCEPT ![o].filled = @ + n,
                   ![o].st = IF order[o].filled + n = order[o].size THEN "filled" ELSE "open"]
  BY DEF ExchangeFill
<1>2. order[o] \in Order /\ order[o].st = "open" /\ wallet' = wallet /\ wallet \in Int
  BY DEF TypeOK, ExchangeFill
<1>3. n \in Int /\ n > 0
  BY <1>2 DEF Order
<1>4. /\ order'[o].st \in {"open", "filled"} /\ order'[o].filled = order[o].filled + n
      /\ order'[o] \in Order
  <2> DEFINE status == IF order[o].filled + n = order[o].size THEN "filled" ELSE "open"
  <2> HIDE DEF status
  <2>1. status \in {"open", "filled"}
    BY DEF status
  <2>2. order' = [order EXCEPT ![o].filled = @ + n, ![o].st = status]
    BY <1>1 DEF status
  <2>3. order'[o] = [order[o] EXCEPT !.filled = @ + n, !.st = status]
    BY <2>2 DEF TypeOK
  <2>4. /\ order'[o].st = status /\ order'[o].filled = order[o].filled + n
        /\ order'[o] = [st |-> status, size |-> order[o].size, filled |-> order[o].filled + n]
    BY <1>2, <2>3 DEF Order
  <2>5. order[o].filled + n \in Nat /\ order[o].size \in Nat
    BY <1>2, <1>3 DEF Order
  <2> QED
    BY <2>1, <2>4, <2>5 DEF Order, OrderStatus
<1>5. \A q \in OrderId \ {o} : order'[q] = order[q]
  BY <1>1 DEF TypeOK
<1>6. order' \in [OrderId -> Order]
  BY <1>1, <1>4, <1>5 DEF TypeOK
<1>7. Grows
  BY <1>2, <1>3, <1>4, <1>5 DEF TypeOK, Order, Grows
<1> QED
  BY <1>2, <1>6, <1>7 DEF ExchangeType

-------------------------------------------------------------------------------
(* The books.                                                               *)

Books == UnplacedIsPrivate /\ HeldIsPrivate /\ RowCovers /\ OneRowPerOrder /\ NoOverBooking

\* What may happen to hold: nothing, forgetting, or a fresh order's reply.
HoldStep ==
  \/ \A p \in Proc : hold'[p] \in {hold[p], NoOrder}
  \/ \E p \in Proc, o \in OrderId :
       /\ order[o].st = "none" /\ order'[o].st # "none"
       /\ hold' = [hold EXCEPT ![p] = o]

RowsKeep == \A r \in OrderId : row'[r].oid = row[r].oid /\ row'[r].filled = row[r].filled

\* A step that books nothing keeps the books in order.
LEMMA BookkeepingKept ==
  ASSUME TypeOK, BookingInv, ExchangeType, Grows, HoldStep, RowsKeep, booked' = booked,
         pos'.limit \in {pos.limit, NoOrder},
         Watched' \in {Watched, NoOrder, pos.limit}
  PROVE  Books'
<1> USE DEF BookingInv, OptionalOrder, NoOrder, OrderId
<1>1. \A o \in OrderId : Private(o) /\ pos.limit # o => Private(o)'
  BY DEF Private, RowsKeep
<1>2. UnplacedIsPrivate'
  BY <1>1 DEF UnplacedIsPrivate, Private, Grows, HoldStep, TypeOK
<1>3. HeldIsPrivate'
  BY <1>1 DEF UnplacedIsPrivate, HeldIsPrivate, Private, HoldStep, TypeOK
<1>4. RowCovers' /\ OneRowPerOrder'
  BY DEF RowCovers, OneRowPerOrder, RowsKeep, TypeOK, PendingRow
<1>5. NoOverBooking'
  BY DEF NoOverBooking, Grows, TypeOK, Order, ExchangeType
<1> QED
  BY <1>2, <1>3, <1>4, <1>5 DEF Books

\* Booking the fills of the watched order up to a total it has really reached.
LEMMA Booked ==
  ASSUME TypeOK, BookingInv, UNCHANGED <<order, hold>>,
         NEW r \in OrderId, row[r].oid = Watched, Watched # NoOrder,
         NEW total \in Nat, booked[Watched] <= total, total <= order[Watched].filled,
         booked' = [booked EXCEPT ![Watched] = @ + NewFill(r, total)],
         row' \in [OrderId -> PendingRow],
         \A q \in OrderId : row'[q].oid = row[q].oid,
         \A q \in OrderId \ {r} : row'[q].filled = row[q].filled,
         row'[r].filled >= total,
         pos'.limit \in {pos.limit, NoOrder},
         Watched' \in {Watched, NoOrder}
  PROVE  Books' /\ booked'[Watched] <= total /\ booked' \in [OrderId -> Nat]
<1> USE DEF BookingInv, OptionalOrder, NoOrder, OrderId
<1>0. Watched \in OrderId
  BY SessionsAssumption DEF TypeOK, Proc, Watched
<1>1. /\ booked'[Watched] <= total /\ booked' \in [OrderId -> Nat]
      /\ \A o \in OrderId \ {Watched} : booked'[o] = booked[o]
  <2>1. booked[Watched] <= row[r].filled /\ row[r].filled \in Nat
    BY DEF RowCovers, TypeOK, PendingRow
  <2>2. NewFill(r, total) \in Nat /\ booked[Watched] + NewFill(r, total) <= total
    BY <1>0, <2>1 DEF NewFill, TypeOK
  <2> QED
    BY <1>0, <2>2 DEF TypeOK
<1>2. \A o \in OrderId : Private(o) => Private(o)'
  BY <1>1 DEF Private
<1>3. UnplacedIsPrivate' /\ HeldIsPrivate'
  BY <1>2 DEF UnplacedIsPrivate, HeldIsPrivate, TypeOK
<1>4. OneRowPerOrder'
  BY DEF OneRowPerOrder
<1>5. RowCovers'
  BY <1>0, <1>1 DEF RowCovers, OneRowPerOrder, TypeOK, PendingRow
<1>6. NoOverBooking'
  BY <1>0, <1>1 DEF NoOverBooking, TypeOK, Order
<1> QED
  BY <1>1, <1>3, <1>4, <1>5, <1>6 DEF Books

\* The sessions that are not the monitor leave what it knows alone.
LEMMA MonitorKept ==
  ASSUME TypeOK, BookingInv, ExchangeType, Grows,
         pc'[Monitor] = pc[Monitor], Watched' = Watched, poll' = poll,
         Watched # NoOrder => booked'[Watched] = booked[Watched]
  PROVE  PollBetween'
BY SessionsAssumption
   DEF BookingInv, SessionsHold, PollBetween, TypeOK, Order, OrderData, OrderId, OptionalOrder,
       NoOrder, Grows, ExchangeType, Watching, Proc, Watched

-------------------------------------------------------------------------------
(* The steps of the sellers and of the routes.                              *)

DatabaseType ==
  /\ pos' \in PositionRow
  /\ row' \in [OrderId -> PendingRow]
  /\ booked' \in [OrderId -> Nat]

\* One session moves on; it waits for an order only if it holds one.
SessionMoves(p, where, o) ==
  /\ pc' = [pc EXCEPT ![p] = where]
  /\ hold' = [hold EXCEPT ![p] = o]
  /\ where \in {"placed", "await"} => o # NoOrder

\* Such a move keeps the sessions well typed and their holds in step with them.
LEMMA SessionType ==
  ASSUME TypeOK, BookingInv, NEW p \in Sellers \cup Users, NEW where \in Where,
         NEW o \in OptionalOrder, SessionMoves(p, where, o), Watched' = Watched, poll' = poll
  PROVE  /\ pc' \in [Proc -> Where] /\ hold' \in [Proc -> OptionalOrder]
         /\ SessionsHold' /\ pc'[Monitor] = pc[Monitor]
BY SessionsAssumption DEF TypeOK, Proc, SessionMoves, BookingInv, SessionsHold, Watched

\* Dropping an order id is one of the things that may happen to hold.
LEMMA HoldForgets ==
  ASSUME TypeOK, NEW p \in Proc, hold' = hold \/ hold' = [hold EXCEPT ![p] = NoOrder]
  PROVE  HoldStep
BY DEF TypeOK, HoldStep

\* Being told the id of an order just accepted is another.
LEMMA HoldLearns ==
  ASSUME TypeOK, BookingInv, NEW p \in Proc, NEW o \in OrderId, NEW n \in Int, Accept(o, n),
         hold' = [hold EXCEPT ![p] = o]
  PROVE  HoldStep
BY AcceptGrows DEF HoldStep

\* A step of such a session that books nothing.
LEMMA QuietStep ==
  ASSUME TypeOK, BookingInv, ExchangeType, Grows, HoldStep, RowsKeep, booked' = booked,
         pos'.limit \in {pos.limit, NoOrder}, Watched' = Watched, poll' = poll,
         pc'[Monitor] = pc[Monitor], SessionsHold'
  PROVE  BookingInv'
BY BookkeepingKept, MonitorKept DEF Books, BookingInv

\* Clearing the closing flag of a position leaves a position, of the same order or none.
LEMMA PosType ==
  ASSUME TypeOK, NEW s \in Sellers, NEW position \in PositionRow
  PROVE  /\ Cleared(s, position) \in PositionRow
         /\ Cleared(s, position).limit \in {position.limit, NoOrder}
BY DEF Cleared, PositionRow, OptionalOrder

\* Such a step as a whole; what is left to show of an action is on the left.
LEMMA SessionStep ==
  ASSUME TypeOK, BookingInv,
         NEW p \in Sellers \cup Users, NEW where \in Where, NEW o \in OptionalOrder,
         SessionMoves(p, where, o), ExchangeType, Grows, HoldStep,
         pos' \in PositionRow, pos'.limit \in {pos.limit, NoOrder},
         row' \in [OrderId -> PendingRow], RowsKeep, booked' = booked,
         seen' \in [Proc -> OptionalOrder], Watched' = Watched,
         clearing' \subseteq Sellers, poll' = poll, crashes' = crashes
  PROVE  TypeOK' /\ BookingInv'
<1>1. /\ pc' \in [Proc -> Where] /\ hold' \in [Proc -> OptionalOrder]
      /\ SessionsHold' /\ pc'[Monitor] = pc[Monitor]
  BY SessionType
<1>2. TypeOK'
  BY <1>1 DEF TypeOK, ExchangeType
<1>3. BookingInv'
  BY <1>1, QuietStep
<1> QED
  BY <1>2, <1>3

\* The start of a close, by the bot or a panic sell.
LEMMA SellStartInv ==
  ASSUME TypeOK, BookingInv, NEW s \in Sellers, SellStart(s) \/ PanicStart(s)
  PROVE  TypeOK' /\ BookingInv'
<1>1. PICK where \in {"limit", "market"} : pc' = [pc EXCEPT ![s] = where]
  BY DEF SellStart, PanicStart, Goto
<1>2. /\ UNCHANGED <<exchange, database, hold, seen, poll, crashes>>
      /\ clearing' \subseteq Sellers
  BY DEF SellStart, PanicStart, TypeOK
<1>3. SessionMoves(s, where, hold[s]) /\ hold[s] \in OptionalOrder /\ where \in Where
  BY <1>1, <1>2 DEF SessionMoves, TypeOK, Proc, Where
<1>4. ExchangeType /\ Grows /\ HoldStep
  BY <1>2, StillGrows, HoldForgets DEF Proc
<1>5. RowsKeep
  BY <1>2 DEF RowsKeep, database
<1> QED
  BY <1>2, <1>3, <1>4, <1>5, SessionStep DEF TypeOK, database, Watched

\* Placing a limit close, by a seller or a route: accepted, refused, or the reply lost.
LEMMA LimitPlaceInv ==
  ASSUME TypeOK, BookingInv, NEW p \in Sellers \cup Users,
         SellLimitPlace(p) \/ UserLimitPlace(p)
  PROVE  TypeOK' /\ BookingInv'
<1>1. UNCHANGED <<database, seen, clearing, poll, crashes>> /\ Size \in Int /\ p \in Proc
  BY SizesAssumption DEF SellLimitPlace, UserLimitPlace, Proc
<1>2. CASE \E o \in OrderId : Accept(o, Size) /\ Goto(p, "placed") /\ Holding(p, o)
  <2>1. PICK o \in OrderId : Accept(o, Size) /\ Goto(p, "placed") /\ Holding(p, o)
    BY <1>2
  <2>2. SessionMoves(p, "placed", o) /\ o \in OptionalOrder /\ "placed" \in Where
    BY <2>1 DEF SessionMoves, Goto, Holding, OptionalOrder, OrderId, NoOrder, Where
  <2>3. ExchangeType /\ Grows /\ HoldStep
    BY <1>1, <2>1, AcceptGrows, HoldLearns DEF Holding
  <2> QED
    BY <1>1, <2>2, <2>3, SessionStep DEF TypeOK, database, Watched, RowsKeep
<1>3. CASE /\ (\E o \in OrderId : Accept(o, Size)) \/ UNCHANGED exchange
           /\ \E where \in {"market", "idle"} : Goto(p, where)
           /\ UNCHANGED hold
  <2>1. PICK where \in {"market", "idle"} : Goto(p, where)
    BY <1>3
  <2>2. SessionMoves(p, where, hold[p]) /\ hold[p] \in OptionalOrder /\ where \in Where
    BY <1>1, <1>3, <2>1 DEF SessionMoves, Goto, TypeOK, Where
  <2>3. ExchangeType /\ Grows /\ HoldStep
    BY <1>1, <1>3, AcceptGrows, StillGrows, HoldForgets
  <2> QED
    BY <1>1, <2>2, <2>3, SessionStep DEF TypeOK, database, Watched, RowsKeep
<1> QED
  BY <1>2, <1>3 DEF SellLimitPlace, UserLimitPlace

\* A close without an order, of what the exchange would not accept.
LEMMA DustInv ==
  ASSUME TypeOK, BookingInv, NEW s \in Sellers, SellDust(s)
  PROVE  TypeOK' /\ BookingInv'
<1> DEFINE proceeds == IF wallet <= 0 THEN Size ELSE wallet
           closed == [pos EXCEPT !.status = "closed", !.received = proceeds]
<1>0. proceeds \in Nat
  BY SizesAssumption DEF TypeOK
<1> HIDE DEF proceeds
<1>1. closed \in PositionRow /\ closed.limit = pos.limit
  BY <1>0 DEF TypeOK, PositionRow
<1>2. /\ pos' = Cleared(s, closed) /\ clearing' \subseteq Sellers
      /\ UNCHANGED <<exchange, row, booked, hold, seen, poll, crashes>>
  BY DEF SellDust, TypeOK, proceeds
<1>3. SessionMoves(s, "idle", hold[s]) /\ hold[s] \in OptionalOrder /\ "idle" \in Where
  BY DEF SellDust, Goto, SessionMoves, TypeOK, Proc, Where
<1>4. ExchangeType /\ Grows /\ HoldStep
  BY <1>2, StillGrows, HoldForgets DEF Proc
<1>5. pos' \in PositionRow /\ pos'.limit \in {pos.limit, NoOrder}
  BY <1>1, <1>2, PosType
<1> QED
  BY <1>2, <1>3, <1>4, <1>5, SessionStep DEF TypeOK, Watched, RowsKeep

\* The amount sold is a number.
LEMMA ClampedInt == TypeOK => Clamped \in Int
BY SizesAssumption DEF TypeOK, Clamped

\* A market order is accepted; the seller awaits its fill.
LEMMA MarketSubmitInv ==
  ASSUME TypeOK, BookingInv, NEW s \in Sellers, SellMarketSubmit(s)
  PROVE  TypeOK' /\ BookingInv'
<1>1. PICK o \in OrderId : Accept(o, Clamped) /\ Holding(s, o)
  BY DEF SellMarketSubmit
<1>2. /\ UNCHANGED <<database, seen, clearing, poll, crashes>> /\ Clamped \in Int /\ s \in Proc
      /\ Goto(s, "await")
  BY ClampedInt DEF SellMarketSubmit, Proc
<1>3. SessionMoves(s, "await", o) /\ o \in OptionalOrder /\ "await" \in Where
  BY <1>1, <1>2 DEF SessionMoves, Goto, Holding, OptionalOrder, OrderId, NoOrder, Where
<1>4. ExchangeType /\ Grows /\ HoldStep
  BY <1>1, <1>2, AcceptGrows, HoldLearns DEF Holding
<1> QED
  BY <1>2, <1>3, <1>4, SessionStep DEF TypeOK, database, Watched, RowsKeep

\* A market order fails, or its reply is lost.
LEMMA MarketFailInv ==
  ASSUME TypeOK, BookingInv, NEW s \in Sellers, SellMarketFail(s)
  PROVE  TypeOK' /\ BookingInv'
<1>1. /\ pos' = Cleared(s, pos) /\ clearing' \subseteq Sellers
      /\ UNCHANGED <<row, booked, hold, seen, poll, crashes>>
  BY DEF SellMarketFail, TypeOK
<1>2. SessionMoves(s, "idle", hold[s]) /\ hold[s] \in OptionalOrder /\ "idle" \in Where
  BY DEF SellMarketFail, Goto, SessionMoves, TypeOK, Proc, Where
<1>3. ExchangeType /\ Grows
  BY ClampedInt, AcceptGrows, StillGrows DEF SellMarketFail
<1>4. HoldStep
  BY <1>1, HoldForgets DEF Proc
<1>5. pos' \in PositionRow /\ pos'.limit \in {pos.limit, NoOrder}
  BY <1>1, PosType DEF TypeOK
<1> QED
  BY <1>1, <1>2, <1>3, <1>4, <1>5, SessionStep DEF TypeOK, Watched, RowsKeep

\* A market order whose fill is not confirmed books nothing.
LEMMA UnconfirmedInv ==
  ASSUME TypeOK, BookingInv, NEW s \in Sellers, SellUnconfirmed(s)
  PROVE  TypeOK' /\ BookingInv'
<1>1. /\ pos' = Cleared(s, pos) /\ clearing' \subseteq Sellers
      /\ UNCHANGED <<row, booked, seen, poll, crashes>>
      /\ pc[s] = "await" /\ CancelOrder(hold[s])
  BY DEF SellUnconfirmed, TypeOK
<1>2. SessionMoves(s, "idle", NoOrder) /\ NoOrder \in OptionalOrder /\ "idle" \in Where
  BY DEF SellUnconfirmed, Goto, Holding, SessionMoves, OptionalOrder, Where
<1>3. hold[s] \in OrderId
  BY <1>1 DEF TypeOK, BookingInv, SessionsHold, Proc, OptionalOrder
<1>4. ExchangeType /\ Grows
  BY <1>1, <1>3, CancelGrows
<1>5. HoldStep
  BY HoldForgets DEF Proc, SellUnconfirmed, Holding
<1>6. pos' \in PositionRow /\ pos'.limit \in {pos.limit, NoOrder}
  BY <1>1, PosType DEF TypeOK
<1> QED
  BY <1>1, <1>2, <1>4, <1>5, <1>6, SessionStep DEF TypeOK, Watched, RowsKeep

\* A confirmed market order is booked once: its id was the seller's alone.
LEMMA ConfirmedInv ==
  ASSUME TypeOK, BookingInv, NEW s \in Sellers, SellConfirmed(s)
  PROVE  TypeOK' /\ BookingInv'
<1> DEFINE o == hold[s]
           closed == [pos EXCEPT !.status = "closed", !.received = order[o].filled]
<1>1. /\ pc[s] = "await" /\ order[o].st = "filled"
      /\ booked' = [booked EXCEPT ![o] = @ + order[o].filled]
      /\ pos' = Cleared(s, closed) /\ clearing' \subseteq Sellers
      /\ hold' = [hold EXCEPT ![s] = NoOrder]
      /\ UNCHANGED <<exchange, row, seen, poll, crashes>>
  BY DEF SellConfirmed, Holding, TypeOK
<1>2. SessionMoves(s, "idle", NoOrder) /\ NoOrder \in OptionalOrder /\ "idle" \in Where
  BY DEF SellConfirmed, Goto, Holding, SessionMoves, OptionalOrder, Where
<1>3. /\ o \in OrderId /\ o # NoOrder /\ Private(o) /\ order[o] \in Order /\ s \in Proc
      /\ \A q \in Proc : hold[q] = o => q = s
  BY <1>1 DEF TypeOK, BookingInv, SessionsHold, HeldIsPrivate, Proc, OptionalOrder
<1>4. closed \in PositionRow /\ closed.limit = pos.limit
  BY <1>3 DEF TypeOK, PositionRow, Order
<1>5. pos' \in PositionRow /\ pos'.limit \in {pos.limit, NoOrder}
  BY <1>1, <1>4, PosType
<1> HIDE DEF o, closed
<1>6. booked' \in [OrderId -> Nat] /\ booked'[o] = order[o].filled
      /\ \A q \in OrderId \ {o} : booked'[q] = booked[q]
  BY <1>1, <1>3 DEF TypeOK, Private, Order
<1>7. \A q \in OrderId : q # o /\ Private(q) => Private(q)'
  BY <1>1, <1>5, <1>6 DEF Private, Watched, OrderId, NoOrder
<1>8. UnplacedIsPrivate' /\ HeldIsPrivate'
  <2>1. UnplacedIsPrivate'
    BY <1>1, <1>3, <1>7
       DEF BookingInv, UnplacedIsPrivate, TypeOK, exchange, OptionalOrder, OrderId, NoOrder
  <2>2. HeldIsPrivate'
    BY <1>1, <1>3, <1>7 DEF BookingInv, HeldIsPrivate, TypeOK, OptionalOrder
  <2> QED
    BY <2>1, <2>2
<1>9. RowCovers' /\ OneRowPerOrder'
  BY <1>1, <1>3, <1>6
     DEF BookingInv, RowCovers, OneRowPerOrder, Private, TypeOK, PendingRow, OptionalOrder
<1>10. NoOverBooking'
  BY <1>1, <1>3, <1>6 DEF BookingInv, NoOverBooking, TypeOK, Order, exchange
<1>11. /\ pc' \in [Proc -> Where] /\ hold' \in [Proc -> OptionalOrder]
       /\ SessionsHold' /\ pc'[Monitor] = pc[Monitor]
  BY <1>1, <1>2, SessionType DEF Watched
<1>12. ExchangeType /\ Grows
  BY <1>1, StillGrows
<1>13. Watched # NoOrder => booked'[Watched] = booked[Watched]
  BY <1>3, <1>6, SessionsAssumption DEF Private, TypeOK, OptionalOrder, Watched, Proc
<1>14. PollBetween'
  BY <1>1, <1>11, <1>12, <1>13, MonitorKept DEF Watched
<1>15. TypeOK'
  BY <1>1, <1>5, <1>6, <1>11, <1>12 DEF TypeOK, ExchangeType
<1> QED
  BY <1>8, <1>9, <1>10, <1>11, <1>14, <1>15 DEF BookingInv

\* A session that was told of order o commits it: o is now the order of a row
\* and of the position, and of no session.
LEMMA TrackInv ==
  ASSUME TypeOK, BookingInv, NEW p \in Sellers \cup Users, NEW manual \in BOOLEAN,
         Track(p, manual)
  PROVE  TypeOK' /\ BookingInv'
<1> DEFINE o == hold[p]
<1>1. /\ pc[p] = "placed" /\ row' = [row EXCEPT ![o] = NewRow(o, manual)]
      /\ pos' = [pos EXCEPT !.closing = TRUE, !.limit = o]
      /\ hold' = [hold EXCEPT ![p] = NoOrder]
      /\ UNCHANGED <<exchange, booked, seen, clearing, poll, crashes>>
  BY DEF Track, Holding, FlagsFor
<1>2. SessionMoves(p, "idle", NoOrder) /\ NoOrder \in OptionalOrder /\ "idle" \in Where
  BY DEF Track, Goto, Holding, SessionMoves, OptionalOrder, Where
<1>3. /\ o \in OrderId /\ o # NoOrder /\ Private(o) /\ p \in Proc
      /\ \A q \in Proc : hold[q] = o => q = p
  BY <1>1 DEF TypeOK, BookingInv, SessionsHold, HeldIsPrivate, Proc, OptionalOrder
<1>4. order[o].st # "none"
  BY <1>3 DEF BookingInv, UnplacedIsPrivate
<1> HIDE DEF o
<1>5. NewRow(o, manual) \in PendingRow /\ NewRow(o, manual).oid = o
      /\ NewRow(o, manual).filled = 0
  BY <1>3, SizesAssumption DEF NewRow, PendingRow, OptionalOrder, RowStatus
<1>6. /\ row' \in [OrderId -> PendingRow] /\ row'[o].oid = o /\ row'[o].filled = 0
      /\ \A r \in OrderId \ {o} : row'[r] = row[r]
  BY <1>1, <1>3, <1>5 DEF TypeOK
<1>7. pos' \in PositionRow /\ pos'.limit = o
  BY <1>1, <1>3 DEF TypeOK, PositionRow, OptionalOrder
<1>8. \A q \in OrderId : q # o /\ Private(q) => Private(q)'
  BY <1>1, <1>6, <1>7 DEF Private, Watched
<1>9. UnplacedIsPrivate'
  BY <1>1, <1>3, <1>4, <1>8
     DEF BookingInv, UnplacedIsPrivate, TypeOK, exchange, OptionalOrder, OrderId, NoOrder
<1>10. HeldIsPrivate'
  BY <1>1, <1>3, <1>8, o \in OptionalOrder
     DEF BookingInv, HeldIsPrivate, TypeOK, OptionalOrder, o
<1>11. RowCovers' /\ OneRowPerOrder'
  BY <1>1, <1>3, <1>6 DEF BookingInv, RowCovers, OneRowPerOrder, Private, TypeOK
<1>12. NoOverBooking'
  BY <1>1 DEF BookingInv, NoOverBooking, exchange
<1>13. /\ pc' \in [Proc -> Where] /\ hold' \in [Proc -> OptionalOrder]
       /\ SessionsHold' /\ pc'[Monitor] = pc[Monitor]
  BY <1>1, <1>2, SessionType DEF Watched
<1>14. ExchangeType /\ Grows
  BY <1>1, StillGrows
<1>15. PollBetween'
  BY <1>1, <1>13, <1>14, MonitorKept DEF Watched
<1>16. TypeOK'
  BY <1>1, <1>6, <1>7, <1>13, <1>14 DEF TypeOK, ExchangeType
<1> QED
  BY <1>9, <1>10, <1>11, <1>12, <1>13, <1>15, <1>16 DEF BookingInv

\* The steps of the routes that place no order.
LEMMA RouteInv ==
  ASSUME TypeOK, BookingInv, NEW u \in Users,
         UserLimitStart(u) \/ UserCancelOrder(u) \/ UserCancelCommit(u)
  PROVE  TypeOK' /\ BookingInv'
<1>1. UNCHANGED <<booked, hold, clearing, poll, crashes>> /\ u \in Proc /\ u # Monitor
  BY SessionsAssumption
     DEF UserLimitStart, UserCancelOrder, UserCancelCommit, Proc, database
<1>2. HoldStep
  BY <1>1, HoldForgets
<1>3. CASE UserLimitStart(u)
  <2>1. SessionMoves(u, "limit", hold[u]) /\ hold[u] \in OptionalOrder /\ "limit" \in Where
    BY <1>1, <1>3 DEF UserLimitStart, Goto, SessionMoves, TypeOK, Where
  <2>2. UNCHANGED <<exchange, database, seen>>
    BY <1>3 DEF UserLimitStart
  <2> QED
    BY <1>1, <1>2, <2>1, <2>2, StillGrows, SessionStep DEF TypeOK, database, Watched, RowsKeep
<1>4. CASE UserCancelOrder(u)
  <2>1. SessionMoves(u, "cancelling", hold[u]) /\ hold[u] \in OptionalOrder
        /\ "cancelling" \in Where
    BY <1>1, <1>4 DEF UserCancelOrder, Goto, SessionMoves, TypeOK, Where
  <2>2. /\ UNCHANGED database /\ pos.limit \in OrderId /\ CancelOrder(pos.limit)
        /\ seen' = [seen EXCEPT ![u] = pos.limit]
    BY <1>4 DEF UserCancelOrder, TypeOK, PositionRow, OptionalOrder
  <2>3. ExchangeType /\ Grows
    BY <2>2, CancelGrows
  <2>4. seen' \in [Proc -> OptionalOrder] /\ Watched' = Watched
    BY <1>1, <2>2, SessionsAssumption DEF TypeOK, OptionalOrder, Watched, Proc
  <2> QED
    BY <1>1, <1>2, <2>1, <2>2, <2>3, <2>4, SessionStep DEF TypeOK, database, RowsKeep
<1>5. CASE UserCancelCommit(u)
  <2>1. SessionMoves(u, "idle", hold[u]) /\ hold[u] \in OptionalOrder /\ "idle" \in Where
    BY <1>1, <1>5 DEF UserCancelCommit, Goto, SessionMoves, TypeOK, Where
  <2>2. UNCHANGED exchange /\ seen' = [seen EXCEPT ![u] = NoOrder] /\ pos' = FlagsCleared
    BY <1>5 DEF UserCancelCommit
  <2>3. /\ row' \in [OrderId -> PendingRow] /\ RowsKeep
    <3>1. \A r \in OrderId : row'[r] = row[r] \/ row'[r] = [row[r] EXCEPT !.status = "cancelled"]
      BY <1>5 DEF UserCancelCommit
    <3>2. row' = [r \in OrderId |-> row'[r]]
      BY <1>5 DEF UserCancelCommit
    <3> QED
      BY <3>1, <3>2 DEF TypeOK, PendingRow, RowStatus, RowsKeep
  <2>4. pos' \in PositionRow /\ pos'.limit = NoOrder
    BY <2>2 DEF FlagsCleared, TypeOK, PositionRow, OptionalOrder
  <2>5. seen' \in [Proc -> OptionalOrder] /\ Watched' = Watched
    BY <1>1, <2>2, SessionsAssumption DEF TypeOK, OptionalOrder, Watched, Proc
  <2> QED
    BY <1>1, <1>2, <2>1, <2>2, <2>3, <2>4, <2>5, StillGrows, SessionStep DEF TypeOK
<1> QED
  BY <1>3, <1>4, <1>5

\* The exchange, the cancel of a position, and the sweep.
LEMMA OutsideInv ==
  ASSUME TypeOK, BookingInv,
         \/ \E o \in OrderId : ExchangeFill(o) \/ ExchangeExpire(o)
         \/ CancelPosition
         \/ Sweep
  PROVE  TypeOK' /\ BookingInv'
<1>1. UNCHANGED <<booked, sessions, crashes>> /\ pos'.limit = pos.limit
      /\ pos' \in PositionRow
  <2>1. CASE CancelPosition
    BY <2>1 DEF CancelPosition, TypeOK, PositionRow
  <2>2. CASE Sweep
    BY <2>2 DEF Sweep, TypeOK
  <2>3. CASE \E o \in OrderId : ExchangeFill(o) \/ ExchangeExpire(o)
    BY <2>3 DEF ExchangeFill, ExchangeExpire, database, TypeOK
  <2> QED
    BY <2>1, <2>2, <2>3
<1>2. ExchangeType /\ Grows
  BY FillGrows, WithdrawGrows, StillGrows DEF ExchangeExpire, CancelPosition, Sweep
<1>3. row' \in [OrderId -> PendingRow] /\ RowsKeep
  <2>1. CASE Sweep
    <3>1. \A r \in OrderId : row'[r] = row[r] \/ row'[r] = [row[r] EXCEPT !.status = "orphaned"]
      BY <2>1 DEF Sweep
    <3>2. row' = [r \in OrderId |-> row'[r]]
      BY <2>1 DEF Sweep
    <3> QED
      BY <3>1, <3>2 DEF TypeOK, PendingRow, RowStatus, RowsKeep
  <2>2. CASE ~Sweep
    BY <2>2 DEF ExchangeFill, ExchangeExpire, CancelPosition, database, TypeOK, RowsKeep
  <2> QED
    BY <2>1, <2>2
<1>4. HoldStep
  BY <1>1 DEF HoldStep, sessions
<1>5. Books' /\ PollBetween'
  BY <1>1, <1>2, <1>3, <1>4, BookkeepingKept, MonitorKept DEF sessions, Watched
<1>6. SessionsHold'
  BY <1>1 DEF BookingInv, SessionsHold, sessions, Watched
<1>7. TypeOK'
  BY <1>1, <1>2, <1>3 DEF TypeOK, ExchangeType, sessions
<1> QED
  BY <1>5, <1>6, <1>7 DEF Books, BookingInv

\* A crash forgets the sessions, whose orders then belong to no one.
LEMMA CrashInv ==
  ASSUME TypeOK, BookingInv, Crash
  PROVE  TypeOK' /\ BookingInv'
<1>1. /\ UNCHANGED <<exchange, database>> /\ poll' = NoPoll /\ clearing' = {}
      /\ pc' = [p \in Proc |-> IF p = Monitor THEN "boot" ELSE "idle"]
      /\ hold' = [p \in Proc |-> NoOrder]
      /\ seen' = [p \in Proc |-> NoOrder]
      /\ crashes' = crashes + 1
  BY DEF Crash
<1>2. ExchangeType /\ Grows /\ RowsKeep /\ HoldStep
  BY <1>1, StillGrows DEF database, RowsKeep, HoldStep
<1>3. Watched' = NoOrder
  BY <1>1 DEF Watched, Proc
<1>4. Books'
  BY <1>1, <1>2, <1>3, BookkeepingKept DEF database
<1>5. SessionsHold' /\ PollBetween'
  BY <1>1 DEF SessionsHold, PollBetween, Watching, NoPoll, Proc
<1>6. TypeOK'
  BY <1>1, <1>2
     DEF TypeOK, database, ExchangeType, Where, OptionalOrder, NoPoll, OrderData, OrderStatus
<1> QED
  BY <1>4, <1>5, <1>6 DEF Books, BookingInv

-------------------------------------------------------------------------------
(* The steps of the monitor.                                                *)

\* The monitor moves on, watching order o and holding order h.
MonitorMoves(where, o, h) ==
  /\ pc' = [pc EXCEPT ![Monitor] = where]
  /\ hold' = [hold EXCEPT ![Monitor] = h]
  /\ seen' = [seen EXCEPT ![Monitor] = o]
  /\ where = "placed" => h # NoOrder
  /\ where \in Watching => o # NoOrder
  /\ where \in {"boot", "idle", "boot_poll", "poll"} => poll'.filled = 0
  /\ where \in {"load", "apply"} =>
       booked'[o] <= poll'.filled /\ poll'.filled <= order'[o].filled

\* A step of the monitor as a whole; what is left to show of an action is on the left.
LEMMA MonitorStep ==
  ASSUME TypeOK, BookingInv, NEW where \in Where \ {"await"},
         NEW o \in OptionalOrder, NEW h \in OptionalOrder, MonitorMoves(where, o, h),
         poll' \in OrderData, ExchangeType, DatabaseType, Books',
         clearing' = clearing, crashes' = crashes
  PROVE  TypeOK' /\ BookingInv'
<1>1. Monitor \in Proc
  BY DEF Proc
<1>2. TypeOK'
  BY <1>1 DEF TypeOK, MonitorMoves, ExchangeType, DatabaseType
<1>3. pc'[Monitor] = where /\ Watched' = o
  BY <1>1 DEF TypeOK, MonitorMoves, Watched
<1>4. SessionsHold'
  BY <1>1, <1>3 DEF BookingInv, SessionsHold, TypeOK, MonitorMoves
<1>5. PollBetween'
  BY <1>3 DEF PollBetween, MonitorMoves
<1> QED
  BY <1>2, <1>4, <1>5 DEF Books, BookingInv

\* What the monitor watches is an order or none.
LEMMA WatchedType == TypeOK => Monitor \in Proc /\ Watched \in OptionalOrder
BY DEF TypeOK, Proc, Watched

\* What the monitor watches is an order once it has left its loop's head.
LEMMA WatchedOrder ==
  ASSUME TypeOK, BookingInv, pc[Monitor] \in Watching
  PROVE  Watched \in OrderId /\ Watched # NoOrder
BY WatchedType DEF BookingInv, SessionsHold, OptionalOrder

\* A step that ends the monitor's turn with the order it watched.
LEMMA DoneStep ==
  ASSUME TypeOK, BookingInv, MonDone, hold' = hold \/ hold' = [hold EXCEPT ![Monitor] = NoOrder],
         ExchangeType, DatabaseType, Books', clearing' = clearing, crashes' = crashes
  PROVE  TypeOK' /\ BookingInv'
<1>1. hold[Monitor] \in OptionalOrder /\ NoOrder \in OptionalOrder /\ Monitor \in Proc
  BY DEF TypeOK, Proc, OptionalOrder
<1>2. PICK h \in OptionalOrder : hold' = [hold EXCEPT ![Monitor] = h]
  BY <1>1 DEF TypeOK
<1>3. MonitorMoves("idle", NoOrder, h)
  BY <1>2 DEF MonDone, Goto, MonitorMoves, Watching, NoPoll
<1>4. poll' \in OrderData
  BY DEF MonDone, NoPoll, OrderData, OrderStatus
<1> QED
  BY <1>1, <1>3, <1>4, MonitorStep DEF Where

\* A step that takes the monitor on to its cancel-and-replace.
LEMMA GotoStep ==
  ASSUME TypeOK, BookingInv, pc[Monitor] \in Watching,
         NEW where \in {"cancel", "check", "replace"}, MonGoto(where), hold' = hold,
         ExchangeType, DatabaseType, Books', clearing' = clearing, crashes' = crashes
  PROVE  TypeOK' /\ BookingInv'
<1>1. hold[Monitor] \in OptionalOrder /\ Watched \in OptionalOrder /\ Watched # NoOrder
  BY WatchedType, WatchedOrder DEF TypeOK
<1>2. MonitorMoves(where, Watched, hold[Monitor])
  BY <1>1 DEF MonGoto, Goto, MonitorMoves, TypeOK, Watched
<1>3. poll' \in OrderData
  BY DEF MonGoto, TypeOK
<1> QED
  BY <1>1, <1>2, <1>3, MonitorStep DEF Where

\* At the end of its turn the monitor watches no order.
LEMMA DoneForgets == TypeOK /\ MonDone => Watched' = NoOrder
BY DEF TypeOK, MonDone, Watched, Proc

\* Restoring the closing flag leaves a position with the same order.
LEMMA RestoredType ==
  ASSUME TypeOK, NEW position \in PositionRow
  PROVE  Restored(position) \in PositionRow /\ Restored(position).limit = position.limit
BY DEF Restored, PositionRow

\* Clearing the flags leaves a position without an order.
LEMMA FlagsClearedType ==
  TypeOK => FlagsCleared \in PositionRow /\ FlagsCleared.limit = NoOrder
BY DEF TypeOK, FlagsCleared, PositionRow, OptionalOrder

\* Nothing is booked and no row changes hands.
LEMMA MonitorQuiet ==
  ASSUME TypeOK, BookingInv, ExchangeType, Grows, hold' = hold, booked' = booked,
         row' \in [OrderId -> PendingRow], RowsKeep,
         pos' \in PositionRow, pos'.limit \in {pos.limit, NoOrder},
         Watched' \in {Watched, NoOrder, pos.limit}
  PROVE  DatabaseType /\ Books'
<1>1. HoldStep
  BY DEF HoldStep
<1> QED
  BY <1>1, BookkeepingKept DEF DatabaseType, TypeOK

\* The repair of the flags at start.
LEMMA BootInv ==
  ASSUME TypeOK, BookingInv, MonBoot
  PROVE  TypeOK' /\ BookingInv'
<1>1. /\ pc[Monitor] = "boot" /\ poll.filled = 0 /\ hold[Monitor] \in OptionalOrder
      /\ UNCHANGED <<exchange, row, booked, hold, clearing, crashes>>
  BY WatchedType DEF MonBoot, TypeOK, BookingInv, SessionsHold
<1>2. ExchangeType /\ Grows /\ RowsKeep
  BY <1>1, StillGrows DEF RowsKeep
<1>3. CASE pos.status = "open" /\ pos.limit # NoOrder
  <2>1. /\ seen' = [seen EXCEPT ![Monitor] = pos.limit] /\ pos' = pos
        /\ poll' = [poll EXCEPT !.received = pos.received, !.boot = TRUE]
        /\ pc' = [pc EXCEPT ![Monitor] = "boot_poll"]
    BY <1>3 DEF MonBoot, Goto
  <2>2. pos \in PositionRow /\ pos.limit \in OptionalOrder
    BY DEF TypeOK, PositionRow
  <2>3. poll' \in OrderData /\ poll'.filled = 0
    BY <1>1, <2>1 DEF TypeOK, OrderData, PositionRow
  <2>4. MonitorMoves("boot_poll", pos.limit, hold[Monitor])
    BY <1>1, <1>3, <2>1, <2>3 DEF MonitorMoves, TypeOK
  <2>5. Watched' = pos.limit
    BY <2>1, WatchedType DEF TypeOK, Watched
  <2>6. DatabaseType /\ Books'
    BY <1>1, <1>2, <2>1, <2>2, <2>5, MonitorQuiet DEF TypeOK
  <2> QED
    BY <1>1, <1>2, <2>2, <2>3, <2>4, <2>6, MonitorStep DEF Where
<1>4. CASE ~(pos.status = "open" /\ pos.limit # NoOrder)
  <2>1. MonDone /\ pos' \in PositionRow /\ pos'.limit = pos.limit
    BY <1>4 DEF MonBoot, TypeOK, PositionRow
  <2>2. DatabaseType /\ Books'
    BY <1>1, <1>2, <2>1, DoneForgets, MonitorQuiet DEF TypeOK
  <2> QED
    BY <1>1, <1>2, <2>1, <2>2, DoneStep
<1> QED
  BY <1>3, <1>4

\* The monitor picks the position's order.
LEMMA SnapshotInv ==
  ASSUME TypeOK, BookingInv, MonSnapshot
  PROVE  TypeOK' /\ BookingInv'
<1>1. /\ pc[Monitor] = "idle" /\ poll.filled = 0 /\ hold[Monitor] \in OptionalOrder
      /\ UNCHANGED <<exchange, database, hold, clearing, poll, crashes>>
      /\ pos.limit # NoOrder /\ pos.limit \in OptionalOrder
      /\ seen' = [seen EXCEPT ![Monitor] = pos.limit]
      /\ pc' = [pc EXCEPT ![Monitor] = "poll"]
  BY WatchedType DEF MonSnapshot, Goto, TypeOK, PositionRow, BookingInv, SessionsHold
<1>2. ExchangeType /\ Grows /\ RowsKeep
  BY <1>1, StillGrows DEF RowsKeep, database
<1>3. MonitorMoves("poll", pos.limit, hold[Monitor])
  BY <1>1 DEF MonitorMoves, TypeOK
<1>4. Watched' = pos.limit
  BY <1>1, WatchedType DEF TypeOK, Watched
<1>5. DatabaseType /\ Books'
  BY <1>1, <1>2, <1>4, MonitorQuiet DEF TypeOK, database
<1> QED
  BY <1>1, <1>2, <1>3, <1>5, MonitorStep DEF Where, TypeOK

\* The lookup: the monitor learns a total the order has reached and the books have not passed.
LEMMA PollInv ==
  ASSUME TypeOK, BookingInv, MonPoll
  PROVE  TypeOK' /\ BookingInv'
<1>1. /\ Watched \in OrderId /\ hold[Monitor] \in OptionalOrder /\ order[Watched] \in Order
      /\ UNCHANGED <<exchange, database, hold, seen, clearing, crashes>>
      /\ poll' = [poll EXCEPT !.st = order[Watched].st, !.filled = order[Watched].filled]
  BY WatchedType, WatchedOrder DEF MonPoll, TypeOK, Watching
<1>2. PICK where \in {"load", "apply"} : pc' = [pc EXCEPT ![Monitor] = where]
  BY DEF MonPoll, Goto
<1>3. ExchangeType /\ Grows /\ RowsKeep
  BY <1>1, StillGrows DEF RowsKeep, database
<1>4. poll' \in OrderData /\ poll'.filled = order[Watched].filled
  BY <1>1 DEF TypeOK, OrderData, Order
<1>5. Watched # NoOrder /\ Watched \in OptionalOrder
  BY WatchedOrder DEF MonPoll, Watching, OptionalOrder
<1>6. booked[Watched] <= order[Watched].filled /\ order[Watched].filled \in Nat
  BY <1>1 DEF BookingInv, NoOverBooking, Order
<1>7. MonitorMoves(where, Watched, hold[Monitor])
  BY <1>1, <1>2, <1>4, <1>5, <1>6 DEF MonitorMoves, TypeOK, exchange, database, Watched
<1>8. DatabaseType /\ Books'
  BY <1>1, <1>3, MonitorQuiet DEF TypeOK, database, Watched
<1> QED
  BY <1>1, <1>3, <1>4, <1>5, <1>7, <1>8, MonitorStep DEF Where

\* The reload of the position and its row, after the lookup.
LEMMA LoadInv ==
  ASSUME TypeOK, BookingInv, MonLoad
  PROVE  TypeOK' /\ BookingInv'
<1>1. /\ pc[Monitor] = "load"
      /\ UNCHANGED <<exchange, database, hold, clearing, crashes>>
  BY DEF MonLoad
<1>2. ExchangeType /\ Grows /\ RowsKeep
  BY <1>1, StillGrows DEF RowsKeep, database
<1>3. CASE pos.status = "open" /\ pos.limit = Watched
  <2>1. /\ seen' = seen /\ pc' = [pc EXCEPT ![Monitor] = "apply"]
        /\ poll' = [poll EXCEPT !.received = pos.received]
    BY <1>3 DEF MonLoad, Goto
  <2>2. poll' \in OrderData /\ poll'.filled = poll.filled /\ hold[Monitor] \in OptionalOrder
    BY <2>1, WatchedType DEF TypeOK, OrderData, PositionRow
  <2>3. Watched # NoOrder /\ Watched \in OptionalOrder
    BY <1>1, WatchedOrder DEF Watching, OptionalOrder
  <2>4. booked[Watched] <= poll.filled /\ poll.filled <= order[Watched].filled
    BY <1>1 DEF BookingInv, PollBetween
  <2>5. MonitorMoves("apply", Watched, hold[Monitor])
    BY <1>1, <2>1, <2>2, <2>3, <2>4 DEF MonitorMoves, TypeOK, exchange, database, Watched
  <2>6. DatabaseType /\ Books'
    BY <1>1, <1>2, <2>1, MonitorQuiet DEF TypeOK, database, Watched
  <2> QED
    BY <1>1, <1>2, <2>2, <2>3, <2>5, <2>6, MonitorStep DEF Where
<1>4. CASE ~(pos.status = "open" /\ pos.limit = Watched)
  <2>1. MonDone
    BY <1>4 DEF MonLoad
  <2>2. DatabaseType /\ Books'
    BY <1>1, <1>2, <2>1, DoneForgets, MonitorQuiet DEF TypeOK, database
  <2> QED
    BY <1>1, <1>2, <2>1, <2>2, DoneStep
<1> QED
  BY <1>3, <1>4

\* The monitor gives up the round.
LEMMA AbandonInv ==
  ASSUME TypeOK, BookingInv, MonAbandon
  PROVE  TypeOK' /\ BookingInv'
<1>1. UNCHANGED <<exchange, row, booked, hold, clearing, crashes>> /\ MonDone
  BY DEF MonAbandon
<1>2. pos' \in PositionRow /\ pos'.limit = pos.limit
  BY RestoredType DEF MonAbandon, TypeOK
<1>3. ExchangeType /\ Grows /\ RowsKeep
  BY <1>1, StillGrows DEF RowsKeep
<1>4. DatabaseType /\ Books'
  BY <1>1, <1>2, <1>3, DoneForgets, MonitorQuiet DEF TypeOK
<1> QED
  BY <1>1, <1>3, <1>4, DoneStep

\* An order that ended unfilled releases the position.
LEMMA ReleaseInv ==
  ASSUME TypeOK, BookingInv, MonRelease
  PROVE  TypeOK' /\ BookingInv'
<1>1. /\ UNCHANGED <<exchange, booked, hold, clearing, crashes>> /\ MonDone
      /\ pos' = FlagsCleared
  BY DEF MonRelease
<1>2. PICK r \in OrderId : row' = [row EXCEPT ![r].status = "cancelled"]
  BY DEF MonRelease
<1>3. row' \in [OrderId -> PendingRow] /\ RowsKeep
  BY <1>2 DEF TypeOK, PendingRow, RowStatus, RowsKeep
<1>4. ExchangeType /\ Grows
  BY <1>1, StillGrows
<1>5. DatabaseType /\ Books'
  BY <1>1, <1>3, <1>4, FlagsClearedType, DoneForgets, MonitorQuiet DEF TypeOK
<1> QED
  BY <1>1, <1>4, <1>5, DoneStep

\* The two ways the monitor books the fills of the order it watches.
LEMMA PartialBooks ==
  ASSUME TypeOK, BookingInv, UNCHANGED <<exchange, hold>>,
         NEW r \in OrderId, row[r].oid = Watched, Watched # NoOrder,
         NEW total \in Nat, booked[Watched] <= total, total <= order[Watched].filled,
         BookPartial(r, total), Watched' \in {Watched, NoOrder}
  PROVE  DatabaseType /\ Books' /\ booked'[Watched] <= total
<1>1. total - row[r].filled \in Int /\ Size - total \in Int /\ row[r] \in PendingRow
  BY SizesAssumption DEF TypeOK, PendingRow
<1>2. /\ row' \in [OrderId -> PendingRow] /\ row'[r].filled >= total
      /\ \A q \in OrderId : row'[q].oid = row[q].oid
      /\ \A q \in OrderId \ {r} : row'[q].filled = row[q].filled
  <2>1. CASE total = 0
    BY <1>1, <2>1 DEF BookPartial, TypeOK, PendingRow
  <2>2. CASE total # 0
    <3> DEFINE rest == Size - total
               status == IF total < Size THEN "partially_filled" ELSE row[r].status
    <3>1. row' = [row EXCEPT ![r].filled = total, ![r].remaining = rest, ![r].status = status]
      BY <2>2 DEF BookPartial, TypeOK
    <3>2. rest \in Int /\ status \in RowStatus
      BY <1>1 DEF PendingRow, RowStatus
    <3> HIDE DEF rest, status
    <3>3. row'[r] = [row[r] EXCEPT !.filled = total, !.remaining = rest, !.status = status]
      BY <3>1 DEF TypeOK
    <3>4. row'[r] \in PendingRow /\ row'[r].filled = total /\ row'[r].oid = row[r].oid
      BY <1>1, <3>2, <3>3 DEF PendingRow
    <3>5. \A q \in OrderId \ {r} : row'[q] = row[q]
      BY <3>1 DEF TypeOK
    <3>6. row' \in [OrderId -> PendingRow]
      BY <3>1, <3>4, <3>5 DEF TypeOK
    <3> QED
      BY <3>4, <3>5, <3>6
  <2> QED
    BY <2>1, <2>2
<1>3. NewFill(r, total) \in Nat
  BY <1>1 DEF NewFill, PendingRow
<1>4. pos' \in PositionRow /\ pos'.limit = pos.limit
  <2> DEFINE more == [pos EXCEPT !.received = poll.received + NewFill(r, total)]
             position == IF NewFill(r, total) = 0 THEN pos ELSE more
  <2>1. poll.received + NewFill(r, total) \in Nat
    BY <1>3 DEF TypeOK, OrderData
  <2>2. position \in PositionRow /\ position.limit = pos.limit
    BY <2>1 DEF TypeOK, PositionRow
  <2>3. pos' = Restored(position)
    BY DEF BookPartial
  <2> QED
    BY <2>2, <2>3, RestoredType
<1>5. booked' = [booked EXCEPT ![Watched] = @ + NewFill(r, total)]
  BY DEF BookPartial
<1>6. Books' /\ booked'[Watched] <= total /\ booked' \in [OrderId -> Nat]
  BY <1>2, <1>4, <1>5, Booked DEF exchange
<1> QED
  BY <1>2, <1>4, <1>6 DEF DatabaseType

\* The books after the order's last fills.
LEMMA FinalBooks ==
  ASSUME TypeOK, BookingInv, UNCHANGED <<exchange, hold>>,
         NEW r \in OrderId, row[r].oid = Watched, Watched # NoOrder,
         NEW total \in Nat, booked[Watched] <= total, total <= order[Watched].filled,
         BookFinal(r, total), Watched' \in {Watched, NoOrder}
  PROVE  DatabaseType /\ Books'
<1>1. total - row[r].filled \in Int /\ row[r] \in PendingRow
  BY DEF TypeOK, PendingRow
<1>2. /\ row' \in [OrderId -> PendingRow] /\ row'[r].filled = total
      /\ \A q \in OrderId : row'[q].oid = row[q].oid
      /\ \A q \in OrderId \ {r} : row'[q].filled = row[q].filled
  <2>1. row' = [row EXCEPT ![r].filled = total, ![r].remaining = 0, ![r].status = "filled"]
    BY DEF BookFinal
  <2>2. row'[r] = [row[r] EXCEPT !.filled = total, !.remaining = 0, !.status = "filled"]
    BY <2>1 DEF TypeOK
  <2>3. row'[r] \in PendingRow /\ row'[r].filled = total /\ row'[r].oid = row[r].oid
    <3>1. "filled" \in RowStatus /\ 0 \in Int
      BY DEF RowStatus
    <3> QED
      BY <1>1, <2>2, <3>1 DEF PendingRow
  <2>4. \A q \in OrderId \ {r} : row'[q] = row[q]
    BY <2>1 DEF TypeOK
  <2> QED
    BY <2>1, <2>3, <2>4 DEF TypeOK
<1>3. NewFill(r, total) \in Nat
  BY <1>1 DEF NewFill, PendingRow
<1>4. pos' \in PositionRow /\ pos'.limit = NoOrder
  <2> DEFINE received == poll.received + NewFill(r, total)
             proceeds == IF received = 0 THEN total
                         ELSE IF NewFill(r, total) = 0 THEN pos.received ELSE received
  <2>1. proceeds \in Nat
    BY <1>3 DEF TypeOK, OrderData, PositionRow
  <2>2. pos' = [status |-> "closed", closing |-> FALSE, limit |-> NoOrder,
                received |-> proceeds]
    BY DEF BookFinal
  <2> HIDE DEF proceeds
  <2> QED
    BY <2>1, <2>2 DEF PositionRow, OptionalOrder
<1>5. booked' = [booked EXCEPT ![Watched] = @ + NewFill(r, total)]
  BY DEF BookFinal
<1>6. row'[r].filled >= total
  BY <1>2
<1>7. Books' /\ booked' \in [OrderId -> Nat]
  BY <1>2, <1>4, <1>5, <1>6, Booked DEF exchange
<1> QED
  BY <1>2, <1>4, <1>7 DEF DatabaseType

\* The order filled: its fills are booked and the position is closed.
LEMMA CompleteInv ==
  ASSUME TypeOK, BookingInv, MonComplete
  PROVE  TypeOK' /\ BookingInv'
<1>1. /\ UNCHANGED <<exchange, hold, clearing, crashes>> /\ MonDone /\ pc[Monitor] = "apply"
  BY DEF MonComplete
<1>2. PICK r \in OrderId : row[r].oid = Watched /\ BookFinal(r, poll.filled)
  BY DEF MonComplete
<1>3. /\ Watched # NoOrder /\ poll.filled \in Nat
      /\ booked[Watched] <= poll.filled /\ poll.filled <= order[Watched].filled
  BY <1>1, WatchedOrder DEF Watching, TypeOK, OrderData, BookingInv, PollBetween
<1>4. DatabaseType /\ Books'
  BY <1>1, <1>2, <1>3, DoneForgets, FinalBooks
<1>5. ExchangeType
  BY <1>1, StillGrows
<1> QED
  BY <1>1, <1>4, <1>5, DoneStep

\* The order is open: its new fills are booked, and it may be due for replacement.
LEMMA OpenInv ==
  ASSUME TypeOK, BookingInv, MonOpen
  PROVE  TypeOK' /\ BookingInv'
<1>1. UNCHANGED <<exchange, hold, clearing, crashes>> /\ pc[Monitor] = "apply"
  BY DEF MonOpen
<1>2. /\ Watched # NoOrder /\ poll.filled \in Nat
      /\ booked[Watched] <= poll.filled /\ poll.filled <= order[Watched].filled
  BY <1>1, WatchedOrder DEF Watching, TypeOK, OrderData, BookingInv, PollBetween
<1>3. ExchangeType /\ Grows
  BY <1>1, StillGrows
<1>4. CASE MonDone /\ \E r \in OrderId : row[r].oid = Watched /\ BookPartial(r, poll.filled)
  <2>1. PICK r \in OrderId : row[r].oid = Watched /\ BookPartial(r, poll.filled)
    BY <1>4
  <2>2. DatabaseType /\ Books'
    BY <1>1, <1>2, <1>4, <2>1, DoneForgets, PartialBooks
  <2> QED
    BY <1>1, <1>3, <1>4, <2>2, DoneStep
<1>5. CASE MonGoto("cancel") /\ UNCHANGED database
  <2>1. RowsKeep /\ Watched' = Watched
    BY <1>5 DEF RowsKeep, database, MonGoto, Watched
  <2>2. DatabaseType /\ Books'
    BY <1>1, <1>3, <1>5, <2>1, MonitorQuiet DEF TypeOK, database
  <2> QED
    BY <1>1, <1>3, <1>5, <2>2, GotoStep DEF Watching
<1> QED
  BY <1>4, <1>5 DEF MonOpen

\* The first step of a replacement: the cancel.
LEMMA CancelInv ==
  ASSUME TypeOK, BookingInv, MonCancel
  PROVE  TypeOK' /\ BookingInv'
<1>1. UNCHANGED <<database, hold, clearing, crashes>> /\ pc[Monitor] = "cancel"
  BY DEF MonCancel
<1>2. Watched \in OrderId
  BY <1>1, WatchedOrder DEF Watching
<1>3. ExchangeType /\ Grows /\ RowsKeep
  BY <1>1, <1>2, StillGrows, WithdrawGrows DEF MonCancel, RowsKeep, database
<1>4. MonDone \/ MonGoto("check")
  BY DEF MonCancel
<1>5. Watched' \in {Watched, NoOrder}
  BY <1>4, DoneForgets DEF MonGoto, Watched
<1>6. DatabaseType /\ Books'
  BY <1>1, <1>3, <1>5, MonitorQuiet DEF TypeOK, database
<1> QED
  BY <1>1, <1>3, <1>4, <1>6, DoneStep, GotoStep DEF Watching

\* The second: the lookup after the cancel, and the booking of what it shows.
LEMMA CheckInv ==
  ASSUME TypeOK, BookingInv, MonCheck
  PROVE  TypeOK' /\ BookingInv'
<1>1. UNCHANGED <<exchange, hold, clearing, crashes>> /\ pc[Monitor] = "check"
  BY DEF MonCheck
<1>2. /\ Watched # NoOrder /\ Watched \in OrderId /\ order[Watched].filled \in Nat
      /\ booked[Watched] <= order[Watched].filled
  BY <1>1, WatchedOrder DEF Watching, TypeOK, Order, BookingInv, NoOverBooking
<1>3. ExchangeType /\ Grows
  BY <1>1, StillGrows
<1>4. order[Watched].filled <= order[Watched].filled
  BY <1>2
<1>5. PICK r \in OrderId :
        /\ row[r].oid = Watched
        /\ \/ BookFinal(r, order[Watched].filled) /\ MonDone
           \/ BookPartial(r, order[Watched].filled) /\ MonGoto("replace")
           \/ MonGoto("replace") /\ UNCHANGED database
  BY DEF MonCheck
<1>6. CASE BookFinal(r, order[Watched].filled) /\ MonDone
  <2>1. DatabaseType /\ Books'
    BY <1>1, <1>2, <1>4, <1>5, <1>6, DoneForgets, FinalBooks
  <2> QED
    BY <1>1, <1>3, <1>6, <2>1, DoneStep
<1>7. CASE BookPartial(r, order[Watched].filled) /\ MonGoto("replace")
  <2>1. Watched' = Watched
    BY <1>7 DEF MonGoto, Watched
  <2>2. DatabaseType /\ Books'
    BY <1>1, <1>2, <1>4, <1>5, <1>7, <2>1, PartialBooks
  <2> QED
    BY <1>1, <1>3, <1>7, <2>2, GotoStep DEF Watching
<1>8. CASE MonGoto("replace") /\ UNCHANGED database
  <2>1. RowsKeep /\ Watched' = Watched
    BY <1>8 DEF RowsKeep, database, MonGoto, Watched
  <2>2. DatabaseType /\ Books'
    BY <1>1, <1>3, <1>8, <2>1, MonitorQuiet DEF TypeOK, database
  <2> QED
    BY <1>1, <1>3, <1>8, <2>2, GotoStep DEF Watching
<1> QED
  BY <1>5, <1>6, <1>7, <1>8

\* The third: placing the replacement.
LEMMA ReplaceInv ==
  ASSUME TypeOK, BookingInv, MonReplace
  PROVE  TypeOK' /\ BookingInv'
<1>1. pc[Monitor] = "replace" /\ UNCHANGED <<booked, clearing, crashes>>
  BY DEF MonReplace
<1>2. Watched # NoOrder /\ Watched \in OptionalOrder
  BY <1>1, WatchedOrder DEF Watching, OptionalOrder
<1>3. \A r \in OrderId : Replacement(r) \in Int
  BY SizesAssumption DEF Replacement, TypeOK, PendingRow
<1>4. PICK r \in OrderId :
        \/ /\ \E o \in OrderId : Accept(o, Replacement(r)) /\ Holding(Monitor, o)
           /\ MonGoto("placed")
           /\ UNCHANGED <<row, pos>>
        \/ /\ (\E o \in OrderId : Accept(o, Replacement(r))) \/ UNCHANGED exchange
           /\ row' = [row EXCEPT ![r].status = "cancelled"]
           /\ pos' = FlagsCleared
           /\ MonDone
           /\ UNCHANGED hold
  BY DEF MonReplace
<1>5. CASE /\ \E o \in OrderId : Accept(o, Replacement(r)) /\ Holding(Monitor, o)
           /\ MonGoto("placed")
           /\ UNCHANGED <<row, pos>>
  <2>1. PICK o \in OrderId : Accept(o, Replacement(r)) /\ Holding(Monitor, o)
    BY <1>5
  <2>2. ExchangeType /\ Grows /\ HoldStep
    BY <1>3, <2>1, AcceptGrows, HoldLearns DEF Holding, Proc
  <2>3. o # NoOrder /\ o \in OptionalOrder
    BY DEF OrderId, NoOrder, OptionalOrder
  <2>4. MonitorMoves("placed", Watched, o)
    BY <1>2, <1>5, <2>1, <2>3 DEF MonGoto, Goto, Holding, MonitorMoves, TypeOK, Watched
  <2>5. RowsKeep /\ Watched' = Watched
    BY <1>5 DEF RowsKeep, MonGoto, Watched
  <2>6. DatabaseType /\ Books'
    BY <1>1, <1>5, <2>2, <2>5, BookkeepingKept DEF TypeOK, DatabaseType
  <2>7. poll' \in OrderData
    BY <1>5 DEF MonGoto, TypeOK
  <2> QED
    BY <1>1, <1>2, <2>2, <2>3, <2>4, <2>6, <2>7, MonitorStep DEF Where
<1>6. CASE /\ (\E o \in OrderId : Accept(o, Replacement(r))) \/ UNCHANGED exchange
           /\ row' = [row EXCEPT ![r].status = "cancelled"]
           /\ pos' = FlagsCleared
           /\ MonDone
           /\ UNCHANGED hold
  <2>1. ExchangeType /\ Grows
    BY <1>3, <1>6, AcceptGrows, StillGrows
  <2>2. row' \in [OrderId -> PendingRow] /\ RowsKeep
    BY <1>6 DEF TypeOK, PendingRow, RowStatus, RowsKeep
  <2>3. DatabaseType /\ Books'
    BY <1>1, <1>6, <2>1, <2>2, FlagsClearedType, DoneForgets, MonitorQuiet
  <2> QED
    BY <1>1, <1>6, <2>1, <2>3, DoneStep
<1> QED
  BY <1>4, <1>5, <1>6

\* The replacement's id moves from the monitor to the row and the position.
LEMMA ReplaceCommitInv ==
  ASSUME TypeOK, BookingInv, MonReplaceCommit
  PROVE  TypeOK' /\ BookingInv'
<1> DEFINE o == hold[Monitor]
<1>1. /\ pc[Monitor] = "placed" /\ MonDone
      /\ pos' = Restored([pos EXCEPT !.limit = o])
      /\ hold' = [hold EXCEPT ![Monitor] = NoOrder]
      /\ UNCHANGED <<exchange, booked, clearing, crashes>>
  BY DEF MonReplaceCommit, Holding
<1>2. PICK r \in OrderId :
        row[r].oid = Watched /\ row' = [row EXCEPT ![r].oid = o, ![r].status = "pending"]
  BY DEF MonReplaceCommit
<1>3. /\ o \in OrderId /\ o # NoOrder /\ Private(o) /\ Monitor \in Proc
      /\ \A q \in Proc : hold[q] = o => q = Monitor
  BY <1>1 DEF TypeOK, BookingInv, SessionsHold, HeldIsPrivate, Proc, OptionalOrder
<1>4. order[o].st # "none"
  BY <1>3 DEF BookingInv, UnplacedIsPrivate
<1> HIDE DEF o
<1>5. /\ row' \in [OrderId -> PendingRow] /\ row'[r].oid = o /\ row'[r].filled = row[r].filled
      /\ \A q \in OrderId \ {r} : row'[q] = row[q]
  BY <1>2, <1>3 DEF TypeOK, PendingRow, RowStatus, OptionalOrder
<1>6. pos' \in PositionRow /\ pos'.limit = o
  <2>1. [pos EXCEPT !.limit = o] \in PositionRow /\ [pos EXCEPT !.limit = o].limit = o
    BY <1>3 DEF TypeOK, PositionRow, OptionalOrder
  <2> QED
    BY <1>1, <2>1, RestoredType
<1>7. \A q \in OrderId : q # o /\ Private(q) => Private(q)'
  BY <1>1, <1>5, <1>6, DoneForgets DEF Private, OrderId, NoOrder
<1>8. UnplacedIsPrivate'
  BY <1>1, <1>3, <1>4, <1>7
     DEF BookingInv, UnplacedIsPrivate, TypeOK, exchange, OptionalOrder, OrderId, NoOrder
<1>9. HeldIsPrivate'
  BY <1>1, <1>3, <1>7, o \in OptionalOrder
     DEF BookingInv, HeldIsPrivate, TypeOK, OptionalOrder, o
<1>10. RowCovers'
  BY <1>1, <1>3, <1>5 DEF BookingInv, RowCovers, Private, TypeOK, PendingRow
<1>11. OneRowPerOrder'
  BY <1>3, <1>5 DEF BookingInv, OneRowPerOrder, Private
<1>12. NoOverBooking'
  BY <1>1 DEF BookingInv, NoOverBooking, exchange
<1>13. DatabaseType /\ Books'
  BY <1>1, <1>5, <1>6, <1>8, <1>9, <1>10, <1>11, <1>12 DEF DatabaseType, Books, TypeOK
<1>14. ExchangeType
  BY <1>1, StillGrows
<1> QED
  BY <1>1, <1>13, <1>14, DoneStep

-------------------------------------------------------------------------------
(* The theorems.                                                            *)

\* A step that changes nothing keeps the invariant.
LEMMA StutterInv ==
  ASSUME TypeOK, BookingInv, UNCHANGED vars
  PROVE  TypeOK' /\ BookingInv'
<1>1. TypeOK'
  BY DEF TypeOK, vars, exchange, database, sessions
<1>2. UnplacedIsPrivate' /\ HeldIsPrivate' /\ SessionsHold'
  BY DEF BookingInv, UnplacedIsPrivate, HeldIsPrivate, SessionsHold, Private, Watched,
         vars, exchange, database, sessions
<1>3. RowCovers' /\ OneRowPerOrder' /\ PollBetween' /\ NoOverBooking'
  BY DEF BookingInv, RowCovers, OneRowPerOrder, PollBetween, NoOverBooking, Watched,
         vars, exchange, database, sessions
<1> QED
  BY <1>1, <1>2, <1>3 DEF BookingInv

\* Every step keeps the invariant: one case per action.
LEMMA StepInv ==
  ASSUME TypeOK, BookingInv, [Next]_vars
  PROVE  TypeOK' /\ BookingInv'
<1>1. ASSUME NEW s \in Sellers, Sell(s) PROVE TypeOK' /\ BookingInv'
  BY <1>1, SellStartInv, LimitPlaceInv, TrackInv, DustInv, MarketSubmitInv, MarketFailInv,
     ConfirmedInv, UnconfirmedInv DEF Sell, SellLimitCommit
<1>2. ASSUME NEW u \in Users, Route(u) PROVE TypeOK' /\ BookingInv'
  BY <1>2, RouteInv, LimitPlaceInv, TrackInv DEF Route, UserLimitCommit
<1>3. ASSUME Monitoring PROVE TypeOK' /\ BookingInv'
  BY <1>3, BootInv, SnapshotInv, PollInv, LoadInv, AbandonInv, CompleteInv, ReleaseInv, OpenInv,
     CancelInv, CheckInv, ReplaceInv, ReplaceCommitInv, OutsideInv DEF Monitoring
<1> QED
  BY <1>1, <1>2, <1>3, OutsideInv, CrashInv, StutterInv DEF Next

\* The invariant holds in every state of every instance, for any number of
\* sessions, orders and crashes (all of LimitClose's actions; the code is
\* limit_order_monitor.py, sell_executor.py and the routes).
THEOREM BookingIsInvariant == Spec => []BookingInv
<1>1. TypeOK /\ BookingInv /\ [Next]_vars => TypeOK' /\ BookingInv'
  BY StepInv
<1> QED
  BY InitInv, <1>1, PTL DEF Spec

\* The state of the close is always well formed: sessions, rows and orders keep
\* to their types; the booking invariant is what keeps the amounts natural.
THEOREM TypeCorrect == Spec => []TypeOK
<1>1. TypeOK /\ BookingInv /\ [Next]_vars => TypeOK' /\ BookingInv'
  BY StepInv
<1> QED
  BY InitInv, <1>1, PTL DEF Spec

\* No fill of any order is booked twice, whatever the sessions, the exchange
\* and crashes do: the trades of an order never exceed what it filled
\* (_process_partial_fills and _process_order_completion book differences to
\* the row's cumulative amount).
THEOREM NothingBookedTwice == Spec => []NoOverBooking
<1>1. BookingInv => NoOverBooking
  BY DEF BookingInv
<1> QED
  BY BookingIsInvariant, <1>1, PTL

-------------------------------------------------------------------------------
(* The trades implement FillLedger.                                         *)

LedgerStep == [Ledger!Next]_<<[o \in OrderId |-> order[o].filled], booked>>

FilledKept == \A o \in OrderId : order'[o].filled = order[o].filled

\* A step that fills and books nothing stutters in the ledger.
LEMMA LedgerStutters == FilledKept /\ booked' = booked => LedgerStep
BY DEF FilledKept, LedgerStep

\* Placing, cancelling or expiring an order fills nothing.
LEMMA ExchangeKeeps ==
  ASSUME TypeOK, BookingInv,
         \/ UNCHANGED exchange
         \/ \E o \in OrderId : Withdraw(o) \/ CancelOrder(o)
         \/ \E o \in OrderId, n \in Int : Accept(o, n)
  PROVE  FilledKept
<1>1. CASE UNCHANGED exchange
  BY <1>1 DEF exchange, FilledKept
<1>2. ASSUME NEW o \in OrderId, Withdraw(o) \/ CancelOrder(o) PROVE FilledKept
  BY <1>2 DEF Withdraw, CancelOrder, exchange, FilledKept, TypeOK, Order
<1>3. ASSUME NEW o \in OrderId, NEW n \in Int, Accept(o, n) PROVE FilledKept
  BY <1>3 DEF Accept, FilledKept, TypeOK, BookingInv, UnplacedIsPrivate
<1> QED
  BY <1>1, <1>2, <1>3

\* A fill of the exchange is a fill of the ledger.
LEMMA FillIsFill ==
  ASSUME TypeOK, NEW o \in OrderId, ExchangeFill(o)
  PROVE  LedgerStep
<1> DEFINE filled == [q \in OrderId |-> order[q].filled]
<1>1. PICK n \in 1..(order[o].size - order[o].filled) :
        order' = [order EXCEPT ![o].filled = @ + n,
                   ![o].st = IF order[o].filled + n = order[o].size THEN "filled" ELSE "open"]
  BY DEF ExchangeFill
<1>2. n \in Int /\ n > 0 /\ order[o].filled \in Nat
  BY DEF TypeOK, Order
<1>3. /\ order'[o].filled = order[o].filled + n
      /\ \A q \in OrderId \ {o} : order'[q] = order[q]
  BY <1>1 DEF TypeOK, Order
<1>4. filled'[o] > filled[o] /\ \A q \in OrderId \ {o} : filled'[q] = filled[q]
  BY <1>2, <1>3
<1>5. filled' = [filled EXCEPT ![o] = filled'[o]]
  BY <1>4
<1>6. booked' = booked
  BY DEF ExchangeFill, database
<1>7. Ledger!Fill(o)
  BY <1>4, <1>5, <1>6 DEF Ledger!Fill
<1> QED
  BY <1>7 DEF LedgerStep, Ledger!Next

\* One order's trades grow, no further than its fills.
LEMMA RecordIsRecord ==
  ASSUME TypeOK, NEW o \in OrderId, FilledKept, NEW amount \in Nat,
         booked' = [booked EXCEPT ![o] = @ + amount], booked[o] + amount <= order[o].filled
  PROVE  LedgerStep
<1> DEFINE filled == [q \in OrderId |-> order[q].filled]
<1>1. CASE amount = 0
  <2>1. booked' = booked
    BY <1>1 DEF TypeOK
  <2> QED
    BY <2>1, LedgerStutters
<1>2. CASE amount # 0
  <2>1. booked'[o] = booked[o] + amount /\ booked[o] \in Nat
    BY DEF TypeOK
  <2>2. booked[o] < booked'[o] /\ booked'[o] <= filled[o]
    BY <1>2, <2>1
  <2>3. booked' = [booked EXCEPT ![o] = booked'[o]]
    BY <2>1 DEF TypeOK
  <2>4. filled' = filled
    BY DEF FilledKept
  <2>5. Ledger!Record(o)
    BY <2>2, <2>3, <2>4 DEF Ledger!Record
  <2> QED
    BY <2>5 DEF LedgerStep, Ledger!Next
<1> QED
  BY <1>1, <1>2

\* A confirmed market order records its fills, none of which was booked before.
LEMMA ConfirmedRecords ==
  ASSUME TypeOK, BookingInv, NEW s \in Sellers, SellConfirmed(s)
  PROVE  LedgerStep
<1> DEFINE o == hold[s]
<1>1. /\ o \in OrderId /\ booked[o] = 0 /\ order[o].filled \in Nat
  BY DEF SellConfirmed, TypeOK, BookingInv, SessionsHold, HeldIsPrivate, Private, Proc,
         OptionalOrder, Order
<1>2. UNCHANGED exchange /\ booked' = [booked EXCEPT ![o] = @ + order[o].filled]
  BY DEF SellConfirmed
<1>3. booked[o] + order[o].filled <= order[o].filled
  BY <1>1
<1> QED
  BY <1>1, <1>2, <1>3, ExchangeKeeps, RecordIsRecord

\* The monitor books what the row has not counted of a total the order reached.
LEMMA MonitorRecords ==
  ASSUME TypeOK, BookingInv, pc[Monitor] \in Watching, UNCHANGED exchange,
         NEW r \in OrderId, row[r].oid = Watched, NEW total \in Nat,
         booked[Watched] <= total, total <= order[Watched].filled,
         BookPartial(r, total) \/ BookFinal(r, total)
  PROVE  LedgerStep
<1>1. Watched \in OrderId /\ Watched # NoOrder
  BY WatchedOrder
<1>2. booked' = [booked EXCEPT ![Watched] = @ + NewFill(r, total)]
  BY DEF BookPartial, BookFinal
<1>3. booked[Watched] <= row[r].filled /\ row[r].filled \in Nat /\ booked[Watched] \in Nat
      /\ order[Watched].filled \in Nat
  BY <1>1 DEF BookingInv, RowCovers, TypeOK, PendingRow, Order
<1>4. NewFill(r, total) \in Nat /\ booked[Watched] + NewFill(r, total) <= order[Watched].filled
  BY <1>3 DEF NewFill
<1> QED
  BY <1>1, <1>2, <1>4, ExchangeKeeps, RecordIsRecord

\* The monitor and the sweep record in the ledger or leave it alone.
LEMMA MonitoringImplements ==
  ASSUME TypeOK, BookingInv, Monitoring
  PROVE  LedgerStep
<1>1. CASE MonBoot \/ MonSnapshot \/ MonPoll \/ MonLoad \/ MonAbandon \/ MonRelease
           \/ MonReplaceCommit \/ Sweep
  <2>1. UNCHANGED exchange /\ booked' = booked
    BY <1>1 DEF MonBoot, MonSnapshot, MonPoll, MonLoad, MonAbandon, MonRelease,
                MonReplaceCommit, Sweep, database
  <2> QED
    BY <2>1, ExchangeKeeps, LedgerStutters
<1>2. CASE MonComplete \/ MonOpen
  <2>1. /\ UNCHANGED exchange /\ pc[Monitor] \in Watching /\ poll.filled \in Nat
        /\ booked[Watched] <= poll.filled /\ poll.filled <= order[Watched].filled
    BY <1>2 DEF MonComplete, MonOpen, Watching, TypeOK, OrderData, BookingInv, PollBetween
  <2>2. CASE UNCHANGED database
    BY <2>1, <2>2, ExchangeKeeps, LedgerStutters DEF database
  <2>3. CASE ~UNCHANGED database
    <3>1. PICK r \in OrderId :
            /\ row[r].oid = Watched
            /\ BookPartial(r, poll.filled) \/ BookFinal(r, poll.filled)
      BY <1>2, <2>3 DEF MonComplete, MonOpen
    <3> QED
      BY <2>1, <3>1, MonitorRecords
  <2> QED
    BY <2>2, <2>3
<1>3. CASE MonCheck
  <2>1. /\ UNCHANGED exchange /\ pc[Monitor] \in Watching /\ order[Watched].filled \in Nat
        /\ booked[Watched] <= order[Watched].filled
        /\ order[Watched].filled <= order[Watched].filled
    BY <1>3, WatchedOrder DEF MonCheck, Watching, TypeOK, Order, BookingInv, NoOverBooking
  <2>2. CASE UNCHANGED database
    BY <2>1, <2>2, ExchangeKeeps, LedgerStutters DEF database
  <2>3. CASE ~UNCHANGED database
    <3>1. PICK r \in OrderId :
            /\ row[r].oid = Watched
            /\ BookPartial(r, order[Watched].filled) \/ BookFinal(r, order[Watched].filled)
      BY <1>3, <2>3 DEF MonCheck
    <3> QED
      BY <2>1, <3>1, MonitorRecords
  <2> QED
    BY <2>2, <2>3
<1>4. CASE MonCancel
  BY <1>4, WatchedOrder, ExchangeKeeps, LedgerStutters DEF MonCancel, Watching, database
<1>5. CASE MonReplace
  <2>1. \A r \in OrderId : Replacement(r) \in Int
    BY SizesAssumption DEF Replacement, TypeOK, PendingRow
  <2> QED
    BY <1>5, <2>1, ExchangeKeeps, LedgerStutters DEF MonReplace
<1> QED
  BY <1>1, <1>2, <1>3, <1>4, <1>5 DEF Monitoring

\* The sellers record in the ledger or leave it alone.
LEMMA SellImplements ==
  ASSUME TypeOK, BookingInv, NEW s \in Sellers, Sell(s)
  PROVE  LedgerStep
<1>1. Size \in Int /\ Clamped \in Int
  BY SizesAssumption, ClampedInt
<1>2. CASE SellStart(s) \/ PanicStart(s) \/ SellLimitCommit(s) \/ SellDust(s)
  BY <1>2, ExchangeKeeps, LedgerStutters
     DEF SellStart, PanicStart, SellLimitCommit, Track, SellDust, database
<1>3. CASE SellLimitPlace(s) \/ SellMarketSubmit(s) \/ SellMarketFail(s)
  <2>1. booked' = booked
    BY <1>3 DEF SellLimitPlace, SellMarketSubmit, SellMarketFail, database
  <2>2. UNCHANGED exchange \/ \E o \in OrderId, n \in Int : Accept(o, n)
    BY <1>1, <1>3 DEF SellLimitPlace, SellMarketSubmit, SellMarketFail
  <2> QED
    BY <2>1, <2>2, ExchangeKeeps, LedgerStutters
<1>4. CASE SellUnconfirmed(s)
  <2>1. hold[s] \in OrderId
    BY <1>4 DEF SellUnconfirmed, TypeOK, BookingInv, SessionsHold, Proc, OptionalOrder
  <2> QED
    BY <1>4, <2>1, ExchangeKeeps, LedgerStutters DEF SellUnconfirmed
<1> QED
  BY <1>2, <1>3, <1>4, ConfirmedRecords DEF Sell

\* The routes leave the ledger alone.
LEMMA RouteImplements ==
  ASSUME TypeOK, BookingInv, NEW u \in Users, Route(u)
  PROVE  LedgerStep
<1>1. booked' = booked
  BY DEF Route, UserLimitStart, UserLimitPlace, UserLimitCommit, Track, UserCancelOrder,
         UserCancelCommit, database
<1>2. CASE UserCancelOrder(u)
  <2>1. pos.limit \in OrderId
    BY <1>2 DEF UserCancelOrder, TypeOK, PositionRow, OptionalOrder
  <2> QED
    BY <1>1, <1>2, <2>1, ExchangeKeeps, LedgerStutters DEF UserCancelOrder
<1>3. CASE UserLimitPlace(u)
  BY <1>1, <1>3, SizesAssumption, ExchangeKeeps, LedgerStutters DEF UserLimitPlace
<1>4. CASE UserLimitStart(u) \/ UserLimitCommit(u) \/ UserCancelCommit(u)
  BY <1>1, <1>4, ExchangeKeeps, LedgerStutters
     DEF UserLimitStart, UserLimitCommit, Track, UserCancelCommit
<1> QED
  BY <1>2, <1>3, <1>4 DEF Route

\* Every step is a step of the ledger or a stutter: one case per kind of session.
LEMMA StepImplements ==
  ASSUME TypeOK, BookingInv, [Next]_vars
  PROVE  LedgerStep
<1>1. CASE UNCHANGED vars \/ CancelPosition \/ Crash \/ \E o \in OrderId : ExchangeExpire(o)
  <2>1. booked' = booked
    BY <1>1 DEF vars, CancelPosition, Crash, ExchangeExpire, database
  <2>2. FilledKept
    BY <1>1, ExchangeKeeps DEF vars, CancelPosition, Crash, ExchangeExpire
  <2> QED
    BY <2>1, <2>2, LedgerStutters
<1> QED
  BY <1>1, FillIsFill, SellImplements, RouteImplements, MonitoringImplements DEF Next

\* The trades of a close refine FillLedger: each step of the program records
\* one order's new fills, at most what the exchange reported, or leaves the
\* ledger alone (every path of the code that writes a sell Trade).
THEOREM LedgerImplemented == Spec => ImplementsLedger
<1>1. Init => Ledger!Init
  BY DEF Init, Ledger!Init
<1>2. TypeOK /\ BookingInv /\ [Next]_vars => TypeOK' /\ BookingInv'
  BY StepInv
<1>3. TypeOK /\ BookingInv /\ [Next]_vars => LedgerStep
  BY StepImplements
<1> QED
  BY InitInv, <1>1, <1>2, <1>3, PTL DEF Spec, ImplementsLedger, Ledger!Spec, LedgerStep

===============================================================================
