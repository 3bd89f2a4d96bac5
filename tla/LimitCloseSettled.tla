--------------------------- MODULE LimitCloseSettled ---------------------------
(***************************************************************************)
(* That a close whose row never moved to a replacement books all its order *)
(* filled, for every instance of LimitClose. The trades of such an order   *)
(* are exactly what its row has counted, and the row is marked filled only *)
(* on an answer that was final. And, where one session closes, that every  *)
(* live order is tracked and a closed position stays as it is.             *)
(***************************************************************************)
EXTENDS LimitCloseProofs

\* A row belongs to an order that was placed, and that no session still holds.
RowPlaced == \A r \in OrderId : row[r].oid # NoOrder => order[r].st # "none"
HeldHasNoRow == \A p \in Proc : hold[p] # NoOrder => row[hold[p]].oid = NoOrder

\* A row that names its own order counts that order's trades, and one marked
\* filled counts all of its fills.
OwnRowCounts == \A r \in OrderId : row[r].oid = r => booked[r] = row[r].filled
OwnRowFilled ==
  \A r \in OrderId : row[r].oid = r /\ row[r].status = "filled" =>
    order[r].st = "filled" /\ row[r].filled = order[r].filled

\* A final answer of the exchange does not age.
PollSettled ==
  pc[Monitor] \in {"load", "apply"} /\ poll.st = "filled" =>
    order[Watched].st = "filled" /\ poll.filled = order[Watched].filled

RowsSettled == RowPlaced /\ HeldHasNoRow /\ OwnRowCounts /\ OwnRowFilled
SettledInv  == RowsSettled /\ PollSettled

\* It holds before the first order is placed.
LEMMA InitSettled == Init => SettledInv
BY SessionsAssumption
   DEF Init, SettledInv, RowsSettled, RowPlaced, HeldHasNoRow, OwnRowCounts, OwnRowFilled,
       PollSettled, OrderId, NoOrder, NoRow, Proc

-------------------------------------------------------------------------------
(* What a step does to the orders.                                          *)

\* An order that is placed stays placed, and one that is filled stays as it is.
OrdersKept ==
  \A o \in OrderId :
    /\ order[o].st # "none" => order'[o].st # "none"
    /\ order[o].st = "filled" => order'[o] = order[o]

\* Every step of the exchange leaves such orders alone.
LEMMA ExchangeKeepsOrders ==
  ASSUME TypeOK,
         \/ UNCHANGED exchange
         \/ \E o \in OrderId : Withdraw(o) \/ CancelOrder(o) \/ ExchangeFill(o)
         \/ \E o \in OrderId, n \in Int : Accept(o, n)
  PROVE  OrdersKept
<1>1. CASE UNCHANGED exchange
  BY <1>1 DEF exchange, OrdersKept
<1>2. ASSUME NEW o \in OrderId, Withdraw(o) \/ CancelOrder(o) PROVE OrdersKept
  BY <1>2 DEF Withdraw, CancelOrder, exchange, OrdersKept, TypeOK, Order
<1>3. ASSUME NEW o \in OrderId, NEW n \in Int, Accept(o, n) PROVE OrdersKept
  BY <1>3 DEF Accept, OrdersKept, TypeOK
<1>4. ASSUME NEW o \in OrderId, ExchangeFill(o) PROVE OrdersKept
  <2>1. /\ order[o].st = "open" /\ order'[o].st # "none"
        /\ \A q \in OrderId \ {o} : order'[q] = order[q]
    <3>1. PICK n \in 1..(order[o].size - order[o].filled) :
            order' = [order EXCEPT ![o].filled = @ + n,
                       ![o].st = IF order[o].filled + n = order[o].size THEN "filled" ELSE "open"]
      BY <1>4 DEF ExchangeFill
    <3>2. order[o].st = "open" /\ ExchangeType /\ Grows
      BY <1>4, FillGrows DEF ExchangeFill
    <3> QED
      BY <3>1, <3>2 DEF TypeOK, Grows
  <2> QED
    BY <2>1 DEF OrdersKept
<1> QED
  BY <1>1, <1>2, <1>3, <1>4

-------------------------------------------------------------------------------
(* Steps that book nothing.                                                 *)

\* No row gains an order, a fill or the status filled.
RowsQuiet ==
  \A r \in OrderId :
    /\ row'[r].oid = row[r].oid /\ row'[r].filled = row[r].filled
    /\ row'[r].status = "filled" => row[r].status = "filled"

\* Such a step keeps the rows settled.
LEMMA QuietSettled ==
  ASSUME TypeOK, BookingInv, SettledInv, OrdersKept, HoldStep, RowsQuiet, booked' = booked
  PROVE  RowsSettled'
<1> USE DEF SettledInv, RowsSettled
<1>1. RowPlaced'
  BY DEF RowPlaced, OrdersKept, RowsQuiet
<1>2. HeldHasNoRow'
  BY DEF RowPlaced, HeldHasNoRow, HoldStep, RowsQuiet, TypeOK, OptionalOrder
<1>3. OwnRowCounts'
  BY DEF OwnRowCounts, RowsQuiet
<1>4. OwnRowFilled'
  BY DEF OwnRowFilled, OrdersKept, RowsQuiet
<1> QED
  BY <1>1, <1>2, <1>3, <1>4

\* What the monitor polled is not touched by the others, and stays true.
LEMMA PollKept ==
  ASSUME TypeOK, BookingInv, SettledInv, OrdersKept,
         pc'[Monitor] = pc[Monitor], Watched' = Watched, poll' = poll
  PROVE  PollSettled'
<1>1. pc[Monitor] \in Watching => Watched \in OrderId
  BY SessionsAssumption
     DEF BookingInv, SessionsHold, TypeOK, Proc, OptionalOrder, NoOrder, Watched
<1> QED
  BY <1>1 DEF SettledInv, PollSettled, OrdersKept, Watching

\* The monitor has nothing polled to act on.
LEMMA NothingPolled ==
  ASSUME pc'[Monitor] \notin {"load", "apply"}
  PROVE  PollSettled'
BY DEF PollSettled

\* The exchange, the sessions that sell or cancel, and a crash book nothing,
\* but for a session that commits its order or confirms its sale.
LEMMA OthersSettled ==
  ASSUME TypeOK, BookingInv, SettledInv,
         \/ \E o \in OrderId : ExchangeFill(o) \/ ExchangeExpire(o)
         \/ \E s \in Sellers :
              \/ SellStart(s) \/ PanicStart(s) \/ SellDust(s)
              \/ SellMarketSubmit(s) \/ SellMarketFail(s) \/ SellUnconfirmed(s)
         \/ \E p \in Sellers \cup Users : SellLimitPlace(p) \/ UserLimitPlace(p)
         \/ \E u \in Users : UserLimitStart(u) \/ UserCancelOrder(u) \/ UserCancelCommit(u)
         \/ CancelPosition
  PROVE  SettledInv'
<1> USE DEF Proc, database, sessions
<1>1. OrdersKept
  <2>1. /\ Size \in Int /\ Clamped \in Int
        /\ \A s \in Sellers : SellUnconfirmed(s) => hold[s] \in OrderId
        /\ \A u \in Users : UserCancelOrder(u) => pos.limit \in OrderId
    BY SizesAssumption, ClampedInt
       DEF SellUnconfirmed, UserCancelOrder, TypeOK, BookingInv, SessionsHold, PositionRow,
           OptionalOrder
  <2> QED
    BY <2>1, ExchangeKeepsOrders
       DEF ExchangeExpire, SellStart, PanicStart, SellDust, SellMarketSubmit, SellMarketFail,
           SellUnconfirmed, SellLimitPlace, UserLimitPlace, UserLimitStart, UserCancelOrder,
           UserCancelCommit, CancelPosition
<1>2. HoldStep
  <2>1. ASSUME NEW p \in Sellers \cup Users, SellLimitPlace(p) \/ UserLimitPlace(p)
        PROVE  HoldStep
    BY <2>1, SizesAssumption, HoldForgets, HoldLearns DEF SellLimitPlace, UserLimitPlace, Holding
  <2>2. ASSUME NEW s \in Sellers, SellMarketSubmit(s) PROVE HoldStep
    BY <2>2, ClampedInt, HoldLearns DEF SellMarketSubmit, Holding
  <2>3. ASSUME NEW s \in Sellers, SellUnconfirmed(s) PROVE HoldStep
    BY <2>3, HoldForgets DEF SellUnconfirmed, Holding
  <2> QED
    BY <2>1, <2>2, <2>3
       DEF HoldStep, ExchangeFill, ExchangeExpire, SellStart, PanicStart, SellDust,
           SellMarketFail, UserLimitStart, UserCancelOrder, UserCancelCommit, CancelPosition
<1>3. RowsQuiet /\ booked' = booked
  <2>1. ASSUME NEW u \in Users, UserCancelCommit(u) PROVE RowsQuiet /\ booked' = booked
    BY <2>1 DEF UserCancelCommit, RowsQuiet
  <2> QED
    BY <2>1
       DEF RowsQuiet, ExchangeFill, ExchangeExpire, SellStart, PanicStart, SellDust,
           SellMarketSubmit, SellMarketFail, SellUnconfirmed, SellLimitPlace, UserLimitPlace,
           UserLimitStart, UserCancelOrder, CancelPosition
<1>4. pc'[Monitor] = pc[Monitor] /\ Watched' = Watched /\ poll' = poll
  BY SessionsAssumption
     DEF TypeOK, Goto, Watched, ExchangeFill, ExchangeExpire, SellStart, PanicStart, SellDust,
         SellMarketSubmit, SellMarketFail, SellUnconfirmed, SellLimitPlace, UserLimitPlace,
         UserLimitStart, UserCancelOrder, UserCancelCommit, CancelPosition
<1> QED
  BY <1>1, <1>2, <1>3, <1>4, QuietSettled, PollKept DEF SettledInv

\* A crash forgets what was held and what was polled.
LEMMA CrashSettled ==
  ASSUME TypeOK, BookingInv, SettledInv, Crash
  PROVE  SettledInv'
<1>1. OrdersKept /\ RowsQuiet /\ booked' = booked /\ HoldStep
  BY ExchangeKeepsOrders DEF Crash, database, RowsQuiet, HoldStep
<1>2. pc'[Monitor] \notin {"load", "apply"}
  BY DEF Crash, Proc
<1> QED
  BY <1>1, <1>2, QuietSettled, NothingPolled DEF SettledInv

\* The monitor, where it books nothing and moves no row.
LEMMA MonitorQuietSettled ==
  ASSUME TypeOK, BookingInv, SettledInv,
         \/ MonBoot \/ MonSnapshot \/ MonPoll \/ MonLoad \/ MonAbandon \/ MonRelease
         \/ MonCancel \/ MonReplace \/ Sweep
  PROVE  SettledInv'
<1>1. OrdersKept
  <2>1. MonCancel => Watched \in OrderId
    BY WatchedOrder DEF MonCancel, Watching
  <2>2. \A r \in OrderId : Replacement(r) \in Int
    BY SizesAssumption DEF Replacement, TypeOK, PendingRow
  <2> QED
    BY <2>1, <2>2, ExchangeKeepsOrders
       DEF MonBoot, MonSnapshot, MonPoll, MonLoad, MonAbandon, MonRelease, MonCancel, MonReplace,
           Sweep
<1>2. HoldStep
  <2>1. ASSUME MonReplace PROVE HoldStep
    <3>1. \A r \in OrderId : Replacement(r) \in Int
      BY SizesAssumption DEF Replacement, TypeOK, PendingRow
    <3> QED
      BY <2>1, <3>1, HoldForgets, HoldLearns DEF MonReplace, Holding, Proc
  <2> QED
    BY <2>1
       DEF HoldStep, MonBoot, MonSnapshot, MonPoll, MonLoad, MonAbandon, MonRelease, MonCancel,
           Sweep, sessions
<1>3. RowsQuiet /\ booked' = booked
  BY DEF RowsQuiet, MonBoot, MonSnapshot, MonPoll, MonLoad, MonAbandon, MonRelease, MonCancel,
         MonReplace, Sweep, database, TypeOK, PendingRow
<1>4. PollSettled'
  <2>1. CASE MonPoll
    BY <2>1, WatchedOrder
       DEF MonPoll, PollSettled, exchange, Watched, Watching, TypeOK, OrderData
  <2>2. CASE MonLoad
    <3>1. CASE pos.status = "open" /\ pos.limit = Watched
      BY <2>2, <3>1
         DEF MonLoad, SettledInv, PollSettled, exchange, Watched, TypeOK, OrderData
    <3>2. CASE ~(pos.status = "open" /\ pos.limit = Watched)
      BY <2>2, <3>2, NothingPolled DEF MonLoad, MonDone, Goto, TypeOK, Proc
    <3> QED
      BY <3>1, <3>2
  <2>3. CASE MonBoot \/ MonSnapshot \/ MonAbandon \/ MonRelease \/ MonCancel \/ MonReplace
    <3>1. pc'[Monitor] \notin {"load", "apply"}
      BY <2>3 DEF MonBoot, MonSnapshot, MonAbandon, MonRelease, MonCancel, MonReplace, MonGoto,
                  MonDone, Goto, TypeOK, Proc
    <3> QED
      BY <3>1, NothingPolled
  <2>4. CASE Sweep
    BY <1>1, <2>4, PollKept DEF Sweep, sessions, Watched
  <2> QED
    BY <2>1, <2>2, <2>3, <2>4
<1> QED
  BY <1>1, <1>2, <1>3, <1>4, QuietSettled DEF SettledInv

-------------------------------------------------------------------------------
(* Steps that book, or that give a row an order.                            *)

\* A session commits the order it was told of: a new row, with no trades yet.
LEMMA TrackSettled ==
  ASSUME TypeOK, BookingInv, SettledInv, NEW p \in Sellers \cup Users, NEW manual \in BOOLEAN,
         Track(p, manual)
  PROVE  SettledInv'
<1> DEFINE o == hold[p]
<1>1. /\ row' = [row EXCEPT ![o] = NewRow(o, manual)]
      /\ hold' = [hold EXCEPT ![p] = NoOrder] /\ pc' = [pc EXCEPT ![p] = "idle"]
      /\ UNCHANGED <<exchange, booked, seen, poll>>
  BY DEF Track, Holding, Goto
<1>2. /\ o \in OrderId /\ o # NoOrder /\ booked[o] = 0 /\ p \in Proc
      /\ \A q \in Proc : hold[q] = o => q = p
      /\ \A r \in OrderId : row[r].oid # o
  BY DEF Track, TypeOK, BookingInv, SessionsHold, HeldIsPrivate, Private, Proc, OptionalOrder
<1>3. order[o].st # "none"
  BY <1>2 DEF BookingInv, UnplacedIsPrivate
<1> HIDE DEF o
<1>4. /\ row'[o].oid = o /\ row'[o].filled = 0 /\ row'[o].status = "pending"
      /\ \A r \in OrderId \ {o} : row'[r] = row[r]
  BY <1>1, <1>2 DEF TypeOK, NewRow
<1>5. RowPlaced' /\ OwnRowCounts' /\ OwnRowFilled'
  BY <1>1, <1>2, <1>3, <1>4
     DEF SettledInv, RowsSettled, RowPlaced, OwnRowCounts, OwnRowFilled, exchange
<1>6. HeldHasNoRow'
  BY <1>1, <1>2, <1>4 DEF SettledInv, RowsSettled, HeldHasNoRow, TypeOK, o
<1>7. PollSettled'
  <2>1. OrdersKept
    BY <1>1, ExchangeKeepsOrders
  <2>2. pc'[Monitor] = pc[Monitor]
    BY <1>1, SessionsAssumption DEF TypeOK
  <2> QED
    BY <1>1, <2>1, <2>2, PollKept DEF Watched
<1> QED
  BY <1>5, <1>6, <1>7 DEF SettledInv, RowsSettled

\* A confirmed sale is of an order no row names.
LEMMA ConfirmedSettled ==
  ASSUME TypeOK, BookingInv, SettledInv, NEW s \in Sellers, SellConfirmed(s)
  PROVE  SettledInv'
<1>1. /\ booked' = [booked EXCEPT ![hold[s]] = @ + order[hold[s]].filled]
      /\ hold' = [hold EXCEPT ![s] = NoOrder] /\ pc' = [pc EXCEPT ![s] = "idle"]
      /\ UNCHANGED <<exchange, row, seen, poll>>
  BY DEF SellConfirmed, Holding, Goto
<1>2. hold[s] # NoOrder /\ s \in Proc /\ \A r \in OrderId : row[r].oid # hold[s]
  BY DEF SellConfirmed, TypeOK, BookingInv, SessionsHold, HeldIsPrivate, Private, Proc
<1>3. OwnRowCounts'
  BY <1>1, <1>2 DEF SettledInv, RowsSettled, OwnRowCounts, TypeOK
<1>4. RowPlaced' /\ OwnRowFilled'
  BY <1>1 DEF SettledInv, RowsSettled, RowPlaced, OwnRowFilled, exchange
<1>5. HeldHasNoRow'
  BY <1>1, <1>2 DEF SettledInv, RowsSettled, HeldHasNoRow, TypeOK
<1>6. PollSettled'
  <2>1. OrdersKept
    BY <1>1, ExchangeKeepsOrders
  <2>2. pc'[Monitor] = pc[Monitor]
    BY <1>1, SessionsAssumption DEF TypeOK
  <2> QED
    BY <1>1, <2>1, <2>2, PollKept DEF Watched
<1> QED
  BY <1>3, <1>4, <1>5, <1>6 DEF SettledInv, RowsSettled

\* The watched order's row moves its count and its trades to the same total;
\* it is marked filled only with an order that is, at what it filled.
LEMMA BookedSettled ==
  ASSUME TypeOK, BookingInv, SettledInv, UNCHANGED <<order, hold>>,
         Watched \in OrderId, NEW r \in OrderId, row[r].oid = Watched,
         NEW total \in Nat, booked[Watched] <= total, total <= order[Watched].filled,
         booked' = [booked EXCEPT ![Watched] = @ + NewFill(r, total)],
         \A q \in OrderId : row'[q].oid = row[q].oid,
         \A q \in OrderId \ {r} : row'[q] = row[q],
         row'[r].filled = total \/ (total = 0 /\ row' = row),
         row'[r].status = "filled" =>
           row[r].status = "filled" \/ (order[Watched].st = "filled" /\ total = order[Watched].filled)
  PROVE  RowsSettled'
<1> USE DEF SettledInv, RowsSettled
<1>1. RowPlaced' /\ HeldHasNoRow'
  BY DEF RowPlaced, HeldHasNoRow, TypeOK, OptionalOrder
<1>2. \A q \in OrderId : row[q].oid = Watched => q = r
  BY DEF BookingInv, OneRowPerOrder, OrderId, NoOrder
<1>3. \A q \in OrderId \ {Watched} : booked'[q] = booked[q]
  BY DEF TypeOK
<1>4. CASE Watched # r
  <2>1. \A q \in OrderId : row'[q].oid = q => q # Watched /\ row'[q] = row[q]
    BY <1>2, <1>4
  <2> QED
    BY <1>1, <1>3, <2>1 DEF OwnRowCounts, OwnRowFilled
<1>5. CASE Watched = r
  <2>1. booked[r] = row[r].filled /\ booked[r] \in Nat /\ order[r].filled \in Nat
    BY <1>5 DEF OwnRowCounts, TypeOK, Order
  <2>2. booked'[r] = total
    BY <1>5, <2>1 DEF NewFill, TypeOK
  <2>3. row'[r].filled = total
    BY <1>5, <2>1
  <2>4. OwnRowCounts'
    BY <1>3, <1>5, <2>2, <2>3 DEF OwnRowCounts
  <2>5. row[r].status = "filled" => order[r].st = "filled" /\ total = order[r].filled
    BY <1>5, <2>1 DEF OwnRowFilled
  <2>6. OwnRowFilled'
    BY <1>5, <2>3, <2>5 DEF OwnRowFilled
  <2> QED
    BY <1>1, <2>4, <2>6
<1> QED
  BY <1>1, <1>4, <1>5

\* The two ways the monitor books have that form.
LEMMA BookingSettled ==
  ASSUME TypeOK, BookingInv, SettledInv, UNCHANGED <<exchange, hold>>,
         Watched \in OrderId, NEW r \in OrderId, row[r].oid = Watched,
         NEW total \in Nat, booked[Watched] <= total, total <= order[Watched].filled,
         \/ BookPartial(r, total)
         \/ /\ BookFinal(r, total)
            /\ order[Watched].st = "filled" /\ total = order[Watched].filled
  PROVE  RowsSettled'
<1>1. booked' = [booked EXCEPT ![Watched] = @ + NewFill(r, total)]
  BY DEF BookPartial, BookFinal
<1>2. /\ \A q \in OrderId : row'[q].oid = row[q].oid
      /\ \A q \in OrderId \ {r} : row'[q] = row[q]
      /\ row'[r].filled = total \/ (total = 0 /\ row' = row)
      /\ row'[r].status = "filled" =>
           row[r].status = "filled" \/ (order[Watched].st = "filled" /\ total = order[Watched].filled)
  <2>1. CASE BookFinal(r, total) /\ order[Watched].st = "filled" /\ total = order[Watched].filled
    BY <2>1 DEF BookFinal, TypeOK, PendingRow
  <2>2. CASE BookPartial(r, total)
    BY <2>2 DEF BookPartial, TypeOK, PendingRow
  <2> QED
    BY <2>1, <2>2
<1>3. order' = order /\ hold' = hold
  BY DEF exchange
<1> QED
  BY <1>1, <1>2, <1>3, BookedSettled

\* The monitor completes a close, on a final answer.
LEMMA CompleteSettled ==
  ASSUME TypeOK, BookingInv, SettledInv, MonComplete
  PROVE  SettledInv'
<1>1. PICK r \in OrderId : row[r].oid = Watched /\ BookFinal(r, poll.filled)
  BY DEF MonComplete
<1>2. /\ Watched \in OrderId /\ poll.filled \in Nat
      /\ order[Watched].st = "filled" /\ poll.filled = order[Watched].filled
      /\ booked[Watched] <= poll.filled /\ poll.filled <= order[Watched].filled
  BY WatchedOrder
     DEF MonComplete, Watching, TypeOK, OrderData, SettledInv, PollSettled, BookingInv, PollBetween
<1>3. RowsSettled'
  BY <1>1, <1>2, BookingSettled DEF MonComplete
<1>4. pc'[Monitor] \notin {"load", "apply"}
  BY DEF MonComplete, MonDone, Goto, TypeOK, Proc
<1> QED
  BY <1>3, <1>4, NothingPolled DEF SettledInv

\* The monitor books what an open order has filled, or goes on to cancel it.
LEMMA OpenSettled ==
  ASSUME TypeOK, BookingInv, SettledInv, MonOpen
  PROVE  SettledInv'
<1>1. PICK r \in OrderId :
        /\ row[r].oid = Watched
        /\ \/ BookPartial(r, poll.filled) /\ MonDone
           \/ MonGoto("cancel") /\ UNCHANGED database
  BY DEF MonOpen
<1>2. /\ Watched \in OrderId /\ poll.filled \in Nat /\ UNCHANGED <<exchange, hold>>
      /\ booked[Watched] <= poll.filled /\ poll.filled <= order[Watched].filled
  BY WatchedOrder DEF MonOpen, Watching, TypeOK, OrderData, BookingInv, PollBetween
<1>3. RowsSettled'
  <2>1. CASE BookPartial(r, poll.filled)
    BY <1>1, <1>2, <2>1, BookingSettled
  <2>2. CASE UNCHANGED database
    <3>1. OrdersKept /\ HoldStep /\ RowsQuiet /\ booked' = booked
      BY <1>2, <2>2, ExchangeKeepsOrders DEF HoldStep, RowsQuiet, database
    <3> QED
      BY <3>1, QuietSettled
  <2> QED
    BY <1>1, <2>1, <2>2
<1>4. pc'[Monitor] \notin {"load", "apply"}
  BY <1>1 DEF MonDone, MonGoto, Goto, TypeOK, Proc
<1> QED
  BY <1>3, <1>4, NothingPolled DEF SettledInv

\* What a cancelled order had filled is booked before it is replaced.
LEMMA CheckSettled ==
  ASSUME TypeOK, BookingInv, SettledInv, MonCheck
  PROVE  SettledInv'
<1>1. PICK r \in OrderId :
        /\ row[r].oid = Watched
        /\ \/ order[Watched].st = "filled" /\ BookFinal(r, order[Watched].filled) /\ MonDone
           \/ BookPartial(r, order[Watched].filled) /\ MonGoto("replace")
           \/ MonGoto("replace") /\ UNCHANGED database
  BY DEF MonCheck
<1>2. /\ Watched \in OrderId /\ order[Watched].filled \in Nat /\ UNCHANGED <<exchange, hold>>
      /\ booked[Watched] <= order[Watched].filled
      /\ order[Watched].filled <= order[Watched].filled
  BY WatchedOrder DEF MonCheck, Watching, TypeOK, Order, BookingInv, NoOverBooking
<1>3. RowsSettled'
  <2>1. CASE \/ order[Watched].st = "filled" /\ BookFinal(r, order[Watched].filled)
             \/ BookPartial(r, order[Watched].filled)
    BY <1>1, <1>2, <2>1, BookingSettled
  <2>2. CASE UNCHANGED database
    <3>1. OrdersKept /\ HoldStep /\ RowsQuiet /\ booked' = booked
      BY <1>2, <2>2, ExchangeKeepsOrders DEF HoldStep, RowsQuiet, database
    <3> QED
      BY <3>1, QuietSettled
  <2> QED
    BY <1>1, <2>1, <2>2
<1>4. pc'[Monitor] \notin {"load", "apply"}
  BY <1>1 DEF MonDone, MonGoto, Goto, TypeOK, Proc
<1> QED
  BY <1>3, <1>4, NothingPolled DEF SettledInv

\* The row that moves to a replacement no longer names its own order, and the
\* replacement has no row of its own.
LEMMA ReplaceCommitSettled ==
  ASSUME TypeOK, BookingInv, SettledInv, MonReplaceCommit
  PROVE  SettledInv'
<1> DEFINE o == hold[Monitor]
<1>1. PICK r \in OrderId :
        row[r].oid = Watched /\ row' = [row EXCEPT ![r].oid = o, ![r].status = "pending"]
  BY DEF MonReplaceCommit
<1>2. /\ hold' = [hold EXCEPT ![Monitor] = NoOrder]
      /\ UNCHANGED <<exchange, booked>> /\ MonDone
  BY DEF MonReplaceCommit, Holding
<1>3. /\ o \in OrderId /\ o # NoOrder /\ Monitor \in Proc
      /\ \A q \in Proc : hold[q] = o => q = Monitor
      /\ row[r].oid # NoOrder
  BY <1>1, WatchedOrder
     DEF MonReplaceCommit, Watching, TypeOK, BookingInv, SessionsHold, HeldIsPrivate, Proc,
         OptionalOrder
<1>4. row[o].oid = NoOrder /\ o # r
  BY <1>3 DEF SettledInv, RowsSettled, HeldHasNoRow
<1>5. \A p \in Proc : hold[p] # NoOrder => hold[p] # r
  BY <1>3 DEF SettledInv, RowsSettled, HeldHasNoRow
<1> HIDE DEF o
<1>6. row'[r].oid = o /\ \A q \in OrderId \ {r} : row'[q] = row[q]
  BY <1>1 DEF TypeOK, PendingRow
<1>7. RowPlaced' /\ OwnRowCounts' /\ OwnRowFilled'
  <2>1. order' = order /\ booked' = booked
    BY <1>2 DEF exchange
  <2>2. RowPlaced'
    BY <2>1, <1>3, <1>6 DEF SettledInv, RowsSettled, RowPlaced
  <2>3. \A q \in OrderId : row'[q].oid = q => row'[q] = row[q]
    BY <1>4, <1>6
  <2> QED
    BY <2>1, <2>2, <2>3 DEF SettledInv, RowsSettled, OwnRowCounts, OwnRowFilled
<1>8. HeldHasNoRow'
  BY <1>2, <1>5, <1>6 DEF SettledInv, RowsSettled, HeldHasNoRow, TypeOK, OptionalOrder
<1>9. pc'[Monitor] \notin {"load", "apply"}
  BY <1>2 DEF MonDone, Goto, TypeOK, Proc
<1> QED
  BY <1>7, <1>8, <1>9, NothingPolled DEF SettledInv, RowsSettled

-------------------------------------------------------------------------------
(* The theorem.                                                             *)

\* A step that changes nothing keeps the rows settled.
LEMMA StutterSettled ==
  ASSUME TypeOK, BookingInv, SettledInv, UNCHANGED vars
  PROVE  SettledInv'
<1>1. OrdersKept /\ HoldStep /\ RowsQuiet /\ booked' = booked
  BY ExchangeKeepsOrders DEF vars, sessions, database, HoldStep, RowsQuiet
<1> QED
  BY <1>1, QuietSettled, PollKept DEF vars, sessions, SettledInv, Watched

\* Every step keeps them: one case per kind of session.
LEMMA StepSettled ==
  ASSUME TypeOK, BookingInv, SettledInv, [Next]_vars
  PROVE  SettledInv'
<1>1. ASSUME NEW s \in Sellers, Sell(s) PROVE SettledInv'
  BY <1>1, OthersSettled, TrackSettled, ConfirmedSettled DEF Sell, SellLimitCommit
<1>2. ASSUME NEW u \in Users, Route(u) PROVE SettledInv'
  BY <1>2, OthersSettled, TrackSettled DEF Route, UserLimitCommit
<1>3. ASSUME Monitoring PROVE SettledInv'
  BY <1>3, MonitorQuietSettled, CompleteSettled, OpenSettled, CheckSettled, ReplaceCommitSettled
     DEF Monitoring
<1> QED
  BY <1>1, <1>2, <1>3, OthersSettled, CrashSettled, StutterSettled DEF Next

\* However many polls, sessions, cancellations and crashes it took, a close
\* whose row is marked filled and was never moved to a replacement has booked
\* all that its order filled (_process_partial_fills, _process_order_completion).
THEOREM OwnOrderIsSettled == Spec => []OwnOrderSettled
<1>1. TypeOK /\ BookingInv /\ SettledInv /\ [Next]_vars
        => TypeOK' /\ BookingInv' /\ SettledInv'
  BY StepInv, StepSettled
<1>2. SettledInv => OwnOrderSettled
  BY DEF SettledInv, RowsSettled, OwnRowCounts, OwnRowFilled, OwnOrderSettled
<1> QED
  BY InitInv, InitSettled, <1>1, <1>2, PTL DEF Spec

-------------------------------------------------------------------------------
(* One session closes. Where nobody else does, and no operator sells or     *)
(* cancels past the flags, a closed position stays as it is; where besides  *)
(* no reply is lost and every cancellation works, no live order is lost     *)
(* sight of.                                                                *)

OneSession ==
  /\ \A s, t \in Sellers : s = t
  /\ Users = {}
  /\ Events \cap {"panic", "cancel_position"} = {}
RepliesArrive == Events \cap {"lost_reply", "cancel_fails"} = {}

\* The flags go together and never outlive the position; a session that sells
\* found them clear, and the monitor watches the order they name.
FlagsAgree ==
  /\ pos.closing <=> pos.limit # NoOrder
  /\ pos.status = "open" \/ (pos.status = "closed" /\ ~pos.closing)
SellersFree == \A s \in Sellers : pc[s] # "idle" => pos.status = "open" /\ ~pos.closing
MonitorWatches == pc[Monitor] \in Watching => pos.limit = Watched
SoleInv == clearing = {} /\ FlagsAgree /\ SellersFree /\ MonitorWatches

\* What the monitor takes for over, in what it polled or since it cancelled, is.
Over(o) == order[o].st \in {"filled", "cancelled"}
WatchedOver ==
  /\ pc[Monitor] \in {"check", "replace", "placed"} => Over(Watched)
  /\ pc[Monitor] \in {"load", "apply"} /\ poll.st \in {"filled", "cancelled"} => Over(Watched)
TrackedInv == WatchedOver /\ LiveOrderTracked

\* Only a session that is about to commit or confirm an order holds one.
HoldersWait == \A p \in Proc : hold[p] # NoOrder => pc[p] \in {"placed", "await"}

\* Both hold before the first order.
LEMMA InitSole == Init => SoleInv /\ TrackedInv /\ HoldersWait
BY SessionsAssumption
   DEF Init, SoleInv, FlagsAgree, SellersFree, MonitorWatches, TrackedInv, WatchedOver,
       LiveOrderTracked, HoldersWait, Proc, Watching

\* While the monitor watches an order the position is open and marked.
LEMMA WatchingMarks ==
  ASSUME TypeOK, BookingInv, SoleInv, pc[Monitor] \in Watching
  PROVE  /\ Watched \in OrderId /\ pos.limit = Watched /\ pos.closing /\ pos.status = "open"
         /\ Restored(pos) = pos
         /\ \A s \in Sellers : pc[s] = "idle"
<1>1. Watched \in OrderId /\ Watched # NoOrder
  BY SessionsAssumption
     DEF BookingInv, SessionsHold, TypeOK, Proc, OptionalOrder, NoOrder, OrderId, Watched
<1>2. pos.limit = Watched /\ pos.closing /\ pos.status = "open"
  BY <1>1 DEF SoleInv, MonitorWatches, FlagsAgree
<1>3. Restored(pos) = pos
  BY <1>2 DEF Restored, TypeOK, PositionRow
<1> QED
  BY <1>1, <1>2, <1>3 DEF SoleInv, SellersFree

\* The exchange, the session that sells, and a crash keep the flags agreeing.
LEMMA OthersSole ==
  ASSUME OneSession, TypeOK, BookingInv, SoleInv,
         \/ \E o \in OrderId : ExchangeFill(o) \/ ExchangeExpire(o)
         \/ \E s \in Sellers : Sell(s)
         \/ \E u \in Users : Route(u)
         \/ CancelPosition \/ Crash \/ UNCHANGED vars
  PROVE  SoleInv'
<1> USE SessionsAssumption DEF Proc
<1>1. CASE \/ \E o \in OrderId : ExchangeFill(o) \/ ExchangeExpire(o)
           \/ UNCHANGED vars
  BY <1>1 DEF ExchangeFill, ExchangeExpire, vars, database, sessions, SoleInv, FlagsAgree,
              SellersFree, MonitorWatches, Watched
<1>2. CASE Crash
  BY <1>2 DEF Crash, database, SoleInv, FlagsAgree, SellersFree, MonitorWatches, Watching, TypeOK
<1>3. ASSUME NEW s \in Sellers, Sell(s) PROVE SoleInv'
  <2>1. /\ s # Monitor /\ s \in Proc /\ \A t \in Sellers : t = s
        /\ ~PanicStart(s)
    BY DEF OneSession, PanicStart
  <2>2. Cleared(s, pos) = pos /\ \A v : Cleared(s, v) = v
    BY DEF SoleInv, Cleared
  <2>3. pc[s] # "idle" =>
          pos.status = "open" /\ ~pos.closing /\ pos.limit = NoOrder /\ pc[Monitor] \notin Watching
    BY WatchingMarks DEF SoleInv, SellersFree, FlagsAgree
  <2>4. /\ pc'[Monitor] = pc[Monitor] /\ Watched' = Watched /\ clearing' = {}
    BY <1>3, <2>1 DEF Sell, SellStart, SellLimitPlace, SellLimitCommit, Track, SellDust,
        SellMarketSubmit, SellMarketFail, SellConfirmed, SellUnconfirmed, Goto, TypeOK, SoleInv,
        Watched
  <2>5. CASE SellStart(s)
    BY <2>1, <2>4, <2>5 DEF SellStart, database, SoleInv, FlagsAgree, SellersFree, MonitorWatches
  <2>6. CASE pc[s] # "idle" /\ pos' = pos
    BY <2>1, <2>3, <2>4, <2>6 DEF SoleInv, FlagsAgree, SellersFree, MonitorWatches
  <2>7. CASE SellLimitCommit(s)
    <3>1. /\ hold[s] # NoOrder /\ pc'[s] = "idle"
          /\ pos' = [pos EXCEPT !.closing = TRUE, !.limit = hold[s]] /\ pc[s] = "placed"
      BY <2>7 DEF SellLimitCommit, Track, FlagsFor, Goto, TypeOK, BookingInv, SessionsHold
    <3>2. pos'.closing /\ pos'.limit = hold[s] /\ pos'.status = "open"
      BY <2>3, <3>1 DEF TypeOK, PositionRow
    <3> QED
      BY <2>1, <2>3, <2>4, <3>1, <3>2 DEF SoleInv, FlagsAgree, SellersFree, MonitorWatches
  <2>8. CASE SellDust(s) \/ SellConfirmed(s)
    <3>1. /\ pc[s] # "idle" /\ pc'[s] = "idle"
          /\ pos'.status = "closed" /\ pos'.closing = pos.closing /\ pos'.limit = pos.limit
      <4>1. pc[s] # "idle" /\ pc'[s] = "idle"
        BY <2>1, <2>8 DEF SellDust, SellConfirmed, Goto, TypeOK
      <4>2. \E n : pos' = [pos EXCEPT !.status = "closed", !.received = n]
        BY <2>2, <2>8 DEF SellDust, SellConfirmed
      <4> QED
        BY <4>1, <4>2 DEF TypeOK, PositionRow
    <3> QED
      BY <2>1, <2>3, <2>4, <3>1 DEF SoleInv, FlagsAgree, SellersFree, MonitorWatches
  <2> QED
    BY <1>3, <2>1, <2>2, <2>5, <2>6, <2>7, <2>8
       DEF Sell, SellLimitPlace, SellMarketSubmit, SellMarketFail, SellUnconfirmed, database
<1> QED
  BY <1>1, <1>2, <1>3 DEF OneSession, CancelPosition

\* The monitor keeps them agreeing: it ends its watch as it clears them.
LEMMA MonitoringSole ==
  ASSUME OneSession, TypeOK, BookingInv, SoleInv, Monitoring
  PROVE  SoleInv'
<1> USE SessionsAssumption DEF Proc
<1>1. /\ clearing' = {} /\ \A s \in Sellers : pc'[s] = pc[s]
  BY DEF Monitoring, MonBoot, MonSnapshot, MonPoll, MonLoad, MonAbandon, MonComplete, MonRelease,
         MonOpen, MonCancel, MonCheck, MonReplace, MonReplaceCommit, Sweep, MonDone, MonGoto, Goto,
         TypeOK, SoleInv, sessions
<1>2. CASE pos' = pos /\ (pc'[Monitor] \in Watching => pos.limit = Watched')
  BY <1>1, <1>2 DEF SoleInv, FlagsAgree, SellersFree, MonitorWatches
<1>3. CASE pc[Monitor] \in Watching /\ pos' = FlagsCleared /\ MonDone
  <2>1. pos'.status = "open" /\ ~pos'.closing /\ pos'.limit = NoOrder
    BY <1>3, WatchingMarks DEF FlagsCleared, TypeOK, PositionRow
  <2>2. pc'[Monitor] = "idle"
    BY <1>3 DEF MonDone, Goto, TypeOK
  <2> QED
    BY <1>1, <2>1, <2>2 DEF SoleInv, FlagsAgree, SellersFree, MonitorWatches, Watching
<1>4. CASE /\ pc[Monitor] \in Watching /\ MonDone
           /\ pos'.status = "closed" /\ ~pos'.closing /\ pos'.limit = NoOrder
  <2>1. pc'[Monitor] = "idle"
    BY <1>4 DEF MonDone, Goto, TypeOK
  <2> QED
    BY <1>1, <1>4, <2>1, WatchingMarks DEF SoleInv, FlagsAgree, SellersFree, MonitorWatches, Watching
<1>5. CASE /\ pc[Monitor] \in Watching
           /\ pos'.status = pos.status /\ pos'.closing = pos.closing /\ pos'.limit = pos.limit
           /\ pc'[Monitor] \in Watching => Watched' = Watched
  BY <1>1, <1>5, WatchingMarks DEF SoleInv, FlagsAgree, SellersFree, MonitorWatches
<1>6. \A r, n : pc[Monitor] \in Watching /\ BookPartial(r, n) =>
        pos'.status = pos.status /\ pos'.closing = pos.closing /\ pos'.limit = pos.limit
  <2>1. SUFFICES ASSUME NEW r, NEW n, pc[Monitor] \in Watching, BookPartial(r, n)
                 PROVE  pos'.status = pos.status /\ pos'.closing = pos.closing /\ pos'.limit = pos.limit
    OBVIOUS
  <2>2. pos.closing = TRUE
    BY <2>1, WatchingMarks DEF TypeOK, PositionRow
  <2>3. \E q \in {pos, [pos EXCEPT !.received = poll.received + NewFill(r, n)]} : pos' = Restored(q)
    BY <2>1 DEF BookPartial
  <2> QED
    BY <2>2, <2>3 DEF Restored, TypeOK, PositionRow
<1>7. \A r, n : BookFinal(r, n) =>
        pos'.status = "closed" /\ ~pos'.closing /\ pos'.limit = NoOrder
  BY DEF BookFinal
<1>8. MonDone => pc'[Monitor] = "idle"
  BY DEF MonDone, Goto, TypeOK
<1>9. CASE MonBoot
  <2>1. CASE pos.status = "open" /\ pos.limit # NoOrder
    <3>1. pos' = pos /\ Watched' = pos.limit
      BY <1>9, <2>1 DEF MonBoot, TypeOK, Watched
    <3> QED
      BY <3>1, <1>2
  <2>2. CASE ~(pos.status = "open" /\ pos.limit # NoOrder)
    <3>1. pos' = pos
      BY <1>9, <2>2 DEF MonBoot, SoleInv, FlagsAgree, TypeOK, PositionRow
    <3> QED
      BY <1>2, <1>8, <1>9, <2>2, <3>1 DEF MonBoot, Watching
  <2> QED
    BY <2>1, <2>2
<1>10. CASE MonSnapshot
  BY <1>2, <1>10 DEF MonSnapshot, TypeOK, Watched, database
<1>11. CASE Sweep
  BY <1>2, <1>11 DEF Sweep, Watching, sessions
<1>12. CASE MonPoll \/ MonLoad \/ MonCancel
  <2>1. pc[Monitor] \in Watching /\ pos' = pos /\ (Watched' = Watched \/ pc'[Monitor] = "idle")
    BY <1>8, <1>12 DEF MonPoll, MonLoad, MonCancel, MonGoto, Watching, Watched, database
  <2> QED
    BY <1>5, <2>1 DEF Watching
<1>13. CASE MonAbandon
  <2>1. pc[Monitor] \in Watching /\ pos' = pos /\ pc'[Monitor] = "idle"
    BY <1>8, <1>13, WatchingMarks DEF MonAbandon, Watching
  <2> QED
    BY <1>5, <2>1 DEF Watching
<1>14. CASE MonComplete \/ MonRelease
  BY <1>3, <1>4, <1>7, <1>14 DEF MonComplete, MonRelease, Watching
<1>15. CASE MonOpen
  BY <1>5, <1>6, <1>8, <1>15 DEF MonOpen, MonGoto, Watching, Watched, database
<1>16. CASE MonCheck
  BY <1>4, <1>5, <1>6, <1>7, <1>8, <1>16 DEF MonCheck, MonGoto, Watching, Watched, database
<1>17. CASE MonReplace
  BY <1>3, <1>5, <1>17 DEF MonReplace, MonGoto, Watching, Watched
<1>18. CASE MonReplaceCommit
  <2>1. hold[Monitor] # NoOrder /\ pc[Monitor] \in Watching /\ pc'[Monitor] = "idle"
    BY <1>8, <1>18 DEF MonReplaceCommit, Watching, BookingInv, SessionsHold
  <2>2. pos'.status = pos.status /\ pos'.closing /\ pos'.limit = hold[Monitor]
    BY <1>18, <2>1, WatchingMarks DEF MonReplaceCommit, Restored, TypeOK, PositionRow
  <2> QED
    BY <1>1, <2>1, <2>2, WatchingMarks DEF SoleInv, FlagsAgree, SellersFree, MonitorWatches, Watching
<1> QED
  BY <1>9, <1>10, <1>11, <1>12, <1>13, <1>14, <1>15, <1>16, <1>17, <1>18 DEF Monitoring

\* Every step keeps them agreeing.
LEMMA StepSole ==
  ASSUME OneSession, TypeOK, BookingInv, SoleInv, [Next]_vars
  PROVE  SoleInv'
BY OthersSole, MonitoringSole DEF Next

-------------------------------------------------------------------------------
(* Under the same hypotheses, live orders.                                  *)

ByHold(o) == \E p \in Proc : hold[p] = o
ByRow(o)  == /\ pos.status = "open" /\ pos.closing /\ pos.limit = o
             /\ \E r \in OrderId : row[r].oid = o

\* What is over stays over, and nothing opens again.
OverKept   == \A o \in OrderId : Over(o) => Over(o)'
NoneOpened == \A o \in OrderId : order'[o].st = "open" => order[o].st = "open"

\* Every step of the exchange but the acceptance of an order is of this kind.
LEMMA ExchangeOver ==
  ASSUME TypeOK,
         \/ UNCHANGED exchange
         \/ \E o \in OrderId : Withdraw(o) \/ CancelOrder(o) \/ ExchangeFill(o)
  PROVE  OverKept /\ NoneOpened
<1>1. CASE UNCHANGED exchange
  BY <1>1 DEF exchange, OverKept, NoneOpened, Over
<1>2. ASSUME NEW o \in OrderId, Withdraw(o) \/ CancelOrder(o) PROVE OverKept /\ NoneOpened
  BY <1>2 DEF Withdraw, CancelOrder, exchange, OverKept, NoneOpened, Over, TypeOK, Order
<1>3. ASSUME NEW o \in OrderId, ExchangeFill(o) PROVE OverKept /\ NoneOpened
  <2>1. /\ order[o].st = "open"
        /\ \A q \in OrderId \ {o} : order'[q] = order[q]
    BY <1>3 DEF ExchangeFill, TypeOK, Order
  <2> QED
    BY <2>1 DEF OverKept, NoneOpened, Over
<1> QED
  BY <1>1, <1>2, <1>3

\* Of an acceptance, all but the order accepted.
LEMMA AcceptOver ==
  ASSUME TypeOK, NEW o \in OrderId, NEW n \in Int, Accept(o, n)
  PROVE  OverKept /\ \A q \in OrderId : order'[q].st = "open" => order[q].st = "open" \/ q = o
BY DEF Accept, OverKept, Over, TypeOK

\* An order stays tracked if whoever holds it keeps it or records it, and the
\* flags and rows that name it stay.
LEMMA StaysTracked ==
  ASSUME LiveOrderTracked, crashes' = crashes,
         \A o \in OrderId : order'[o].st = "open" =>
           /\ order[o].st = "open" \/ ByHold(o)'
           /\ ByHold(o) => ByHold(o)' \/ ByRow(o)'
           /\ ByRow(o) => ByRow(o)'
  PROVE  LiveOrderTracked'
BY DEF LiveOrderTracked, ByHold, ByRow

\* The flags stay, and the rows keep their orders.
FlagsStay ==
  /\ pos'.status = pos.status /\ pos'.closing = pos.closing /\ pos'.limit = pos.limit
  /\ \A r \in OrderId : row'[r].oid = row[r].oid

\* The monitor is left alone.
LEMMA WatchedStays ==
  ASSUME TypeOK, BookingInv, WatchedOver, OverKept,
         pc'[Monitor] = pc[Monitor], Watched' = Watched, poll' = poll
  PROVE  WatchedOver'
<1>1. pc[Monitor] \in Watching => Watched \in OrderId
  BY SessionsAssumption
     DEF BookingInv, SessionsHold, TypeOK, Proc, OptionalOrder, NoOrder, OrderId, Watched
<1> QED
  BY <1>1 DEF WatchedOver, OverKept, Watching

\* A session that sells holds what it places until it is over or recorded.
LEMMA SellTracked ==
  ASSUME OneSession, RepliesArrive, TypeOK, BookingInv, SoleInv, TrackedInv,
         HoldersWait, NEW s \in Sellers, Sell(s)
  PROVE  TrackedInv'
<1> USE SessionsAssumption DEF Proc
<1>1. /\ s # Monitor /\ s \in Proc /\ ~PanicStart(s) /\ Size \in Int /\ Clamped \in Int
      /\ "lost_reply" \notin Events /\ "cancel_fails" \notin Events
  BY SizesAssumption, ClampedInt DEF OneSession, RepliesArrive, PanicStart
<1>2. Cleared(s, pos) = pos /\ \A v : Cleared(s, v) = v
  BY DEF SoleInv, Cleared
<1>3. pc[s] # "idle" => pos.status = "open" /\ pos.limit = NoOrder
  BY DEF SoleInv, SellersFree, FlagsAgree
<1>4. /\ pc'[Monitor] = pc[Monitor] /\ Watched' = Watched /\ poll' = poll /\ crashes' = crashes
  BY <1>1 DEF Sell, SellStart, SellLimitPlace, SellLimitCommit, Track, SellDust,
      SellMarketSubmit, SellMarketFail, SellConfirmed, SellUnconfirmed, Goto, TypeOK, Watched
<1>5. LiveOrderTracked
  BY DEF TrackedInv
<1>6. CASE UNCHANGED <<exchange, hold, row>> /\ (pos' = pos \/ pos.limit = NoOrder)
  <2>1. OverKept /\ NoneOpened
    BY <1>6, ExchangeOver
  <2>2. \A o \in OrderId : ByRow(o) => ByRow(o)'
    BY <1>6 DEF ByRow, OrderId, NoOrder
  <2> QED
    BY <1>4, <1>5, <1>6, <2>1, <2>2, StaysTracked, WatchedStays
       DEF TrackedInv, NoneOpened, ByHold
<1>7. ASSUME NEW o \in OrderId, NEW n \in Int, Accept(o, n), Holding(s, o),
             pc[s] \in {"limit", "market"}, UNCHANGED database
      PROVE  TrackedInv'
  <2>1. OverKept /\ \A q \in OrderId : order'[q].st = "open" => order[q].st = "open" \/ q = o
    BY <1>7, AcceptOver
  <2>2. hold[s] = NoOrder
    BY <1>1, <1>7 DEF HoldersWait
  <2>3. hold'[s] = o /\ \A p \in Proc : p # s => hold'[p] = hold[p]
    BY <1>1, <1>7 DEF Holding, TypeOK
  <2>4. \A q \in OrderId : q # NoOrder
    BY DEF OrderId, NoOrder
  <2>5. \A q \in OrderId : /\ ByHold(q) => ByHold(q)'
                           /\ q = o => ByHold(q)'
    BY <1>1, <2>2, <2>3, <2>4 DEF ByHold
  <2>6. \A q \in OrderId : ByRow(q) => ByRow(q)'
    BY <1>7 DEF ByRow, database
  <2> QED
    BY <1>4, <1>5, <2>1, <2>5, <2>6, StaysTracked, WatchedStays DEF TrackedInv
<1>8. CASE SellLimitCommit(s)
  <2>1. hold[s] \in OrderId /\ pc[s] = "placed" /\ UNCHANGED exchange
    BY <1>8 DEF SellLimitCommit, Track, TypeOK, BookingInv, SessionsHold, OptionalOrder
  <2>2. PICK o \in OrderId : o = hold[s]
    BY <2>1
  <2>3. /\ pos' = [pos EXCEPT !.closing = TRUE, !.limit = o]
        /\ row' = [row EXCEPT ![o] = NewRow(o, FALSE)]
        /\ \A p \in Proc : p # s => hold'[p] = hold[p]
    BY <1>8, <2>2 DEF SellLimitCommit, Track, FlagsFor, Holding, TypeOK
  <2>4. ByRow(o)'
    <3>1. pos'.status = "open" /\ pos'.closing /\ pos'.limit = o
      BY <1>3, <2>1, <2>3 DEF TypeOK, PositionRow
    <3>2. row'[o].oid = o
      BY <2>3 DEF NewRow, TypeOK
    <3> QED
      BY <3>1, <3>2 DEF ByRow
  <2>5. OverKept /\ NoneOpened
    BY <2>1, ExchangeOver
  <2>6. \A q \in OrderId : /\ ByHold(q) => ByHold(q)' \/ ByRow(q)'
                           /\ ~ByRow(q)
    <3>1. \A q \in OrderId : ~ByRow(q)
      BY <1>3, <2>1 DEF ByRow, OrderId, NoOrder
    <3>2. \A q \in OrderId : q # o /\ ByHold(q) => ByHold(q)'
      BY <2>2, <2>3 DEF ByHold
    <3> QED
      BY <2>4, <3>1, <3>2
  <2> QED
    BY <1>4, <1>5, <2>5, <2>6, StaysTracked, WatchedStays DEF TrackedInv, NoneOpened
<1>9. CASE SellConfirmed(s) \/ SellUnconfirmed(s)
  <2>1. hold[s] \in OrderId /\ pc[s] = "await"
    BY <1>9 DEF SellConfirmed, SellUnconfirmed, TypeOK, BookingInv, SessionsHold, OptionalOrder
  <2>2. OverKept /\ NoneOpened /\ order'[hold[s]].st # "open"
    <3>1. \/ UNCHANGED exchange /\ order[hold[s]].st # "open"
          \/ Withdraw(hold[s])
      BY <1>1, <1>9 DEF SellConfirmed, SellUnconfirmed, CancelOrder
    <3>2. order'[hold[s]].st # "open"
      BY <2>1, <3>1 DEF Withdraw, exchange, TypeOK, Order
    <3> QED
      BY <2>1, <3>1, <3>2, ExchangeOver
  <2>3. \A p \in Proc : p # s => hold'[p] = hold[p]
    BY <1>9 DEF SellConfirmed, SellUnconfirmed, Holding, TypeOK
  <2>4. \A o \in OrderId : /\ ByHold(o) /\ order'[o].st = "open" => ByHold(o)'
                           /\ ~ByRow(o)
    BY <1>3, <2>1, <2>2, <2>3 DEF ByHold, ByRow, OrderId, NoOrder
  <2> QED
    BY <1>4, <1>5, <2>2, <2>4, StaysTracked, WatchedStays DEF TrackedInv, NoneOpened
<1>10. CASE SellStart(s) \/ SellDust(s) \/ SellMarketFail(s)
  BY <1>1, <1>2, <1>3, <1>6, <1>10 DEF SellStart, SellDust, SellMarketFail, database
<1>11. CASE SellLimitPlace(s) \/ SellMarketSubmit(s)
  BY <1>1, <1>6, <1>7, <1>11 DEF SellLimitPlace, SellMarketSubmit, database
<1> QED
  BY <1>1, <1>8, <1>9, <1>10, <1>11 DEF Sell

\* The monitor of one that is over, polled or cancelled, and its replacement.
LEMMA MonitoringTracked ==
  ASSUME OneSession, RepliesArrive, TypeOK, BookingInv, SoleInv, TrackedInv, HoldersWait, Monitoring
  PROVE  TrackedInv'
<1> USE SessionsAssumption DEF Proc
<1>1. crashes' = crashes /\ LiveOrderTracked /\ WatchedOver
  BY DEF Monitoring, MonBoot, MonSnapshot, MonPoll, MonLoad, MonAbandon, MonComplete, MonRelease,
         MonOpen, MonCancel, MonCheck, MonReplace, MonReplaceCommit, Sweep, TrackedInv
<1>2. "lost_reply" \notin Events
  BY DEF RepliesArrive
<1>3. MonDone => pc'[Monitor] = "idle"
  BY DEF MonDone, Goto, TypeOK
<1>4. ASSUME UNCHANGED exchange \/ Withdraw(Watched), pc[Monitor] \in Watching, hold' = hold
      PROVE  OverKept /\ NoneOpened /\ \A o \in OrderId : ByHold(o) => ByHold(o)'
  BY <1>4, ExchangeOver, WatchingMarks DEF ByHold
<1>5. ASSUME FlagsStay PROVE \A o \in OrderId : ByRow(o) => ByRow(o)'
  BY <1>5 DEF FlagsStay, ByRow
<1>6. ASSUME UNCHANGED <<exchange, hold>>, FlagsStay PROVE LiveOrderTracked'
  BY <1>1, <1>5, <1>6, ExchangeOver, StaysTracked DEF NoneOpened, ByHold
<1>7. \A r \in OrderId : \A n : pc[Monitor] \in Watching /\ BookPartial(r, n) => FlagsStay
  <2>1. SUFFICES ASSUME NEW r \in OrderId, NEW n, pc[Monitor] \in Watching, BookPartial(r, n)
                 PROVE  FlagsStay
    OBVIOUS
  <2>2. pos.closing = TRUE
    BY <2>1, WatchingMarks DEF TypeOK, PositionRow
  <2>3. \E q \in {pos, [pos EXCEPT !.received = poll.received + NewFill(r, n)]} : pos' = Restored(q)
    BY <2>1 DEF BookPartial
  <2>4. pos'.status = pos.status /\ pos'.closing = pos.closing /\ pos'.limit = pos.limit
    BY <2>2, <2>3 DEF Restored, TypeOK, PositionRow
  <2>5. \A q \in OrderId : row'[q].oid = row[q].oid
    BY <2>1 DEF BookPartial, TypeOK, PendingRow
  <2> QED
    BY <2>4, <2>5 DEF FlagsStay
\* The watch ends, as the order is over.
<1>8. ASSUME pc[Monitor] \in Watching, Over(Watched), UNCHANGED <<exchange, hold>>, MonDone
      PROVE  TrackedInv'
  <2>1. \A o \in OrderId : order'[o].st = "open" => ~ByRow(o)
    BY <1>8, WatchingMarks DEF Over, ByRow, exchange
  <2>2. LiveOrderTracked'
    BY <1>1, <1>4, <1>8, <2>1, StaysTracked DEF NoneOpened
  <2> QED
    BY <1>3, <1>8, <2>2 DEF TrackedInv, WatchedOver
<1>9. CASE MonBoot
  <2>1. FlagsStay /\ UNCHANGED <<exchange, hold>>
    BY <1>9 DEF MonBoot, FlagsStay, SoleInv, FlagsAgree, TypeOK, PositionRow
  <2>2. pc'[Monitor] \in {"boot_poll", "idle"}
    BY <1>3, <1>9 DEF MonBoot, Goto, TypeOK
  <2> QED
    BY <1>6, <2>1, <2>2 DEF TrackedInv, WatchedOver
<1>10. CASE MonSnapshot
  <2>1. FlagsStay /\ UNCHANGED <<exchange, hold>> /\ pc'[Monitor] = "poll"
    BY <1>10 DEF MonSnapshot, FlagsStay, Goto, TypeOK, database
  <2> QED
    BY <1>6, <2>1 DEF TrackedInv, WatchedOver
<1>11. CASE Sweep
  <2>1. /\ UNCHANGED <<exchange, pos, hold>> /\ pc'[Monitor] = "idle"
        /\ \A r \in OrderId : row'[r].oid = row[r].oid
    BY <1>11 DEF Sweep, sessions, TypeOK, PendingRow
  <2> QED
    BY <1>6, <2>1 DEF TrackedInv, WatchedOver, FlagsStay
<1>12. CASE MonPoll
  <2>1. /\ FlagsStay /\ UNCHANGED <<exchange, hold>> /\ Watched' = Watched
        /\ poll'.st = order[Watched].st /\ pc'[Monitor] \in {"load", "apply"}
    BY <1>12 DEF MonPoll, FlagsStay, Goto, TypeOK, database, OrderData, Watched
  <2> QED
    BY <1>6, <2>1 DEF TrackedInv, WatchedOver, Over, exchange
<1>13. CASE MonLoad
  <2>1. /\ FlagsStay /\ UNCHANGED <<exchange, hold>>
        /\ \/ pc'[Monitor] = "idle"
           \/ Watched' = Watched /\ poll'.st = poll.st /\ pc[Monitor] = "load" /\ pc'[Monitor] = "apply"
    BY <1>3, <1>13 DEF MonLoad, FlagsStay, Goto, TypeOK, database, OrderData, Watched
  <2> QED
    BY <1>1, <1>6, <2>1 DEF TrackedInv, WatchedOver, Over, exchange
<1>14. CASE MonAbandon
  <2>1. FlagsStay /\ UNCHANGED <<exchange, hold>> /\ pc'[Monitor] = "idle"
    BY <1>3, <1>14, WatchingMarks DEF MonAbandon, FlagsStay, Watching
  <2> QED
    BY <1>6, <2>1 DEF TrackedInv, WatchedOver
<1>15. CASE MonComplete \/ MonRelease
  BY <1>1, <1>8, <1>15 DEF MonComplete, MonRelease, WatchedOver, Watching
<1>16. CASE MonOpen
  <2>1. UNCHANGED <<exchange, hold>> /\ pc[Monitor] = "apply"
    BY <1>16 DEF MonOpen
  <2>2. FlagsStay
    BY <1>7, <1>16, <2>1 DEF MonOpen, FlagsStay, Watching, database
  <2>3. pc'[Monitor] \in {"idle", "cancel"}
    BY <1>3, <1>16 DEF MonOpen, MonGoto, Goto, TypeOK
  <2> QED
    BY <1>6, <2>1, <2>2, <2>3 DEF TrackedInv, WatchedOver
<1>17. CASE MonCancel
  <2>1. /\ pc[Monitor] = "cancel" /\ hold' = hold /\ FlagsStay /\ Watched' = Watched
        /\ pc'[Monitor] = "check"
        /\ Withdraw(Watched) \/ (Terminal(Watched) /\ UNCHANGED exchange)
    BY <1>2, <1>17 DEF MonCancel, MonGoto, Goto, TypeOK, FlagsStay, database, Watched
  <2>2. OverKept /\ NoneOpened /\ \A o \in OrderId : ByHold(o) => ByHold(o)'
    BY <1>4, <2>1 DEF Watching
  <2>3. Over(Watched)'
    BY <2>1, WatchingMarks DEF Over, Withdraw, Terminal, exchange, TypeOK, Order, Watching
  <2>4. LiveOrderTracked'
    BY <1>1, <1>5, <2>1, <2>2, StaysTracked DEF NoneOpened
  <2> QED
    BY <2>1, <2>3, <2>4 DEF TrackedInv, WatchedOver
<1>18. CASE MonCheck
  <2>1. pc[Monitor] = "check" /\ UNCHANGED <<exchange, hold>> /\ Over(Watched)
    BY <1>1, <1>18 DEF MonCheck, WatchedOver
  <2>2. MonDone \/ (FlagsStay /\ pc'[Monitor] = "replace" /\ Watched' = Watched)
    BY <1>7, <1>18, <2>1 DEF MonCheck, MonGoto, Goto, TypeOK, FlagsStay, database, Watching, Watched
  <2> QED
    BY <1>6, <1>8, <2>1, <2>2 DEF TrackedInv, WatchedOver, Over, Watching, exchange
<1>19. CASE MonReplace
  <2>1. pc[Monitor] = "replace" /\ Over(Watched)
    BY <1>1, <1>19 DEF MonReplace, WatchedOver
  <2>2. CASE UNCHANGED <<exchange, hold>> /\ MonDone
    BY <1>8, <2>1, <2>2 DEF Watching
  <2>3. ASSUME NEW r \in OrderId, NEW o \in OrderId, Accept(o, Replacement(r)), Holding(Monitor, o),
               MonGoto("placed"), UNCHANGED <<row, pos>>
        PROVE  TrackedInv'
    <3>1. Replacement(r) \in Int /\ Watched \in OrderId
      BY <2>1, SizesAssumption, WatchingMarks DEF Replacement, TypeOK, PendingRow, Watching
    <3>2. OverKept /\ \A q \in OrderId : order'[q].st = "open" => order[q].st = "open" \/ q = o
      BY <2>3, <3>1, AcceptOver
    <3>3. hold[Monitor] = NoOrder
      BY <2>1 DEF HoldersWait
    <3>4. hold'[Monitor] = o /\ \A p \in Proc : p # Monitor => hold'[p] = hold[p]
      BY <2>3 DEF Holding, TypeOK
    <3>5. \A q \in OrderId : /\ ByHold(q) => ByHold(q)'
                             /\ q = o => ByHold(q)'
                             /\ ByRow(q) => ByRow(q)'
      BY <2>3, <3>3, <3>4 DEF ByHold, ByRow, OrderId, NoOrder
    <3>6. LiveOrderTracked'
      BY <1>1, <3>2, <3>5, StaysTracked
    <3>7. pc'[Monitor] = "placed" /\ Watched' = Watched
      BY <2>3 DEF MonGoto, Goto, TypeOK, Watched
    <3> QED
      BY <2>1, <3>1, <3>2, <3>6, <3>7 DEF TrackedInv, WatchedOver, OverKept
  <2> QED
    BY <1>2, <1>19, <2>2, <2>3 DEF MonReplace
<1>20. CASE MonReplaceCommit
  <2>1. pc[Monitor] = "placed" /\ Over(Watched) /\ UNCHANGED exchange /\ pc'[Monitor] = "idle"
    BY <1>1, <1>3, <1>20 DEF MonReplaceCommit, WatchedOver
  <2>2. PICK o \in OrderId : o = hold[Monitor]
    BY <2>1 DEF TypeOK, BookingInv, SessionsHold, OptionalOrder
  <2>3. \A p \in Proc : p # Monitor => hold'[p] = hold[p]
    BY <1>20 DEF MonReplaceCommit, Holding, TypeOK
  <2>4. ByRow(o)'
    <3>1. pos'.status = "open" /\ pos'.closing /\ pos'.limit = o
      BY <1>20, <2>1, <2>2, WatchingMarks DEF MonReplaceCommit, Restored, TypeOK, PositionRow, Watching
    <3>2. \E r \in OrderId : row'[r].oid = o
      BY <1>20, <2>2 DEF MonReplaceCommit, TypeOK, PendingRow
    <3> QED
      BY <3>1, <3>2 DEF ByRow
  <2>5. \A q \in OrderId : /\ ByHold(q) => ByHold(q)' \/ ByRow(q)'
                           /\ order'[q].st = "open" => order[q].st = "open" /\ ~ByRow(q)
    BY <2>1, <2>2, <2>3, <2>4, WatchingMarks DEF ByHold, ByRow, Over, Watching, exchange
  <2>6. LiveOrderTracked'
    BY <1>1, <2>5, StaysTracked
  <2> QED
    BY <2>1, <2>6 DEF TrackedInv, WatchedOver
<1> QED
  BY <1>9, <1>10, <1>11, <1>12, <1>13, <1>14, <1>15, <1>16, <1>17, <1>18, <1>19, <1>20 DEF Monitoring

\* An order is held from its placement to the commit or the confirmation.
LEMMA StepHolders ==
  ASSUME OneSession, TypeOK, BookingInv, HoldersWait, [Next]_vars
  PROVE  HoldersWait'
<1> USE SessionsAssumption DEF Proc
<1>1. ASSUME NEW s \in Sellers, Sell(s) PROVE HoldersWait'
  <2>1. s \in Proc /\ \A p \in Proc : p # s => pc'[p] = pc[p] /\ hold'[p] = hold[p]
    BY <1>1 DEF Sell, SellStart, PanicStart, SellLimitPlace, SellLimitCommit, Track, SellDust,
        SellMarketSubmit, SellMarketFail, SellConfirmed, SellUnconfirmed, Goto, Holding, TypeOK
  <2>2. hold'[s] # NoOrder => pc'[s] \in {"placed", "await"}
    BY <1>1, <2>1 DEF Sell, SellStart, PanicStart, SellLimitPlace, SellLimitCommit, Track, SellDust,
        SellMarketSubmit, SellMarketFail, SellConfirmed, SellUnconfirmed, Goto, Holding, TypeOK,
        HoldersWait
  <2> QED
    BY <2>1, <2>2 DEF HoldersWait
<1>2. CASE Monitoring
  <2>1. \A p \in Proc : p # Monitor => pc'[p] = pc[p] /\ hold'[p] = hold[p]
    BY <1>2 DEF Monitoring, MonBoot, MonSnapshot, MonPoll, MonLoad, MonAbandon, MonComplete,
        MonRelease, MonOpen, MonCancel, MonCheck, MonReplace, MonReplaceCommit, Sweep, MonDone,
        MonGoto, Goto, Holding, TypeOK, sessions
  <2>2. hold'[Monitor] # NoOrder => pc'[Monitor] \in {"placed", "await"}
    BY <1>2 DEF Monitoring, MonBoot, MonSnapshot, MonPoll, MonLoad, MonAbandon, MonComplete,
        MonRelease, MonOpen, MonCancel, MonCheck, MonReplace, MonReplaceCommit, Sweep, MonDone,
        MonGoto, Goto, Holding, TypeOK, sessions, HoldersWait
  <2> QED
    BY <2>1, <2>2 DEF HoldersWait
<1>3. CASE \/ \E o \in OrderId : ExchangeFill(o) \/ ExchangeExpire(o)
           \/ CancelPosition \/ UNCHANGED vars
  BY <1>3 DEF ExchangeFill, ExchangeExpire, CancelPosition, vars, sessions, HoldersWait
<1>4. CASE Crash
  BY <1>4 DEF Crash, HoldersWait
<1> QED
  BY <1>1, <1>2, <1>3, <1>4 DEF Next, OneSession

\* Every step keeps live orders tracked.
LEMMA StepTracked ==
  ASSUME OneSession, RepliesArrive, TypeOK, BookingInv, SoleInv, TrackedInv, HoldersWait,
         [Next]_vars
  PROVE  TrackedInv'
<1>1. CASE \/ \E o \in OrderId : ExchangeFill(o) \/ ExchangeExpire(o)
           \/ UNCHANGED vars
  <2>1. UNCHANGED <<database, sessions, crashes>> /\ OverKept /\ NoneOpened
    BY <1>1, ExchangeOver DEF ExchangeFill, ExchangeExpire, vars
  <2>2. LiveOrderTracked'
    BY <2>1, StaysTracked DEF NoneOpened, ByHold, ByRow, database, sessions, TrackedInv
  <2> QED
    BY <2>1, <2>2, WatchedStays DEF TrackedInv, sessions, Watched
<1>2. CASE Crash
  <2>1. crashes' # 0 /\ pc'[Monitor] = "boot"
    BY <1>2 DEF Crash, TypeOK, Proc
  <2> QED
    BY <2>1 DEF TrackedInv, LiveOrderTracked, WatchedOver
<1> QED
  BY <1>1, <1>2, SellTracked, MonitoringTracked DEF Next, OneSession, CancelPosition

\* Where one session closes the position, no reply is lost and cancellations
\* work, every order that can still fill is one a session is about to commit
\* or the one the open position names, with its row: until a crash, no order
\* sells coins nobody will book (sell_executor.py, limit_order_monitor.py).
THEOREM LiveOrdersAreTracked ==
  ASSUME OneSession, RepliesArrive
  PROVE  Spec => []LiveOrderTracked
<1>1. TypeOK /\ BookingInv /\ SoleInv /\ TrackedInv /\ HoldersWait /\ [Next]_vars
        => TypeOK' /\ BookingInv' /\ SoleInv' /\ TrackedInv' /\ HoldersWait'
  BY StepInv, StepSole, StepTracked, StepHolders
<1>2. TrackedInv => LiveOrderTracked
  BY DEF TrackedInv
<1> QED
  BY InitInv, InitSole, <1>1, <1>2, PTL DEF Spec

\* Where one session closes the position, a closed position is final whatever
\* replies are lost and however often the backend crashes: no step books a
\* trade for it or rewrites its status and proceeds.
THEOREM ClosedStaysClosed ==
  ASSUME OneSession
  PROVE  Spec => ClosedIsFinal
<1>1. TypeOK /\ BookingInv /\ SoleInv /\ [Next]_vars => TypeOK' /\ BookingInv' /\ SoleInv'
  BY StepInv, StepSole
<1>2. ASSUME TypeOK, BookingInv, SoleInv, [Next]_vars
      PROVE  [pos.status = "closed" => UNCHANGED <<pos, booked>>]_vars
  <2> SUFFICES ASSUME pos.status = "closed" PROVE UNCHANGED <<pos, booked>>
    OBVIOUS
  <2>1. pc[Monitor] \notin Watching /\ (\A s \in Sellers : pc[s] = "idle") /\ ~pos.closing
    BY <1>2, WatchingMarks DEF SoleInv, SellersFree, FlagsAgree
  <2>2. ~\E s \in Sellers : Sell(s)
    BY <2>1 DEF Sell, SellStart, PanicStart, SellLimitPlace, SellLimitCommit, Track, SellDust,
        SellMarketSubmit, SellMarketFail, SellConfirmed, SellUnconfirmed
  <2>3. CASE Monitoring
    BY <2>1, <2>3 DEF Monitoring, MonBoot, MonSnapshot, MonPoll, MonLoad, MonAbandon, MonComplete,
        MonRelease, MonOpen, MonCancel, MonCheck, MonReplace, MonReplaceCommit, Sweep, Watching
  <2>4. CASE \/ \E o \in OrderId : ExchangeFill(o) \/ ExchangeExpire(o)
             \/ Crash \/ UNCHANGED vars
    BY <2>4 DEF ExchangeFill, ExchangeExpire, Crash, vars, database
  <2> QED
    BY <1>2, <2>2, <2>3, <2>4 DEF Next, OneSession, CancelPosition
<1> QED
  BY InitInv, InitSole, <1>1, <1>2, PTL DEF Spec, ClosedIsFinal

===============================================================================
