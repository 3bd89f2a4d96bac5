------------------------------ MODULE LimitClose ------------------------------
(***************************************************************************)
(* Closing one long position: the sell executor, the limit-close routes,   *)
(* the panic sell and the limit order monitor, each a session of its own   *)
(* interleaving at its awaits, over one Position row, its PendingOrder     *)
(* rows, its Trade rows and the exchange.                                  *)
(*                                                                         *)
(* Amounts are whole units of the position's base currency and the price   *)
(* is one, so a quote amount is a number of units too.                     *)
(***************************************************************************)
EXTENDS Integers

CONSTANTS
  Size,         \* total_base_acquired of the position
  Other,        \* units of the same coin the wallet holds for other positions
  MinOrder,     \* the exchange's minimum order size
  MaxOrders,    \* bound: orders ever placed for this position
  MaxCrashes,   \* bound: crashes of the backend
  Sellers,      \* sessions that run execute_sell (bot cycles, force close, panic)
  Users,        \* sessions that run the limit-close routes
  Monitor,      \* the limit order monitor's session
  SupportsEdit, \* the exchange client implements edit_order
  Events        \* which of the optional events below may happen

AllEvents == {"lost_reply",      \* an order is accepted but its reply is lost
              "masked_lookup",   \* a failed get_order answers an empty UNKNOWN order
              "cancel_fails",    \* a cancellation has no effect on an open order
              "expire",          \* the exchange cancels, expires or fails an order
              "panic", "cancel_position", "cancel_limit"} \* what an operator does

ASSUME SizesAssumption ==
  /\ Size \in Nat \ {0}
  /\ Other \in Nat
  /\ MinOrder \in Nat \ {0}
  /\ MaxOrders \in Nat \ {0}
  /\ MaxCrashes \in Nat
ASSUME SessionsAssumption ==
  /\ Monitor \notin Sellers \cup Users
  /\ Sellers \cap Users = {}
ASSUME SwitchesAssumption ==
  /\ SupportsEdit \in BOOLEAN
  /\ Events \subseteq AllEvents

Proc    == Sellers \cup Users \cup {Monitor}
OrderId == 1..MaxOrders
NoOrder == 0
OptionalOrder == OrderId \cup {NoOrder}

VARIABLES
  order,    \* the exchange's orders: status, size and filled amount
  wallet,   \* units available for a new order (neither sold nor reserved)
  pos,      \* the Position row
  row,      \* PendingOrder rows, by the id of the order they were created for
  booked,   \* base amount of the Trade rows, by order_id
  pc,       \* where each session stands
  hold,     \* order whose placement a session was told of and has not committed
  seen,     \* limit_close_order_id as the session loaded it
  clearing, \* sellers whose session has cleared the flags and not committed
  poll,     \* the monitor's order_data, and the total_quote_received it loaded
  crashes

exchange == <<order, wallet>>
database == <<pos, row, booked>>
sessions == <<pc, hold, seen, clearing, poll>>
vars     == <<exchange, database, sessions, crashes>>

OrderStatus == {"none", "open", "filled", "cancelled"}
RowStatus   == {"none", "pending", "partially_filled", "filled", "cancelled", "orphaned"}
NoPoll == [st |-> "none", filled |-> 0, received |-> 0, boot |-> FALSE]
NoRow == [oid |-> NoOrder, filled |-> 0, remaining |-> 0, status |-> "none", manual |-> FALSE]

Order       == [st : OrderStatus, size : Nat, filled : Nat]
PositionRow == [status : {"open", "closed", "cancelled"}, closing : BOOLEAN,
                limit : OptionalOrder, received : Nat]
PendingRow  == [oid : OptionalOrder, filled : Nat, remaining : Int,
                status : RowStatus, manual : BOOLEAN]
OrderData   == [st : OrderStatus, filled : Nat, received : Nat, boot : BOOLEAN]
Where == {"idle", "limit", "placed", "market", "await", "cancelling", "boot", "boot_poll",
          "poll", "load", "apply", "cancel", "check", "replace"}

TypeOK ==
  /\ order \in [OrderId -> Order] /\ wallet \in Int
  /\ pos \in PositionRow
  /\ row \in [OrderId -> PendingRow]
  /\ booked \in [OrderId -> Nat]
  /\ pc \in [Proc -> Where]
  /\ hold \in [Proc -> OptionalOrder]
  /\ seen \in [Proc -> OptionalOrder]
  /\ clearing \subseteq Sellers
  /\ poll \in OrderData
  /\ crashes \in Nat

Init ==
  /\ order = [o \in OrderId |-> [st |-> "none", size |-> 0, filled |-> 0]]
  /\ wallet = Size + Other
  /\ pos = [status |-> "open", closing |-> FALSE, limit |-> NoOrder, received |-> 0]
  /\ row = [o \in OrderId |-> NoRow]
  /\ booked = [o \in OrderId |-> 0]
  /\ pc = [p \in Proc |-> IF p = Monitor THEN "boot" ELSE "idle"]
  /\ hold = [p \in Proc |-> NoOrder]
  /\ seen = [p \in Proc |-> NoOrder]
  /\ clearing = {}
  /\ poll = NoPoll
  /\ crashes = 0

-------------------------------------------------------------------------------
(* The exchange: an order is accepted if the wallet covers it, fills in     *)
(* steps, and may be cancelled or expire with part of it filled.            *)

Terminal(o) == order[o].st \in {"filled", "cancelled"}

Accept(o, n) ==
  /\ order[o].st = "none"
  /\ \A q \in 1..(o - 1) : order[q].st # "none"
  /\ 0 < n /\ n <= wallet
  /\ order' = [order EXCEPT ![o] = [st |-> "open", size |-> n, filled |-> 0]]
  /\ wallet' = wallet - n

Withdraw(o) ==
  /\ order[o].st = "open"
  /\ order' = [order EXCEPT ![o].st = "cancelled"]
  /\ wallet' = wallet + (order[o].size - order[o].filled)

CancelOrder(o) ==
  \/ Withdraw(o)
  \/ ("cancel_fails" \in Events \/ order[o].st # "open") /\ UNCHANGED exchange

ExchangeFill(o) ==
  /\ order[o].st = "open"
  /\ \E n \in 1..(order[o].size - order[o].filled) :
       order' = [order EXCEPT ![o].filled = @ + n,
                   ![o].st = IF order[o].filled + n = order[o].size THEN "filled" ELSE "open"]
  /\ UNCHANGED <<wallet, database, sessions, crashes>>

ExchangeExpire(o) ==
  /\ "expire" \in Events
  /\ Withdraw(o)
  /\ UNCHANGED <<database, sessions, crashes>>

-------------------------------------------------------------------------------
(* Steps the sessions share.                                                *)

Goto(p, where) == pc' = [pc EXCEPT ![p] = where]
Holding(p, o)  == hold' = [hold EXCEPT ![p] = o]

\* What a commit writes of the Position row for a seller that cleared the
\* flags first (the panic sell).
Cleared(s, position) ==
  IF s \in clearing THEN [position EXCEPT !.closing = FALSE, !.limit = NoOrder] ELSE position

FlagsForMutantNoFlag(o) == [pos EXCEPT !.limit = o]
FlagsFor(o)  == [pos EXCEPT !.closing = TRUE, !.limit = o]
FlagsCleared == [pos EXCEPT !.closing = FALSE, !.limit = NoOrder]

NewRow(o, manual) ==
  [oid |-> o, filled |-> 0, remaining |-> IF manual THEN Size ELSE 0,
   status |-> "pending", manual |-> manual]

\* A session that was told of order o records it and marks the position.
Track(p, manual) ==
  /\ pc[p] = "placed"
  /\ row' = [row EXCEPT ![hold[p]] = NewRow(hold[p], manual)]
  /\ pos' = FlagsFor(hold[p])
  /\ Goto(p, "idle") /\ Holding(p, NoOrder)
  /\ UNCHANGED <<exchange, booked, seen, clearing, poll, crashes>>

-------------------------------------------------------------------------------
(* The sell executor.                                                       *)

SellStartMutantNoGuard(s) ==
  /\ pc[s] = "idle"
  /\ pos.status = "open"
  /\ \E way \in {"limit", "market"} : Goto(s, way)
  /\ UNCHANGED <<exchange, database, hold, seen, clearing, poll, crashes>>

SellStart(s) ==
  /\ pc[s] = "idle"
  /\ pos.status = "open" /\ ~pos.closing
  /\ \E way \in {"limit", "market"} : Goto(s, way)
  /\ UNCHANGED <<exchange, database, hold, seen, clearing, poll, crashes>>

\* The panic sell resets a pending limit close in its session and sells at
\* market; the order on the exchange is not cancelled.
PanicStart(s) ==
  /\ "panic" \in Events
  /\ pc[s] = "idle"
  /\ pos.status = "open" /\ pos.closing
  /\ clearing' = clearing \cup {s}
  /\ Goto(s, "market")
  /\ UNCHANGED <<exchange, database, hold, seen, poll, crashes>>

\* Any failure to place the limit order, a lost reply included, falls back to
\* a market order if that is still profitable.
SellLimitPlace(s) ==
  /\ pc[s] = "limit"
  /\ \/ \E o \in OrderId : Accept(o, Size) /\ Goto(s, "placed") /\ Holding(s, o)
     \/ /\ \/ "lost_reply" \in Events /\ \E o \in OrderId : Accept(o, Size)
           \/ UNCHANGED exchange
        /\ \E way \in {"market", "idle"} : Goto(s, way)
        /\ UNCHANGED hold
  /\ UNCHANGED <<database, seen, clearing, poll, crashes>>

SellLimitCommit(s) == Track(s, FALSE)

\* What a market close submits: the recorded amount, or what the wallet has.
Clamped == IF wallet < Size THEN wallet ELSE Size
BelowMinimum == wallet < Size /\ wallet < MinOrder

\* Nothing to sell, or less than the exchange takes: closed as dust, with no
\* order, at the value of the recorded amount if the clamp left zero.
SellDust(s) ==
  /\ pc[s] = "market"
  /\ BelowMinimum
  /\ pos' = Cleared(s, [pos EXCEPT !.status = "closed",
                          !.received = IF wallet <= 0 THEN Size ELSE wallet])
  /\ clearing' = clearing \ {s}
  /\ Goto(s, "idle")
  /\ UNCHANGED <<exchange, row, booked, hold, seen, poll, crashes>>

SellMarketSubmit(s) ==
  /\ pc[s] = "market"
  /\ ~BelowMinimum
  /\ \E o \in OrderId : Accept(o, Clamped) /\ Holding(s, o)
  /\ Goto(s, "await")
  /\ UNCHANGED <<database, seen, clearing, poll, crashes>>

\* The submission raised: refused, or accepted with the reply lost.
SellMarketFail(s) ==
  /\ pc[s] = "market"
  /\ \/ "lost_reply" \in Events /\ ~BelowMinimum /\ \E o \in OrderId : Accept(o, Clamped)
     \/ UNCHANGED exchange
  /\ pos' = Cleared(s, pos)
  /\ clearing' = clearing \ {s}
  /\ Goto(s, "idle")
  /\ UNCHANGED <<row, booked, hold, seen, poll, crashes>>

\* A confirmed complete fill closes the position; its proceeds replace
\* whatever total_quote_received held.
SellConfirmed(s) ==
  /\ pc[s] = "await"
  /\ order[hold[s]].st = "filled"
  /\ booked' = [booked EXCEPT ![hold[s]] = @ + order[hold[s]].filled]
  /\ pos' = Cleared(s, [pos EXCEPT !.status = "closed", !.received = order[hold[s]].filled])
  /\ clearing' = clearing \ {s}
  /\ Goto(s, "idle") /\ Holding(s, NoOrder)
  /\ UNCHANGED <<exchange, row, seen, poll, crashes>>

\* Mutant: the requested amount is booked although the fill is unconfirmed.
SellUnconfirmedMutantBooks(s) ==
  /\ pc[s] = "await"
  /\ CancelOrder(hold[s])
  /\ booked' = [booked EXCEPT ![hold[s]] = order[hold[s]].size]
  /\ pos' = Cleared(s, pos)
  /\ clearing' = clearing \ {s}
  /\ Goto(s, "idle") /\ Holding(s, NoOrder)
  /\ UNCHANGED <<row, seen, poll, crashes>>

\* A fill the lookups did not confirm: best-effort cancel, nothing booked,
\* the position left open.
SellUnconfirmed(s) ==
  /\ pc[s] = "await"
  /\ CancelOrder(hold[s])
  /\ pos' = Cleared(s, pos)
  /\ clearing' = clearing \ {s}
  /\ Goto(s, "idle") /\ Holding(s, NoOrder)
  /\ UNCHANGED <<row, booked, seen, poll, crashes>>

-------------------------------------------------------------------------------
(* The routes: limit-close, cancel-limit-close and cancel.                  *)

UserLimitStart(u) ==
  /\ pc[u] = "idle"
  /\ pos.status = "open" /\ ~pos.closing
  /\ Goto(u, "limit")
  /\ UNCHANGED <<exchange, database, hold, seen, clearing, poll, crashes>>

UserLimitPlace(u) ==
  /\ pc[u] = "limit"
  /\ \/ \E o \in OrderId : Accept(o, Size) /\ Goto(u, "placed") /\ Holding(u, o)
     \/ /\ \/ "lost_reply" \in Events /\ \E o \in OrderId : Accept(o, Size)
           \/ UNCHANGED exchange
        /\ Goto(u, "idle") /\ UNCHANGED hold
  /\ UNCHANGED <<database, seen, clearing, poll, crashes>>

UserLimitCommit(u) == Track(u, TRUE)

\* The result of the cancellation is not looked at.
UserCancelOrder(u) ==
  /\ "cancel_limit" \in Events
  /\ pc[u] = "idle"
  /\ pos.closing /\ pos.limit # NoOrder
  /\ CancelOrder(pos.limit)
  /\ seen' = [seen EXCEPT ![u] = pos.limit]
  /\ Goto(u, "cancelling")
  /\ UNCHANGED <<database, hold, clearing, poll, crashes>>

UserCancelCommit(u) ==
  /\ pc[u] = "cancelling"
  /\ row' = [r \in OrderId |-> IF row[r].oid = seen[u] THEN [row[r] EXCEPT !.status = "cancelled"]
                               ELSE row[r]]
  /\ pos' = FlagsCleared
  /\ seen' = [seen EXCEPT ![u] = NoOrder]
  /\ Goto(u, "idle")
  /\ UNCHANGED <<exchange, booked, hold, clearing, poll, crashes>>

\* Cancel a position without selling: flags and orders stay as they are.
CancelPosition ==
  /\ "cancel_position" \in Events
  /\ pos.status = "open"
  /\ pos' = [pos EXCEPT !.status = "cancelled"]
  /\ UNCHANGED <<exchange, row, booked, sessions, crashes>>

-------------------------------------------------------------------------------
(* The limit order monitor: snapshot, poll without a session, re-select,    *)
(* apply; a step after an await writes what the session loaded before it.   *)

Watched == seen[Monitor]

MonGoto(where) == Goto(Monitor, where) /\ UNCHANGED <<seen, poll>>
MonDone ==
  /\ Goto(Monitor, "idle")
  /\ seen' = [seen EXCEPT ![Monitor] = NoOrder]
  /\ poll' = NoPoll

\* Startup reconciliation loads the position before it polls; the flag it
\* sets on one whose order lost it goes in with whatever the pass commits.
MonBoot ==
  /\ pc[Monitor] = "boot"
  /\ IF pos.status = "open" /\ pos.limit # NoOrder
       THEN /\ seen' = [seen EXCEPT ![Monitor] = pos.limit]
            /\ poll' = [poll EXCEPT !.received = pos.received, !.boot = TRUE]
            /\ Goto(Monitor, "boot_poll")
            /\ UNCHANGED pos
       ELSE /\ pos' = IF pos.status = "open" THEN [pos EXCEPT !.closing = FALSE] ELSE pos
            /\ MonDone
  /\ UNCHANGED <<exchange, row, booked, hold, clearing, crashes>>

Restored(position) == IF poll.boot THEN [position EXCEPT !.closing = TRUE] ELSE position

MonSnapshotMutantPendingOnly ==
  /\ pc[Monitor] = "idle"
  /\ pos.status = "open" /\ pos.closing /\ pos.limit # NoOrder
  /\ \E r \in OrderId : row[r].oid = pos.limit /\ row[r].status = "pending"
  /\ seen' = [seen EXCEPT ![Monitor] = pos.limit]
  /\ Goto(Monitor, "poll")
  /\ UNCHANGED <<exchange, database, hold, clearing, poll, crashes>>

MonSnapshot ==
  /\ pc[Monitor] = "idle"
  /\ pos.status = "open" /\ pos.closing /\ pos.limit # NoOrder
  /\ \E r \in OrderId : row[r].oid = pos.limit
  /\ seen' = [seen EXCEPT ![Monitor] = pos.limit]
  /\ Goto(Monitor, "poll")
  /\ UNCHANGED <<exchange, database, hold, clearing, poll, crashes>>

MonPoll ==
  /\ pc[Monitor] \in {"poll", "boot_poll"}
  /\ poll' = [poll EXCEPT !.st = order[Watched].st, !.filled = order[Watched].filled]
  /\ Goto(Monitor, IF pc[Monitor] = "poll" THEN "load" ELSE "apply")
  /\ UNCHANGED <<exchange, database, hold, seen, clearing, crashes>>

MonLoad ==
  /\ pc[Monitor] = "load"
  /\ IF pos.status = "open" /\ pos.limit = Watched
       THEN /\ poll' = [poll EXCEPT !.received = pos.received]
            /\ Goto(Monitor, "apply")
            /\ UNCHANGED seen
       ELSE MonDone
  /\ UNCHANGED <<exchange, database, hold, clearing, crashes>>

\* The cycle gives up on the order: no answer, an unknown status, no row, or
\* an exception that rolls the session back.
MonAbandon ==
  /\ pc[Monitor] \in {"poll", "boot_poll", "apply", "cancel", "check"}
  /\ pos' \in {pos, Restored(pos)}
  /\ MonDone
  /\ UNCHANGED <<exchange, row, booked, hold, clearing, crashes>>

\* (Definitions whose name has "Mutant" in it are slips of the definition that
\* follows them; they are used to see that a property notices.)
\* Fills of the watched order beyond the row's cumulative amount.
NewFillMutantCumulative(r, total) == total
NewFillMutantUnguarded(r, total) == total - row[r].filled
NewFill(r, total) == IF total > row[r].filled THEN total - row[r].filled ELSE 0

BookPartial(r, total) ==
  /\ booked' = [booked EXCEPT ![Watched] = @ + NewFill(r, total)]
  /\ pos' = Restored(IF NewFill(r, total) = 0 THEN pos
                     ELSE [pos EXCEPT !.received = poll.received + NewFill(r, total)])
  /\ row' = IF total = 0 THEN row
            ELSE [row EXCEPT ![r].filled = total, ![r].remaining = Size - total,
                    ![r].status = IF total < Size THEN "partially_filled" ELSE @]

\* Mutant: the final fill is taken as booked once any partial fill was.
BookFinalMutantSkipsRest(r, total) ==
  /\ booked' = IF row[r].filled > 0 THEN booked
               ELSE [booked EXCEPT ![Watched] = @ + total]
  /\ pos' = [status |-> "closed", closing |-> FALSE, limit |-> NoOrder,
             received |-> IF row[r].filled > 0 THEN pos.received ELSE total]
  /\ row' = [row EXCEPT ![r].filled = total, ![r].remaining = 0, ![r].status = "filled"]

BookFinal(r, total) ==
  LET received == poll.received + NewFill(r, total) IN
  /\ booked' = [booked EXCEPT ![Watched] = @ + NewFill(r, total)]
  /\ pos' = [status |-> "closed", closing |-> FALSE, limit |-> NoOrder,
             received |-> IF received = 0 THEN total
                          ELSE IF NewFill(r, total) = 0 THEN pos.received ELSE received]
  /\ row' = [row EXCEPT ![r].filled = total, ![r].remaining = 0, ![r].status = "filled"]

MonComplete ==
  /\ pc[Monitor] = "apply"
  /\ poll.st = "filled"
  /\ \E r \in OrderId : row[r].oid = Watched /\ BookFinal(r, poll.filled)
  /\ MonDone
  /\ UNCHANGED <<exchange, hold, clearing, crashes>>

\* CANCELLED, EXPIRED and FAILED release the position; what the order filled
\* is not looked at.
MonRelease ==
  /\ pc[Monitor] = "apply"
  /\ poll.st = "cancelled"
  /\ \E r \in OrderId :
       row[r].oid = Watched /\ row' = [row EXCEPT ![r].status = "cancelled"]
  /\ pos' = FlagsCleared
  /\ MonDone
  /\ UNCHANGED <<exchange, booked, hold, clearing, crashes>>

\* An order still open: book its new fills, then, for an unfilled automatic
\* order past its timeout, reprice to the bid. A native edit keeps the order;
\* without one the order is cancelled and replaced.
MonOpen ==
  /\ pc[Monitor] = "apply"
  /\ poll.st = "open"
  /\ \E r \in OrderId :
       /\ row[r].oid = Watched
       /\ \/ BookPartial(r, poll.filled) /\ MonDone
          \/ /\ ~SupportsEdit /\ ~row[r].manual /\ poll.filled = 0
             /\ MonGoto("cancel") /\ UNCHANGED database
  /\ UNCHANGED <<exchange, hold, clearing, crashes>>

MonCancel ==
  /\ pc[Monitor] = "cancel"
  /\ \/ Withdraw(Watched) /\ MonGoto("check")
     \/ "lost_reply" \in Events /\ Withdraw(Watched) /\ MonDone
     \/ Terminal(Watched) /\ UNCHANGED exchange /\ MonGoto("check")
  /\ UNCHANGED <<database, hold, clearing, crashes>>

\* The fills of the cancelled order are looked up before it is replaced. A
\* client that answers a failed lookup with an empty UNKNOWN order reports no
\* fill.
MonCheck ==
  /\ pc[Monitor] = "check"
  /\ \E r \in OrderId :
       /\ row[r].oid = Watched
       /\ \/ /\ order[Watched].st = "filled"
             /\ BookFinal(r, order[Watched].filled)
             /\ MonDone
          \/ /\ order[Watched].st = "cancelled" /\ order[Watched].filled > 0
             /\ BookPartial(r, order[Watched].filled)
             /\ MonGoto("replace")
          \/ /\ order[Watched].filled = 0 \/ "masked_lookup" \in Events
             /\ MonGoto("replace") /\ UNCHANGED database
  /\ UNCHANGED <<exchange, hold, clearing, crashes>>

\* The row's remaining amount; the row's base amount, the whole position,
\* when there is none.
Replacement(r) == IF row[r].remaining > 0 THEN row[r].remaining ELSE Size

MonReplace ==
  /\ pc[Monitor] = "replace"
  /\ \E r \in OrderId :
       /\ row[r].oid = Watched
       /\ \/ /\ \E o \in OrderId : Accept(o, Replacement(r)) /\ Holding(Monitor, o)
             /\ MonGoto("placed")
             /\ UNCHANGED <<row, pos>>
          \/ /\ \/ "lost_reply" \in Events /\ \E o \in OrderId : Accept(o, Replacement(r))
                \/ UNCHANGED exchange
             /\ row' = [row EXCEPT ![r].status = "cancelled"]
             /\ pos' = FlagsCleared
             /\ MonDone
             /\ UNCHANGED hold
  /\ UNCHANGED <<booked, clearing, crashes>>

\* The row moves on to the new order; its filled_base_amount stays.
MonReplaceCommit ==
  /\ pc[Monitor] = "placed"
  /\ \E r \in OrderId :
       /\ row[r].oid = Watched
       /\ row' = [row EXCEPT ![r].oid = hold[Monitor], ![r].status = "pending"]
  /\ pos' = Restored([pos EXCEPT !.limit = hold[Monitor]])
  /\ MonDone /\ Holding(Monitor, NoOrder)
  /\ UNCHANGED <<exchange, booked, clearing, crashes>>

\* Rows of a position that is no longer open are marked; their orders are not
\* cancelled.
Sweep ==
  /\ pc[Monitor] = "idle"
  /\ pos.status # "open"
  /\ \E r \in OrderId : row[r].status \in {"pending", "partially_filled"}
  /\ row' = [r \in OrderId |-> IF row[r].status \in {"pending", "partially_filled"}
                               THEN [row[r] EXCEPT !.status = "orphaned"] ELSE row[r]]
  /\ UNCHANGED <<exchange, pos, booked, sessions, crashes>>

-------------------------------------------------------------------------------
(* Sessions are lost, what was committed and the exchange are not.          *)

Crash ==
  /\ crashes < MaxCrashes
  /\ crashes' = crashes + 1
  /\ pc' = [p \in Proc |-> IF p = Monitor THEN "boot" ELSE "idle"]
  /\ hold' = [p \in Proc |-> NoOrder]
  /\ seen' = [p \in Proc |-> NoOrder]
  /\ clearing' = {}
  /\ poll' = NoPoll
  /\ UNCHANGED <<exchange, database>>

Sell(s) ==
  \/ SellStart(s) \/ PanicStart(s) \/ SellLimitPlace(s) \/ SellLimitCommit(s) \/ SellDust(s)
  \/ SellMarketSubmit(s) \/ SellMarketFail(s) \/ SellConfirmed(s) \/ SellUnconfirmed(s)

Route(u) ==
  \/ UserLimitStart(u) \/ UserLimitPlace(u) \/ UserLimitCommit(u)
  \/ UserCancelOrder(u) \/ UserCancelCommit(u)

Monitoring ==
  \/ MonBoot \/ MonSnapshot \/ MonPoll \/ MonLoad \/ MonAbandon \/ MonComplete \/ MonRelease
  \/ MonOpen \/ MonCancel \/ MonCheck \/ MonReplace \/ MonReplaceCommit \/ Sweep

Next ==
  \/ \E o \in OrderId : ExchangeFill(o) \/ ExchangeExpire(o)
  \/ \E s \in Sellers : Sell(s)
  \/ \E u \in Users : Route(u)
  \/ CancelPosition
  \/ Monitoring
  \/ Crash

Spec == Init /\ [][Next]_vars

\* The monitor's loop runs every ten seconds for as long as the process does,
\* and the exchange does not fail the same call for ever.
Fairness ==
  /\ WF_vars(Monitoring)
  /\ SF_vars(MonPoll) /\ SF_vars(MonComplete) /\ SF_vars(MonRelease)

FairSpec == Spec /\ Fairness

-------------------------------------------------------------------------------
(* Properties.                                                              *)

\* The inductive invariant behind NoOverBooking. An order no row names yet has
\* no trades and nobody else knows it; a row's cumulative amount covers the
\* trades of the order it names; what the monitor polled lies between the
\* trades booked and what the exchange has filled.
Private(o) ==
  /\ booked[o] = 0
  /\ pos.limit # o /\ Watched # o
  /\ \A r \in OrderId : row[r].oid # o

UnplacedIsPrivate ==
  \A o \in OrderId : order[o].st = "none" =>
    Private(o) /\ order[o].filled = 0 /\ \A p \in Proc : hold[p] # o

HeldIsPrivate ==
  \A p \in Proc : hold[p] # NoOrder =>
    Private(hold[p]) /\ \A q \in Proc : hold[q] = hold[p] => q = p

Watching == {"boot_poll", "poll", "load", "apply", "cancel", "check", "replace", "placed"}

SessionsHold ==
  /\ \A p \in Proc : pc[p] \in {"placed", "await"} => hold[p] # NoOrder
  /\ pc[Monitor] \in Watching => Watched # NoOrder
  /\ pc[Monitor] \in {"boot", "idle", "boot_poll", "poll"} => poll.filled = 0

RowCovers ==
  \A r \in OrderId : row[r].oid # NoOrder => booked[row[r].oid] <= row[r].filled

OneRowPerOrder ==
  \A q, r \in OrderId : row[q].oid = row[r].oid /\ row[q].oid # NoOrder => q = r

PollBetween ==
  pc[Monitor] \in {"load", "apply"} =>
    booked[Watched] <= poll.filled /\ poll.filled <= order[Watched].filled

\* No fill is booked twice: the trades of an order never add up to more than
\* the exchange filled, whatever is polled late, applied after a crash or
\* carried over to a replacement (the deltas of limit_order_monitor.py).
NoOverBooking == \A o \in OrderId : booked[o] <= order[o].filled

BookingInv ==
  /\ UnplacedIsPrivate /\ HeldIsPrivate /\ SessionsHold
  /\ RowCovers /\ OneRowPerOrder /\ PollBetween /\ NoOverBooking

\* The ledger the close keeps (FillLedger): what the exchange filled of each
\* order is recorded at most once, in steps, and never taken back.
Ledger == INSTANCE FillLedger WITH filled <- [o \in OrderId |-> order[o].filled]
ImplementsLedger == Ledger!Spec

\* A row marked filled that never moved to a replacement stands for a close
\* that booked all of its order's fills, however many polls it took
\* (_process_partial_fills, _process_order_completion).
OwnOrderSettled ==
  \A o \in OrderId : row[o].oid = o /\ row[o].status = "filled" => booked[o] = order[o].filled

\* The same of every row, replacements included.
SettledInFull ==
  \A r \in OrderId : row[r].status = "filled" => booked[row[r].oid] = order[row[r].oid].filled

\* Until a crash, every order that can still fill is either the one an open
\* position names, flagged and with its row, or one whose session is about to
\* commit it: no order sells coins nobody will book.
LiveOrderTracked ==
  crashes = 0 =>
    \A o \in OrderId : order[o].st = "open" =>
      \/ \E p \in Proc : hold[p] = o
      \/ /\ pos.status = "open" /\ pos.closing /\ pos.limit = o
         /\ \E r \in OrderId : row[r].oid = o

\* Never two sell orders of one position alive at once.
NoDuplicateSell ==
  \A o, q \in OrderId : order[o].st = "open" /\ order[q].st = "open" => o = q

\* A closed position is final: no later step books a trade for it or rewrites
\* its status and proceeds.
ClosedIsFinal == [][pos.status = "closed" => UNCHANGED <<pos, booked>>]_vars

\* A tracked order that reached a terminal state does not hold the position
\* for ever: it is closed, or released for another close.
TerminalIsSettled ==
  \A o \in OrderId :
    (pos.status = "open" /\ pos.closing /\ pos.limit = o /\ Terminal(o))
      ~> ~(pos.status = "open" /\ pos.closing /\ pos.limit = o)

\* A limit close that fills while its own row tracks it ends closed with the
\* whole fill booked, crashes included.
FilledIsBooked ==
  \A o \in OrderId :
    (pos.status = "open" /\ pos.limit = o /\ row[o].oid = o /\ order[o].st = "filled")
      ~> (pos.status = "closed" /\ booked[o] = order[o].filled)

Sum(f) == LET add[n \in 0..MaxOrders] == IF n = 0 THEN 0 ELSE f[n] + add[n - 1]
          IN  add[MaxOrders]

\* A new order asks for no more than what the trades booked so far leave of
\* the position: it does not sell the coins of other positions.
OrderWithinRest ==
  \A o \in OrderId : order[o].st = "open" /\ order[o].filled = 0 => order[o].size <= Size - Sum(booked)

===============================================================================
