------------------------------ MODULE DealBuying ------------------------------
(***************************************************************************)
(* Opening deals and adding to them: the pair tasks of the bots, each with *)
(* its own database session, from the per-bot lock around the deal count,  *)
(* through the balance check and the market or limit buy, to the commit of *)
(* the position and its trade, beside the in-flight barrier of a shutdown. *)
(*                                                                         *)
(* An order costs Cost units of the quote currency and the price is one.   *)
(***************************************************************************)
EXTENDS Integers, FiniteSets, ShutdownManager

CONSTANTS
  Bots, Pairs,
  NoTask,
  MaxDeals,    \* max_concurrent_deals, of every bot
  Funds,       \* quote currency the account starts with
  Cost,        \* quote amount of an order
  MaxAttempts, \* bound: Position rows
  MaxOrders,   \* bound: orders placed
  MaxCrashes,  \* bound: crashes of the backend
  LimitBots,   \* bots whose base_execution_type is "limit"
  Events       \* which of the optional events below may happen

AllEvents == {"lost_reply",  \* an order is accepted but its reply is lost
              "expire",      \* the exchange cancels an order with part of it filled
              "give_up",     \* the lookups of a fill run out before they confirm it
              "close",       \* another session closes the position
              "cancel_shutdown"}

Task == Bots \X Pairs

ASSUME BoundsAssumption ==
  /\ MaxDeals \in Nat \ {0} /\ Funds \in Nat /\ Cost \in Nat \ {0}
  /\ MaxAttempts \in Nat \ {0} /\ MaxOrders \in Nat \ {0} /\ MaxCrashes \in Nat
ASSUME TasksAssumption == IsFiniteSet(Bots) /\ IsFiniteSet(Pairs) /\ NoTask \notin Task
ASSUME EventsAssumption == LimitBots \subseteq Bots /\ Events \subseteq AllEvents

DealId  == 1..MaxAttempts
OrderId == 1..MaxOrders
None    == 0

VARIABLES
  order,   \* the exchange's orders: status, size and filled amount
  funds,   \* quote currency available for a new order
  deal,    \* committed Position rows
  trade,   \* committed Trade rows, by order_id
  task,    \* the pair tasks: where each stands and what its session holds
  lock,    \* _bot_position_locks
  crashes

exchange == <<order, funds>>
database == <<deal, trade>>
vars     == <<exchange, database, task, lock, crashes, shutdown>>

Order == [st : {"none", "open", "filled", "cancelled"}, size : Nat, filled : Nat]
Deal  == [st : {"none", "open", "failed", "closed"}, of : Task \cup {NoTask},
          attempt : Nat, spent : Nat]
Trade == [deal : DealId \cup {None}, initial : BOOLEAN, amount : Nat]
Where == {"idle", "gate", "count", "decide", "create", "execute", "send", "fill",
          "book", "unconfirmed", "undo", "limit_send", "limit"}
TaskState == [at : Where, new : BOOLEAN, deal : DealId \cup {None}, attempt : Nat,
              order : OrderId \cup {None}, fill : Nat]

NoTrade == [deal |-> None, initial |-> FALSE, amount |-> 0]
Idle == [at |-> "idle", new |-> FALSE, deal |-> None, attempt |-> 0, order |-> None, fill |-> 0]

TypeOK ==
  /\ order \in [OrderId -> Order] /\ funds \in Nat
  /\ deal \in [DealId -> Deal]
  /\ trade \in [OrderId -> Trade]
  /\ task \in [Task -> TaskState]
  /\ lock \in [Bots -> Task \cup {NoTask}]
  /\ crashes \in Nat
  /\ ShutdownTypeOK

Init ==
  /\ order = [o \in OrderId |-> [st |-> "none", size |-> 0, filled |-> 0]]
  /\ funds = Funds
  /\ deal = [d \in DealId |-> [st |-> "none", of |-> NoTask, attempt |-> 0, spent |-> 0]]
  /\ trade = [o \in OrderId |-> NoTrade]
  /\ task = [t \in Task |-> Idle]
  /\ lock = [b \in Bots |-> NoTask]
  /\ crashes = 0
  /\ ShutdownInit

-------------------------------------------------------------------------------
(* The exchange.                                                            *)

Terminal(o) == order[o].st \in {"filled", "cancelled"}

Accept(o) ==
  /\ order[o].st = "none"
  /\ \A q \in 1..(o - 1) : order[q].st # "none"
  /\ Cost <= funds
  /\ order' = [order EXCEPT ![o] = [st |-> "open", size |-> Cost, filled |-> 0]]
  /\ funds' = funds - Cost

Withdraw(o) ==
  /\ order[o].st = "open"
  /\ order' = [order EXCEPT ![o].st = "cancelled"]
  /\ funds' = funds + (order[o].size - order[o].filled)

ExchangeFill(o) ==
  /\ order[o].st = "open"
  /\ \E n \in 1..(order[o].size - order[o].filled) :
       order' = [order EXCEPT ![o].filled = @ + n,
                   ![o].st = IF order[o].filled + n = order[o].size THEN "filled" ELSE "open"]
  /\ UNCHANGED <<funds, database, task, lock, crashes, shutdown>>

ExchangeExpire(o) ==
  /\ "expire" \in Events
  /\ Withdraw(o)
  /\ UNCHANGED <<database, task, lock, crashes, shutdown>>

-------------------------------------------------------------------------------
(* A pair task up to its decision to buy.                                   *)

Goto(t, where) == task' = [task EXCEPT ![t].at = where]
Done(t)        == task' = [task EXCEPT ![t] = Idle]

OpenDeals(b)   == {d \in DealId : deal[d].st = "open" /\ deal[d].of[1] = b}
PairDeals(t)   == {d \in DealId : deal[d].st = "open" /\ deal[d].of = t}

\* Bound: a row is left for every task that may create one.
RowsLeft == Cardinality({d \in DealId : deal[d].st = "none"})
              > Cardinality({t \in Task : task[t].new})

\* The positions of the pair are loaded: without one the task tries to open a
\* deal, with one it may add to it once it holds coins.
CycleMutantBlind(t) ==
  /\ task[t].at = "idle"
  /\ RowsLeft
  /\ task' = [task EXCEPT ![t].at = "gate", ![t].new = TRUE]
  /\ UNCHANGED <<exchange, database, lock, crashes, shutdown>>

Cycle(t) ==
  /\ task[t].at = "idle"
  /\ \/ /\ PairDeals(t) = {} /\ RowsLeft
        /\ task' = [task EXCEPT ![t].at = "gate", ![t].new = TRUE]
     \/ \E d \in PairDeals(t) :
          /\ deal[d].spent > 0
          /\ task' = [task EXCEPT ![t].at = "decide", ![t].deal = d]
  /\ UNCHANGED <<exchange, database, lock, crashes, shutdown>>

AcquireLock(t) ==
  /\ task[t].at = "gate"
  /\ lock[t[1]] = NoTask
  /\ lock' = [lock EXCEPT ![t[1]] = t]
  /\ Goto(t, "count")
  /\ UNCHANGED <<exchange, database, crashes, shutdown>>

\* The count is read again under the lock, which is released before the
\* position exists.
CountDealsMutantKeepsLock(t) ==
  /\ task[t].at = "count"
  /\ IF Cardinality(OpenDeals(t[1])) < MaxDeals
       THEN Goto(t, "decide") /\ lock' = [lock EXCEPT ![t[1]] = NoTask]
       ELSE Done(t) /\ UNCHANGED lock
  /\ UNCHANGED <<exchange, database, crashes, shutdown>>

CountDeals(t) ==
  /\ task[t].at = "count"
  /\ IF Cardinality(OpenDeals(t[1])) < MaxDeals THEN Goto(t, "decide") ELSE Done(t)
  /\ lock' = [lock EXCEPT ![t[1]] = NoTask]
  /\ UNCHANGED <<exchange, database, crashes, shutdown>>

\* The cooldown, the blacklist, the strategy, the size validation, or a balance
\* that is short or cannot be read: the task holds.
Hold(t) ==
  /\ task[t].at = "decide"
  /\ Done(t)
  /\ UNCHANGED <<exchange, database, lock, crashes, shutdown>>

CheckBalance(t) ==
  /\ task[t].at = "decide"
  /\ Cost <= funds
  /\ Goto(t, IF task[t].new THEN "create" ELSE "execute")
  /\ UNCHANGED <<exchange, database, lock, crashes, shutdown>>

Latest == {deal[d].attempt : d \in DealId}

\* The row is flushed, not committed: no other session sees it. Its attempt
\* number is the largest committed one plus one.
CreatePosition(t) ==
  /\ task[t].at = "create"
  /\ \E d \in DealId :
       /\ deal[d].st = "none" /\ \A u \in Task : task[u].deal # d
       /\ \A e \in 1..(d - 1) : deal[e].st # "none" \/ \E u \in Task : task[u].deal = e
       /\ \E n \in Latest :
            /\ \A m \in Latest : m <= n
            /\ task' = [task EXCEPT ![t].at = "execute", ![t].deal = d, ![t].attempt = n + 1]
  /\ UNCHANGED <<exchange, database, lock, crashes, shutdown>>

-------------------------------------------------------------------------------
(* The buy executor.                                                        *)

\* What a commit makes of the task's position, whose row may be a new one.
Written(t, status, spent) ==
  IF task[t].new
    THEN [st |-> status, of |-> t, attempt |-> task[t].attempt, spent |-> spent]
    ELSE [deal[task[t].deal] EXCEPT !.spent = @ + spent]

Committed(t, status, spent) ==
  deal' = [deal EXCEPT ![task[t].deal] = Written(t, status, spent)]

\* The caller's handler: a new position is marked failed, an add is dropped.
FailedMutantStatus(t) == Committed(t, "cancelled", 0) /\ Done(t)

Failed(t) == Committed(t, "failed", 0) /\ Done(t)

\* Slippage, order validation, or a shutdown under way.
Refuse(t) ==
  /\ task[t].at = "execute"
  /\ Failed(t)
  /\ UNCHANGED <<exchange, trade, lock, crashes, shutdown>>

LimitBase(t) == t[1] \in LimitBots /\ task[t].new

MarketBuy(t) ==
  /\ task[t].at = "execute"
  /\ ~LimitBase(t)
  /\ IncrementInFlight
  /\ Goto(t, "send")
  /\ UNCHANGED <<exchange, database, lock, crashes>>

OrderAccepted(t) ==
  /\ task[t].at = "send"
  /\ \E o \in OrderId :
       /\ Accept(o)
       /\ task' = [task EXCEPT ![t].at = "fill", ![t].order = o]
  /\ UNCHANGED <<database, lock, crashes, shutdown>>

\* An error of the submission commits the session before it is raised, and
\* with it the new position, still open.
RaiseWithCommit(t) ==
  /\ Committed(t, "open", 0)
  /\ IF task[t].new THEN Goto(t, "undo") ELSE Done(t)

OrderFailed(t) ==
  /\ task[t].at = "send"
  /\ \/ "lost_reply" \in Events /\ \E o \in OrderId : Accept(o)
     \/ UNCHANGED exchange
  /\ RaiseWithCommit(t)
  /\ DecrementInFlight
  /\ UNCHANGED <<trade, lock, crashes>>

\* A fill counts once the order is done filling.
ConfirmMutantMidFill(t) ==
  /\ task[t].at = "fill"
  /\ order[task[t].order].filled > 0
  /\ task' = [task EXCEPT ![t].at = "book", ![t].fill = order[task[t].order].filled]
  /\ DecrementInFlight
  /\ UNCHANGED <<exchange, database, lock, crashes>>

Confirm(t) ==
  /\ task[t].at = "fill"
  /\ Terminal(task[t].order) /\ order[task[t].order].filled > 0
  /\ task' = [task EXCEPT ![t].at = "book", ![t].fill = order[task[t].order].filled]
  /\ DecrementInFlight
  /\ UNCHANGED <<exchange, database, lock, crashes>>

GiveUp(t) ==
  /\ task[t].at = "fill"
  /\ "give_up" \in Events \/ (Terminal(task[t].order) /\ order[task[t].order].filled = 0)
  /\ Goto(t, "unconfirmed")
  /\ DecrementInFlight
  /\ UNCHANGED <<exchange, database, lock, crashes>>

\* Best-effort cancel, the error committed, then raised.
HandleUnconfirmed(t) ==
  /\ task[t].at = "unconfirmed"
  /\ Withdraw(task[t].order) \/ UNCHANGED exchange
  /\ RaiseWithCommit(t)
  /\ UNCHANGED <<trade, lock, crashes, shutdown>>

UndoMutantForgets(t) ==
  /\ task[t].at = "undo"
  /\ Done(t)
  /\ UNCHANGED <<exchange, database, lock, crashes, shutdown>>

Undo(t) ==
  /\ task[t].at = "undo"
  /\ Failed(t)
  /\ UNCHANGED <<exchange, trade, lock, crashes, shutdown>>

\* Books what was asked for instead of what the lookup confirmed.
BookTradeMutantAsked(t) ==
  /\ task[t].at = "book"
  /\ trade' = [trade EXCEPT ![task[t].order] =
                  [deal |-> task[t].deal, initial |-> task[t].new, amount |-> Cost]]
  /\ Committed(t, "open", Cost)
  /\ Done(t)
  /\ UNCHANGED <<exchange, lock, crashes, shutdown>>

BookTrade(t) ==
  /\ task[t].at = "book"
  /\ trade' = [trade EXCEPT ![task[t].order] =
                  [deal |-> task[t].deal, initial |-> task[t].new, amount |-> task[t].fill]]
  /\ Committed(t, "open", task[t].fill)
  /\ Done(t)
  /\ UNCHANGED <<exchange, lock, crashes, shutdown>>

\* A limit base order is placed outside the barrier, after one look at the
\* flag, and recorded in pending_orders with the position.
LimitStart(t) ==
  /\ task[t].at = "execute"
  /\ LimitBase(t)
  /\ ~shuttingDown
  /\ Goto(t, "limit_send")
  /\ UNCHANGED <<exchange, database, lock, crashes, shutdown>>

LimitBuy(t) ==
  /\ task[t].at = "limit_send"
  /\ \/ \E o \in OrderId :
          Accept(o) /\ task' = [task EXCEPT ![t].at = "limit", ![t].order = o] /\ UNCHANGED deal
     \/ /\ \/ "lost_reply" \in Events /\ \E o \in OrderId : Accept(o)
           \/ UNCHANGED exchange
        /\ Failed(t)
  /\ UNCHANGED <<trade, lock, crashes, shutdown>>

LimitCommit(t) ==
  /\ task[t].at = "limit"
  /\ Committed(t, "open", 0)
  /\ Done(t)
  /\ UNCHANGED <<exchange, trade, lock, crashes, shutdown>>

-------------------------------------------------------------------------------
(* Around the tasks.                                                        *)

\* The closing side sells what the deal holds.
Close(d) ==
  /\ "close" \in Events
  /\ deal[d].st = "open" /\ deal[d].spent > 0
  /\ deal' = [deal EXCEPT ![d].st = "closed"]
  /\ funds' = funds + deal[d].spent
  /\ UNCHANGED <<order, trade, task, lock, crashes, shutdown>>

ShuttingDown ==
  /\ \/ \E r \in Requests : PrepareShutdown(r) \/ Answer(r) \/ TimeOut(r)
     \/ "cancel_shutdown" \in Events /\ CancelShutdown
  /\ UNCHANGED <<exchange, database, task, lock, crashes>>

Crash ==
  /\ crashes < MaxCrashes
  /\ crashes' = crashes + 1
  /\ task' = [t \in Task |-> Idle]
  /\ lock' = [b \in Bots |-> NoTask]
  /\ shuttingDown' = FALSE /\ inFlight' = 0
  /\ reply' = [r \in Requests |-> "none"]
  /\ UNCHANGED <<exchange, database>>

\* What the order reconciliation monitor writes to: an open deal without coins
\* that has its first trade, of amount zero, and an order that filled. Its
\* detector of missing orders writes to nothing.
Correctable(o) ==
  LET row == trade[o] IN
  /\ row.deal # None /\ row.initial /\ row.amount = 0
  /\ deal[row.deal].st = "open" /\ deal[row.deal].spent = 0
  /\ Terminal(o) /\ order[o].filled > 0

Deciding(t) == AcquireLock(t) \/ CountDeals(t) \/ Hold(t) \/ CheckBalance(t) \/ CreatePosition(t)
Buying(t) ==
  \/ Refuse(t) \/ MarketBuy(t) \/ OrderAccepted(t) \/ OrderFailed(t) \/ Confirm(t) \/ GiveUp(t)
  \/ HandleUnconfirmed(t) \/ Undo(t) \/ BookTrade(t) \/ LimitStart(t) \/ LimitBuy(t) \/ LimitCommit(t)

Next ==
  \/ \E o \in OrderId : ExchangeFill(o) \/ ExchangeExpire(o)
  \/ \E t \in Task : Cycle(t) \/ Deciding(t) \/ Buying(t)
  \/ \E d \in DealId : Close(d)
  \/ ShuttingDown
  \/ Crash

Spec == Init /\ [][Next]_vars

\* A task is a coroutine that resumes when its await ends, the lock is served
\* in the order it is asked for, and a market order is matched or expires.
Fairness ==
  /\ \A t \in Task : WF_vars(Deciding(t) \/ Buying(t)) /\ SF_vars(AcquireLock(t))
  /\ \A o \in OrderId : WF_vars(ExchangeFill(o))
  /\ \A r \in Requests : WF_vars(Answer(r) /\ UNCHANGED <<exchange, database, task, lock, crashes>>)

FairSpec == Spec /\ Fairness

-------------------------------------------------------------------------------
(* Properties.                                                              *)

\* A bot never has more deals open than max_concurrent_deals.
MaxDealsRespected == \A b \in Bots : Cardinality(OpenDeals(b)) <= MaxDeals

\* A bot has at most one open deal on a pair, whichever attempts failed, were
\* cut short by a crash or are still under way.
OneDealPerPair ==
  \A t \in Task : \A d, e \in PairDeals(t) : d = e

\* A trade stands for all its order filled: none is booked while the order is
\* still filling, and none again after it (fill_reconciler's terminal statuses).
TradesAreComplete ==
  \A o \in OrderId : trade[o] # NoTrade => Terminal(o) /\ trade[o].amount = order[o].filled

\* The trades of the buys keep the ledger the trades of the sells keep.
Ledger == INSTANCE FillLedger
            WITH filled <- [o \in OrderId |-> order[o].filled], booked <- [o \in OrderId |-> trade[o].amount]
ImplementsLedger == Ledger!Spec

\* Until a crash, open deals without coins exist only while their task is still
\* at work on them (or wait for the limit order of their bot): a failed first
\* buy leaves none that keeps its slot.
NoEmptyDeal ==
  crashes = 0 =>
    \A d \in DealId :
      deal[d].st = "open" /\ deal[d].spent = 0 /\ deal[d].of[1] \notin LimitBots
        => \E t \in Task : task[t].deal = d

\* A shutdown that was told it is ready runs beside no order whose submission
\* or fill is being awaited, and none starts, however many requests there are
\* and whichever were cancelled.
InBarrier(t) == task[t].at \in {"send", "fill"}
Ready == shuttingDown /\ \E r \in Requests : reply[r] = "ready"
BarrierHolds == Ready => \A t \in Task : ~InBarrier(t)

\* A shutdown that was told it is ready interrupts no order: what the orders of
\* the tasks filled is recorded already (ShutdownManager, ARCHITECTURE.md).
ReadyIsRecorded ==
  Ready => \A t \in Task : LET o == task[t].order IN
             o # None => Terminal(o) /\ trade[o].amount = order[o].filled

\* A fill that settles after its task gave the lookups up is booked, or is one
\* the order reconciliation monitor corrects (fill_reconciler's promise).
SettledIsCorrected ==
  \A o \in OrderId :
    order[o].st = "filled" /\ (\A t \in Task : task[t].order # o)
      => trade[o].amount = order[o].filled \/ Correctable(o)

\* Every pair task finishes: the lock and the barrier hold none for ever.
TaskFinishes == \A t \in Task : task[t].at # "idle" ~> task[t].at = "idle"

\* A shutdown that waits is answered by the last order to finish, without its
\* timeout, unless it is cancelled; a request made beside it changes nothing.
WaiterAnswered == \A r \in Requests : reply[r] = "waiting" ~> reply[r] # "waiting"

\* prepare_shutdown "returns status when safe to shutdown". A request that was
\* woken and whose shutdown is cancelled before it goes on is told so all the
\* same, whatever has started since.
NeverStale == \A r \in Requests : reply[r] # "stale"

===============================================================================
