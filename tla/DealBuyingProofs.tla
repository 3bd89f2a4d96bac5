--------------------------- MODULE DealBuyingProofs ---------------------------
(* For any set of bots, pairs and requests and any bounds: the trades of the *)
(* buys are complete, a pair has one deal, a failed first buy leaves no      *)
(* empty deal, and the barrier of the shutdown holds.                        *)
EXTENDS DealBuying, FiniteSetTheorems, TLAPS

(* None of these is inductive alone. The trades need that an order is held   *)
(* by one task, which has booked nothing of it yet; the deals, that a task's *)
(* uncommitted row is its own and its pair has no other; the barrier, that   *)
(* the count is the number of tasks inside.                                  *)

\* What a task record says of the order it holds.
HoldsOrder(s) ==
  /\ s.order # None => order[s.order].st # "none" /\ trade[s.order] = NoTrade
  /\ s.at \in {"fill", "unconfirmed", "book"} => s.order # None
  /\ s.at = "book" => /\ Terminal(s.order) /\ s.fill = order[s.order].filled
                      /\ s.fill > 0

FillsOK ==
  \A o \in OrderId : /\ order[o].filled <= order[o].size
                     /\ order[o].st = "none" => order[o].filled = 0

OrdersOK ==
  /\ FillsOK
  /\ TradesAreComplete
  /\ \A t \in Task : HoldsOrder(task[t])
  /\ \A t, u \in Task : task[t].order = task[u].order /\ task[t].order # None => t = u

\* What task t knows of the position it works on.
HoldsDeal(t, s) ==
  /\ s.at = "idle" => s = Idle
  /\ s.at # "idle" /\ ~s.new => s.deal # None
  /\ s.new /\ s.at \notin {"gate", "count", "decide", "create"} => s.deal # None
  /\ s.at = "create" => s.new
  /\ s.at \in {"limit_send", "limit"} => s.new /\ t[1] \in LimitBots
  /\ ~s.new /\ s.deal # None => deal[s.deal].of = t /\ deal[s.deal].spent > 0
                                /\ deal[s.deal].st \in {"open", "closed"}
  /\ s.new /\ s.at # "undo" => /\ PairDeals(t) = {}
                               /\ s.deal # None => deal[s.deal].st = "none"
  /\ s.new /\ s.at = "undo" => /\ PairDeals(t) = {s.deal}
                               /\ deal[s.deal].spent = 0

DealsOK ==
  /\ \A d \in DealId : deal[d].st = "open" => deal[d].of \in Task
  /\ OneDealPerPair
  /\ NoEmptyDeal
  /\ \A t \in Task : HoldsDeal(t, task[t])
  /\ \A t, u \in Task : task[t].deal = task[u].deal /\ task[t].deal # None => t = u

Barred == {t \in Task : InBarrier(t)}

BarrierOK ==
  /\ inFlight = Cardinality(Barred)
  /\ \A r \in Requests : reply[r] \in {"woken", "ready"} => shuttingDown /\ inFlight = 0

IInv == TypeOK /\ OrdersOK /\ DealsOK /\ BarrierOK


Moved(t, s) == task' = [task EXCEPT ![t] = s]

\* A task moved to s is at s, and every other where it was.
LEMMA MovedIs ==
  ASSUME TypeOK, NEW t \in Task, NEW s \in TaskState, Moved(t, s)
  PROVE  /\ task' \in [Task -> TaskState]
         /\ task'[t] = s
         /\ \A u \in Task : u # t => task'[u] = task[u]
  BY DEF TypeOK, Moved

\* The records the actions move a task to.
LEMMA IdleIs == Idle \in TaskState /\ Idle.at = "idle" /\ ~Idle.new /\ Idle.deal = None
                /\ Idle.order = None
  BY DEF Idle, TaskState, Where, None

\* A task elsewhere is still a task record.
LEMMA GotoIs ==
  ASSUME TypeOK, NEW t \in Task, NEW w \in Where
  PROVE  [task[t] EXCEPT !.at = w] \in TaskState
  BY DEF TypeOK, TaskState

------------------------------------------------------------------------------
(* Orders                                                                    *)

\* An order that is over stays as it is; no order is taken back.
Grown ==
  /\ order' \in [OrderId -> Order]
  /\ FillsOK'
  /\ \A o \in OrderId : /\ order[o].st # "none" => order'[o].st # "none"
                        /\ Terminal(o) => order'[o] = order[o]

\* Orders left alone have not shrunk.
LEMMA SameGrown == ASSUME TypeOK, FillsOK, order' = order PROVE Grown
  BY DEF Grown, TypeOK, FillsOK

\* The exchange accepts an order.
LEMMA AcceptGrown ==
  ASSUME TypeOK, FillsOK, NEW o \in OrderId, Accept(o)
  PROVE  Grown /\ funds' \in Nat /\ order'[o].st = "open"
  BY BoundsAssumption DEF Grown, TypeOK, FillsOK, Accept, Order, Terminal

\* The exchange withdraws an order.
LEMMA WithdrawGrown ==
  ASSUME TypeOK, FillsOK, NEW o \in OrderId, Withdraw(o)
  PROVE  Grown /\ funds' \in Nat
  BY DEF Grown, TypeOK, FillsOK, Withdraw, Order, Terminal

\* The exchange fills an order by more.
LEMMA FillGrown ==
  ASSUME TypeOK, FillsOK, NEW o \in OrderId, ExchangeFill(o)
  PROVE  Grown /\ order'[o].filled > order[o].filled
  <1>1. PICK n \in 1..(order[o].size - order[o].filled) :
          order' = [order EXCEPT ![o].filled = @ + n,
                      ![o].st = IF order[o].filled + n = order[o].size THEN "filled" ELSE "open"]
    BY DEF ExchangeFill
  <1>2. order[o].st = "open" /\ order[o].filled \in Nat /\ order[o].size \in Nat
        /\ order[o] \in Order
    BY DEF ExchangeFill, TypeOK, Order
  <1>3. order'[o] = [st |-> IF order[o].filled + n = order[o].size THEN "filled" ELSE "open",
                     size |-> order[o].size, filled |-> order[o].filled + n]
    BY <1>1, <1>2 DEF TypeOK, Order
  <1>4. \A q \in OrderId : q # o => order'[q] = order[q]
    BY <1>1 DEF TypeOK
  <1>5. order'[o] \in Order /\ order'[o].filled <= order'[o].size /\ order'[o].st # "none"
    BY <1>2, <1>3 DEF Order
  <1>6. order' \in [OrderId -> Order]
    <2>1. DOMAIN order' = OrderId /\ order' = [q \in OrderId |-> order'[q]]
      BY <1>1 DEF TypeOK
    <2> QED BY <2>1, <1>4, <1>5 DEF TypeOK
  <1>7. FillsOK'
    BY <1>4, <1>5 DEF FillsOK
  <1> QED BY <1>2, <1>3, <1>4, <1>5, <1>6, <1>7 DEF Grown, Terminal

\* A task holds its order as before when orders only grow.
LEMMA HeldStill ==
  ASSUME TypeOK, Grown, trade' = trade, NEW s \in TaskState, HoldsOrder(s)
  PROVE  HoldsOrder(s)'
  BY DEF HoldsOrder, Grown, Terminal, TaskState, OrderId, None

\* The trades are complete as before when orders only grow.
LEMMA TradesStill ==
  ASSUME TypeOK, TradesAreComplete, Grown, trade' = trade
  PROVE  TradesAreComplete'
  BY DEF TradesAreComplete, Grown, Terminal

\* No task moves, and orders only grow.
LEMMA OrdersStill ==
  ASSUME TypeOK, OrdersOK, Grown, trade' = trade, task' = task
  PROVE  OrdersOK'
  <1>1. \A t \in Task : HoldsOrder(task[t])'
    BY HeldStill DEF OrdersOK, TypeOK, HoldsOrder
  <1> QED BY <1>1, TradesStill DEF OrdersOK, Grown

\* A task moves on, with the order it held, none, or one nobody held.
LEMMA OrdersMoved ==
  ASSUME TypeOK, OrdersOK, Grown, trade' = trade,
         NEW t \in Task, NEW s \in TaskState, Moved(t, s), HoldsOrder(s)',
         s.order = task[t].order \/ s.order = None \/ order[s.order].st = "none"
  PROVE  OrdersOK'
  <1>1. \A u \in Task : HoldsOrder(task[u])'
    <2> SUFFICES ASSUME NEW u \in Task PROVE HoldsOrder(task[u])'
      OBVIOUS
    <2>1. CASE u = t
      BY <2>1, MovedIs DEF HoldsOrder
    <2>2. CASE u # t
      <3>1. HoldsOrder(task[u]) /\ task[u] \in TaskState
        BY DEF OrdersOK, TypeOK
      <3>2. task'[u] = task[u]
        BY <2>2, MovedIs
      <3> QED BY <3>1, <3>2, HeldStill DEF HoldsOrder
    <2> QED BY <2>1, <2>2
  <1>2. \A u, v \in Task : task'[u].order = task'[v].order /\ task'[u].order # None => u = v
    <2>1. \A u \in Task : u # t /\ task[u].order # None => order[task[u].order].st # "none"
      BY DEF OrdersOK, HoldsOrder
    <2> QED BY <2>1, MovedIs DEF OrdersOK
  <1> QED BY <1>1, <1>2, TradesStill DEF OrdersOK, Grown

\* The same while the exchange does nothing.
LEMMA OrdersKept ==
  ASSUME TypeOK, OrdersOK, order' = order, trade' = trade,
         NEW t \in Task, NEW s \in TaskState, Moved(t, s), HoldsOrder(s),
         s.order = task[t].order \/ s.order = None
  PROVE  OrdersOK'
  <1>1. Grown
    BY SameGrown DEF OrdersOK
  <1>2. HoldsOrder(s)'
    BY <1>1, HeldStill
  <1> QED BY <1>1, <1>2, OrdersMoved

------------------------------------------------------------------------------
(* Deals                                                                     *)

\* The open deals of a pair.
LEMMA PairDealsAre ==
  ASSUME TypeOK, NEW t \in Task, NEW d
  PROVE  d \in PairDeals(t) <=> d \in DealId /\ deal[d].st = "open" /\ deal[d].of = t
  BY DEF PairDeals

\* A task that lets go of a position leaves it with coins, or not open.
LetsGo(t, s) ==
  s.deal # task[t].deal /\ task[t].deal # None =>
    \/ deal[task[t].deal].st # "open"
    \/ deal[task[t].deal].spent > 0

\* A task moves while no deal changes.
LEMMA DealsMoved ==
  ASSUME TypeOK, DealsOK, deal' = deal, crashes' = crashes,
         NEW t \in Task, NEW s \in TaskState, Moved(t, s), HoldsDeal(t, s), LetsGo(t, s),
         \/ s.deal = task[t].deal
         \/ s.deal = None
         \/ \A u \in Task \ {t} : task[u].deal # s.deal
  PROVE  DealsOK'
  <1>1. \A u \in Task : PairDeals(u)' = PairDeals(u)
    BY DEF PairDeals
  <1>2. \A u \in Task : HoldsDeal(u, task[u])'
    <2> SUFFICES ASSUME NEW u \in Task PROVE HoldsDeal(u, task[u])'
      OBVIOUS
    <2>1. task'[u] = IF u = t THEN s ELSE task[u]
      BY MovedIs
    <2>2. HoldsDeal(u, task'[u])
      BY <2>1 DEF DealsOK
    <2> QED BY <1>1, <2>2 DEF HoldsDeal
  <1>3. \A u, v \in Task : task'[u].deal = task'[v].deal /\ task'[u].deal # None => u = v
    BY MovedIs DEF DealsOK
  <1>4. OneDealPerPair'
    BY <1>1 DEF DealsOK, OneDealPerPair
  <1>5. NoEmptyDeal'
    <2> SUFFICES ASSUME crashes' = 0, NEW d \in DealId,
                        deal[d].st = "open", deal[d].spent = 0, deal[d].of[1] \notin LimitBots
                 PROVE  \E u \in Task : task'[u].deal = d
      BY DEF NoEmptyDeal
    <2>1. PICK u \in Task : task[u].deal = d
      BY DEF DealsOK, NoEmptyDeal
    <2>2. CASE u # t
      BY <2>1, <2>2, MovedIs
    <2>3. CASE u = t
      <3>1. d # None
        BY DEF DealId, None
      <3>2. s.deal = d
        BY <2>1, <2>3, <3>1 DEF LetsGo
      <3> QED BY <2>3, <3>2, MovedIs
    <2> QED BY <2>2, <2>3
  <1> QED BY <1>2, <1>3, <1>4, <1>5 DEF DealsOK

\* Neither a task nor a deal changes.
LEMMA DealsStill ==
  ASSUME TypeOK, DealsOK, deal' = deal, crashes' = crashes, task' = task
  PROVE  DealsOK'
  BY DEF DealsOK, OneDealPerPair, NoEmptyDeal, HoldsDeal, PairDeals

\* A commit changes the deal of its task, and no other.
LEMMA CommittedIs ==
  ASSUME TypeOK, NEW t \in Task, task[t].deal \in DealId,
         NEW status, NEW spent, Committed(t, status, spent)
  PROVE  /\ DOMAIN deal' = DealId /\ deal' = [e \in DealId |-> deal'[e]]
         /\ deal'[task[t].deal] = Written(t, status, spent)
         /\ \A e \in DealId : e # task[t].deal => deal'[e] = deal[e]
  BY DEF Committed, TypeOK

\* A position that is added to gets coins or keeps those it has.
LEMMA AddCommitted ==
  ASSUME TypeOK, DealsOK, crashes' = crashes,
         NEW t \in Task, ~task[t].new, task[t].at # "idle",
         NEW status, NEW spent \in Nat, Committed(t, status, spent), Moved(t, Idle)
  PROVE  DealsOK' /\ deal' \in [DealId -> Deal]
  <1> DEFINE d == task[t].deal
  <1>1. /\ d \in DealId /\ deal[d] \in Deal /\ deal[d].of = t /\ deal[d].spent > 0
        /\ deal[d].st \in {"open", "closed"}
    <2>1. HoldsDeal(t, task[t]) /\ task[t] \in TaskState
      BY DEF DealsOK, TypeOK
    <2>2. d \in DealId
      BY <2>1 DEF HoldsDeal, TaskState
    <2> QED BY <2>1, <2>2 DEF HoldsDeal, TaskState, TypeOK
  <1>2. /\ DOMAIN deal' = DealId /\ deal' = [e \in DealId |-> deal'[e]]
        /\ deal'[d] = [deal[d] EXCEPT !.spent = @ + spent]
        /\ \A e \in DealId : e # d => deal'[e] = deal[e]
    <2>1. Written(t, status, spent) = [deal[d] EXCEPT !.spent = @ + spent]
      BY DEF Written
    <2> QED BY <1>1, <2>1, CommittedIs
  <1>3. /\ deal' \in [DealId -> Deal]
        /\ \A e \in DealId : /\ deal'[e].st = deal[e].st /\ deal'[e].of = deal[e].of
                             /\ deal'[e].spent >= deal[e].spent
                             /\ deal[e].spent > 0 <=> deal'[e].spent > 0
    <2>1. deal'[d] \in Deal /\ deal'[d].st = deal[d].st /\ deal'[d].of = deal[d].of
          /\ deal'[d].spent = deal[d].spent + spent
      BY <1>1, <1>2 DEF Deal
    <2>2. \A e \in DealId : deal[e].spent \in Nat
      BY DEF TypeOK, Deal
    <2>3. deal' \in [DealId -> Deal]
      BY <1>2, <2>1 DEF TypeOK
    <2> HIDE DEF d
    <2>4. \A e \in DealId : e = d \/ deal'[e] = deal[e]
      BY <1>2
    <2> QED BY <1>1, <2>1, <2>2, <2>3, <2>4
  <1>4. task'[t] = Idle /\ \A u \in Task : u # t => task'[u] = task[u]
    BY IdleIs, MovedIs
  <1>5. \A u \in Task : PairDeals(u)' = PairDeals(u)
    BY <1>3 DEF PairDeals
  <1>6. \A u \in Task : HoldsDeal(u, task[u])'
    <2> SUFFICES ASSUME NEW u \in Task PROVE HoldsDeal(u, task[u])'
      OBVIOUS
    <2>1. CASE u = t
      BY <1>4, <2>1, IdleIs DEF HoldsDeal
    <2>2. CASE u # t
      <3>1. HoldsDeal(u, task[u]) /\ task'[u] = task[u] /\ task[u].deal \in DealId \cup {None}
        BY <1>4, <2>2 DEF DealsOK, TypeOK, TaskState
      <3>2. task[u].new /\ task[u].at = "undo" => task[u].deal \in DealId /\ task[u].deal # d
        BY <2>2, <3>1, <1>1 DEF HoldsDeal, DealsOK, None, DealId
      <3> QED BY <1>2, <1>3, <1>5, <3>1, <3>2 DEF HoldsDeal, None, DealId
    <2> QED BY <2>1, <2>2
  <1>7. \A u, v \in Task : task'[u].deal = task'[v].deal /\ task'[u].deal # None => u = v
    BY <1>4, IdleIs DEF DealsOK
  <1>8. NoEmptyDeal'
    <2> SUFFICES ASSUME crashes' = 0, NEW e \in DealId,
                        deal'[e].st = "open", deal'[e].spent = 0, deal'[e].of[1] \notin LimitBots
                 PROVE  \E u \in Task : task'[u].deal = e
      BY DEF NoEmptyDeal
    <2>1. deal[e].st = "open" /\ deal[e].spent = 0 /\ deal[e].of[1] \notin LimitBots
      BY <1>3 DEF TypeOK, Deal
    <2>2. PICK u \in Task : task[u].deal = e
      BY <2>1 DEF DealsOK, NoEmptyDeal
    <2>3. u # t
      BY <1>1, <2>1, <2>2
    <2> QED BY <1>4, <2>2, <2>3
  <1>9. OneDealPerPair' /\ \A e \in DealId : deal'[e].st = "open" => deal'[e].of \in Task
    BY <1>3, <1>5 DEF DealsOK, OneDealPerPair
  <1> QED BY <1>3, <1>6, <1>7, <1>8, <1>9 DEF DealsOK

\* A position of the task's own: failed, or open with coins, with its task
\* still at work, or waiting for its limit order.
LEMMA NewCommitted ==
  ASSUME TypeOK, DealsOK, crashes' = crashes,
         NEW t \in Task, task[t].new,
         task[t].at \notin {"gate", "count", "decide", "create"},
         NEW status \in {"open", "failed"}, NEW spent \in Nat, Committed(t, status, spent),
         NEW s \in TaskState, Moved(t, s),
         \/ s = Idle
         \/ /\ s.at = "undo" /\ s.new /\ s.deal = task[t].deal
            /\ status = "open" /\ spent = 0,
         status = "open" /\ spent = 0 /\ s = Idle => t[1] \in LimitBots
  PROVE  DealsOK' /\ deal' \in [DealId -> Deal]
  <1> DEFINE d == task[t].deal
  <1>0. HoldsDeal(t, task[t]) /\ task[t] \in TaskState
    BY DEF DealsOK, TypeOK
  <1>1. d \in DealId
    BY <1>0 DEF HoldsDeal, TaskState
  <1>2. /\ DOMAIN deal' = DealId /\ deal' = [e \in DealId |-> deal'[e]]
        /\ deal'[d] = [st |-> status, of |-> t, attempt |-> task[t].attempt, spent |-> spent]
        /\ \A e \in DealId : e # d => deal'[e] = deal[e]
    <2>1. Written(t, status, spent)
            = [st |-> status, of |-> t, attempt |-> task[t].attempt, spent |-> spent]
      BY DEF Written
    <2> QED BY <1>1, <2>1, CommittedIs
  <1>3. deal' \in [DealId -> Deal]
    <2> HIDE DEF d
    <2>1. deal'[d] \in Deal
      BY <1>0, <1>2 DEF Deal, TaskState
    <2> QED BY <1>2, <2>1 DEF TypeOK
  <1>4. /\ task'[t] = s
        /\ \A u \in Task : u # t => task'[u] = task[u] /\ task[u].deal # d
    BY <1>1, MovedIs DEF DealsOK, None, DealId
  <1>5. PairDeals(t) \subseteq {d} /\ (deal[d].st = "none" \/ deal[d].of = t)
    <2>1. CASE task[t].at = "undo"
      <3>1. PairDeals(t) = {d}
        BY <1>0, <2>1 DEF HoldsDeal
      <3>2. d \in PairDeals(t)
        BY <3>1
      <3> QED BY <3>1, <3>2 DEF PairDeals
    <2>2. CASE task[t].at # "undo"
      BY <1>0, <1>1, <2>2 DEF HoldsDeal, None, DealId
    <2> QED BY <2>1, <2>2
  <1>6. \A u \in Task : u # t => PairDeals(u)' = PairDeals(u)
    <2> SUFFICES ASSUME NEW u \in Task, u # t PROVE PairDeals(u)' = PairDeals(u)
      OBVIOUS
    <2>1. d \notin PairDeals(u) /\ d \notin PairDeals(u)'
      BY <1>1, <1>2, <1>5 DEF PairDeals
    <2>2. \A e \in DealId \ {d} : e \in PairDeals(u) <=> e \in PairDeals(u)'
      BY <1>2 DEF PairDeals
    <2>3. PairDeals(u) \subseteq DealId /\ PairDeals(u)' \subseteq DealId
      BY DEF PairDeals
    <2> QED BY <2>1, <2>2, <2>3
  <1>7. PairDeals(t)' = IF status = "open" THEN {d} ELSE {}
    <2>1. \A e \in DealId \ {d} : e \notin PairDeals(t)'
      BY <1>2, <1>5 DEF PairDeals
    <2>2. d \in PairDeals(t)' <=> status = "open"
      BY <1>1, <1>2 DEF PairDeals
    <2>3. PairDeals(t)' \subseteq DealId
      BY DEF PairDeals
    <2> QED BY <2>1, <2>2, <2>3
  <1>8. \A u \in Task : HoldsDeal(u, task[u])'
    <2> SUFFICES ASSUME NEW u \in Task PROVE HoldsDeal(u, task[u])'
      OBVIOUS
    <2>1. CASE u # t
      <3>1. HoldsDeal(u, task[u]) /\ task[u].deal \in DealId \cup {None} /\ task'[u] = task[u]
        BY <1>4, <2>1 DEF DealsOK, TypeOK, TaskState
      <3>2. task[u].deal # None => deal'[task[u].deal] = deal[task[u].deal]
        BY <1>2, <1>4, <2>1, <3>1
      <3>3. task[u].at = "undo" /\ task[u].new => task[u].deal # None
        BY <3>1 DEF HoldsDeal
      <3> QED BY <1>6, <2>1, <3>1, <3>2, <3>3 DEF HoldsDeal
    <2>2. CASE u = t /\ s = Idle
      BY <1>4, <2>2, IdleIs DEF HoldsDeal
    <2>3. CASE u = t /\ s # Idle
      BY <1>1, <1>2, <1>4, <1>7, <2>3 DEF HoldsDeal, None, DealId
    <2> QED BY <2>1, <2>2, <2>3
  <1>9. \A u, v \in Task : task'[u].deal = task'[v].deal /\ task'[u].deal # None => u = v
    BY <1>4, IdleIs DEF DealsOK
  <1>10. OneDealPerPair' /\ \A e \in DealId : deal'[e].st = "open" => deal'[e].of \in Task
    BY <1>2, <1>6, <1>7 DEF DealsOK, OneDealPerPair
  <1>11. NoEmptyDeal'
    <2> SUFFICES ASSUME crashes' = 0, NEW e \in DealId,
                        deal'[e].st = "open", deal'[e].spent = 0, deal'[e].of[1] \notin LimitBots
                 PROVE  \E u \in Task : task'[u].deal = e
      BY DEF NoEmptyDeal
    <2>1. CASE e = d
      BY <1>2, <1>4, <2>1
    <2>2. CASE e # d
      <3>1. deal'[e] = deal[e]
        BY <1>2, <2>2
      <3>2. PICK u \in Task : task[u].deal = e
        BY <3>1 DEF DealsOK, NoEmptyDeal
      <3> QED BY <1>4, <2>2, <3>2
    <2> QED BY <2>1, <2>2
  <1> QED BY <1>3, <1>8, <1>9, <1>10, <1>11 DEF DealsOK

\* The two ways an executor ends: the position failed, or the error raised.
LEMMA FailedOK ==
  ASSUME TypeOK, DealsOK, crashes' = crashes,
         NEW t \in Task, Failed(t),
         task[t].at \notin {"idle", "gate", "count", "decide", "create"}
  PROVE  DealsOK' /\ deal' \in [DealId -> Deal] /\ Moved(t, Idle)
  <1>1. Committed(t, "failed", 0) /\ Moved(t, Idle)
    BY DEF Failed, Done, Moved
  <1>2. CASE task[t].new
    BY <1>1, <1>2, NewCommitted, IdleIs
  <1>3. CASE ~task[t].new
    BY <1>1, <1>3, AddCommitted
  <1> QED BY <1>1, <1>2, <1>3

\* The error is committed with the row, then raised.
LEMMA RaisedOK ==
  ASSUME TypeOK, DealsOK, crashes' = crashes,
         NEW t \in Task, RaiseWithCommit(t),
         task[t].at \notin {"idle", "gate", "count", "decide", "create"}
  PROVE  /\ DealsOK' /\ deal' \in [DealId -> Deal]
         /\ Moved(t, IF task[t].new THEN [task[t] EXCEPT !.at = "undo"] ELSE Idle)
  <1>1. CASE task[t].new
    <2> DEFINE s == [task[t] EXCEPT !.at = "undo"]
    <2>1. Moved(t, s) /\ Committed(t, "open", 0)
      <3>1. Committed(t, "open", 0) /\ Goto(t, "undo")
        BY <1>1 DEF RaiseWithCommit
      <3> QED BY <3>1 DEF Goto, Moved
    <2>2. s \in TaskState /\ s.at = "undo" /\ s.new /\ s.deal = task[t].deal /\ s # Idle
      <3>1. "undo" \in Where
        BY DEF Where
      <3>2. s \in TaskState
        BY <3>1, GotoIs
      <3>3. s.at = "undo" /\ s.deal = task[t].deal /\ s.new = task[t].new
        BY DEF TypeOK, TaskState
      <3> QED BY <1>1, <3>2, <3>3, IdleIs
    <2> HIDE DEF s
    <2>3. DealsOK' /\ deal' \in [DealId -> Deal]
      BY <1>1, <2>1, <2>2, NewCommitted
    <2> QED BY <1>1, <2>1, <2>3 DEF s
  <1>2. CASE ~task[t].new
    <2>1. Moved(t, Idle) /\ Committed(t, "open", 0)
      BY <1>2 DEF RaiseWithCommit, Done, Moved
    <2> QED BY <1>2, <2>1, AddCommitted
  <1> QED BY <1>1, <1>2

------------------------------------------------------------------------------
(* The barrier                                                               *)

\* The tasks inside the barrier can be counted.
LEMMA BarredFinite == IsFiniteSet(Barred) /\ Cardinality(Barred) \in Nat
  <1>1. IsFiniteSet(Task)
    BY TasksAssumption, FS_Product DEF Task
  <1> QED BY <1>1, FS_Subset, FS_CardinalityType DEF Barred

\* The same tasks are inside the barrier.
LEMMA BarrierSame ==
  ASSUME TypeOK, BarrierOK, UNCHANGED shutdown, Barred' = Barred
  PROVE  BarrierOK' /\ ShutdownTypeOK'
  BY DEF BarrierOK, TypeOK, ShutdownTypeOK, shutdown

\* A task that is as far inside after its move as before.
LEMMA BarrierMoved ==
  ASSUME TypeOK, BarrierOK, UNCHANGED shutdown,
         NEW t \in Task, NEW s \in TaskState, Moved(t, s),
         s.at \in {"send", "fill"} <=> InBarrier(t)
  PROVE  BarrierOK' /\ ShutdownTypeOK'
  <1>1. Barred' = Barred
    BY MovedIs DEF Barred, InBarrier
  <1> QED BY <1>1, BarrierSame

\* increment_in_flight: one task more inside.
LEMMA BarrierEntered ==
  ASSUME TypeOK, BarrierOK, IncrementInFlight,
         NEW t \in Task, NEW s \in TaskState, Moved(t, s), ~InBarrier(t), s.at = "send"
  PROVE  BarrierOK' /\ ShutdownTypeOK'
  <1>1. Barred' = Barred \cup {t} /\ t \notin Barred
    BY MovedIs DEF Barred, InBarrier
  <1>2. inFlight' = Cardinality(Barred')
    BY <1>1, BarredFinite, FS_AddElement DEF BarrierOK, IncrementInFlight
  <1> QED BY <1>2 DEF BarrierOK, TypeOK, ShutdownTypeOK, IncrementInFlight

\* decrement_in_flight: one task fewer inside.
LEMMA BarrierLeft ==
  ASSUME TypeOK, BarrierOK, DecrementInFlight,
         NEW t \in Task, NEW s \in TaskState, Moved(t, s), InBarrier(t),
         s.at \notin {"send", "fill"}
  PROVE  BarrierOK' /\ ShutdownTypeOK'
  <1>1. Barred' = Barred \ {t} /\ t \in Barred
    BY MovedIs DEF Barred, InBarrier
  <1>2. Cardinality(Barred') = Cardinality(Barred) - 1
    BY <1>1, BarredFinite, FS_RemoveElement
  <1>3. inFlight > 0
    <2>1. Barred # {}
      BY <1>1
    <2> QED BY <2>1, BarredFinite, FS_EmptySet DEF BarrierOK
  <1>4. inFlight' = Cardinality(Barred') /\ inFlight' \in Nat
    BY <1>2, <1>3, BarredFinite DEF BarrierOK, DecrementInFlight
  <1>5. \A r \in Requests : reply[r] \notin {"woken", "ready"}
    BY <1>3 DEF BarrierOK
  <1>6. /\ reply' \in [Requests -> Reply]
        /\ \A r \in Requests : reply'[r] \in {"woken", "ready"} => shuttingDown /\ inFlight' = 0
    BY <1>5 DEF DecrementInFlight, TypeOK, ShutdownTypeOK, Reply, Waiting, Called
  <1> QED BY <1>4, <1>6 DEF BarrierOK, TypeOK, ShutdownTypeOK, DecrementInFlight

\* A shutdown is asked for.
LEMMA BarrierAsked ==
  ASSUME TypeOK, BarrierOK, ShuttingDown
  PROVE  BarrierOK' /\ ShutdownTypeOK'
  <1>1. task' = task
    BY DEF ShuttingDown
  <1>2. Barred' = Barred
    BY <1>1 DEF Barred, InBarrier
  <1>3. CASE \E r \in Requests : PrepareShutdown(r)
    BY <1>2, <1>3 DEF PrepareShutdown, BarrierOK, TypeOK, ShutdownTypeOK, Reply, Waiting
  <1>4. CASE \E r \in Requests : Answer(r)
    BY <1>2, <1>4 DEF Answer, BarrierOK, TypeOK, ShutdownTypeOK, Reply, Called
  <1>5. CASE \E r \in Requests : TimeOut(r)
    BY <1>2, <1>5 DEF TimeOut, BarrierOK, TypeOK, ShutdownTypeOK, Reply, Waiting
  <1>6. CASE CancelShutdown
    <2>1. \A x : AfterCancel(x) \in {"left", "late", "none"}
      BY DEF AfterCancel
    <2>2. \A r \in Requests : reply'[r] \in {"left", "late", "none"}
      BY <1>6, <2>1 DEF CancelShutdown
    <2>3. reply' \in [Requests -> Reply]
      BY <1>6, <2>1 DEF CancelShutdown, Reply, Waiting, Called
    <2> QED BY <1>2, <1>6, <2>2, <2>3
            DEF CancelShutdown, BarrierOK, TypeOK, ShutdownTypeOK
  <1> QED BY <1>3, <1>4, <1>5, <1>6 DEF ShuttingDown

------------------------------------------------------------------------------
(* The actions                                                               *)

\* The type invariant, from its parts.
LEMMA AllTypes ==
  ASSUME /\ order' \in [OrderId -> Order] /\ funds' \in Nat
         /\ deal' \in [DealId -> Deal] /\ trade' \in [OrderId -> Trade]
         /\ task' \in [Task -> TaskState] /\ lock' \in [Bots -> Task \cup {NoTask}]
         /\ crashes' \in Nat /\ ShutdownTypeOK'
  PROVE  TypeOK'
  BY DEF TypeOK

\* What the invariant says of a task.
LEMMA TaskIs ==
  ASSUME IInv, NEW t \in Task
  PROVE  /\ task[t] \in TaskState /\ HoldsOrder(task[t]) /\ HoldsDeal(t, task[t])
         /\ task[t] = [at |-> task[t].at, new |-> task[t].new, deal |-> task[t].deal,
                       attempt |-> task[t].attempt, order |-> task[t].order,
                       fill |-> task[t].fill]
  BY DEF IInv, TypeOK, OrdersOK, DealsOK, TaskState

\* An idle task holds nothing.
LEMMA HoldsIdle ==
  ASSUME NEW t \in Task
  PROVE  HoldsOrder(Idle) /\ HoldsDeal(t, Idle)
  BY IdleIs DEF HoldsOrder, HoldsDeal

\* A task moves on, and nobody else notices.
LEMMA QuietStep ==
  ASSUME IInv, UNCHANGED <<exchange, database, crashes, shutdown>>,
         lock' \in [Bots -> Task \cup {NoTask}],
         NEW t \in Task, NEW s \in TaskState, Moved(t, s),
         HoldsOrder(s), HoldsDeal(t, s), LetsGo(t, s),
         s.order = task[t].order \/ s.order = None,
         \/ s.deal = task[t].deal
         \/ s.deal = None
         \/ \A u \in Task \ {t} : task[u].deal # s.deal,
         s.at \in {"send", "fill"} <=> InBarrier(t)
  PROVE  IInv'
  <1>1. OrdersOK'
    BY OrdersKept DEF IInv, exchange, database
  <1>2. DealsOK'
    BY DealsMoved DEF IInv, database
  <1>3. BarrierOK' /\ ShutdownTypeOK'
    BY BarrierMoved DEF IInv
  <1>4. TypeOK'
    BY <1>3, MovedIs DEF IInv, TypeOK, exchange, database
  <1> QED BY <1>1, <1>2, <1>3, <1>4 DEF IInv

\* The monitor begins a cycle.
LEMMA CycleOK == ASSUME IInv, NEW t \in Task, Cycle(t) PROVE IInv'
  <1>1. task[t] = Idle /\ ~InBarrier(t)
    BY TaskIs DEF Cycle, HoldsDeal, InBarrier
  <1>2. UNCHANGED <<exchange, database, crashes, shutdown>>
        /\ lock' \in [Bots -> Task \cup {NoTask}]
    BY DEF Cycle, IInv, TypeOK
  <1>3. CASE /\ PairDeals(t) = {}
             /\ task' = [task EXCEPT ![t].at = "gate", ![t].new = TRUE]
    <2> DEFINE s == [Idle EXCEPT !.at = "gate", !.new = TRUE]
    <2>1. Moved(t, s)
      BY <1>1, <1>3 DEF Moved, IInv, TypeOK
    <2>2. s \in TaskState /\ s.at = "gate" /\ s.new /\ s.deal = None /\ s.order = None
      BY DEF Idle, TaskState, Where, None
    <2>3. HoldsOrder(s) /\ HoldsDeal(t, s) /\ LetsGo(t, s)
      BY <1>1, <1>3, <2>2, IdleIs DEF HoldsOrder, HoldsDeal, LetsGo
    <2> HIDE DEF s
    <2> QED BY <1>1, <1>2, <2>1, <2>2, <2>3, QuietStep
  <1>4. CASE \E d \in PairDeals(t) :
               /\ deal[d].spent > 0
               /\ task' = [task EXCEPT ![t].at = "decide", ![t].deal = d]
    <2>1. PICK d \in PairDeals(t) :
               /\ deal[d].spent > 0
               /\ task' = [task EXCEPT ![t].at = "decide", ![t].deal = d]
      BY <1>4
    <2> DEFINE s == [Idle EXCEPT !.at = "decide", !.deal = d]
    <2>2. Moved(t, s)
      BY <1>1, <2>1 DEF Moved, IInv, TypeOK
    <2>3. d \in DealId /\ deal[d].st = "open" /\ deal[d].of = t /\ d # None
      BY DEF PairDeals, DealId, None
    <2>4. s \in TaskState /\ s.at = "decide" /\ ~s.new /\ s.deal = d /\ s.order = None
      BY <2>3 DEF Idle, TaskState, Where, None
    <2>5. HoldsOrder(s) /\ HoldsDeal(t, s) /\ LetsGo(t, s)
      BY <1>1, <2>1, <2>3, <2>4, IdleIs DEF HoldsOrder, HoldsDeal, LetsGo
    <2>6. \A u \in Task \ {t} : task[u].deal # d
      <3> SUFFICES ASSUME NEW u \in Task, u # t, task[u].deal = d PROVE FALSE
        OBVIOUS
      <3>1. HoldsDeal(u, task[u])
        BY TaskIs
      <3>2. CASE ~task[u].new
        BY <2>3, <3>1, <3>2 DEF HoldsDeal
      <3>3. CASE task[u].new /\ task[u].at = "undo"
        <4>1. d \in PairDeals(u)
          BY <3>1, <3>3 DEF HoldsDeal
        <4> QED BY <2>3, <4>1 DEF PairDeals
      <3>4. CASE task[u].new /\ task[u].at # "undo"
        BY <2>3, <3>1, <3>4 DEF HoldsDeal
      <3> QED BY <3>2, <3>3, <3>4
    <2> HIDE DEF s
    <2> QED BY <1>1, <1>2, <2>2, <2>4, <2>5, <2>6, QuietStep
  <1> QED BY <1>3, <1>4 DEF Cycle

\* A task that only goes on.
LEMMA GoesOn ==
  ASSUME IInv, UNCHANGED <<exchange, database, crashes, shutdown>>,
         lock' \in [Bots -> Task \cup {NoTask}],
         NEW t \in Task, NEW w \in Where, Goto(t, w), ~InBarrier(t),
         w \notin {"send", "fill", "idle", "undo", "book", "unconfirmed"},
         task[t].at \notin {"idle", "undo"},
         task[t].new /\ task[t].deal = None => w \in {"gate", "count", "decide", "create"},
         w = "create" => task[t].new,
         w \in {"limit_send", "limit"} => task[t].new /\ t[1] \in LimitBots
  PROVE  IInv'
  <1> DEFINE s == [task[t] EXCEPT !.at = w]
  <1>1. Moved(t, s)
    BY DEF Goto, Moved
  <1>2. s \in TaskState /\ s.at = w /\ s.new = task[t].new /\ s.deal = task[t].deal
        /\ s.order = task[t].order
    <2>1. s \in TaskState
      BY GotoIs DEF IInv
    <2> QED BY <2>1, TaskIs DEF TaskState
  <1>3. HoldsOrder(s) /\ HoldsDeal(t, s) /\ LetsGo(t, s)
    BY <1>2, TaskIs DEF HoldsOrder, HoldsDeal, LetsGo
  <1> HIDE DEF s
  <1> QED BY <1>1, <1>2, <1>3, QuietStep

\* A task that ends before it has a position of its own.
LEMMA StopsOK ==
  ASSUME IInv, UNCHANGED <<exchange, database, crashes, shutdown>>,
         lock' \in [Bots -> Task \cup {NoTask}],
         NEW t \in Task, Done(t), ~InBarrier(t),
         task[t].at # "undo"
  PROVE  IInv'
  <1>1. Moved(t, Idle)
    BY DEF Done, Moved
  <1>2. LetsGo(t, Idle)
    BY TaskIs DEF LetsGo, HoldsDeal
  <1> QED BY <1>1, <1>2, IdleIs, HoldsIdle, QuietStep

\* The locks of the bots keep their types.
LEMMA LockIs ==
  ASSUME IInv, NEW t \in Task, NEW x \in Task \cup {NoTask},
         lock' = lock \/ lock' = [lock EXCEPT ![t[1]] = x]
  PROVE  lock' \in [Bots -> Task \cup {NoTask}]
  BY DEF IInv, TypeOK, Task

\* A task takes the lock of its bot.
LEMMA AcquireLockOK == ASSUME IInv, NEW t \in Task, AcquireLock(t) PROVE IInv'
  <1>1. lock' \in [Bots -> Task \cup {NoTask}]
    BY LockIs DEF AcquireLock
  <1> QED BY <1>1, GoesOn DEF AcquireLock, InBarrier, Where

\* The open deals are counted against the limit.
LEMMA CountDealsOK == ASSUME IInv, NEW t \in Task, CountDeals(t) PROVE IInv'
  <1>1. lock' \in [Bots -> Task \cup {NoTask}]
    BY LockIs DEF CountDeals
  <1>2. CASE Goto(t, "decide")
    BY <1>1, <1>2, GoesOn DEF CountDeals, InBarrier, Where
  <1>3. CASE Done(t)
    BY <1>1, <1>3, StopsOK DEF CountDeals, InBarrier
  <1> QED BY <1>2, <1>3 DEF CountDeals

\* The signal says to wait.
LEMMA HoldOK == ASSUME IInv, NEW t \in Task, Hold(t) PROVE IInv'
  BY LockIs, StopsOK DEF Hold, InBarrier

\* The balance covers the buy.
LEMMA CheckBalanceOK == ASSUME IInv, NEW t \in Task, CheckBalance(t) PROVE IInv'
  <1>1. lock' \in [Bots -> Task \cup {NoTask}]
    BY LockIs DEF CheckBalance
  <1>2. CASE task[t].new
    <2>1. Goto(t, "create")
      BY <1>2 DEF CheckBalance
    <2> QED BY <1>1, <2>1, GoesOn DEF CheckBalance, InBarrier, Where
  <1>3. CASE ~task[t].new
    <2>1. Goto(t, "execute") /\ task[t].deal # None
      BY <1>3, TaskIs DEF CheckBalance, HoldsDeal
    <2> QED BY <1>1, <2>1, GoesOn DEF CheckBalance, InBarrier, Where
  <1> QED BY <1>2, <1>3

\* A limit buy begins.
LEMMA LimitStartOK == ASSUME IInv, NEW t \in Task, LimitStart(t) PROVE IInv'
  <1>1. lock' \in [Bots -> Task \cup {NoTask}]
    BY LockIs DEF LimitStart
  <1>2. task[t].deal # None /\ task[t].new /\ t[1] \in LimitBots
    BY TaskIs DEF LimitStart, LimitBase, HoldsDeal
  <1> QED BY <1>1, <1>2, GoesOn DEF LimitStart, InBarrier, Where

\* The position is made, not committed.
LEMMA CreatePositionOK == ASSUME IInv, NEW t \in Task, CreatePosition(t) PROVE IInv'
  <1>1. lock' \in [Bots -> Task \cup {NoTask}] /\ ~InBarrier(t)
        /\ UNCHANGED <<exchange, database, crashes, shutdown>>
    BY LockIs DEF CreatePosition, InBarrier
  <1>2. PICK d \in DealId, n \in Latest :
          /\ deal[d].st = "none" /\ \A u \in Task : task[u].deal # d
          /\ task' = [task EXCEPT ![t].at = "execute", ![t].deal = d, ![t].attempt = n + 1]
    BY DEF CreatePosition
  <1>3. n \in Nat
    BY DEF Latest, IInv, TypeOK, Deal
  <1> DEFINE s == [task[t] EXCEPT !.at = "execute", !.deal = d, !.attempt = n + 1]
  <1>4. Moved(t, s)
    BY <1>2 DEF Moved, IInv, TypeOK
  <1>5. s \in TaskState /\ s.at = "execute" /\ s.new = task[t].new /\ s.deal = d
        /\ s.order = task[t].order
    <2>1. n + 1 \in Nat
      BY <1>3
    <2>2. task[t] \in TaskState
      BY TaskIs
    <2>3. "execute" \in Where
      BY DEF Where
    <2> QED BY <2>1, <2>2, <2>3 DEF TaskState
  <1>6. d # None /\ task[t].at = "create"
    BY DEF DealId, None, CreatePosition
  <1>7. HoldsOrder(s)
    BY <1>5, TaskIs DEF HoldsOrder
  <1>8. HoldsDeal(t, s) /\ LetsGo(t, s)
    BY <1>2, <1>5, <1>6, TaskIs DEF HoldsDeal, LetsGo
  <1> HIDE DEF s
  <1> QED BY <1>1, <1>2, <1>4, <1>5, <1>6, <1>7, <1>8, QuietStep DEF InBarrier

\* The exchange's side of a step, when an order was or was not accepted.
LEMMA ExchangeIs ==
  ASSUME IInv,
         \/ UNCHANGED exchange
         \/ \E o \in OrderId : Accept(o) \/ Withdraw(o)
  PROVE  Grown /\ funds' \in Nat
  BY SameGrown, AcceptGrown, WithdrawGrown DEF IInv, OrdersOK, exchange, TypeOK

\* A task ends and with it what it held; the position is committed or not.
LEMMA EndsOK ==
  ASSUME IInv, Grown, trade' = trade,
         NEW t \in Task, Moved(t, Idle)
  PROVE  OrdersOK' /\ task' \in [Task -> TaskState]
  <1>1. HoldsOrder(Idle)'
    BY IdleIs DEF HoldsOrder
  <1> QED BY <1>1, IdleIs, OrdersMoved, MovedIs DEF IInv

\* A buy fails and its row, if new, is marked so.
LEMMA FailsOK ==
  ASSUME IInv, NEW t \in Task, Failed(t), Grown, funds' \in Nat,
         UNCHANGED <<trade, lock, crashes, shutdown>>,
         task[t].at \in {"execute", "undo", "limit_send"}
  PROVE  IInv'
  <1>1. DealsOK' /\ deal' \in [DealId -> Deal] /\ Moved(t, Idle)
    BY FailedOK DEF IInv
  <1>2. OrdersOK' /\ task' \in [Task -> TaskState]
    BY <1>1, EndsOK
  <1>3. BarrierOK' /\ ShutdownTypeOK'
    BY <1>1, IdleIs, BarrierMoved DEF IInv, InBarrier
  <1>4. TypeOK'
    BY <1>1, <1>2, <1>3 DEF IInv, TypeOK, Grown
  <1> QED BY <1>1, <1>2, <1>3, <1>4 DEF IInv

\* A buy is refused before anything is sent.
LEMMA RefuseOK == ASSUME IInv, NEW t \in Task, Refuse(t) PROVE IInv'
  BY FailsOK, ExchangeIs DEF Refuse

\* The row of a failed first buy is marked as failed.
LEMMA UndoOK == ASSUME IInv, NEW t \in Task, Undo(t) PROVE IInv'
  BY FailsOK, ExchangeIs DEF Undo

\* A market buy enters the barrier.
LEMMA MarketBuyOK == ASSUME IInv, NEW t \in Task, MarketBuy(t) PROVE IInv'
  <1> DEFINE s == [task[t] EXCEPT !.at = "send"]
  <1>1. Moved(t, s) /\ task[t].at = "execute" /\ IncrementInFlight
        /\ UNCHANGED <<exchange, database, lock, crashes>>
    BY DEF MarketBuy, Goto, Moved
  <1>2. s \in TaskState /\ s.at = "send" /\ s.new = task[t].new /\ s.deal = task[t].deal
        /\ s.order = task[t].order
    <2>1. "send" \in Where
      BY DEF Where
    <2>2. s \in TaskState
      BY <2>1, GotoIs DEF IInv
    <2> QED BY <2>2, TaskIs DEF TaskState
  <1>3. HoldsOrder(s) /\ HoldsDeal(t, s) /\ LetsGo(t, s)
    BY <1>1, <1>2, TaskIs DEF HoldsOrder, HoldsDeal, LetsGo
  <1> HIDE DEF s
  <1>4. OrdersOK'
    <2>1. order' = order /\ trade' = trade /\ TypeOK /\ OrdersOK
      BY <1>1 DEF exchange, database, IInv
    <2> QED BY <1>1, <1>2, <1>3, <2>1, OrdersKept
  <1>5. DealsOK'
    BY <1>1, <1>2, <1>3, DealsMoved DEF IInv, database
  <1>6. BarrierOK' /\ ShutdownTypeOK'
    BY <1>1, <1>2, BarrierEntered DEF IInv, InBarrier
  <1>7. TypeOK'
    BY <1>1, <1>2, <1>6, MovedIs DEF IInv, TypeOK, exchange, database
  <1> QED BY <1>4, <1>5, <1>6, <1>7 DEF IInv

\* The exchange accepts an order for a task that was sending one.
LEMMA AcceptedOK ==
  ASSUME IInv, NEW t \in Task, NEW o \in OrderId, Accept(o),
         UNCHANGED <<database, lock, crashes, shutdown>>,
         NEW w \in {"fill", "limit"},
         task' = [task EXCEPT ![t].at = w, ![t].order = o],
         task[t].at = IF w = "fill" THEN "send" ELSE "limit_send"
  PROVE  IInv'
  <1>1. PICK s \in TaskState : s = [task[t] EXCEPT !.at = w, !.order = o]
    <2>1. task[t] \in TaskState /\ w \in Where
      BY TaskIs DEF Where
    <2> QED BY <2>1 DEF TaskState
  <1>2. Moved(t, s) /\ s.at = w /\ s.new = task[t].new /\ s.deal = task[t].deal
        /\ s.order = o
    <2>1. Moved(t, s)
      BY <1>1 DEF Moved, IInv, TypeOK
    <2> QED BY <1>1, <2>1, TaskIs DEF TaskState
  <1>3. Grown /\ funds' \in Nat /\ order'[o].st = "open" /\ order[o].st = "none"
    BY AcceptGrown DEF IInv, OrdersOK, Accept
  <1>4. trade[o] = NoTrade
    BY <1>3 DEF IInv, OrdersOK, TradesAreComplete, Terminal
  <1>5. HoldsOrder(s)'
    BY <1>2, <1>3, <1>4 DEF HoldsOrder, database, OrderId, None
  <1>6. HoldsDeal(t, s) /\ LetsGo(t, s)
    BY <1>2, TaskIs DEF HoldsDeal, LetsGo
  <1>7. OrdersOK'
    <2>1. trade' = trade /\ TypeOK /\ OrdersOK
      BY DEF database, IInv
    <2>2. order[s.order].st = "none" /\ Grown
      BY <1>2, <1>3
    <2> QED BY <1>2, <1>5, <2>1, <2>2, OrdersMoved
  <1>8. DealsOK'
    BY <1>2, <1>6, DealsMoved DEF IInv, database
  <1>9. BarrierOK' /\ ShutdownTypeOK'
    BY <1>2, BarrierMoved DEF IInv, InBarrier
  <1>10. TypeOK'
    BY <1>2, <1>3, <1>9, MovedIs DEF IInv, TypeOK, Grown, database
  <1> QED BY <1>7, <1>8, <1>9, <1>10 DEF IInv

\* The market order is accepted.
LEMMA OrderAcceptedOK == ASSUME IInv, NEW t \in Task, OrderAccepted(t) PROVE IInv'
  <1>1. PICK o \in OrderId :
          Accept(o) /\ task' = [task EXCEPT ![t].at = "fill", ![t].order = o]
    BY DEF OrderAccepted
  <1> QED BY <1>1, AcceptedOK DEF OrderAccepted

\* The limit order is accepted, or fails.
LEMMA LimitBuyOK == ASSUME IInv, NEW t \in Task, LimitBuy(t) PROVE IInv'
  <1>1. CASE \E o \in OrderId :
               Accept(o) /\ task' = [task EXCEPT ![t].at = "limit", ![t].order = o]
               /\ UNCHANGED deal
    <2>1. PICK o \in OrderId :
               Accept(o) /\ task' = [task EXCEPT ![t].at = "limit", ![t].order = o]
               /\ UNCHANGED deal
      BY <1>1
    <2> QED BY <2>1, AcceptedOK DEF LimitBuy, database
  <1>2. CASE /\ \/ "lost_reply" \in Events /\ \E o \in OrderId : Accept(o)
                \/ UNCHANGED exchange
             /\ Failed(t)
    BY <1>2, ExchangeIs, FailsOK DEF LimitBuy
  <1> QED BY <1>1, <1>2 DEF LimitBuy

\* An error of the executor is raised: the position is committed as it is.
LEMMA RaisesOK ==
  ASSUME IInv, NEW t \in Task, RaiseWithCommit(t), Grown, funds' \in Nat,
         UNCHANGED <<trade, lock, crashes>>,
         task[t].at \notin {"idle", "gate", "count", "decide", "create"},
         NEW s \in TaskState,
         s = IF task[t].new THEN [task[t] EXCEPT !.at = "undo"] ELSE Idle,
         BarrierOK' /\ ShutdownTypeOK'
  PROVE  IInv'
  <1>1. DealsOK' /\ deal' \in [DealId -> Deal] /\ Moved(t, s)
    BY RaisedOK DEF IInv
  <1>2. s.order = task[t].order \/ s.order = None
    BY TaskIs, IdleIs DEF TaskState
  <1>3. HoldsOrder(s)'
    <2>1. HoldsOrder(s)
      <3>1. CASE task[t].new
        <4>1. s.at = "undo" /\ s.order = task[t].order
          BY <3>1, TaskIs DEF TaskState
        <4> QED BY <4>1, TaskIs DEF HoldsOrder
      <3>2. CASE ~task[t].new
        BY <3>2, HoldsIdle
      <3> QED BY <3>1, <3>2
    <2> QED BY <2>1, HeldStill DEF IInv
  <1>4. OrdersOK'
    <2>1. trade' = trade /\ TypeOK /\ OrdersOK
      BY DEF IInv
    <2> QED BY <1>1, <1>2, <1>3, <2>1, OrdersMoved
  <1>5. TypeOK'
    BY <1>1, MovedIs DEF IInv, TypeOK, Grown
  <1> QED BY <1>1, <1>4, <1>5 DEF IInv

\* Where an error leaves its task.
LEMMA UndoneIs ==
  ASSUME IInv, NEW t \in Task, NEW s,
         s = IF task[t].new THEN [task[t] EXCEPT !.at = "undo"] ELSE Idle
  PROVE  s \in TaskState /\ s.at \in {"undo", "idle"}
  <1>1. CASE task[t].new
    <2>1. "undo" \in Where
      BY DEF Where
    <2>2. s \in TaskState
      BY <1>1, <2>1, GotoIs DEF IInv
    <2> QED BY <1>1, <2>2, TaskIs DEF TaskState
  <1>2. CASE ~task[t].new
    BY <1>2, IdleIs
  <1> QED BY <1>1, <1>2

\* The market order fails.
LEMMA OrderFailedOK == ASSUME IInv, NEW t \in Task, OrderFailed(t) PROVE IInv'
  <1> DEFINE s == IF task[t].new THEN [task[t] EXCEPT !.at = "undo"] ELSE Idle
  <1>1. s \in TaskState /\ s.at \in {"undo", "idle"}
    BY UndoneIs
  <1>2. Grown /\ funds' \in Nat
    BY ExchangeIs DEF OrderFailed
  <1>3. RaiseWithCommit(t) /\ DecrementInFlight /\ UNCHANGED <<trade, lock, crashes>>
        /\ task[t].at = "send"
    BY DEF OrderFailed
  <1>4. Moved(t, s)
    BY <1>3, RaisedOK DEF IInv
  <1>5. s = IF task[t].new THEN [task[t] EXCEPT !.at = "undo"] ELSE Idle
    OBVIOUS
  <1> HIDE DEF s
  <1>6. BarrierOK' /\ ShutdownTypeOK'
    BY <1>1, <1>3, <1>4, BarrierLeft DEF IInv, InBarrier
  <1> QED BY <1>1, <1>2, <1>3, <1>5, <1>6, RaisesOK

\* A buy whose fill is not confirmed is withdrawn.
LEMMA HandleUnconfirmedOK == ASSUME IInv, NEW t \in Task, HandleUnconfirmed(t) PROVE IInv'
  <1> DEFINE s == IF task[t].new THEN [task[t] EXCEPT !.at = "undo"] ELSE Idle
  <1>1. s \in TaskState /\ s.at \in {"undo", "idle"}
    BY UndoneIs
  <1>2. RaiseWithCommit(t) /\ UNCHANGED <<trade, lock, crashes, shutdown>>
        /\ task[t].at = "unconfirmed"
    BY DEF HandleUnconfirmed
  <1>3. task[t].order \in OrderId
    BY <1>2, TaskIs DEF HoldsOrder, TaskState
  <1>4. Grown /\ funds' \in Nat
    BY <1>3, ExchangeIs DEF HandleUnconfirmed
  <1>5. Moved(t, s)
    BY <1>2, RaisedOK DEF IInv
  <1>6. s = IF task[t].new THEN [task[t] EXCEPT !.at = "undo"] ELSE Idle
    OBVIOUS
  <1> HIDE DEF s
  <1>7. BarrierOK' /\ ShutdownTypeOK'
    BY <1>1, <1>2, <1>5, BarrierMoved DEF IInv, InBarrier
  <1> QED BY <1>1, <1>2, <1>4, <1>6, <1>7, RaisesOK

\* A task learns of its order, or gives up, and is out of the barrier.
LEMMA LeavesOK ==
  ASSUME IInv, NEW t \in Task, task[t].at = "fill", DecrementInFlight,
         UNCHANGED <<exchange, database, lock, crashes>>,
         NEW s \in TaskState, Moved(t, s), s.at \in {"book", "unconfirmed"},
         s.new = task[t].new, s.deal = task[t].deal, s.order = task[t].order,
         s.at = "book" => Terminal(s.order) /\ s.fill = order[s.order].filled /\ s.fill > 0
  PROVE  IInv'
  <1>1. HoldsOrder(s)
    BY TaskIs DEF HoldsOrder
  <1>2. HoldsDeal(t, s) /\ LetsGo(t, s)
    BY TaskIs DEF HoldsDeal, LetsGo
  <1>3. OrdersOK'
    <2>1. order' = order /\ trade' = trade /\ TypeOK /\ OrdersOK
      BY DEF exchange, database, IInv
    <2> QED BY <1>1, <2>1, OrdersKept
  <1>4. DealsOK'
    BY <1>2, DealsMoved DEF IInv, database
  <1>5. BarrierOK' /\ ShutdownTypeOK'
    BY BarrierLeft DEF IInv, InBarrier
  <1>6. TypeOK'
    BY <1>5, MovedIs DEF IInv, TypeOK, exchange, database
  <1> QED BY <1>3, <1>4, <1>5, <1>6 DEF IInv

\* The fill is confirmed.
LEMMA ConfirmOK == ASSUME IInv, NEW t \in Task, Confirm(t) PROVE IInv'
  <1> DEFINE o == task[t].order
  <1> DEFINE s == [task[t] EXCEPT !.at = "book", !.fill = order[o].filled]
  <1>1. task[t].at = "fill" /\ DecrementInFlight /\ Terminal(o) /\ order[o].filled > 0
        /\ UNCHANGED <<exchange, database, lock, crashes>>
    BY DEF Confirm
  <1>2. Moved(t, s)
    BY DEF Confirm, Moved, IInv, TypeOK
  <1>3. order[o].filled \in Nat
    <2>1. o \in OrderId
      BY <1>1, TaskIs DEF HoldsOrder, TaskState
    <2> QED BY <2>1 DEF IInv, TypeOK, Order
  <1>4. s \in TaskState /\ s.at = "book" /\ s.new = task[t].new /\ s.deal = task[t].deal
        /\ s.order = o /\ s.fill = order[o].filled
    <2>1. task[t] \in TaskState /\ "book" \in Where
      BY TaskIs DEF Where
    <2> QED BY <1>3, <2>1 DEF TaskState
  <1> HIDE DEF s
  <1> QED BY <1>1, <1>2, <1>4, LeavesOK

\* The task looks for the fill no longer.
LEMMA GiveUpOK == ASSUME IInv, NEW t \in Task, GiveUp(t) PROVE IInv'
  <1> DEFINE s == [task[t] EXCEPT !.at = "unconfirmed"]
  <1>1. task[t].at = "fill" /\ DecrementInFlight
        /\ UNCHANGED <<exchange, database, lock, crashes>>
    BY DEF GiveUp
  <1>2. Moved(t, s)
    BY DEF GiveUp, Goto, Moved
  <1>3. s \in TaskState /\ s.at = "unconfirmed" /\ s.new = task[t].new
        /\ s.deal = task[t].deal /\ s.order = task[t].order
    <2>1. task[t] \in TaskState /\ "unconfirmed" \in Where
      BY TaskIs DEF Where
    <2> QED BY <2>1 DEF TaskState
  <1> HIDE DEF s
  <1> QED BY <1>1, <1>2, <1>3, LeavesOK

\* The trade of an order stands for all the order filled, once.
LEMMA BookTradeOK == ASSUME IInv, NEW t \in Task, BookTrade(t) PROVE IInv'
  <1> DEFINE o == task[t].order
  <1> DEFINE row == [deal |-> task[t].deal, initial |-> task[t].new, amount |-> task[t].fill]
  <1>1. /\ task[t].at = "book" /\ Committed(t, "open", task[t].fill) /\ Moved(t, Idle)
        /\ trade' = [trade EXCEPT ![o] = row]
        /\ UNCHANGED <<exchange, lock, crashes, shutdown>>
    BY DEF BookTrade, Done, Moved
  <1>2. /\ o \in OrderId /\ Terminal(o) /\ task[t].fill = order[o].filled
        /\ task[t].fill \in Nat /\ task[t].fill > 0
        /\ task[t].deal \in DealId \cup {None}
    BY <1>1, TaskIs DEF HoldsOrder, TaskState
  <1>3. row \in Trade /\ row.amount = order[o].filled
    <2>1. task[t].new \in BOOLEAN
      BY TaskIs DEF TaskState
    <2> QED BY <1>2, <2>1 DEF Trade
  <1> HIDE DEF row
  <1>4. /\ trade' \in [OrderId -> Trade] /\ trade'[o] = row
        /\ \A q \in OrderId : q # o => trade'[q] = trade[q]
    BY <1>1, <1>2, <1>3 DEF IInv, TypeOK
  <1>5. /\ task'[t] = Idle /\ task' \in [Task -> TaskState]
        /\ \A u \in Task : u # t => task'[u] = task[u]
    BY <1>1, IdleIs, MovedIs DEF IInv
  <1>6. OrdersOK'
    <2>1. order' = order /\ OrdersOK
      BY <1>1 DEF exchange, IInv
    <2>2. TradesAreComplete'
      BY <1>2, <1>3, <1>4, <2>1 DEF OrdersOK, TradesAreComplete, Terminal
    <2>3. \A u \in Task : HoldsOrder(task[u])'
      <3> SUFFICES ASSUME NEW u \in Task PROVE HoldsOrder(task[u])'
        OBVIOUS
      <3>1. CASE u = t
        BY <1>5, <3>1, IdleIs DEF HoldsOrder
      <3>2. CASE u # t
        <4>1. HoldsOrder(task[u]) /\ task'[u] = task[u]
              /\ task[u].order \in OrderId \cup {None}
          BY <1>5, <3>2, TaskIs DEF TaskState
        <4>2. task[u].order # o
          BY <1>2, <2>1, <3>2 DEF OrdersOK, OrderId, None
        <4>3. task[u].order # None => trade'[task[u].order] = trade[task[u].order]
          BY <1>4, <4>1, <4>2
        <4> QED BY <2>1, <4>1, <4>3 DEF HoldsOrder, Terminal
      <3> QED BY <3>1, <3>2
    <2>4. \A u, v \in Task : task'[u].order = task'[v].order /\ task'[u].order # None => u = v
      BY <1>5, <2>1, IdleIs DEF OrdersOK
    <2>5. FillsOK'
      BY <2>1 DEF OrdersOK, FillsOK
    <2> QED BY <2>2, <2>3, <2>4, <2>5 DEF OrdersOK
  <1>7. DealsOK' /\ deal' \in [DealId -> Deal]
    <2>1. TypeOK /\ DealsOK /\ crashes' = crashes
      BY <1>1 DEF IInv
    <2>2. CASE task[t].new
      BY <1>1, <1>2, <2>1, <2>2, NewCommitted, IdleIs
    <2>3. CASE ~task[t].new
      BY <1>1, <1>2, <2>1, <2>3, AddCommitted
    <2> QED BY <2>2, <2>3
  <1>8. BarrierOK' /\ ShutdownTypeOK'
    BY <1>1, IdleIs, BarrierMoved DEF IInv, InBarrier
  <1>9. TypeOK'
    BY <1>1, <1>4, <1>5, <1>7, <1>8 DEF IInv, TypeOK, exchange
  <1> QED BY <1>6, <1>7, <1>8, <1>9 DEF IInv

\* The limit order and its position are committed.
LEMMA LimitCommitOK == ASSUME IInv, NEW t \in Task, LimitCommit(t) PROVE IInv'
  <1>1. /\ task[t].at = "limit" /\ Committed(t, "open", 0) /\ Moved(t, Idle)
        /\ UNCHANGED <<exchange, trade, lock, crashes, shutdown>>
    BY DEF LimitCommit, Done, Moved
  <1>2. task[t].new /\ t[1] \in LimitBots
    BY <1>1, TaskIs DEF HoldsDeal
  <1>3. DealsOK' /\ deal' \in [DealId -> Deal]
    <2>1. TypeOK /\ DealsOK /\ crashes' = crashes
      BY <1>1 DEF IInv
    <2> QED BY <1>1, <1>2, <2>1, NewCommitted, IdleIs
  <1>4. Grown
    BY <1>1, SameGrown DEF IInv, OrdersOK, exchange
  <1>5. OrdersOK' /\ task' \in [Task -> TaskState]
    BY <1>1, <1>4, EndsOK
  <1>6. BarrierOK' /\ ShutdownTypeOK'
    BY <1>1, IdleIs, BarrierMoved DEF IInv, InBarrier
  <1>7. TypeOK'
    BY <1>1, <1>3, <1>5, <1>6 DEF IInv, TypeOK, exchange
  <1> QED BY <1>3, <1>5, <1>6, <1>7 DEF IInv

\* Steps of the exchange alone.
LEMMA ExchangeOK ==
  ASSUME IInv, NEW o \in OrderId, ExchangeFill(o) \/ ExchangeExpire(o)
  PROVE  IInv'
  <1>1. UNCHANGED <<database, task, lock, crashes, shutdown>>
    BY DEF ExchangeFill, ExchangeExpire
  <1>2. Grown /\ funds' \in Nat
    BY FillGrown, WithdrawGrown DEF ExchangeFill, ExchangeExpire, IInv, OrdersOK, TypeOK
  <1>3. OrdersOK'
    BY <1>1, <1>2, OrdersStill DEF IInv, database
  <1>4. DealsOK'
    BY <1>1, DealsStill DEF IInv, database
  <1>5. Barred' = Barred
    BY <1>1 DEF Barred, InBarrier
  <1>6. BarrierOK' /\ ShutdownTypeOK'
    BY <1>1, <1>5, BarrierSame DEF IInv
  <1>7. TypeOK'
    BY <1>1, <1>2, <1>6 DEF IInv, TypeOK, Grown, database
  <1> QED BY <1>3, <1>4, <1>6, <1>7 DEF IInv

\* A deal that is closed had coins: no task that works on it notices.
LEMMA CloseOK == ASSUME IInv, NEW d \in DealId, Close(d) PROVE IInv'
  <1>1. UNCHANGED <<order, trade, task, lock, crashes, shutdown>>
        /\ deal[d].st = "open" /\ deal[d].spent > 0
        /\ deal' = [deal EXCEPT ![d].st = "closed"] /\ funds' = funds + deal[d].spent
    BY DEF Close
  <1>2. /\ deal' \in [DealId -> Deal]
        /\ deal'[d].st = "closed" /\ deal'[d].of = deal[d].of /\ deal'[d].spent = deal[d].spent
        /\ \A e \in DealId : e # d => deal'[e] = deal[e]
    BY <1>1 DEF IInv, TypeOK, Deal
  <1>3. \A t \in Task : PairDeals(t)' = PairDeals(t) \ {d}
    <2> SUFFICES ASSUME NEW t \in Task PROVE PairDeals(t)' = PairDeals(t) \ {d}
      OBVIOUS
    <2>1. d \notin PairDeals(t)'
      BY <1>2 DEF PairDeals
    <2>2. \A e \in DealId \ {d} : e \in PairDeals(t) <=> e \in PairDeals(t)'
      BY <1>2 DEF PairDeals
    <2>3. PairDeals(t) \subseteq DealId /\ PairDeals(t)' \subseteq DealId
      BY DEF PairDeals
    <2> QED BY <2>1, <2>2, <2>3
  <1>4. \A t \in Task : HoldsDeal(t, task[t])'
    <2> SUFFICES ASSUME NEW t \in Task PROVE HoldsDeal(t, task[t])'
      OBVIOUS
    <2>1. HoldsDeal(t, task[t]) /\ task'[t] = task[t] /\ task[t].deal \in DealId \cup {None}
      BY <1>1, TaskIs DEF TaskState
    <2>2. task[t].new /\ task[t].deal # None => task[t].deal # d
      <3>1. CASE task[t].new /\ task[t].at = "undo"
        BY <1>1, <2>1, <3>1 DEF HoldsDeal
      <3>2. CASE task[t].new /\ task[t].at # "undo"
        BY <1>1, <2>1, <3>2 DEF HoldsDeal
      <3> QED BY <3>1, <3>2
    <2>3. task[t].new /\ task[t].at = "undo" => task[t].deal # None
      BY <2>1 DEF HoldsDeal
    <2>4. task[t].deal # None /\ task[t].deal # d => deal'[task[t].deal] = deal[task[t].deal]
      BY <1>2, <2>1
    <2>5. CASE task[t].new
      BY <1>3, <2>1, <2>2, <2>3, <2>4, <2>5 DEF HoldsDeal
    <2>6. CASE ~task[t].new
      BY <1>2, <2>1, <2>4, <2>6 DEF HoldsDeal
    <2> QED BY <2>5, <2>6
  <1>5. OneDealPerPair' /\ \A e \in DealId : deal'[e].st = "open" => deal'[e].of \in Task
    BY <1>2, <1>3 DEF IInv, DealsOK, OneDealPerPair
  <1>6. NoEmptyDeal'
    BY <1>1, <1>2 DEF IInv, DealsOK, NoEmptyDeal
  <1>7. DealsOK'
    BY <1>1, <1>4, <1>5, <1>6 DEF IInv, DealsOK
  <1>8. Grown
    BY <1>1, SameGrown DEF IInv, OrdersOK
  <1>9. OrdersOK'
    BY <1>1, <1>8, OrdersStill DEF IInv
  <1>10. BarrierOK' /\ ShutdownTypeOK'
    BY <1>1, BarrierSame DEF IInv, Barred, InBarrier
  <1>11. funds' \in Nat
    BY <1>1 DEF IInv, TypeOK, Deal
  <1>12. TypeOK'
    BY <1>1, <1>2, <1>10, <1>11 DEF IInv, TypeOK
  <1> QED BY <1>7, <1>9, <1>10, <1>12 DEF IInv

\* What the shutdown manager does itself.
LEMMA ShuttingDownOK == ASSUME IInv, ShuttingDown PROVE IInv'
  <1>1. UNCHANGED <<exchange, database, task, lock, crashes>>
    BY DEF ShuttingDown
  <1>2. BarrierOK' /\ ShutdownTypeOK'
    BY BarrierAsked DEF IInv
  <1>3. Grown
    BY <1>1, SameGrown DEF IInv, OrdersOK, exchange
  <1>4. OrdersOK'
    BY <1>1, <1>3, OrdersStill DEF IInv, database
  <1>5. DealsOK'
    BY <1>1, DealsStill DEF IInv, database
  <1>6. TypeOK'
    BY <1>1, <1>2 DEF IInv, TypeOK, exchange, database
  <1> QED BY <1>2, <1>4, <1>5, <1>6 DEF IInv

\* A crash takes the tasks, and with them what they had not committed.
LEMMA CrashOK == ASSUME IInv, Crash PROVE IInv'
  <1>1. /\ UNCHANGED <<exchange, database>> /\ crashes' = crashes + 1
        /\ task' = [t \in Task |-> Idle] /\ lock' = [b \in Bots |-> NoTask]
        /\ shuttingDown' = FALSE /\ inFlight' = 0 /\ reply' = [r \in Requests |-> "none"]
    BY DEF Crash
  <1>2. crashes' \in Nat /\ crashes' # 0
    BY <1>1 DEF IInv, TypeOK
  <1>3. Grown
    BY <1>1, SameGrown DEF IInv, OrdersOK, exchange
  <1>4. OrdersOK'
    <2>1. TradesAreComplete'
      BY <1>1, <1>3, TradesStill DEF IInv, OrdersOK, database
    <2>2. \A t \in Task : HoldsOrder(task[t])'
      BY <1>1, IdleIs DEF HoldsOrder
    <2> QED BY <1>1, <1>3, <2>1, <2>2, IdleIs DEF OrdersOK, Grown
  <1>5. DealsOK'
    <2>1. \A t \in Task : HoldsDeal(t, task[t])'
      BY <1>1, IdleIs DEF HoldsDeal
    <2>2. OneDealPerPair' /\ \A d \in DealId : deal'[d].st = "open" => deal'[d].of \in Task
      BY <1>1 DEF IInv, DealsOK, OneDealPerPair, PairDeals, database
    <2>3. NoEmptyDeal'
      BY <1>2 DEF NoEmptyDeal
    <2> QED BY <1>1, <2>1, <2>2, <2>3, IdleIs DEF DealsOK
  <1>6. BarrierOK' /\ ShutdownTypeOK'
    <2>1. Barred' = {}
      BY <1>1, IdleIs DEF Barred, InBarrier
    <2> QED BY <1>1, <2>1, FS_EmptySet DEF BarrierOK, ShutdownTypeOK, Reply
  <1>7. TypeOK'
    BY <1>1, <1>2, <1>6, IdleIs DEF IInv, TypeOK, exchange, database
  <1> QED BY <1>4, <1>5, <1>6, <1>7 DEF IInv

------------------------------------------------------------------------------
(* The theorems                                                              *)

\* The invariant holds at first.
LEMMA InitOK == Init => IInv
  <1> SUFFICES ASSUME Init PROVE IInv
    OBVIOUS
  <1>1. TypeOK
    BY BoundsAssumption, IdleIs
       DEF Init, TypeOK, Order, Deal, Trade, NoTrade, ShutdownInit, ShutdownTypeOK, Reply
  <1>2. OrdersOK
    BY IdleIs DEF Init, OrdersOK, FillsOK, TradesAreComplete, HoldsOrder
  <1>3. DealsOK
    BY IdleIs DEF Init, DealsOK, OneDealPerPair, NoEmptyDeal, HoldsDeal, PairDeals
  <1>4. BarrierOK
    <2>1. Barred = {}
      BY IdleIs DEF Init, Barred, InBarrier
    <2> QED BY <2>1, FS_EmptySet DEF Init, BarrierOK, ShutdownInit
  <1> QED BY <1>1, <1>2, <1>3, <1>4 DEF IInv

\* What one task does.
LEMMA TaskOK ==
  ASSUME IInv, NEW t \in Task, Cycle(t) \/ Deciding(t) \/ Buying(t)
  PROVE  IInv'
  <1>1. CASE Deciding(t)
    BY <1>1, AcquireLockOK, CountDealsOK, HoldOK, CheckBalanceOK, CreatePositionOK
       DEF Deciding
  <1>2. CASE Refuse(t) \/ MarketBuy(t) \/ OrderAccepted(t) \/ OrderFailed(t) \/ Confirm(t)
    BY <1>2, RefuseOK, MarketBuyOK, OrderAcceptedOK, OrderFailedOK, ConfirmOK
  <1>3. CASE GiveUp(t) \/ HandleUnconfirmed(t) \/ Undo(t) \/ BookTrade(t)
    BY <1>3, GiveUpOK, HandleUnconfirmedOK, UndoOK, BookTradeOK
  <1>4. CASE LimitStart(t) \/ LimitBuy(t) \/ LimitCommit(t)
    BY <1>4, LimitStartOK, LimitBuyOK, LimitCommitOK
  <1> QED BY <1>1, <1>2, <1>3, <1>4, CycleOK DEF Buying

\* Every step keeps the invariant.
LEMMA NextOK == IInv /\ [Next]_vars => IInv'
  <1> SUFFICES ASSUME IInv, [Next]_vars PROVE IInv'
    OBVIOUS
  <1>1. CASE \E o \in OrderId : ExchangeFill(o) \/ ExchangeExpire(o)
    BY <1>1, ExchangeOK
  <1>2. CASE \E t \in Task : Cycle(t) \/ Deciding(t) \/ Buying(t)
    BY <1>2, TaskOK
  <1>3. CASE \E d \in DealId : Close(d)
    BY <1>3, CloseOK
  <1>4. CASE ShuttingDown
    BY <1>4, ShuttingDownOK
  <1>5. CASE Crash
    BY <1>5, CrashOK
  <1>6. CASE UNCHANGED vars
    <2>1. UNCHANGED <<exchange, database, task, lock, crashes, shutdown>>
      BY <1>6 DEF vars
    <2>2. Grown
      BY <2>1, SameGrown DEF IInv, OrdersOK, exchange
    <2>3. OrdersOK' /\ DealsOK'
      BY <2>1, <2>2, OrdersStill, DealsStill DEF IInv, database
    <2>4. BarrierOK' /\ ShutdownTypeOK'
      <3>1. Barred' = Barred
        BY <2>1 DEF Barred, InBarrier
      <3> QED BY <2>1, <3>1, BarrierSame DEF IInv
    <2>5. TypeOK'
      BY <2>1, <2>4 DEF IInv, TypeOK, exchange, database
    <2> QED BY <2>3, <2>4, <2>5 DEF IInv
  <1> QED BY <1>1, <1>2, <1>3, <1>4, <1>5, <1>6 DEF Next

\* The invariant is inductive.
LEMMA Inductive == Spec => []IInv
  BY InitOK, NextOK, PTL DEF Spec

\* The rows, tasks, locks and requests keep their shape.
THEOREM TypesHold == Spec => []TypeOK
  <1>1. IInv => TypeOK
    BY DEF IInv
  <1> QED BY <1>1, Inductive, PTL

\* A bot never has two open deals on a pair, whatever failed or crashed.
THEOREM OneDealAPair == Spec => []OneDealPerPair
  <1>1. IInv => OneDealPerPair
    BY DEF IInv, DealsOK
  <1> QED BY <1>1, Inductive, PTL

\* A trade is written of an order that is over, and is all it filled.
THEOREM TradesComplete == Spec => []TradesAreComplete
  <1>1. IInv => TradesAreComplete
    BY DEF IInv, OrdersOK
  <1> QED BY <1>1, Inductive, PTL

\* A first buy that fails leaves no open deal without coins behind it.
THEOREM NoDealEmpty == Spec => []NoEmptyDeal
  <1>1. IInv => NoEmptyDeal
    BY DEF IInv, DealsOK
  <1> QED BY <1>1, Inductive, PTL

\* A shutdown told that it is ready has no order in flight beside it, with any
\* number of requests and cancels.
THEOREM BarrierIsHeld == Spec => []BarrierHolds
  <1>1. IInv => BarrierHolds
    <2> SUFFICES ASSUME IInv, Ready PROVE \A t \in Task : ~InBarrier(t)
      BY DEF BarrierHolds
    <2>1. Cardinality(Barred) = 0
      BY DEF Ready, IInv, BarrierOK
    <2>2. Barred = {}
      BY <2>1, BarredFinite, FS_EmptySet
    <2> QED BY <2>2 DEF Barred
  <1> QED BY <1>1, Inductive, PTL

------------------------------------------------------------------------------
(* The trades of the buys implement FillLedger.                              *)

LedgerFilled == [o \in OrderId |-> order[o].filled]
LedgerBooked == [o \in OrderId |-> trade[o].amount]
LedgerStep == [Ledger!Next]_<<LedgerFilled, LedgerBooked>>

FilledKept == \A o \in OrderId : order'[o].filled = order[o].filled

\* No fill and no booking is no step of the ledger.
LEMMA LedgerStutters == FilledKept /\ trade' = trade => LedgerStep
  BY DEF FilledKept, LedgerStep, LedgerFilled, LedgerBooked

\* Accepting, cancelling or expiring an order fills nothing.
LEMMA ExchangeKeeps ==
  ASSUME TypeOK, FillsOK,
         \/ order' = order
         \/ \E o \in OrderId : Accept(o) \/ Withdraw(o)
  PROVE  FilledKept
  <1>1. ASSUME NEW o \in OrderId, Accept(o) PROVE FilledKept
    BY <1>1 DEF Accept, FilledKept, TypeOK, FillsOK, Order
  <1>2. ASSUME NEW o \in OrderId, Withdraw(o) PROVE FilledKept
    BY <1>2 DEF Withdraw, FilledKept, TypeOK, Order
  <1> QED BY <1>1, <1>2 DEF FilledKept

\* A fill at the exchange is a fill of the ledger.
LEMMA FillIsFill ==
  ASSUME TypeOK, FillsOK, NEW o \in OrderId, ExchangeFill(o)
  PROVE  LedgerStep
  <1>1. \A q \in OrderId \ {o} : order'[q] = order[q]
    BY DEF ExchangeFill, TypeOK
  <1>2. LedgerFilled'[o] > LedgerFilled[o]
    BY FillGrown DEF LedgerFilled
  <1>3. \A q \in OrderId \ {o} : LedgerFilled'[q] = LedgerFilled[q]
    BY <1>1 DEF LedgerFilled
  <1>4. LedgerFilled' = [LedgerFilled EXCEPT ![o] = LedgerFilled'[o]]
    BY <1>3 DEF LedgerFilled
  <1>5. LedgerBooked' = LedgerBooked
    BY DEF ExchangeFill, database, LedgerBooked
  <1>6. Ledger!Fill(o)
    BY <1>2, <1>4, <1>5 DEF Ledger!Fill, LedgerFilled, LedgerBooked
  <1> QED BY <1>6 DEF LedgerStep, Ledger!Next

\* Booking a trade is a record of the ledger.
LEMMA BookIsRecord ==
  ASSUME IInv, NEW t \in Task, BookTrade(t)
  PROVE  LedgerStep
  <1>0. PICK o \in OrderId : o = task[t].order
    BY TaskIs DEF BookTrade, HoldsOrder, TaskState
  <1> DEFINE row == [deal |-> task[t].deal, initial |-> task[t].new, amount |-> task[t].fill]
  <1>1. /\ task[t].at = "book" /\ UNCHANGED exchange
        /\ trade' = [trade EXCEPT ![o] = row]
    BY <1>0 DEF BookTrade
  <1>2. task[t].fill = order[o].filled /\ task[t].fill > 0
        /\ trade[o] = NoTrade
    BY <1>0, <1>1, TaskIs DEF HoldsOrder, TaskState
  <1>3. row.amount = task[t].fill
    OBVIOUS
  <1> HIDE DEF row
  <1>4. trade'[o] = row /\ \A q \in OrderId \ {o} : trade'[q] = trade[q]
    BY <1>1, <1>2 DEF IInv, TypeOK
  <1>5. LedgerBooked[o] = 0 /\ LedgerBooked'[o] = order[o].filled
    BY <1>2, <1>3, <1>4 DEF LedgerBooked, NoTrade
  <1>6. \A q \in OrderId \ {o} : LedgerBooked'[q] = LedgerBooked[q]
    BY <1>4 DEF LedgerBooked
  <1>7. LedgerBooked' = [LedgerBooked EXCEPT ![o] = LedgerBooked'[o]]
    BY <1>6 DEF LedgerBooked
  <1>8. LedgerFilled' = LedgerFilled /\ LedgerFilled[o] = order[o].filled
        /\ order[o].filled > 0 /\ order[o].filled \in Nat
    BY <1>1, <1>2 DEF LedgerFilled, exchange, IInv, TypeOK, Order
  <1>9. Ledger!Record(o)
    <2>1. LedgerBooked[o] < LedgerBooked'[o] /\ LedgerBooked'[o] <= LedgerFilled[o]
      BY <1>5, <1>8
    <2> QED BY <1>7, <1>8, <2>1 DEF Ledger!Record, LedgerFilled, LedgerBooked
  <1> QED BY <1>9 DEF LedgerStep, Ledger!Next

\* Only BookTrade writes a trade and only the exchange fills.
LEMMA TaskRecords ==
  ASSUME IInv, NEW t \in Task, Cycle(t) \/ Deciding(t) \/ Buying(t)
  PROVE  LedgerStep
  <1> USE DEF exchange, database
  <1>1. CASE BookTrade(t)
    BY <1>1, BookIsRecord
  <1>2. CASE Cycle(t) \/ Deciding(t)
    <2>1. order' = order /\ trade' = trade
      BY <1>2 DEF Cycle, Deciding, AcquireLock, CountDeals, Hold, CheckBalance, CreatePosition
    <2> QED BY <2>1, LedgerStutters DEF FilledKept
  <1>3. CASE \/ Refuse(t) \/ MarketBuy(t) \/ Confirm(t) \/ GiveUp(t) \/ Undo(t)
             \/ LimitStart(t) \/ LimitCommit(t)
    <2>1. order' = order /\ trade' = trade
      BY <1>3 DEF Refuse, MarketBuy, Confirm, GiveUp, Undo, LimitStart, LimitCommit
    <2> QED BY <2>1, LedgerStutters DEF FilledKept
  <1>4. CASE OrderAccepted(t) \/ OrderFailed(t) \/ LimitBuy(t)
    <2>1. trade' = trade /\ (order' = order \/ \E o \in OrderId : Accept(o))
      BY <1>4 DEF OrderAccepted, OrderFailed, LimitBuy
    <2>2. FilledKept
      BY <2>1, ExchangeKeeps DEF IInv, OrdersOK
    <2> QED BY <2>1, <2>2, LedgerStutters
  <1>5. CASE HandleUnconfirmed(t)
    <2>1. task[t].order \in OrderId
      BY <1>5, TaskIs DEF HandleUnconfirmed, HoldsOrder, TaskState
    <2>2. trade' = trade /\ (order' = order \/ \E o \in OrderId : Withdraw(o))
      BY <1>5, <2>1 DEF HandleUnconfirmed
    <2> QED BY <2>2, ExchangeKeeps, LedgerStutters DEF IInv, OrdersOK
  <1> QED BY <1>1, <1>2, <1>3, <1>4, <1>5 DEF Buying

\* Every step is a step of the ledger, or leaves it as it was.
LEMMA StepImplements ==
  ASSUME IInv, [Next]_vars
  PROVE  LedgerStep
  <1>1. CASE \E o \in OrderId : ExchangeFill(o)
    BY <1>1, FillIsFill DEF IInv, OrdersOK
  <1>2. CASE \E o \in OrderId : ExchangeExpire(o)
    BY <1>2, ExchangeKeeps, LedgerStutters DEF ExchangeExpire, IInv, OrdersOK, database
  <1>3. CASE \E t \in Task : Cycle(t) \/ Deciding(t) \/ Buying(t)
    BY <1>3, TaskRecords
  <1>4. CASE (\E d \in DealId : Close(d)) \/ ShuttingDown \/ Crash \/ UNCHANGED vars
    <2>1. order' = order /\ trade' = trade
      BY <1>4 DEF Close, ShuttingDown, Crash, vars, exchange, database
    <2> QED BY <2>1, LedgerStutters DEF FilledKept
  <1> QED BY <1>1, <1>2, <1>3, <1>4 DEF Next

\* The trades of the buys refine the ledger that those of the sells refine:
\* each step records one order's fills, or leaves the ledger alone.
THEOREM LedgerKept == Spec => ImplementsLedger
  <1>1. Init => Ledger!Init
    BY DEF Init, Ledger!Init, NoTrade
  <1>2. IInv /\ [Next]_vars => LedgerStep
    BY StepImplements
  <1> QED BY <1>1, <1>2, Inductive, PTL
          DEF Spec, ImplementsLedger, Ledger!Spec, LedgerStep, LedgerFilled, LedgerBooked
=============================================================================
