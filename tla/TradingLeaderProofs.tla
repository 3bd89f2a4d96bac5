-------------------------- MODULE TradingLeaderProofs --------------------------
(***************************************************************************)
(* For every TTL, renewal interval and delay of a call, how long a leader  *)
(* can outlive its lease: TypeOK /\ LeaseAge is inductive, and bounds it.  *)
(***************************************************************************)
EXTENDS TradingLeader, TLAPS

Inv == TypeOK /\ LeaseAge

\* The invariant holds before any process has started.
LEMMA InitInv == Init => Inv
BY DurationsAssumption, BoundsAssumption
   DEF Init, Inv, TypeOK, LeaseAge, Leading, Loop

\* A process that takes the key has a whole lease, and a call to hear of it.
LEMMA AcquireInv ==
  ASSUME Inv, NEW p \in Procs, Acquire(p)
  PROVE  Inv'
BY DurationsAssumption DEF Acquire, Grant, Move, Inv, TypeOK, LeaseAge, Leading, Loop, bounds

\* A reply, to SET or to EXPIRE, is at most one call older than the lease.
LEMMA ReplyInv ==
  ASSUME Inv, NEW p \in Procs, Acquired(p) \/ Renewed(p)
  PROVE  Inv'
BY DurationsAssumption DEF Acquired, Renewed, Move, Inv, TypeOK, LeaseAge, Leading, Loop, redis, bounds

\* The loop wakes an interval after its last look at the clock.
LEMMA WakeInv ==
  ASSUME Inv, NEW p \in Procs, Wake(p)
  PROVE  Inv'
BY DurationsAssumption DEF Wake, Move, Inv, TypeOK, LeaseAge, Leading, Loop, redis, bounds

\* Redis renews the lease, or refuses.
LEMMA ScriptInv ==
  ASSUME Inv, NEW p \in Procs, RenewScript(p)
  PROVE  Inv'
<1>1. CASE holder = p /\ Grant(p) /\ at' = [at EXCEPT ![p] = "renewed"]
  BY <1>1, DurationsAssumption
     DEF RenewScript, Grant, Inv, TypeOK, LeaseAge, Leading, Loop, bounds
<1>2. CASE at' = [at EXCEPT ![p] = "refused"] /\ UNCHANGED <<redis, own>>
  BY <1>2, DurationsAssumption
     DEF RenewScript, Inv, TypeOK, LeaseAge, Leading, Loop, redis, bounds
<1> QED
  BY <1>1, <1>2 DEF RenewScript

\* A process that is gone has no lease to outlive.
LEMMA GoneInv ==
  ASSUME Inv, NEW p \in Procs, Gone(p), UNCHANGED left, crashes' \in Nat, errors' \in Nat
  PROVE  Inv'
BY DurationsAssumption DEF Gone, Move, Inv, TypeOK, LeaseAge, Leading, Loop

\* A failed call is tried again only while the lease may still be valid.
LEMMA CallFailsInv ==
  ASSUME Inv, NEW p \in Procs, CallFails(p)
  PROVE  Inv'
<1>1. crashes' \in Nat /\ errors' \in Nat
  BY DEF CallFails, Inv, TypeOK
<1>2. CASE since[p] >= TTL /\ Gone(p) /\ UNCHANGED left
  BY <1>1, <1>2, GoneInv
<1>3. CASE since[p] < TTL /\ Move(p, "sleep", Interval) /\ UNCHANGED <<redis, since, own>>
  BY <1>1, <1>3, DurationsAssumption
     DEF CallFails, Move, Inv, TypeOK, LeaseAge, Leading, Loop, redis
<1> QED
  BY <1>2, <1>3 DEF CallFails

\* A graceful stop, and the start of a process that was stopped.
LEMMA StopStartInv ==
  ASSUME Inv, NEW p \in Procs, Release(p) \/ Start(p)
  PROVE  Inv'
<1>1. CASE Release(p)
  BY <1>1, DurationsAssumption
     DEF Release, Move, Inv, TypeOK, LeaseAge, Leading, Loop, redis, bounds
<1>2. CASE Start(p)
  BY <1>2, DurationsAssumption
     DEF Start, Move, Inv, TypeOK, LeaseAge, Leading, Loop, redis, bounds
<1> QED
  BY <1>1, <1>2

\* Time takes from the lease what it adds to the time since last_ok.
LEMMA TickInv ==
  ASSUME Inv, Tick
  PROVE  Inv'
<1>1. TypeOK'
  BY DurationsAssumption DEF Tick, Inv, TypeOK, Timed, Leading, Loop, bounds
<1>2. ASSUME NEW p \in Procs
      PROVE  /\ at'[p] = at[p]
             /\ Timed(p) => timer'[p] = timer[p] - 1 /\ own'[p] = own[p] - 1
             /\ Leading(p) => since'[p] = since[p] + 1
             /\ timer[p] \in Nat /\ own[p] \in Int /\ since[p] \in Nat
  BY DEF Tick, Inv, TypeOK, bounds
<1>3. LeaseAge'
  BY <1>2, DurationsAssumption DEF Inv, LeaseAge, Timed, Leading, Loop
<1> QED
  BY <1>1, <1>3 DEF Inv

\* Every step keeps the invariant: one case per action.
LEMMA StepInv ==
  ASSUME Inv, [Next]_vars
  PROVE  Inv'
<1>1. CASE Tick
  BY <1>1, TickInv
<1>2. ASSUME NEW p \in Procs, Step(p) PROVE Inv'
  <2>1. ASSUME Refused(p) \/ Crash(p) PROVE Inv'
    BY <2>1, GoneInv DEF Refused, Crash, bounds, Inv, TypeOK
  <2> QED
    BY <1>2, <2>1, AcquireInv, ReplyInv, WakeInv, ScriptInv, CallFailsInv, StopStartInv DEF Step
<1>3. CASE UNCHANGED vars
  BY <1>3 DEF vars, redis, bounds, Inv, TypeOK, LeaseAge, Leading
<1> QED
  BY <1>1, <1>2, <1>3 DEF Next

\* The key, the processes and their clocks keep to their types: no step of
\* trading_leader.py leaves a timer below zero or takes a lease out of its range.
THEOREM TypesHold == Spec => []TypeOK
<1>1. Inv => TypeOK
  BY DEF Inv
<1> QED
  BY <1>1, InitInv, StepInv, PTL DEF Spec

\* What the renewal loop knows of its lease is right at every step
\* (TradingLeaderLease._renew_loop and last_ok).
THEOREM LeaseAgeKnown == Spec => []LeaseAge
<1>1. Inv => LeaseAge
  BY DEF Inv
<1> QED
  BY <1>1, InitInv, StepInv, PTL DEF Spec

\* However long the TTL, the interval and the calls are, a process that trades
\* outlives its lease by less than one interval and two calls.
THEOREM OverrunIsBounded == Spec => []OverrunBounded
<1>1. Inv => OverrunBounded
  BY DurationsAssumption DEF Inv, TypeOK, LeaseAge, OverrunBounded, Overrun, Leading, Loop
<1> QED
  BY <1>1, InitInv, StepInv, PTL DEF Spec

\* One step hands a lease that still runs to nobody: only a call of its own
\* owner, or the owner's end, changes who holds it.
LEMMA StepKeepsLease ==
  ASSUME Inv, [Next]_vars, holder \in Procs, left > 1, holder' # holder
  PROVE  at'[holder] \in {"down", "off"}
<1>0. at \in [Procs -> Loop \cup {"off", "down", "claimed"}] /\ left \in Nat
  BY DurationsAssumption DEF Inv, TypeOK
<1>1. ~Tick
  BY <1>0 DEF Tick
<1>2. ASSUME NEW p \in Procs, Step(p) PROVE at'[holder] \in {"down", "off"}
  <2>1. ~Acquire(p)
    BY HoldersAssumption DEF Acquire
  <2>2. ~(Acquired(p) \/ Wake(p) \/ Renewed(p) \/ Start(p))
    BY DEF Acquired, Wake, Renewed, Start, redis
  <2>3. ~RenewScript(p)
    BY DEF RenewScript, Grant, redis
  <2>4. ASSUME Gone(p) PROVE at'[holder] \in {"down", "off"}
    BY <1>0, <2>4 DEF Gone, Move
  <2>5. ASSUME Release(p) PROVE at'[holder] \in {"down", "off"}
    BY <1>0, <2>5 DEF Release, Move, redis
  <2>6. ASSUME CallFails(p) PROVE at'[holder] \in {"down", "off"}
    BY <2>4, <2>6 DEF CallFails, redis
  <2> QED
    BY <1>2, <2>1, <2>2, <2>3, <2>4, <2>5, <2>6 DEF Step, Refused, Crash
<1>3. CASE UNCHANGED vars
  BY <1>3 DEF vars, redis
<1> QED
  BY <1>1, <1>2, <1>3 DEF Next

\* No late call of a former leader, in whatever order calls arrive or fail,
\* touches the lease of its successor (the token check of the two scripts).
THEOREM LeaseStaysOwn == Spec => LeaseIsOwn
<1>1. Inv /\ [Next]_vars =>
        [(holder \in Procs /\ left > 1 /\ holder' # holder)
           => at'[holder] \in {"down", "off"}]_vars
  BY StepKeepsLease
<1> QED
  BY <1>1, InitInv, StepInv, PTL DEF Spec, LeaseIsOwn

===============================================================================
