----------------------------- MODULE TradingLeader -----------------------------
(***************************************************************************)
(* The Redis lease that lets one process trade: acquired at start, renewed *)
(* by a loop that fails closed, released at a graceful stop. Time passes   *)
(* in ticks and every duration counts down, so no clock is bounded.        *)
(***************************************************************************)
EXTENDS Integers

CONSTANTS
  Procs,        \* processes of a role that trades
  NoOne, Dead,  \* no lease, and the lease of a process that is gone
  TTL, Interval,
  MaxDelay,     \* the longest a call to Redis takes to answer or to fail
  MaxCrashes,   \* bound: crashes of a process
  MaxErrors     \* bound: calls to Redis that fail

ASSUME DurationsAssumption ==
  TTL \in Nat \ {0} /\ Interval \in Nat \ {0} /\ MaxDelay \in Nat
ASSUME HoldersAssumption == NoOne \notin Procs /\ Dead \notin Procs /\ NoOne # Dead
ASSUME BoundsAssumption == MaxCrashes \in Nat /\ MaxErrors \in Nat

VARIABLES
  holder,  \* whose token the key holds
  left,    \* the key's time to live
  at,      \* where each process stands
  timer,   \* what is left of its sleep, or of its call to Redis
  since,   \* time since last_ok
  own,     \* what is left of the last lease Redis granted it; below zero once over
  crashes, errors

redis == <<holder, left>>
bounds == <<crashes, errors>>
vars == <<redis, at, timer, since, own, bounds>>

Loop == {"sleep", "sent", "renewed", "refused"}
Leading(p) == at[p] \in Loop
Timed(p)   == Leading(p) \/ at[p] = "claimed"

TypeOK ==
  /\ holder \in Procs \cup {NoOne, Dead} /\ left \in 0..TTL
  /\ at \in [Procs -> Loop \cup {"off", "down", "claimed"}]
  /\ timer \in [Procs -> Nat] /\ since \in [Procs -> Nat] /\ own \in [Procs -> Int]
  /\ crashes \in Nat /\ errors \in Nat

Init ==
  /\ holder = NoOne /\ left = 0
  /\ at = [p \in Procs |-> "down"]
  /\ timer = [p \in Procs |-> 0] /\ since = timer /\ own = timer
  /\ crashes = 0 /\ errors = 0

Move(p, where, time) ==
  at' = [at EXCEPT ![p] = where] /\ timer' = [timer EXCEPT ![p] = time]

\* (Definitions whose name has "Mutant" in it are slips of the definition that
\* follows them; they are used to see that a property notices.)
GrantMutantAdds(p) ==
  /\ holder' = p /\ left' = left + TTL
  /\ own' = [own EXCEPT ![p] = TTL]

\* Any expiry of the key starts with SET or EXPIRE by the process it belongs to.
Grant(p) ==
  /\ holder' = p /\ left' = TTL
  /\ own' = [own EXCEPT ![p] = TTL]

AcquireMutantQuits(p) ==
  /\ at[p] = "down"
  /\ IF holder = NoOne
       THEN Grant(p) /\ Move(p, "claimed", MaxDelay)
       ELSE Move(p, "off", 0) /\ UNCHANGED <<redis, own>>
  /\ UNCHANGED <<since, bounds>>

\* Finding the key taken, the process exits with an error and is started again.
Acquire(p) ==
  /\ at[p] = "down"
  /\ holder = NoOne
  /\ Grant(p)
  /\ Move(p, "claimed", MaxDelay)
  /\ UNCHANGED <<since, bounds>>

\* The process starts trading, and its renewal loop, with last_ok the present.
Acquired(p) ==
  /\ at[p] = "claimed"
  /\ Move(p, "sleep", Interval)
  /\ since' = [since EXCEPT ![p] = 0]
  /\ UNCHANGED <<redis, own, bounds>>

Wake(p) ==
  /\ at[p] = "sleep" /\ timer[p] = 0
  /\ Move(p, "sent", MaxDelay)
  /\ UNCHANGED <<redis, since, own, bounds>>

\* Redis runs the script when the call reaches it.
RenewScript(p) ==
  /\ at[p] = "sent"
  /\ \/ holder = p /\ Grant(p) /\ at' = [at EXCEPT ![p] = "renewed"]
     \/ holder # p /\ at' = [at EXCEPT ![p] = "refused"] /\ UNCHANGED <<redis, own>>
  /\ UNCHANGED <<timer, since, bounds>>

Renewed(p) ==
  /\ at[p] = "renewed"
  /\ Move(p, "sleep", Interval)
  /\ since' = [since EXCEPT ![p] = 0]
  /\ UNCHANGED <<redis, own, bounds>>

\* The process is gone at once (os._exit); the key stays until it expires.
Gone(p) ==
  /\ Move(p, "down", 0)   \* the supervisor restarts it
  /\ since' = [since EXCEPT ![p] = 0] /\ own' = [own EXCEPT ![p] = 0]
  /\ holder' = IF holder = p THEN Dead ELSE holder

Refused(p) ==
  /\ at[p] = "refused"
  /\ Gone(p)
  /\ UNCHANGED <<left, bounds>>

CallFailsMutantRetriesForEver(p) ==
  /\ at[p] \in {"sent", "renewed", "refused"}
  /\ Move(p, "sleep", Interval)
  /\ errors < MaxErrors /\ errors' = errors + 1
  /\ UNCHANGED <<redis, since, own, crashes>>

\* The call raises, whether or not Redis ran it: the loop tries again unless
\* the lease must be over.
CallFails(p) ==
  /\ at[p] \in {"sent", "renewed", "refused"}
  /\ \/ since[p] >= TTL /\ Gone(p) /\ UNCHANGED left
     \/ since[p] < TTL /\ Move(p, "sleep", Interval) /\ UNCHANGED <<redis, since, own>>
  /\ errors < MaxErrors /\ errors' = errors + 1
  /\ UNCHANGED crashes

ReleaseMutantAnyToken(p) ==
  /\ Leading(p)
  /\ Move(p, "off", 0)
  /\ since' = [since EXCEPT ![p] = 0] /\ own' = [own EXCEPT ![p] = 0]
  /\ holder' = NoOne /\ left' = 0
  /\ UNCHANGED bounds

\* The renewal task is cancelled, wherever it stands, and the key deleted if it
\* still is this process's; if that call fails, the key stays until it expires.
Release(p) ==
  /\ Leading(p)
  /\ Move(p, "off", 0)
  /\ since' = [since EXCEPT ![p] = 0] /\ own' = [own EXCEPT ![p] = 0]
  /\ \/ /\ IF holder = p THEN holder' = NoOne /\ left' = 0 ELSE UNCHANGED redis
        /\ UNCHANGED bounds
     \/ /\ holder' = (IF holder = p THEN Dead ELSE holder) /\ UNCHANGED left
        /\ errors < MaxErrors /\ errors' = errors + 1 /\ UNCHANGED crashes

Start(p) ==
  /\ at[p] = "off"
  /\ Move(p, "down", 0)
  /\ UNCHANGED <<redis, since, own, bounds>>

Crash(p) ==
  /\ Timed(p)
  /\ Gone(p)
  /\ crashes < MaxCrashes /\ crashes' = crashes + 1
  /\ UNCHANGED <<left, errors>>

\* Time passes when nothing is due now.
Tick ==
  /\ \A p \in Procs : Timed(p) => timer[p] > 0
  /\ left' = IF left > 0 THEN left - 1 ELSE 0
  /\ holder' = IF left' = 0 THEN NoOne ELSE holder
  /\ timer' = [p \in Procs |-> IF Timed(p) THEN timer[p] - 1 ELSE timer[p]]
  /\ since' = [p \in Procs |-> IF Leading(p) THEN since[p] + 1 ELSE since[p]]
  /\ own' = [p \in Procs |-> IF Timed(p) THEN own[p] - 1 ELSE own[p]]
  /\ UNCHANGED <<at, bounds>>

Step(p) ==
  \/ Acquire(p) \/ Acquired(p) \/ Wake(p) \/ RenewScript(p) \/ Renewed(p) \/ Refused(p)
  \/ CallFails(p) \/ Release(p) \/ Start(p)
  \/ Crash(p)

Next == Tick \/ \E p \in Procs : Step(p)

Spec == Init /\ [][Next]_vars

\* Time passes, calls reach Redis and answers arrive; a process that failed or
\* found the key taken is started again by its supervisor (Restart=on-failure).
Fairness ==
  /\ WF_vars(Tick)
  /\ \A p \in Procs :
       /\ WF_vars(Acquire(p)) /\ WF_vars(Acquired(p)) /\ WF_vars(Wake(p))
       /\ WF_vars(RenewScript(p)) /\ WF_vars(Renewed(p)) /\ WF_vars(Refused(p))

FairSpec == Spec /\ Fairness

-------------------------------------------------------------------------------
(* Properties.                                                              *)

\* Exactly one process trades: a leader that loses the lease is gone before
\* another takes over (trading_leader.py, CHANGELOG.md).
OneLeader == \A p, q \in Procs : Leading(p) /\ Leading(q) => p = q

\* What a leader can tell of its lease: last_ok is at most one call younger than
\* the lease, and the loop acts on it within an interval and a call.
LeaseAge ==
  \A p \in Procs :
    /\ at[p] \in {"claimed", "renewed"} => own[p] >= TTL - MaxDelay + timer[p]
    /\ Leading(p) => own[p] + since[p] >= TTL - MaxDelay
    /\ at[p] = "sleep" => since[p] + timer[p] < TTL + Interval
    /\ at[p] \in {"sent", "renewed", "refused"} =>
         since[p] + timer[p] < TTL + Interval + MaxDelay
    /\ at[p] \in {"claimed", "sent", "renewed", "refused"} => timer[p] <= MaxDelay

\* How long a leader can outlive its lease: an interval and two calls, counted
\* from the failure of the renewal that noticed nothing yet.
Overrun == Interval + 2 * MaxDelay
OverrunBounded == \A p \in Procs : Leading(p) => own[p] + Overrun > 0

\* A lease that has not run out changes hands only when its owner gives it up
\* or is gone: no late call of a former leader touches its successor's.
LeaseIsOwn ==
  [][(holder \in Procs /\ left > 1 /\ holder' # holder)
       => at'[holder] \in {"down", "off"}]_vars

\* The lease of a dead leader does not keep the others out for ever: while a
\* process is to be started again, one trades in the end.
Succession == \A p \in Procs : at[p] = "down" ~> \E q \in Procs : Leading(q)

===============================================================================
