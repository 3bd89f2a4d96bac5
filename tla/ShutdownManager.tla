---------------------------- MODULE ShutdownManager ----------------------------
(***************************************************************************)
(* The in-flight barrier of a graceful shutdown: a count of the orders     *)
(* being executed, a flag that keeps new ones out, and the requests        *)
(* (the process's own shutdown, the system routes) that wait for the       *)
(* count to reach zero. Each operation is an action conjunct of the module *)
(* that executes orders.                                                   *)
(***************************************************************************)
EXTENDS Naturals

CONSTANT Requests  \* callers of prepare_shutdown

VARIABLES
  shuttingDown,
  inFlight,
  reply      \* what each request has been told so far

shutdown == <<shuttingDown, inFlight, reply>>

Waiting == {"waiting",  \* for the orders in flight
            "left"}     \* for them still, though its shutdown was cancelled
Called == {"woken",     \* the last order is done, the wake-up not yet served
           "late"}      \* the same, and its shutdown was cancelled since
Reply == Waiting \cup Called \cup {"none", "ready", "timeout",
          "stale"}      \* told ready of a shutdown that was cancelled

ShutdownTypeOK ==
  /\ shuttingDown \in BOOLEAN
  /\ inFlight \in Nat
  /\ reply \in [Requests -> Reply]

ShutdownInit ==
  /\ shuttingDown = FALSE
  /\ inFlight = 0
  /\ reply = [r \in Requests |-> "none"]

\* (Definitions whose name has "Mutant" in it are slips of the definition that
\* follows them; they are used to see that a property notices.)
IncrementInFlightMutantUnguarded ==
  /\ inFlight' = inFlight + 1
  /\ UNCHANGED <<shuttingDown, reply>>

\* Raises once a shutdown is asked for: no transition then.
IncrementInFlight ==
  /\ ~shuttingDown
  /\ inFlight' = inFlight + 1
  /\ UNCHANGED <<shuttingDown, reply>>

DecrementInFlightMutantSilent ==
  /\ inFlight' = IF inFlight > 0 THEN inFlight - 1 ELSE 0
  /\ UNCHANGED <<shuttingDown, reply>>

DecrementInFlight ==
  /\ inFlight' = IF inFlight > 0 THEN inFlight - 1 ELSE 0
  /\ reply' = [r \in Requests |->
                 IF shuttingDown /\ inFlight' = 0 /\ reply[r] \in Waiting
                   THEN "woken" ELSE reply[r]]
  /\ UNCHANGED shuttingDown

PrepareShutdown(r) ==
  /\ reply[r] \notin Waiting \cup Called
  /\ shuttingDown' = TRUE
  /\ reply' = [reply EXCEPT ![r] = IF inFlight = 0 THEN "ready" ELSE "waiting"]
  /\ UNCHANGED inFlight

\* The request that was woken goes on, and does not look at the flag again.
Answer(r) ==
  /\ reply[r] \in Called
  /\ reply' = [reply EXCEPT ![r] = IF @ = "woken" THEN "ready" ELSE "stale"]
  /\ UNCHANGED <<shuttingDown, inFlight>>

TimeOut(r) ==
  /\ reply[r] \in Waiting
  /\ reply' = [reply EXCEPT ![r] = "timeout"]
  /\ UNCHANGED <<shuttingDown, inFlight>>

\* What a cancel makes of a request: it is told nothing, and answers already
\* given no longer count.
AfterCancel(s) ==
  CASE s \in Waiting -> "left" [] s \in Called -> "late" [] OTHER -> "none"

CancelShutdown ==
  /\ shuttingDown
  /\ shuttingDown' = FALSE
  /\ reply' = [r \in Requests |-> AfterCancel(reply[r])]
  /\ UNCHANGED inFlight

===============================================================================
