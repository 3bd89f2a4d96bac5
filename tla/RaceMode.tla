------------------------------ MODULE RaceMode ------------------------------
(* Two browsers racing each other in a room (useRaceMode.ts and the way    *)
(* DinoRunner.tsx uses it): each holds what it knows of the opponent and   *)
(* decides the result of the race by itself. The handlers read what was    *)
(* rendered last (the refs of the hook), an effect of the hook runs with a *)
(* render, and the server relays a message only between two sockets that   *)
(* are up (gameSocket.send drops the others in silence).                   *)
EXTENDS Integers, Sequences

CONSTANTS
  Host, Guest,   \* the players
  RaceTypes,     \* the kinds of race: a subset of AllTypes
  Scores,        \* final scores
  CountFrom,     \* the countdown starts here (3)
  MaxDrops,      \* bound: how often a socket goes down
  MaxReports,    \* bound: race_status messages of a player while it plays
  None

AllTypes == {"first_to_win", "survival", "best_score"}
Players == {Host, Guest}
Other(p) == IF p = Host THEN Guest ELSE Host

ASSUME PlayersAssumption == Host # Guest /\ None \notin Players
ASSUME NoneAssumption == None \notin {"won", "lost", "tied", "win", "loss"}
ASSUME TypesAssumption == RaceTypes \subseteq AllTypes
ASSUME NumbersAssumption == /\ Scores \subseteq Nat /\ Scores # {}
                            /\ CountFrom \in Nat \ {0}
                            /\ MaxDrops \in Nat /\ MaxReports \in Nat

VARIABLES
  race,     \* the room's race_type; lateScore: the game calls reportScore
            \* after reportFinish, as DinoRunner does; sync: the hook's syncStart
  state,    \* the React state of the hook, per player
  seen,     \* state as rendered last: the refs and the closures of effects
  report,   \* what reportFinish was called with (localScoreRef is its score)
  reports,  \* race_status messages sent, per player
  inbox,    \* the messages on their way to a player
  up,       \* whose game socket is connected
  drops

\* The games with a sync start offer no race to the first win.
Games == {g \in [type : RaceTypes, lateScore : BOOLEAN, sync : BOOLEAN] :
            /\ g.lateScore => g.sync
            /\ g.sync => g.type # "first_to_win"}

vars == <<race, state, seen, report, reports, inbox, up, drops>>
net == <<up, drops>>

NoReport == [result |-> None, score |-> None]
NoOpponent == [finished |-> FALSE, result |-> None, score |-> None]

Init ==
  /\ race \in Games
  /\ state = [p \in Players |->
               [opponent |-> NoOpponent, result |-> None, finished |-> FALSE,
                pending |-> None, ready |-> FALSE, oppReady |-> FALSE,
                seed |-> None, count |-> None, started |-> ~race.sync]]
  /\ seen = state
  /\ report = [p \in Players |-> NoReport]
  /\ reports = [p \in Players |-> 0]
  /\ inbox = [p \in Players |-> <<>>]
  /\ up = [p \in Players |-> TRUE]
  /\ drops = 0

-----------------------------------------------------------------------------
\* inbox after p sends msgs to the room, one after the other.
Sent(p, msgs) ==
  IF up[p] /\ up[Other(p)]
  THEN [inbox EXCEPT ![Other(p)] = @ \o msgs]
  ELSE inbox

\* resolveHighestScore: a score that is not known counts as 0.
Known(n) == IF n = None THEN 0 ELSE n
Compared(mine, theirs) ==
  IF Known(mine) > Known(theirs) THEN "won"
  ELSE IF Known(theirs) > Known(mine) THEN "lost"
  ELSE "tied"

\* What a game reports that bears on its kind of race: in a survival race one
\* only ever dies, and a score counts only where scores are compared.
Outcomes == IF race.type = "first_to_win" THEN {"win", "loss"} ELSE {"loss"}
Counted == IF race.type = "best_score" THEN Scores ELSE {CHOOSE n \in Scores : TRUE}

-----------------------------------------------------------------------------
\* sendReady
SendReady(p) ==
  /\ race.sync /\ ~state[p].ready
  /\ state' = [state EXCEPT ![p].ready = TRUE]
  /\ inbox' = Sent(p, <<[type |-> "race_ready"]>>)
  /\ UNCHANGED <<race, seen, report, reports, net>>

\* Mutant: one that is ready does not wait for the other.
RenderMutantAlone(p) ==
  /\ seen[p] # state[p]
  /\ IF race.sync /\ state[p].ready /\ state[p].count = None
     THEN /\ state' = [state EXCEPT ![p].seed = p, ![p].count = CountFrom]
          /\ inbox' = Sent(p, <<[type |-> "race_countdown", seed |-> p]>>)
     ELSE UNCHANGED <<state, inbox>>
  /\ seen' = [seen EXCEPT ![p] = state[p]]
  /\ UNCHANGED <<race, report, reports, net>>

\* React renders the state; the effect of the sync start runs with it: when
\* both are ready and no countdown runs here, this side draws the seed.
Render(p) ==
  /\ seen[p] # state[p]
  /\ IF race.sync /\ state[p].ready /\ state[p].oppReady /\ state[p].count = None
     THEN /\ state' = [state EXCEPT ![p].seed = p, ![p].count = CountFrom]
          /\ inbox' = Sent(p, <<[type |-> "race_countdown", seed |-> p]>>)
     ELSE UNCHANGED <<state, inbox>>
  /\ seen' = [seen EXCEPT ![p] = state[p]]
  /\ UNCHANGED <<race, report, reports, net>>

\* A second of the countdown; at 0 the game starts.
Tick(p) ==
  /\ state[p].count # None /\ state[p].count > 0
  /\ state' = [state EXCEPT ![p].count = @ - 1,
                            ![p].started = @ \/ state[p].count = 1]
  /\ UNCHANGED <<race, seen, report, reports, inbox, net>>

\* reportScore while the game runs.
ReportScore(p, n) ==
  /\ state[p].started /\ ~state[p].finished
  /\ reports[p] < MaxReports
  /\ reports' = [reports EXCEPT ![p] = @ + 1]
  /\ inbox' = Sent(p, <<[type |-> "race_status", score |-> n]>>)
  /\ UNCHANGED <<race, state, seen, report, net>>

\* Mutant: scores are compared before the opponent is done.
AtFinishMutantEager(p, result, n) ==
  IF race.type = "best_score"
  THEN [state[p] EXCEPT !.result = Compared(n, seen[p].opponent.score)]
  ELSE state[p]

\* What reportFinish makes of the race, by what was last rendered.
AtFinish(p, result, n) ==
  LET opp == seen[p].opponent IN
  CASE race.type = "first_to_win" /\ result = "win" /\ ~opp.finished ->
         [state[p] EXCEPT !.result = "won"]
    [] race.type = "first_to_win" /\ result = "loss"
         /\ opp.finished /\ opp.result = "win" ->
         [state[p] EXCEPT !.result = "lost"]
    [] race.type = "survival" /\ ~opp.finished ->
         [state[p] EXCEPT !.pending = "lost"]
    [] race.type = "survival" /\ opp.finished /\ opp.result = "loss" ->
         [state[p] EXCEPT !.result = "won"]
    [] race.type = "best_score" /\ opp.finished ->
         [state[p] EXCEPT !.result = Compared(n, opp.score)]
    [] OTHER -> state[p]

\* reportFinish, once per game.
Finish(p, result, n) ==
  /\ state[p].started /\ ~state[p].finished
  /\ state' = [state EXCEPT ![p] = [AtFinish(p, result, n) EXCEPT !.finished = TRUE]]
  /\ report' = [report EXCEPT ![p] = [result |-> result, score |-> n]]
  /\ inbox' = Sent(p,
       <<[type |-> "race_finished", result |-> result, score |-> n]>>
       \o (IF race.lateScore THEN <<[type |-> "race_status", score |-> n]>>
           ELSE <<>>))
  /\ UNCHANGED <<race, seen, reports, net>>

\* Mutant: the first opponent to finish wins, however.
AtOpponentFinishMutantAny(p, msg) ==
  LET told == [state[p] EXCEPT !.opponent = [finished |-> TRUE,
                                result |-> msg.result, score |-> msg.score]]
  IN IF race.type = "first_to_win" /\ ~seen[p].finished
     THEN [told EXCEPT !.result = "lost"] ELSE told

\* What the handler of race_finished makes of the race.
AtOpponentFinish(p, msg) ==
  LET told == [state[p] EXCEPT !.opponent = [finished |-> TRUE,
                                result |-> msg.result, score |-> msg.score]]
  IN
  CASE race.type = "first_to_win" /\ msg.result = "win" /\ ~seen[p].finished ->
         [told EXCEPT !.result = "lost"]
    [] race.type = "survival" /\ msg.result = "loss" /\ ~seen[p].finished ->
         [told EXCEPT !.result = "won"]
    [] race.type = "survival" /\ msg.result = "loss" /\ seen[p].finished
         /\ seen[p].result # "won" ->
         [told EXCEPT !.result = "lost", !.pending = None]
    [] race.type = "best_score" /\ seen[p].finished ->
         [told EXCEPT !.result = Compared(report[p].score, msg.score)]
    [] OTHER -> told

\* The handler of game:action, without the answers to one's own messages.
Receive(p) ==
  /\ inbox[p] # <<>>
  /\ LET msg == Head(inbox[p]) IN
     state' = [state EXCEPT ![p] =
       CASE msg.type = "race_ready" -> [@ EXCEPT !.oppReady = TRUE]
         [] msg.type = "race_countdown" ->
              [@ EXCEPT !.seed = msg.seed, !.count = CountFrom]
         [] msg.type = "race_status" ->
              [@ EXCEPT !.opponent = [NoOpponent EXCEPT !.score = msg.score]]
         [] msg.type = "race_finished" -> AtOpponentFinish(p, msg)]
  /\ inbox' = [inbox EXCEPT ![p] = Tail(@)]
  /\ UNCHANGED <<race, seen, report, reports, net>>

\* A socket closes, with all that was on its way to it; the client connects
\* again after 3 seconds and is not told what it missed.
Disconnect(p) ==
  /\ up[p] /\ drops < MaxDrops
  /\ up' = [up EXCEPT ![p] = FALSE]
  /\ drops' = drops + 1
  /\ inbox' = [inbox EXCEPT ![p] = <<>>]
  /\ UNCHANGED <<race, state, seen, report, reports>>

Reconnect(p) ==
  /\ ~up[p]
  /\ up' = [up EXCEPT ![p] = TRUE]
  /\ UNCHANGED <<race, state, seen, report, reports, inbox, drops>>

Next == \E p \in Players :
  \/ SendReady(p) \/ Render(p) \/ Tick(p) \/ Receive(p)
  \/ Disconnect(p) \/ Reconnect(p)
  \/ \E n \in Counted : \/ ReportScore(p, n)
                        \/ \E result \in Outcomes : Finish(p, result, n)

Spec == Init /\ [][Next]_vars

-----------------------------------------------------------------------------
Results == {"won", "lost", "tied", None}
Opponents == [finished : BOOLEAN, result : {"win", "loss", None},
              score : Scores \cup {None}]
Views == [opponent : Opponents, result : Results, finished : BOOLEAN,
          pending : {"lost", None}, ready : BOOLEAN, oppReady : BOOLEAN,
          seed : Players \cup {None}, count : (0..CountFrom) \cup {None},
          started : BOOLEAN]
Messages ==
  [type : {"race_ready"}] \cup [type : {"race_countdown"}, seed : Players]
  \cup [type : {"race_status"}, score : Scores]
  \cup [type : {"race_finished"}, result : {"win", "loss"}, score : Scores]

TypeOK ==
  /\ race \in Games
  /\ state \in [Players -> Views]
  /\ seen \in [Players -> Views]
  /\ report \in [Players -> [result : {"win", "loss", None},
                            score : Scores \cup {None}]]
  /\ reports \in [Players -> 0..MaxReports]
  /\ inbox \in [Players -> Seq(Messages)]
  /\ up \in [Players -> BOOLEAN]
  /\ drops \in 0..MaxDrops

\* Whatever was lost, late or seen too late: two players of a race for the
\* best score that both show a result show the two sides of one result.
BestScoreAgrees ==
  race.type = "best_score" =>
    \A p \in Players :
      /\ state[p].result = "won" => state[Other(p)].result \in {"lost", None}
      /\ state[p].result = "lost" => state[Other(p)].result \in {"won", None}
      /\ state[p].result = "tied" => state[Other(p)].result \in {"tied", None}

\* Nobody loses a race to the first win against one who has not won, and
\* nobody survives one who is still alive.
ResultIsEarned ==
  \A p \in Players :
    LET theirs == report[Other(p)].result IN
    /\ race.type = "first_to_win" /\ state[p].result = "lost" => theirs = "win"
    /\ race.type = "survival" /\ state[p].result = "won" => theirs = "loss"

\* With the sync start, nobody plays before both have said to be ready and a
\* seed is installed.
StartsTogether ==
  race.sync => \A p \in Players :
    state[p].started => /\ state[p].seed # None
                        /\ \A q \in Players : state[q].ready

\* Nothing is on its way, and everything was rendered.
Settled == \A p \in Players : inbox[p] = <<>> /\ seen[p] = state[p]

\* What the comment at the sync start wants (useRaceMode.ts:373): one side
\* draws the seed. Two players that play, with nothing left to hear, have it.
SharedSeed ==
  Settled /\ drops = 0 /\ race.sync /\ (\A p \in Players : state[p].started) =>
    state[Host].seed = state[Guest].seed

\* RaceOverlay.tsx:10: both play until done, the highest score wins. Once both
\* are done and nothing was lost, both have their result.
BestScoreDecided ==
  Settled /\ drops = 0 /\ race.type = "best_score"
    /\ (\A p \in Players : state[p].finished) =>
      \A p \in Players : state[p].result # None

\* MultiplayerWrapper.tsx:36: the last player standing wins. Once both are
\* dead and nothing was lost, one of them has won.
SurvivalDecided ==
  Settled /\ drops = 0 /\ race.type = "survival"
    /\ (\A p \in Players : state[p].finished) =>
      \E p \in Players : state[p].result = "won"

=============================================================================
