--------------------------- MODULE RaceModeProofs ---------------------------
(* For any scores, countdown, bounds and kinds of race: two players never   *)
(* show results that contradict each other, no result is unearned, and with *)
(* the sync start nobody plays alone.                                       *)
EXTENDS RaceMode, SequenceTheorems, TLAPS

(* What a player knows of the other comes from messages, late or lost, so   *)
(* the invariant is about those: whatever they say is still true when they  *)
(* arrive, and when what they made of the state is rendered.                *)

\* The messages that p may hear now.
Truths(p) ==
  {m \in Messages :
     /\ m.type = "race_ready" => state[Other(p)].ready
     /\ m.type = "race_countdown" => \A q \in Players : state[q].ready
     /\ m.type = "race_finished" => /\ state[Other(p)].finished
                                    /\ report[Other(p)].result = m.result
                                    /\ report[Other(p)].score = m.score}

MessagesTrue == \A p \in Players : inbox[p] \in Seq(Truths(p))

\* What a view v of p says of the opponent.
KnowsTruth(p, v) ==
  v.opponent.finished => /\ state[Other(p)].finished
                         /\ v.opponent.result = report[Other(p)].result
                         /\ v.opponent.score = report[Other(p)].score

ViewsTrue ==
  \A p \in Players :
    /\ KnowsTruth(p, state[p]) /\ KnowsTruth(p, seen[p])
    /\ seen[p].finished => state[p].finished
    /\ state[p].finished <=> report[p].result # None
    /\ state[p].oppReady => state[Other(p)].ready

\* A result of a race for the best score compares what both have reported.
ResultsCompare ==
  race.type = "best_score" =>
    \A p \in Players : state[p].result # None =>
      /\ state[p].finished /\ state[Other(p)].finished
      /\ state[p].result = Compared(report[p].score, report[Other(p)].score)

\* A countdown runs for both only.
CountsTogether ==
  race.sync => \A p \in Players :
    state[p].count # None => /\ state[p].seed # None
                             /\ \A q \in Players : state[q].ready

IInv == /\ TypeOK /\ MessagesTrue /\ ViewsTrue /\ ResultsCompare
        /\ ResultIsEarned /\ CountsTogether /\ StartsTogether

-----------------------------------------------------------------------------
\* Of two players each is the other of the other.
LEMMA OthersAre ==
  /\ \A p \in Players : Other(p) \in Players /\ Other(p) # p /\ Other(Other(p)) = p
  /\ \A p, q \in Players : q # p => q = Other(p)
BY PlayersAssumption DEF Players, Other

\* Messages that may be heard may still be heard by one who may hear more.
LEMMA SeqGrows ==
  ASSUME NEW S, NEW T, S \subseteq T, NEW s \in Seq(S)
  PROVE  s \in Seq(T)
<1>1. s \in [1..Len(s) -> T]
  BY LenProperties
<1>2. QED
  BY <1>1, SeqDef, LenProperties

\* What is true of the messages stays true: nobody takes back to be ready,
\* to have finished, or what was reported then.
LEMMA TruthLasts ==
  ASSUME \A q \in Players :
           /\ state[q].ready => state'[q].ready
           /\ state[q].finished => state'[q].finished /\ report'[q] = report[q]
  PROVE  \A p \in Players : Truths(p) \subseteq Truths(p)'
BY OthersAre DEF Truths, Messages

\* p sends msgs, all of them true after the step.
LEMMA SentOK ==
  ASSUME MessagesTrue, \A q \in Players : Truths(q) \subseteq Truths(q)',
         NEW p \in Players, NEW msgs \in Seq(Truths(Other(p))'),
         inbox \in [Players -> Seq(Messages)], inbox' = Sent(p, msgs)
  PROVE  MessagesTrue' /\ inbox' \in [Players -> Seq(Messages)]
<1>1. \A q \in Players : inbox[q] \in Seq(Truths(q)')
  BY SeqGrows DEF MessagesTrue
<1>2. inbox[Other(p)] \o msgs \in Seq(Truths(Other(p))')
  BY <1>1, OthersAre, ConcatProperties
<1>3. inbox' = inbox \/ inbox' = [inbox EXCEPT ![Other(p)] = @ \o msgs]
  BY DEF Sent
<1>4. ASSUME NEW q \in Players PROVE inbox'[q] \in Seq(Truths(q)')
  BY <1>1, <1>2, <1>3, OthersAre
<1>5. \A q \in Players : inbox'[q] \in Seq(Messages)
  BY <1>4, SeqGrows DEF Truths
<1>6. inbox' \in [Players -> Seq(Messages)]
  BY <1>3, <1>5
<1>7. QED
  BY <1>4, <1>6 DEF MessagesTrue

\* p is at v from now on, which has forgotten nothing, knows only what is true
\* and has no result but an earned one.
LEMMA MovesOK ==
  ASSUME IInv, NEW p \in Players, NEW v \in Views, state' = [state EXCEPT ![p] = v],
         UNCHANGED <<race, report>>, seen' = seen \/ seen' = [seen EXCEPT ![p] = state[p]],
         state[p].ready => v.ready, v.finished = state[p].finished,
         KnowsTruth(p, v), v.oppReady => state[Other(p)].ready,
         \/ v.result = state[p].result
         \/ /\ race.type = "best_score" =>
                 /\ v.finished /\ state[Other(p)].finished
                 /\ v.result = Compared(report[p].score, report[Other(p)].score)
            /\ race.type = "first_to_win" /\ v.result = "lost" => report[Other(p)].result = "win"
            /\ race.type = "survival" /\ v.result = "won" => report[Other(p)].result = "loss",
         race.sync /\ (v.count # None \/ v.started) =>
           v.seed # None /\ v.ready /\ state[Other(p)].ready
  PROVE  /\ state' \in [Players -> Views] /\ seen' \in [Players -> Views]
         /\ ViewsTrue' /\ ResultsCompare' /\ ResultIsEarned' /\ CountsTogether' /\ StartsTogether'
         /\ \A q \in Players : Truths(q) \subseteq Truths(q)'
<1>1. state \in [Players -> Views] /\ seen \in [Players -> Views]
  BY DEF IInv, TypeOK
<1>2. state'[p] = v /\ state'[Other(p)] = state[Other(p)]
  BY <1>1, OthersAre
<1>3. \A q \in Players : q = p \/ q = Other(p)
  BY OthersAre
<1>4. \A q \in Players : state[q].ready => state'[q].ready
  BY <1>2, <1>3
<1>5. \A q \in Players : state'[q].finished = state[q].finished
  BY <1>2, <1>3
<1>6. \A q \in Players : Truths(q) \subseteq Truths(q)'
  BY <1>4, <1>5, TruthLasts
<1>7. ViewsTrue'
  <2>1. \A q \in Players : KnowsTruth(q, state[q]) /\ KnowsTruth(q, seen[q])
    BY DEF IInv, ViewsTrue
  <2>2. (\A q \in Players : KnowsTruth(q, state[q]) /\ KnowsTruth(q, seen[q]))'
    <3>1. \A q \in Players : seen'[q] = seen[q] \/ seen'[q] = state[q]
      BY <1>1
    <3>2. \A w : \A q \in Players : KnowsTruth(q, w) => KnowsTruth(q, w)'
      BY <1>5, OthersAre DEF KnowsTruth
    <3>3. (\A q \in Players : KnowsTruth(q, seen[q]))'
      BY <2>1, <3>1, <3>2 DEF KnowsTruth
    <3>4. (\A q \in Players : KnowsTruth(q, state[q]))'
      BY <2>1, <3>2, <1>2, <1>3 DEF KnowsTruth
    <3>5. QED
      BY <3>3, <3>4
  <2>3. \A q \in Players :
          /\ seen[q].finished => state[q].finished
          /\ state[q].finished <=> report[q].result # None
          /\ state[q].oppReady => state[Other(q)].ready
    BY DEF IInv, ViewsTrue
  <2>4. \A q \in Players : state'[q].oppReady => state'[Other(q)].ready
    BY <2>3, <1>2, <1>3, <1>4, OthersAre
  <2>5. \A q \in Players : seen'[q] = seen[q] \/ seen'[q] = state[q]
    BY <1>1
  <2>6. QED
    BY <2>2, <2>3, <2>4, <2>5, <1>5 DEF ViewsTrue
<1>8. ResultsCompare'
  BY <1>2, <1>3, <1>5, OthersAre DEF IInv, ResultsCompare, Compared, Known
<1>9. ResultIsEarned'
  BY <1>2, <1>3, OthersAre DEF IInv, ResultIsEarned, Games
<1>10. CountsTogether' /\ StartsTogether'
  BY <1>2, <1>3, <1>4, OthersAre DEF IInv, CountsTogether, StartsTogether
<1>11. state' \in [Players -> Views] /\ seen' \in [Players -> Views]
  BY <1>1
<1>12. QED
  BY <1>6, <1>7, <1>8, <1>9, <1>10, <1>11

-----------------------------------------------------------------------------
(* The parts of the invariant over one step                                 *)

\* The inductive invariant, player by player
LEMMA IInvIs ==
  ASSUME IInv
  PROVE  /\ race \in Games /\ state \in [Players -> Views] /\ seen \in [Players -> Views]
         /\ report \in [Players -> [result : {"win", "loss", None},
                                    score : Scores \cup {None}]]
         /\ reports \in [Players -> 0..MaxReports]
         /\ inbox \in [Players -> Seq(Messages)] /\ up \in [Players -> BOOLEAN]
         /\ drops \in 0..MaxDrops /\ MaxReports \in Nat /\ MaxDrops \in Nat
         /\ CountFrom \in Nat \ {0}
BY NumbersAssumption DEF IInv, TypeOK

\* Nobody's state or report changes.
LEMMA StillOK ==
  ASSUME IInv, UNCHANGED <<race, state, report>>
  PROVE  /\ ResultsCompare' /\ ResultIsEarned' /\ CountsTogether' /\ StartsTogether'
         /\ \A q \in Players : Truths(q) \subseteq Truths(q)'
<1>1. \A q \in Players : Truths(q) \subseteq Truths(q)'
  BY DEF Truths
<1>2. ResultsCompare'
  BY DEF IInv, ResultsCompare, Compared, Known
<1>3. ResultIsEarned' /\ CountsTogether' /\ StartsTogether'
  BY DEF IInv, ResultIsEarned, CountsTogether, StartsTogether
<1>4. QED
  BY <1>1, <1>2, <1>3

\* What is seen is what was seen, or the state.
LEMMA SeenOK ==
  ASSUME IInv, UNCHANGED <<state, report>>, NEW p \in Players,
         seen' = seen \/ seen' = [seen EXCEPT ![p] = state[p]]
  PROVE  ViewsTrue' /\ seen' \in [Players -> Views]
<1>1. seen' \in [Players -> Views]
  BY IInvIs
<1>2. \A q \in Players : seen'[q] = seen[q] \/ seen'[q] = state[q]
  BY IInvIs
<1>3. (\A q \in Players : KnowsTruth(q, state[q]) /\ KnowsTruth(q, seen[q]))'
  BY <1>2 DEF IInv, ViewsTrue, KnowsTruth
<1>4. QED
  BY <1>1, <1>2, <1>3 DEF IInv, ViewsTrue

\* A player says that it is ready.
LEMMA SendReadyOK ==
  ASSUME IInv, NEW p \in Players, SendReady(p)
  PROVE  IInv'
<1> DEFINE v == [state[p] EXCEPT !.ready = TRUE]
           m == [type |-> "race_ready"]
<1>1. v \in Views /\ state' = [state EXCEPT ![p] = v]
  <2>1. state[p] \in Views
    BY IInvIs
  <2>2. v \in Views
    BY <2>1 DEF Views
  <2>3. state' = [state EXCEPT ![p] = v]
    BY DEF SendReady
  <2>4. QED
    BY <2>2, <2>3
<1>2. /\ v.ready /\ v.finished = state[p].finished /\ v.result = state[p].result
      /\ v.opponent = state[p].opponent /\ v.oppReady = state[p].oppReady
      /\ v.count = state[p].count /\ v.started = state[p].started /\ v.seed = state[p].seed
  BY IInvIs DEF Views
<1>3. KnowsTruth(p, v) /\ (v.oppReady => state[Other(p)].ready)
  BY <1>2 DEF IInv, ViewsTrue, KnowsTruth
<1>4. race.sync /\ (v.count # None \/ v.started) =>
        v.seed # None /\ v.ready /\ state[Other(p)].ready
  BY <1>2, OthersAre DEF IInv, CountsTogether, StartsTogether
<1> HIDE DEF v
<1>5. /\ state' \in [Players -> Views]
      /\ ViewsTrue' /\ ResultsCompare' /\ ResultIsEarned' /\ CountsTogether' /\ StartsTogether'
      /\ \A q \in Players : Truths(q) \subseteq Truths(q)'
  BY <1>1, <1>2, <1>3, <1>4, MovesOK DEF SendReady
<1>6. state'[p].ready
  BY <1>1, <1>2, IInvIs
<1>7. <<m>> \in Seq(Truths(Other(p))')
  <2>1. m \in Truths(Other(p))'
    BY <1>6, OthersAre DEF Truths, Messages
  <2>2. QED
    BY <2>1, SeqDef
<1>8. MessagesTrue' /\ inbox' \in [Players -> Seq(Messages)]
  BY <1>5, <1>7, SentOK, IInvIs DEF SendReady, IInv
<1>9. TypeOK'
  BY <1>5, <1>8, IInvIs DEF TypeOK, SendReady, net
<1>10. QED
  BY <1>5, <1>8, <1>9 DEF IInv

\* What is true of the messages to p that are left.
LEMMA HeardOK ==
  ASSUME IInv, NEW p \in Players, \A q \in Players : Truths(q) \subseteq Truths(q)',
         \/ inbox' = inbox
         \/ inbox[p] # <<>> /\ inbox' = [inbox EXCEPT ![p] = Tail(@)]
         \/ inbox' = [inbox EXCEPT ![p] = <<>>]
  PROVE  MessagesTrue' /\ inbox' \in [Players -> Seq(Messages)]
<1>1. \A q \in Players : inbox[q] \in Seq(Truths(q)')
  BY SeqGrows DEF IInv, MessagesTrue
<1>2. inbox[p] # <<>> => Tail(inbox[p]) \in Seq(Truths(p)')
  BY <1>1, HeadTailProperties
<1>3. <<>> \in Seq(Truths(p)')
  BY EmptySeq
<1>4. \A q \in Players : inbox'[q] \in Seq(Truths(q)')
  BY <1>1, <1>2, <1>3, IInvIs
<1>5. \A q \in Players : inbox'[q] \in Seq(Messages)
  BY <1>4, SeqGrows DEF Truths
<1>6. inbox' \in [Players -> Seq(Messages)]
  BY <1>5, IInvIs
<1>7. QED
  BY <1>4, <1>6 DEF MessagesTrue

\* A state whose opponent, result and end are as before.
LEMMA SameKnown ==
  ASSUME IInv, NEW p \in Players, NEW v \in Views,
         v.opponent = state[p].opponent, v.result = state[p].result,
         v.finished = state[p].finished, v.oppReady = state[p].oppReady
  PROVE  KnowsTruth(p, v) /\ (v.oppReady => state[Other(p)].ready)
BY DEF IInv, ViewsTrue, KnowsTruth

\* An effect runs for what it sees with the other's word that both are ready.
LEMMA RenderOK ==
  ASSUME IInv, NEW p \in Players, Render(p)
  PROVE  IInv'
<1> DEFINE m == [type |-> "race_countdown", seed |-> p]
<1>1. /\ UNCHANGED <<race, report, reports, net>>
      /\ seen' = [seen EXCEPT ![p] = state[p]]
  BY DEF Render
<1>2. CASE UNCHANGED <<state, inbox>>
  <2>1. /\ ResultsCompare' /\ ResultIsEarned' /\ CountsTogether' /\ StartsTogether'
        /\ \A q \in Players : Truths(q) \subseteq Truths(q)'
    BY <1>1, <1>2, StillOK
  <2>2. ViewsTrue' /\ seen' \in [Players -> Views]
    BY <1>1, <1>2, SeenOK
  <2>3. MessagesTrue' /\ inbox' \in [Players -> Seq(Messages)]
    <3>1. inbox' = inbox
      BY <1>2
    <3>2. QED
      BY <2>1, <3>1, HeardOK
  <2>4. TypeOK'
    BY <1>1, <1>2, <2>2, IInvIs DEF TypeOK, net
  <2>5. QED
    BY <2>1, <2>2, <2>3, <2>4 DEF IInv
<1>3. CASE /\ race.sync /\ state[p].ready /\ state[p].oppReady
           /\ state' = [state EXCEPT ![p].seed = p, ![p].count = CountFrom]
           /\ inbox' = Sent(p, <<m>>)
  <2> DEFINE v == [state[p] EXCEPT !.seed = p, !.count = CountFrom]
  <2>1. v \in Views /\ state' = [state EXCEPT ![p] = v]
    <3>1. state[p] \in Views
      BY IInvIs
    <3>2. p \in Players \cup {None} /\ CountFrom \in (0..CountFrom) \cup {None}
      BY IInvIs
    <3>3. v \in Views
      BY <3>1, <3>2 DEF Views
    <3>4. state' = [state EXCEPT ![p] = v]
      BY <1>3, IInvIs
    <3>5. QED
      BY <3>3, <3>4
  <2>2. /\ v.ready = state[p].ready /\ v.finished = state[p].finished
        /\ v.result = state[p].result /\ v.opponent = state[p].opponent
        /\ v.oppReady = state[p].oppReady /\ v.seed = p
    BY IInvIs DEF Views
  <2> HIDE DEF v
  <2>3. state[p].ready /\ state[Other(p)].ready
    BY <1>3 DEF IInv, ViewsTrue
  <2>4. /\ state' \in [Players -> Views] /\ seen' \in [Players -> Views]
        /\ ViewsTrue' /\ ResultsCompare' /\ ResultIsEarned' /\ CountsTogether' /\ StartsTogether'
        /\ \A q \in Players : Truths(q) \subseteq Truths(q)'
    BY <1>1, <2>1, <2>2, <2>3, MovesOK, SameKnown, PlayersAssumption
  <2>5. \A q \in Players : state'[q].ready
    BY <2>1, <2>2, <2>3, OthersAre, IInvIs
  <2>6. <<m>> \in Seq(Truths(Other(p))')
    <3>1. m \in Truths(Other(p))'
      BY <2>5, OthersAre DEF Truths, Messages
    <3>2. QED
      BY <3>1, SeqDef
  <2>7. MessagesTrue' /\ inbox' \in [Players -> Seq(Messages)]
    BY <1>3, <2>4, <2>6, SentOK, IInvIs DEF IInv
  <2>8. TypeOK'
    BY <1>1, <2>4, <2>7, IInvIs DEF TypeOK, net
  <2>9. QED
    BY <2>4, <2>7, <2>8 DEF IInv
<1>4. QED
  BY <1>2, <1>3 DEF Render

\* The countdown of a page goes on or ends.
LEMMA TickOK ==
  ASSUME IInv, NEW p \in Players, Tick(p)
  PROVE  IInv'
<1> DEFINE v == [state[p] EXCEPT !.count = @ - 1,
                                 !.started = @ \/ state[p].count = 1]
<1>1. v \in Views /\ state' = [state EXCEPT ![p] = v]
  <2>1. state[p] \in Views /\ state[p].count \in 1..CountFrom
    BY IInvIs DEF Tick, Views
  <2>2. state[p].count - 1 \in 0..CountFrom
    BY <2>1, IInvIs
  <2>3. v \in Views
    BY <2>1, <2>2 DEF Views
  <2>4. state' = [state EXCEPT ![p] = v]
    BY IInvIs DEF Tick
  <2>5. QED
    BY <2>3, <2>4
<1>2. /\ v.ready = state[p].ready /\ v.finished = state[p].finished
      /\ v.result = state[p].result /\ v.opponent = state[p].opponent
      /\ v.oppReady = state[p].oppReady /\ v.seed = state[p].seed
  BY IInvIs DEF Views
<1>3. race.sync => v.seed # None /\ v.ready /\ state[Other(p)].ready
  BY <1>2, OthersAre DEF Tick, IInv, CountsTogether
<1> HIDE DEF v
<1>4. /\ state' \in [Players -> Views] /\ seen' \in [Players -> Views]
      /\ ViewsTrue' /\ ResultsCompare' /\ ResultIsEarned' /\ CountsTogether' /\ StartsTogether'
      /\ \A q \in Players : Truths(q) \subseteq Truths(q)'
  BY <1>1, <1>2, <1>3, MovesOK, SameKnown DEF Tick
<1>5. MessagesTrue' /\ inbox' \in [Players -> Seq(Messages)]
  <2>1. inbox' = inbox
    BY DEF Tick
  <2>2. QED
    BY <1>4, <2>1, HeardOK
<1>6. TypeOK'
  BY <1>4, <1>5, IInvIs DEF TypeOK, Tick, net
<1>7. QED
  BY <1>4, <1>5, <1>6 DEF IInv

\* A page tells its score.
LEMMA ReportScoreOK ==
  ASSUME IInv, NEW p \in Players, NEW n \in Counted, ReportScore(p, n)
  PROVE  IInv'
<1>1. n \in Scores
  BY NumbersAssumption DEF Counted
<1>2. /\ ResultsCompare' /\ ResultIsEarned' /\ CountsTogether' /\ StartsTogether'
      /\ \A q \in Players : Truths(q) \subseteq Truths(q)'
  BY StillOK DEF ReportScore
<1>3. ViewsTrue' /\ seen' \in [Players -> Views]
  BY SeenOK DEF ReportScore
<1>4. <<[type |-> "race_status", score |-> n]>> \in Seq(Truths(Other(p))')
  <2>1. [type |-> "race_status", score |-> n] \in Truths(Other(p))'
    BY <1>1 DEF Truths, Messages
  <2>2. QED
    BY <2>1, SeqDef
<1>5. MessagesTrue' /\ inbox' \in [Players -> Seq(Messages)]
  BY <1>2, <1>4, SentOK, IInvIs DEF ReportScore, IInv
<1>6. TypeOK'
  <2>1. reports' \in [Players -> 0..MaxReports]
    BY IInvIs DEF ReportScore
  <2>2. UNCHANGED <<race, state, report, up, drops>>
    BY DEF ReportScore, net
  <2>3. QED
    BY <1>3, <1>5, <2>1, <2>2, IInvIs DEF TypeOK
<1>7. QED
  BY <1>2, <1>3, <1>5, <1>6 DEF IInv

\* What reportFinish makes of the state differs in the result and in what is
\* pending, and has no result but an earned one.
LEMMA AtFinishIs ==
  ASSUME IInv, NEW p \in Players, NEW result \in {"win", "loss"}, NEW n \in Scores,
         NEW w, w = AtFinish(p, result, n)
  PROVE  /\ w \in Views
         /\ w.opponent = state[p].opponent /\ w.ready = state[p].ready
         /\ w.oppReady = state[p].oppReady /\ w.seed = state[p].seed
         /\ w.count = state[p].count /\ w.started = state[p].started
         /\ \/ w.result = state[p].result
            \/ /\ state[Other(p)].finished
               /\ race.type = "best_score" =>
                    w.result = Compared(n, report[Other(p)].score)
               /\ race.type = "first_to_win" /\ w.result = "lost" => report[Other(p)].result = "win"
               /\ race.type = "survival" /\ w.result = "won" => report[Other(p)].result = "loss"
            \/ race.type = "first_to_win" /\ w.result = "won"
<1> DEFINE opp == seen[p].opponent
<1>1. state[p] \in Views
  BY IInvIs
<1>2. opp.finished => /\ state[Other(p)].finished
                      /\ opp.result = report[Other(p)].result
                      /\ opp.score = report[Other(p)].score
  BY DEF IInv, ViewsTrue, KnowsTruth
<1>3. CASE /\ race.type = "first_to_win" /\ result = "win" /\ ~opp.finished
           /\ w = [state[p] EXCEPT !.result = "won"]
  BY <1>1, <1>3 DEF Views, Results
<1>4. CASE /\ race.type = "first_to_win" /\ opp.finished /\ opp.result = "win"
           /\ w = [state[p] EXCEPT !.result = "lost"]
  BY <1>1, <1>2, <1>4 DEF Views, Results
<1>5. CASE /\ race.type = "survival" /\ w = [state[p] EXCEPT !.pending = "lost"]
  BY <1>1, <1>5 DEF Views
<1>6. CASE /\ race.type = "survival" /\ opp.finished /\ opp.result = "loss"
           /\ w = [state[p] EXCEPT !.result = "won"]
  BY <1>1, <1>2, <1>6 DEF Views, Results
<1>7. CASE /\ race.type = "best_score" /\ opp.finished
           /\ w = [state[p] EXCEPT !.result = Compared(n, opp.score)]
  <2>1. Compared(n, opp.score) \in Results
    BY DEF Compared, Results
  <2>2. QED
    BY <1>1, <1>2, <1>7, <2>1 DEF Views
<1>8. CASE w = state[p]
  BY <1>1, <1>8
<1>9. QED
  BY <1>3, <1>4, <1>5, <1>6, <1>7, <1>8 DEF AtFinish

\* A page finishes with a result.
LEMMA FinishOK ==
  ASSUME IInv, NEW p \in Players, NEW n \in Counted, NEW result \in Outcomes,
         Finish(p, result, n)
  PROVE  IInv'
<1> DEFINE w == AtFinish(p, result, n)
           v == [w EXCEPT !.finished = TRUE]
<1>1. n \in Scores /\ result \in {"win", "loss"}
  BY NumbersAssumption DEF Counted, Outcomes
<1>2. /\ v \in Views /\ v.finished
      /\ v.opponent = state[p].opponent /\ v.ready = state[p].ready
      /\ v.oppReady = state[p].oppReady /\ v.seed = state[p].seed
      /\ v.count = state[p].count /\ v.started = state[p].started
      /\ \/ v.result = state[p].result
         \/ /\ state[Other(p)].finished
            /\ race.type = "best_score" => v.result = Compared(n, report[Other(p)].score)
            /\ race.type = "first_to_win" /\ v.result = "lost" => report[Other(p)].result = "win"
            /\ race.type = "survival" /\ v.result = "won" => report[Other(p)].result = "loss"
         \/ race.type = "first_to_win" /\ v.result = "won"
  <2> HIDE DEF w
  <2>1. w = AtFinish(p, result, n)
    BY DEF w
  <2>2. w \in Views
    BY <1>1, <2>1, AtFinishIs
  <2>3. v \in Views /\ v.finished /\ v.opponent = w.opponent /\ v.ready = w.ready
        /\ v.oppReady = w.oppReady /\ v.seed = w.seed /\ v.count = w.count
        /\ v.started = w.started /\ v.result = w.result
    BY <2>2 DEF Views
  <2>4. QED
    BY <1>1, <2>1, <2>3, AtFinishIs
<1>3. /\ ~state[p].finished /\ state' = [state EXCEPT ![p] = v]
      /\ report' = [report EXCEPT ![p] = [result |-> result, score |-> n]]
      /\ UNCHANGED <<race, seen, reports, net>>
  BY DEF Finish
<1> HIDE DEF v, w
<1>4. /\ state'[p] = v /\ state'[Other(p)] = state[Other(p)]
      /\ report'[p].result = result /\ report'[p].score = n
      /\ report'[Other(p)] = report[Other(p)]
  BY <1>3, OthersAre, IInvIs
<1>5. \A q \in Players : q = p \/ q = Other(p)
  BY OthersAre
<1>6. result # None
  BY <1>1, NoneAssumption
<1>7. \A q \in Players : /\ state[q].ready => state'[q].ready
                         /\ state[q].finished => state'[q].finished /\ report'[q] = report[q]
  BY <1>2, <1>3, <1>4, <1>5
<1>8. \A q \in Players : Truths(q) \subseteq Truths(q)'
  BY <1>7, TruthLasts
<1>9. ViewsTrue'
  <2>1. \A x : \A q \in Players : KnowsTruth(q, x) => KnowsTruth(q, x)'
    BY <1>7, OthersAre DEF KnowsTruth
  <2>2. \A q \in Players : KnowsTruth(q, state[q]) /\ KnowsTruth(q, seen[q])
    BY DEF IInv, ViewsTrue
  <2>3. (\A q \in Players : KnowsTruth(q, state[q]))'
    BY <1>2, <1>4, <1>5, <2>1, <2>2 DEF KnowsTruth
  <2>4. (\A q \in Players : KnowsTruth(q, seen[q]))'
    BY <1>3, <2>1, <2>2 DEF KnowsTruth
  <2>5. \A q \in Players :
          /\ seen[q].finished => state[q].finished
          /\ state[q].finished <=> report[q].result # None
          /\ state[q].oppReady => state[Other(q)].ready
    BY DEF IInv, ViewsTrue
  <2>6. \A q \in Players : state'[q].finished <=> report'[q].result # None
    BY <1>2, <1>4, <1>5, <1>6, <2>5
  <2>7. \A q \in Players : state'[q].oppReady => state'[Other(q)].ready
    BY <1>2, <1>4, <1>5, <1>7, <2>5, OthersAre
  <2>8. \A q \in Players : seen'[q].finished => state'[q].finished
    BY <1>3, <1>7, <2>5
  <2>9. QED
    BY <2>3, <2>4, <2>6, <2>7, <2>8 DEF ViewsTrue
<1>10. ResultsCompare'
  <2> SUFFICES ASSUME race.type = "best_score" PROVE ResultsCompare'
    BY <1>3 DEF ResultsCompare
  <2>1. state[p].result = None /\ state[Other(p)].result = None
    BY <1>3, OthersAre DEF IInv, ResultsCompare
  <2>2. state'[Other(p)].result = None
    BY <1>4, <2>1
  <2>3. v.result # None => /\ state'[p].finished /\ state'[Other(p)].finished
                           /\ v.result = Compared(report'[p].score, report'[Other(p)].score)
    BY <1>2, <1>4, <2>1
  <2>4. QED
    BY <1>4, <1>5, <2>2, <2>3 DEF ResultsCompare, Compared, Known
<1>11. ResultIsEarned'
  <2>1. \A q \in Players : report[q].result # None => report'[q] = report[q]
    BY <1>7 DEF IInv, ViewsTrue
  <2>2. \A q \in Players :
          /\ race.type = "first_to_win" /\ state[q].result = "lost" => report[Other(q)].result = "win"
          /\ race.type = "survival" /\ state[q].result = "won" => report[Other(q)].result = "loss"
    BY DEF IInv, ResultIsEarned
  <2>3. \A q \in Players :
          /\ race.type = "first_to_win" /\ state'[q].result = "lost" => report[Other(q)].result = "win"
          /\ race.type = "survival" /\ state'[q].result = "won" => report[Other(q)].result = "loss"
    BY <1>2, <1>4, <1>5, <2>2
  <2>4. QED
    BY <1>3, <2>1, <2>3, OthersAre, NoneAssumption DEF ResultIsEarned
<1>12. CountsTogether' /\ StartsTogether'
  BY <1>2, <1>3, <1>4, <1>5, <1>7 DEF IInv, CountsTogether, StartsTogether
<1>13. MessagesTrue' /\ inbox' \in [Players -> Seq(Messages)]
  <2> DEFINE first == [type |-> "race_finished", result |-> result, score |-> n]
             late == [type |-> "race_status", score |-> n]
             msgs == <<first>> \o (IF race.lateScore THEN <<late>> ELSE <<>>)
             T == Truths(Other(p))'
  <2>1. first \in T
    BY <1>1, <1>2, <1>4, OthersAre DEF Truths, Messages
  <2>2. late \in T
    BY <1>1 DEF Truths, Messages
  <2> HIDE DEF first, late, T
  <2>3. <<first>> \in Seq(T) /\ <<late>> \in Seq(T) /\ <<>> \in Seq(T)
    BY <2>1, <2>2, SeqDef, EmptySeq
  <2>4. msgs \in Seq(T)
    BY <2>3, ConcatProperties
  <2>5. inbox' = Sent(p, msgs)
    BY DEF Finish, first, late
  <2> HIDE DEF msgs
  <2>6. QED
    BY <1>8, <2>4, <2>5, SentOK, IInvIs DEF IInv, T
<1>14. TypeOK'
  <2>1. state' \in [Players -> Views]
    BY <1>2, <1>3, IInvIs
  <2>2. report' \in [Players -> [result : {"win", "loss", None}, score : Scores \cup {None}]]
    BY <1>1, <1>3, IInvIs
  <2>3. QED
    BY <1>3, <1>13, <2>1, <2>2, IInvIs DEF TypeOK, net
<1>15. QED
  BY <1>9, <1>10, <1>11, <1>12, <1>13, <1>14 DEF IInv

\* What the handler of race_finished makes of the state: it knows the end of
\* the other, and has no result but an earned one.
LEMMA AtOpponentFinishIs ==
  ASSUME IInv, NEW p \in Players, NEW msg \in Truths(p), msg.type = "race_finished",
         NEW v, v = AtOpponentFinish(p, msg)
  PROVE  /\ v \in Views /\ KnowsTruth(p, v)
         /\ v.ready = state[p].ready /\ v.finished = state[p].finished
         /\ v.oppReady = state[p].oppReady /\ v.seed = state[p].seed
         /\ v.count = state[p].count /\ v.started = state[p].started
         /\ \/ v.result = state[p].result
            \/ /\ race.type = "best_score" =>
                    /\ v.finished /\ state[Other(p)].finished
                    /\ v.result = Compared(report[p].score, report[Other(p)].score)
               /\ race.type = "first_to_win" /\ v.result = "lost" => report[Other(p)].result = "win"
               /\ race.type = "survival" /\ v.result = "won" => report[Other(p)].result = "loss"
<1> DEFINE told == [state[p] EXCEPT !.opponent = [finished |-> TRUE,
                                      result |-> msg.result, score |-> msg.score]]
<1>1. /\ msg.result \in {"win", "loss"} /\ msg.score \in Scores
      /\ state[Other(p)].finished /\ report[Other(p)].result = msg.result
      /\ report[Other(p)].score = msg.score
  BY DEF Truths, Messages
<1>2. /\ told \in Views /\ told.opponent.finished /\ told.opponent.result = msg.result
      /\ told.opponent.score = msg.score /\ told.result = state[p].result
      /\ told.ready = state[p].ready /\ told.finished = state[p].finished
      /\ told.oppReady = state[p].oppReady /\ told.seed = state[p].seed
      /\ told.count = state[p].count /\ told.started = state[p].started
  <2>1. state[p] \in Views
    BY IInvIs
  <2>2. [finished |-> TRUE, result |-> msg.result, score |-> msg.score] \in Opponents
    BY <1>1 DEF Opponents
  <2>3. QED
    BY <2>1, <2>2 DEF Views
<1>3. seen[p].finished => state[p].finished
  BY DEF IInv, ViewsTrue
<1>4. v = AtOpponentFinish(p, msg)
  OBVIOUS
<1>5. \/ v = told
      \/ /\ race.type = "first_to_win" /\ msg.result = "win"
         /\ v = [told EXCEPT !.result = "lost"]
      \/ /\ race.type = "survival" /\ msg.result = "loss"
         /\ v = [told EXCEPT !.result = "won"]
      \/ race.type = "survival" /\ v = [told EXCEPT !.result = "lost", !.pending = None]
      \/ /\ race.type = "best_score" /\ seen[p].finished
         /\ v = [told EXCEPT !.result = Compared(report[p].score, msg.score)]
  BY <1>4 DEF AtOpponentFinish
<1> HIDE DEF told
<1>6. told.result \in Results /\ Compared(report[p].score, msg.score) \in Results
  BY <1>2 DEF Views, Compared, Results
<1>7. /\ v \in Views /\ v.opponent = told.opponent
      /\ v.ready = told.ready /\ v.finished = told.finished /\ v.oppReady = told.oppReady
      /\ v.seed = told.seed /\ v.count = told.count /\ v.started = told.started
      /\ \/ v.result = told.result
         \/ race.type = "first_to_win" /\ msg.result = "win"
         \/ race.type = "survival" /\ (v.result = "won" => msg.result = "loss")
         \/ /\ race.type = "best_score" /\ state[p].finished
            /\ v.result = Compared(report[p].score, msg.score)
  <2>1. CASE v = told
    BY <1>2, <2>1
  <2>2. CASE race.type = "first_to_win" /\ msg.result = "win" /\ v = [told EXCEPT !.result = "lost"]
    BY <1>2, <2>2 DEF Views, Results
  <2>3. CASE race.type = "survival" /\ msg.result = "loss" /\ v = [told EXCEPT !.result = "won"]
    BY <1>2, <2>3 DEF Views, Results
  <2>4. CASE race.type = "survival" /\ v = [told EXCEPT !.result = "lost", !.pending = None]
    BY <1>2, <2>4 DEF Views, Results
  <2>5. CASE /\ race.type = "best_score" /\ seen[p].finished
             /\ v = [told EXCEPT !.result = Compared(report[p].score, msg.score)]
    BY <1>2, <1>3, <1>6, <2>5 DEF Views
  <2>6. QED
    BY <1>5, <2>1, <2>2, <2>3, <2>4, <2>5
<1>8. KnowsTruth(p, v)
  BY <1>1, <1>2, <1>7 DEF KnowsTruth
<1>9. QED
  BY <1>1, <1>2, <1>7, <1>8

\* A page takes the next message.
LEMMA ReceiveOK ==
  ASSUME IInv, NEW p \in Players, Receive(p)
  PROVE  IInv'
<1> DEFINE msg == Head(inbox[p])
           s == state[p]
           v == CASE msg.type = "race_ready" -> [s EXCEPT !.oppReady = TRUE]
                  [] msg.type = "race_countdown" ->
                       [s EXCEPT !.seed = msg.seed, !.count = CountFrom]
                  [] msg.type = "race_status" ->
                       [s EXCEPT !.opponent = [NoOpponent EXCEPT !.score = msg.score]]
                  [] msg.type = "race_finished" -> AtOpponentFinish(p, msg)
<1>1. msg \in Truths(p)
  BY HeadTailProperties DEF Receive, IInv, MessagesTrue
<1>2. state' = [state EXCEPT ![p] = v] /\ s \in Views
  BY IInvIs DEF Receive
<1>3. UNCHANGED <<race, seen, report, reports, net>>
  BY DEF Receive
<1>4. KnowsTruth(p, s) /\ (s.oppReady => state[Other(p)].ready)
  BY DEF IInv, ViewsTrue
<1>5. race.sync /\ (s.count # None \/ s.started) =>
        s.seed # None /\ s.ready /\ state[Other(p)].ready
  BY OthersAre DEF IInv, CountsTogether, StartsTogether
<1>6. /\ v \in Views /\ KnowsTruth(p, v) /\ (s.ready => v.ready) /\ v.finished = s.finished
      /\ v.oppReady => state[Other(p)].ready
      /\ \/ v.result = s.result
         \/ /\ race.type = "best_score" =>
                 /\ v.finished /\ state[Other(p)].finished
                 /\ v.result = Compared(report[p].score, report[Other(p)].score)
            /\ race.type = "first_to_win" /\ v.result = "lost" => report[Other(p)].result = "win"
            /\ race.type = "survival" /\ v.result = "won" => report[Other(p)].result = "loss"
      /\ race.sync /\ (v.count # None \/ v.started) =>
           v.seed # None /\ v.ready /\ state[Other(p)].ready
  <2>1. CASE msg.type = "race_ready"
    <3>1. v = [s EXCEPT !.oppReady = TRUE]
      BY <2>1
    <3>2. state[Other(p)].ready
      BY <1>1, <2>1 DEF Truths
    <3> HIDE DEF v
    <3>3. /\ v \in Views /\ v.opponent = s.opponent /\ v.ready = s.ready
          /\ v.finished = s.finished /\ v.result = s.result /\ v.seed = s.seed
          /\ v.count = s.count /\ v.started = s.started
      BY <1>2, <3>1 DEF Views
    <3>4. QED
      BY <1>4, <1>5, <3>2, <3>3 DEF KnowsTruth
  <2>2. CASE msg.type = "race_countdown"
    <3>1. v = [s EXCEPT !.seed = msg.seed, !.count = CountFrom]
      BY <2>2
    <3>2. msg.seed \in Players /\ \A q \in Players : state[q].ready
      BY <1>1, <2>2 DEF Truths, Messages
    <3> HIDE DEF v, msg
    <3>3. msg.seed \in Players \cup {None} /\ CountFrom \in (0..CountFrom) \cup {None}
      BY <3>2, IInvIs
    <3>4. /\ v \in Views /\ v.opponent = s.opponent /\ v.ready = s.ready
          /\ v.finished = s.finished /\ v.result = s.result /\ v.seed = msg.seed
          /\ v.oppReady = s.oppReady
      BY <1>2, <3>1, <3>3 DEF Views
    <3>5. QED
      BY <1>4, <3>2, <3>4, OthersAre, PlayersAssumption DEF KnowsTruth
  <2>3. CASE msg.type = "race_status"
    <3> DEFINE o == [NoOpponent EXCEPT !.score = msg.score]
    <3>1. v = [s EXCEPT !.opponent = o]
      BY <2>3
    <3>2. msg.score \in Scores
      BY <1>1, <2>3 DEF Truths, Messages
    <3>3. o \in Opponents /\ ~o.finished
      BY <3>2 DEF NoOpponent, Opponents
    <3> HIDE DEF v, o
    <3>4. /\ v \in Views /\ v.opponent = o /\ v.ready = s.ready
          /\ v.finished = s.finished /\ v.result = s.result /\ v.seed = s.seed
          /\ v.count = s.count /\ v.started = s.started /\ v.oppReady = s.oppReady
      BY <1>2, <3>1, <3>3 DEF Views
    <3>5. QED
      BY <1>4, <1>5, <3>3, <3>4 DEF KnowsTruth
  <2>4. CASE msg.type = "race_finished"
    <3>1. v = AtOpponentFinish(p, msg)
      BY <2>4
    <3> HIDE DEF v, msg
    <3>2. QED
      BY <1>1, <1>4, <1>5, <2>4, <3>1, AtOpponentFinishIs
  <2>5. QED
    BY <1>1, <2>1, <2>2, <2>3, <2>4 DEF Truths, Messages
<1> HIDE DEF v
<1>7. /\ state' \in [Players -> Views] /\ seen' \in [Players -> Views]
      /\ ViewsTrue' /\ ResultsCompare' /\ ResultIsEarned' /\ CountsTogether' /\ StartsTogether'
      /\ \A q \in Players : Truths(q) \subseteq Truths(q)'
  BY <1>2, <1>3, <1>6, MovesOK
<1>8. MessagesTrue' /\ inbox' \in [Players -> Seq(Messages)]
  <2>1. inbox[p] # <<>> /\ inbox' = [inbox EXCEPT ![p] = Tail(@)]
    BY DEF Receive
  <2>2. QED
    BY <1>7, <2>1, HeardOK
<1>9. TypeOK'
  BY <1>3, <1>7, <1>8, IInvIs DEF TypeOK, net
<1>10. QED
  BY <1>7, <1>8, <1>9 DEF IInv

\* A socket ends, or is opened again.
LEMMA SocketOK ==
  ASSUME IInv, NEW p \in Players, Disconnect(p) \/ Reconnect(p)
  PROVE  IInv'
<1>1. /\ UNCHANGED <<race, state, seen, report, reports>>
      /\ inbox' = inbox \/ inbox' = [inbox EXCEPT ![p] = <<>>]
  BY DEF Disconnect, Reconnect
<1>2. /\ ResultsCompare' /\ ResultIsEarned' /\ CountsTogether' /\ StartsTogether'
      /\ \A q \in Players : Truths(q) \subseteq Truths(q)'
  BY <1>1, StillOK
<1>3. ViewsTrue' /\ seen' \in [Players -> Views]
  BY <1>1, SeenOK
<1>4. MessagesTrue' /\ inbox' \in [Players -> Seq(Messages)]
  BY <1>1, <1>2, HeardOK
<1>5. up' \in [Players -> BOOLEAN] /\ drops' \in 0..MaxDrops
  <2>1. drops \in 0..MaxDrops /\ MaxDrops \in Nat /\ up \in [Players -> BOOLEAN]
    BY IInvIs
  <2>2. drops' = drops \/ (drops < MaxDrops /\ drops' = drops + 1)
    BY DEF Disconnect, Reconnect
  <2>3. up' = [up EXCEPT ![p] = FALSE] \/ up' = [up EXCEPT ![p] = TRUE]
    BY DEF Disconnect, Reconnect
  <2>4. drops' \in 0..MaxDrops
    BY <2>1, <2>2
  <2>5. up' \in [Players -> BOOLEAN]
    BY <2>1, <2>3
  <2>6. QED
    BY <2>4, <2>5
<1>6. TypeOK'
  BY <1>1, <1>3, <1>4, <1>5, IInvIs DEF TypeOK
<1>7. QED
  BY <1>2, <1>3, <1>4, <1>6 DEF IInv

-----------------------------------------------------------------------------
(* The invariant of the specification                                       *)

\* The room opens so.
LEMMA InitOK == Init => IInv
<1> SUFFICES ASSUME Init PROVE IInv
  OBVIOUS
<1> DEFINE v == [opponent |-> NoOpponent, result |-> None, finished |-> FALSE,
                 pending |-> None, ready |-> FALSE, oppReady |-> FALSE,
                 seed |-> None, count |-> None, started |-> ~race.sync]
<1>1. race \in Games /\ race.sync \in BOOLEAN
  BY DEF Init, Games
<1>2. v \in Views
  BY <1>1 DEF Views, Opponents, NoOpponent, Results
<1>3. \A p \in Players : state[p] = v /\ seen[p] = v
  BY DEF Init
<1>4. v.result = None /\ ~v.finished /\ ~v.opponent.finished /\ ~v.oppReady
      /\ v.count = None /\ (v.started <=> ~race.sync)
  BY DEF NoOpponent
<1> HIDE DEF v
<1>5. state \in [Players -> Views] /\ seen \in [Players -> Views]
  BY <1>2, <1>3 DEF Init
<1>6. \A p \in Players : report[p].result = None /\ inbox[p] = <<>>
  BY DEF Init, NoReport
<1>7. TypeOK
  <2>1. report \in [Players -> [result : {"win", "loss", None}, score : Scores \cup {None}]]
    BY DEF Init, NoReport
  <2>2. inbox \in [Players -> Seq(Messages)]
    BY EmptySeq DEF Init
  <2>3. reports \in [Players -> 0..MaxReports] /\ drops \in 0..MaxDrops
    BY NumbersAssumption DEF Init
  <2>4. up \in [Players -> BOOLEAN]
    BY DEF Init
  <2>5. QED
    BY <1>1, <1>5, <2>1, <2>2, <2>3, <2>4 DEF TypeOK
<1>8. MessagesTrue
  BY <1>6, EmptySeq DEF MessagesTrue
<1>9. ViewsTrue
  BY <1>3, <1>4, <1>6 DEF ViewsTrue, KnowsTruth
<1>10. ResultsCompare /\ CountsTogether /\ StartsTogether
  BY <1>3, <1>4 DEF ResultsCompare, CountsTogether, StartsTogether
<1>11. ResultIsEarned
  BY <1>3, <1>4, NoneAssumption DEF ResultIsEarned
<1>12. QED
  BY <1>7, <1>8, <1>9, <1>10, <1>11 DEF IInv

\* A step keeps the inductive invariant.
LEMMA NextOK == IInv /\ [Next]_vars => IInv'
<1> SUFFICES ASSUME IInv, [Next]_vars PROVE IInv'
  OBVIOUS
<1>1. ASSUME NEW p \in Players, SendReady(p) \/ Render(p) \/ Tick(p) PROVE IInv'
  BY <1>1, SendReadyOK, RenderOK, TickOK
<1>2. ASSUME NEW p \in Players, Receive(p) \/ Disconnect(p) \/ Reconnect(p) PROVE IInv'
  BY <1>2, ReceiveOK, SocketOK
<1>3. ASSUME NEW p \in Players, NEW n \in Counted,
             ReportScore(p, n) \/ \E result \in Outcomes : Finish(p, result, n)
      PROVE  IInv'
  BY <1>3, ReportScoreOK, FinishOK
<1>4. CASE UNCHANGED vars
  <2>1. /\ ResultsCompare' /\ ResultIsEarned' /\ CountsTogether' /\ StartsTogether'
        /\ \A q \in Players : Truths(q) \subseteq Truths(q)'
    BY <1>4, StillOK DEF vars
  <2>2. TypeOK' /\ MessagesTrue' /\ ViewsTrue'
    BY <1>4 DEF IInv, vars, TypeOK, MessagesTrue, Truths, ViewsTrue, KnowsTruth
  <2>3. QED
    BY <2>1, <2>2 DEF IInv
<1>5. QED
  BY <1>1, <1>2, <1>3, <1>4 DEF Next

\* The inductive invariant holds throughout.
LEMMA Inductive == Spec => []IInv
BY InitOK, NextOK, PTL DEF Spec

\* Every variable has its type.
THEOREM TypesHold == Spec => []TypeOK
<1>1. IInv => TypeOK
  BY DEF IInv
<1>2. QED
  BY <1>1, Inductive, PTL

\* Whatever was lost, late or rendered late, two players that both show a
\* result of a race for the best score show the two sides of one result.
THEOREM ResultsAgree == Spec => []BestScoreAgrees
<1>1. IInv => BestScoreAgrees
  <2> SUFFICES ASSUME IInv, race.type = "best_score", NEW p \in Players
               PROVE  /\ state[p].result = "won" => state[Other(p)].result \in {"lost", None}
                      /\ state[p].result = "lost" => state[Other(p)].result \in {"won", None}
                      /\ state[p].result = "tied" => state[Other(p)].result \in {"tied", None}
    BY DEF BestScoreAgrees
  <2> DEFINE mine == report[p].score
             theirs == report[Other(p)].score
  <2>1. Known(mine) \in Nat /\ Known(theirs) \in Nat
    <3>1. mine \in Scores \cup {None} /\ theirs \in Scores \cup {None}
      BY IInvIs, OthersAre
    <3>2. QED
      BY <3>1, NumbersAssumption DEF Known
  <2>2. state[p].result # None => state[p].result = Compared(mine, theirs)
    BY DEF IInv, ResultsCompare
  <2>3. state[Other(p)].result # None => state[Other(p)].result = Compared(theirs, mine)
    BY OthersAre DEF IInv, ResultsCompare
  <2> HIDE DEF mine, theirs
  <2>4. /\ Compared(mine, theirs) = "won" => Compared(theirs, mine) = "lost"
        /\ Compared(mine, theirs) = "lost" => Compared(theirs, mine) = "won"
        /\ Compared(mine, theirs) = "tied" => Compared(theirs, mine) = "tied"
    BY <2>1 DEF Compared
  <2>5. QED
    BY <2>2, <2>3, <2>4, NoneAssumption
<1>2. QED
  BY <1>1, Inductive, PTL

\* Nobody loses a race to the first win against one who has not won, and nobody
\* survives one who is alive: the handlers decide by what was rendered last.
THEOREM ResultsAreEarned == Spec => []ResultIsEarned
<1>1. IInv => ResultIsEarned
  BY DEF IInv
<1>2. QED
  BY <1>1, Inductive, PTL

\* With the sync start nobody plays before both have said to be ready and a
\* seed is installed.
THEOREM StartsAreTogether == Spec => []StartsTogether
<1>1. IInv => StartsTogether
  BY DEF IInv
<1>2. QED
  BY <1>1, Inductive, PTL
=============================================================================
