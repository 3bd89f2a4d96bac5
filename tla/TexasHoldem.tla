---------------------------- MODULE TexasHoldem ----------------------------
(* The betting of Texas Hold'em (TexasHoldemEngine.ts) at a table whose     *)
(* seats a person and the computer's players hold (TexasHoldem.tsx). Cards  *)
(* are left out: any players still in the hand may have the best cards, any *)
(* of them a bonus hand, and a flop may bring a bonus.                      *)
EXTENDS Integers, Sequences, FiniteSets, FiniteSetsExt

CONSTANTS
  NumSeats,
  StartChips,
  Blinds,       \* BLIND_SCHEDULE: the small and the big blind of each level
  Bonus,        \* BONUS_AMOUNT and the bonus of a flop
  MaxBonuses,   \* bound: bonuses paid
  MaxHands      \* bound: hands played

VARIABLE table   \* the state of the engine, with the bonuses paid and the hands dealt

Seats == 0..(NumSeats - 1)
All(x) == [p \in Seats |-> x]
Total(f) == MapThenSumSet(LAMBDA p : f[p], Seats)

\* The first seat of S at or after seat i.
FirstFrom(i, S) ==
  (i + Min({d \in Seats : (i + d) % NumSeats \in S})) % NumSeats

Streets == <<"preflop", "flop", "turn", "river">>
Betting(s) == s.phase \in {"preflop", "flop", "turn", "river"}
StreetAfter(phase) == Streets[1 + CHOOSE k \in 1..3 : Streets[k] = phase]

InHand(s) == {p \in Seats : ~s.folded[p]}
\* Mutant: who has folded is asked as well.
ActingMutantFolded(s) == {p \in Seats : ~s.allIn[p] /\ s.chips[p] > 0}

Acting(s) == {p \in InHand(s) : ~s.allIn[p] /\ s.chips[p] > 0}

\* nextActivePlayer
NextActive(s) ==
  IF Acting(s) = {} THEN s.turn ELSE FirstFrom((s.turn + 1) % NumSeats, Acting(s))

\* Mutant: one player who has matched the bet is enough.
RoundCompleteMutantSome(s) == \E p \in Acting(s) : s.acted[p] /\ s.bets[p] >= s.currentBet

\* isBettingRoundComplete
RoundComplete(s) == \A p \in Acting(s) : s.acted[p] /\ s.bets[p] >= s.currentBet

\* startHand: blinds of the first two with chips after the dealer. Who posts
\* all of the chips is all in, and still asked to act if the seat after the big
\* blind is theirs.
StartHand(s) ==
  LET live == {p \in Seats : s.chips[p] > 0}
      sb == FirstFrom((s.dealer + 1) % NumSeats, live)
      bb == FirstFrom((sb + 1) % NumSeats, live)
      blind == Blinds[s.level]
      posts == [p \in Seats |-> IF p = sb THEN Min({blind[1], s.chips[p]})
                                ELSE IF p = bb THEN Min({blind[2], s.chips[p]}) ELSE 0]
  IN [s EXCEPT !.chips = [p \in Seats |-> @[p] - posts[p]],
               !.bets = posts, !.stakes = posts, !.pot = posts[sb] + posts[bb],
               !.folded = [p \in Seats |-> p \notin live],
               !.allIn = [p \in Seats |-> p \in live /\ posts[p] = s.chips[p]],
               !.acted = All(FALSE), !.phase = "preflop", !.currentBet = blind[2],
               !.dealt = @ + 1,
               !.turn = FirstFrom((bb + 1) % NumSeats, live)]

\* createTexasHoldemGame
Created == [chips |-> All(StartChips), bets |-> All(0), stakes |-> All(0), pot |-> 0,
            folded |-> All(FALSE), allIn |-> All(FALSE), acted |-> All(FALSE),
            phase |-> "preflop", currentBet |-> 0, turn |-> 0, dealer |-> 0, level |-> 1,
            bonuses |-> 0, dealt |-> 0]

Init == table = StartHand(Created)

\* Mutant: what cannot be shared is gone.
PaidMutantDropsRemainder(s, winners) ==
  LET share == s.pot \div Cardinality(winners)
  IN [s EXCEPT !.pot = 0, !.phase = "handOver",
               !.chips = [p \in Seats |-> @[p] + IF p \in winners THEN share ELSE 0]]

\* The pot in equal shares, what is over to the first seat
Paid(s, winners) ==
  LET share == s.pot \div Cardinality(winners)
      over == s.pot - share * Cardinality(winners)
  IN [s EXCEPT !.pot = 0, !.phase = "handOver",
               !.chips = [p \in Seats |-> @[p] + (IF p \in winners THEN share ELSE 0)
                                          + (IF p = Min(winners) THEN over ELSE 0)]]

\* A bonus to each of the lucky ones
Rewarded(s, lucky) ==
  [s EXCEPT !.bonuses = @ + Cardinality(lucky),
            !.chips = [p \in Seats |-> @[p] + IF p \in lucky THEN Bonus ELSE 0]]

\* A hand ends with the winners' pot and the bonus of those with a bonus hand.
EndsFor(s, winners) ==
  \E lucky \in SUBSET winners :
    /\ s.bonuses + Cardinality(lucky) <= MaxBonuses
    /\ table' = Rewarded(Paid(s, winners), lucky)

\* showdown
Showdown(s) == \E winners \in (SUBSET InHand(s)) \ {{}} : EndsFor(s, winners)

\* advancePhase before the river: the first after the dealer who can act
Advance(s) ==
  LET next == [s EXCEPT !.phase = StreetAfter(@), !.bets = All(0), !.currentBet = 0,
                        !.acted = All(FALSE),
                        !.turn = FirstFrom((s.dealer + 1) % NumSeats, InHand(s) \ {p \in Seats : s.allIn[p]})]
  IN \/ table' = next
     \/ /\ next.phase = "flop" /\ next.bonuses < MaxBonuses
        /\ table' = [next EXCEPT !.pot = @ + Bonus, !.bonuses = @ + 1]

\* afterAction, with autoComplete
AfterAction(s) ==
  LET next == NextActive(s)
  IN IF Cardinality(InHand(s)) = 1 THEN EndsFor(s, InHand(s))
     ELSE IF next # s.turn /\ ~RoundComplete(s) THEN table' = [s EXCEPT !.turn = next]
     ELSE IF Cardinality(Acting(s)) <= 1 \/ s.phase = "river" THEN Showdown(s)
     ELSE Advance(s)

\* amount more of the player's chips into the pot
Bet(s, amount) ==
  LET p == s.turn
  IN [s EXCEPT !.bets[p] = @ + amount, !.stakes[p] = @ + amount, !.chips[p] = @ - amount,
               !.pot = @ + amount, !.acted[p] = TRUE,
               !.allIn[p] = @ \/ s.chips[p] = amount]

\* A bet above the current one asks everybody again.
Raised(s, amount) ==
  LET p == s.turn
      b == Bet(s, amount)
  IN [b EXCEPT !.currentBet = b.bets[p], !.acted = [q \in Seats |-> q = p]]

ToCall == table.currentBet - table.bets[table.turn]
Own == table.chips[table.turn]

-----------------------------------------------------------------------------
\* The actions getValidActions offers the player whose turn it is
Fold ==
  /\ Betting(table)
  /\ AfterAction([table EXCEPT !.folded[table.turn] = TRUE, !.acted[table.turn] = TRUE])

Check ==
  /\ Betting(table) /\ ToCall <= 0
  /\ AfterAction([table EXCEPT !.acted[table.turn] = TRUE])

Call ==
  /\ Betting(table) /\ ToCall > 0 /\ Own >= ToCall
  /\ AfterAction(Bet(table, ToCall))

\* From getMinRaise to all the chips
Raise ==
  /\ Betting(table) /\ Own > ToCall
  /\ \E amount \in (ToCall + Blinds[table.level][2])..Own : AfterAction(Raised(table, amount))

AllIn ==
  /\ Betting(table)
  /\ AfterAction([IF Own > ToCall THEN Raised(table, Own) ELSE Bet(table, Own)
                    EXCEPT !.allIn[table.turn] = TRUE])

\* nextHand
NextHand ==
  /\ table.phase = "handOver" /\ table.dealt < MaxHands
  /\ LET live == {p \in Seats : table.chips[p] > 0}
     IN table' = IF Cardinality(live) <= 1 THEN [table EXCEPT !.phase = "gameOver"]
                 ELSE StartHand([table EXCEPT !.dealer = FirstFrom((@ + 1) % NumSeats, live)])

\* setBlinds: the timer raises the blinds, also within a hand.
RaiseBlinds ==
  /\ table.phase # "gameOver" /\ table.level < Len(Blinds)
  /\ table' = [table EXCEPT !.level = @ + 1]

Act == Fold \/ Check \/ Call \/ Raise \/ AllIn

Next == Act \/ NextHand \/ RaiseBlinds

\* Whoever is asked acts.
Spec == Init /\ [][Next]_table /\ WF_table(Act)
-----------------------------------------------------------------------------
(* Properties                                                              *)

\* No chip is lost or made but by a bonus, through blinds, all-ins, split pots
\* and shares that do not come out even; nobody owes.
ChipsConserved ==
  /\ Total(table.chips) + table.pot = NumSeats * StartChips + Bonus * table.bonuses
  /\ \A p \in Seats : table.chips[p] >= 0

\* A street ends and a hand is shown only when the bets are even: whoever is
\* still in and not all in has put in as much as anybody.
EvenStakes ==
  Betting(table) /\ table'.phase # table.phase /\ Cardinality(InHand(table')) > 1
  => \A p \in InHand(table'), q \in Seats :
       ~table'.allIn[p] => table'.stakes[p] >= table'.stakes[q]
StakesEven == [][EvenStakes]_table

\* Who is asked to act is in the hand, and somebody else is too.
TurnMatters ==
  Betting(table) => table.turn \in InHand(table) /\ Cardinality(InHand(table)) > 1

\* Every hand ends: no order of raises, folds and all-ins leaves the table
\* asking in circles, or nobody.
HandEnds == Betting(table) ~> ~Betting(table)
=============================================================================
