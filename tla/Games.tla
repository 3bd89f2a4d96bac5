------------------------------- MODULE Games -------------------------------
(* The games of two players and the poker table, each behaviour one of      *)
(* them: they share the variables of HostSync and nothing else.             *)
EXTENDS Integers, FiniteSets, Sequences

CONSTANTS
  MaxWire, MaxLosses,                       \* bounds of the wires
  TopRank, SpeedCopies, SpeedHand, SpeedDeals,   \* Speed
  Deck,                                     \* Memory
  WarDeals, MaxRounds,                      \* War
  FishRanks, BookSize, FishHand,            \* Go Fish
  NumSeats, StartChips, Blinds, Bonus, MaxBonuses, MaxHands   \* Hold'em

VARIABLES game, host, view, toHost, toGuest, losses, missed

vars == <<game, host, view, toHost, toGuest, losses, missed>>
wires == <<view, toHost, toGuest, losses, missed>>

Speed == INSTANCE SpeedVersus
           WITH HandSize <- SpeedHand, Deals <- SpeedDeals, Copies <- SpeedCopies
Memory == INSTANCE MemoryVersus
War == INSTANCE WarVersus WITH Deals <- WarDeals
Fish == INSTANCE GoFishVersus WITH Ranks <- FishRanks, HandSize <- FishHand
Ttt == INSTANCE TicTacToeVersus
Holdem == INSTANCE TexasHoldem WITH table <- host

\* Speed deals the whole deck, and no hand of more cards than it is filled up to.
ASSUME SpeedAssumption ==
  /\ TopRank \in Nat /\ SpeedHand \in Nat
  /\ \A s \in SpeedDeals :
       /\ s \in Speed!States /\ Speed!Kept(s)
       /\ \A p \in 1..2 : Len(s.hands[p]) <= SpeedHand

\* No picture is on three cards.
ASSUME DeckAssumption ==
  /\ IsFiniteSet(DOMAIN Deck)
  /\ \A i, j, k \in DOMAIN Deck :
       Deck[i] = Deck[j] /\ Deck[j] = Deck[k] => i = j \/ j = k \/ i = k

\* Both players of War are dealt cards.
ASSUME WarAssumption ==
  \A d \in WarDeals : d \in [1..2 -> Seq(Nat)] /\ \A p \in 1..2 : d[p] # <<>>

\* A book is more than one card, and a hand is dealt.
ASSUME FishAssumption == BookSize \in Nat /\ BookSize > 1 /\ FishHand \in Nat /\ FishHand > 0

\* Poker is for two or more, who have chips, and no small blind is above the big one.
ASSUME HoldemAssumption ==
  /\ NumSeats \in Nat /\ NumSeats > 1 /\ StartChips \in Nat /\ StartChips > 0 /\ Bonus \in Nat
  /\ Blinds \in Seq(Nat \X Nat) /\ Blinds # <<>>
  /\ \A i \in DOMAIN Blinds : Blinds[i][1] <= Blinds[i][2]

Init ==
  \/ game = "speed" /\ Speed!Init
  \/ game = "memory" /\ Memory!Init
  \/ game = "war" /\ War!Init
  \/ game = "fish" /\ Fish!Init
  \/ game = "ttt" /\ Ttt!Init
  \/ /\ game = "holdem" /\ Holdem!Init
     /\ view = <<>> /\ toHost = <<>> /\ toGuest = <<>> /\ losses = 0 /\ missed = FALSE

Next ==
  /\ UNCHANGED game
  /\ \/ game = "speed" /\ Speed!Next
     \/ game = "memory" /\ Memory!Next
     \/ game = "war" /\ War!Next
     \/ game = "fish" /\ Fish!Next
     \/ game = "ttt" /\ Ttt!Next
     \/ game = "holdem" /\ Holdem!Next /\ UNCHANGED wires

\* The fairness of each game. A behaviour is of one game, so that one condition
\* serves the like actions of all of them.
Receives ==
  \/ game = "speed" /\ Speed!GuestReceives
  \/ game = "memory" /\ Memory!GuestReceives
  \/ game = "war" /\ War!GuestReceives
  \/ game = "fish" /\ Fish!GuestReceives
  \/ game = "ttt" /\ Ttt!OReceives

Takes ==
  \/ game = "speed" /\ Speed!HostTakes
  \/ game = "memory" /\ Memory!HostTakes
  \/ game = "war" /\ War!HostTakes
  \/ game = "fish" /\ Fish!HostTakes
  \/ game = "ttt" /\ Ttt!XReceives

Plays ==
  \/ game = "speed" /\ Speed!HostPlays
  \/ game = "memory" /\ Memory!HostClicks
  \/ game = "war" /\ War!HostFlips
  \/ game = "fish" /\ Fish!HostPlays
  \/ game = "ttt" /\ Ttt!XClicks
  \/ game = "holdem" /\ Holdem!Act /\ UNCHANGED wires

Clicks ==
  \/ game = "speed" /\ Speed!GuestClicks
  \/ game = "memory" /\ Memory!GuestClicks
  \/ game = "war" /\ War!GuestFlips
  \/ game = "fish" /\ Fish!GuestClicks
  \/ game = "ttt" /\ Ttt!OClicks

\* Timers, effects, and the flip of the centre
Timers ==
  \/ game = "speed" /\ Speed!HostFlips
  \/ game = "memory" /\ Memory!TimerFires
  \/ game = "war" /\ War!Compared
  \/ game = "fish" /\ Fish!Commit

WarTimer == game = "war" /\ War!WarEnds

Spec ==
  /\ Init /\ [][Next]_vars
  /\ WF_vars(Receives /\ UNCHANGED game) /\ WF_vars(Takes /\ UNCHANGED game)
  /\ WF_vars(Plays /\ UNCHANGED game) /\ WF_vars(Clicks /\ UNCHANGED game)
  /\ WF_vars(Timers /\ UNCHANGED game) /\ WF_vars(WarTimer /\ UNCHANGED game)
-----------------------------------------------------------------------------
(* Properties                                                              *)

\* The cards of Speed and Go Fish, the chips of Hold'em: however late a click
\* comes or stale the copy it works on, nothing is lost, doubled or owed.
NothingLost ==
  /\ game = "speed" => Speed!CardsKept
  /\ game = "fish" => Fish!CardsKept
  /\ game = "holdem" => Holdem!ChipsConserved

\* War: flips, comparisons and wars keep the cards.
WarCardsKept == [][game = "war" => War!SameCards]_vars

\* Memory: open cards, the lock and the scores fit together.
MemoryTableAgrees == game = "memory" => Memory!TableAgrees

\* Whoever has the turn can take it: in Go Fish with a card to ask for, in
\* Hold'em as one of several still in the hand.
TurnCanBeTaken ==
  /\ game = "fish" => Fish!NeverStuck
  /\ game = "holdem" => Holdem!TurnMatters

\* The play passes on when it must and no sooner: in Speed, once started, a
\* table nobody can play on is seen by the play or flip that made it (the flip
\* that starts the game does not look), in Memory only a mismatch ends a turn,
\* in Hold'em a street ends with even stakes.
PlayPassesOn ==
  [][/\ game = "speed" => Speed!StallSeen
     /\ game = "memory" => Memory!MismatchEnds
     /\ game = "holdem" => Holdem!EvenStakes]_host

\* Tic-tac-toe: two boards without a host play the game of one board
\* (TicTacToe); other games leave its board empty.
TttBoard == INSTANCE TicTacToe WITH
  board <- IF game = "ttt" THEN Ttt!Ahead.board ELSE [c \in 0..8 |-> "none"],
  turn <- IF game = "ttt" THEN Ttt!Ahead.turn ELSE "X",
  result <- IF game = "ttt" THEN Ttt!Ahead.result ELSE "none"
TttPlaysOneGame == TttBoard!Spec

\* A page with nothing on its way to it shows the game as it is.
PagesInSync ==
  /\ game = "speed" => Speed!GuestInSync
  /\ game = "memory" => Memory!GuestInSync
  /\ game = "war" => War!GuestInSync
  /\ game = "fish" => Fish!GuestInSync
  /\ game = "ttt" => Ttt!PagesAgree

\* The rule of speedEngine.ts:9 from the start on, which the start breaks.
SpeedNeverStuck == game = "speed" => Speed!SomebodyCanPlay

\* Every game comes to its end, and every hand of poker, with three exceptions: a
\* message is lost; a table of Speed is dealt so that nobody can play, which the
\* flip that starts the game does not see, and waits for ever; in Memory, where
\* nobody need find a pair, it is enough that the turn comes to the guest.
Going ==
  \/ game = "speed" /\ Speed!Going
  \/ game \in {"memory", "war", "fish", "ttt"}
  \/ game = "holdem" /\ Holdem!Betting(host)
Ended ==
  \/ losses > 0
  \/ game = "speed" /\ (Speed!Over \/ Speed!StuckAtStart)
  \/ game = "memory" /\ (host.turn = 2 \/ Memory!Complete(host))
  \/ game = "war" /\ War!Over
  \/ game = "fish" /\ host.now.phase = "gameOver"
  \/ game = "ttt" /\ host.result # "none" /\ view.result # "none"
  \/ game = "holdem" /\ ~Holdem!Betting(host)
GamesEnd == Going ~> Ended
=============================================================================
