----------------------------- MODULE WarVersus -----------------------------
(* War for two players (WarMultiplayer.tsx): both press flip, the host's    *)
(* timers compare the cards and fight the war out.                          *)
EXTENDS HostSync, Integers, FiniteSets, FiniteSetsExt, SequencesExt

CONSTANTS
  Deals,      \* pairs of decks the game may be dealt as
  MaxRounds

\* Who has won as the message tells; after a flip it tells something else.
None == 0
Draw == 3
Untold == 4

Unflipped == [p \in Players |-> FALSE]

\* createVsWarGame
Dealt(decks) == [decks |-> decks, shown |-> <<>>, phase |-> "ready", round |-> 0,
                 flipped |-> Unflipped, told |-> None]

\* toGuestView
View(s) == [counts |-> <<Len(s.decks[1]), Len(s.decks[2])>>, shown |-> s.shown,
            phase |-> s.phase, flipped |-> s.flipped, told |-> s.told]

\* What the guest's page shows before the first view
NoView == View(Dealt(<<<<>>, <<>>>>))

\* checkGameOver, with no card on the table
Judged(s) ==
  LET n(p) == Len(s.decks[p])
      over(winner) == [s EXCEPT !.phase = "gameOver", !.told = winner]
  IN IF n(Host) = 0 THEN over(Guest)
     ELSE IF n(Guest) = 0 THEN over(Host)
     ELSE IF s.round < MaxRounds THEN s
     ELSE over(IF n(Host) > n(Guest) THEN Host
               ELSE IF n(Guest) > n(Host) THEN Guest ELSE Draw)

\* Mutant: both still count as having flipped in the next round.
WonMutantKeepsFlipped(s, winner, decks, cards) ==
  Judged([s EXCEPT !.decks = [decks EXCEPT ![winner] = @ \o cards], !.shown = <<>>,
                   !.phase = "ready", !.flipped = <<TRUE, TRUE>>, !.told = None])

\* The table's cards to the winner's deck, and the next round
Won(s, winner, decks, cards) ==
  Judged([s EXCEPT !.decks = [decks EXCEPT ![winner] = @ \o cards], !.shown = <<>>,
                   !.phase = "ready", !.flipped = Unflipped, !.told = None])

\* flipBoth
FlipBoth(s) ==
  IF \E p \in Players : s.decks[p] = <<>> THEN Judged(s)
  ELSE [s EXCEPT !.decks = [p \in Players |-> Tail(@[p])],
                 !.shown = <<Head(s.decks[1]), Head(s.decks[2])>>,
                 !.phase = "compare", !.round = @ + 1,
                 !.flipped = Unflipped, !.told = None]

\* A flip of p, on the host's page or received: in any phase
Flip(s, p) ==
  IF s.flipped[Other(p)] THEN FlipBoth(s)
  ELSE [s EXCEPT !.flipped[p] = TRUE, !.told = Untold]

\* resolveCompare
ResolveCompare(s) ==
  LET c == s.shown
  IN IF c[1] = c[2] THEN [s EXCEPT !.phase = "war", !.told = None]
     ELSE Won(s, IF c[1] > c[2] THEN Host ELSE Guest, s.decks, c)

\* The cards of k battles, as they go to the pile: the three down of the host,
\* those of the guest, and the two up.
Fought(d, k) ==
  [i \in 1..(8 * k) |->
    LET b == 4 * ((i - 1) \div 8)
        n == (i - 1) % 8
    IN IF n < 3 THEN d[1][b + n + 1]
       ELSE IF n < 6 THEN d[2][b + n - 2]
       ELSE d[n - 5][b + 4]]

\* resolveWar: battles of three cards down and one up until they differ or
\* somebody lacks the four cards; then the other takes everything.
ResolveWar(s) ==
  LET d == s.decks
      short(p, k) == Len(d[p]) < 4 * k
      ends(k) == short(1, k) \/ short(2, k) \/ d[1][4 * k] # d[2][4 * k]
      last == Min({k \in 1..(Len(d[1]) + 1) : ends(k)})
      rest(p, k) == SubSeq(d[p], 4 * k + 1, Len(d[p]))
      pile(k) == s.shown \o Fought(d, k)
      taken(p) == rest(Other(p), last - 1) \o pile(last - 1) \o rest(p, last - 1)
      cleared == [s EXCEPT !.shown = <<>>, !.phase = "gameOver", !.flipped = Unflipped]
  IN IF short(Host, last) THEN [cleared EXCEPT !.decks = <<<<>>, taken(Host)>>, !.told = Guest]
     ELSE IF short(Guest, last) THEN [cleared EXCEPT !.decks = <<taken(Guest), <<>>>>, !.told = Host]
     ELSE Won(s, IF d[1][4 * last] > d[2][4 * last] THEN Host ELSE Guest,
              <<rest(1, last), rest(2, last)>>, pile(last))

Init == host \in {Dealt(d) : d \in Deals} /\ view = NoView /\ NetInit(TRUE)

Becomes(next) ==
  \E s \in {next} : host' = s /\ Broadcast(View(s)) /\ UNCHANGED <<view, losses>>

-----------------------------------------------------------------------------
\* Mutant: the button is there while the cards lie on the table.
MayFlipMutantAnyPhase(s, p) == s.phase # "gameOver" /\ ~s.flipped[p]

MayFlip(s, p) == s.phase = "ready" /\ ~s.flipped[p]

\* handleFlip
HostFlips == MayFlip(host, Host) /\ Becomes(Flip(host, Host)) /\ UNCHANGED toHost
GuestFlips == MayFlip(view, Guest) /\ Click([type |-> "flip"])

\* The host's listener
HostTakes == Take /\ Becomes(Flip(host, Guest))

\* The timers of the host's page
Compared == host.phase = "compare" /\ Becomes(ResolveCompare(host)) /\ UNCHANGED toHost
WarEnds == host.phase = "war" /\ Becomes(ResolveWar(host)) /\ UNCHANGED toHost

Next == HostFlips \/ GuestFlips \/ HostTakes \/ Compared \/ WarEnds \/ Transport

\* Messages arrive, the timers fire, and both players flip when they may.
Fairness ==
  /\ WF_vars(GuestReceives) /\ WF_vars(HostTakes) /\ WF_vars(Compared) /\ WF_vars(WarEnds)
  /\ WF_vars(HostFlips) /\ WF_vars(GuestFlips)

Spec == Init /\ [][Next]_vars /\ Fairness
-----------------------------------------------------------------------------
(* Properties                                                              *)

Table(s) == s.decks[1] \o s.decks[2] \o s.shown

\* Cards with the same rank count as often as before: a flip that comes when
\* the cards lie on the table already (the host takes it in any phase) draws no
\* second pair over them, and a war leaves no card behind.
Copies(t, c) == Cardinality({i \in DOMAIN t : t[i] = c})
SameCards ==
  \A c \in Range(Table(host)) \cup Range(Table(host')) :
    Copies(Table(host), c) = Copies(Table(host'), c)
CardsKept == [][SameCards]_host

\* The guest's page shows the game of the host.
GuestInSync == Synced(View(host))

\* If both go on flipping and no message is lost, the game ends, if not by the
\* cards, by the last round.
Over == host.phase = "gameOver"
GameEnds == TRUE ~> (Over \/ losses > 0)

\* The result stays what it was when the game ended. The host takes a flip that
\* comes after the end, and its message then names no winner.
ResultStands == host.phase = "gameOver" => host.told \in {Host, Guest, Draw}
=============================================================================
