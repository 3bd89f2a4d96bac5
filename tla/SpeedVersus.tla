---------------------------- MODULE SpeedVersus ----------------------------
(* Speed for two players (SpeedMultiplayer.tsx): both play at once, the     *)
(* host by hand, the guest by index into the hand it was last shown. The    *)
(* rules are those of speedEngine.ts.                                       *)
EXTENDS HostSync, Integers, FiniteSets, FiniteSetsExt

CONSTANTS
  TopRank,   \* ranks are 1..TopRank, and the lowest follows the highest
  Copies,    \* suits: cards of each rank
  HandSize,
  Deals      \* the states a game may be dealt as

Ranks == 1..TopRank
Sides == 1..2

\* The states of a game
Piles == [Sides -> Seq(Ranks)]
States == [hands : Piles, draws : Piles, centers : Piles, spare : Piles,
           phase : {"ready", "playing", "stalled", "gameOver"}, won : 0..2]

\* isPlayable
Playable(c, top) == c - top \in {1, -1, TopRank - 1, 1 - TopRank}

Top(pile) == pile[Len(pile)]

\* getPlayableMoves
Moves(hand, centers) ==
  {m \in (1..Len(hand)) \X Sides : Playable(hand[m[1]], Top(centers[m[2]]))}

\* checkStalled
Stalled(s) == \A p \in Players : Moves(s.hands[p], s.centers) = {}

Count(s, p) == Len(s.hands[p]) + Len(s.draws[p])

\* checkWin, then resolveStall; won is told by the message.
Resolved(s) ==
  IF \E p \in Players : Count(s, p) = 0
  THEN [s EXCEPT !.phase = "gameOver",
                 !.won = CHOOSE p \in Players : Count(s, p) = 0]
  ELSE IF ~Stalled(s) THEN s
  ELSE IF \E k \in Sides : s.spare[k] # <<>> THEN [s EXCEPT !.phase = "stalled"]
  ELSE [s EXCEPT !.phase = "gameOver",
                 !.won = IF Count(s, Host) = Count(s, Guest) THEN 0
                         ELSE CHOOSE p \in Players : Count(s, p) < Count(s, Other(p))]

\* Mutant: the cards drawn stay in the pile.
RefillMutantKeepsDrawn(s, p) ==
  LET n == Min({HandSize - Len(s.hands[p]), Len(s.draws[p])})
  IN [s EXCEPT !.hands[p] = @ \o SubSeq(s.draws[p], 1, n)]

\* refillHand
Refill(s, p) ==
  LET n == Min({HandSize - Len(s.hands[p]), Len(s.draws[p])})
  IN [s EXCEPT !.hands[p] = @ \o SubSeq(s.draws[p], 1, n),
               !.draws[p] = SubSeq(@, n + 1, Len(@))]

\* vsPlayCard: a play that is not allowed any more changes nothing.
Play(s, p, i, k) ==
  IF s.phase # "playing" \/ <<i, k>> \notin Moves(s.hands[p], s.centers) THEN s
  ELSE LET c == s.hands[p][i]
           without == SubSeq(s.hands[p], 1, i - 1)
                      \o SubSeq(s.hands[p], i + 1, Len(s.hands[p]))
       IN Resolved(Refill([s EXCEPT !.hands[p] = without,
                                    !.centers[k] = Append(@, c)], p))

\* vsFlipStartingCards
FlipStarting(s) == IF s.phase = "ready" THEN [s EXCEPT !.phase = "playing"] ELSE s

\* Mutant: after a flip nobody looks whether anyone can play.
FlipCenterMutantUnresolved(s) ==
  IF s.phase # "stalled" THEN s
  ELSE [s EXCEPT !.phase = "playing",
                 !.centers = [k \in Sides |-> IF s.spare[k] = <<>> THEN @[k]
                                              ELSE Append(@[k], Head(s.spare[k]))],
                 !.spare = [k \in Sides |-> IF @[k] = <<>> THEN <<>> ELSE Tail(@[k])]]

\* vsFlipCenter
FlipCenter(s) ==
  IF s.phase # "stalled" THEN s
  ELSE LET turned(k) == SubSeq(s.spare[k], 1, IF s.spare[k] = <<>> THEN 0 ELSE 1)
           left(k) == SubSeq(s.spare[k], 2, Len(s.spare[k]))
       IN Resolved([s EXCEPT !.phase = "playing",
                             !.centers = [k \in Sides |-> @[k] \o turned(k)],
                             !.spare = [k \in Sides |-> left(k)]])

\* toGuestView
View(s) ==
  [phase |-> s.phase, hand |-> s.hands[Guest], centers |-> s.centers, won |-> s.won,
   counts |-> <<Len(s.draws[Guest]), Len(s.hands[Host]), Len(s.draws[Host])>>]

\* What the guest's page shows before the first view.
NoView == [phase |-> "ready", hand |-> <<>>, centers |-> <<<<>>, <<>>>>, won |-> 0,
           counts |-> <<0, 0, 0>>]

Init == host \in Deals /\ view = NoView /\ NetInit(TRUE)

Becomes(next) ==
  \E s \in {next} : host' = s /\ Broadcast(View(s)) /\ UNCHANGED <<view, losses>>

-----------------------------------------------------------------------------
\* handleFlipStart, handleFlipCenter and doPlayCard on the host's page
HostFlipsStart == host.phase = "ready" /\ Becomes(FlipStarting(host)) /\ UNCHANGED toHost
HostFlips == host.phase = "stalled" /\ Becomes(FlipCenter(host)) /\ UNCHANGED toHost
HostPlays ==
  /\ host.phase = "playing"
  /\ \E m \in Moves(host.hands[Host], host.centers) :
       Becomes(Play(host, Host, m[1], m[2]))
  /\ UNCHANGED toHost

\* The same three on the guest's page, for the game it shows
GuestClicks ==
  \/ view.phase = "ready" /\ Click([type |-> "flip_start"])
  \/ view.phase = "stalled" /\ Click([type |-> "flip_center"])
  \/ /\ view.phase = "playing"
     /\ \E m \in Moves(view.hand, view.centers) :
          Click([type |-> "play_card", at |-> m[1], pile |-> m[2]])

\* The host's listener
HostTakes ==
  /\ Take
  /\ LET msg == Head(toHost)
     IN Becomes(CASE msg.type = "flip_start"  -> FlipStarting(host)
                  [] msg.type = "flip_center" -> FlipCenter(host)
                  [] msg.type = "play_card"   -> Play(host, Guest, msg.at, msg.pile))

Next == HostFlipsStart \/ HostFlips \/ HostPlays \/ GuestClicks \/ HostTakes \/ Transport

\* Messages arrive, and players who can go on do.
Fairness ==
  /\ WF_vars(GuestReceives) /\ WF_vars(HostTakes)
  /\ WF_vars(HostFlips) /\ WF_vars(HostPlays) /\ WF_vars(GuestClicks)

Spec == Init /\ [][Next]_vars /\ Fairness
-----------------------------------------------------------------------------
(* Properties                                                              *)

\* Every card of the table
Cards(s) == s.hands[1] \o s.hands[2] \o s.draws[1] \o s.draws[2]
            \o s.centers[1] \o s.centers[2] \o s.spare[1] \o s.spare[2]

\* A click that comes too late takes no card out of the game and puts none in:
\* the piles hold the deck after every play, refill and flip.
Kept(s) ==
  \E all \in {Cards(s)} :
    \A r \in Ranks : Cardinality({i \in DOMAIN all : all[i] = r}) = Copies
CardsKept == Kept(host)

\* "When neither player can play, flip from replacement piles": once started,
\* the game waits for a card only of a player who has one to play.
StallSeen == host.phase # "ready" /\ host'.phase = "playing" => ~Stalled(host')
StallIsSeen == [][StallSeen]_host

\* The same from the first card on (speedEngine.ts:9); the start does not look.
SomebodyCanPlay == host.phase = "playing" => ~Stalled(host)

\* The guest plays by index into the hand it sees, so that it must see its own.
GuestInSync == Synced(View(host))

\* The table that breaks that rule: dealt so that nobody can play, and started.
\* No card is played and none flipped; the game stays "playing" for ever.
StuckAtStart ==
  /\ host.phase = "playing" /\ Stalled(host)
  /\ \A k \in Sides : Len(host.centers[k]) = 1

\* If the players go on and no message is lost, a game that has begun is decided,
\* but for one that is stuck at its start.
Going == host.phase = "playing"
Over == host.phase = "gameOver"
GameEnds == Going ~> (Over \/ StuckAtStart \/ losses > 0)
=============================================================================
