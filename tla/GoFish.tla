------------------------------- MODULE GoFish -------------------------------
(* Go Fish against the computer (goFishEngine.ts, GoFish.tsx): seat 1 is    *)
(* the player's, seat 2 the computer's.                                     *)
EXTENDS GoFishRules

CONSTANTS
  HandSize,
  MaxIterations   \* of the loop of aiTurn: its safety valve

VARIABLES
  game,
  memory    \* aiMemory: the ranks the player has asked for

vars == <<game, memory>>

Human == 1
Ai == 2

Init == game \in Dealt(HandSize, "playerTurn") /\ memory = {}

Turn(s, p) == [s EXCEPT !.turn = p, !.phase = IF p = Human THEN "playerTurn" ELSE "aiTurn"]

-----------------------------------------------------------------------------
\* askForRank
AskForRank(r) ==
  /\ game.phase = "playerTurn" /\ BagIn(r, game.hands[Human])
  /\ memory' = memory \cup {r}
  /\ IF ~BagIn(r, game.hands[Ai])
     THEN game' = [game EXCEPT !.phase = "goFish", !.asked = r]
     ELSE \E s \in Refilled(Booked(Transferred([game EXCEPT !.asked = 0], Human, r), Human), Human) :
            game' = IF s.phase # "gameOver" /\ s.hands[Human] = EmptyBag THEN Turn(s, Ai) ELSE s

\* goFish on an empty pond
PondEmpty ==
  /\ game.phase = "goFish" /\ game.pond = EmptyBag
  /\ game' = IF Over(game) THEN Ended(game) ELSE Turn(game, Opponent(game.turn))
  /\ UNCHANGED memory

\* goFish otherwise: the card asked for keeps the turn, and whoever is next
\* draws if the hand is empty.
Fish(r) ==
  LET p == game.turn
      drew == Booked(Drawn([game EXCEPT !.asked = 0], p, r), p)
      next == Turn(drew, IF r = game.asked THEN p ELSE Opponent(p))
  IN /\ game.phase = "goFish" /\ BagIn(r, game.pond)
     /\ IF drew.phase = "gameOver" THEN game' = drew
        ELSE \E s \in Refilled(next, next.turn) : game' = Ended(s)
     /\ UNCHANGED memory

\* aiChooseRank: three of a kind, two, a rank the player asked for, any.
Chosen(s) ==
  LET held == BagToSet(s.hands[Ai])
      near == {r \in held : s.hands[Ai][r] >= BookSize - 1}
      twos == {r \in held : s.hands[Ai][r] = BookSize - 2}
  IN IF near # {} THEN near ELSE IF twos # {} THEN twos
     ELSE IF held \cap memory # {} THEN held \cap memory ELSE held

\* One round of the loop of aiTurn, from a hand with cards: the player's cards
\* of the rank, or the next card of the pond.
Asking(s) ==
  UNION {IF BagIn(r, s.hands[Human]) THEN {Booked(Transferred(s, Ai, r), Ai)}
         ELSE IF s.pond = EmptyBag
              THEN {IF Over(s) THEN Ended(s) ELSE Turn(s, Human)}
         ELSE {LET t == Booked(Drawn(s, Ai, d), Ai)
               IN IF t.phase = "gameOver" \/ d = r THEN t ELSE Turn(t, Human) :
               d \in BagToSet(s.pond)} :
         r \in Chosen(s)}

\* An empty hand draws first; without a pond the turn is the player's.
Round(s) ==
  IF s.phase # "aiTurn" THEN {s}
  ELSE UNION {IF t.phase = "gameOver" THEN {t}
              ELSE IF t.hands[Ai] # EmptyBag THEN Asking(t)
              ELSE {IF Over(t) THEN Ended(t) ELSE Turn(t, Human)} : t \in Refilled(s, Ai)}

\* aiTurn: the timer of the page runs the loop to the end of the turn.
AiTurn ==
  /\ game.phase = "aiTurn"
  /\ LET after[n \in 0..MaxIterations] ==
           IF n = 0 THEN {game} ELSE UNION {Round(s) : s \in after[n - 1]}
     IN game' \in after[MaxIterations]
  /\ UNCHANGED memory

Next == (\E r \in Ranks : AskForRank(r) \/ Fish(r)) \/ PondEmpty \/ AiTurn

Spec == Init /\ [][Next]_vars
-----------------------------------------------------------------------------
(* Properties                                                              *)

\* "If your hand is emptied (by books or transfers), you automatically draw a
\* card from the pond if any remain. If the pond is also empty, the turn
\* passes." (GoFish.tsx:126): the player whose turn it is has a card to ask for.
\* The loop of aiTurn hands over the turn without looking at the player's hand.
PlayerCanAsk == game.phase = "playerTurn" => game.hands[Human] # EmptyBag
=============================================================================
