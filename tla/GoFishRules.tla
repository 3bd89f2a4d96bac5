---------------------------- MODULE GoFishRules ----------------------------
(* The rules both Go Fish games share (goFishEngine.ts; the page for two    *)
(* players repeats them). A hand and the pond are bags of ranks: suits and  *)
(* order do not count, and the next card of the pond may be any it holds.   *)
(* A rule that draws is the set of the games it may lead to.                *)
EXTENDS Integers, FiniteSets, Bags

CONSTANTS
  Ranks,
  BookSize   \* cards of a rank: four

Seats == 1..2
Opponent(p) == 3 - p

One(r) == SetToBag({r})

\* How many cards of rank r a bag holds
Held(r, bag) == IF BagIn(r, bag) THEN bag[r] ELSE 0

\* isGameOver
Over(s) ==
  \/ Cardinality(s.books[1] \cup s.books[2]) >= Cardinality(Ranks)
  \/ s.pond = EmptyBag /\ \E p \in Seats : s.hands[p] = EmptyBag

Ended(s) == IF Over(s) THEN [s EXCEPT !.phase = "gameOver"] ELSE s

\* checkForBooks and applyBookCheck
Booked(s, p) ==
  LET new == {r \in Ranks : Held(r, s.hands[p]) >= BookSize}
      books == [r \in new |-> Held(r, s.hands[p])]
  IN IF new = {} THEN s
     ELSE Ended([s EXCEPT !.hands[p] = @ (-) books, !.books[p] = @ \cup new])

Drawn(s, p, r) == [s EXCEPT !.hands[p] = @ (+) One(r), !.pond = @ (-) One(r)]

\* Mutant: an empty hand stays empty.
RefilledMutantNever(s, p) == {s}

\* An empty hand draws a card, if the pond has one.
Refilled(s, p) ==
  IF s.hands[p] = EmptyBag /\ s.pond # EmptyBag /\ s.phase # "gameOver"
  THEN {Booked(Drawn(s, p, r), p) : r \in BagToSet(s.pond)}
  ELSE {s}

\* Mutant: the opponent keeps the cards.
TransferredMutantCopies(s, p, r) ==
  [s EXCEPT !.hands[p] = @ (+) [x \in {r} |-> s.hands[Opponent(p)][r]]]

\* p gets the opponent's cards of rank r.
Transferred(s, p, r) ==
  LET theirs == [x \in {r} |-> s.hands[Opponent(p)][r]]
  IN [s EXCEPT !.hands[p] = @ (+) theirs, !.hands[Opponent(p)] = @ (-) theirs]

\* A hand of n cards: so many of each rank
Hands(n) ==
  {b \in {[r \in {x \in Ranks : c[x] > 0} |-> c[r]] : c \in [Ranks -> 0..BookSize]} :
     BagCardinality(b) = n}

\* createGoFishGame: two hands of n cards, the rest in the pond
Dealt(n, phase) ==
  LET all == [r \in Ranks |-> BookSize]
      enough(h) == \A r \in Ranks : Held(r, h[1]) + Held(r, h[2]) <= BookSize
  IN {[hands |-> h, books |-> <<{}, {}>>, phase |-> phase, turn |-> 1, asked |-> 0,
       pond |-> (all (-) h[1]) (-) h[2]] :
      h \in {d \in Hands(n) \X Hands(n) : enough(d)}}

\* How many cards of rank r there are, a book being BookSize of them.
Copies(s, r) ==
  Held(r, s.hands[1]) + Held(r, s.hands[2]) + Held(r, s.pond)
  + BookSize * Cardinality({p \in Seats : r \in s.books[p]})
=============================================================================
