------------------------------ MODULE MCGames ------------------------------
(* Games on small instances.                                                *)
EXTENDS Games

SpeedTable(hands, draws, centers, spare) ==
  [hands |-> hands, draws |-> draws, centers |-> centers, spare |-> spare,
   phase |-> "ready", won |-> 0]

\* Speed: ranks 1..5, two of each; hands of two, one card to draw, two cards
\* in the centre and two to flip, in any order; a table that stalls again after
\* a flip; one that stalls with nothing left to flip; and one nobody can play on.
SpeedTables ==
  {SpeedTable(<<<<1, 3>>, <<2, 4>>>>, <<<<2>>, <<5>>>>,
              <<<<f[1]>>, <<f[2]>>>>, <<<<f[3]>>, <<f[4]>>>>) :
     f \in {g \in [1..4 -> {1, 3, 4, 5}] :
             g[1] < g[2] /\ \A i, j \in 1..4 : i # j => g[i] # g[j]}}
  \cup
  {SpeedTable(<<<<1, 4>>, <<4, 1>>>>, <<<<>>, <<>>>>, <<<<5>>, <<5>>>>, <<<<3, 2>>, <<3, 2>>>>),
   SpeedTable(<<<<2, 4>>, <<5, 2>>>>, <<<<3, 5>>, <<1, 4>>>>, <<<<1>>, <<3>>>>, <<<<>>, <<>>>>),
   SpeedTable(<<<<1, 1>>, <<2, 2>>>>, <<<<3>>, <<3>>>>, <<<<4>>, <<4>>>>, <<<<5>>, <<5>>>>)}

\* Memory: three pairs.
ThreePairs == <<1, 2, 3, 1, 2, 3>>

\* War: decks that tie at once, with and without the cards for the war, and a
\* war that ties again.
WarDecks ==
  {<< <<2, 3, 4, 5, 6, 7>>, <<3, 2, 4, 6, 5, 7>> >>,
   << <<2, 3, 4, 5, 6, 7>>, <<2, 3, 4, 5, 7, 6>> >>,
   << <<2, 3, 4, 5, 6>>, <<2, 3, 4, 5, 6>> >>,
   << <<2, 3, 4, 5, 9, 6, 7, 8, 7, 3>>, <<2, 3, 4, 5, 9, 6, 7, 8, 5, 3>> >>}

\* Go Fish: three ranks of three cards, hands of two.
ThreeRanks == 1..3

\* Hold'em: three seats of four chips, two hands, the blinds raised once.
TwoLevels == <<<<1, 2>>, <<2, 3>>>>

=============================================================================
