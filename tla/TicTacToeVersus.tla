-------------------------- MODULE TicTacToeVersus --------------------------
(* Tic-tac-toe for two players (TicTacToeMultiplayer.tsx): no page is in    *)
(* charge. Each marks its own board, tells the other page where, and marks  *)
(* what the other tells.                                                    *)
EXTENDS HostSync, FiniteSets

\* host is the page of X and view the page of O: a board, whose turn it shows,
\* and the result.
T == INSTANCE TicTacToe WITH board <- host.board, turn <- host.turn, result <- host.result

Blank == [board |-> [c \in T!Cells |-> T!Empty], turn |-> "X", result |-> T!Empty]

Init == host = Blank /\ view = Blank /\ NetInit(FALSE)

\* A page after m has marked cell c
After(page, c, m) ==
  LET b == T!Marked(page.board, c, m)
      r == T!ResultOf(b, m)
  IN [board |-> b, result |-> r, turn |-> IF r = T!Empty THEN T!Opposite(m) ELSE page.turn]

\* Mutant: a click counts out of turn.
MayMarkMutantAnyTurn(page, c, m) == page.result = T!Empty /\ page.board[c] = T!Empty

\* handleCellClick
MayMark(page, c, m) == page.result = T!Empty /\ page.turn = m /\ page.board[c] = T!Empty

XClicks ==
  \E c \in T!Cells :
    /\ MayMark(host, c, "X") /\ Len(toGuest) < MaxWire
    /\ host' = After(host, c, "X")
    /\ toGuest' = Append(toGuest, c)
    /\ UNCHANGED <<view, toHost, losses, missed>>

OClicks ==
  \E c \in T!Cells :
    /\ MayMark(view, c, "O") /\ Len(toHost) < MaxWire
    /\ view' = After(view, c, "O")
    /\ toHost' = Append(toHost, c)
    /\ UNCHANGED <<host, toGuest, losses, missed>>

\* The listener: a mark on a taken cell is passed over, whoever's turn it is.
Received(page, c, m) == IF page.board[c] = T!Empty THEN After(page, c, m) ELSE page

XReceives ==
  /\ Take
  /\ host' = Received(host, Head(toHost), "O")
  /\ UNCHANGED <<view, toGuest, losses, missed>>

OReceives ==
  /\ toGuest # <<>> /\ toGuest' = Tail(toGuest)
  /\ view' = Received(view, Head(toGuest), "X")
  /\ UNCHANGED <<host, toHost, losses, missed>>

Next == XClicks \/ OClicks \/ XReceives \/ OReceives \/ LoseClicks \/ LoseViews

\* Messages arrive and the player whose page says so plays.
Fairness ==
  /\ WF_vars(XClicks) /\ WF_vars(OClicks) /\ WF_vars(XReceives) /\ WF_vars(OReceives)

Spec == Init /\ [][Next]_vars /\ Fairness
-----------------------------------------------------------------------------
(* Properties                                                              *)

MarksOn(page) == Cardinality({c \in T!Cells : page.board[c] # T!Empty})

\* The page that has seen more of the game
Ahead == IF MarksOn(host) >= MarksOn(view) THEN host ELSE view

\* The two pages together play the one-board game: no two marks at a time, none
\* on a taken cell, none after the end, whatever is lost on the way.
OneGame == INSTANCE TicTacToe WITH board <- Ahead.board, turn <- Ahead.turn, result <- Ahead.result
PlaysOneGame == OneGame!Spec

\* With nothing on its way or lost, both pages show the same board and result.
PagesAgree == toHost = <<>> /\ toGuest = <<>> /\ losses = 0 => host = view

\* While no mark is lost, both pages come to a result.
BothDecided ==
  TRUE ~> ((host.result # T!Empty /\ view.result # T!Empty) \/ losses > 0)
=============================================================================
