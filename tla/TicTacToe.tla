----------------------------- MODULE TicTacToe -----------------------------
(* Tic-tac-toe as one board shows it (ticTacToeEngine.ts): what the pages   *)
(* of two players together have to implement.                               *)
EXTENDS Naturals, FiniteSets

VARIABLES
  board,   \* the mark on each cell, or Empty
  turn,    \* the mark to be set next
  result   \* Empty while the game goes on, else the winner or Draw

vars == <<board, turn, result>>

Cells == 0..8
Empty == "none"
Draw == "draw"
Marks == {"X", "O"}
Opposite(m) == IF m = "X" THEN "O" ELSE "X"

\* WIN_LINES: rows, columns and diagonals
Lines == {{0, 1, 2}, {3, 4, 5}, {6, 7, 8}, {0, 3, 6}, {1, 4, 7}, {2, 5, 8},
          {0, 4, 8}, {2, 4, 6}}

\* checkWinner
Wins(b, m) == \E line \in Lines : \A c \in line : b[c] = m

\* isBoardFull
Full(b) == \A c \in Cells : b[c] # Empty

\* The board after m has marked cell c
Marked(b, c, m) == [b EXCEPT ![c] = m]

ResultOf(b, m) == IF Wins(b, m) THEN m ELSE IF Full(b) THEN Draw ELSE Empty

Init == board = [c \in Cells |-> Empty] /\ turn = "X" /\ result = Empty

Mark(c) ==
  /\ result = Empty /\ board[c] = Empty
  /\ board' = Marked(board, c, turn)
  /\ result' = ResultOf(board', turn)
  /\ turn' = IF result' = Empty THEN Opposite(turn) ELSE turn

Next == \E c \in Cells : Mark(c)

Spec == Init /\ [][Next]_vars
=============================================================================
