---------------------------- MODULE GamesProofs ----------------------------
(* Proofs about the games, for any decks, deals and bounds.                 *)
EXTENDS Games, SequenceTheorems, FiniteSetTheorems, WellFoundedInduction, TLAPS

(* The wires. Whatever a page sends last is what the other shows once the   *)
(* wire is empty, unless it was lost.                                       *)

IsWire(s) == s \in Seq({s[i] : i \in DOMAIN s})
Final(s) == s[Len(s)]

\* The host has sent v last, or its last message is lost.
Latest(v) ==
  /\ IsWire(toGuest) /\ missed \in BOOLEAN
  /\ toGuest # <<>> => ~missed /\ Final(toGuest) = v
  /\ toGuest = <<>> /\ ~missed => view = v

\* What a sequence of anything is, is a wire.
LEMMA SeqsAreWires == ASSUME NEW S, NEW s \in Seq(S) PROVE IsWire(s)
<1>1. Len(s) \in Nat /\ DOMAIN s = 1..Len(s) /\ s = [i \in 1..Len(s) |-> s[i]]
  BY LenProperties
<1>2. [i \in 1..Len(s) |-> s[i]] \in Seq({s[i] : i \in DOMAIN s})
  <2> DEFINE T == {s[i] : i \in DOMAIN s}
  <2>1. \A i \in 1..Len(s) : s[i] \in T
    BY <1>1
  <2> HIDE DEF T
  <2>2. [i \in 1..Len(s) |-> s[i]] \in [1..Len(s) -> T]
    BY <2>1
  <2> QED BY <1>1, <2>2, SeqDef DEF T
<1> QED BY <1>1, <1>2 DEF IsWire

\* A message more, and it is the last.
LEMMA AppendWire ==
  ASSUME NEW s, IsWire(s), NEW v
  PROVE  /\ IsWire(Append(s, v)) /\ Append(s, v) # <<>>
         /\ Final(Append(s, v)) = v
<1> DEFINE T == {s[i] : i \in DOMAIN s} \cup {v}
<1>1. s \in Seq(T) /\ v \in T
  BY SeqMonotonic DEF IsWire
<1> HIDE DEF T
<1>2. Append(s, v) \in Seq(T) /\ Append(s, v) # <<>> /\ Final(Append(s, v)) = v
  BY <1>1, AppendProperties DEF Final
<1> QED BY <1>2, SeqsAreWires

\* A message less, and the last is still the last.
LEMMA TailWire ==
  ASSUME NEW s, IsWire(s), s # <<>>
  PROVE  /\ IsWire(Tail(s))
         /\ Tail(s) = <<>> => Head(s) = Final(s)
         /\ Tail(s) # <<>> => Final(Tail(s)) = Final(s)
<1> DEFINE T == {s[i] : i \in DOMAIN s}
<1>1. s \in Seq(T)
  BY DEF IsWire
<1> HIDE DEF T
<1>2. /\ Tail(s) \in Seq(T) /\ Len(Tail(s)) = Len(s) - 1 /\ Len(s) \in Nat
      /\ \A i \in 1..Len(Tail(s)) : Tail(s)[i] = s[i + 1]
  BY <1>1, HeadTailProperties, LenProperties
<1>3. Head(s) = s[1]
  BY <1>1
<1>4. Tail(s) = <<>> => Len(Tail(s)) = 0
  BY EmptySeq
<1>5. Tail(s) # <<>> => Len(Tail(s)) \in Nat \ {0}
  BY <1>2, EmptySeq
<1>6. IsWire(Tail(s))
  BY <1>2, SeqsAreWires
<1>7. Tail(s) = <<>> => Head(s) = Final(s)
  BY <1>2, <1>3, <1>4 DEF Final
<1>8. Tail(s) # <<>> => Final(Tail(s)) = Final(s)
  BY <1>2, <1>5 DEF Final
<1> QED BY <1>6, <1>7, <1>8

\* The empty wire
LEMMA EmptyWire == IsWire(<<>>)
BY SeqsAreWires, EmptySeq

\* Every step that sends, delivers or loses keeps track of what was sent last.
LEMMA LatestKept ==
  ASSUME NEW v, NEW w, Latest(v),
         \/ Speed!Broadcast(w) /\ view' = view
         \/ w = v /\ UNCHANGED <<view, toGuest, missed>>
         \/ w = v /\ (Speed!GuestReceives \/ Speed!LoseViews)
  PROVE  Latest(w)'
<1>1. CASE Speed!Broadcast(w) /\ view' = view
  BY <1>1, AppendWire DEF Latest, Speed!Broadcast
<1>2. CASE w = v /\ UNCHANGED <<view, toGuest, missed>>
  BY <1>2 DEF Latest
<1>3. CASE w = v /\ Speed!GuestReceives
  BY <1>3, TailWire DEF Latest, Speed!GuestReceives
<1>4. CASE w = v /\ Speed!LoseViews
  BY <1>4, EmptyWire DEF Latest, Speed!LoseViews
<1> QED BY <1>1, <1>2, <1>3, <1>4

\* Every game counts with the same Cardinality.
LEMMA CountsAre ==
  \A S : /\ Ttt!Cardinality(S) = Cardinality(S)
         /\ Memory!Cardinality(S) = Cardinality(S)
         /\ Speed!Cardinality(S) = Cardinality(S)
         /\ War!Cardinality(S) = Cardinality(S)
         /\ Fish!Cardinality(S) = Cardinality(S)
         /\ Holdem!Cardinality(S) = Cardinality(S)
BY DEF Cardinality, Ttt!Cardinality, Memory!Cardinality, Speed!Cardinality, War!Cardinality,
       Fish!Cardinality, Holdem!Cardinality
-----------------------------------------------------------------------------
(* Each host sends the guest the view of its game with every change of it.  *)

\* Every change of Speed is sent (broadcastState of SpeedMultiplayer.tsx).
LEMMA SpeedLatest ==
  ASSUME Latest(Speed!View(host)), Speed!Next PROVE Latest(Speed!View(host))'
<1>1. \/ Speed!Broadcast(Speed!View(host')) /\ view' = view
      \/ host' = host /\ UNCHANGED <<view, toGuest, missed>>
      \/ host' = host /\ (Speed!GuestReceives \/ Speed!LoseViews)
  BY DEF Speed!Next, Speed!HostFlipsStart, Speed!HostFlips, Speed!HostPlays, Speed!GuestClicks,
         Speed!HostTakes, Speed!Becomes, Speed!Click, Speed!Transport, Speed!GuestReceives,
         Speed!LoseViews, Speed!LoseClicks
<1> QED BY <1>1, LatestKept

\* Every change of the Memory board is sent.
LEMMA MemoryLatest ==
  ASSUME Latest(host), Memory!Next PROVE Latest(host)'
<1>1. \/ Speed!Broadcast(host') /\ view' = view
      \/ host' = host /\ UNCHANGED <<view, toGuest, missed>>
      \/ host' = host /\ (Speed!GuestReceives \/ Speed!LoseViews)
  BY DEF Memory!Next, Memory!HostClicks, Memory!GuestClicks, Memory!HostTakes,
         Memory!TimerFires, Memory!Becomes, Memory!Click, Memory!Broadcast,
         Memory!Transport, Memory!GuestReceives, Memory!LoseViews, Memory!LoseClicks,
         Speed!Broadcast, Speed!GuestReceives, Speed!LoseViews
<1> QED BY <1>1, LatestKept

\* Every change of War is sent.
LEMMA WarLatest ==
  ASSUME Latest(War!View(host)), War!Next PROVE Latest(War!View(host))'
<1>1. \/ Speed!Broadcast(War!View(host')) /\ view' = view
      \/ host' = host /\ UNCHANGED <<view, toGuest, missed>>
      \/ host' = host /\ (Speed!GuestReceives \/ Speed!LoseViews)
  BY DEF War!Next, War!HostFlips, War!GuestFlips, War!HostTakes, War!Compared, War!WarEnds,
         War!Becomes, War!Click, War!Broadcast,
         War!Transport, War!GuestReceives, War!LoseViews, War!LoseClicks,
         Speed!Broadcast, Speed!GuestReceives, Speed!LoseViews
<1> QED BY <1>1, LatestKept

\* The effect that brings the copy up to date leaves the page as it is.
FishPage == host = [now |-> host.now, ref |-> host.ref]

\* Every change of Go Fish is sent; the effect that copies it changes nothing shown.
LEMMA FishLatest ==
  ASSUME Latest(Fish!View(host.now)), FishPage, Fish!Next
  PROVE  Latest(Fish!View(host.now))' /\ FishPage'
<1>1. \/ Speed!Broadcast(Fish!View(host'.now)) /\ view' = view /\ FishPage'
      \/ host'.now = host.now /\ FishPage' /\ UNCHANGED <<view, toGuest, missed>>
      \/ host' = host /\ (Speed!GuestReceives \/ Speed!LoseViews)
  <2>1. CASE Fish!HostPlays \/ Fish!HostTakes
    BY <2>1 DEF Fish!HostPlays, Fish!HostTakes, Fish!Becomes, Fish!Broadcast,
                Speed!Broadcast, FishPage
  <2>2. CASE Fish!Commit
    BY <2>2 DEF Fish!Commit, Fish!net, FishPage
  <2>3. CASE Fish!GuestClicks \/ Fish!Transport
    BY <2>3 DEF Fish!GuestClicks, Fish!Click, Fish!Transport, Fish!GuestReceives,
                Fish!LoseViews, Fish!LoseClicks, Speed!GuestReceives, Speed!LoseViews, FishPage
  <2> QED BY <2>1, <2>2, <2>3 DEF Fish!Next
<1> QED BY <1>1, LatestKept DEF FishPage

-----------------------------------------------------------------------------
(* Tic-tac-toe. The boards are the same, or one page is a mark ahead and    *)
(* has told the other where, or the message is lost and nobody can go on.   *)

TttPages == [board : [0..8 -> {"none", "X", "O"}], turn : {"X", "O"},
             result : {"none", "X", "O", "draw"}]

\* The page a of m has a mark more than page b.
MarkAhead(a, b, m, wire) ==
  \E c \in 0..8 :
    /\ b.board[c] = "none" /\ b.turn = m /\ b.result = "none"
    /\ a = Ttt!After(b, c, m)
    /\ wire = <<c>> \/ (wire = <<>> /\ losses > 0)

TttInv ==
  /\ host \in TttPages /\ view \in TttPages /\ losses \in Nat
  /\ \/ host = view /\ toHost = <<>> /\ toGuest = <<>>
     \/ MarkAhead(host, view, "X", toGuest) /\ toHost = <<>>
     \/ MarkAhead(view, host, "O", toHost) /\ toGuest = <<>>

\* A mark makes a page of a page, and it is the turn of the other or the end.
LEMMA AfterIs ==
  ASSUME NEW p \in TttPages, NEW c \in 0..8, NEW m \in {"X", "O"}
  PROVE  /\ Ttt!After(p, c, m) \in TttPages
         /\ \A d \in 0..8 : Ttt!After(p, c, m).board[d] = IF d = c THEN m ELSE p.board[d]
         /\ Ttt!After(p, c, m).result = "none" =>
               Ttt!After(p, c, m).turn = IF m = "X" THEN "O" ELSE "X"
<1> DEFINE b == Ttt!T!Marked(p.board, c, m)
           r == Ttt!T!ResultOf(b, m)
<1>1. b \in [0..8 -> {"none", "X", "O"}] /\ b = [p.board EXCEPT ![c] = m]
  BY DEF TttPages, Ttt!T!Marked
<1>2. r \in {"none", "X", "O", "draw"}
  BY DEF Ttt!T!ResultOf, Ttt!T!Draw, Ttt!T!Empty
<1> HIDE DEF b, r
<1>3. Ttt!After(p, c, m) = [board |-> b, result |-> r,
         turn |-> IF r = "none" THEN IF m = "X" THEN "O" ELSE "X" ELSE p.turn]
  BY DEF Ttt!After, Ttt!T!Empty, Ttt!T!Opposite, b, r
<1> QED BY <1>1, <1>2, <1>3 DEF TttPages

Even == host = view /\ toHost = <<>> /\ toGuest = <<>>
XAhead == MarkAhead(host, view, "X", toGuest) /\ toHost = <<>>
OAhead == MarkAhead(view, host, "O", toHost) /\ toGuest = <<>>

\* Who may mark: on even boards only, the player whose turn they show.
LEMMA OnlyEvenMark ==
  ASSUME TttInv, NEW c \in 0..8
  PROVE  /\ Ttt!MayMark(host, c, "X") => Even
         /\ Ttt!MayMark(view, c, "O") => Even
<1>1. ASSUME XAhead PROVE ~Ttt!MayMark(host, c, "X") /\ ~Ttt!MayMark(view, c, "O")
  <2>1. PICK d \in 0..8 : view.turn = "X" /\ host = Ttt!After(view, d, "X")
    BY <1>1 DEF XAhead, MarkAhead
  <2>2. host.result = "none" => host.turn = "O"
    BY <2>1, AfterIs DEF TttInv
  <2> QED BY <2>1, <2>2 DEF Ttt!MayMark, Ttt!T!Empty
<1>2. ASSUME OAhead PROVE ~Ttt!MayMark(host, c, "X") /\ ~Ttt!MayMark(view, c, "O")
  <2>1. PICK d \in 0..8 : host.turn = "O" /\ view = Ttt!After(host, d, "O")
    BY <1>2 DEF OAhead, MarkAhead
  <2>2. view.result = "none" => view.turn = "X"
    BY <2>1, AfterIs DEF TttInv
  <2> QED BY <2>1, <2>2 DEF Ttt!MayMark, Ttt!T!Empty
<1> QED BY <1>1, <1>2 DEF TttInv, XAhead, OAhead, Even

\* A mark that arrives makes the boards the same: that of the page that marked.
LEMMA ReceivedEven ==
  ASSUME TttInv
  PROVE  /\ Ttt!XReceives => Even' /\ view' = view
         /\ Ttt!OReceives => Even' /\ host' = host
<1> USE DEF TttInv
<1>1. ASSUME Ttt!XReceives PROVE Even' /\ view' = view
  <2>1. PICK c \in 0..8 : /\ host.board[c] = "none" /\ view = Ttt!After(host, c, "O")
                          /\ toHost = <<c>> /\ toGuest = <<>>
    BY <1>1 DEF MarkAhead, Ttt!XReceives, Ttt!Take
  <2>2. Head(toHost) = c /\ Tail(toHost) = <<>>
    BY <2>1
  <2> QED BY <1>1, <2>1, <2>2 DEF Even, Ttt!XReceives, Ttt!Take, Ttt!Received, Ttt!T!Empty
<1>2. ASSUME Ttt!OReceives PROVE Even' /\ host' = host
  <2>1. PICK c \in 0..8 : /\ view.board[c] = "none" /\ host = Ttt!After(view, c, "X")
                          /\ toGuest = <<c>> /\ toHost = <<>>
    BY <1>2 DEF MarkAhead, Ttt!OReceives
  <2>2. Head(toGuest) = c /\ Tail(toGuest) = <<>>
    BY <2>1
  <2> QED BY <1>2, <2>1, <2>2 DEF Even, Ttt!OReceives, Ttt!Received, Ttt!T!Empty
<1> QED BY <1>1, <1>2

\* The boards differ by a mark on its way, or one that is lost.
LEMMA TttStep ==
  ASSUME TttInv, Ttt!Next PROVE TttInv'
<1> USE DEF TttInv
<1>1. ASSUME NEW c \in 0..8, Ttt!MayMark(host, c, "X"), host' = Ttt!After(host, c, "X"),
             toGuest' = Append(toGuest, c), UNCHANGED <<view, toHost, losses>>
      PROVE  TttInv'
  <2>1. Even
    BY <1>1, OnlyEvenMark
  <2>2. toGuest' = <<c>>
    BY <1>1, <2>1 DEF Even
  <2>3. MarkAhead(host, view, "X", toGuest)'
    BY <1>1, <2>1, <2>2 DEF Even, MarkAhead, Ttt!MayMark, Ttt!T!Empty
  <2> QED BY <1>1, <2>1, <2>3, AfterIs DEF Even
<1>2. ASSUME NEW c \in 0..8, Ttt!MayMark(view, c, "O"), view' = Ttt!After(view, c, "O"),
             toHost' = Append(toHost, c), UNCHANGED <<host, toGuest, losses>>
      PROVE  TttInv'
  <2>1. Even
    BY <1>2, OnlyEvenMark
  <2>2. toHost' = <<c>>
    BY <1>2, <2>1 DEF Even
  <2>3. MarkAhead(view, host, "O", toHost)'
    BY <1>2, <2>1, <2>2 DEF Even, MarkAhead, Ttt!MayMark, Ttt!T!Empty
  <2> QED BY <1>2, <2>1, <2>3, AfterIs DEF Even
<1>3. CASE Ttt!XReceives \/ Ttt!OReceives
  BY <1>3, ReceivedEven DEF Even, Ttt!XReceives, Ttt!OReceives
<1>5. CASE Ttt!LoseClicks \/ Ttt!LoseViews
  <2>1. /\ losses' = losses + 1 /\ losses' > 0 /\ losses' \in Nat /\ UNCHANGED <<host, view>>
        /\ toHost' \in {toHost, <<>>} /\ toGuest' \in {toGuest, <<>>}
    BY <1>5 DEF Ttt!LoseClicks, Ttt!LoseViews
  <2>2. XAhead => XAhead'
    BY <2>1 DEF XAhead, MarkAhead
  <2>3. OAhead => OAhead'
    BY <2>1 DEF OAhead, MarkAhead
  <2> QED BY <2>1, <2>2, <2>3 DEF XAhead, OAhead
<1> QED BY <1>1, <1>2, <1>3, <1>5
        DEF Ttt!Next, Ttt!XClicks, Ttt!OClicks, Ttt!T!Cells

\* A mark more is counted.
LEMMA MarksCount ==
  ASSUME NEW p \in TttPages
  PROVE  /\ Ttt!MarksOn(p) \in Nat
         /\ \A c \in 0..8, m \in {"X", "O"} :
              p.board[c] = "none" => Ttt!MarksOn(Ttt!After(p, c, m)) = Ttt!MarksOn(p) + 1
<1> DEFINE On(b) == {c \in 0..8 : b[c] # "none"}
<1>1. \A q : Ttt!MarksOn(q) = Cardinality(On(q.board))
  BY CountsAre DEF Ttt!MarksOn, Ttt!T!Cells, Ttt!T!Empty
<1>2. IsFiniteSet(On(p.board))
  <2>1. 0 \in Int /\ 8 \in Int
    OBVIOUS
  <2>2. IsFiniteSet(0..8)
    BY <2>1, FS_Interval
  <2> QED BY <2>2, FS_Subset
<1>3. ASSUME NEW c \in 0..8, NEW m \in {"X", "O"}, p.board[c] = "none"
      PROVE  Ttt!MarksOn(Ttt!After(p, c, m)) = Ttt!MarksOn(p) + 1
  <2>1. \A d \in 0..8 : Ttt!After(p, c, m).board[d] = IF d = c THEN m ELSE p.board[d]
    BY AfterIs
  <2>2. On(Ttt!After(p, c, m).board) = On(p.board) \cup {c} /\ c \notin On(p.board)
    BY <1>3, <2>1
  <2> QED BY <1>1, <1>2, <2>2, FS_AddElement
<1> QED BY <1>1, <1>2, <1>3, FS_CardinalityType

\* The page with more marks is the one that has marked last.
LastMarked == (Even \/ XAhead => Ttt!Ahead = host) /\ (OAhead => Ttt!Ahead = view)

\* The inductive invariant tells which page has marked last.
LEMMA AheadIs == TttInv => LastMarked
<1> SUFFICES ASSUME TttInv PROVE LastMarked
  OBVIOUS
<1>1. Even => Ttt!Ahead = host
  BY DEF Even, Ttt!Ahead
<1>2. XAhead => Ttt!MarksOn(host) = Ttt!MarksOn(view) + 1
  BY MarksCount DEF XAhead, MarkAhead, TttInv
<1>3. OAhead => Ttt!MarksOn(view) = Ttt!MarksOn(host) + 1
  BY MarksCount DEF OAhead, MarkAhead, TttInv
<1>4. Ttt!MarksOn(view) \in Nat /\ Ttt!MarksOn(host) \in Nat
  BY MarksCount DEF TttInv
<1> QED BY <1>1, <1>2, <1>3, <1>4 DEF Ttt!Ahead, LastMarked

\* A page that marks on even boards plays on the one board.
LEMMA MarkPlays ==
  ASSUME game = "ttt", game' = game, NEW m \in {"X", "O"}, NEW c \in 0..8,
         Ttt!Ahead \in TttPages, Ttt!MayMark(Ttt!Ahead, c, m),
         Ttt!Ahead' = Ttt!After(Ttt!Ahead, c, m)
  PROVE  TttBoard!Next
<1> DEFINE a == Ttt!Ahead
<1>1. /\ a.result = "none" /\ a.turn = m /\ a.board[c] = "none"
  BY DEF Ttt!MayMark, Ttt!T!Empty
<1>2. /\ Ttt!Ahead'.board = TttBoard!Marked(a.board, c, m)
      /\ Ttt!Ahead'.result = TttBoard!ResultOf(Ttt!Ahead'.board, m)
      /\ Ttt!Ahead'.turn = IF Ttt!Ahead'.result = "none" THEN TttBoard!Opposite(m) ELSE m
  BY <1>1 DEF Ttt!After, Ttt!T!Marked, Ttt!T!ResultOf, Ttt!T!Wins, Ttt!T!Full, Ttt!T!Lines,
     Ttt!T!Cells, Ttt!T!Empty, Ttt!T!Draw, Ttt!T!Opposite,
     TttBoard!Marked, TttBoard!ResultOf, TttBoard!Wins, TttBoard!Full, TttBoard!Lines,
     TttBoard!Cells, TttBoard!Empty, TttBoard!Draw, TttBoard!Opposite
<1>3. TttBoard!Mark(c)
  BY <1>1, <1>2 DEF TttBoard!Mark, TttBoard!Empty
<1> QED BY <1>3 DEF TttBoard!Next, TttBoard!Cells

\* Every step of the two pages marks a cell of the one board, or leaves it.
LEMMA TttPlays ==
  ASSUME game = "ttt", game' = game, TttInv, Ttt!Next
  PROVE  TttBoard!Next \/ Ttt!Ahead' = Ttt!Ahead
<1>1. TttInv'
  BY TttStep
<1>2. LastMarked /\ LastMarked'
  BY <1>1, AheadIs, PTL
<1>3. Ttt!Ahead \in TttPages
  BY <1>2 DEF TttInv, LastMarked, Even, XAhead, OAhead
<1>4. ASSUME NEW c \in 0..8, Ttt!MayMark(host, c, "X"), host' = Ttt!After(host, c, "X"),
             toGuest' = Append(toGuest, c), UNCHANGED <<view, toHost, losses>>
      PROVE  TttBoard!Next
  <2>1. Even
    BY <1>4, OnlyEvenMark
  <2>2. toGuest' = <<c>> /\ Ttt!Ahead = host
    BY <1>2, <1>4, <2>1 DEF Even, LastMarked
  <2>3. XAhead'
    BY <1>4, <2>1, <2>2 DEF Even, XAhead, MarkAhead, Ttt!MayMark, Ttt!T!Empty
  <2>4. Ttt!Ahead' = host'
    BY <1>2, <2>3 DEF LastMarked
  <2> QED BY <1>3, <1>4, <2>2, <2>4, MarkPlays
<1>5. ASSUME NEW c \in 0..8, Ttt!MayMark(view, c, "O"), view' = Ttt!After(view, c, "O"),
             toHost' = Append(toHost, c), UNCHANGED <<host, toGuest, losses>>
      PROVE  TttBoard!Next
  <2>1. Even
    BY <1>5, OnlyEvenMark
  <2>2. toHost' = <<c>> /\ Ttt!Ahead = view
    BY <1>2, <1>5, <2>1 DEF Even, LastMarked
  <2>3. OAhead'
    BY <1>5, <2>1, <2>2 DEF Even, OAhead, MarkAhead, Ttt!MayMark, Ttt!T!Empty
  <2>4. Ttt!Ahead' = view'
    BY <1>2, <2>3 DEF LastMarked
  <2> QED BY <1>3, <1>5, <2>2, <2>4, MarkPlays
<1>6. CASE Ttt!XReceives
  <2>1. OAhead
    BY <1>6 DEF TttInv, Ttt!XReceives, Ttt!Take, Even, XAhead, OAhead
  <2>2. Even' /\ view' = view
    BY <1>6, ReceivedEven
  <2> QED BY <1>2, <2>1, <2>2 DEF LastMarked, Even
<1>7. CASE Ttt!OReceives
  <2>1. XAhead
    BY <1>7 DEF TttInv, Ttt!OReceives, Even, XAhead, OAhead
  <2>2. Even' /\ host' = host
    BY <1>7, ReceivedEven
  <2> QED BY <1>2, <2>1, <2>2 DEF LastMarked
<1>8. CASE Ttt!LoseClicks \/ Ttt!LoseViews
  BY <1>8 DEF Ttt!LoseClicks, Ttt!LoseViews, Ttt!Ahead
<1> QED BY <1>4, <1>5, <1>6, <1>7, <1>8
        DEF Ttt!Next, Ttt!XClicks, Ttt!OClicks, Ttt!T!Cells
-----------------------------------------------------------------------------
(* Memory. Besides the agreement itself: two open cards are of two kinds.   *)

MemoryTables == [by : [DOMAIN Deck -> 0..2], up : [DOMAIN Deck -> BOOLEAN], turn : 1..2,
                 scores : [1..2 -> Nat], flipped : Seq(DOMAIN Deck), locked : BOOLEAN]

TwoKinds(s) ==
  Len(s.flipped) = 2 => /\ s.flipped[1] # s.flipped[2]
                        /\ Deck[s.flipped[1]] # Deck[s.flipped[2]]

MemoryInv ==
  /\ host \in MemoryTables /\ Memory!TableAgrees /\ TwoKinds(host)
  /\ toHost \in Seq([at : DOMAIN Deck])

\* The cards taken by p
Taken(s, p) == {i \in DOMAIN Deck : s.by[i] = p}

\* Agreement, over the plain sets
LEMMA AgreesIs ==
  ASSUME NEW s
  PROVE  Memory!Agrees(s) <=>
           /\ {i \in DOMAIN Deck : s.up[i] /\ s.by[i] = 0} = {s.flipped[k] : k \in DOMAIN s.flipped}
           /\ Len(s.flipped) <= 2 /\ (s.locked <=> Len(s.flipped) = 2)
           /\ \A i, j \in DOMAIN Deck : Deck[i] = Deck[j] => s.by[i] = s.by[j]
           /\ \A p \in 1..2 : 2 * s.scores[p] = Cardinality(Taken(s, p))
BY CountsAre DEF Memory!Agrees, Memory!Places, Memory!Players, Memory!Host, Memory!Guest, Taken

\* The first card of a turn
LEMMA FirstFlipOK ==
  ASSUME NEW s \in MemoryTables, Memory!Agrees(s), s.flipped = <<>>, NEW i \in DOMAIN Deck,
         Memory!Hidden(s, i)
  PROVE  LET t == Memory!Flip(s, i)
         IN t \in MemoryTables /\ Memory!Agrees(t) /\ TwoKinds(t) /\ t.turn = s.turn
<1> DEFINE t == [s EXCEPT !.up[i] = TRUE, !.flipped = Append(@, i)]
<1>1. Memory!Flip(s, i) = t
  BY DEF Memory!Flip
<1>2. t.flipped = <<i>> /\ t.up = [s.up EXCEPT ![i] = TRUE]
  BY DEF MemoryTables
<1>3. /\ t.by = s.by /\ t.turn = s.turn /\ t.scores = s.scores /\ t.locked = s.locked
  BY DEF MemoryTables
<1>4. t \in MemoryTables
  <2>1. [s.up EXCEPT ![i] = TRUE] \in [DOMAIN Deck -> BOOLEAN] /\ Append(s.flipped, i) \in Seq(DOMAIN Deck)
    BY DEF MemoryTables
  <2> QED BY <2>1 DEF MemoryTables
<1> HIDE DEF t
<1>5. Len(t.flipped) = 1 /\ {t.flipped[k] : k \in DOMAIN t.flipped} = {i} /\ Len(s.flipped) = 0
  BY <1>2
<1>6. {j \in DOMAIN Deck : s.up[j] /\ s.by[j] = 0} = {}
  BY AgreesIs
<1>7. {j \in DOMAIN Deck : t.up[j] /\ t.by[j] = 0} = {i}
  BY <1>2, <1>3, <1>6 DEF Memory!Hidden, MemoryTables
<1>8. Memory!Agrees(t)
  <2>1. \A p \in 1..2 : 2 * t.scores[p] = Cardinality(Taken(t, p))
    <3>1. \A p \in 1..2 : Taken(t, p) = Taken(s, p)
      BY <1>3 DEF Taken
    <3> QED BY <1>3, <3>1, AgreesIs
  <2>2. t.locked <=> Len(t.flipped) = 2
    BY <1>3, <1>5, AgreesIs
  <2>3. \A j, k \in DOMAIN Deck : Deck[j] = Deck[k] => t.by[j] = t.by[k]
    BY <1>3, AgreesIs
  <2> QED BY <1>5, <1>7, <2>1, <2>2, <2>3, CountsAre
          DEF Memory!Agrees, Memory!Places, Memory!Players, Memory!Host, Memory!Guest, Taken
<1> QED BY <1>1, <1>3, <1>4, <1>5, <1>8 DEF TwoKinds

\* The second card of a turn: it waits, or the pair is taken.
LEMMA SecondFlipOK ==
  ASSUME NEW s \in MemoryTables, Memory!Agrees(s), s.flipped # <<>>, ~s.locked,
         NEW i \in DOMAIN Deck, Memory!Hidden(s, i)
  PROVE  LET t == Memory!Flip(s, i)
         IN t \in MemoryTables /\ Memory!Agrees(t) /\ TwoKinds(t) /\ t.turn = s.turn
<1> DEFINE f == s.flipped[1]
<1>1. Len(s.flipped) = 1 /\ s.flipped \in Seq(DOMAIN Deck)
  <2>1. Len(s.flipped) \in Nat /\ Len(s.flipped) # 0
    BY EmptySeq DEF MemoryTables
  <2>2. Len(s.flipped) <= 2 /\ Len(s.flipped) # 2
    BY AgreesIs
  <2>3. \A n \in Nat : n # 0 /\ n <= 2 /\ n # 2 => n = 1
    OBVIOUS
  <2>4. Len(s.flipped) = 1
    BY <2>1, <2>2, <2>3
  <2> QED BY <2>4 DEF MemoryTables
<1>2. f \in DOMAIN Deck /\ s.flipped = <<f>> /\ {s.flipped[k] : k \in DOMAIN s.flipped} = {f}
  BY <1>1
<1> HIDE DEF f
<1>3. {j \in DOMAIN Deck : s.up[j] /\ s.by[j] = 0} = {f}
  BY <1>2, AgreesIs
<1>4. /\ s.up[f] /\ s.by[f] = 0 /\ f # i /\ s.by[i] = 0
  BY <1>3 DEF Memory!Hidden
<1>5. CASE Deck[f] # Deck[i]
  <2> DEFINE t == [s EXCEPT !.up[i] = TRUE, !.flipped = Append(@, i), !.locked = TRUE]
  <2>1. Memory!Flip(s, i) = t
    BY <1>5, <1>2 DEF Memory!Flip, f, MemoryTables
  <2>2. t.flipped = Append(s.flipped, i) /\ t.up = [s.up EXCEPT ![i] = TRUE] /\ t.locked = TRUE
    BY DEF MemoryTables
  <2>3. t.by = s.by /\ t.turn = s.turn /\ t.scores = s.scores
    BY DEF MemoryTables
  <2>4. t \in MemoryTables
    <3>1. /\ [s.up EXCEPT ![i] = TRUE] \in [DOMAIN Deck -> BOOLEAN]
          /\ Append(s.flipped, i) \in Seq(DOMAIN Deck)
      BY DEF MemoryTables
    <3> QED BY <3>1 DEF MemoryTables
  <2> HIDE DEF t
  <2>5. /\ Len(t.flipped) = 2 /\ {t.flipped[k] : k \in DOMAIN t.flipped} = {f, i}
        /\ t.flipped[1] = f /\ t.flipped[2] = i
    <3>1. /\ t.flipped \in Seq(DOMAIN Deck) /\ Len(t.flipped) = 2
          /\ t.flipped[1] = f /\ t.flipped[2] = i
      BY <1>1, <1>2, <2>2, AppendProperties
    <3>2. DOMAIN t.flipped = {1, 2}
      BY <3>1
    <3> QED BY <3>1, <3>2
  <2>6. {j \in DOMAIN Deck : t.up[j] /\ t.by[j] = 0} = {f, i}
    BY <1>2, <1>3, <1>4, <2>2, <2>3 DEF MemoryTables
  <2>7. \A p \in 1..2 : 2 * t.scores[p] = Cardinality(Taken(t, p))
    <3>1. \A p \in 1..2 : Taken(t, p) = Taken(s, p)
      BY <2>3 DEF Taken
    <3> QED BY <2>3, <3>1, AgreesIs
  <2>8. \A j, k \in DOMAIN Deck : Deck[j] = Deck[k] => t.by[j] = t.by[k]
    BY <2>3, AgreesIs
  <2>9. Memory!Agrees(t)
    BY <2>2, <2>5, <2>6, <2>7, <2>8, CountsAre
       DEF Memory!Agrees, Memory!Places, Memory!Players, Memory!Host, Memory!Guest, Taken
  <2>10. TwoKinds(t)
    BY <1>4, <1>5, <2>5 DEF TwoKinds
  <2> QED BY <2>1, <2>3, <2>4, <2>9, <2>10
<1>6. CASE Deck[f] = Deck[i]
  <2> DEFINE t == [s EXCEPT !.up[i] = TRUE, !.by[f] = s.turn, !.by[i] = s.turn,
                            !.scores[s.turn] = @ + 1, !.flipped = <<>>]
  <2>1. Memory!Flip(s, i) = t
    BY <1>6, <1>2 DEF Memory!Flip, f, MemoryTables
  <2>2. t.flipped = <<>> /\ t.up = [s.up EXCEPT ![i] = TRUE] /\ t.locked = s.locked /\ t.turn = s.turn
    BY DEF MemoryTables
  <2>3. /\ t.by \in [DOMAIN Deck -> 0..2] /\ s.turn \in 1..2 /\ t.scores \in [1..2 -> Nat]
        /\ \A j \in DOMAIN Deck : t.by[j] = IF j \in {f, i} THEN s.turn ELSE s.by[j]
        /\ \A p \in 1..2 : t.scores[p] = IF p = s.turn THEN s.scores[p] + 1 ELSE s.scores[p]
    BY <1>2 DEF MemoryTables
  <2>4. t \in MemoryTables
    <3>1. /\ [s.up EXCEPT ![i] = TRUE] \in [DOMAIN Deck -> BOOLEAN]
          /\ [s.by EXCEPT ![f] = s.turn, ![i] = s.turn] \in [DOMAIN Deck -> 0..2]
          /\ [s.scores EXCEPT ![s.turn] = @ + 1] \in [1..2 -> Nat]
          /\ <<>> \in Seq(DOMAIN Deck)
      BY <1>2 DEF MemoryTables
    <3> QED BY <3>1 DEF MemoryTables
  <2> HIDE DEF t
  <2>5. Len(t.flipped) = 0 /\ {t.flipped[k] : k \in DOMAIN t.flipped} = {}
    BY <2>2
  <2>6. {j \in DOMAIN Deck : t.up[j] /\ t.by[j] = 0} = {}
    BY <1>2, <1>3, <1>4, <2>2, <2>3 DEF MemoryTables
  <2>7. ASSUME NEW p \in 1..2 PROVE 2 * t.scores[p] = Cardinality(Taken(t, p))
    <3>1. 2 * s.scores[p] = Cardinality(Taken(s, p)) /\ s.scores[p] \in Nat
      BY AgreesIs DEF MemoryTables
    <3>2. IsFiniteSet(Taken(s, p))
      BY DeckAssumption, FS_Subset DEF Taken
    <3>3. CASE p # s.turn
      <4>1. Taken(t, p) = Taken(s, p)
        BY <1>4, <2>3, <3>3 DEF Taken
      <4> QED BY <2>3, <3>1, <3>3, <4>1
    <3>4. CASE p = s.turn
      <4>1. Taken(t, p) = (Taken(s, p) \cup {f}) \cup {i}
        BY <1>2, <2>3, <3>4 DEF Taken
      <4>2. f \notin Taken(s, p) /\ i \notin Taken(s, p) \cup {f}
        BY <1>4 DEF Taken
      <4>3. Cardinality(Taken(t, p)) = Cardinality(Taken(s, p)) + 1 + 1
        BY <3>2, <4>1, <4>2, FS_AddElement
      <4> QED BY <2>3, <3>1, <3>4, <4>3
    <3> QED BY <3>3, <3>4
  <2>8. \A j, k \in DOMAIN Deck : Deck[j] = Deck[k] => t.by[j] = t.by[k]
    BY <1>2, <1>4, <1>6, <2>3, AgreesIs, DeckAssumption
  <2>9. Memory!Agrees(t)
    BY <2>2, <2>5, <2>6, <2>7, <2>8, CountsAre
       DEF Memory!Agrees, Memory!Places, Memory!Players, Memory!Host, Memory!Guest, Taken
  <2>10. TwoKinds(t)
    BY <2>5 DEF TwoKinds
  <2> QED BY <2>1, <2>2, <2>4, <2>9, <2>10
<1> QED BY <1>5, <1>6

\* The timer: both cards back, and no card is open.
LEMMA TurnedBackOK ==
  ASSUME NEW s \in MemoryTables, Memory!Agrees(s), s.locked
  PROVE  LET t == Memory!TurnedBack(s)
         IN t \in MemoryTables /\ Memory!Agrees(t) /\ TwoKinds(t)
<1> DEFINE a == s.flipped[1]
           b == s.flipped[2]
           up == [i \in DOMAIN Deck |-> s.up[i] /\ i \notin {a, b}]
           t == [s EXCEPT !.up = up, !.turn = 3 - @, !.flipped = <<>>, !.locked = FALSE]
<1>1. Memory!TurnedBack(s) = t
  BY DEF Memory!TurnedBack, Memory!Places, Memory!Other
<1>2. Len(s.flipped) = 2 /\ {s.flipped[k] : k \in DOMAIN s.flipped} = {a, b}
  <2>1. Len(s.flipped) = 2
    BY AgreesIs
  <2>2. DOMAIN s.flipped = {1, 2}
    BY <2>1 DEF MemoryTables
  <2> QED BY <2>1, <2>2
<1>3. up \in [DOMAIN Deck -> BOOLEAN]
  BY DEF MemoryTables
<1>4. \A i \in DOMAIN Deck : up[i] <=> s.up[i] /\ i \notin {a, b}
  OBVIOUS
<1> HIDE DEF a, b, up
<1>5. t \in MemoryTables
  <2>1. 3 - s.turn \in 1..2 /\ <<>> \in Seq(DOMAIN Deck)
    BY DEF MemoryTables
  <2> QED BY <1>3, <2>1 DEF MemoryTables
<1>6. /\ t.up = up /\ t.flipped = <<>> /\ t.locked = FALSE
      /\ t.by = s.by /\ t.scores = s.scores
  BY DEF MemoryTables
<1> HIDE DEF t
<1>7. Len(t.flipped) = 0 /\ {t.flipped[k] : k \in DOMAIN t.flipped} = {}
  BY <1>6
<1>8. {i \in DOMAIN Deck : s.up[i] /\ s.by[i] = 0} = {a, b}
  BY <1>2, AgreesIs
<1>9. {i \in DOMAIN Deck : t.up[i] /\ t.by[i] = 0} = {}
  BY <1>4, <1>6, <1>8
<1>10. \A p \in 1..2 : 2 * t.scores[p] = Cardinality(Taken(t, p))
  <2>1. \A p \in 1..2 : Taken(t, p) = Taken(s, p)
    BY <1>6 DEF Taken
  <2> QED BY <1>6, <2>1, AgreesIs
<1>11. \A j, k \in DOMAIN Deck : Deck[j] = Deck[k] => t.by[j] = t.by[k]
  BY <1>6, AgreesIs
<1>12. Memory!Agrees(t)
  BY <1>6, <1>7, <1>9, <1>10, <1>11, CountsAre
     DEF Memory!Agrees, Memory!Places, Memory!Players, Memory!Host, Memory!Guest, Taken
<1> QED BY <1>1, <1>5, <1>7, <1>12 DEF TwoKinds

\* A card that may be flipped makes an agreeing table of an agreeing table.
LEMMA FlipOK ==
  ASSUME NEW s \in MemoryTables, Memory!Agrees(s), ~s.locked, NEW i \in DOMAIN Deck,
         Memory!Hidden(s, i)
  PROVE  LET t == Memory!Flip(s, i)
         IN t \in MemoryTables /\ Memory!Agrees(t) /\ TwoKinds(t) /\ t.turn = s.turn
BY FirstFlipOK, SecondFlipOK

\* The cards are laid covered.
LEMMA MemoryInit == Memory!Init => MemoryInv
<1> SUFFICES ASSUME Memory!Init PROVE MemoryInv
  OBVIOUS
<1> DEFINE s == Memory!Laid
<1>1. s \in MemoryTables
  BY DEF Memory!Laid, MemoryTables, Memory!Places, Memory!Host
<1>2. /\ s.up = [i \in DOMAIN Deck |-> FALSE] /\ s.by = [i \in DOMAIN Deck |-> 0]
      /\ s.flipped = <<>> /\ s.locked = FALSE /\ s.scores = <<0, 0>>
  BY DEF Memory!Laid, Memory!Places
<1> HIDE DEF s
<1>3. Len(s.flipped) = 0 /\ {s.flipped[k] : k \in DOMAIN s.flipped} = {}
  BY <1>2
<1>4. {i \in DOMAIN Deck : s.up[i] /\ s.by[i] = 0} = {}
  BY <1>2
<1>5. \A p \in 1..2 : 2 * s.scores[p] = Cardinality(Taken(s, p))
  <2>1. \A p \in 1..2 : Taken(s, p) = {} /\ s.scores[p] = 0
    BY <1>2 DEF Taken
  <2>2. Cardinality({}) = 0 /\ 2 * 0 = 0
    BY FS_EmptySet
  <2>3. ASSUME NEW p \in 1..2 PROVE 2 * s.scores[p] = Cardinality(Taken(s, p))
    <3>1. Taken(s, p) = {} /\ s.scores[p] = 0
      BY <2>1
    <3> QED BY <2>2, <3>1
  <2> QED BY <2>3
<1>6. Memory!Agrees(s)
  BY <1>2, <1>3, <1>4, <1>5, CountsAre
     DEF Memory!Agrees, Memory!Places, Memory!Players, Memory!Host, Memory!Guest, Taken
<1>7. host = s /\ toHost = <<>>
  BY DEF Memory!Init, Memory!NetInit, s
<1> QED BY <1>1, <1>3, <1>6, <1>7 DEF MemoryInv, TwoKinds, Memory!TableAgrees

\* Only clicks on cards of the deck travel.
LEMMA ClicksTravel ==
  ASSUME NEW S, toHost \in Seq(S)
  PROVE  /\ Speed!Take => toHost' \in Seq(S) /\ Head(toHost) \in S
         /\ \A m \in S : Speed!Click(m) => toHost' \in Seq(S)
         /\ Speed!Transport => toHost' \in Seq(S)
<1>1. Speed!Take => toHost' \in Seq(S) /\ Head(toHost) \in S
  BY HeadTailProperties DEF Speed!Take
<1>2. \A m \in S : Speed!Click(m) => toHost' \in Seq(S)
  BY AppendProperties DEF Speed!Click
<1>3. Speed!Transport => toHost' \in Seq(S)
  BY EmptySeq DEF Speed!Transport, Speed!GuestReceives, Speed!LoseViews, Speed!LoseClicks
<1> QED BY <1>1, <1>2, <1>3

\* A step keeps the inductive invariant, and only a mismatch ends a turn.
LEMMA MemoryStep ==
  ASSUME MemoryInv, Memory!Next PROVE MemoryInv' /\ Memory!MismatchEnds
<1> USE DEF Memory!TableAgrees
<1>1. ASSUME NEW i \in DOMAIN Deck, ~host.locked, Memory!Hidden(host, i),
             host' = Memory!Flip(host, i)
      PROVE  /\ host' \in MemoryTables /\ Memory!Agrees(host)' /\ TwoKinds(host)'
             /\ host'.turn = host.turn
  BY <1>1, FlipOK DEF MemoryInv
<1>2. CASE Memory!HostClicks
  BY <1>1, <1>2 DEF Memory!HostClicks, Memory!MayFlip, Memory!Becomes, Memory!Places,
                    Memory!MismatchEnds, MemoryInv
<1>3. CASE Memory!HostTakes
  <2>1. toHost' \in Seq([at : DOMAIN Deck]) /\ Head(toHost) \in [at : DOMAIN Deck]
    BY <1>3, ClicksTravel DEF Memory!HostTakes, Memory!Take, Speed!Take, MemoryInv
  <2> QED BY <1>1, <1>3, <2>1 DEF Memory!HostTakes, Memory!Becomes, Memory!MismatchEnds, MemoryInv
<1>4. CASE Memory!TimerFires
  BY <1>4, TurnedBackOK, AgreesIs
     DEF Memory!TimerFires, Memory!Becomes, Memory!MismatchEnds, MemoryInv, TwoKinds
<1>5. CASE Memory!GuestClicks
  <2>1. PICK i \in DOMAIN Deck : Memory!Click([at |-> i])
    BY <1>5 DEF Memory!GuestClicks, Memory!Places
  <2>2. toHost' \in Seq([at : DOMAIN Deck])
    BY <2>1, ClicksTravel DEF Memory!Click, Speed!Click, MemoryInv
  <2> QED BY <2>1, <2>2 DEF Memory!Click, Memory!MismatchEnds, MemoryInv
<1>6. CASE Memory!Transport
  <2>1. toHost' \in Seq([at : DOMAIN Deck]) /\ host' = host
    BY <1>6, ClicksTravel
       DEF Memory!Transport, Memory!GuestReceives, Memory!LoseViews, Memory!LoseClicks,
           Speed!Transport, Speed!GuestReceives, Speed!LoseViews, Speed!LoseClicks, MemoryInv
  <2> QED BY <2>1 DEF Memory!MismatchEnds, MemoryInv
<1> QED BY <1>2, <1>3, <1>4, <1>5, <1>6 DEF Memory!Next
-----------------------------------------------------------------------------
(* Cards counted in piles                                                   *)

CountIn(s, r) == Cardinality({i \in DOMAIN s : s[i] = r})

\* A count is a number.
LEMMA CountIsNat == ASSUME NEW S, NEW s \in Seq(S), NEW r PROVE CountIn(s, r) \in Nat
<1>1. IsFiniteSet(DOMAIN s)
  <2>1. DOMAIN s = 1..Len(s) /\ Len(s) \in Int /\ 1 \in Int
    BY LenProperties
  <2> QED BY <2>1, FS_Interval
<1> QED BY <1>1, FS_Subset, FS_CardinalityType DEF CountIn

\* Two piles, one on the other
LEMMA CountConcat ==
  ASSUME NEW S, NEW s \in Seq(S), NEW t \in Seq(S), NEW r
  PROVE  CountIn(s \o t, r) = CountIn(s, r) + CountIn(t, r)
<1> DEFINE m == Len(s)
           n == Len(t)
           A == {i \in 1..m : s[i] = r}
           B == {i \in 1..n : t[i] = r}
           C == {i \in (m + 1)..(m + n) : (s \o t)[i] = r}
<1>1. m \in Nat /\ n \in Nat /\ DOMAIN s = 1..m /\ DOMAIN t = 1..n /\ DOMAIN (s \o t) = 1..(m + n)
  BY LenProperties, ConcatProperties
<1>2. \A i \in 1..(m + n) : (s \o t)[i] = IF i <= m THEN s[i] ELSE t[i - m]
  BY ConcatProperties
<1> HIDE DEF m, n
<1>3. IsFiniteSet(A) /\ IsFiniteSet(B) /\ IsFiniteSet(C)
  <2>1. 1 \in Int /\ m \in Int /\ n \in Int /\ m + 1 \in Int /\ m + n \in Int
    BY <1>1
  <2>2. IsFiniteSet(1..m) /\ IsFiniteSet(1..n) /\ IsFiniteSet((m + 1)..(m + n))
    BY <2>1, FS_Interval
  <2> QED BY <2>2, FS_Subset
<1>4. Cardinality(C) = Cardinality(B)
  <2> DEFINE f == [i \in B |-> m + i]
  <2>1. f \in Bijection(B, C)
    <3>1. \A i \in B : f[i] \in C
      BY <1>1, <1>2
    <3>2. \A i, j \in B : f[i] = f[j] => i = j
      BY <1>1
    <3>3. \A k \in C : \E i \in B : f[i] = k
      <4> SUFFICES ASSUME NEW k \in C PROVE \E i \in B : f[i] = k
        OBVIOUS
      <4>1. k - m \in B
        BY <1>1, <1>2
      <4> QED BY <1>1, <4>1
    <3> QED BY <3>1, <3>2, <3>3 DEF Bijection, Injection, Surjection, IsInjective
  <2> HIDE DEF f, B, C
  <2>2. ExistsBijection(B, C)
    BY <2>1 DEF ExistsBijection
  <2> QED BY <1>3, <2>2, FS_Bijection
<1>5. {i \in DOMAIN (s \o t) : (s \o t)[i] = r} = A \cup C /\ A \cap C = {}
  BY <1>1, <1>2
<1>6. Cardinality(A \cup C) = Cardinality(A) + Cardinality(C)
  <2>1. Cardinality(A \cup C) = Cardinality(A) + Cardinality(C) - Cardinality(A \cap C)
    BY <1>3, FS_Union
  <2>2. Cardinality(A \cap C) = 0
    BY <1>5, FS_EmptySet
  <2>3. Cardinality(A) \in Nat /\ Cardinality(C) \in Nat
    BY <1>3, FS_CardinalityType
  <2> HIDE DEF A, C
  <2> QED BY <2>1, <2>2, <2>3
<1> QED BY <1>1, <1>4, <1>5, <1>6 DEF CountIn

\* One card
LEMMA CountOne ==
  ASSUME NEW c, NEW r PROVE CountIn(<<c>>, r) = IF c = r THEN 1 ELSE 0
<1>1. DOMAIN <<c>> = {1} /\ <<c>>[1] = c
  OBVIOUS
<1>2. {i \in DOMAIN <<c>> : <<c>>[i] = r} = IF c = r THEN {1} ELSE {}
  BY <1>1
<1> QED BY <1>2, FS_EmptySet, FS_Singleton DEF CountIn

\* No card
LEMMA CountNone == ASSUME NEW r PROVE CountIn(<<>>, r) = 0
<1>1. {i \in DOMAIN <<>> : <<>>[i] = r} = {}
  OBVIOUS
<1> QED BY <1>1, FS_EmptySet DEF CountIn

\* A pile and a card on top
LEMMA CountAppend ==
  ASSUME NEW S, NEW s \in Seq(S), NEW c \in S, NEW r
  PROVE  CountIn(Append(s, c), r) = CountIn(s, r) + (IF c = r THEN 1 ELSE 0)
<1>1. Append(s, c) = s \o <<c>> /\ <<c>> \in Seq(S)
  BY AppendIsConcat
<1>2. CountIn(s \o <<c>>, r) = CountIn(s, r) + CountIn(<<c>>, r)
  BY <1>1, CountConcat
<1> QED BY <1>1, <1>2, CountOne

\* A pile cut in two after n cards
LEMMA CountCut ==
  ASSUME NEW S, NEW s \in Seq(S), NEW n \in 0..Len(s), NEW r
  PROVE  /\ SubSeq(s, 1, n) \in Seq(S) /\ SubSeq(s, n + 1, Len(s)) \in Seq(S)
         /\ Len(SubSeq(s, 1, n)) = n
         /\ CountIn(s, r) = CountIn(SubSeq(s, 1, n), r) + CountIn(SubSeq(s, n + 1, Len(s)), r)
<1>1. Len(s) \in Nat /\ \A i \in 1..Len(s) : s[i] \in S
  BY LenProperties, ElementOfSeq
<1>2. SubSeq(s, 1, n) \in Seq(S) /\ SubSeq(s, n + 1, Len(s)) \in Seq(S)
  BY <1>1, SubSeqProperties
<1>3. Len(SubSeq(s, 1, n)) = n
  BY <1>1, SubSeqProperties
<1>4. SubSeq(s, 1, n) \o SubSeq(s, n + 1, Len(s)) = s
  <2>1. 1 \in 1..(Len(s) + 1) /\ n \in (1 - 1)..Len(s) /\ Len(s) \in n..Len(s)
    BY <1>1
  <2>2. SubSeq(s, 1, n) \o SubSeq(s, n + 1, Len(s)) = SubSeq(s, 1, Len(s))
    BY <2>1, ConcatAdjacentSubSeq
  <2> QED BY <2>2, SubSeqFull
<1>5. CountIn(s, r) = CountIn(SubSeq(s, 1, n), r) + CountIn(SubSeq(s, n + 1, Len(s)), r)
  <2> DEFINE a == SubSeq(s, 1, n)
             b == SubSeq(s, n + 1, Len(s))
  <2>1. a \in Seq(S) /\ b \in Seq(S) /\ a \o b = s
    BY <1>2, <1>4
  <2> HIDE DEF a, b
  <2>2. CountIn(a \o b, r) = CountIn(a, r) + CountIn(b, r)
    BY <2>1, CountConcat
  <2> QED BY <2>1, <2>2 DEF a, b
<1> QED BY <1>2, <1>3, <1>5
-----------------------------------------------------------------------------
(* Speed. Each player's cards are in a hand and a pile to draw from, those  *)
(* of each side of the table in the centre and in a pile to flip from.      *)

OfPlayer(s, p, r) == CountIn(s.hands[p], r) + CountIn(s.draws[p], r)
OfSide(s, k, r) == CountIn(s.centers[k], r) + CountIn(s.spare[k], r)
OnTable(s, r) == OfPlayer(s, 1, r) + OfPlayer(s, 2, r) + OfSide(s, 1, r) + OfSide(s, 2, r)

SpeedOK(s) ==
  /\ s \in Speed!States
  /\ \A p \in 1..2 : Len(s.hands[p]) <= SpeedHand
  /\ \A r \in 1..TopRank : OnTable(s, r) = SpeedCopies

SpeedClicks == [type : {"flip_start", "flip_center"}]
               \cup [type : {"play_card"}, at : Int, pile : Int]

SpeedInv == SpeedOK(host) /\ toHost \in Seq(SpeedClicks)

\* What a table of Speed is, written out
LEMMA SpeedStatesAre ==
  Speed!States =
    [hands : [1..2 -> Seq(1..TopRank)], draws : [1..2 -> Seq(1..TopRank)],
     centers : [1..2 -> Seq(1..TopRank)], spare : [1..2 -> Seq(1..TopRank)],
     phase : {"ready", "playing", "stalled", "gameOver"}, won : 0..2]
BY DEF Speed!States, Speed!Piles, Speed!Sides, Speed!Ranks

\* Counts of the piles of a table are numbers.
LEMMA PilesCount ==
  ASSUME NEW s \in Speed!States, NEW r, NEW p \in 1..2
  PROVE  /\ CountIn(s.hands[p], r) \in Nat /\ CountIn(s.draws[p], r) \in Nat
         /\ CountIn(s.centers[p], r) \in Nat /\ CountIn(s.spare[p], r) \in Nat
BY SpeedStatesAre, CountIsNat

\* The cards of the table, pile by pile
LEMMA KeptIs ==
  ASSUME NEW s \in Speed!States
  PROVE  Speed!Kept(s) <=> \A r \in 1..TopRank : OnTable(s, r) = SpeedCopies
<1> DEFINE S == 1..TopRank
<1>1. /\ s.hands[1] \in Seq(S) /\ s.hands[2] \in Seq(S) /\ s.draws[1] \in Seq(S)
      /\ s.draws[2] \in Seq(S) /\ s.centers[1] \in Seq(S) /\ s.centers[2] \in Seq(S)
      /\ s.spare[1] \in Seq(S) /\ s.spare[2] \in Seq(S)
  BY SpeedStatesAre
<1> HIDE DEF S
<1>2. ASSUME NEW r PROVE CountIn(Speed!Cards(s), r) = OnTable(s, r)
  <2> DEFINE c2 == s.hands[1] \o s.hands[2]
             c3 == c2 \o s.draws[1]
             c4 == c3 \o s.draws[2]
             c5 == c4 \o s.centers[1]
             c6 == c5 \o s.centers[2]
             c7 == c6 \o s.spare[1]
             c8 == c7 \o s.spare[2]
  <2>1. c2 \in Seq(S) /\ CountIn(c2, r) = CountIn(s.hands[1], r) + CountIn(s.hands[2], r)
    BY <1>1, CountConcat, ConcatProperties
  <2> HIDE DEF c2
  <2>2. c3 \in Seq(S) /\ CountIn(c3, r) = CountIn(c2, r) + CountIn(s.draws[1], r)
    BY <1>1, <2>1, CountConcat, ConcatProperties
  <2> HIDE DEF c3
  <2>3. c4 \in Seq(S) /\ CountIn(c4, r) = CountIn(c3, r) + CountIn(s.draws[2], r)
    BY <1>1, <2>2, CountConcat, ConcatProperties
  <2> HIDE DEF c4
  <2>4. c5 \in Seq(S) /\ CountIn(c5, r) = CountIn(c4, r) + CountIn(s.centers[1], r)
    BY <1>1, <2>3, CountConcat, ConcatProperties
  <2> HIDE DEF c5
  <2>5. c6 \in Seq(S) /\ CountIn(c6, r) = CountIn(c5, r) + CountIn(s.centers[2], r)
    BY <1>1, <2>4, CountConcat, ConcatProperties
  <2> HIDE DEF c6
  <2>6. c7 \in Seq(S) /\ CountIn(c7, r) = CountIn(c6, r) + CountIn(s.spare[1], r)
    BY <1>1, <2>5, CountConcat, ConcatProperties
  <2> HIDE DEF c7
  <2>7. CountIn(c8, r) = CountIn(c7, r) + CountIn(s.spare[2], r)
    BY <1>1, <2>6, CountConcat
  <2>8. Speed!Cards(s) = c8
    BY DEF Speed!Cards, c2, c3, c4, c5, c6, c7
  <2> HIDE DEF c8
  <2>9. CountIn(c8, r) = OnTable(s, r)
    <3>1. /\ CountIn(s.hands[1], r) \in Nat /\ CountIn(s.draws[1], r) \in Nat
          /\ CountIn(s.centers[1], r) \in Nat /\ CountIn(s.spare[1], r) \in Nat
          /\ CountIn(s.hands[2], r) \in Nat /\ CountIn(s.draws[2], r) \in Nat
          /\ CountIn(s.centers[2], r) \in Nat /\ CountIn(s.spare[2], r) \in Nat
      BY PilesCount
    <3>2. CountIn(c8, r) = CountIn(s.hands[1], r) + CountIn(s.hands[2], r)
            + CountIn(s.draws[1], r) + CountIn(s.draws[2], r) + CountIn(s.centers[1], r)
            + CountIn(s.centers[2], r) + CountIn(s.spare[1], r) + CountIn(s.spare[2], r)
      BY <2>1, <2>2, <2>3, <2>4, <2>5, <2>6, <2>7
    <3>3. OnTable(s, r) = CountIn(s.hands[1], r) + CountIn(s.hands[2], r)
            + CountIn(s.draws[1], r) + CountIn(s.draws[2], r) + CountIn(s.centers[1], r)
            + CountIn(s.centers[2], r) + CountIn(s.spare[1], r) + CountIn(s.spare[2], r)
      BY <3>1 DEF OnTable, OfPlayer, OfSide
    <3> QED BY <3>2, <3>3
  <2> QED BY <2>8, <2>9
<1>3. Speed!Kept(s) <=> \A r \in 1..TopRank : CountIn(Speed!Cards(s), r) = SpeedCopies
  BY CountsAre DEF Speed!Kept, Speed!Ranks, CountIn
<1> QED BY <1>2, <1>3

\* What a state of another phase or winner holds
LEMMA SamePiles ==
  ASSUME NEW s, SpeedOK(s), NEW t \in Speed!States, t.hands = s.hands, t.draws = s.draws,
         t.centers = s.centers, t.spare = s.spare
  PROVE  SpeedOK(t)
BY DEF SpeedOK, OnTable, OfPlayer, OfSide

\* Lengths of hands and piles are numbers.
LEMMA HandsCount ==
  ASSUME NEW s \in Speed!States, NEW p \in 1..2
  PROVE  Len(s.hands[p]) \in Nat /\ Len(s.draws[p]) \in Nat /\ Speed!Count(s, p) \in Nat
<1>1. Len(s.hands[p]) \in Nat /\ Len(s.draws[p]) \in Nat
  BY SpeedStatesAre
<1>2. \A m, n \in Nat : m + n \in Nat
  OBVIOUS
<1> QED BY <1>1, <1>2 DEF Speed!Count

\* Resolving a state moves no card, and leaves nobody waiting for a card.
LEMMA ResolvedOK ==
  ASSUME NEW s, SpeedOK(s)
  PROVE  /\ SpeedOK(Speed!Resolved(s))
         /\ Speed!Resolved(s).phase = "playing" => ~Speed!Stalled(Speed!Resolved(s))
<1>1. s \in Speed!States
  BY DEF SpeedOK
<1>2. ASSUME NEW w \in 0..2
      PROVE  LET t == [s EXCEPT !.phase = "gameOver", !.won = w]
             IN SpeedOK(t) /\ t.phase = "gameOver"
  <2> DEFINE t == [s EXCEPT !.phase = "gameOver", !.won = w]
  <2>1. /\ t \in Speed!States /\ t.hands = s.hands /\ t.draws = s.draws
        /\ t.centers = s.centers /\ t.spare = s.spare /\ t.phase = "gameOver"
    BY <1>1, SpeedStatesAre
  <2> HIDE DEF t
  <2> QED BY <2>1, SamePiles DEF t
<1>3. CASE \E p \in 1..2 : Speed!Count(s, p) = 0
  <2> DEFINE w == CHOOSE p \in 1..2 : Speed!Count(s, p) = 0
  <2>1. w \in 0..2
    BY <1>3
  <2>2. Speed!Resolved(s) = [s EXCEPT !.phase = "gameOver", !.won = w]
    BY <1>3 DEF Speed!Resolved, Speed!Players, Speed!Host, Speed!Guest
  <2> QED BY <1>2, <2>1, <2>2
<1>4. CASE ~(\E p \in 1..2 : Speed!Count(s, p) = 0) /\ ~Speed!Stalled(s)
  <2>1. Speed!Resolved(s) = s
    BY <1>4 DEF Speed!Resolved, Speed!Players, Speed!Host, Speed!Guest
  <2> QED BY <1>4, <2>1
<1>5. CASE /\ ~(\E p \in 1..2 : Speed!Count(s, p) = 0) /\ Speed!Stalled(s)
           /\ \E k \in Speed!Sides : s.spare[k] # <<>>
  <2> DEFINE t == [s EXCEPT !.phase = "stalled"]
  <2>1. Speed!Resolved(s) = t
    BY <1>5 DEF Speed!Resolved, Speed!Players, Speed!Host, Speed!Guest
  <2>2. /\ t \in Speed!States /\ t.hands = s.hands /\ t.draws = s.draws
        /\ t.centers = s.centers /\ t.spare = s.spare /\ t.phase = "stalled"
    BY <1>1, SpeedStatesAre
  <2> HIDE DEF t
  <2> QED BY <2>1, <2>2, SamePiles
<1>6. CASE /\ ~(\E p \in 1..2 : Speed!Count(s, p) = 0) /\ Speed!Stalled(s)
           /\ ~(\E k \in Speed!Sides : s.spare[k] # <<>>)
  <2> DEFINE w == IF Speed!Count(s, 1) = Speed!Count(s, 2) THEN 0
                  ELSE CHOOSE p \in 1..2 : Speed!Count(s, p) < Speed!Count(s, 3 - p)
  <2>1. w \in 0..2
    <3>1. Speed!Count(s, 1) \in Nat /\ Speed!Count(s, 2) \in Nat
      BY <1>1, HandsCount
    <3>2. CASE Speed!Count(s, 1) = Speed!Count(s, 2)
      BY <3>2
    <3>3. CASE Speed!Count(s, 1) # Speed!Count(s, 2)
      <4>1. 3 - 1 = 2 /\ 3 - 2 = 1
        OBVIOUS
      <4>2. \E p \in 1..2 : Speed!Count(s, p) < Speed!Count(s, 3 - p)
        BY <3>1, <3>3, <4>1
      <4>3. (CHOOSE p \in 1..2 : Speed!Count(s, p) < Speed!Count(s, 3 - p)) \in 1..2
        BY <4>2
      <4> QED BY <3>3, <4>3
    <3> QED BY <3>2, <3>3
  <2>2. Speed!Resolved(s) = [s EXCEPT !.phase = "gameOver", !.won = w]
    BY <1>6 DEF Speed!Resolved, Speed!Players, Speed!Host, Speed!Guest, Speed!Other
  <2> QED BY <1>2, <2>1, <2>2
<1> QED BY <1>3, <1>4, <1>5, <1>6

\* The lesser of two numbers
LEMMA MinOfTwo ==
  ASSUME NEW a \in Int, NEW b \in Int
  PROVE  Speed!Min({a, b}) = IF a <= b THEN a ELSE b
<1> DEFINE least(x) == x \in {a, b} /\ \A y \in {a, b} : x <= y
<1>1. \A x : least(x) => x = IF a <= b THEN a ELSE b
  OBVIOUS
<1>2. least(IF a <= b THEN a ELSE b)
  OBVIOUS
<1> QED BY <1>1, <1>2 DEF Speed!Min

\* Cards drawn go from the pile to the hand, no more than it may have.
LEMMA RefillOK ==
  ASSUME NEW s \in Speed!States, \A q \in 1..2 : Len(s.hands[q]) <= SpeedHand, NEW p \in 1..2
  PROVE  LET t == Speed!Refill(s, p)
         IN /\ t \in Speed!States /\ t.centers = s.centers /\ t.spare = s.spare
            /\ \A q \in 1..2 : /\ Len(t.hands[q]) <= SpeedHand
                              /\ \A r : OfPlayer(t, q, r) = OfPlayer(s, q, r)
<1> DEFINE S == 1..TopRank
           h == s.hands[p]
           d == s.draws[p]
           n == Speed!Min({SpeedHand - Len(h), Len(d)})
           drawn == SubSeq(d, 1, n)
           left == SubSeq(d, n + 1, Len(d))
           hs == [s.hands EXCEPT ![p] = h \o drawn]
           ds == [s.draws EXCEPT ![p] = left]
           t == [s EXCEPT !.hands = hs, !.draws = ds]
<1>1. h \in Seq(S) /\ d \in Seq(S)
  BY SpeedStatesAre
<1>2. Speed!Refill(s, p) = t
  BY SpeedStatesAre DEF Speed!Refill
<1>3. Len(h) <= SpeedHand
  OBVIOUS
<1>4. s.hands \in [1..2 -> Seq(S)] /\ s.draws \in [1..2 -> Seq(S)]
  BY SpeedStatesAre
<1> HIDE DEF S, h, d
<1>5. n \in 0..Len(d) /\ Len(h) + n <= SpeedHand
  <2>1. Len(h) \in Nat /\ Len(d) \in Nat /\ SpeedHand \in Nat
    BY <1>1, LenProperties, SpeedAssumption
  <2>2. n = IF SpeedHand - Len(h) <= Len(d) THEN SpeedHand - Len(h) ELSE Len(d)
    BY <2>1, MinOfTwo
  <2> HIDE DEF n
  <2> QED BY <1>3, <2>1, <2>2
<1> HIDE DEF n
<1>6. /\ drawn \in Seq(S) /\ left \in Seq(S) /\ Len(drawn) = n
      /\ \A r : CountIn(d, r) = CountIn(drawn, r) + CountIn(left, r)
  BY <1>1, <1>5, CountCut
<1> HIDE DEF drawn, left
<1>7. /\ h \o drawn \in Seq(S) /\ Len(h \o drawn) = Len(h) + n
      /\ \A r : CountIn(h \o drawn, r) = CountIn(h, r) + CountIn(drawn, r)
  BY <1>1, <1>6, ConcatProperties, CountConcat
<1>8. /\ hs \in [1..2 -> Seq(S)] /\ ds \in [1..2 -> Seq(S)]
      /\ hs[p] = h \o drawn /\ ds[p] = left
      /\ \A q \in 1..2 : q # p => hs[q] = s.hands[q] /\ ds[q] = s.draws[q]
  BY <1>4, <1>6, <1>7
<1> HIDE DEF hs, ds
<1>9. /\ t \in Speed!States /\ t.hands = hs /\ t.draws = ds
      /\ t.centers = s.centers /\ t.spare = s.spare
  BY <1>8, SpeedStatesAre DEF S
<1> HIDE DEF t
<1>10. ASSUME NEW q \in 1..2
       PROVE  Len(t.hands[q]) <= SpeedHand /\ \A r : OfPlayer(t, q, r) = OfPlayer(s, q, r)
  <2>1. CASE q = p
    <3>1. Len(t.hands[q]) <= SpeedHand
      BY <1>5, <1>7, <1>8, <1>9, <2>1
    <3>2. ASSUME NEW r PROVE OfPlayer(t, q, r) = OfPlayer(s, q, r)
      <4>1. /\ OfPlayer(t, q, r) = (CountIn(h, r) + CountIn(drawn, r)) + CountIn(left, r)
            /\ OfPlayer(s, q, r) = CountIn(h, r) + (CountIn(drawn, r) + CountIn(left, r))
        BY <1>6, <1>7, <1>8, <1>9, <2>1 DEF OfPlayer, h, d
      <4>2. CountIn(h, r) \in Nat /\ CountIn(drawn, r) \in Nat /\ CountIn(left, r) \in Nat
        BY <1>1, <1>6, CountIsNat
      <4> QED BY <4>1, <4>2
    <3> QED BY <3>1, <3>2
  <2>2. CASE q # p
    BY <1>8, <1>9, <2>2 DEF OfPlayer
  <2> QED BY <2>1, <2>2
<1> QED BY <1>2, <1>9, <1>10

\* A card out of the middle of a hand
LEMMA CountWithout ==
  ASSUME NEW S, NEW h \in Seq(S), NEW i \in 1..Len(h)
  PROVE  LET rest == SubSeq(h, 1, i - 1) \o SubSeq(h, i + 1, Len(h))
         IN /\ rest \in Seq(S) /\ Len(rest) <= Len(h)
            /\ \A r : CountIn(h, r) = CountIn(rest, r) + (IF h[i] = r THEN 1 ELSE 0)
<1> DEFINE a == SubSeq(h, 1, i - 1)
           b == SubSeq(h, i, Len(h))
           e == SubSeq(h, i + 1, Len(h))
           rest == a \o e
<1>1. Len(h) \in Nat /\ \A j \in 1..Len(h) : h[j] \in S
  BY LenProperties, ElementOfSeq
<1>2. /\ a \in Seq(S) /\ b \in Seq(S) /\ Len(a) = i - 1
      /\ \A r : CountIn(h, r) = CountIn(a, r) + CountIn(b, r)
  <2>1. i - 1 \in 0..Len(h) /\ (i - 1) + 1 = i
    BY <1>1
  <2> QED BY <2>1, CountCut
<1>3. e \in Seq(S) /\ Len(e) = Len(h) - i
  <2>1. /\ \A j \in (i + 1)..Len(h) : h[j] \in S
        /\ i + 1 \in Int /\ Len(h) \in Int
    BY <1>1
  <2>2. /\ e \in Seq(S) /\ Len(e) = IF i + 1 <= Len(h) THEN Len(h) - (i + 1) + 1 ELSE 0
    BY <2>1, SubSeqProperties
  <2> HIDE DEF e
  <2> QED BY <1>1, <2>2
<1>4. b = <<h[i]>> \o e
  <2>1. Len(h) \in i..Len(h)
    BY <1>1
  <2> QED BY <2>1, SubSeqRecursiveFirst
<1> HIDE DEF a, b, e
<1>5. \A r : CountIn(b, r) = (IF h[i] = r THEN 1 ELSE 0) + CountIn(e, r)
  <2>1. <<h[i]>> \in Seq(S)
    BY <1>1
  <2>2. \A r : CountIn(<<h[i]>> \o e, r) = CountIn(<<h[i]>>, r) + CountIn(e, r)
    BY <1>3, <2>1, CountConcat
  <2> QED BY <1>4, <2>2, CountOne
<1>6. rest \in Seq(S) /\ Len(rest) = Len(a) + Len(e) /\ \A r : CountIn(rest, r) = CountIn(a, r) + CountIn(e, r)
  BY <1>2, <1>3, ConcatProperties, CountConcat
<1>7. Len(rest) <= Len(h)
  BY <1>1, <1>2, <1>3, <1>6
<1>8. ASSUME NEW r PROVE CountIn(h, r) = CountIn(rest, r) + (IF h[i] = r THEN 1 ELSE 0)
  <2>1. CountIn(a, r) \in Nat /\ CountIn(e, r) \in Nat
    BY <1>2, <1>3, CountIsNat
  <2> QED BY <1>2, <1>5, <1>6, <2>1
<1> QED BY <1>6, <1>7, <1>8 DEF a, e

\* A play moves a card from a hand to the centre; what cannot be played is left.
LEMMA PlayOK ==
  ASSUME NEW s, SpeedOK(s), NEW p \in 1..2, NEW i, NEW k
  PROVE  LET t == Speed!Play(s, p, i, k)
         IN SpeedOK(t) /\ (t = s \/ (t.phase = "playing" => ~Speed!Stalled(t)))
<1>1. CASE s.phase # "playing" \/ <<i, k>> \notin Speed!Moves(s.hands[p], s.centers)
  BY <1>1 DEF Speed!Play
<1>2. CASE s.phase = "playing" /\ <<i, k>> \in Speed!Moves(s.hands[p], s.centers)
  <2> DEFINE S == 1..TopRank
             h == s.hands[p]
             c == h[i]
             rest == SubSeq(h, 1, i - 1) \o SubSeq(h, i + 1, Len(h))
             hs == [s.hands EXCEPT ![p] = rest]
             cs == [s.centers EXCEPT ![k] = Append(s.centers[k], c)]
             u == [s EXCEPT !.hands = hs, !.centers = cs]
  <2>1. s \in Speed!States /\ i \in 1..Len(h) /\ k \in 1..2
    BY <1>2 DEF Speed!Moves, SpeedOK, Speed!Sides
  <2>2. /\ s.hands \in [1..2 -> Seq(S)] /\ s.centers \in [1..2 -> Seq(S)]
        /\ h \in Seq(S) /\ s.centers[k] \in Seq(S)
    BY <2>1, SpeedStatesAre
  <2>3. Speed!Play(s, p, i, k) = Speed!Resolved(Speed!Refill(u, p))
    BY <1>2, <2>1, SpeedStatesAre DEF Speed!Play
  <2> HIDE DEF h, S
  <2>4. c \in S
    BY <2>1, <2>2, ElementOfSeq
  <2>5. /\ rest \in Seq(S) /\ Len(rest) <= Len(h) /\ Len(rest) \in Nat
        /\ \A r : CountIn(h, r) = CountIn(rest, r) + (IF c = r THEN 1 ELSE 0)
    BY <2>1, <2>2, CountWithout, LenProperties
  <2> HIDE DEF c, rest
  <2>6. /\ Append(s.centers[k], c) \in Seq(S)
        /\ \A r : CountIn(Append(s.centers[k], c), r) = CountIn(s.centers[k], r) + (IF c = r THEN 1 ELSE 0)
    BY <2>2, <2>4, AppendProperties, CountAppend
  <2>7. /\ hs \in [1..2 -> Seq(S)] /\ cs \in [1..2 -> Seq(S)]
        /\ hs[p] = rest /\ cs[k] = Append(s.centers[k], c)
        /\ \A q \in 1..2 : q # p => hs[q] = s.hands[q]
        /\ \A q \in 1..2 : q # k => cs[q] = s.centers[q]
    BY <2>1, <2>2, <2>5, <2>6
  <2> HIDE DEF hs, cs
  <2>8. /\ u \in Speed!States /\ u.hands = hs /\ u.centers = cs
        /\ u.draws = s.draws /\ u.spare = s.spare
    BY <2>1, <2>7, SpeedStatesAre DEF S
  <2> HIDE DEF u
  <2>9. \A q \in 1..2 : Len(u.hands[q]) <= SpeedHand
    <3>1. \A q \in 1..2 : Len(s.hands[q]) <= SpeedHand /\ Len(s.hands[q]) \in Nat
      BY <2>1, HandsCount DEF SpeedOK
    <3>2. Len(rest) <= SpeedHand
      BY <2>5, <3>1, SpeedAssumption DEF h
    <3> QED BY <2>7, <2>8, <3>1, <3>2
  <2>10. ASSUME NEW r \in 1..TopRank PROVE OnTable(u, r) = SpeedCopies
    <3> DEFINE x == IF c = r THEN 1 ELSE 0
    <3>1. x \in Int
      OBVIOUS
    <3>2. /\ CountIn(u.hands[p], r) + x = CountIn(s.hands[p], r)
          /\ CountIn(u.centers[k], r) = CountIn(s.centers[k], r) + x
      BY <2>5, <2>6, <2>7, <2>8 DEF h
    <3> HIDE DEF x
    <3>3. \A q \in 1..2 : /\ CountIn(s.hands[q], r) \in Nat /\ CountIn(s.draws[q], r) \in Nat
                          /\ CountIn(s.centers[q], r) \in Nat /\ CountIn(s.spare[q], r) \in Nat
                          /\ CountIn(u.hands[q], r) \in Nat /\ CountIn(u.centers[q], r) \in Nat
      BY <2>1, <2>8, PilesCount
    <3>4. /\ OfPlayer(u, p, r) + x = OfPlayer(s, p, r)
          /\ \A q \in 1..2 : q # p => OfPlayer(u, q, r) = OfPlayer(s, q, r)
      <4> DEFINE m == CountIn(u.hands[p], r)
                 n == CountIn(s.hands[p], r)
                 d == CountIn(s.draws[p], r)
      <4>1. OfPlayer(u, p, r) = m + d /\ OfPlayer(s, p, r) = n + d
        BY <2>8 DEF OfPlayer
      <4>2. m \in Nat /\ n \in Nat /\ d \in Nat /\ m + x = n
        BY <3>2, <3>3
      <4> HIDE DEF m, n, d
      <4>3. (m + d) + x = n + d
        BY <3>1, <4>2
      <4>4. \A q \in 1..2 : q # p => OfPlayer(u, q, r) = OfPlayer(s, q, r)
        BY <2>7, <2>8 DEF OfPlayer
      <4> QED BY <4>1, <4>3, <4>4
    <3>5. /\ OfSide(u, k, r) = OfSide(s, k, r) + x
          /\ \A q \in 1..2 : q # k => OfSide(u, q, r) = OfSide(s, q, r)
      <4> DEFINE m == CountIn(u.centers[k], r)
                 n == CountIn(s.centers[k], r)
                 d == CountIn(s.spare[k], r)
      <4>1. OfSide(u, k, r) = m + d /\ OfSide(s, k, r) = n + d
        BY <2>8 DEF OfSide
      <4>2. m \in Nat /\ n \in Nat /\ d \in Nat /\ m = n + x
        BY <2>1, <3>2, <3>3
      <4> HIDE DEF m, n, d
      <4>3. m + d = (n + d) + x
        BY <3>1, <4>2
      <4>4. \A q \in 1..2 : q # k => OfSide(u, q, r) = OfSide(s, q, r)
        BY <2>7, <2>8 DEF OfSide
      <4> QED BY <4>1, <4>3, <4>4
    <3>6. \A q \in 1..2 : /\ OfPlayer(u, q, r) \in Int /\ OfPlayer(s, q, r) \in Int
                          /\ OfSide(u, q, r) \in Int /\ OfSide(s, q, r) \in Int
      <4>1. \A m, n \in Nat : m + n \in Int
        OBVIOUS
      <4> QED BY <2>8, <3>3, <4>1 DEF OfPlayer, OfSide
    <3>7. (OfPlayer(u, 1, r) + OfPlayer(u, 2, r)) + x = OfPlayer(s, 1, r) + OfPlayer(s, 2, r)
      <4>1. CASE p = 1
        BY <3>1, <3>4, <3>6, <4>1
      <4>2. CASE p = 2
        BY <3>1, <3>4, <3>6, <4>2
      <4> QED BY <4>1, <4>2
    <3>8. OfSide(u, 1, r) + OfSide(u, 2, r) = (OfSide(s, 1, r) + OfSide(s, 2, r)) + x
      <4>1. CASE k = 1
        BY <3>1, <3>5, <3>6, <4>1
      <4>2. CASE k = 2
        BY <3>1, <3>5, <3>6, <4>2
      <4> QED BY <2>1, <4>1, <4>2
    <3>9. /\ OfPlayer(u, 1, r) \in Int /\ OfPlayer(u, 2, r) \in Int
          /\ OfPlayer(s, 1, r) \in Int /\ OfPlayer(s, 2, r) \in Int
          /\ OfSide(u, 1, r) \in Int /\ OfSide(u, 2, r) \in Int
          /\ OfSide(s, 1, r) \in Int /\ OfSide(s, 2, r) \in Int
      BY <3>6
    <3>10. OnTable(u, r) = OnTable(s, r)
      BY <3>1, <3>7, <3>8, <3>9 DEF OnTable
    <3> QED BY <3>10 DEF SpeedOK
  <2> DEFINE v == Speed!Refill(u, p)
  <2>11. /\ v \in Speed!States /\ v.centers = u.centers /\ v.spare = u.spare
         /\ \A q \in 1..2 : /\ Len(v.hands[q]) <= SpeedHand
                           /\ \A r : OfPlayer(v, q, r) = OfPlayer(u, q, r)
    BY <2>8, <2>9, RefillOK
  <2> HIDE DEF v
  <2>12. SpeedOK(v)
    BY <2>10, <2>11 DEF SpeedOK, OnTable, OfSide
  <2> QED BY <2>3, <2>12, ResolvedOK DEF v
<1> QED BY <1>1, <1>2

\* The next card of each pile to flip from goes to the centre.
LEMMA FlipCenterOK ==
  ASSUME NEW s, SpeedOK(s)
  PROVE  LET t == Speed!FlipCenter(s)
         IN SpeedOK(t) /\ (t = s \/ (t.phase = "playing" => ~Speed!Stalled(t)))
<1>1. CASE s.phase # "stalled"
  BY <1>1 DEF Speed!FlipCenter
<1>2. CASE s.phase = "stalled"
  <2> DEFINE S == 1..TopRank
             n(k) == IF s.spare[k] = <<>> THEN 0 ELSE 1
             turned(k) == SubSeq(s.spare[k], 1, n(k))
             left(k) == SubSeq(s.spare[k], 2, Len(s.spare[k]))
             cs == [k \in 1..2 |-> s.centers[k] \o turned(k)]
             ps == [k \in 1..2 |-> left(k)]
             u == [s EXCEPT !.phase = "playing", !.centers = cs, !.spare = ps]
  <2>1. s \in Speed!States
    BY DEF SpeedOK
  <2>2. \A k \in 1..2 : s.centers[k] \in Seq(S) /\ s.spare[k] \in Seq(S)
    BY <2>1, SpeedStatesAre
  <2>3. Speed!FlipCenter(s) = Speed!Resolved(u)
    BY <1>2, <2>1, SpeedStatesAre DEF Speed!FlipCenter, Speed!Sides
  <2> HIDE DEF S
  <2>4. ASSUME NEW k \in 1..2
        PROVE  /\ turned(k) \in Seq(S) /\ left(k) \in Seq(S)
               /\ \A r : CountIn(s.spare[k], r) = CountIn(turned(k), r) + CountIn(left(k), r)
    <3>1. s.spare[k] \in Seq(S)
      BY <2>2
    <3>2. CASE s.spare[k] = <<>>
      <4>1. SubSeq(s.spare[k], 1, 0) = <<>> /\ turned(k) = SubSeq(s.spare[k], 1, 0)
        BY <3>2, SubSeqEmpty
      <4>2. Len(s.spare[k]) = 0 /\ SubSeq(s.spare[k], 2, 0) = <<>>
        BY <3>2, SubSeqEmpty
      <4>3. turned(k) = <<>> /\ left(k) = <<>>
        BY <4>1, <4>2
      <4> HIDE DEF turned, left
      <4>4. \A r : CountIn(<<>>, r) = 0
        BY CountNone
      <4>5. 0 = 0 + 0 /\ <<>> \in Seq(S)
        OBVIOUS
      <4> QED BY <3>2, <4>3, <4>4, <4>5
    <3>3. CASE s.spare[k] # <<>>
      <4>1. 1 \in 0..Len(s.spare[k]) /\ 1 + 1 = 2
        BY <3>1, <3>3, EmptySeq
      <4>2. /\ SubSeq(s.spare[k], 1, 1) \in Seq(S) /\ left(k) \in Seq(S)
            /\ \A r : CountIn(s.spare[k], r) = CountIn(SubSeq(s.spare[k], 1, 1), r) + CountIn(left(k), r)
        BY <3>1, <4>1, CountCut
      <4> QED BY <3>3, <4>2
    <3> QED BY <3>2, <3>3
  <2> HIDE DEF turned, left
  <2>5. ASSUME NEW k \in 1..2
        PROVE  /\ cs[k] \in Seq(S) /\ ps[k] \in Seq(S)
               /\ \A r : CountIn(cs[k], r) = CountIn(s.centers[k], r) + CountIn(turned(k), r)
    BY <2>2, <2>4, ConcatProperties, CountConcat
  <2>6. cs \in [1..2 -> Seq(S)] /\ ps \in [1..2 -> Seq(S)] /\ \A k \in 1..2 : ps[k] = left(k)
    BY <2>5
  <2> HIDE DEF cs, ps
  <2>7. /\ u \in Speed!States /\ u.hands = s.hands /\ u.draws = s.draws
        /\ u.centers = cs /\ u.spare = ps
    BY <2>1, <2>6, SpeedStatesAre DEF S
  <2> HIDE DEF u
  <2>8. ASSUME NEW k \in 1..2, NEW r PROVE OfSide(u, k, r) = OfSide(s, k, r)
    <3>1. /\ CountIn(s.centers[k], r) \in Nat /\ CountIn(turned(k), r) \in Nat
          /\ CountIn(left(k), r) \in Nat
      BY <2>1, <2>4, PilesCount, CountIsNat
    <3>2. \A a, b, c \in Nat : (a + b) + c = a + (b + c)
      OBVIOUS
    <3>3. OfSide(u, k, r) = (CountIn(s.centers[k], r) + CountIn(turned(k), r)) + CountIn(left(k), r)
      BY <2>5, <2>6, <2>7 DEF OfSide
    <3>4. OfSide(s, k, r) = CountIn(s.centers[k], r) + (CountIn(turned(k), r) + CountIn(left(k), r))
      BY <2>4 DEF OfSide
    <3> QED BY <3>1, <3>2, <3>3, <3>4
  <2>9. SpeedOK(u)
    BY <2>7, <2>8 DEF SpeedOK, OnTable, OfPlayer
  <2> QED BY <2>3, <2>9, ResolvedOK
<1> QED BY <1>1, <1>2

\* The start moves no card.
LEMMA FlipStartingOK ==
  ASSUME NEW s, SpeedOK(s)
  PROVE  LET t == Speed!FlipStarting(s)
         IN SpeedOK(t) /\ (t = s \/ s.phase = "ready")
<1> DEFINE t == [s EXCEPT !.phase = "playing"]
<1>1. /\ t \in Speed!States /\ t.hands = s.hands /\ t.draws = s.draws
      /\ t.centers = s.centers /\ t.spare = s.spare
  BY SpeedStatesAre DEF SpeedOK
<1> HIDE DEF t
<1>2. SpeedOK(t)
  BY <1>1, SamePiles
<1> QED BY <1>2 DEF Speed!FlipStarting, t

\* The deal has every card.
LEMMA SpeedInit == Speed!Init => SpeedInv
<1> SUFFICES ASSUME Speed!Init PROVE SpeedInv
  OBVIOUS
<1>1. host \in SpeedDeals /\ toHost = <<>>
  BY DEF Speed!Init, Speed!NetInit
<1>2. SpeedOK(host)
  BY <1>1, SpeedAssumption, KeptIs DEF SpeedOK
<1> QED BY <1>1, <1>2, EmptySeq DEF SpeedInv

\* A step keeps the inductive invariant, and sees a table nobody can play on.
LEMMA SpeedStep ==
  ASSUME SpeedInv, Speed!Next PROVE SpeedInv' /\ (host' = host \/ Speed!StallSeen)
<1> USE DEF SpeedInv
<1>1. ASSUME \/ host' = Speed!FlipStarting(host)
             \/ host' = Speed!FlipCenter(host)
             \/ \E p \in 1..2 : \E i, k : host' = Speed!Play(host, p, i, k)
      PROVE  SpeedOK(host') /\ (host' = host \/ Speed!StallSeen)
  BY <1>1, FlipStartingOK, FlipCenterOK, PlayOK DEF Speed!StallSeen
<1>2. CASE Speed!HostFlipsStart \/ Speed!HostFlips \/ Speed!HostPlays
  BY <1>1, <1>2 DEF Speed!HostFlipsStart, Speed!HostFlips, Speed!HostPlays, Speed!Becomes, Speed!Host
<1>3. CASE Speed!HostTakes
  <2>1. toHost' \in Seq(SpeedClicks) /\ Head(toHost) \in SpeedClicks
    BY <1>3, ClicksTravel DEF Speed!HostTakes
  <2>2. Head(toHost).type \in {"flip_start", "flip_center", "play_card"}
    BY <2>1 DEF SpeedClicks
  <2>3. \/ host' = Speed!FlipStarting(host)
        \/ host' = Speed!FlipCenter(host)
        \/ host' = Speed!Play(host, 2, Head(toHost).at, Head(toHost).pile)
    BY <1>3, <2>2 DEF Speed!HostTakes, Speed!Becomes, Speed!Guest
  <2>4. SpeedOK(host') /\ (host' = host \/ Speed!StallSeen)
    BY <1>1, <2>3
  <2> QED BY <2>1, <2>4
<1>4. CASE Speed!GuestClicks
  <2>1. PICK m : Speed!Click(m) /\ m \in SpeedClicks
    <3>1. \A at, pile \in Int : [type |-> "play_card", at |-> at, pile |-> pile] \in SpeedClicks
      BY DEF SpeedClicks
    <3>2. [type |-> "flip_start"] \in SpeedClicks /\ [type |-> "flip_center"] \in SpeedClicks
      BY DEF SpeedClicks
    <3>3. ASSUME NEW m \in Speed!Moves(view.hand, view.centers) PROVE m[1] \in Int /\ m[2] \in Int
      BY DEF Speed!Moves, Speed!Sides
    <3> QED BY <1>4, <3>1, <3>2, <3>3 DEF Speed!GuestClicks
  <2>2. toHost' \in Seq(SpeedClicks) /\ host' = host
    BY <2>1, ClicksTravel DEF Speed!Click
  <2> QED BY <2>2
<1>5. CASE Speed!Transport
  <2>1. toHost' \in Seq(SpeedClicks) /\ host' = host
    BY <1>5, ClicksTravel
       DEF Speed!Transport, Speed!GuestReceives, Speed!LoseViews, Speed!LoseClicks
  <2> QED BY <2>1
<1> QED BY <1>2, <1>3, <1>4, <1>5 DEF Speed!Next
-----------------------------------------------------------------------------
(* Go Fish. Bags of ranks, by how many cards of each they hold              *)

FishBags == UNION {[D -> Nat \ {0}] : D \in SUBSET FishRanks}
Held(r, b) == IF r \in DOMAIN b THEN b[r] ELSE 0

\* The model's Held is the one counted with here.
LEMMA HeldIs == \A r, b : Fish!Held(r, b) = Held(r, b)
BY DEF Fish!Held, Fish!BagIn, Fish!BagToSet, Held

\* A bag holds a number of some ranks, and nothing of the others.
LEMMA BagIs ==
  ASSUME NEW b \in FishBags
  PROVE  /\ DOMAIN b \subseteq FishRanks /\ \A r \in DOMAIN b : b[r] \in Nat \ {0}
         /\ \A r : Held(r, b) \in Nat /\ (r \in DOMAIN b <=> Held(r, b) # 0)
         /\ b = Fish!EmptyBag <=> DOMAIN b = {}
BY DEF FishBags, Held, Fish!EmptyBag, Fish!SetToBag

\* Cards put into a bag
LEMMA PlusIs ==
  ASSUME NEW b \in FishBags, NEW c \in FishBags
  PROVE  LET t == Fish!(+)(b, c)
         IN t \in FishBags /\ \A r : Held(r, t) = Held(r, b) + Held(r, c)
<1> DEFINE D == DOMAIN b \cup DOMAIN c
           t == [r \in D |-> Held(r, b) + Held(r, c)]
<1>1. Fish!(+)(b, c) = t
  BY DEF Fish!(+), Held
<1>2. D \subseteq FishRanks
  BY BagIs
<1>3. ASSUME NEW r \in D PROVE Held(r, b) + Held(r, c) \in Nat \ {0}
  BY BagIs
<1>4. t \in [D -> Nat \ {0}]
  BY <1>3
<1>5. ASSUME NEW r PROVE Held(r, t) = Held(r, b) + Held(r, c)
  <2>1. CASE r \in D
    BY <2>1 DEF Held
  <2>2. CASE r \notin D
    <3>1. Held(r, t) = 0 /\ Held(r, b) = 0 /\ Held(r, c) = 0
      BY <2>2 DEF Held
    <3> QED BY <3>1
  <2> QED BY <2>1, <2>2
<1> HIDE DEF t, D
<1> QED BY <1>1, <1>2, <1>4, <1>5 DEF FishBags

\* Cards taken out of a bag
LEMMA MinusIs ==
  ASSUME NEW b \in FishBags, NEW c \in FishBags
  PROVE  LET t == Fish!(-)(b, c)
         IN /\ t \in FishBags
            /\ \A r : Held(r, t) = IF Held(r, b) > Held(r, c) THEN Held(r, b) - Held(r, c) ELSE 0
<1> DEFINE B == [r \in DOMAIN b |-> Held(r, b) - Held(r, c)]
           D == {r \in DOMAIN b : Held(r, b) - Held(r, c) > 0}
           t == [r \in D |-> Held(r, b) - Held(r, c)]
<1>1. Fish!(-)(b, c) = t
  <2>1. B = [r \in DOMAIN b |-> IF r \in DOMAIN c THEN b[r] - c[r] ELSE b[r]]
    BY BagIs DEF Held
  <2>2. {r \in DOMAIN B : B[r] > 0} = D
    OBVIOUS
  <2>3. Fish!(-)(b, c) = [r \in {d \in DOMAIN B : B[d] > 0} |-> B[r]]
    BY <2>1 DEF Fish!(-)
  <2> QED BY <2>2, <2>3
<1>2. D \subseteq FishRanks
  BY BagIs
<1>3. ASSUME NEW r \in D PROVE Held(r, b) - Held(r, c) \in Nat \ {0}
  BY BagIs
<1>4. t \in [D -> Nat \ {0}]
  BY <1>3
<1>5. ASSUME NEW r
      PROVE  Held(r, t) = IF Held(r, b) > Held(r, c) THEN Held(r, b) - Held(r, c) ELSE 0
  <2>1. CASE r \in DOMAIN b
    <3>1. Held(r, t) = IF Held(r, b) - Held(r, c) > 0 THEN Held(r, b) - Held(r, c) ELSE 0
      BY <2>1 DEF Held
    <3>2. Held(r, b) \in Nat /\ Held(r, c) \in Nat
      BY BagIs
    <3> QED BY <3>1, <3>2
  <2>2. CASE r \notin DOMAIN b
    <3>1. Held(r, t) = 0 /\ Held(r, b) = 0 /\ Held(r, c) \in Nat
      BY <2>2, BagIs DEF Held
    <3> QED BY <3>1
  <2> QED BY <2>1, <2>2
<1> HIDE DEF t, D
<1> QED BY <1>1, <1>2, <1>4, <1>5 DEF FishBags

\* One card, or all those of a rank
LEMMA SomeIs ==
  ASSUME NEW r \in FishRanks, NEW n \in Nat \ {0}
  PROVE  LET t == [x \in {r} |-> n]
         IN t \in FishBags /\ \A x : Held(x, t) = IF x = r THEN n ELSE 0
<1>1. {r} \in SUBSET FishRanks /\ [x \in {r} |-> n] \in [{r} -> Nat \ {0}]
  OBVIOUS
<1> QED BY <1>1 DEF FishBags, Held

(* The states, and the cards of each rank                                   *)

FishStates == [hands : [1..2 -> FishBags], books : [1..2 -> SUBSET FishRanks],
               phase : {"playing", "goFish", "gameOver"}, turn : 1..2,
               asked : FishRanks \cup {0}, pond : FishBags]

\* The cards of rank r that p holds or has laid down
Own(s, p, r) == Held(r, s.hands[p]) + (IF r \in s.books[p] THEN BookSize ELSE 0)

FishOK(s) ==
  /\ s \in FishStates
  /\ \A r \in FishRanks : Own(s, 1, r) + Own(s, 2, r) + Held(r, s.pond) = BookSize

\* The cards of a player are a number.
LEMMA OwnIs ==
  ASSUME NEW s \in FishStates, NEW p \in 1..2, NEW r
  PROVE  /\ Held(r, s.hands[p]) \in Nat /\ Held(r, s.pond) \in Nat
         /\ Own(s, p, r) \in Nat /\ Held(r, s.hands[p]) <= Own(s, p, r)
         /\ r \in s.books[p] => Own(s, p, r) >= BookSize
<1>1. Held(r, s.hands[p]) \in Nat /\ Held(r, s.pond) \in Nat
  BY BagIs DEF FishStates
<1> DEFINE m == Held(r, s.hands[p])
<1>2. Own(s, p, r) = m + (IF r \in s.books[p] THEN BookSize ELSE 0)
  BY DEF Own
<1> HIDE DEF m
<1>3. \A n \in Nat : n \in Nat /\ n + 0 = n /\ n + BookSize \in Nat /\ n <= n + BookSize /\ n + BookSize >= BookSize /\ n <= n
  BY FishAssumption
<1> QED BY <1>1, <1>2, <1>3 DEF m

\* The model's count of a rank is that of the pond, the hands and the books.
LEMMA CopiesAre ==
  ASSUME NEW s \in FishStates, NEW r
  PROVE  Fish!Copies(s, r) = Own(s, 1, r) + Own(s, 2, r) + Held(r, s.pond)
<1> DEFINE L == {p \in 1..2 : r \in s.books[p]}
           n1 == IF r \in s.books[1] THEN 1 ELSE 0
           n2 == IF r \in s.books[2] THEN 1 ELSE 0
           b1 == IF r \in s.books[1] THEN BookSize ELSE 0
           b2 == IF r \in s.books[2] THEN BookSize ELSE 0
<1>1. Cardinality(L) = n1 + n2
  <2>1. CASE r \in s.books[1] /\ r \in s.books[2]
    <3>1. L = {1} \cup {2} /\ 2 \notin {1} /\ IsFiniteSet({1}) /\ Cardinality({1}) = 1
      BY <2>1, FS_Singleton
    <3>2. Cardinality(L) = 1 + 1
      BY <3>1, FS_AddElement
    <3> QED BY <2>1, <3>2
  <2>2. CASE r \in s.books[1] /\ r \notin s.books[2]
    <3>1. L = {1}
      BY <2>2
    <3> QED BY <2>2, <3>1, FS_Singleton
  <2>3. CASE r \notin s.books[1] /\ r \in s.books[2]
    <3>1. L = {2}
      BY <2>3
    <3> QED BY <2>3, <3>1, FS_Singleton
  <2>4. CASE r \notin s.books[1] /\ r \notin s.books[2]
    <3>1. L = {}
      BY <2>4
    <3> QED BY <2>4, <3>1, FS_EmptySet
  <2> QED BY <2>1, <2>2, <2>3, <2>4
<1>2. BookSize * Cardinality(L) = b1 + b2
  <2>1. BookSize * (1 + 1) = BookSize + BookSize /\ BookSize * (1 + 0) = BookSize + 0
        /\ BookSize * (0 + 1) = 0 + BookSize /\ BookSize * (0 + 0) = 0 + 0
    BY FishAssumption
  <2> HIDE DEF L
  <2> QED BY <1>1, <2>1
<1>3. Fish!Copies(s, r) = Held(r, s.hands[1]) + Held(r, s.hands[2]) + Held(r, s.pond)
                          + BookSize * Cardinality(L)
  BY CountsAre, HeldIs DEF Fish!Copies, Fish!Seats
<1>4. /\ Own(s, 1, r) = Held(r, s.hands[1]) + b1 /\ Own(s, 2, r) = Held(r, s.hands[2]) + b2
      /\ b1 \in Nat /\ b2 \in Nat
  BY FishAssumption DEF Own
<1>5. Held(r, s.hands[1]) \in Nat /\ Held(r, s.hands[2]) \in Nat /\ Held(r, s.pond) \in Nat
  BY OwnIs
<1> HIDE DEF b1, b2, L
<1> QED BY <1>2, <1>3, <1>4, <1>5

\* The cards of a rank, as those of p, of the other player and of the pond
LEMMA OwnSum ==
  ASSUME NEW s, FishOK(s), NEW p \in 1..2, NEW r \in FishRanks
  PROVE  /\ Own(s, p, r) + Own(s, 3 - p, r) + Held(r, s.pond) = BookSize
         /\ Held(r, s.hands[p]) <= BookSize
         /\ r \in s.books[p] => Held(r, s.hands[p]) = 0
<1>1. /\ Own(s, 1, r) \in Nat /\ Own(s, 2, r) \in Nat /\ Held(r, s.pond) \in Nat
      /\ Held(r, s.hands[p]) \in Nat /\ Held(r, s.hands[p]) <= Own(s, p, r)
  BY OwnIs DEF FishOK
<1>2. Own(s, p, r) + Own(s, 3 - p, r) + Held(r, s.pond) = BookSize
  BY <1>1 DEF FishOK
<1>3. r \in s.books[p] => Own(s, p, r) = Held(r, s.hands[p]) + BookSize
  BY DEF Own
<1>4. 3 - p \in 1..2
  OBVIOUS
<1>5. Own(s, p, r) \in Nat /\ Own(s, 3 - p, r) \in Nat
  BY <1>4, OwnIs DEF FishOK
<1> DEFINE a == Own(s, p, r)
           b == Own(s, 3 - p, r)
           c == Held(r, s.pond)
           d == Held(r, s.hands[p])
<1> HIDE DEF a, b, c, d
<1>6. /\ a \in Nat /\ b \in Nat /\ c \in Nat /\ d \in Nat /\ d <= a /\ a + b + c = BookSize
      /\ r \in s.books[p] => a = d + BookSize
  BY <1>1, <1>2, <1>3, <1>5 DEF a, b, c, d
<1>7. d <= BookSize /\ (r \in s.books[p] => d = 0)
  BY <1>6, FishAssumption
<1> QED BY <1>2, <1>7 DEF d

\* The other way round: states whose cards add up for one player and the other
LEMMA OwnSumOK ==
  ASSUME NEW s \in FishStates, NEW p \in 1..2,
         \A r \in FishRanks : Own(s, p, r) + Own(s, 3 - p, r) + Held(r, s.pond) = BookSize
  PROVE  FishOK(s)
<1>1. \A r \in FishRanks : Own(s, 1, r) \in Nat /\ Own(s, 2, r) \in Nat /\ Held(r, s.pond) \in Nat
  BY OwnIs
<1>2. p = 1 \/ p = 2
  OBVIOUS
<1> QED BY <1>1, <1>2 DEF FishOK

\* The game ends and nothing else changes.
LEMMA EndedOK ==
  ASSUME NEW s, FishOK(s)
  PROVE  LET t == Fish!Ended(s)
         IN /\ FishOK(t) /\ t.hands = s.hands /\ t.books = s.books /\ t.pond = s.pond
            /\ t.turn = s.turn /\ t.asked = s.asked
            /\ t.phase = IF Fish!Over(s) THEN "gameOver" ELSE s.phase
BY DEF Fish!Ended, FishOK, FishStates, Own

\* A book laid down: all the cards of its rank, and never a second time.
LEMMA BookedOK ==
  ASSUME NEW s, FishOK(s), NEW p \in 1..2
  PROVE  LET t == Fish!Booked(s, p)
         IN /\ FishOK(t) /\ t.pond = s.pond /\ t.turn = s.turn /\ t.asked = s.asked
            /\ t.hands[3 - p] = s.hands[3 - p] /\ t.phase \in {s.phase, "gameOver"}
            /\ (\A r \in FishRanks : Held(r, s.hands[p]) < BookSize) => t = s
<1> DEFINE h == s.hands[p]
           new == {r \in FishRanks : Held(r, h) >= BookSize}
           books == [r \in new |-> Held(r, h)]
           rest == Fish!(-)(h, books)
           t == [s EXCEPT !.hands[p] = rest, !.books[p] = @ \cup new]
<1>1. Fish!Booked(s, p) = IF new = {} THEN s ELSE Fish!Ended(t)
  <2> DEFINE New == {r \in FishRanks : Fish!Held(r, h) >= BookSize}
             Books == [r \in New |-> Fish!Held(r, h)]
  <2>1. Fish!Booked(s, p) = IF New = {} THEN s
          ELSE Fish!Ended([s EXCEPT !.hands[p] = Fish!(-)(@, Books), !.books[p] = @ \cup New])
    BY DEF Fish!Booked
  <2>2. s.hands[p] = h
    OBVIOUS
  <2>3. New = new
    BY HeldIs
  <2>4. Books = books
    BY HeldIs
  <2> HIDE DEF New, Books, new, books
  <2> QED BY <2>1, <2>3, <2>4
<1>2. h \in FishBags /\ s \in FishStates /\ 3 - p \in 1..2 /\ 3 - p # p
  BY DEF FishOK, FishStates
<1>3. \A r \in new : Held(r, h) = BookSize /\ r \notin s.books[p]
  <2>1. SUFFICES ASSUME NEW r \in new PROVE Held(r, h) = BookSize /\ r \notin s.books[p]
    OBVIOUS
  <2>2. /\ Held(r, h) <= BookSize /\ Held(r, h) >= BookSize /\ Held(r, h) \in Nat
        /\ r \in s.books[p] => Held(r, h) = 0
    BY <1>2, OwnSum, BagIs
  <2> HIDE DEF h
  <2> QED BY <2>2, FishAssumption
<1>4. books \in FishBags /\ \A r : Held(r, books) = IF r \in new THEN BookSize ELSE 0
  <2>1. new \in SUBSET FishRanks /\ \A r \in new : Held(r, h) \in Nat \ {0}
    BY <1>3, FishAssumption
  <2>2. books \in [new -> Nat \ {0}]
    BY <2>1
  <2> HIDE DEF new, h
  <2>3. books \in FishBags
    BY <2>1, <2>2 DEF FishBags
  <2>4. \A r : Held(r, books) = IF r \in new THEN BookSize ELSE 0
    BY <1>3 DEF Held
  <2> QED BY <2>3, <2>4
<1>5. rest \in FishBags /\ \A r \in FishRanks : Held(r, rest) = IF r \in new THEN 0 ELSE Held(r, h)
  <2> HIDE DEF books, h
  <2>1. rest \in FishBags
        /\ \A r : Held(r, rest) = IF Held(r, h) > Held(r, books) THEN Held(r, h) - Held(r, books) ELSE 0
    BY <1>2, <1>4, MinusIs
  <2>2. \A r \in FishRanks : Held(r, h) \in Nat
    BY <1>2, BagIs
  <2> HIDE DEF rest, new
  <2>3. \A n \in Nat : (IF n > 0 THEN n - 0 ELSE 0) = n
    OBVIOUS
  <2>4. (IF BookSize > BookSize THEN BookSize - BookSize ELSE 0) = 0
    BY FishAssumption
  <2>5. ASSUME NEW r \in FishRanks PROVE Held(r, rest) = IF r \in new THEN 0 ELSE Held(r, h)
    BY <1>3, <1>4, <2>1, <2>2, <2>3, <2>4
  <2> QED BY <2>1, <2>5
<1> HIDE DEF rest, new, books
<1>6. new \in SUBSET FishRanks
  BY DEF new
<1>7. t \in FishStates
  <2>1. /\ [s.hands EXCEPT ![p] = rest] \in [1..2 -> FishBags]
        /\ [s.books EXCEPT ![p] = @ \cup new] \in [1..2 -> SUBSET FishRanks]
    BY <1>2, <1>5, <1>6 DEF FishStates
  <2>2. t = [s EXCEPT !.hands = [s.hands EXCEPT ![p] = rest],
                      !.books = [s.books EXCEPT ![p] = @ \cup new]]
    BY <1>2 DEF FishStates
  <2> QED BY <1>2, <2>1, <2>2 DEF FishStates
<1>8. /\ t.hands[p] = rest /\ t.books[p] = s.books[p] \cup new
      /\ t.hands[3 - p] = s.hands[3 - p] /\ t.books[3 - p] = s.books[3 - p]
      /\ t.pond = s.pond /\ t.turn = s.turn /\ t.asked = s.asked /\ t.phase = s.phase
  BY <1>2 DEF FishStates
<1> HIDE DEF t
<1>9. FishOK(t)
  <2>1. ASSUME NEW r \in FishRanks
        PROVE  Own(t, p, r) = Own(s, p, r) /\ Own(t, 3 - p, r) = Own(s, 3 - p, r)
    <3>1. Held(r, h) \in Nat
      BY <1>2, BagIs
    <3>2. Own(t, p, r) = Held(r, rest) + (IF r \in s.books[p] \cup new THEN BookSize ELSE 0)
      BY <1>8 DEF Own
    <3>3. Own(s, p, r) = Held(r, h) + (IF r \in s.books[p] THEN BookSize ELSE 0)
      BY DEF Own
    <3>4. 0 + BookSize = BookSize /\ BookSize + 0 = BookSize
      BY FishAssumption
    <3>5. ASSUME r \in new PROVE Own(t, p, r) = Own(s, p, r)
      <4>1. Held(r, h) = BookSize /\ r \notin s.books[p] /\ Held(r, rest) = 0
        BY <1>3, <1>5, <3>5
      <4>2. Own(t, p, r) = 0 + BookSize /\ Own(s, p, r) = BookSize + 0
        BY <3>2, <3>3, <3>5, <4>1
      <4> QED BY <3>4, <4>2
    <3>6. ASSUME r \notin new PROVE Own(t, p, r) = Own(s, p, r)
      <4>1. Held(r, rest) = Held(r, h)
        BY <1>5, <3>6
      <4> QED BY <3>2, <3>3, <3>6, <4>1
    <3>7. Own(t, p, r) = Own(s, p, r)
      BY <3>5, <3>6
    <3> QED BY <1>8, <3>7 DEF Own
  <2>2. \A r \in FishRanks : Own(s, p, r) + Own(s, 3 - p, r) + Held(r, s.pond) = BookSize
    BY OwnSum
  <2> QED BY <1>7, <1>8, <2>1, <2>2, OwnSumOK
<1>10. (\A r \in FishRanks : Held(r, s.hands[p]) < BookSize) => new = {}
  <2>1. \A r \in FishRanks : Held(r, h) \in Nat
    BY <1>2, BagIs
  <2>2. \A n \in Nat : n < BookSize => ~(n >= BookSize)
    BY FishAssumption
  <2> QED BY <2>1, <2>2 DEF new
<1>11. CASE new = {}
  BY <1>1, <1>11
<1>12. CASE new # {}
  BY <1>1, <1>8, <1>9, <1>10, <1>12, EndedOK
<1> QED BY <1>11, <1>12

\* A card drawn from the pond
LEMMA DrawnOK ==
  ASSUME NEW s, FishOK(s), NEW p \in 1..2, NEW d \in Fish!BagToSet(s.pond)
  PROVE  LET t == Fish!Drawn(s, p, d)
         IN /\ FishOK(t) /\ t.turn = s.turn /\ t.phase = s.phase /\ t.asked = s.asked
            /\ t.books = s.books /\ t.hands[3 - p] = s.hands[3 - p]
            /\ \A r : Held(r, t.hands[p]) = Held(r, s.hands[p]) + (IF r = d THEN 1 ELSE 0)
<1> DEFINE one == [x \in {d} |-> 1]
           h == Fish!(+)(s.hands[p], one)
           w == Fish!(-)(s.pond, one)
           t == [s EXCEPT !.hands[p] = h, !.pond = w]
<1>1. Fish!Drawn(s, p, d) = t
  BY DEF Fish!Drawn, Fish!One, Fish!SetToBag
<1>2. /\ s.hands[p] \in FishBags /\ s.pond \in FishBags /\ s \in FishStates /\ 3 - p \in 1..2
      /\ 3 - p # p
  BY DEF FishOK, FishStates
<1>3. d \in FishRanks /\ Held(d, s.pond) \in Nat \ {0}
  BY <1>2, BagIs DEF Fish!BagToSet
<1>4. one \in FishBags /\ \A r : Held(r, one) = IF r = d THEN 1 ELSE 0
  <2>1. 1 \in Nat \ {0}
    OBVIOUS
  <2> QED BY <1>3, <2>1, SomeIs
<1> HIDE DEF one
<1>5. h \in FishBags /\ \A r : Held(r, h) = Held(r, s.hands[p]) + (IF r = d THEN 1 ELSE 0)
  BY <1>2, <1>4, PlusIs
<1>6. w \in FishBags /\ \A r : Held(r, w) = Held(r, s.pond) - (IF r = d THEN 1 ELSE 0)
  <2>1. /\ w \in FishBags
        /\ \A r : Held(r, w) = IF Held(r, s.pond) > Held(r, one) THEN Held(r, s.pond) - Held(r, one) ELSE 0
    BY <1>2, <1>4, MinusIs
  <2>2. \A r : Held(r, s.pond) \in Nat
    BY <1>2, BagIs
  <2>3. /\ \A n \in Nat : (IF n > 0 THEN n - 0 ELSE 0) = n - 0
        /\ \A n \in Nat \ {0} : (IF n > 1 THEN n - 1 ELSE 0) = n - 1
    OBVIOUS
  <2> QED BY <1>3, <1>4, <2>1, <2>2, <2>3
<1> HIDE DEF h, w
<1>7. t \in FishStates
  <2>1. [s.hands EXCEPT ![p] = h] \in [1..2 -> FishBags]
    BY <1>2, <1>5 DEF FishStates
  <2>2. t = [s EXCEPT !.hands = [s.hands EXCEPT ![p] = h], !.pond = w]
    BY <1>2 DEF FishStates
  <2> QED BY <1>2, <1>6, <2>1, <2>2 DEF FishStates
<1>8. /\ t.hands[p] = h /\ t.hands[3 - p] = s.hands[3 - p] /\ t.books = s.books
      /\ t.pond = w /\ t.turn = s.turn /\ t.phase = s.phase /\ t.asked = s.asked
  BY <1>2 DEF FishStates
<1> HIDE DEF t
<1>9. FishOK(t)
  <2>1. ASSUME NEW r \in FishRanks
        PROVE  Own(t, p, r) + Own(t, 3 - p, r) + Held(r, t.pond) = BookSize
    <3> DEFINE e == IF r = d THEN 1 ELSE 0
               x == Held(r, s.hands[p])
               y == IF r \in s.books[p] THEN BookSize ELSE 0
               z == Own(s, 3 - p, r)
               v == Held(r, s.pond)
    <3>1. x \in Nat /\ z \in Nat /\ v \in Nat
      BY <1>2, OwnIs
    <3>2. e \in Nat /\ y \in Nat
      BY FishAssumption
    <3>3. (x + y) + z + v = BookSize
      BY OwnSum DEF Own
    <3>4. Own(t, p, r) = (x + e) + y /\ Own(t, 3 - p, r) = z /\ Held(r, t.pond) = v - e
      BY <1>5, <1>6, <1>8 DEF Own
    <3> HIDE DEF x, y, z, v, e
    <3>5. ((x + e) + y) + z + (v - e) = (x + y) + z + v
      BY <3>1, <3>2
    <3> QED BY <3>3, <3>4, <3>5
  <2> QED BY <1>7, <2>1, OwnSumOK
<1> QED BY <1>1, <1>5, <1>8, <1>9

\* The other player's cards of a rank taken over
LEMMA TransferredOK ==
  ASSUME NEW s, FishOK(s), NEW p \in 1..2, NEW d \in DOMAIN s.hands[3 - p]
  PROVE  LET t == Fish!Transferred(s, p, d)
         IN FishOK(t) /\ t.turn = s.turn /\ t.phase = s.phase /\ t.pond = s.pond
<1> DEFINE n == s.hands[3 - p][d]
           some == [x \in {d} |-> n]
           h == Fish!(+)(s.hands[p], some)
           g == Fish!(-)(s.hands[3 - p], some)
           t == [[s EXCEPT !.hands[p] = h] EXCEPT !.hands[3 - p] = g]
<1>1. /\ s.hands[p] \in FishBags /\ s.hands[3 - p] \in FishBags /\ s \in FishStates
      /\ 3 - p \in 1..2 /\ 3 - p # p /\ 3 - (3 - p) = p
  BY DEF FishOK, FishStates
<1>2. Fish!Transferred(s, p, d) = t
  BY <1>1 DEF Fish!Transferred, Fish!Opponent, FishStates
<1>3. d \in FishRanks /\ n \in Nat \ {0} /\ Held(d, s.hands[3 - p]) = n
  BY <1>1, BagIs DEF Held
<1> HIDE DEF n
<1>4. some \in FishBags /\ \A r : Held(r, some) = IF r = d THEN n ELSE 0
  BY <1>3, SomeIs
<1> HIDE DEF some
<1>5. h \in FishBags /\ \A r : Held(r, h) = Held(r, s.hands[p]) + (IF r = d THEN n ELSE 0)
  BY <1>1, <1>4, PlusIs
<1>6. g \in FishBags /\ \A r : Held(r, g) = Held(r, s.hands[3 - p]) - (IF r = d THEN n ELSE 0)
  <2>1. /\ g \in FishBags
        /\ \A r : Held(r, g) = IF Held(r, s.hands[3 - p]) > Held(r, some)
                               THEN Held(r, s.hands[3 - p]) - Held(r, some) ELSE 0
    BY <1>1, <1>4, MinusIs
  <2>2. \A r : Held(r, s.hands[3 - p]) \in Nat
    BY <1>1, BagIs
  <2>3. /\ \A m \in Nat : (IF m > 0 THEN m - 0 ELSE 0) = m - 0
        /\ \A m \in Nat : (IF m > m THEN m - m ELSE 0) = m - m
    OBVIOUS
  <2> QED BY <1>3, <1>4, <2>1, <2>2, <2>3
<1> HIDE DEF h, g
<1>7. t \in FishStates
  <2>1. /\ [s.hands EXCEPT ![p] = h] \in [1..2 -> FishBags]
        /\ [[s.hands EXCEPT ![p] = h] EXCEPT ![3 - p] = g] \in [1..2 -> FishBags]
    BY <1>1, <1>5, <1>6 DEF FishStates
  <2>2. t = [s EXCEPT !.hands = [[s.hands EXCEPT ![p] = h] EXCEPT ![3 - p] = g]]
    BY <1>1 DEF FishStates
  <2> QED BY <1>1, <2>1, <2>2 DEF FishStates
<1>8. /\ t.hands[p] = h /\ t.hands[3 - p] = g /\ t.books = s.books
      /\ t.pond = s.pond /\ t.turn = s.turn /\ t.phase = s.phase
  BY <1>1 DEF FishStates
<1> HIDE DEF t
<1>9. FishOK(t)
  <2>1. ASSUME NEW r \in FishRanks
        PROVE  Own(t, p, r) + Own(t, 3 - p, r) + Held(r, t.pond) = BookSize
    <3> DEFINE e == IF r = d THEN n ELSE 0
               x == Held(r, s.hands[p])
               y == IF r \in s.books[p] THEN BookSize ELSE 0
               z == Held(r, s.hands[3 - p])
               w == IF r \in s.books[3 - p] THEN BookSize ELSE 0
               v == Held(r, s.pond)
    <3>1. x \in Nat /\ z \in Nat /\ v \in Nat
      BY <1>1, OwnIs
    <3>2. e \in Nat /\ y \in Nat /\ w \in Nat
      BY <1>3, FishAssumption
    <3>3. (x + y) + (z + w) + v = BookSize
      BY OwnSum DEF Own
    <3>4. Own(t, p, r) = (x + e) + y /\ Own(t, 3 - p, r) = (z - e) + w /\ Held(r, t.pond) = v
      BY <1>5, <1>6, <1>8 DEF Own
    <3> HIDE DEF x, y, z, w, v, e
    <3>5. ((x + e) + y) + ((z - e) + w) + v = (x + y) + (z + w) + v
      BY <3>1, <3>2
    <3> QED BY <3>3, <3>4, <3>5
  <2> QED BY <1>7, <2>1, OwnSumOK
<1> QED BY <1>2, <1>8, <1>9

\* An empty hand has a card again, unless the pond is empty or the game over.
LEMMA RefilledOK ==
  ASSUME NEW s, FishOK(s), NEW p \in 1..2, NEW t \in Fish!Refilled(s, p)
  PROVE  /\ FishOK(t) /\ t.turn = s.turn /\ t.phase \in {s.phase, "gameOver"}
         /\ t.hands[3 - p] = s.hands[3 - p]
         /\ t.hands[p] = Fish!EmptyBag => t.pond = Fish!EmptyBag \/ t.phase = "gameOver"
<1>1. CASE t = s /\ ~(s.hands[p] = Fish!EmptyBag /\ s.pond # Fish!EmptyBag /\ s.phase # "gameOver")
  BY <1>1
<1>2. CASE /\ s.hands[p] = Fish!EmptyBag
           /\ \E d \in Fish!BagToSet(s.pond) : t = Fish!Booked(Fish!Drawn(s, p, d), p)
  <2>1. PICK d \in Fish!BagToSet(s.pond) : t = Fish!Booked(Fish!Drawn(s, p, d), p)
    BY <1>2
  <2> DEFINE u == Fish!Drawn(s, p, d)
  <2>2. /\ FishOK(u) /\ u.turn = s.turn /\ u.phase = s.phase /\ u.hands[3 - p] = s.hands[3 - p]
        /\ \A r : Held(r, u.hands[p]) = Held(r, s.hands[p]) + (IF r = d THEN 1 ELSE 0)
    BY DrawnOK
  <2>3. \A r : Held(r, s.hands[p]) = 0
    BY <1>2, BagIs DEF FishOK, FishStates, Held
  <2> HIDE DEF u
  <2>4. \A r : Held(r, u.hands[p]) = IF r = d THEN 1 ELSE 0
    BY <2>2, <2>3
  <2>5. \A r \in FishRanks : Held(r, u.hands[p]) < BookSize
    BY <2>4, FishAssumption
  <2>6. t = u
    BY <2>1, <2>2, <2>5, BookedOK DEF u
  <2>7. u.hands[p] # Fish!EmptyBag
    <3>1. u.hands[p] \in FishBags /\ Held(d, u.hands[p]) # 0
      BY <2>2, <2>4 DEF FishOK, FishStates
    <3> QED BY <3>1, BagIs
  <2> QED BY <2>2, <2>6, <2>7
<1> QED BY <1>1, <1>2 DEF Fish!Refilled

\* Whoever has the turn has a card to ask for.
CanAsk(s) == s.phase = "playing" => s.hands[s.turn] # Fish!EmptyBag

\* ... or the game is over.
LEMMA EndedCanAsk ==
  ASSUME NEW s, FishOK(s),
         s.hands[s.turn] = Fish!EmptyBag => s.pond = Fish!EmptyBag \/ s.phase = "gameOver"
  PROVE  FishOK(Fish!Ended(s)) /\ CanAsk(Fish!Ended(s))
<1>1. s.turn \in 1..2
  BY DEF FishOK, FishStates
<1>2. s.pond = Fish!EmptyBag /\ s.hands[s.turn] = Fish!EmptyBag => Fish!Over(s)
  BY <1>1 DEF Fish!Over, Fish!Seats
<1> QED BY <1>2, EndedOK DEF CanAsk

\* A change of turn or phase leaves the cards.
LEMMA SameCardsOK ==
  ASSUME NEW s, FishOK(s), NEW t \in FishStates,
         t.hands = s.hands, t.books = s.books, t.pond = s.pond
  PROVE  FishOK(t)
BY DEF FishOK, Own

\* After a transfer the turn goes on, or passes from an empty hand (gf_ask_rank).
LEMMA PassedOnOK ==
  ASSUME NEW s, FishOK(s), NEW p \in 1..2, s.turn = p, NEW t \in Fish!PassedOn(s, p)
  PROVE  FishOK(t) /\ (t.hands[t.turn] = Fish!EmptyBag => t.pond = Fish!EmptyBag \/ t.phase = "gameOver")
<1>1. CASE ~(s.phase # "gameOver" /\ s.hands[p] = Fish!EmptyBag)
  BY <1>1 DEF Fish!PassedOn
<1>2. CASE s.phase # "gameOver" /\ s.hands[p] = Fish!EmptyBag
  <2> DEFINE u == [s EXCEPT !.turn = 3 - p]
  <2>1. 3 - p \in 1..2 /\ s \in FishStates
    BY DEF FishOK
  <2>2. u \in FishStates /\ u.hands = s.hands /\ u.books = s.books /\ u.pond = s.pond /\ u.turn = 3 - p
    BY <2>1 DEF FishStates
  <2>3. FishOK(u)
    BY <2>2, SameCardsOK
  <2>4. t \in Fish!Refilled(u, 3 - p)
    BY <1>2 DEF Fish!PassedOn, Fish!Other
  <2> HIDE DEF u
  <2> QED BY <2>1, <2>2, <2>3, <2>4, RefilledOK
<1> QED BY <1>1, <1>2

\* A rank asked for, had or not, keeps the cards.
LEMMA AskRankOK ==
  ASSUME NEW s, FishOK(s), NEW p \in 1..2, NEW r, NEW t \in Fish!AskRank(s, p, r)
  PROVE  FishOK(t) /\ CanAsk(t)
<1>1. s.phase = "playing" /\ s.turn = p /\ r \in DOMAIN s.hands[p] /\ s \in FishStates /\ 3 - p \in 1..2
  BY DEF Fish!AskRank, Fish!BagIn, Fish!BagToSet, FishOK
<1>2. r \in FishRanks
  BY <1>1, BagIs DEF FishStates
<1>3. CASE r \notin DOMAIN s.hands[3 - p]
  <2>1. t = [s EXCEPT !.phase = "goFish", !.asked = r]
    BY <1>1, <1>3 DEF Fish!AskRank, Fish!BagIn, Fish!BagToSet, Fish!Other
  <2>2. t \in FishStates /\ t.hands = s.hands /\ t.books = s.books /\ t.pond = s.pond /\ t.phase = "goFish"
    BY <1>1, <1>2, <2>1 DEF FishStates
  <2> QED BY <2>2, SameCardsOK DEF CanAsk
<1>4. CASE r \in DOMAIN s.hands[3 - p]
  <2> DEFINE s0 == [s EXCEPT !.asked = 0]
             s1 == Fish!Transferred(s0, p, r)
             s2 == Fish!Booked(s1, p)
  <2>1. /\ s0 \in FishStates /\ s0.hands = s.hands /\ s0.books = s.books /\ s0.pond = s.pond
        /\ s0.turn = p
    BY <1>1 DEF FishStates
  <2>2. FishOK(s0) /\ r \in DOMAIN s0.hands[3 - p]
    BY <1>4, <2>1, SameCardsOK
  <2>3. PICK u \in Fish!Refilled(s2, p) : \E v \in Fish!PassedOn(u, p) : t = Fish!Ended(v)
    BY <1>1, <1>4 DEF Fish!AskRank, Fish!BagIn, Fish!BagToSet, Fish!Other
  <2> HIDE DEF s0
  <2>4. FishOK(s1) /\ s1.turn = p
    BY <2>1, <2>2, TransferredOK
  <2> HIDE DEF s1
  <2>5. FishOK(s2) /\ s2.turn = p
    BY <2>4, BookedOK
  <2> HIDE DEF s2
  <2>6. FishOK(u) /\ u.turn = p
    BY <2>5, RefilledOK
  <2>7. PICK v \in Fish!PassedOn(u, p) : t = Fish!Ended(v)
    BY <2>3
  <2>8. FishOK(v) /\ (v.hands[v.turn] = Fish!EmptyBag => v.pond = Fish!EmptyBag \/ v.phase = "gameOver")
    BY <2>6, PassedOnOK
  <2> QED BY <2>7, <2>8, EndedCanAsk
<1> QED BY <1>3, <1>4

\* A card fished keeps the cards, whatever it is (gf_go_fish).
LEMMA GoFishingOK ==
  ASSUME NEW s, FishOK(s), NEW p \in 1..2, NEW t \in Fish!GoFishing(s, p)
  PROVE  FishOK(t) /\ CanAsk(t)
<1>1. s.phase = "goFish" /\ s.turn = p /\ s \in FishStates /\ 3 - p \in 1..2
  <2>1. s.phase # "goFish" \/ s.turn # p => Fish!GoFishing(s, p) = {}
    BY DEF Fish!GoFishing
  <2> QED BY <2>1 DEF FishOK
<1>2. CASE s.pond = Fish!EmptyBag /\ Fish!Over(s)
  <2>1. t = Fish!Ended(s)
    BY <1>1, <1>2 DEF Fish!GoFishing
  <2> QED BY <1>2, <2>1, EndedCanAsk
<1>3. CASE s.pond = Fish!EmptyBag /\ ~Fish!Over(s)
  <2>1. t = [s EXCEPT !.phase = "playing", !.turn = 3 - p, !.asked = 0]
    BY <1>1, <1>3 DEF Fish!GoFishing, Fish!Other
  <2>2. /\ t \in FishStates /\ t.hands = s.hands /\ t.books = s.books /\ t.pond = s.pond
        /\ t.turn = 3 - p
    BY <1>1, <2>1 DEF FishStates
  <2>3. s.hands[3 - p] # Fish!EmptyBag
    BY <1>1, <1>3 DEF Fish!Over, Fish!Seats
  <2> QED BY <2>2, <2>3, SameCardsOK DEF CanAsk
<1>4. CASE s.pond # Fish!EmptyBag
  <2> DEFINE s0 == [s EXCEPT !.asked = 0]
  <2>1. PICK d \in Fish!BagToSet(s.pond) : t \in Fish!Fished(s, p, d)
    BY <1>1, <1>4 DEF Fish!GoFishing
  <2>2. s0 \in FishStates /\ s0.hands = s.hands /\ s0.books = s.books /\ s0.pond = s.pond
    BY <1>1 DEF FishStates
  <2>3. FishOK(s0) /\ d \in Fish!BagToSet(s0.pond)
    BY <2>2, SameCardsOK
  <2> DEFINE s1 == Fish!Drawn(s0, p, d)
             v == Fish!Booked(s1, p)
             next == IF d = s.asked THEN p ELSE 3 - p
             w == [v EXCEPT !.phase = "playing", !.turn = next]
  <2>4. t \in IF v.phase = "gameOver" THEN {v} ELSE {Fish!Ended(u) : u \in Fish!Refilled(w, next)}
    BY <2>1 DEF Fish!Fished, Fish!Other
  <2> HIDE DEF s0
  <2>5. FishOK(s1)
    BY <2>3, DrawnOK
  <2> HIDE DEF s1
  <2>6. FishOK(v)
    BY <2>5, BookedOK
  <2> HIDE DEF v
  <2>7. next \in 1..2
    BY <1>1
  <2> HIDE DEF next
  <2>8. CASE v.phase = "gameOver"
    BY <2>4, <2>6, <2>8 DEF CanAsk
  <2>9. CASE v.phase # "gameOver"
    <3>1. /\ w \in FishStates /\ w.hands = v.hands /\ w.books = v.books /\ w.pond = v.pond
          /\ w.turn = next
      BY <2>6, <2>7 DEF FishOK, FishStates
    <3>2. FishOK(w)
      BY <2>6, <3>1, SameCardsOK
    <3>3. PICK u \in Fish!Refilled(w, next) : t = Fish!Ended(u)
      BY <2>4, <2>9
    <3> HIDE DEF w
    <3>4. /\ FishOK(u) /\ u.turn = next
          /\ u.hands[next] = Fish!EmptyBag => u.pond = Fish!EmptyBag \/ u.phase = "gameOver"
      BY <2>7, <3>1, <3>2, RefilledOK
    <3> QED BY <3>3, <3>4, EndedCanAsk
  <2> QED BY <2>8, <2>9
<1> QED BY <1>2, <1>3, <1>4

\* The guest's page asks and fishes, and sends nothing else.
FishClicks ==
  \E S : (\A m \in S : m.type \in {"gf_ask_rank", "gf_go_fish"}) /\ toHost \in Seq(S)

\* Both the game and the copy the handlers read keep the cards, and in both
\* whoever has the turn can ask.
FishInv ==
  /\ FishPage /\ FishClicks
  /\ FishOK(host.now) /\ CanAsk(host.now)
  /\ FishOK(host.ref) /\ CanAsk(host.ref)

\* Whatever a player does, on the state or on an older copy of it
LEMMA OutcomesOK ==
  ASSUME NEW s, FishOK(s), NEW p \in 1..2, NEW msg, msg.type \in {"gf_ask_rank", "gf_go_fish"},
         NEW t \in Fish!Outcomes(s, p, msg)
  PROVE  FishOK(t) /\ CanAsk(t)
<1>1. CASE msg.type = "gf_ask_rank"
  <2>1. t \in Fish!AskRank(s, p, msg.rank)
    BY <1>1 DEF Fish!Outcomes
  <2> QED BY <2>1, AskRankOK
<1>2. CASE msg.type = "gf_go_fish"
  <2>1. t \in Fish!GoFishing(s, p)
    BY <1>2 DEF Fish!Outcomes
  <2> QED BY <2>1, GoFishingOK
<1> QED BY <1>1, <1>2

\* A click of the guest on its way
LEMMA FishClickKept ==
  ASSUME FishClicks, NEW msg, msg.type \in {"gf_ask_rank", "gf_go_fish"}, Fish!Click(msg)
  PROVE  FishClicks'
<1>1. PICK S : (\A m \in S : m.type \in {"gf_ask_rank", "gf_go_fish"}) /\ toHost \in Seq(S)
  BY DEF FishClicks
<1>2. toHost \in Seq(S \cup {msg})
  BY <1>1, SeqMonotonic
<1>3. toHost' \in Seq(S \cup {msg})
  BY <1>2, ClicksTravel DEF Fish!Click, Speed!Click
<1> QED BY <1>1, <1>3 DEF FishClicks

\* A step keeps the inductive invariant of Go Fish.
LEMMA FishStep ==
  ASSUME FishInv, Fish!Next PROVE FishInv'
<1>1. CASE Fish!HostPlays
  <2>1. PICK msg \in Fish!Choices(host.now, 1, host.now.hands[1]) :
          \E s \in Fish!Outcomes(host.ref, 1, msg) : host' = [now |-> s, ref |-> s]
    BY <1>1 DEF Fish!HostPlays, Fish!Becomes, Fish!Host
  <2>2. msg.type \in {"gf_ask_rank", "gf_go_fish"}
    BY <2>1 DEF Fish!Choices
  <2>3. PICK s \in Fish!Outcomes(host.ref, 1, msg) : host' = [now |-> s, ref |-> s]
    BY <2>1
  <2>4. FishOK(s) /\ CanAsk(s)
    BY <2>2, <2>3, OutcomesOK DEF FishInv
  <2>5. host'.now = s /\ host'.ref = s /\ toHost' = toHost /\ FishPage'
    BY <1>1, <2>3 DEF Fish!HostPlays, FishPage
  <2> QED BY <2>4, <2>5 DEF FishInv, FishClicks
<1>2. CASE Fish!GuestClicks
  <2>1. PICK msg \in Fish!Choices(view, 2, view.hand) : Fish!Click(msg)
    BY <1>2 DEF Fish!GuestClicks, Fish!Guest
  <2>2. msg.type \in {"gf_ask_rank", "gf_go_fish"}
    BY <2>1 DEF Fish!Choices
  <2>3. FishClicks' /\ host' = host
    BY <2>1, <2>2, FishClickKept DEF FishInv, Fish!Click
  <2> QED BY <2>3 DEF FishInv, FishPage
<1>3. CASE Fish!HostTakes
  <2>1. PICK S : (\A m \in S : m.type \in {"gf_ask_rank", "gf_go_fish"}) /\ toHost \in Seq(S)
    BY DEF FishInv, FishClicks
  <2>2. toHost' \in Seq(S) /\ Head(toHost) \in S
    BY <1>3, <2>1, ClicksTravel DEF Fish!HostTakes, Fish!Take, Speed!Take
  <2>3. FishClicks'
    BY <2>1, <2>2 DEF FishClicks
  <2>4. CASE host' = host
    BY <2>3, <2>4 DEF FishInv, FishPage
  <2>5. CASE \E s \in Fish!Outcomes(host.ref, 2, Head(toHost)) : host' = [now |-> s, ref |-> host.ref]
    <3>1. PICK s \in Fish!Outcomes(host.ref, 2, Head(toHost)) : host' = [now |-> s, ref |-> host.ref]
      BY <2>5
    <3>2. FishOK(s) /\ CanAsk(s)
      BY <2>1, <2>2, <3>1, OutcomesOK DEF FishInv
    <3>3. host'.now = s /\ host'.ref = host.ref /\ FishPage'
      BY <3>1 DEF FishPage
    <3> QED BY <2>3, <3>2, <3>3 DEF FishInv
  <2> QED BY <1>3, <2>4, <2>5 DEF Fish!HostTakes, Fish!Becomes, Fish!Guest
<1>4. CASE Fish!Commit
  <2>1. host' = [host EXCEPT !.ref = host.now] /\ toHost' = toHost
    BY <1>4 DEF Fish!Commit, Fish!net
  <2>2. host' = [now |-> host.now, ref |-> host.now]
    BY <2>1 DEF FishInv, FishPage
  <2>3. host'.now = host.now /\ host'.ref = host.now /\ FishPage'
    BY <2>2 DEF FishPage
  <2> QED BY <2>1, <2>3 DEF FishInv, FishClicks
<1>5. CASE Fish!Transport
  <2>1. PICK S : (\A m \in S : m.type \in {"gf_ask_rank", "gf_go_fish"}) /\ toHost \in Seq(S)
    BY DEF FishInv, FishClicks
  <2>2. Speed!Transport /\ host' = host
    BY <1>5 DEF Fish!Transport, Fish!GuestReceives, Fish!LoseViews, Fish!LoseClicks,
                Speed!Transport, Speed!GuestReceives, Speed!LoseViews, Speed!LoseClicks
  <2>3. FishClicks'
    BY <2>1, <2>2, ClicksTravel DEF FishClicks
  <2> QED BY <2>2, <2>3 DEF FishInv, FishPage
<1> QED BY <1>1, <1>2, <1>3, <1>4, <1>5 DEF Fish!Next

\* A hand of cards that are none has none.
LEMMA NoCards == Fish!BagCardinality(Fish!EmptyBag) = 0
<1> DEFINE E == [e \in {} |-> 1]
           P(g) == g = [S \in SUBSET {} |-> LET elt == CHOOSE e \in S : TRUE
                                            IN IF S = {} THEN 0 ELSE E[elt] + g[S \ {elt}]]
<1>1. Fish!BagCardinality(Fish!EmptyBag) = (CHOOSE g : P(g))[{}]
  BY DEF Fish!BagCardinality, Fish!EmptyBag, Fish!SetToBag
<1>2. P([S \in SUBSET {} |-> 0])
  OBVIOUS
<1>3. P(CHOOSE g : P(g))
  BY <1>2
<1> QED BY <1>1, <1>3

\* The deal has every card, and the host can ask.
LEMMA FishInit == Fish!Init => FishInv
<1> SUFFICES ASSUME Fish!Init PROVE FishInv
  OBVIOUS
<1>1. PICK s \in Fish!Dealt(FishHand, "playing") :
        host = [now |-> s, ref |-> s] /\ toHost = <<>>
  BY DEF Fish!Init, Fish!Drawing, Fish!NetInit
<1> DEFINE all == [r \in FishRanks |-> BookSize]
<1>2. PICK h \in Fish!Hands(FishHand) \X Fish!Hands(FishHand) :
        /\ \A r \in FishRanks : Held(r, h[1]) + Held(r, h[2]) <= BookSize
        /\ s = [hands |-> h, books |-> <<{}, {}>>, phase |-> "playing", turn |-> 1, asked |-> 0,
                pond |-> Fish!(-)(Fish!(-)(all, h[1]), h[2])]
  BY HeldIs DEF Fish!Dealt
<1>3. \A b \in Fish!Hands(FishHand) : b \in FishBags /\ b # Fish!EmptyBag
  <2>1. SUFFICES ASSUME NEW b \in Fish!Hands(FishHand) PROVE b \in FishBags /\ b # Fish!EmptyBag
    OBVIOUS
  <2>2. PICK c \in [FishRanks -> 0..BookSize] :
          b = [r \in {x \in FishRanks : c[x] > 0} |-> c[r]]
    BY DEF Fish!Hands
  <2>3. Fish!BagCardinality(b) = FishHand
    BY DEF Fish!Hands
  <2> DEFINE D == {x \in FishRanks : c[x] > 0}
  <2>4. D \in SUBSET FishRanks /\ \A r \in D : c[r] \in Nat \ {0}
    BY <2>2, FishAssumption
  <2>5. b \in [D -> Nat \ {0}]
    BY <2>2, <2>4
  <2> QED BY <2>3, <2>4, <2>5, NoCards, FishAssumption DEF FishBags
<1>4. all \in FishBags /\ \A r \in FishRanks : Held(r, all) = BookSize
  <2>1. all \in [FishRanks -> Nat \ {0}] /\ FishRanks \in SUBSET FishRanks
    BY FishAssumption
  <2> QED BY <2>1 DEF FishBags, Held
<1> HIDE DEF all
<1> DEFINE h1 == h[1]
           h2 == h[2]
           w1 == Fish!(-)(all, h1)
           w2 == Fish!(-)(w1, h2)
<1>5. h1 \in FishBags /\ h2 \in FishBags /\ h1 # Fish!EmptyBag /\ h = <<h1, h2>>
  BY <1>3
<1>6. s = [hands |-> <<h1, h2>>, books |-> <<{}, {}>>, phase |-> "playing", turn |-> 1, asked |-> 0,
           pond |-> w2]
  BY <1>2, <1>5
<1>7. \A r \in FishRanks : Held(r, h1) + Held(r, h2) <= BookSize
  BY <1>2
<1> HIDE DEF h1, h2
<1>8. w1 \in FishBags
      /\ \A r : Held(r, w1) = IF Held(r, all) > Held(r, h1) THEN Held(r, all) - Held(r, h1) ELSE 0
  BY <1>4, <1>5, MinusIs
<1> HIDE DEF w1
<1>9. w2 \in FishBags
      /\ \A r : Held(r, w2) = IF Held(r, w1) > Held(r, h2) THEN Held(r, w1) - Held(r, h2) ELSE 0
  BY <1>5, <1>8, MinusIs
<1> HIDE DEF w2
<1>10. \A r \in FishRanks : Held(r, h1) + Held(r, h2) + Held(r, w2) = BookSize
  <2>1. SUFFICES ASSUME NEW r \in FishRanks
                 PROVE  Held(r, h1) + Held(r, h2) + Held(r, w2) = BookSize
    OBVIOUS
  <2> DEFINE a == Held(r, h1)
             b == Held(r, h2)
             u == Held(r, w1)
             v == Held(r, w2)
  <2>2. a \in Nat /\ b \in Nat /\ u \in Nat /\ v \in Nat
    BY <1>5, <1>8, <1>9, BagIs
  <2>3. a + b <= BookSize /\ u = (IF BookSize > a THEN BookSize - a ELSE 0)
        /\ v = IF u > b THEN u - b ELSE 0
    BY <1>4, <1>7, <1>8, <1>9
  <2> HIDE DEF a, b, u, v
  <2>4. a + b + v = BookSize
    BY <2>2, <2>3, FishAssumption
  <2> QED BY <2>4 DEF a, b, v
<1>11. s \in FishStates
  BY <1>5, <1>6, <1>9 DEF FishStates
<1>12. FishOK(s)
  <2>1. ASSUME NEW r \in FishRanks
        PROVE  Own(s, 1, r) + Own(s, 2, r) + Held(r, s.pond) = BookSize
    <3>1. Held(r, h1) \in Nat /\ Held(r, h2) \in Nat
      BY <1>5, BagIs
    <3>2. Own(s, 1, r) = Held(r, h1) + 0 /\ Own(s, 2, r) = Held(r, h2) + 0 /\ Held(r, s.pond) = Held(r, w2)
      BY <1>6 DEF Own
    <3> QED BY <1>10, <3>1, <3>2
  <2> QED BY <1>11, <2>1 DEF FishOK
<1>13. CanAsk(s)
  BY <1>5, <1>6 DEF CanAsk
<1>14. host.now = s /\ host.ref = s /\ FishPage
  BY <1>1 DEF FishPage
<1>15. FishClicks
  <2>1. toHost \in Seq({})
    BY <1>1, EmptySeq
  <2> QED BY <2>1 DEF FishClicks
<1> QED BY <1>12, <1>13, <1>14, <1>15 DEF FishInv

\* What the inductive invariant is for
LEMMA FishKept == FishInv => Fish!CardsKept /\ Fish!NeverStuck
<1>1. FishInv => Fish!NeverStuck
  BY DEF FishInv, CanAsk, Fish!NeverStuck
<1>2. ASSUME FishInv, NEW r \in FishRanks PROVE Fish!Copies(host.now, r) = BookSize
  BY <1>2, CopiesAre DEF FishInv, FishOK
<1> QED BY <1>1, <1>2 DEF Fish!CardsKept
-----------------------------------------------------------------------------
(* Sums over the seats. A sum is counted as coins: a pair of a seat and a   *)
(* number below what it has for every one.                                  *)

\* A set of numbers has a least one.
LEMMA LeastExists ==
  ASSUME NEW T, T \subseteq Nat, T # {}
  PROVE  \E v \in T : \A w \in T : v <= w
<1> DEFINE R == {ss \in Nat \X Nat : ss[1] < ss[2]}
<1>1. IsWellFoundedOn(R, Nat)
  BY NatLessThanWellFounded DEF OpToRel
<1> HIDE DEF R
<1>2. PICK x \in T : \A y \in T : ~(<<y, x>> \in R)
  BY <1>1, WFMin
<1>3. \A y \in T : y < x => <<y, x>> \in R
  BY DEF R
<1>4. \A y \in T : ~(y < x)
  BY <1>2, <1>3
<1> QED BY <1>4

\* What holds of no elements and of one more holds of a finite set.
LEMMA OneByOne ==
  ASSUME NEW S, IsFiniteSet(S), NEW C, {} \in C,
         \A T \in SUBSET S, x \in S : T \in C /\ x \notin T => T \cup {x} \in C
  PROVE  S \in C
<1> DEFINE K == {Cardinality(T) : T \in {U \in SUBSET S : U \notin C}}
<1>1. SUFFICES ASSUME S \notin C PROVE FALSE
  OBVIOUS
<1>2. K \subseteq Nat /\ K # {}
  BY <1>1, FS_Subset, FS_CardinalityType
<1> HIDE DEF K
<1>3. PICK v \in K : \A w \in K : v <= w
  BY <1>2, LeastExists
<1>4. PICK T \in SUBSET S : T \notin C /\ v = Cardinality(T)
  BY DEF K
<1>5. PICK x \in T : TRUE
  BY <1>4
<1>6. IsFiniteSet(T) /\ Cardinality(T \ {x}) = Cardinality(T) - 1 /\ Cardinality(T) \in Nat
  BY FS_Subset, FS_RemoveElement, FS_CardinalityType
<1>7. T \ {x} \in C
  <2>1. SUFFICES ASSUME T \ {x} \notin C PROVE FALSE
    OBVIOUS
  <2>2. Cardinality(T \ {x}) \in K
    BY <2>1 DEF K
  <2> QED BY <1>3, <1>4, <1>6, <2>2
<1>8. T = (T \ {x}) \cup {x} /\ x \in S /\ x \notin T \ {x}
  OBVIOUS
<1> QED BY <1>4, <1>7, <1>8

Coins(f, T) == {c \in T \X Nat : c[2] < f[c[1]]}
Worth(f, T) == Cardinality(Coins(f, T))

\* The coins of one seat
LEMMA OneStack ==
  ASSUME NEW x, NEW n \in Nat
  PROVE  LET A == {c \in {x} \X Nat : c[2] < n} IN IsFiniteSet(A) /\ Cardinality(A) = n
<1> DEFINE A == {c \in {x} \X Nat : c[2] < n}
           g == [i \in 1..n |-> <<x, i - 1>>]
<1>1. g \in Bijection(1..n, A)
  <2>1. \A i \in 1..n : g[i] \in A
    OBVIOUS
  <2>2. \A i, j \in 1..n : g[i] = g[j] => i = j
    OBVIOUS
  <2>3. \A c \in A : \E i \in 1..n : g[i] = c
    <3>1. SUFFICES ASSUME NEW c \in A PROVE \E i \in 1..n : g[i] = c
      OBVIOUS
    <3>2. c = <<x, c[2]>> /\ c[2] \in Nat /\ c[2] < n
      OBVIOUS
    <3>3. c[2] + 1 \in 1..n /\ (c[2] + 1) - 1 = c[2]
      BY <3>2
    <3> QED BY <3>2, <3>3
  <2> QED BY <2>1, <2>2, <2>3 DEF Bijection, Injection, Surjection, IsInjective
<1>2. ExistsBijection(1..n, A)
  BY <1>1 DEF ExistsBijection
<1>3. IsFiniteSet(1..n) /\ Cardinality(1..n) = n
  BY FS_Interval
<1> QED BY <1>2, <1>3, FS_Bijection

\* One seat more adds what it has.
LEMMA WorthAdds ==
  ASSUME NEW f, NEW T, NEW x, x \notin T, f[x] \in Nat, IsFiniteSet(Coins(f, T))
  PROVE  /\ IsFiniteSet(Coins(f, T \cup {x}))
         /\ Worth(f, T \cup {x}) = f[x] + Worth(f, T)
<1> DEFINE A == {c \in {x} \X Nat : c[2] < f[x]}
<1>1. Coins(f, T \cup {x}) = Coins(f, T) \cup A /\ Coins(f, T) \cap A = {}
  BY DEF Coins
<1>2. IsFiniteSet(A) /\ Cardinality(A) = f[x]
  BY OneStack
<1> HIDE DEF A
<1> DEFINE B == Coins(f, T)
<1> HIDE DEF B
<1>3. IsFiniteSet(B) /\ Cardinality(B) \in Nat /\ Cardinality(B \cap A) = 0
  BY <1>1, FS_CardinalityType, FS_EmptySet DEF B
<1>4. IsFiniteSet(B \cup A) /\ Cardinality(B \cup A) = Cardinality(B) + Cardinality(A) - Cardinality(B \cap A)
  BY <1>2, <1>3, FS_Union
<1>5. Cardinality(B \cup A) = f[x] + Cardinality(B)
  BY <1>2, <1>3, <1>4
<1> QED BY <1>1, <1>4, <1>5 DEF Worth, B

\* No seats have nothing.
LEMMA WorthNone == ASSUME NEW f PROVE IsFiniteSet(Coins(f, {})) /\ Worth(f, {}) = 0
<1>1. Coins(f, {}) = {}
  BY DEF Coins
<1> QED BY <1>1, FS_EmptySet DEF Worth

\* The coins of finitely many seats can be counted.
LEMMA WorthIs ==
  ASSUME NEW S, IsFiniteSet(S), NEW f, \A x \in S : f[x] \in Nat
  PROVE  IsFiniteSet(Coins(f, S)) /\ Worth(f, S) \in Nat
<1> DEFINE C == {T \in SUBSET S : IsFiniteSet(Coins(f, T))}
<1>1. {} \in C
  BY WorthNone
<1>2. \A T \in SUBSET S, x \in S : T \in C /\ x \notin T => T \cup {x} \in C
  BY WorthAdds
<1> HIDE DEF C
<1>3. S \in C
  BY <1>1, <1>2, OneByOne
<1> QED BY <1>3, FS_CardinalityType DEF C, Worth

\* What TexasHoldem adds up
LEMMA TotalIs ==
  ASSUME IsFiniteSet(Holdem!Seats), NEW f, \A p \in Holdem!Seats : f[p] \in Nat
  PROVE  Holdem!Total(f) = Worth(f, Holdem!Seats)
<1> DEFINE S == Holdem!Seats
           P(g) == g = [s \in SUBSET S |->
                 IF s = {} THEN 0 ELSE LET x == CHOOSE x \in s : TRUE IN f[x] + g[s \ {x}]]
           G == CHOOSE g : P(g)
           W == [s \in SUBSET S |-> Worth(f, s)]
<1>1. Holdem!Total(f) = G[S]
  BY DEF Holdem!Total, Holdem!MapThenSumSet, Holdem!MapThenFoldSet
<1> HIDE DEF S
<1>2. ASSUME NEW s \in SUBSET S, NEW x \in s
      PROVE  Worth(f, s) = f[x] + Worth(f, s \ {x})
  <2>1. IsFiniteSet(s \ {x}) /\ \A y \in s \ {x} : f[y] \in Nat
    BY FS_Subset DEF S
  <2>2. IsFiniteSet(Coins(f, s \ {x})) /\ f[x] \in Nat /\ x \notin s \ {x}
    BY <2>1, WorthIs DEF S
  <2>3. (s \ {x}) \cup {x} = s
    OBVIOUS
  <2> QED BY <2>2, <2>3, WorthAdds
<1>3. P(W)
  <2>1. ASSUME NEW s \in SUBSET S
        PROVE  W[s] = IF s = {} THEN 0 ELSE LET x == CHOOSE x \in s : TRUE IN f[x] + W[s \ {x}]
    <3>1. CASE s = {}
      BY <3>1, WorthNone
    <3>2. CASE s # {}
      <4> DEFINE x == CHOOSE x \in s : TRUE
      <4>1. x \in s
        BY <3>2
      <4> HIDE DEF x
      <4>2. W[s] = f[x] + W[s \ {x}]
        BY <1>2, <4>1
      <4> QED BY <3>2, <4>2 DEF x
    <3> QED BY <3>1, <3>2
  <2> QED BY <2>1
<1> HIDE DEF W
<1>4. P(G)
  BY <1>3
<1> HIDE DEF G
<1>5. \A s \in SUBSET S :
        G[s] = IF s = {} THEN 0 ELSE LET x == CHOOSE x \in s : TRUE IN f[x] + G[s \ {x}]
  BY <1>4
<1> DEFINE Bad == {s \in SUBSET S : G[s] # Worth(f, s)}
           K == {Cardinality(s) : s \in Bad}
<1>6. Bad = {}
  <2>1. SUFFICES ASSUME Bad # {} PROVE FALSE
    OBVIOUS
  <2>2. \A s \in SUBSET S : IsFiniteSet(s) /\ Cardinality(s) \in Nat
    BY FS_Subset, FS_CardinalityType DEF S
  <2>3. K \subseteq Nat /\ K # {}
    BY <2>1, <2>2
  <2> HIDE DEF K
  <2>4. PICK v \in K : \A w \in K : v <= w
    BY <2>3, LeastExists
  <2>5. PICK s \in Bad : v = Cardinality(s)
    BY DEF K
  <2>6. s # {}
    BY <1>5, WorthNone
  <2> DEFINE x == CHOOSE x \in s : TRUE
  <2>7. x \in s
    BY <2>6
  <2>8. G[s] = f[x] + G[s \ {x}]
    BY <1>5, <2>6
  <2> HIDE DEF x
  <2>9. Cardinality(s \ {x}) = Cardinality(s) - 1 /\ Cardinality(s) \in Nat
    BY <2>2, <2>7, FS_RemoveElement
  <2>10. s \ {x} \notin Bad
    <3>1. s \ {x} \in Bad => Cardinality(s \ {x}) \in K
      BY DEF K
    <3> QED BY <2>4, <2>5, <2>9, <3>1
  <2>11. G[s \ {x}] = Worth(f, s \ {x})
    BY <2>10
  <2> QED BY <1>2, <2>7, <2>8, <2>11
<1>7. G[S] = Worth(f, S)
  BY <1>6
<1> QED BY <1>1, <1>7 DEF S

\* Equal stacks are worth the same.
LEMMA WorthSame ==
  ASSUME NEW S, NEW f, NEW g, \A x \in S : f[x] = g[x]
  PROVE  Worth(f, S) = Worth(g, S)
<1>1. Coins(f, S) = Coins(g, S)
  BY DEF Coins
<1> QED BY <1>1 DEF Worth

\* Two stacks at every seat are worth what they are worth alone.
LEMMA WorthPlus ==
  ASSUME NEW S, IsFiniteSet(S), NEW f, NEW g, NEW h,
         \A x \in S : f[x] \in Nat /\ g[x] \in Nat /\ h[x] = f[x] + g[x]
  PROVE  Worth(h, S) = Worth(f, S) + Worth(g, S)
<1> DEFINE C == {T \in SUBSET S : Worth(h, T) = Worth(f, T) + Worth(g, T)}
<1>1. {} \in C
  BY WorthNone
<1>2. ASSUME NEW T \in SUBSET S, NEW x \in S, T \in C, x \notin T PROVE T \cup {x} \in C
  <2> DEFINE U == T \cup {x}
             a == Worth(f, T)
             b == Worth(g, T)
  <2>1. IsFiniteSet(T) /\ \A y \in T : f[y] \in Nat /\ g[y] \in Nat /\ h[y] \in Nat
    BY FS_Subset
  <2>2. /\ IsFiniteSet(Coins(f, T)) /\ IsFiniteSet(Coins(g, T)) /\ IsFiniteSet(Coins(h, T))
        /\ a \in Nat /\ b \in Nat
    BY <2>1, WorthIs
  <2>3. f[x] \in Nat /\ g[x] \in Nat /\ h[x] = f[x] + g[x]
    OBVIOUS
  <2>4. /\ Worth(f, U) = f[x] + a
        /\ Worth(g, U) = g[x] + b
        /\ Worth(h, U) = h[x] + Worth(h, T)
    <3>1. x \notin T /\ h[x] \in Nat
      BY <1>2, <2>3
    <3>2. Worth(f, T \cup {x}) = f[x] + Worth(f, T)
      BY <2>2, <2>3, <3>1, WorthAdds
    <3>3. Worth(g, T \cup {x}) = g[x] + Worth(g, T)
      BY <2>2, <2>3, <3>1, WorthAdds
    <3>4. Worth(h, T \cup {x}) = h[x] + Worth(h, T)
      BY <2>2, <3>1, WorthAdds
    <3> QED BY <3>2, <3>3, <3>4
  <2>5. Worth(h, T) = a + b
    BY <1>2
  <2> HIDE DEF U, a, b
  <2>6. \A m, n \in Nat : (m + n) + (a + b) = (m + a) + (n + b)
    BY <2>2
  <2>7. Worth(h, U) = Worth(f, U) + Worth(g, U)
    BY <2>3, <2>4, <2>5, <2>6
  <2> QED BY <2>7 DEF U
<1> HIDE DEF C
<1>3. S \in C
  BY <1>1, <1>2, OneByOne
<1> QED BY <1>3 DEF C

\* The same for some seats and nothing for the others
LEMMA WorthShared ==
  ASSUME NEW S, IsFiniteSet(S), NEW k \in Nat, NEW W, NEW f,
         \A x \in S : f[x] = IF x \in W THEN k ELSE 0
  PROVE  Worth(f, S) = k * Cardinality(W \cap S)
<1> DEFINE C == {T \in SUBSET S : Worth(f, T) = k * Cardinality(W \cap T)}
<1>1. {} \in C
  <2>1. W \cap {} = {} /\ k * 0 = 0
    OBVIOUS
  <2> QED BY <2>1, WorthNone, FS_EmptySet
<1>2. ASSUME NEW T \in SUBSET S, NEW x \in S, T \in C, x \notin T PROVE T \cup {x} \in C
  <2> DEFINE V == W \cap T
             n == Cardinality(V)
             U == T \cup {x}
  <2>1. IsFiniteSet(T) /\ \A y \in T : f[y] \in Nat
    BY FS_Subset
  <2>2. IsFiniteSet(Coins(f, T)) /\ f[x] \in Nat
    BY <2>1, WorthIs
  <2>3. Worth(f, U) = f[x] + Worth(f, T)
    BY <1>2, <2>2, WorthAdds
  <2>4. IsFiniteSet(V) /\ n \in Nat
    BY <2>1, FS_Subset, FS_CardinalityType
  <2>5. Worth(f, T) = k * n
    BY <1>2
  <2>6. CASE x \in W
    <3>1. W \cap U = V \cup {x} /\ x \notin V
      BY <1>2, <2>6
    <3>2. Cardinality(W \cap U) = n + 1
      BY <2>4, <3>1, FS_AddElement
    <3> HIDE DEF V, n, U
    <3>3. k + k * n = k * (n + 1)
      BY <2>4
    <3> QED BY <2>3, <2>5, <2>6, <3>2, <3>3 DEF U
  <2>7. CASE x \notin W
    <3>1. W \cap U = V /\ f[x] = 0
      BY <2>7
    <3> HIDE DEF V, n, U
    <3>2. k * n \in Nat
      BY <2>4
    <3>3. Worth(f, U) = k * n
      BY <2>3, <2>5, <3>1, <3>2
    <3> QED BY <3>1, <3>3 DEF U, n
  <2> QED BY <2>6, <2>7
<1> HIDE DEF C
<1>3. S \in C
  BY <1>1, <1>2, OneByOne
<1> QED BY <1>3 DEF C

\* More at one seat
LEMMA WorthAtOne ==
  ASSUME NEW S, IsFiniteSet(S), NEW p \in S, NEW k \in Nat, NEW f, NEW g,
         \A x \in S : f[x] \in Nat /\ g[x] = f[x] + (IF x = p THEN k ELSE 0)
  PROVE  Worth(g, S) = Worth(f, S) + k
<1> DEFINE h == [x \in S |-> IF x \in {p} THEN k ELSE 0]
<1>1. {p} \cap S = {p} /\ k * 1 = k
  OBVIOUS
<1>2. Cardinality({p} \cap S) = 1
  BY <1>1, FS_Singleton
<1>3. \A x \in S : h[x] = IF x \in {p} THEN k ELSE 0
  OBVIOUS
<1>4. \A x \in S : h[x] \in Nat /\ g[x] = f[x] + h[x]
  OBVIOUS
<1> HIDE DEF h
<1>5. Worth(h, S) = k * Cardinality({p} \cap S)
  BY <1>3, WorthShared
<1> QED BY <1>1, <1>2, <1>4, <1>5, WorthPlus
-----------------------------------------------------------------------------
(* Hold'em. Seats counted around the table                                  *)

\* Around the table once
LEMMA Around ==
  ASSUME NEW n \in Nat, n > 0, NEW a \in Nat, a < n + n
  PROVE  a % n = IF a < n THEN a ELSE a - n
OBVIOUS

\* An even share is a share.
LEMMA ShareIs ==
  ASSUME NEW a \in Nat, NEW n \in Nat, n > 0
  PROVE  a \div n \in Nat /\ (a \div n) * n <= a
OBVIOUS

\* The seats are finite, and a set of them has a first.
LEMMA SeatsAre ==
  /\ Holdem!Seats = 0..(NumSeats - 1) /\ Holdem!Seats \subseteq Nat
  /\ IsFiniteSet(Holdem!Seats) /\ Cardinality(Holdem!Seats) = NumSeats
  /\ \A D \in SUBSET Nat : D # {} => Holdem!Min(D) \in D /\ \A d \in D : Holdem!Min(D) <= d
<1>1. 0 \in Int /\ NumSeats - 1 \in Int /\ NumSeats \in Nat /\ NumSeats > 1
  BY HoldemAssumption
<1>2. IsFiniteSet(0..(NumSeats - 1)) /\ Cardinality(0..(NumSeats - 1)) = NumSeats
  BY <1>1, FS_Interval
<1>3. ASSUME NEW D \in SUBSET Nat, D # {}
      PROVE  Holdem!Min(D) \in D /\ \A d \in D : Holdem!Min(D) <= d
  <2>1. \E x \in D : \A y \in D : x <= y
    BY <1>3, LeastExists
  <2> QED BY <2>1 DEF Holdem!Min
<1> QED BY <1>1, <1>2, <1>3 DEF Holdem!Seats

\* The first of some seats is one of them, and the first after a seat is the
\* seat itself only where there is no other.
LEMMA FirstIs ==
  ASSUME NEW S \in SUBSET Holdem!Seats, S # {}, NEW t \in Holdem!Seats
  PROVE  LET q == Holdem!FirstFrom((t + 1) % NumSeats, S)
         IN q \in S /\ (q = t => S = {t})
<1> DEFINE N == NumSeats
           i == (t + 1) % N
           D == {d \in Holdem!Seats : (i + d) % N \in S}
           m == Holdem!Min(D)
<1>1. N \in Nat /\ N > 1 /\ t \in 0..(N - 1) /\ S \subseteq 0..(N - 1) /\ Holdem!Seats = 0..(N - 1)
  BY SeatsAre, HoldemAssumption
<1> HIDE DEF N
<1>2. i = IF t + 1 < N THEN t + 1 ELSE 0
  BY <1>1, Around
<1> HIDE DEF i
<1>3. i \in 0..(N - 1)
  BY <1>1, <1>2
<1>4. \A d \in 0..(N - 1) : (i + d) % N = IF i + d < N THEN i + d ELSE i + d - N
  BY <1>1, <1>3, Around
<1>5. ASSUME NEW q \in S
      PROVE  \E d \in D : q = IF i + d < N THEN i + d ELSE i + d - N
  <2> DEFINE d == IF i <= q THEN q - i ELSE q + N - i
  <2>1. q \in 0..(N - 1)
    BY <1>1
  <2>2. d \in 0..(N - 1) /\ q = IF i + d < N THEN i + d ELSE i + d - N
    BY <1>1, <1>3, <2>1
  <2> HIDE DEF d
  <2> QED BY <1>1, <1>4, <2>2
<1>6. D \subseteq Nat /\ D # {}
  <2>1. PICK q \in S : TRUE
    OBVIOUS
  <2>2. D # {}
    BY <1>5, <2>1
  <2> QED BY <1>1, <2>2
<1>7. m \in D /\ \A d \in D : m <= d
  BY <1>6, SeatsAre
<1> HIDE DEF m
<1>8. Holdem!FirstFrom(i, S) = (i + m) % N
  BY DEF Holdem!FirstFrom, m, N
<1>9. m \in 0..(N - 1) /\ (i + m) % N \in S
  BY <1>1, <1>7
<1>10. ASSUME (i + m) % N = t, NEW q \in S PROVE q = t
  <2>1. m = N - 1
    <3>1. (i + m) % N = IF i + m < N THEN i + m ELSE i + m - N
      BY <1>4, <1>9
    <3>2. t \in Nat /\ t <= N - 1 /\ m \in Nat /\ m <= N - 1
      BY <1>1, <1>9
    <3>3. t = IF i + m < N THEN i + m ELSE i + m - N
      BY <1>10, <3>1
    <3>4. CASE t + 1 < N
      BY <1>1, <1>2, <3>2, <3>3, <3>4
    <3>5. CASE ~(t + 1 < N)
      BY <1>1, <1>2, <3>2, <3>3, <3>5
    <3> QED BY <3>4, <3>5
  <2>2. PICK d \in D : q = IF i + d < N THEN i + d ELSE i + d - N
    BY <1>5
  <2>3. d \in 0..(N - 1) /\ m <= d
    BY <1>1, <1>7
  <2>4. d = N - 1
    BY <1>1, <2>1, <2>3
  <2> QED BY <1>4, <1>9, <1>10, <2>1, <2>2, <2>4
<1>11. (i + m) % N = t => S = {t}
  BY <1>9, <1>10
<1> QED BY <1>8, <1>9, <1>11 DEF i, N
-----------------------------------------------------------------------------
(* Hold'em. The chips are counted, and the stakes are even when a street    *)
(* ends.                                                                   *)

Tables ==
  [chips : [Holdem!Seats -> Nat], bets : [Holdem!Seats -> Nat], stakes : [Holdem!Seats -> Nat],
   pot : Nat, folded : [Holdem!Seats -> BOOLEAN], allIn : [Holdem!Seats -> BOOLEAN],
   acted : [Holdem!Seats -> BOOLEAN],
   phase : {"preflop", "flop", "turn", "river", "handOver", "gameOver"},
   currentBet : Nat, turn : Holdem!Seats, dealer : Holdem!Seats, level : 1..Len(Blinds),
   bonuses : Nat, dealt : Nat]

\* The chips of the players and the pot are those of the start, and the bonuses.
ChipsAre(s) == Worth(s.chips, Holdem!Seats) + s.pot = NumSeats * StartChips + Bonus * s.bonuses

\* Nobody has bet more than the current bet; who is not all in has chips, and has
\* put in on the streets before as much as anybody.
HandOK(s) ==
  /\ \A p \in Holdem!Seats : s.bets[p] <= s.currentBet
  /\ \A p \in Holdem!InHand(s) :
       ~s.allIn[p] => /\ s.chips[p] > 0
                      /\ \A q \in Holdem!Seats : s.stakes[q] - s.bets[q] <= s.stakes[p] - s.bets[p]

\* Who is still in and not all in has put in as much as anybody.
EvenIn(s) ==
  \A p \in Holdem!InHand(s), q \in Holdem!Seats : ~s.allIn[p] => s.stakes[q] <= s.stakes[p]

TableOK(s) ==
  /\ s \in Tables /\ ChipsAre(s)
  /\ Holdem!Betting(s) =>
       HandOK(s) /\ s.turn \in Holdem!InHand(s) /\ Cardinality(Holdem!InHand(s)) > 1
  /\ ~Holdem!Betting(s) => s.pot = 0

HoldemInv == TableOK(host)

\* What an action leaves for afterAction: whoever has acted and may act again
\* has matched the bet.
ActedOK(s) ==
  /\ s \in Tables /\ ChipsAre(s) /\ Holdem!Betting(s) /\ HandOK(s)
  /\ Holdem!InHand(s) # {}
  /\ s.turn \in Holdem!Acting(s) => s.bets[s.turn] >= s.currentBet

\* The seats still in, and those of them asked to act
LEMMA InHandIs ==
  ASSUME NEW s \in Tables
  PROVE  /\ Holdem!InHand(s) \subseteq Holdem!Seats /\ Holdem!Acting(s) \subseteq Holdem!InHand(s)
         /\ IsFiniteSet(Holdem!InHand(s)) /\ IsFiniteSet(Holdem!Acting(s))
         /\ Cardinality(Holdem!InHand(s)) \in Nat /\ Cardinality(Holdem!Acting(s)) \in Nat
         /\ Holdem!InHand(s) # {} => Cardinality(Holdem!InHand(s)) > 0
<1>1. Holdem!InHand(s) \subseteq Holdem!Seats /\ Holdem!Acting(s) \subseteq Holdem!InHand(s)
  BY DEF Holdem!InHand, Holdem!Acting
<1>2. IsFiniteSet(Holdem!InHand(s)) /\ IsFiniteSet(Holdem!Acting(s))
  BY <1>1, SeatsAre, FS_Subset
<1>3. Cardinality(Holdem!InHand(s)) \in Nat /\ Cardinality(Holdem!Acting(s)) \in Nat
  BY <1>2, FS_CardinalityType
<1>4. Cardinality(Holdem!InHand(s)) = 0 => Holdem!InHand(s) = {}
  BY <1>2, FS_EmptySet
<1> QED BY <1>1, <1>2, <1>3, <1>4

\* A street that ends ends with even stakes.
LEMMA RoundEnds ==
  ASSUME NEW s, ActedOK(s), Holdem!RoundComplete(s) \/ Holdem!NextActive(s) = s.turn
  PROVE  EvenIn(s)
<1>1. s \in Tables /\ s.turn \in Holdem!Seats
  BY DEF ActedOK, Tables
<1>2. ASSUME NEW p \in Holdem!InHand(s), ~s.allIn[p] PROVE s.currentBet <= s.bets[p]
  <2>1. p \in Holdem!Acting(s) /\ p \in Holdem!Seats
    BY <1>2 DEF ActedOK, HandOK, Holdem!Acting, Holdem!InHand
  <2>2. s.bets[p] \in Nat /\ s.currentBet \in Nat
    BY <1>1, <2>1 DEF Tables
  <2>3. CASE Holdem!RoundComplete(s)
    BY <2>1, <2>2, <2>3 DEF Holdem!RoundComplete
  <2>4. CASE Holdem!NextActive(s) = s.turn
    <3>1. Holdem!Acting(s) \in SUBSET Holdem!Seats
      BY <1>1, InHandIs
    <3>2. Holdem!FirstFrom((s.turn + 1) % NumSeats, Holdem!Acting(s)) = s.turn
      BY <2>1, <2>4 DEF Holdem!NextActive
    <3>3. Holdem!Acting(s) = {s.turn}
      BY <1>1, <2>1, <3>1, <3>2, FirstIs
    <3> QED BY <2>1, <2>2, <3>3 DEF ActedOK
  <2> QED BY <2>3, <2>4
<1>3. ASSUME NEW p \in Holdem!InHand(s), NEW q \in Holdem!Seats, ~s.allIn[p]
      PROVE  s.stakes[q] <= s.stakes[p]
  <2>1. p \in Holdem!Seats
    BY DEF Holdem!InHand
  <2>2. /\ s.bets[p] \in Nat /\ s.bets[q] \in Nat /\ s.stakes[p] \in Nat /\ s.stakes[q] \in Nat
        /\ s.currentBet \in Nat
    BY <1>1, <2>1 DEF Tables
  <2>3. /\ s.bets[q] <= s.currentBet /\ s.currentBet <= s.bets[p]
        /\ s.stakes[q] - s.bets[q] <= s.stakes[p] - s.bets[p]
    BY <1>2, <1>3 DEF ActedOK, HandOK
  <2> DEFINE a == s.bets[p]
             b == s.bets[q]
             c == s.stakes[p]
             d == s.stakes[q]
             e == s.currentBet
  <2> HIDE DEF a, b, c, d, e
  <2>4. a \in Nat /\ b \in Nat /\ c \in Nat /\ d \in Nat /\ e \in Nat /\ b <= e /\ e <= a /\ d - b <= c - a
    BY <2>2, <2>3 DEF a, b, c, d, e
  <2>5. d <= c
    BY <2>4
  <2> QED BY <2>5 DEF c, d
<1> QED BY <1>3 DEF EvenIn

\* The pot and the bonuses paid: what the winners get is the pot.
LEMMA EndsForOK ==
  ASSUME NEW s \in Tables, ChipsAre(s), NEW W \in SUBSET Holdem!Seats, W # {},
         Holdem!EndsFor(s, W)
  PROVE  /\ host' \in Tables /\ ChipsAre(host') /\ host'.phase = "handOver" /\ host'.pot = 0
         /\ host'.folded = s.folded /\ host'.allIn = s.allIn /\ host'.stakes = s.stakes
<1> DEFINE S == Holdem!Seats
           n == Cardinality(W)
           share == s.pot \div n
           over == s.pot - share * n
           c1 == [p \in S |-> s.chips[p] + (IF p \in W THEN share ELSE 0)
                              + (IF p = Holdem!Min(W) THEN over ELSE 0)]
           paid == [s EXCEPT !.pot = 0, !.phase = "handOver", !.chips = c1]
<1>a. PICK lucky \in SUBSET W : host' = Holdem!Rewarded(Holdem!Paid(s, W), lucky)
  BY DEF Holdem!EndsFor
<1>b. Holdem!Paid(s, W) = paid
  <2>1. Holdem!Cardinality(W) = n
    BY CountsAre
  <2> HIDE DEF n
  <2> QED BY <2>1 DEF Holdem!Paid
<1>1. host' = [paid EXCEPT !.bonuses = @ + Cardinality(lucky),
                           !.chips = [p \in S |-> @[p] + IF p \in lucky THEN Bonus ELSE 0]]
  <2>1. Holdem!Cardinality(lucky) = Cardinality(lucky)
    BY CountsAre
  <2> HIDE DEF paid
  <2> QED BY <1>a, <1>b, <2>1 DEF Holdem!Rewarded
<1> DEFINE l == Cardinality(lucky)
           c2 == [p \in S |-> c1[p] + IF p \in lucky THEN Bonus ELSE 0]
<1>2. /\ s.chips \in [S -> Nat] /\ s.pot \in Nat /\ s.bonuses \in Nat /\ Bonus \in Nat
  BY HoldemAssumption DEF Tables
<1>3. host' = [s EXCEPT !.pot = 0, !.phase = "handOver", !.bonuses = @ + l, !.chips = c2]
  BY <1>1 DEF Tables
<1>4. IsFiniteSet(S) /\ IsFiniteSet(W) /\ n \in Nat /\ n > 0 /\ IsFiniteSet(lucky) /\ l \in Nat
  <2>1. IsFiniteSet(S) /\ IsFiniteSet(W)
    BY SeatsAre, FS_Subset
  <2>2. n \in Nat /\ (n = 0 => W = {})
    BY <2>1, FS_CardinalityType, FS_EmptySet
  <2> QED BY <2>1, <2>2, FS_Subset, FS_CardinalityType
<1>5. Holdem!Min(W) \in S
  <2>1. W \in SUBSET Nat
    BY SeatsAre
  <2> QED BY <2>1, SeatsAre
<1> HIDE DEF n, l
<1>6. share \in Nat /\ over \in Nat /\ share * n + over = s.pot
  <2>1. share \in Nat /\ share * n <= s.pot
    BY <1>2, <1>4, ShareIs
  <2> HIDE DEF share
  <2>2. share * n \in Nat
    BY <1>4, <2>1
  <2> QED BY <1>2, <2>1, <2>2
<1> HIDE DEF share, over
<1> DEFINE g == [p \in S |-> IF p \in W THEN share ELSE 0]
           c0 == [p \in S |-> s.chips[p] + g[p]]
           k == [p \in S |-> IF p \in lucky THEN Bonus ELSE 0]
<1>7. Worth(g, S) = share * n
  <2>1. W \cap S = W /\ \A p \in S : g[p] = IF p \in W THEN share ELSE 0
    OBVIOUS
  <2> HIDE DEF g, S
  <2>2. Worth(g, S) = share * Cardinality(W \cap S)
    BY <1>4, <1>6, <2>1, WorthShared
  <2> QED BY <2>1, <2>2 DEF n
<1>8. Worth(k, S) = Bonus * l
  <2>1. lucky \cap S = lucky /\ \A p \in S : k[p] = IF p \in lucky THEN Bonus ELSE 0
    OBVIOUS
  <2> HIDE DEF k, S
  <2>2. Worth(k, S) = Bonus * Cardinality(lucky \cap S)
    BY <1>2, <1>4, <2>1, WorthShared
  <2> QED BY <2>1, <2>2 DEF l
<1>9. /\ \A p \in S : s.chips[p] \in Nat /\ g[p] \in Nat /\ c0[p] = s.chips[p] + g[p]
      /\ \A p \in S : c0[p] \in Nat /\ c1[p] = c0[p] + (IF p = Holdem!Min(W) THEN over ELSE 0)
      /\ \A p \in S : c1[p] \in Nat /\ k[p] \in Nat /\ c2[p] = c1[p] + k[p]
      /\ c2 \in [S -> Nat]
  BY <1>2, <1>6
<1> HIDE DEF g, k, c0, c1, c2, S
<1>10. Worth(c0, S) = Worth(s.chips, S) + Worth(g, S)
  BY <1>4, <1>9, WorthPlus
<1>11. Worth(c1, S) = Worth(c0, S) + over
  BY <1>4, <1>5, <1>6, <1>9, WorthAtOne
<1>12. Worth(c2, S) = Worth(c1, S) + Worth(k, S)
  BY <1>4, <1>9, WorthPlus
<1>13. Worth(s.chips, S) \in Nat
  BY <1>4, <1>9, WorthIs
<1>14. Worth(s.chips, S) + s.pot = NumSeats * StartChips + Bonus * s.bonuses
  BY DEF ChipsAre, S
<1>15. Worth(c2, S) = NumSeats * StartChips + Bonus * (s.bonuses + l)
  <2> DEFINE w == Worth(s.chips, S)
             x == share * n
             y == Bonus * s.bonuses
             z == Bonus * l
             v == NumSeats * StartChips
  <2>1. /\ w \in Nat /\ x \in Nat /\ y \in Nat /\ z \in Nat /\ v \in Nat
        /\ Bonus * (s.bonuses + l) = y + z
    <3>1. \A a, b, c \in Nat : a * b \in Nat /\ a * (b + c) = a * b + a * c
      OBVIOUS
    <3>2. Bonus \in Nat /\ s.bonuses \in Nat /\ l \in Nat /\ share \in Nat /\ n \in Nat
          /\ NumSeats \in Nat /\ StartChips \in Nat
      BY <1>2, <1>4, <1>6, HoldemAssumption
    <3>3. x \in Nat /\ y \in Nat /\ z \in Nat /\ v \in Nat
      BY <3>1, <3>2
    <3>4. Bonus * (s.bonuses + l) = y + z
      BY <3>1, <3>2
    <3> QED BY <1>13, <3>3, <3>4
  <2>2. x + over = s.pot /\ w + s.pot = v + y
    BY <1>6, <1>14
  <2>3. Worth(c2, S) = ((w + x) + over) + z
    BY <1>7, <1>8, <1>10, <1>11, <1>12
  <2> HIDE DEF w, x, y, z, v
  <2>4. ((w + x) + over) + z = v + (y + z)
    BY <1>2, <1>6, <2>1, <2>2
  <2> QED BY <2>1, <2>3, <2>4 DEF v
<1>16. /\ host' \in Tables /\ host'.phase = "handOver" /\ host'.pot = 0
       /\ host'.folded = s.folded /\ host'.allIn = s.allIn /\ host'.stakes = s.stakes
       /\ host'.chips = c2 /\ host'.bonuses = s.bonuses + l
  <2>1. s.bonuses + l \in Nat
    BY <1>2, <1>4
  <2>2. [s EXCEPT !.pot = 0, !.phase = "handOver"] \in Tables
    BY DEF Tables
  <2>3. [s EXCEPT !.pot = 0, !.phase = "handOver", !.bonuses = s.bonuses + l] \in Tables
    BY <2>1, <2>2 DEF Tables
  <2>4. [s EXCEPT !.pot = 0, !.phase = "handOver", !.bonuses = s.bonuses + l, !.chips = c2] \in Tables
    BY <1>9, <2>3 DEF Tables, S
  <2>5. /\ host'.phase = "handOver" /\ host'.pot = 0
        /\ host'.folded = s.folded /\ host'.allIn = s.allIn /\ host'.stakes = s.stakes
        /\ host'.chips = c2 /\ host'.bonuses = s.bonuses + l
    BY <1>3 DEF Tables
  <2> QED BY <1>3, <2>4, <2>5
<1>17. ChipsAre(host')
  <2>1. Worth(c2, S) \in Nat
    BY <1>4, <1>9, WorthIs
  <2> QED BY <1>15, <1>16, <2>1 DEF ChipsAre, S
<1> QED BY <1>16, <1>17

\* The next street: bets start from nothing on even stakes.
LEMMA AdvanceOK ==
  ASSUME NEW s, ActedOK(s), EvenIn(s), Cardinality(Holdem!InHand(s)) > 1,
         Cardinality(Holdem!Acting(s)) > 1, s.phase # "river", Holdem!Advance(s)
  PROVE  TableOK(host') /\ EvenIn(host')
<1> DEFINE S == Holdem!Seats
           C == Holdem!InHand(s) \ {p \in S : s.allIn[p]}
           t == Holdem!FirstFrom((s.dealer + 1) % NumSeats, C)
           ph == Holdem!StreetAfter(s.phase)
           next == [s EXCEPT !.phase = Holdem!StreetAfter(@), !.bets = Holdem!All(0), !.currentBet = 0,
                             !.acted = Holdem!All(FALSE),
                             !.turn = Holdem!FirstFrom((s.dealer + 1) % NumSeats, C)]
<1>1. s \in Tables /\ s.phase \in {"preflop", "flop", "turn"}
  BY DEF ActedOK, Holdem!Betting
<1>2. ph \in {"flop", "turn", "river"}
  <2> DEFINE k == CHOOSE k \in 1..3 : Holdem!Streets[k] = s.phase
  <2>1. Holdem!Streets[1] = "preflop" /\ Holdem!Streets[2] = "flop" /\ Holdem!Streets[3] = "turn"
        /\ Holdem!Streets[4] = "river"
    BY DEF Holdem!Streets
  <2>2. \E x \in 1..3 : Holdem!Streets[x] = s.phase
    BY <1>1, <2>1
  <2>3. k \in 1..3
    BY <2>2
  <2> HIDE DEF k
  <2>4. 1 + k \in {2, 3, 4}
    BY <2>3
  <2> QED BY <2>1, <2>4 DEF Holdem!StreetAfter, k
<1>3. t \in C /\ t \in Holdem!InHand(s) /\ t \in S
  <2>1. Holdem!Acting(s) \subseteq C
    BY DEF Holdem!Acting
  <2>2. Holdem!Acting(s) # {}
    BY FS_EmptySet
  <2>3. C \in SUBSET S /\ C # {} /\ s.dealer \in S
    BY <1>1, <2>1, <2>2 DEF Holdem!InHand, Tables
  <2> HIDE DEF C
  <2>4. t \in C
    BY <2>3, FirstIs
  <2> QED BY <2>4 DEF C, Holdem!InHand
<1> HIDE DEF t, C
<1>4. Holdem!All(0) = [p \in S |-> 0] /\ Holdem!All(FALSE) = [p \in S |-> FALSE]
  BY DEF Holdem!All
<1>5. next = [s EXCEPT !.phase = ph, !.bets = [p \in S |-> 0], !.currentBet = 0,
                       !.acted = [p \in S |-> FALSE], !.turn = t]
  BY <1>1, <1>4 DEF Tables, t
<1> HIDE DEF ph
<1>6. /\ next \in Tables /\ next.bets = [p \in S |-> 0] /\ next.currentBet = 0 /\ next.turn = t
      /\ next.phase = ph /\ next.chips = s.chips /\ next.stakes = s.stakes
      /\ next.folded = s.folded /\ next.allIn = s.allIn /\ next.pot = s.pot
      /\ next.bonuses = s.bonuses
  <2> HIDE DEF next
  <2>1. [s EXCEPT !.phase = ph, !.bets = [p \in S |-> 0]] \in Tables
    BY <1>1, <1>2 DEF Tables
  <2>2. [s EXCEPT !.phase = ph, !.bets = [p \in S |-> 0], !.currentBet = 0] \in Tables
    BY <2>1 DEF Tables
  <2>3. [s EXCEPT !.phase = ph, !.bets = [p \in S |-> 0], !.currentBet = 0,
                  !.acted = [p \in S |-> FALSE]] \in Tables
    BY <2>2 DEF Tables
  <2>4. next \in Tables
    BY <1>3, <1>5, <2>3 DEF Tables
  <2> QED BY <1>1, <1>5, <2>4 DEF Tables
<1> HIDE DEF next
<1>7. host' = next \/ host' = [next EXCEPT !.pot = @ + Bonus, !.bonuses = @ + 1]
  BY DEF Holdem!Advance, next, C
<1>8. /\ host' \in Tables /\ host'.bets = [p \in S |-> 0] /\ host'.currentBet = 0 /\ host'.turn = t
      /\ host'.phase = ph /\ host'.chips = s.chips /\ host'.stakes = s.stakes
      /\ host'.folded = s.folded /\ host'.allIn = s.allIn
      /\ \/ host'.pot = s.pot /\ host'.bonuses = s.bonuses
         \/ host'.pot = s.pot + Bonus /\ host'.bonuses = s.bonuses + 1
  <2>1. CASE host' = next
    BY <1>6, <2>1
  <2>2. CASE host' = [next EXCEPT !.pot = @ + Bonus, !.bonuses = @ + 1]
    <3>0. next.pot \in Nat /\ next.bonuses \in Nat
      BY <1>6 DEF Tables
    <3>1. next.pot + Bonus \in Nat /\ next.bonuses + 1 \in Nat
      <4>1. \A m, n \in Nat : m + n \in Nat
        OBVIOUS
      <4>2. Bonus \in Nat /\ 1 \in Nat
        BY HoldemAssumption
      <4> QED BY <3>0, <4>1, <4>2
    <3>2. [next EXCEPT !.pot = next.pot + Bonus] \in Tables
      BY <1>6, <3>1 DEF Tables
    <3>3. [next EXCEPT !.pot = next.pot + Bonus, !.bonuses = next.bonuses + 1] \in Tables
      BY <3>1, <3>2 DEF Tables
    <3>4. host' = [next EXCEPT !.pot = next.pot + Bonus, !.bonuses = next.bonuses + 1]
      BY <2>2
    <3> QED BY <1>6, <3>3, <3>4 DEF Tables
  <2> QED BY <1>7, <2>1, <2>2
<1>9. ChipsAre(host')
  <2> DEFINE w == Worth(s.chips, S)
             y == Bonus * s.bonuses
             v == NumSeats * StartChips
  <2>1. w \in Nat
    <3>1. \A p \in S : s.chips[p] \in Nat
      BY <1>1 DEF Tables
    <3> QED BY <3>1, SeatsAre, WorthIs
  <2>2. y \in Nat /\ v \in Nat /\ Bonus * (s.bonuses + 1) = y + Bonus /\ s.pot \in Nat /\ Bonus \in Nat
    <3>1. \A a, b \in Nat : a * b \in Nat /\ a * (b + 1) = a * b + a
      OBVIOUS
    <3> QED BY <1>1, <3>1, HoldemAssumption DEF Tables
  <2>3. w + s.pot = v + y
    BY DEF ActedOK, ChipsAre
  <2>4. Worth(host'.chips, S) = w
    BY <1>8
  <2> HIDE DEF w, y, v
  <2>5. CASE host'.pot = s.pot /\ host'.bonuses = s.bonuses
    BY <2>3, <2>4, <2>5 DEF ChipsAre, v, y
  <2>6. CASE host'.pot = s.pot + Bonus /\ host'.bonuses = s.bonuses + 1
    <3>1. w + (s.pot + Bonus) = v + (y + Bonus)
      BY <2>1, <2>2, <2>3
    <3> QED BY <2>2, <2>4, <2>6, <3>1 DEF ChipsAre, v
  <2> QED BY <1>8, <2>5, <2>6
<1>10. Holdem!InHand(host') = Holdem!InHand(s) /\ Holdem!Betting(host')
  BY <1>2, <1>8 DEF Holdem!InHand, Holdem!Betting
<1>11. EvenIn(host')
  BY <1>8, <1>10 DEF EvenIn
<1>12. HandOK(host')
  <2>1. \A q \in S : host'.bets[q] = 0 /\ s.stakes[q] \in Nat
    BY <1>1, <1>8 DEF Tables
  <2>2. ASSUME NEW p \in Holdem!InHand(s), ~s.allIn[p]
        PROVE  s.chips[p] > 0 /\ \A q \in S : s.stakes[q] - 0 <= s.stakes[p] - 0
    <3>1. p \in S /\ s.chips[p] > 0
      BY <2>2 DEF ActedOK, HandOK, Holdem!InHand
    <3>2. \A q \in S : s.stakes[q] <= s.stakes[p]
      BY <2>2 DEF EvenIn
    <3> QED BY <2>1, <3>1, <3>2
  <2>4. \A p \in Holdem!InHand(s) : p \in S
    BY DEF Holdem!InHand
  <2> QED BY <1>8, <1>10, <2>1, <2>2, <2>4 DEF HandOK
<1> QED BY <1>3, <1>8, <1>9, <1>10, <1>11, <1>12 DEF TableOK

\* The hand goes on, passes to the next street or is shown.
LEMMA AfterActionOK ==
  ASSUME NEW s, ActedOK(s), Holdem!AfterAction(s)
  PROVE  /\ TableOK(host')
         /\ host'.phase # s.phase /\ Cardinality(Holdem!InHand(host')) > 1 => EvenIn(host')
<1> DEFINE next == Holdem!NextActive(s)
<1>1. s \in Tables /\ ChipsAre(s) /\ s.turn \in Holdem!Seats
  BY DEF ActedOK, Tables
<1>2. /\ Holdem!InHand(s) \in SUBSET Holdem!Seats /\ Holdem!Acting(s) \in SUBSET Holdem!InHand(s)
      /\ Cardinality(Holdem!InHand(s)) \in Nat /\ Cardinality(Holdem!InHand(s)) > 0
      /\ Cardinality(Holdem!Acting(s)) \in Nat
  BY <1>1, InHandIs DEF ActedOK
<1>3. ASSUME NEW W \in SUBSET Holdem!InHand(s), W # {}, Holdem!EndsFor(s, W)
      PROVE  TableOK(host') /\ (EvenIn(s) => EvenIn(host'))
             /\ Cardinality(Holdem!InHand(host')) = Cardinality(Holdem!InHand(s))
  <2>1. /\ host' \in Tables /\ ChipsAre(host') /\ host'.phase = "handOver" /\ host'.pot = 0
        /\ host'.folded = s.folded /\ host'.allIn = s.allIn /\ host'.stakes = s.stakes
    BY <1>1, <1>2, <1>3, EndsForOK
  <2>2. Holdem!InHand(host') = Holdem!InHand(s)
    BY <2>1 DEF Holdem!InHand
  <2>3. ~Holdem!Betting(host')
    BY <2>1 DEF Holdem!Betting
  <2> QED BY <2>1, <2>2, <2>3 DEF TableOK, EvenIn
<1>4. CASE Cardinality(Holdem!InHand(s)) = 1
  <2>1. Holdem!EndsFor(s, Holdem!InHand(s))
    BY <1>4, CountsAre DEF Holdem!AfterAction
  <2> QED BY <1>2, <1>3, <1>4, <2>1 DEF ActedOK
<1>5. CASE Cardinality(Holdem!InHand(s)) # 1 /\ next # s.turn /\ ~Holdem!RoundComplete(s)
  <2>1. host' = [s EXCEPT !.turn = next]
    BY <1>5, CountsAre DEF Holdem!AfterAction
  <2>2. next \in Holdem!Acting(s)
    <3>1. Holdem!Acting(s) # {} /\ Holdem!Acting(s) \in SUBSET Holdem!Seats
      BY <1>2, <1>5 DEF Holdem!NextActive
    <3>2. next = Holdem!FirstFrom((s.turn + 1) % NumSeats, Holdem!Acting(s))
      BY <3>1 DEF Holdem!NextActive
    <3> HIDE DEF next
    <3> QED BY <1>1, <3>1, <3>2, FirstIs
  <2> HIDE DEF next
  <2>3. next \in Holdem!InHand(s) /\ next \in Holdem!Seats
    BY <1>2, <2>2
  <2>4. /\ host' \in Tables /\ host'.turn = next /\ host'.phase = s.phase /\ host'.chips = s.chips
        /\ host'.pot = s.pot /\ host'.bonuses = s.bonuses /\ host'.bets = s.bets
        /\ host'.currentBet = s.currentBet /\ host'.folded = s.folded /\ host'.allIn = s.allIn
        /\ host'.stakes = s.stakes
    BY <1>1, <2>1, <2>3 DEF Tables
  <2>5. Holdem!InHand(host') = Holdem!InHand(s) /\ Holdem!Betting(host')
    BY <2>4 DEF Holdem!InHand, Holdem!Betting, ActedOK
  <2>6. HandOK(host') /\ ChipsAre(host')
    BY <1>1, <2>4, <2>5 DEF HandOK, ActedOK, ChipsAre
  <2>7. Cardinality(Holdem!InHand(s)) > 1
    BY <1>2, <1>5
  <2> QED BY <2>3, <2>4, <2>5, <2>6, <2>7 DEF TableOK
<1>6. CASE Cardinality(Holdem!InHand(s)) # 1 /\ (next = s.turn \/ Holdem!RoundComplete(s))
  <2>1. EvenIn(s)
    BY <1>6, RoundEnds
  <2>2. CASE Cardinality(Holdem!Acting(s)) <= 1 \/ s.phase = "river"
    <3>1. Holdem!Showdown(s)
      BY <1>6, <2>2, CountsAre DEF Holdem!AfterAction
    <3>2. PICK W \in SUBSET Holdem!InHand(s) : W # {} /\ Holdem!EndsFor(s, W)
      BY <3>1 DEF Holdem!Showdown
    <3> QED BY <1>3, <2>1, <3>2
  <2>3. CASE ~(Cardinality(Holdem!Acting(s)) <= 1 \/ s.phase = "river")
    <3>1. Holdem!Advance(s)
      BY <1>6, <2>3, CountsAre DEF Holdem!AfterAction
    <3>2. Cardinality(Holdem!InHand(s)) > 1 /\ Cardinality(Holdem!Acting(s)) > 1
      BY <1>2, <1>6, <2>3
    <3> QED BY <2>1, <2>3, <3>1, <3>2, AdvanceOK
  <2> QED BY <2>2, <2>3
<1> QED BY <1>4, <1>5, <1>6

\* Chips put in: those before are as even as they were.
LEMMA BetOK ==
  ASSUME NEW s, TableOK(s), Holdem!Betting(s), NEW a \in Nat, a <= s.chips[s.turn]
  PROVE  LET b == Holdem!Bet(s, a)
             p == s.turn
         IN /\ b \in Tables /\ ChipsAre(b)
            /\ b.turn = p /\ b.phase = s.phase /\ b.folded = s.folded /\ b.currentBet = s.currentBet
            /\ \A q \in Holdem!Seats : b.bets[q] = s.bets[q] + IF q = p THEN a ELSE 0
            /\ \A q \in Holdem!Seats : (~b.allIn[q] => ~s.allIn[q] /\ (q \in Holdem!InHand(s) => b.chips[q] > 0))
            /\ \A q \in Holdem!Seats : b.stakes[q] - b.bets[q] = s.stakes[q] - s.bets[q]
<1> DEFINE S == Holdem!Seats
           p == s.turn
           bets == [s.bets EXCEPT ![p] = @ + a]
           stakes == [s.stakes EXCEPT ![p] = @ + a]
           chips == [s.chips EXCEPT ![p] = @ - a]
           acted == [s.acted EXCEPT ![p] = TRUE]
           allIn == [s.allIn EXCEPT ![p] = @ \/ s.chips[p] = a]
           b == Holdem!Bet(s, a)
<1>1. /\ s \in Tables /\ p \in S /\ s.bets \in [S -> Nat] /\ s.stakes \in [S -> Nat]
      /\ s.chips \in [S -> Nat] /\ s.allIn \in [S -> BOOLEAN] /\ s.acted \in [S -> BOOLEAN]
      /\ s.pot \in Nat
  BY DEF TableOK, Tables
<1>2. b = [s EXCEPT !.bets = bets, !.stakes = stakes, !.chips = chips, !.pot = @ + a,
                    !.acted = acted, !.allIn = allIn]
  BY <1>1 DEF Holdem!Bet, Tables
<1> HIDE DEF b, p
<1>3. /\ bets \in [S -> Nat] /\ \A q \in S : bets[q] = s.bets[q] + IF q = p THEN a ELSE 0
      /\ stakes \in [S -> Nat] /\ \A q \in S : stakes[q] = s.stakes[q] + IF q = p THEN a ELSE 0
  <2>1. \A m \in Nat : m + a \in Nat /\ m + 0 = m
    OBVIOUS
  <2>2. s.bets[p] \in Nat /\ s.stakes[p] \in Nat /\ \A q \in S : s.bets[q] \in Nat /\ s.stakes[q] \in Nat
    BY <1>1
  <2> QED BY <1>1, <2>1, <2>2
<1>4. /\ chips \in [S -> Nat] /\ \A q \in S : s.chips[q] = chips[q] + IF q = p THEN a ELSE 0
  <2>1. \A m \in Nat : a <= m => m - a \in Nat /\ m = (m - a) + a
    OBVIOUS
  <2>2. s.chips[p] \in Nat /\ a <= s.chips[p]
    BY <1>1 DEF p
  <2>3. s.chips[p] - a \in Nat /\ s.chips[p] = (s.chips[p] - a) + a
    BY <2>1, <2>2
  <2>4. chips[p] = s.chips[p] - a /\ \A q \in S : q # p => chips[q] = s.chips[q]
    BY <1>1
  <2>5. chips \in [S -> Nat]
    BY <1>1, <2>3
  <2>6. \A q \in S : s.chips[q] \in Nat /\ s.chips[q] + 0 = s.chips[q]
    <3>1. \A m \in Nat : m + 0 = m
      OBVIOUS
    <3> QED BY <1>1, <3>1
  <2> HIDE DEF chips
  <2>7. ASSUME NEW q \in S PROVE s.chips[q] = chips[q] + IF q = p THEN a ELSE 0
    BY <2>3, <2>4, <2>6
  <2> QED BY <2>5, <2>7
<1>5. acted \in [S -> BOOLEAN] /\ allIn \in [S -> BOOLEAN]
      /\ (\A q \in S : allIn[q] <=> s.allIn[q] \/ (q = p /\ s.chips[p] = a))
  BY <1>1
<1>6. s.pot + a \in Nat
  BY <1>1
<1> HIDE DEF bets, stakes, chips, acted, allIn
<1>7. b \in Tables
  <2>1. [s EXCEPT !.bets = bets, !.stakes = stakes] \in Tables
    BY <1>1, <1>3 DEF Tables
  <2>2. [s EXCEPT !.bets = bets, !.stakes = stakes, !.chips = chips, !.pot = @ + a] \in Tables
    BY <1>4, <1>6, <2>1 DEF Tables
  <2>3. [s EXCEPT !.bets = bets, !.stakes = stakes, !.chips = chips, !.pot = @ + a,
                  !.acted = acted] \in Tables
    BY <1>5, <2>2 DEF Tables
  <2>4. [s EXCEPT !.bets = bets, !.stakes = stakes, !.chips = chips, !.pot = @ + a,
                  !.acted = acted, !.allIn = allIn] \in Tables
    BY <1>5, <2>3 DEF Tables
  <2> QED BY <1>2, <2>4
<1>8. /\ b.turn = p /\ b.phase = s.phase /\ b.folded = s.folded /\ b.currentBet = s.currentBet
      /\ b.bets = bets /\ b.stakes = stakes /\ b.chips = chips /\ b.allIn = allIn /\ b.pot = s.pot + a
      /\ b.bonuses = s.bonuses
  BY <1>1, <1>2 DEF Tables, p
<1>9. ChipsAre(b)
  <2>1. Worth(s.chips, S) = Worth(chips, S) + a
    <3> DEFINE g == s.chips
    <3>1. \A q \in S : chips[q] \in Nat /\ g[q] = chips[q] + (IF q = p THEN a ELSE 0)
      BY <1>4
    <3>2. IsFiniteSet(S) /\ p \in S
      BY <1>1, SeatsAre
    <3> HIDE DEF g, S
    <3>3. Worth(g, S) = Worth(chips, S) + a
      BY <3>1, <3>2, WorthAtOne
    <3> QED BY <3>3 DEF g
  <2>2. Worth(chips, S) \in Nat
    BY <1>4, SeatsAre, WorthIs
  <2>3. Worth(s.chips, S) + s.pot = Worth(chips, S) + (s.pot + a)
    BY <1>1, <2>1, <2>2
  <2> QED BY <1>8, <2>3 DEF ChipsAre, TableOK
<1>10. ASSUME NEW q \in S
       PROVE  /\ ~b.allIn[q] => ~s.allIn[q] /\ (q \in Holdem!InHand(s) => b.chips[q] > 0)
              /\ b.stakes[q] - b.bets[q] = s.stakes[q] - s.bets[q]
  <2>1. ASSUME ~b.allIn[q], q \in Holdem!InHand(s) PROVE b.chips[q] > 0
    <3>1. s.chips[q] > 0
      BY <1>5, <1>8, <2>1 DEF TableOK, HandOK
    <3>2. q = p => s.chips[q] # a
      BY <1>5, <1>8, <2>1
    <3>3. s.chips[q] = chips[q] + (IF q = p THEN a ELSE 0) /\ chips[q] \in Nat /\ s.chips[q] \in Nat
      BY <1>1, <1>4
    <3>4. \A m, n \in Nat : (m = n + a /\ m # a => n > 0) /\ (m = n + 0 /\ m > 0 => n > 0)
      OBVIOUS
    <3> QED BY <1>8, <3>1, <3>2, <3>3, <3>4
  <2>2. \A m, n \in Nat : (m + a) - (n + a) = m - n /\ (m + 0) - (n + 0) = m - n
    OBVIOUS
  <2>3. s.stakes[q] \in Nat /\ s.bets[q] \in Nat
    BY <1>1
  <2> QED BY <1>3, <1>5, <1>8, <2>1, <2>2, <2>3
<1> QED BY <1>3, <1>7, <1>8, <1>9, <1>10 DEF b, p

\* A bet of an amount that at most matches the current one, or raises it.
LEMMA BettingOK ==
  ASSUME TableOK(host), Holdem!Betting(host), NEW a \in Nat, a <= Holdem!Own
  PROVE  /\ a <= Holdem!ToCall => HandOK(Holdem!Bet(host, a))
         /\ a = Holdem!ToCall => ActedOK(Holdem!Bet(host, a))
         /\ a >= Holdem!ToCall => ActedOK(Holdem!Raised(host, a))
<1> DEFINE p == host.turn
           b == Holdem!Bet(host, a)
           r == Holdem!Raised(host, a)
           S == Holdem!Seats
<1>1. /\ host \in Tables /\ p \in S /\ host.bets \in [S -> Nat] /\ host.currentBet \in Nat
      /\ p \in Holdem!InHand(host) /\ HandOK(host)
  BY DEF TableOK, Tables
<1>2. /\ b \in Tables /\ ChipsAre(b)
      /\ b.turn = p /\ b.phase = host.phase /\ b.folded = host.folded /\ b.currentBet = host.currentBet
      /\ \A q \in S : b.bets[q] = host.bets[q] + IF q = p THEN a ELSE 0
      /\ \A q \in S : (~b.allIn[q] => ~host.allIn[q] /\ (q \in Holdem!InHand(host) => b.chips[q] > 0))
      /\ \A q \in S : b.stakes[q] - b.bets[q] = host.stakes[q] - host.bets[q]
  BY BetOK DEF Holdem!Own
<1> HIDE DEF b
<1>3. Holdem!InHand(b) = Holdem!InHand(host) /\ \A q \in Holdem!InHand(host) : q \in S
  BY <1>2 DEF Holdem!InHand
<1>4. Holdem!Betting(b)
  BY <1>2 DEF Holdem!Betting
<1>5. \A q \in Holdem!InHand(b) :
        ~b.allIn[q] => /\ b.chips[q] > 0
                       /\ \A o \in S : b.stakes[o] - b.bets[o] <= b.stakes[q] - b.bets[q]
  BY <1>1, <1>2, <1>3 DEF HandOK
<1>6. \A q \in S : host.bets[q] \in Nat /\ host.bets[q] <= host.currentBet
  BY <1>1 DEF HandOK
<1>7. /\ a <= Holdem!ToCall => host.bets[p] + a <= host.currentBet
      /\ a = Holdem!ToCall => host.bets[p] + a = host.currentBet
      /\ a >= Holdem!ToCall => host.bets[p] + a >= host.currentBet
  <2>1. \A m, n \in Nat : /\ a <= m - n => n + a <= m
                          /\ a = m - n => n + a = m
                          /\ a >= m - n => n + a >= m
    OBVIOUS
  <2> QED BY <1>1, <1>6, <2>1 DEF Holdem!ToCall
<1>8. ASSUME a <= Holdem!ToCall PROVE HandOK(b)
  <2>1. ASSUME NEW q \in S PROVE b.bets[q] <= b.currentBet
    <3>1. \A m \in Nat : m + 0 = m
      OBVIOUS
    <3> QED BY <1>2, <1>6, <1>7, <1>8, <3>1
  <2> QED BY <1>5, <2>1 DEF HandOK
<1>9. ASSUME a = Holdem!ToCall PROVE ActedOK(b)
  <2>1. a <= Holdem!ToCall
    BY <1>9
  <2>2. b.bets[p] = b.currentBet
    BY <1>1, <1>2, <1>7, <1>9
  <2> QED BY <1>1, <1>2, <1>3, <1>4, <1>8, <2>1, <2>2 DEF ActedOK
<1>10. ASSUME a >= Holdem!ToCall PROVE ActedOK(r)
  <2> DEFINE acted == [q \in S |-> q = p]
             n == b.bets[p]
  <2>1. r = [b EXCEPT !.currentBet = n, !.acted = acted]
    BY DEF Holdem!Raised, b
  <2>2. acted \in [S -> BOOLEAN] /\ n \in Nat
    BY <1>1, <1>2 DEF Tables
  <2> HIDE DEF acted, n, r
  <2>3. [b EXCEPT !.currentBet = n] \in Tables
    BY <1>2, <2>2 DEF Tables
  <2>4. r \in Tables
    BY <2>1, <2>2, <2>3 DEF Tables
  <2>5. /\ r.turn = p /\ r.phase = b.phase /\ r.folded = b.folded /\ r.currentBet = n
        /\ r.bets = b.bets /\ r.allIn = b.allIn /\ r.stakes = b.stakes /\ r.chips = b.chips
        /\ r.pot = b.pot /\ r.bonuses = b.bonuses
    BY <1>2, <2>1 DEF Tables
  <2>6. ASSUME NEW q \in S PROVE b.bets[q] <= n
    <3>1. \A m \in Nat : m + 0 = m
      OBVIOUS
    <3>2. n = host.bets[p] + a /\ n >= host.currentBet
      BY <1>1, <1>2, <1>7, <1>10 DEF n
    <3>3. CASE q = p
      BY <2>2, <3>3 DEF n
    <3>4. CASE q # p
      <4>1. b.bets[q] = host.bets[q]
        BY <1>2, <1>6, <3>1, <3>4
      <4>2. \A i, j, k \in Nat : i <= j /\ k >= j => i <= k
        OBVIOUS
      <4> QED BY <1>1, <1>6, <2>2, <3>2, <4>1, <4>2
    <3> QED BY <3>3, <3>4
  <2>7. Holdem!InHand(r) = Holdem!InHand(b)
    BY <2>5 DEF Holdem!InHand
  <2>8. HandOK(r)
    BY <1>5, <2>5, <2>6, <2>7 DEF HandOK
  <2>9. ChipsAre(r) /\ Holdem!Betting(r)
    BY <1>2, <1>4, <2>5 DEF ChipsAre, Holdem!Betting
  <2>10. r.bets[r.turn] >= r.currentBet
    BY <2>2, <2>5 DEF n
  <2> QED BY <1>1, <1>3, <2>4, <2>7, <2>8, <2>9, <2>10 DEF ActedOK
<1> QED BY <1>8, <1>9, <1>10 DEF b

\* Who is all in is not asked again.
LEMMA AllInOK ==
  ASSUME NEW s \in Tables, ChipsAre(s), Holdem!Betting(s), HandOK(s), Holdem!InHand(s) # {}
  PROVE  LET t == [s EXCEPT !.allIn[s.turn] = TRUE] IN ActedOK(t) /\ t.phase = s.phase
<1> DEFINE a == [s.allIn EXCEPT ![s.turn] = TRUE]
           t == [s EXCEPT !.allIn = a]
<1>1. s.allIn \in [Holdem!Seats -> BOOLEAN] /\ s.turn \in Holdem!Seats
  BY DEF Tables
<1>2. /\ a \in [Holdem!Seats -> BOOLEAN] /\ a[s.turn]
      /\ \A q \in Holdem!Seats : ~a[q] => ~s.allIn[q]
  BY <1>1
<1>3. [s EXCEPT !.allIn[s.turn] = TRUE] = t
  BY DEF Tables
<1> HIDE DEF a
<1>4. /\ t \in Tables /\ t.allIn = a /\ t.turn = s.turn /\ t.phase = s.phase /\ t.folded = s.folded
      /\ t.bets = s.bets /\ t.currentBet = s.currentBet /\ t.chips = s.chips /\ t.stakes = s.stakes
      /\ t.pot = s.pot /\ t.bonuses = s.bonuses
  BY <1>2 DEF Tables
<1> HIDE DEF t
<1>5. Holdem!InHand(t) = Holdem!InHand(s) /\ \A q \in Holdem!InHand(s) : q \in Holdem!Seats
  BY <1>4 DEF Holdem!InHand
<1>6. HandOK(t)
  BY <1>2, <1>4, <1>5 DEF HandOK
<1>7. t.turn \notin Holdem!Acting(t)
  BY <1>2, <1>4 DEF Holdem!Acting
<1> QED BY <1>3, <1>4, <1>5, <1>6, <1>7 DEF ActedOK, ChipsAre, Holdem!Betting

\* What the players do in their turn
LEMMA ActOK ==
  ASSUME TableOK(host), Holdem!Act
  PROVE  \E s : ActedOK(s) /\ s.phase = host.phase /\ Holdem!AfterAction(s)
<1> DEFINE p == host.turn
           S == Holdem!Seats
           own == Holdem!Own
           call == Holdem!ToCall
<1>1. Holdem!Betting(host)
  BY DEF Holdem!Act, Holdem!Fold, Holdem!Check, Holdem!Call, Holdem!Raise, Holdem!AllIn
<1>2. /\ host \in Tables /\ p \in S /\ p \in Holdem!InHand(host) /\ HandOK(host) /\ ChipsAre(host)
      /\ Cardinality(Holdem!InHand(host)) > 1
      /\ host.folded \in [S -> BOOLEAN] /\ host.acted \in [S -> BOOLEAN]
  BY <1>1 DEF TableOK, Tables
<1>3. own \in Nat /\ call \in Nat
  <2>1. host.chips[p] \in Nat /\ host.currentBet \in Nat /\ host.bets[p] \in Nat
    BY <1>2 DEF Tables
  <2>2. host.bets[p] <= host.currentBet
    BY <1>2 DEF HandOK
  <2>3. \A m, n \in Nat : n <= m => m - n \in Nat
    OBVIOUS
  <2> QED BY <2>1, <2>2, <2>3 DEF Holdem!Own, Holdem!ToCall
<1>4. [host.acted EXCEPT ![p] = TRUE] \in [S -> BOOLEAN]
  BY <1>2
<1> DEFINE acted == [host.acted EXCEPT ![p] = TRUE]
<1> HIDE DEF acted
<1>5. CASE Holdem!Fold
  <2> DEFINE folded == [host.folded EXCEPT ![p] = TRUE]
             s == [host EXCEPT !.folded = folded, !.acted = acted]
  <2>1. Holdem!AfterAction(s)
    BY <1>2, <1>5 DEF Holdem!Fold, Tables, acted
  <2>2. folded \in [S -> BOOLEAN] /\ \A q \in S : ~folded[q] <=> ~host.folded[q] /\ q # p
    BY <1>2
  <2> HIDE DEF folded
  <2>3. [host EXCEPT !.folded = folded] \in Tables
    BY <1>2, <2>2 DEF Tables
  <2>4. s \in Tables
    BY <1>4, <2>3 DEF Tables, acted
  <2>5. /\ s.folded = folded /\ s.turn = p /\ s.phase = host.phase /\ s.allIn = host.allIn
        /\ s.bets = host.bets /\ s.currentBet = host.currentBet /\ s.chips = host.chips
        /\ s.stakes = host.stakes /\ s.pot = host.pot /\ s.bonuses = host.bonuses
    BY <1>2 DEF Tables
  <2> HIDE DEF s
  <2>6. Holdem!InHand(s) = Holdem!InHand(host) \ {p}
    BY <2>2, <2>5 DEF Holdem!InHand
  <2>7. Holdem!InHand(s) # {}
    <3>1. Cardinality({p}) = 1
      BY FS_Singleton
    <3>2. Holdem!InHand(host) = {p} => FALSE
      BY <1>2, <3>1
    <3> QED BY <1>2, <2>6, <3>2
  <2>8. HandOK(s) /\ ChipsAre(s) /\ Holdem!Betting(s)
    BY <1>1, <1>2, <2>5, <2>6 DEF HandOK, ChipsAre, Holdem!Betting
  <2>9. s.turn \notin Holdem!Acting(s)
    BY <2>5, <2>6 DEF Holdem!Acting
  <2>10. ActedOK(s)
    BY <2>4, <2>7, <2>8, <2>9 DEF ActedOK
  <2> QED BY <2>1, <2>5, <2>10
<1>6. CASE Holdem!Check
  <2> DEFINE s == [host EXCEPT !.acted = acted]
  <2>1. Holdem!AfterAction(s) /\ call <= 0
    BY <1>2, <1>6 DEF Holdem!Check, Tables, acted
  <2>2. s \in Tables
    BY <1>2, <1>4 DEF Tables, acted
  <2>3. /\ s.folded = host.folded /\ s.turn = p /\ s.phase = host.phase /\ s.allIn = host.allIn
        /\ s.bets = host.bets /\ s.currentBet = host.currentBet /\ s.chips = host.chips
        /\ s.stakes = host.stakes /\ s.pot = host.pot /\ s.bonuses = host.bonuses
    BY <1>2 DEF Tables
  <2> HIDE DEF s
  <2>4. Holdem!InHand(s) = Holdem!InHand(host)
    BY <2>3 DEF Holdem!InHand
  <2>5. HandOK(s) /\ ChipsAre(s) /\ Holdem!Betting(s)
    BY <1>1, <1>2, <2>3, <2>4 DEF HandOK, ChipsAre, Holdem!Betting
  <2>6. s.bets[s.turn] >= s.currentBet
    <3>1. host.currentBet \in Nat /\ host.bets[p] \in Nat
      BY <1>2 DEF Tables
    <3>2. \A m, n \in Nat : m - n <= 0 => n >= m
      OBVIOUS
    <3> QED BY <2>1, <2>3, <3>1, <3>2 DEF Holdem!ToCall
  <2>7. ActedOK(s)
    BY <1>2, <2>2, <2>4, <2>5, <2>6 DEF ActedOK
  <2> QED BY <2>1, <2>3, <2>7
<1>7. CASE Holdem!Call
  <2>1. call <= own /\ Holdem!AfterAction(Holdem!Bet(host, call))
    BY <1>3, <1>7 DEF Holdem!Call
  <2>2. ActedOK(Holdem!Bet(host, call)) /\ Holdem!Bet(host, call).phase = host.phase
    BY <1>1, <1>3, <2>1, BettingOK, BetOK DEF Holdem!Own
  <2> QED BY <2>1, <2>2
<1>8. CASE Holdem!Raise
  <2>1. PICK a \in (call + Blinds[host.level][2])..own : Holdem!AfterAction(Holdem!Raised(host, a))
    BY <1>8 DEF Holdem!Raise
  <2>2. Blinds[host.level][2] \in Nat
    <3>1. host.level \in 1..Len(Blinds)
      BY <1>2 DEF Tables
    <3>2. Blinds[host.level] \in Nat \X Nat
      BY <3>1, HoldemAssumption
    <3> QED BY <3>2
  <2>3. a \in Nat /\ a >= call /\ a <= own
    <3> HIDE DEF call, own
    <3> QED BY <1>3, <2>2
  <2>4. ActedOK(Holdem!Raised(host, a))
    BY <1>1, <2>3, BettingOK
  <2>5. Holdem!Raised(host, a).phase = host.phase
    <3>1. Holdem!Bet(host, a) \in Tables /\ Holdem!Bet(host, a).phase = host.phase
      BY <1>1, <2>3, BetOK DEF Holdem!Own
    <3> QED BY <3>1 DEF Holdem!Raised, Tables
  <2> QED BY <2>1, <2>4, <2>5
<1>9. CASE Holdem!AllIn
  <2> DEFINE b == IF own > call THEN Holdem!Raised(host, own) ELSE Holdem!Bet(host, own)
  <2>1. Holdem!AfterAction([b EXCEPT !.allIn[p] = TRUE])
    BY <1>9 DEF Holdem!AllIn
  <2>2. Holdem!Bet(host, own) \in Tables /\ Holdem!Bet(host, own).phase = host.phase
        /\ ChipsAre(Holdem!Bet(host, own)) /\ Holdem!Bet(host, own).turn = p
        /\ Holdem!Bet(host, own).folded = host.folded
    BY <1>1, <1>3, BetOK DEF Holdem!Own
  <2>3. CASE own > call
    <3>1. own >= call /\ own <= own
      BY <1>3, <2>3
    <3>2. ActedOK(b) /\ b = Holdem!Raised(host, own)
      BY <1>1, <1>3, <2>3, <3>1, BettingOK
    <3>3. b.turn = p /\ b.phase = host.phase
      BY <2>2, <3>2 DEF Holdem!Raised, Tables
    <3> HIDE DEF b
    <3>4. /\ b \in Tables /\ ChipsAre(b) /\ Holdem!Betting(b) /\ HandOK(b) /\ Holdem!InHand(b) # {}
      BY <3>2 DEF ActedOK
    <3> QED BY <2>1, <3>3, <3>4, AllInOK
  <2>4. CASE ~(own > call)
    <3>1. own <= call /\ own <= own
      BY <1>3, <2>4
    <3>2. HandOK(b) /\ b = Holdem!Bet(host, own)
      BY <1>1, <1>3, <2>4, <3>1, BettingOK
    <3> HIDE DEF b
    <3>3. /\ b \in Tables /\ ChipsAre(b) /\ Holdem!Betting(b) /\ Holdem!InHand(b) # {}
          /\ b.turn = p /\ b.phase = host.phase
      BY <1>1, <1>2, <2>2, <3>2 DEF Holdem!Betting, Holdem!InHand
    <3> QED BY <2>1, <3>2, <3>3, AllInOK
  <2> QED BY <2>3, <2>4
<1> QED BY <1>5, <1>6, <1>7, <1>8, <1>9 DEF Holdem!Act

\* The blinds are posted by two who have chips, of what they have.
LEMMA StartHandOK ==
  ASSUME NEW s \in Tables, ChipsAre(s), s.pot = 0,
         Cardinality({p \in Holdem!Seats : s.chips[p] > 0}) > 1
  PROVE  TableOK(Holdem!StartHand(s)) /\ Holdem!Betting(Holdem!StartHand(s))
<1> DEFINE S == Holdem!Seats
           live == {p \in S : s.chips[p] > 0}
           sb == Holdem!FirstFrom((s.dealer + 1) % NumSeats, live)
           bb == Holdem!FirstFrom((sb + 1) % NumSeats, live)
           to == Holdem!FirstFrom((bb + 1) % NumSeats, live)
           blind == Blinds[s.level]
           m1 == Holdem!Min({blind[1], s.chips[sb]})
           m2 == Holdem!Min({blind[2], s.chips[bb]})
           posts == [p \in S |-> IF p = sb THEN Holdem!Min({blind[1], s.chips[p]})
                                 ELSE IF p = bb THEN Holdem!Min({blind[2], s.chips[p]}) ELSE 0]
           chips == [p \in S |-> s.chips[p] - posts[p]]
           folded == [p \in S |-> p \notin live]
           allIn == [p \in S |-> p \in live /\ posts[p] = s.chips[p]]
           t == Holdem!StartHand(s)
<1>1. /\ s.chips \in [S -> Nat] /\ s.dealer \in S /\ s.level \in 1..Len(Blinds) /\ s.dealt \in Nat
  BY DEF Tables
<1>2. live \in SUBSET S /\ live # {} /\ \A p \in S : live # {p}
  <2>1. live \in SUBSET S /\ Cardinality(live) > 1
    OBVIOUS
  <2> HIDE DEF live
  <2>2. ASSUME NEW p, live = {p} PROVE FALSE
    <3>1. Cardinality({p}) = 1
      BY FS_Singleton
    <3>2. Cardinality(live) = 1
      BY <2>2, <3>1
    <3> QED BY <2>1, <3>2
  <2>3. live # {}
    <3>1. Cardinality({}) = 0
      BY FS_EmptySet
    <3>2. live = {} => Cardinality(live) = 0
      BY <3>1
    <3> QED BY <2>1, <3>2
  <2> QED BY <2>1, <2>2, <2>3
<1> HIDE DEF live
<1>3. sb \in live /\ sb \in S
  BY <1>1, <1>2, FirstIs
<1> HIDE DEF sb
<1>4. bb \in live /\ bb \in S /\ bb # sb
  BY <1>2, <1>3, FirstIs
<1> HIDE DEF bb
<1>5. to \in live /\ to \in S
  BY <1>2, <1>4, FirstIs
<1> HIDE DEF to
<1>6. blind[1] \in Nat /\ blind[2] \in Nat /\ blind[1] <= blind[2]
  <2>1. blind \in Nat \X Nat
    BY <1>1, HoldemAssumption
  <2>2. blind[1] <= blind[2]
    BY <1>1, HoldemAssumption
  <2> QED BY <2>1, <2>2
<1> HIDE DEF blind
<1>7. \A a, c \in Nat : Holdem!Min({a, c}) \in Nat /\ Holdem!Min({a, c}) <= a /\ Holdem!Min({a, c}) <= c
  <2>1. SUFFICES ASSUME NEW a \in Nat, NEW c \in Nat
                 PROVE  Holdem!Min({a, c}) \in Nat /\ Holdem!Min({a, c}) <= a /\ Holdem!Min({a, c}) <= c
    OBVIOUS
  <2>2. {a, c} \in SUBSET Nat /\ {a, c} # {}
    OBVIOUS
  <2> QED BY <2>2, SeatsAre
<1>8. /\ m1 \in Nat /\ m1 <= blind[1] /\ m1 <= s.chips[sb]
      /\ m2 \in Nat /\ m2 <= blind[2] /\ m2 <= s.chips[bb]
  BY <1>1, <1>3, <1>4, <1>6, <1>7
<1>9. \A p \in S : posts[p] = IF p = sb THEN m1 ELSE IF p = bb THEN m2 ELSE 0
  OBVIOUS
<1>10. t = [s EXCEPT !.chips = chips, !.bets = posts, !.stakes = posts, !.pot = posts[sb] + posts[bb],
                     !.folded = folded, !.allIn = allIn, !.acted = [p \in S |-> FALSE],
                     !.phase = "preflop", !.currentBet = blind[2], !.dealt = @ + 1, !.turn = to]
  BY <1>1 DEF Holdem!StartHand, Holdem!All, Tables, to, bb, sb, live, blind
<1> HIDE DEF t, m1, m2
<1>11. posts \in [S -> Nat] /\ \A p \in S : posts[p] <= s.chips[p] /\ posts[p] <= blind[2]
  <2>1. ASSUME NEW p \in S
        PROVE  posts[p] \in Nat /\ posts[p] <= s.chips[p] /\ posts[p] <= blind[2]
    <3>1. \A i, j, k \in Nat : i <= j /\ j <= k => i <= k
      OBVIOUS
    <3>2. s.chips[p] \in Nat /\ 0 <= blind[2] /\ 0 <= s.chips[p]
      BY <1>1, <1>6
    <3>3. m1 <= blind[2]
      BY <1>6, <1>8, <3>1
    <3> QED BY <1>8, <1>9, <3>2, <3>3
  <2> HIDE DEF posts
  <2>2. posts = [p \in S |-> posts[p]]
    BY DEF posts
  <2> QED BY <2>1, <2>2
<1>12. posts[sb] = m1 /\ posts[bb] = m2
  BY <1>3, <1>4, <1>9
<1> HIDE DEF posts
<1>13. /\ chips \in [S -> Nat]
       /\ \A p \in S : s.chips[p] = chips[p] + posts[p] /\ (posts[p] # s.chips[p] => chips[p] > 0)
  <2>1. \A m, n \in Nat : n <= m => m - n \in Nat /\ m = (m - n) + n /\ (n # m => m - n > 0)
    OBVIOUS
  <2>2. ASSUME NEW p \in S
        PROVE  chips[p] \in Nat /\ s.chips[p] = chips[p] + posts[p] /\ (posts[p] # s.chips[p] => chips[p] > 0)
    <3>1. s.chips[p] \in Nat /\ posts[p] \in Nat /\ posts[p] <= s.chips[p]
      BY <1>1, <1>11
    <3> QED BY <2>1, <3>1
  <2>3. chips = [p \in S |-> chips[p]]
    OBVIOUS
  <2> HIDE DEF chips
  <2> QED BY <2>2, <2>3
<1>14. folded \in [S -> BOOLEAN] /\ allIn \in [S -> BOOLEAN]
       /\ \A p \in S : (~folded[p] <=> p \in live) /\ (p \in live /\ ~allIn[p] => posts[p] # s.chips[p])
  OBVIOUS
<1> HIDE DEF chips, folded, allIn
<1>15. posts[sb] + posts[bb] \in Nat /\ s.dealt + 1 \in Nat /\ blind[2] \in Nat
  BY <1>1, <1>6, <1>8, <1>12
<1>16. t \in Tables
  <2>1. [s EXCEPT !.chips = chips, !.bets = posts, !.stakes = posts] \in Tables
    BY <1>11, <1>13 DEF Tables
  <2>2. [s EXCEPT !.chips = chips, !.bets = posts, !.stakes = posts, !.pot = posts[sb] + posts[bb],
                  !.folded = folded] \in Tables
    BY <1>14, <1>15, <2>1 DEF Tables
  <2>3. [s EXCEPT !.chips = chips, !.bets = posts, !.stakes = posts, !.pot = posts[sb] + posts[bb],
                  !.folded = folded, !.allIn = allIn, !.acted = [p \in S |-> FALSE]] \in Tables
    BY <1>14, <2>2 DEF Tables
  <2>4. [s EXCEPT !.chips = chips, !.bets = posts, !.stakes = posts, !.pot = posts[sb] + posts[bb],
                  !.folded = folded, !.allIn = allIn, !.acted = [p \in S |-> FALSE],
                  !.phase = "preflop", !.currentBet = blind[2]] \in Tables
    BY <1>15, <2>3 DEF Tables
  <2> DEFINE u == [s EXCEPT !.chips = chips, !.bets = posts, !.stakes = posts,
                            !.pot = posts[sb] + posts[bb],
                            !.folded = folded, !.allIn = allIn, !.acted = [p \in S |-> FALSE],
                            !.phase = "preflop", !.currentBet = blind[2]]
  <2>5. t = [u EXCEPT !.dealt = s.dealt + 1, !.turn = to]
    BY <1>10 DEF Tables
  <2>6. u \in Tables
    BY <2>4
  <2> HIDE DEF u
  <2>7. [u EXCEPT !.dealt = s.dealt + 1] \in Tables
    BY <1>15, <2>6 DEF Tables
  <2>8. [u EXCEPT !.dealt = s.dealt + 1, !.turn = to] \in Tables
    BY <1>5, <2>7 DEF Tables
  <2> QED BY <2>5, <2>8
<1>17. /\ t.chips = chips /\ t.bets = posts /\ t.stakes = posts /\ t.pot = posts[sb] + posts[bb]
       /\ t.folded = folded /\ t.allIn = allIn /\ t.phase = "preflop" /\ t.currentBet = blind[2]
       /\ t.turn = to /\ t.bonuses = s.bonuses
  BY <1>10 DEF Tables
<1>18. Holdem!Betting(t) /\ Holdem!InHand(t) = live
  BY <1>2, <1>14, <1>17 DEF Holdem!Betting, Holdem!InHand
<1>19. HandOK(t)
  <2>1. \A p \in Holdem!InHand(t) : p \in S /\ p \in live
    BY <1>2, <1>18
  <2>2. ASSUME NEW p \in S, NEW q \in S PROVE posts[q] - posts[q] <= posts[p] - posts[p]
    <3>1. \A m, n \in Nat : n - n <= m - m
      OBVIOUS
    <3> QED BY <1>11, <3>1
  <2>3. \A p \in S : p \in live /\ ~allIn[p] => chips[p] > 0
    BY <1>13, <1>14
  <2> QED BY <1>11, <1>17, <2>1, <2>2, <2>3 DEF HandOK
<1>20. ChipsAre(t)
  <2> DEFINE f == [p \in S |-> IF p = sb THEN m1 ELSE 0]
             none == [p \in S |-> 0]
  <2>1. IsFiniteSet(S)
    BY SeatsAre
  <2>2. \A p \in S : none[p] \in Nat /\ f[p] = none[p] + (IF p = sb THEN m1 ELSE 0)
    BY <1>8
  <2>21. \A p \in S : none[p] = IF p \in {} THEN 0 ELSE 0
    OBVIOUS
  <2>22. 0 \in Nat
    OBVIOUS
  <2>3. \A p \in S : f[p] \in Nat /\ posts[p] = f[p] + (IF p = bb THEN m2 ELSE 0)
    <3>1. \A m \in Nat : m + 0 = m /\ 0 + m = m
      OBVIOUS
    <3> QED BY <1>4, <1>8, <1>9, <3>1
  <2> HIDE DEF f, none, S
  <2>4. Worth(none, S) = 0
    <3>1. {} \cap S = {} /\ Cardinality({}) = 0
      BY FS_EmptySet
    <3>2. Worth(none, S) = 0 * Cardinality({} \cap S)
      BY <2>1, <2>21, <2>22, WorthShared
    <3> QED BY <3>1, <3>2
  <2>5. Worth(f, S) = Worth(none, S) + m1
    BY <1>3, <1>8, <2>1, <2>2, WorthAtOne DEF S
  <2>6. Worth(posts, S) = Worth(f, S) + m2
    BY <1>4, <1>8, <2>1, <2>3, WorthAtOne DEF S
  <2>7. Worth(posts, S) = m1 + m2
    BY <1>8, <2>4, <2>5, <2>6
  <2> DEFINE g == s.chips
  <2>8. \A p \in S : chips[p] \in Nat /\ posts[p] \in Nat /\ g[p] = chips[p] + posts[p]
    BY <1>11, <1>13 DEF S
  <2> HIDE DEF g
  <2>9. Worth(g, S) = Worth(chips, S) + Worth(posts, S)
    BY <2>1, <2>8, WorthPlus
  <2>10. Worth(chips, S) \in Nat
    BY <2>1, <2>8, WorthIs
  <2>11. Worth(g, S) + 0 = NumSeats * StartChips + Bonus * s.bonuses
    BY DEF ChipsAre, g, S
  <2>12. Worth(chips, S) + (m1 + m2) = Worth(g, S) + 0
    BY <1>8, <2>7, <2>9, <2>10
  <2> QED BY <1>12, <1>17, <2>11, <2>12 DEF ChipsAre, S
<1>21. Cardinality(Holdem!InHand(t)) > 1
  BY <1>18 DEF live
<1> QED BY <1>5, <1>16, <1>17, <1>18, <1>19, <1>20, <1>21 DEF TableOK, t

\* The first hand is dealt with the chips of the start.
LEMMA HoldemInit == Holdem!Init => HoldemInv
<1> SUFFICES ASSUME Holdem!Init PROVE HoldemInv
  OBVIOUS
<1> DEFINE c == Holdem!Created
           S == Holdem!Seats
<1>1. c \in Tables /\ c.chips = [p \in S |-> StartChips] /\ c.pot = 0 /\ c.bonuses = 0
  <2>1. 0 \in S /\ StartChips \in Nat
    BY SeatsAre, HoldemAssumption
  <2>2. 1 \in 1..Len(Blinds)
    <3>1. Len(Blinds) \in Nat /\ Len(Blinds) # 0
      BY HoldemAssumption, EmptySeq
    <3> QED BY <3>1
  <2> QED BY <2>1, <2>2 DEF Holdem!Created, Holdem!All, Tables
<1> HIDE DEF c
<1>2. {p \in S : c.chips[p] > 0} = S
  BY <1>1, HoldemAssumption
<1>3. Cardinality(S) > 1
  BY SeatsAre, HoldemAssumption
<1>4. ChipsAre(c)
  <2> DEFINE f == c.chips
  <2>1. S \cap S = S /\ \A p \in S : f[p] = IF p \in S THEN StartChips ELSE 0
    BY <1>1
  <2>11. \A p \in S : f[p] = IF p \in S THEN StartChips ELSE 0
    BY <2>1
  <2>12. IsFiniteSet(S) /\ StartChips \in Nat
    BY SeatsAre, HoldemAssumption
  <2> HIDE DEF f, S
  <2>2. Worth(f, S) = StartChips * Cardinality(S \cap S)
    BY <2>11, <2>12, WorthShared
  <2>3. Worth(f, S) = StartChips * NumSeats
    BY <2>1, <2>2, SeatsAre DEF S
  <2>4. StartChips * NumSeats + 0 = NumSeats * StartChips + Bonus * 0
    BY HoldemAssumption
  <2> QED BY <1>1, <2>3, <2>4 DEF ChipsAre, f, S
<1>5. host = Holdem!StartHand(c)
  BY DEF Holdem!Init, c
<1> QED BY <1>1, <1>2, <1>3, <1>4, <1>5, StartHandOK DEF HoldemInv

\* A step keeps the inductive invariant, and a street ends on even stakes.
LEMMA HoldemStep ==
  ASSUME HoldemInv, Holdem!Next PROVE HoldemInv' /\ Holdem!EvenStakes
<1>1. HoldemInv' <=> TableOK(host')
  BY DEF HoldemInv, TableOK, ChipsAre, HandOK, Tables, Holdem!Betting, Holdem!InHand
<1>2. TableOK(host)
  BY DEF HoldemInv
<1>3. CASE Holdem!Act
  <2>1. PICK s : ActedOK(s) /\ s.phase = host.phase /\ Holdem!AfterAction(s)
    BY <1>2, <1>3, ActOK
  <2>2. /\ TableOK(host')
        /\ host'.phase # s.phase /\ Cardinality(Holdem!InHand(host')) > 1 => EvenIn(host')
    BY <2>1, AfterActionOK
  <2>3. Holdem!EvenStakes
    <3>1. SUFFICES ASSUME host'.phase # host.phase, Cardinality(Holdem!InHand(host')) > 1,
                          NEW p \in Holdem!InHand(host'), NEW q \in Holdem!Seats, ~host'.allIn[p]
                   PROVE  host'.stakes[p] >= host'.stakes[q]
      BY CountsAre DEF Holdem!EvenStakes
    <3>2. host'.stakes[q] <= host'.stakes[p]
      BY <2>1, <2>2, <3>1 DEF EvenIn
    <3>3. host'.stakes[q] \in Nat /\ host'.stakes[p] \in Nat
      BY <2>2 DEF TableOK, Tables, Holdem!InHand
    <3> QED BY <3>2, <3>3
  <2> QED BY <1>1, <2>2, <2>3
<1>4. CASE Holdem!NextHand
  <2> DEFINE live == {p \in Holdem!Seats : host.chips[p] > 0}
             d == Holdem!FirstFrom((host.dealer + 1) % NumSeats, live)
             s == [host EXCEPT !.dealer = d]
  <2>1. /\ host \in Tables /\ host.phase = "handOver" /\ ~Holdem!Betting(host) /\ host.pot = 0
        /\ ChipsAre(host)
    BY <1>2, <1>4 DEF TableOK, Holdem!NextHand, Holdem!Betting
  <2>2. Holdem!EvenStakes
    BY <2>1 DEF Holdem!EvenStakes
  <2>3. CASE host' = [host EXCEPT !.phase = "gameOver"]
    <3>1. /\ host' \in Tables /\ host'.phase = "gameOver" /\ host'.pot = 0 /\ host'.chips = host.chips
          /\ host'.bonuses = host.bonuses
      BY <2>1, <2>3 DEF Tables
    <3>2. TableOK(host')
      BY <2>1, <3>1 DEF TableOK, ChipsAre, Holdem!Betting
    <3> QED BY <1>1, <2>2, <3>2
  <2>4. CASE ~(Cardinality(live) <= 1) /\ host' = Holdem!StartHand(s)
    <3>1. Cardinality(live) > 1
      <4>0. live \in SUBSET Holdem!Seats
        OBVIOUS
      <4> HIDE DEF live
      <4>1. IsFiniteSet(live)
        BY <4>0, SeatsAre, FS_Subset
      <4>2. Cardinality(live) \in Nat
        BY <4>1, FS_CardinalityType
      <4> QED BY <2>4, <4>2
    <3>2. d \in Holdem!Seats
      <4>1. live \in SUBSET Holdem!Seats /\ live # {}
        BY <3>1, FS_EmptySet
      <4>2. host.dealer \in Holdem!Seats
        BY <2>1 DEF Tables
      <4> HIDE DEF live
      <4> QED BY <4>1, <4>2, FirstIs
    <3> HIDE DEF d
    <3>3. s \in Tables /\ s.chips = host.chips /\ s.pot = 0 /\ s.bonuses = host.bonuses
      BY <2>1, <3>2 DEF Tables
    <3>4. ChipsAre(s)
      BY <2>1, <3>3 DEF ChipsAre
    <3> HIDE DEF s
    <3>5. TableOK(Holdem!StartHand(s))
      BY <3>1, <3>3, <3>4, StartHandOK
    <3> QED BY <1>1, <2>2, <2>4, <3>5
  <2> QED BY <1>4, <2>1, <2>3, <2>4, CountsAre DEF Holdem!NextHand, Tables
<1>5. CASE Holdem!RaiseBlinds
  <2>1. host \in Tables /\ host.level < Len(Blinds) /\ host' = [host EXCEPT !.level = @ + 1]
    BY <1>2, <1>5 DEF TableOK, Holdem!RaiseBlinds
  <2>2. host.level + 1 \in 1..Len(Blinds)
    <3>1. host.level \in 1..Len(Blinds) /\ Len(Blinds) \in Nat
      BY <2>1, HoldemAssumption DEF Tables
    <3> QED BY <2>1, <3>1
  <2>3. /\ host' \in Tables /\ host'.phase = host.phase /\ host'.pot = host.pot
        /\ host'.chips = host.chips /\ host'.bonuses = host.bonuses /\ host'.folded = host.folded
        /\ host'.allIn = host.allIn /\ host'.bets = host.bets /\ host'.stakes = host.stakes
        /\ host'.currentBet = host.currentBet /\ host'.turn = host.turn
    BY <2>1, <2>2 DEF Tables
  <2>4. Holdem!InHand(host') = Holdem!InHand(host) /\ (Holdem!Betting(host') <=> Holdem!Betting(host))
    BY <2>3 DEF Holdem!InHand, Holdem!Betting
  <2>5. TableOK(host')
    BY <1>2, <2>3, <2>4 DEF TableOK, ChipsAre, HandOK
  <2>6. Holdem!EvenStakes
    BY <2>3 DEF Holdem!EvenStakes
  <2> QED BY <1>1, <2>5, <2>6
<1> QED BY <1>3, <1>4, <1>5 DEF Holdem!Next

\* What the inductive invariant is for
LEMMA HoldemKept == HoldemInv => Holdem!ChipsConserved /\ Holdem!TurnMatters
<1> SUFFICES ASSUME HoldemInv PROVE Holdem!ChipsConserved /\ Holdem!TurnMatters
  OBVIOUS
<1>1. TableOK(host)
  BY DEF HoldemInv
<1>2. \A p \in Holdem!Seats : host.chips[p] \in Nat
  BY <1>1 DEF TableOK, Tables
<1>3. Holdem!Total(host.chips) = Worth(host.chips, Holdem!Seats)
  BY <1>2, SeatsAre, TotalIs
<1>4. Holdem!ChipsConserved
  BY <1>1, <1>2, <1>3 DEF Holdem!ChipsConserved, TableOK, ChipsAre
<1>5. Holdem!TurnMatters
  BY <1>1, CountsAre DEF Holdem!TurnMatters, TableOK
<1> QED BY <1>4, <1>5
-----------------------------------------------------------------------------
(* War. The cards are in the two decks and on the table. *)

WarTables == [decks : [1..2 -> Seq(Nat)], shown : Seq(Nat),
              phase : {"ready", "compare", "war", "gameOver"}, round : Nat,
              flipped : [1..2 -> BOOLEAN], told : Nat]

\* The host has flipped only where no card is on the table, and then both have cards.
WarOK(s) ==
  /\ s \in WarTables
  /\ s.flipped[1] => s.phase = "ready"
  /\ s.phase = "ready" => s.shown = <<>> /\ \A p \in 1..2 : s.decks[p] # <<>>

WarInv == WarOK(host) /\ toHost \in Seq([type : {"flip"}])

WarCount(s, r) == CountIn(s.decks[1], r) + CountIn(s.decks[2], r) + CountIn(s.shown, r)

\* Of the eight cards of a battle the first three and the seventh are the
\* host's: where they lie in the pile, and where a card of the pile was.
IsHosts(i) == ((i - 1) % 8) < 3 \/ ((i - 1) % 8) = 6
HostsAt(j) == 8 * ((j - 1) \div 4) + (IF ((j - 1) % 4) < 3 THEN ((j - 1) % 4) + 1 ELSE 7)
GuestsAt(j) == 8 * ((j - 1) \div 4) + (IF ((j - 1) % 4) < 3 THEN ((j - 1) % 4) + 4 ELSE 8)
FromHosts(i) == 4 * ((i - 1) \div 8) + (IF ((i - 1) % 8) < 3 THEN ((i - 1) % 8) + 1 ELSE 4)
FromGuests(i) == 4 * ((i - 1) \div 8) + (IF ((i - 1) % 8) < 6 THEN ((i - 1) % 8) - 2 ELSE 4)

\* A card of either deck is put down at one place.
LEMMA PutDown ==
  ASSUME NEW k \in Nat, NEW j \in 1..(4 * k)
  PROVE  /\ HostsAt(j) \in 1..(8 * k) /\ IsHosts(HostsAt(j)) /\ FromHosts(HostsAt(j)) = j
         /\ GuestsAt(j) \in 1..(8 * k) /\ ~IsHosts(GuestsAt(j)) /\ FromGuests(GuestsAt(j)) = j
BY DEF HostsAt, GuestsAt, IsHosts, FromHosts, FromGuests

\* A card of the pile was at one place of one deck.
LEMMA TakenFrom ==
  ASSUME NEW k \in Nat, NEW i \in 1..(8 * k)
  PROVE  /\ IsHosts(i) => FromHosts(i) \in 1..(4 * k) /\ HostsAt(FromHosts(i)) = i
         /\ ~IsHosts(i) => FromGuests(i) \in 1..(4 * k) /\ GuestsAt(FromGuests(i)) = i
BY DEF HostsAt, GuestsAt, IsHosts, FromHosts, FromGuests

\* The pile, card by card
LEMMA FoughtIs ==
  ASSUME NEW d, NEW k \in Nat
  PROVE  /\ War!Fought(d, k) = [i \in 1..(8 * k) |-> War!Fought(d, k)[i]]
         /\ \A i \in 1..(8 * k) : War!Fought(d, k)[i] = IF IsHosts(i) THEN d[1][FromHosts(i)]
                                                        ELSE d[2][FromGuests(i)]
<1>1. ASSUME NEW i \in 1..(8 * k)
      PROVE  War!Fought(d, k)[i] = IF IsHosts(i) THEN d[1][FromHosts(i)] ELSE d[2][FromGuests(i)]
  <2> DEFINE b == 4 * ((i - 1) \div 8)
             n == (i - 1) % 8
  <2>1. War!Fought(d, k)[i] = IF n < 3 THEN d[1][b + n + 1]
                              ELSE IF n < 6 THEN d[2][b + n - 2] ELSE d[n - 5][b + 4]
    BY DEF War!Fought
  <2>2. n \in 0..7 /\ b \in Nat
    OBVIOUS
  <2>3. /\ FromHosts(i) = b + (IF n < 3 THEN n + 1 ELSE 4)
        /\ FromGuests(i) = b + (IF n < 6 THEN n - 2 ELSE 4)
        /\ IsHosts(i) <=> n < 3 \/ n = 6
    BY DEF FromHosts, FromGuests, IsHosts
  <2> HIDE DEF b, n
  <2>4. /\ b + n + 1 = b + (n + 1) /\ b + n - 2 = b + (n - 2)
        /\ n < 3 \/ n \in {3, 4, 5} \/ n = 6 \/ n = 7
    BY <2>2
  <2>5. CASE n < 3
    BY <2>1, <2>3, <2>4, <2>5
  <2>6. CASE n \in {3, 4, 5}
    BY <2>1, <2>3, <2>4, <2>6
  <2>7. CASE n = 6
    BY <2>1, <2>3, <2>7
  <2>8. CASE n = 7
    BY <2>1, <2>3, <2>8
  <2> QED BY <2>4, <2>5, <2>6, <2>7, <2>8
<1>2. War!Fought(d, k) = [i \in 1..(8 * k) |-> War!Fought(d, k)[i]]
  BY DEF War!Fought
<1> QED BY <1>1, <1>2

\* The cards of the battles are the first of either deck.
LEMMA FoughtOK ==
  ASSUME NEW d \in [1..2 -> Seq(Nat)], NEW k \in Nat, \A p \in 1..2 : 4 * k <= Len(d[p]), NEW r
  PROVE  /\ War!Fought(d, k) \in Seq(Nat)
         /\ CountIn(War!Fought(d, k), r)
              = CountIn(SubSeq(d[1], 1, 4 * k), r) + CountIn(SubSeq(d[2], 1, 4 * k), r)
<1> DEFINE f == War!Fought(d, k)
           P1 == {i \in 1..(8 * k) : f[i] = r /\ IsHosts(i)}
           P2 == {i \in 1..(8 * k) : f[i] = r /\ ~IsHosts(i)}
           Q1 == {j \in 1..(4 * k) : d[1][j] = r}
           Q2 == {j \in 1..(4 * k) : d[2][j] = r}
<1>1. \A p \in 1..2 : /\ d[p] \in Seq(Nat) /\ Len(d[p]) \in Nat
                      /\ \A i \in 1..Len(d[p]) : d[p][i] \in Nat
  BY LenProperties, ElementOfSeq
<1>3. /\ f = [i \in 1..(8 * k) |-> f[i]]
      /\ \A i \in 1..(8 * k) : f[i] = IF IsHosts(i) THEN d[1][FromHosts(i)] ELSE d[2][FromGuests(i)]
  BY FoughtIs
<1>4. \A i \in 1..(8 * k) :
        /\ IsHosts(i) => FromHosts(i) \in 1..(4 * k) /\ HostsAt(FromHosts(i)) = i
        /\ ~IsHosts(i) => FromGuests(i) \in 1..(4 * k) /\ GuestsAt(FromGuests(i)) = i
  BY TakenFrom
<1>5. \A j \in 1..(4 * k) :
        /\ HostsAt(j) \in 1..(8 * k) /\ IsHosts(HostsAt(j)) /\ FromHosts(HostsAt(j)) = j
        /\ GuestsAt(j) \in 1..(8 * k) /\ ~IsHosts(GuestsAt(j)) /\ FromGuests(GuestsAt(j)) = j
  BY PutDown
<1> HIDE DEF f
<1>6. Q1 = {j \in 1..(4 * k) : d[1][j] = r} /\ Q2 = {j \in 1..(4 * k) : d[2][j] = r}
  OBVIOUS
<1>7. f \in Seq(Nat)
  <2>1. \A p \in 1..2, j \in 1..(4 * k) : d[p][j] \in Nat
    <3>1. ASSUME NEW p \in 1..2, NEW j \in 1..(4 * k) PROVE d[p][j] \in Nat
      <4>1. j \in 1..Len(d[p])
        BY <1>1
      <4> QED BY <1>1, <4>1
    <3> QED BY <3>1
  <2>2. \A i \in 1..(8 * k) : f[i] \in Nat
    <3>1. ASSUME NEW i \in 1..(8 * k) PROVE f[i] \in Nat
      <4>1. CASE IsHosts(i)
        <5>1. FromHosts(i) \in 1..(4 * k) /\ f[i] = d[1][FromHosts(i)]
          BY <1>3, <1>4, <4>1
        <5> QED BY <2>1, <5>1
      <4>2. CASE ~IsHosts(i)
        <5>1. FromGuests(i) \in 1..(4 * k) /\ f[i] = d[2][FromGuests(i)]
          BY <1>3, <1>4, <4>2
        <5> QED BY <2>1, <5>1
      <4> QED BY <4>1, <4>2
    <3> QED BY <3>1
  <2>3. f \in [1..(8 * k) -> Nat] /\ 8 * k \in Nat
    BY <1>3, <2>2
  <2> QED BY <2>3, SeqDef
<1>8. IsFiniteSet(P1) /\ IsFiniteSet(P2) /\ IsFiniteSet(Q1) /\ IsFiniteSet(Q2)
  <2>1. 1 \in Int /\ 8 * k \in Int /\ 4 * k \in Int
    OBVIOUS
  <2>2. IsFiniteSet(1..(8 * k)) /\ IsFiniteSet(1..(4 * k))
    BY <2>1, FS_Interval
  <2>3. P1 \in SUBSET (1..(8 * k)) /\ P2 \in SUBSET (1..(8 * k))
        /\ Q1 \in SUBSET (1..(4 * k)) /\ Q2 \in SUBSET (1..(4 * k))
    OBVIOUS
  <2> HIDE DEF P1, P2, Q1, Q2
  <2> QED BY <2>2, <2>3, FS_Subset
<1>9. Cardinality(P1) = Cardinality(Q1)
  <2> DEFINE g == [j \in Q1 |-> HostsAt(j)]
  <2>1. g \in Bijection(Q1, P1)
    <3>1. \A j \in Q1 : g[j] \in P1
      BY <1>3, <1>5
    <3>2. \A i, j \in Q1 : g[i] = g[j] => i = j
      BY <1>5
    <3>3. \A i \in P1 : \E j \in Q1 : g[j] = i
      <4> SUFFICES ASSUME NEW i \in P1 PROVE \E j \in Q1 : g[j] = i
        OBVIOUS
      <4>1. FromHosts(i) \in Q1 /\ g[FromHosts(i)] = i
        BY <1>3, <1>4
      <4> QED BY <4>1
    <3> QED BY <3>1, <3>2, <3>3 DEF Bijection, Injection, Surjection, IsInjective
  <2> HIDE DEF g, P1, Q1
  <2>2. ExistsBijection(Q1, P1)
    BY <2>1 DEF ExistsBijection
  <2> QED BY <1>8, <2>2, FS_Bijection
<1>10. Cardinality(P2) = Cardinality(Q2)
  <2> DEFINE g == [j \in Q2 |-> GuestsAt(j)]
  <2>1. g \in Bijection(Q2, P2)
    <3>1. \A j \in Q2 : g[j] \in P2
      BY <1>3, <1>5
    <3>2. \A i, j \in Q2 : g[i] = g[j] => i = j
      BY <1>5
    <3>3. \A i \in P2 : \E j \in Q2 : g[j] = i
      <4> SUFFICES ASSUME NEW i \in P2 PROVE \E j \in Q2 : g[j] = i
        OBVIOUS
      <4>1. FromGuests(i) \in Q2 /\ g[FromGuests(i)] = i
        BY <1>3, <1>4
      <4> QED BY <4>1
    <3> QED BY <3>1, <3>2, <3>3 DEF Bijection, Injection, Surjection, IsInjective
  <2> HIDE DEF g, P2, Q2
  <2>2. ExistsBijection(Q2, P2)
    BY <2>1 DEF ExistsBijection
  <2> QED BY <1>8, <2>2, FS_Bijection
<1>11. CountIn(f, r) = Cardinality(P1) + Cardinality(P2)
  <2>1. {i \in DOMAIN f : f[i] = r} = P1 \cup P2 /\ P1 \cap P2 = {}
    BY <1>3
  <2> HIDE DEF P1, P2
  <2>2. Cardinality(P1 \cup P2) = Cardinality(P1) + Cardinality(P2) - Cardinality(P1 \cap P2)
    BY <1>8, FS_Union
  <2>3. Cardinality(P1 \cap P2) = 0
    BY <2>1, FS_EmptySet
  <2>4. Cardinality(P1) \in Nat /\ Cardinality(P2) \in Nat
    BY <1>8, FS_CardinalityType
  <2>5. CountIn(f, r) = Cardinality(P1 \cup P2)
    BY <2>1 DEF CountIn
  <2> QED BY <2>1, <2>2, <2>3, <2>4, <2>5
<1>12. \A p \in 1..2 : CountIn(SubSeq(d[p], 1, 4 * k), r) = Cardinality({j \in 1..(4 * k) : d[p][j] = r})
  <2> SUFFICES ASSUME NEW p \in 1..2
               PROVE  CountIn(SubSeq(d[p], 1, 4 * k), r) = Cardinality({j \in 1..(4 * k) : d[p][j] = r})
    OBVIOUS
  <2> DEFINE s == SubSeq(d[p], 1, 4 * k)
             t == d[p]
  <2>1. t \in Seq(Nat) /\ Len(t) \in Nat /\ 4 * k <= Len(t) /\ \A i \in 1..Len(t) : t[i] \in Nat
    BY <1>1
  <2>2. DOMAIN s = 1..(4 * k) /\ \A j \in 1..(4 * k) : s[j] = t[j]
    BY <2>1
  <2> HIDE DEF s, t
  <2>3. {j \in DOMAIN s : s[j] = r} = {j \in 1..(4 * k) : t[j] = r}
    BY <2>2
  <2> QED BY <2>3 DEF CountIn, s, t
<1> QED BY <1>6, <1>7, <1>9, <1>10, <1>11, <1>12 DEF f

\* Who has no card has lost, and the cards stay where they are.
LEMMA JudgedOK ==
  ASSUME NEW s \in WarTables, s.phase = "ready", s.shown = <<>>, ~s.flipped[1]
  PROVE  /\ WarOK(War!Judged(s))
         /\ War!Judged(s).decks = s.decks /\ War!Judged(s).shown = s.shown
<1> DEFINE t == War!Judged(s)
<1>1. t = s \/ \E w \in Nat : t = [s EXCEPT !.phase = "gameOver", !.told = w]
  BY DEF War!Judged, War!Host, War!Guest, War!Draw
<1>2. t.phase = "ready" => \A p \in 1..2 : s.decks[p] # <<>>
  <2>1. \A p \in 1..2 : s.decks[p] = <<>> => Len(s.decks[p]) = 0
    BY EmptySeq
  <2>2. (\E p \in 1..2 : Len(s.decks[p]) = 0) => t.phase = "gameOver"
    BY DEF War!Judged, War!Host, War!Guest, WarTables
  <2> QED BY <2>1, <2>2
<1> HIDE DEF t
<1>3. t \in WarTables /\ t.decks = s.decks /\ t.shown = s.shown /\ ~t.flipped[1]
  <2>1. CASE t = s
    BY <2>1
  <2>2. ASSUME NEW w \in Nat, t = [s EXCEPT !.phase = "gameOver", !.told = w]
        PROVE  t \in WarTables /\ t.decks = s.decks /\ t.shown = s.shown /\ t.flipped = s.flipped
    BY <2>2 DEF WarTables
  <2> QED BY <1>1, <2>1, <2>2
<1> QED BY <1>2, <1>3 DEF WarOK, t

\* The winner's cards go under the deck.
LEMMA WonOK ==
  ASSUME NEW s \in WarTables, NEW w \in 1..2, NEW decks \in [1..2 -> Seq(Nat)], NEW cards \in Seq(Nat)
  PROVE  LET t == War!Won(s, w, decks, cards)
         IN /\ WarOK(t)
            /\ \A r : WarCount(t, r) = CountIn(decks[1], r) + CountIn(decks[2], r) + CountIn(cards, r)
<1> DEFINE ds == [decks EXCEPT ![w] = decks[w] \o cards]
           u == [s EXCEPT !.decks = ds, !.shown = <<>>, !.phase = "ready",
                          !.flipped = War!Unflipped, !.told = 0]
           t == War!Won(s, w, decks, cards)
<1>1. decks[1] \in Seq(Nat) /\ decks[2] \in Seq(Nat) /\ decks[w] \o cards \in Seq(Nat)
  BY ConcatProperties
<1>2. ds \in [1..2 -> Seq(Nat)]
  BY <1>1
<1>3. u \in WarTables /\ u.phase = "ready" /\ u.shown = <<>> /\ u.decks = ds /\ ~u.flipped[1]
  <2>1. [s EXCEPT !.decks = ds, !.shown = <<>>, !.phase = "ready"] \in WarTables
    BY <1>2, EmptySeq DEF WarTables
  <2>2. War!Unflipped \in [1..2 -> BOOLEAN] /\ ~War!Unflipped[1]
    BY DEF War!Unflipped, War!Players, War!Host, War!Guest
  <2> HIDE DEF ds
  <2> QED BY <2>1, <2>2 DEF WarTables
<1>4. t = War!Judged(u)
  BY DEF War!Won, War!None
<1> HIDE DEF u
<1>5. WarOK(t) /\ t.decks = ds /\ t.shown = <<>>
  BY <1>3, <1>4, JudgedOK
<1> HIDE DEF t
<1>6. ASSUME NEW r
      PROVE  WarCount(t, r) = CountIn(decks[1], r) + CountIn(decks[2], r) + CountIn(cards, r)
  <2>1. /\ CountIn(decks[1], r) \in Nat /\ CountIn(decks[2], r) \in Nat /\ CountIn(cards, r) \in Nat
        /\ CountIn(<<>>, r) = 0
    BY <1>1, CountIsNat, CountNone
  <2>2. CountIn(decks[w] \o cards, r) = CountIn(decks[w], r) + CountIn(cards, r)
    <3> DEFINE a == decks[w]
    <3>1. a \in Seq(Nat)
      OBVIOUS
    <3> HIDE DEF a
    <3>2. CountIn(a \o cards, r) = CountIn(a, r) + CountIn(cards, r)
      BY <3>1, CountConcat
    <3> QED BY <3>2 DEF a
  <2>3. WarCount(t, r) = CountIn(ds[1], r) + CountIn(ds[2], r) + CountIn(<<>>, r)
    BY <1>5 DEF WarCount
  <2>4. CASE w = 1
    <3>1. ds[1] = decks[1] \o cards /\ ds[2] = decks[2]
      BY <2>4
    <3> QED BY <2>1, <2>2, <2>3, <2>4, <3>1
  <2>5. CASE w = 2
    <3>1. ds[2] = decks[2] \o cards /\ ds[1] = decks[1]
      BY <2>5
    <3> QED BY <2>1, <2>2, <2>3, <2>5, <3>1
  <2> QED BY <2>4, <2>5
<1> QED BY <1>5, <1>6 DEF t

\* One card of each deck goes on the empty table.
LEMMA FlipBothOK ==
  ASSUME NEW s, WarOK(s), s.phase = "ready"
  PROVE  LET t == War!FlipBoth(s)
         IN WarOK(t) /\ \A r : WarCount(t, r) = WarCount(s, r)
<1> DEFINE a == s.decks[1]
           b == s.decks[2]
           ds == [p \in 1..2 |-> Tail(s.decks[p])]
           c == <<Head(a), Head(b)>>
           t == [s EXCEPT !.decks = ds, !.shown = c, !.phase = "compare", !.round = s.round + 1,
                          !.flipped = War!Unflipped, !.told = 0]
<1>1. s \in WarTables /\ s.shown = <<>> /\ \A p \in 1..2 : s.decks[p] \in Seq(Nat) /\ s.decks[p] # <<>>
  BY DEF WarOK, WarTables
<1>2. War!FlipBoth(s) = t
  BY <1>1 DEF War!FlipBoth, War!Players, War!Host, War!Guest, War!None, WarTables
<1>3. \A p \in 1..2 : Head(s.decks[p]) \in Nat /\ Tail(s.decks[p]) \in Seq(Nat)
  BY <1>1, HeadTailProperties
<1>4. ds \in [1..2 -> Seq(Nat)] /\ c \in Seq(Nat)
  BY <1>3
<1>5. ds[1] = Tail(a) /\ ds[2] = Tail(b) /\ Head(a) \in Nat /\ Head(b) \in Nat
      /\ a \in Seq(Nat) /\ b \in Seq(Nat) /\ a # <<>> /\ b # <<>>
  BY <1>1, <1>3
<1> HIDE DEF ds
<1>6. WarOK(t) /\ t.decks = ds /\ t.shown = c
  <2>1. [s EXCEPT !.decks = ds, !.shown = c, !.phase = "compare"] \in WarTables
    BY <1>1, <1>4 DEF WarTables
  <2>2. War!Unflipped \in [1..2 -> BOOLEAN] /\ ~War!Unflipped[1] /\ s.round + 1 \in Nat
    BY <1>1 DEF WarTables, War!Unflipped, War!Players, War!Host, War!Guest
  <2> HIDE DEF c
  <2>3. t \in WarTables
    BY <2>1, <2>2 DEF WarTables
  <2>4. ~t.flipped[1] /\ t.phase = "compare" /\ t.decks = ds /\ t.shown = c
    BY <1>1, <2>2 DEF WarTables
  <2> HIDE DEF t
  <2> QED BY <2>3, <2>4 DEF WarOK
<1> HIDE DEF t
<1>7. ASSUME NEW r PROVE WarCount(t, r) = WarCount(s, r)
  <2>1. ASSUME NEW e \in Seq(Nat), e # <<>>
        PROVE  CountIn(e, r) = (IF Head(e) = r THEN 1 ELSE 0) + CountIn(Tail(e), r) /\ CountIn(Tail(e), r) \in Nat
    <3>1. <<Head(e)>> \in Seq(Nat) /\ Tail(e) \in Seq(Nat) /\ e = <<Head(e)>> \o Tail(e)
      BY <2>1, HeadTailProperties
    <3>2. CountIn(<<Head(e)>> \o Tail(e), r) = CountIn(<<Head(e)>>, r) + CountIn(Tail(e), r)
      BY <3>1, CountConcat
    <3> QED BY <3>1, <3>2, CountOne, CountIsNat
  <2>2. CountIn(c, r) = (IF Head(a) = r THEN 1 ELSE 0) + (IF Head(b) = r THEN 1 ELSE 0)
    <3>1. ASSUME NEW x \in Nat, NEW y \in Nat
          PROVE  CountIn(<<x, y>>, r) = (IF x = r THEN 1 ELSE 0) + (IF y = r THEN 1 ELSE 0)
      <4> DEFINE e == <<x>>
      <4>1. e \in Seq(Nat) /\ <<x, y>> = Append(e, y) /\ CountIn(e, r) = IF x = r THEN 1 ELSE 0
        BY CountOne
      <4> HIDE DEF e
      <4>2. CountIn(Append(e, y), r) = CountIn(e, r) + (IF y = r THEN 1 ELSE 0)
        BY <4>1, CountAppend
      <4> QED BY <4>1, <4>2
    <3> QED BY <1>5, <3>1
  <2>3. WarCount(s, r) = CountIn(a, r) + CountIn(b, r) + 0
    BY <1>1, CountNone DEF WarCount
  <2>4. WarCount(t, r) = CountIn(Tail(a), r) + CountIn(Tail(b), r) + CountIn(c, r)
    BY <1>5, <1>6 DEF WarCount
  <2> HIDE DEF a, b, c
  <2> QED BY <1>5, <2>1, <2>2, <2>3, <2>4
<1> QED BY <1>2, <1>6, <1>7

\* A flip of the host, or one of the guest in any phase
LEMMA WarFlipOK ==
  ASSUME NEW s, WarOK(s), NEW p \in 1..2, p = 1 => s.phase = "ready"
  PROVE  LET t == War!Flip(s, p)
         IN WarOK(t) /\ \A r : WarCount(t, r) = WarCount(s, r)
<1>1. s \in WarTables /\ War!Other(p) \in 1..2 /\ (p = 2 => War!Other(p) = 1)
  BY DEF WarOK, War!Other
<1>2. CASE s.flipped[War!Other(p)]
  <2>1. s.phase = "ready"
    BY <1>1, <1>2 DEF WarOK
  <2> QED BY <1>2, <2>1, FlipBothOK DEF War!Flip
<1>3. CASE ~s.flipped[War!Other(p)]
  <2> DEFINE fl == [s.flipped EXCEPT ![p] = TRUE]
             t == [s EXCEPT !.flipped = fl, !.told = 4]
  <2>1. War!Flip(s, p) = t
    BY <1>3 DEF War!Flip, War!Untold
  <2>3. fl \in [1..2 -> BOOLEAN] /\ (p = 2 => fl[1] = s.flipped[1])
    <3> DEFINE g == s.flipped
    <3>1. g \in [1..2 -> BOOLEAN]
      BY <1>1 DEF WarTables
    <3> HIDE DEF g
    <3>2. [g EXCEPT ![p] = TRUE] \in [1..2 -> BOOLEAN]
      BY <3>1
    <3>3. p = 2 => [g EXCEPT ![p] = TRUE][1] = g[1]
      BY <3>1
    <3> QED BY <3>2, <3>3 DEF g
  <2> HIDE DEF fl
  <2>2. t \in WarTables /\ t.decks = s.decks /\ t.shown = s.shown /\ t.phase = s.phase
        /\ t.flipped = fl
    BY <1>1, <2>3 DEF WarTables
  <2> HIDE DEF t
  <2> QED BY <2>1, <2>2, <2>3 DEF WarOK, WarCount
<1> QED BY <1>2, <1>3

\* Two cards compared are the winner's, or a war begins.
LEMMA ResolveCompareOK ==
  ASSUME NEW s, WarOK(s)
  PROVE  LET t == War!ResolveCompare(s)
         IN (s.phase = "compare" => WarOK(t)) /\ \A r : WarCount(t, r) = WarCount(s, r)
<1>1. s \in WarTables /\ s.shown \in Seq(Nat) /\ s.decks \in [1..2 -> Seq(Nat)]
  BY DEF WarOK, WarTables
<1> DEFINE c == s.shown
           w == IF c[1] > c[2] THEN 1 ELSE 2
<1>2. CASE c[1] = c[2]
  <2> DEFINE t == [s EXCEPT !.phase = "war", !.told = 0]
  <2>1. War!ResolveCompare(s) = t
    BY <1>2 DEF War!ResolveCompare, War!None
  <2>2. t \in WarTables /\ t.decks = s.decks /\ t.shown = s.shown /\ t.phase = "war"
        /\ t.flipped = s.flipped
    BY <1>1 DEF WarTables
  <2> HIDE DEF t
  <2> QED BY <2>1, <2>2 DEF WarOK, WarCount
<1>3. CASE c[1] # c[2]
  <2>1. War!ResolveCompare(s) = War!Won(s, w, s.decks, c) /\ w \in 1..2
    BY <1>3 DEF War!ResolveCompare, War!Host, War!Guest
  <2> HIDE DEF w
  <2> QED BY <1>1, <2>1, WonOK DEF WarCount
<1> QED BY <1>2, <1>3

\* A war keeps the cards, wherever it ends.
LEMMA ResolveWarOK ==
  ASSUME NEW s, WarOK(s)
  PROVE  LET t == War!ResolveWar(s)
         IN WarOK(t) /\ \A r : WarCount(t, r) = WarCount(s, r)
<1> DEFINE d == s.decks
           short(p, k) == Len(d[p]) < 4 * k
           ends(k) == short(1, k) \/ short(2, k) \/ d[1][4 * k] # d[2][4 * k]
           K == {k \in 1..(Len(d[1]) + 1) : ends(k)}
           last == War!Min(K)
           rest(p, k) == SubSeq(d[p], 4 * k + 1, Len(d[p]))
           pile(k) == s.shown \o War!Fought(d, k)
           taken(p, q) == rest(q, last - 1) \o pile(last - 1) \o rest(p, last - 1)
           cleared == [s EXCEPT !.shown = <<>>, !.phase = "gameOver", !.flipped = War!Unflipped]
           t == War!ResolveWar(s)
<1>1. /\ s \in WarTables /\ s.shown \in Seq(Nat) /\ d \in [1..2 -> Seq(Nat)]
      /\ d[1] \in Seq(Nat) /\ d[2] \in Seq(Nat) /\ Len(d[1]) \in Nat /\ Len(d[2]) \in Nat
  BY LenProperties DEF WarOK, WarTables
<1>2. last \in Nat \ {0} /\ ends(last) /\ \A k \in K : last <= k
  <2>1. K \subseteq Nat \ {0} /\ Len(d[1]) + 1 \in K
    BY <1>1
  <2> HIDE DEF K
  <2>2. \E x \in K : \A y \in K : x <= y
    BY <2>1, LeastExists
  <2>3. last \in K /\ \A k \in K : last <= k
    BY <2>2 DEF War!Min
  <2> HIDE DEF last
  <2> QED BY <2>1, <2>3 DEF K
<1>3. \/ short(1, last)
         /\ t = [cleared EXCEPT !.decks = <<<<>>, taken(1, 2)>>, !.told = 2]
      \/ short(2, last)
         /\ t = [cleared EXCEPT !.decks = <<taken(2, 1), <<>>>>, !.told = 1]
      \/ ~short(1, last) /\ ~short(2, last) /\ \E w \in 1..2 :
           t = War!Won(s, w, <<rest(1, last), rest(2, last)>>, pile(last))
  BY DEF War!ResolveWar, War!Host, War!Guest, War!Other
<1>4. \A p \in 1..2 : ~short(p, last - 1)
  <2>1. CASE last = 1
    BY <1>1, <2>1
  <2>2. CASE last # 1
    <3>1. last \in Nat /\ last - 1 \in Nat \ {0} /\ last - 1 < last
      BY <1>2, <2>2
    <3> HIDE DEF K
    <3>2. last - 1 \notin K
      <4>1. \A k \in K : last <= k
        BY <1>2 DEF K
      <4> HIDE DEF last
      <4> QED BY <3>1, <4>1
    <3>3. last - 1 \in 1..(Len(d[1]) + 1)
      <4>1. last <= Len(d[1]) + 1
        <5>1. Len(d[1]) + 1 \in K
          BY <1>1 DEF K
        <5>2. \A k \in K : last <= k
          BY <1>2 DEF K
        <5> HIDE DEF last
        <5> QED BY <5>1, <5>2
      <4> HIDE DEF last
      <4> QED BY <1>1, <3>1, <4>1
    <3>4. ~ends(last - 1)
      BY <3>2, <3>3 DEF K
    <3> QED BY <3>4
  <2> QED BY <2>1, <2>2
<1>5. last - 1 \in Nat
  BY <1>2
<1> HIDE DEF last
\* The cards the first j battles and the rest of the decks make up
<1>6. ASSUME NEW j \in Nat, \A p \in 1..2 : ~short(p, j)
      PROVE  /\ pile(j) \in Seq(Nat) /\ rest(1, j) \in Seq(Nat) /\ rest(2, j) \in Seq(Nat)
             /\ \A r : /\ CountIn(rest(1, j), r) + CountIn(rest(2, j), r) + CountIn(pile(j), r)
                            = WarCount(s, r)
                       /\ CountIn(rest(1, j), r) \in Nat /\ CountIn(rest(2, j), r) \in Nat
                       /\ CountIn(pile(j), r) \in Nat
  <2> DEFINE a == d[1]
             b == d[2]
             n == 4 * j
             f == War!Fought(d, j)
             c == s.shown
  <2>1. /\ a \in Seq(Nat) /\ b \in Seq(Nat) /\ c \in Seq(Nat)
        /\ n \in Nat /\ n \in 0..Len(a) /\ n \in 0..Len(b)
    BY <1>1, <1>6
  <2>2. /\ f \in Seq(Nat)
        /\ \A r : CountIn(f, r) = CountIn(SubSeq(a, 1, n), r) + CountIn(SubSeq(b, 1, n), r)
    <3>1. \A p \in 1..2 : 4 * j <= Len(d[p])
      BY <1>1, <1>6
    <3> QED BY <1>1, <3>1, FoughtOK
  <2> HIDE DEF a, b, n, f, c
  <2>3. ASSUME NEW e \in Seq(Nat), n \in 0..Len(e)
        PROVE  /\ SubSeq(e, n + 1, Len(e)) \in Seq(Nat)
               /\ \A r : /\ CountIn(SubSeq(e, 1, n), r) \in Nat
                         /\ CountIn(SubSeq(e, n + 1, Len(e)), r) \in Nat
                         /\ CountIn(e, r) = CountIn(SubSeq(e, 1, n), r) + CountIn(SubSeq(e, n + 1, Len(e)), r)
    <3>1. SubSeq(e, 1, n) \in Seq(Nat) /\ SubSeq(e, n + 1, Len(e)) \in Seq(Nat)
      BY <2>3, CountCut
    <3>2. \A r : CountIn(e, r) = CountIn(SubSeq(e, 1, n), r) + CountIn(SubSeq(e, n + 1, Len(e)), r)
      BY <2>3, CountCut
    <3> QED BY <3>1, <3>2, CountIsNat
  <2>4. c \o f \in Seq(Nat) /\ \A r : CountIn(c \o f, r) = CountIn(c, r) + CountIn(f, r)
    BY <2>1, <2>2, ConcatProperties, CountConcat
  <2>5. \A r : CountIn(c, r) \in Nat
    BY <2>1, CountIsNat
  <2>6. /\ SubSeq(a, n + 1, Len(a)) \in Seq(Nat) /\ SubSeq(b, n + 1, Len(b)) \in Seq(Nat)
        /\ \A r : /\ CountIn(SubSeq(a, n + 1, Len(a)), r) + CountIn(SubSeq(b, n + 1, Len(b)), r)
                       + CountIn(c \o f, r) = CountIn(a, r) + CountIn(b, r) + CountIn(c, r)
                  /\ CountIn(SubSeq(a, n + 1, Len(a)), r) \in Nat
                  /\ CountIn(SubSeq(b, n + 1, Len(b)), r) \in Nat
                  /\ CountIn(c \o f, r) \in Nat
    <3>1. SubSeq(a, n + 1, Len(a)) \in Seq(Nat) /\ SubSeq(b, n + 1, Len(b)) \in Seq(Nat)
      BY <2>1, <2>3
    <3>2. ASSUME NEW r
          PROVE  /\ CountIn(SubSeq(a, n + 1, Len(a)), r) + CountIn(SubSeq(b, n + 1, Len(b)), r)
                       + CountIn(c \o f, r) = CountIn(a, r) + CountIn(b, r) + CountIn(c, r)
                 /\ CountIn(SubSeq(a, n + 1, Len(a)), r) \in Nat
                 /\ CountIn(SubSeq(b, n + 1, Len(b)), r) \in Nat
                 /\ CountIn(c \o f, r) \in Nat
      <4> DEFINE a1 == CountIn(SubSeq(a, 1, n), r)
                 a2 == CountIn(SubSeq(a, n + 1, Len(a)), r)
                 b1 == CountIn(SubSeq(b, 1, n), r)
                 b2 == CountIn(SubSeq(b, n + 1, Len(b)), r)
      <4>1. /\ a1 \in Nat /\ a2 \in Nat /\ CountIn(a, r) = a1 + a2
            /\ b1 \in Nat /\ b2 \in Nat /\ CountIn(b, r) = b1 + b2
        BY <2>1, <2>3
      <4>2. CountIn(f, r) = a1 + b1 /\ CountIn(c \o f, r) = CountIn(c, r) + CountIn(f, r)
            /\ CountIn(c, r) \in Nat
        BY <2>2, <2>4, <2>5
      <4> HIDE DEF a1, a2, b1, b2
      <4>3. /\ a2 + b2 + CountIn(c \o f, r) = CountIn(a, r) + CountIn(b, r) + CountIn(c, r)
            /\ CountIn(c \o f, r) \in Nat
        BY <4>1, <4>2
      <4> QED BY <4>1, <4>3 DEF a2, b2
    <3> QED BY <3>1, <3>2
  <2> QED BY <2>4, <2>6 DEF WarCount, a, b, c, n, f
<1> HIDE DEF pile, rest, short
\* Three piles on one another
<1>7. ASSUME NEW x \in Seq(Nat), NEW y \in Seq(Nat), NEW z \in Seq(Nat)
      PROVE  /\ x \o y \o z \in Seq(Nat)
             /\ \A r : CountIn(x \o y \o z, r) = CountIn(x, r) + CountIn(y, r) + CountIn(z, r)
  <2> DEFINE xy == x \o y
  <2>1. xy \in Seq(Nat) /\ \A r : CountIn(xy, r) = CountIn(x, r) + CountIn(y, r)
    BY ConcatProperties, CountConcat
  <2> HIDE DEF xy
  <2>2. xy \o z \in Seq(Nat) /\ \A r : CountIn(xy \o z, r) = CountIn(xy, r) + CountIn(z, r)
    BY <2>1, ConcatProperties, CountConcat
  <2> QED BY <2>1, <2>2 DEF xy
\* A war that ends the game: one player has all the cards.
<1>8. ASSUME NEW ds \in [1..2 -> Seq(Nat)], NEW w \in 1..2,
             t = [cleared EXCEPT !.decks = ds, !.told = w],
             \A r : CountIn(ds[1], r) + CountIn(ds[2], r) = WarCount(s, r)
      PROVE  WarOK(t) /\ \A r : WarCount(t, r) = WarCount(s, r)
  <2>1. War!Unflipped \in [1..2 -> BOOLEAN] /\ ~War!Unflipped[1]
    BY DEF War!Unflipped, War!Players, War!Host, War!Guest
  <2>2. cleared \in WarTables /\ cleared.phase = "gameOver" /\ ~cleared.flipped[1] /\ cleared.shown = <<>>
    BY <1>1, <2>1, EmptySeq DEF WarTables
  <2> HIDE DEF cleared, t
  <2>3. t \in WarTables /\ t.phase = "gameOver" /\ ~t.flipped[1] /\ t.shown = <<>> /\ t.decks = ds
    <3> DEFINE u == [cleared EXCEPT !.decks = ds]
    <3>1. u \in WarTables /\ w \in Nat /\ t = [u EXCEPT !.told = w]
      <4>1. u \in WarTables
        BY <2>2 DEF WarTables
      <4>2. w \in Nat
        OBVIOUS
      <4> QED BY <1>8, <4>1, <4>2
    <3> HIDE DEF u
    <3>2. t \in WarTables
      BY <3>1 DEF WarTables
    <3>3. t.phase = cleared.phase /\ t.flipped = cleared.flipped /\ t.shown = cleared.shown /\ t.decks = ds
      BY <1>8, <2>2 DEF WarTables
    <3> QED BY <2>2, <3>2, <3>3
  <2>4. ASSUME NEW r PROVE WarCount(t, r) = WarCount(s, r)
    <3>1. ds[1] \in Seq(Nat) /\ ds[2] \in Seq(Nat)
      OBVIOUS
    <3>2. CountIn(ds[1], r) \in Nat /\ CountIn(ds[2], r) \in Nat /\ CountIn(<<>>, r) = 0
      BY <3>1, CountIsNat, CountNone
    <3> QED BY <1>8, <2>3, <3>2 DEF WarCount
  <2> QED BY <2>3, <2>4 DEF WarOK
<1> HIDE DEF cleared
<1>13. ASSUME NEW x \in Seq(Nat), NEW y \in Seq(Nat)
       PROVE  <<x, y>> \in [1..2 -> Seq(Nat)] /\ <<x, y>>[1] = x /\ <<x, y>>[2] = y
  OBVIOUS
<1>9. ASSUME NEW p \in 1..2, NEW q \in 1..2, {p, q} = {1, 2}
      PROVE  /\ taken(p, q) \in Seq(Nat)
             /\ \A r : CountIn(taken(p, q), r) = WarCount(s, r)
  <2> DEFINE k == last - 1
  <2>1. /\ pile(k) \in Seq(Nat) /\ rest(1, k) \in Seq(Nat) /\ rest(2, k) \in Seq(Nat)
        /\ \A r : /\ CountIn(rest(1, k), r) + CountIn(rest(2, k), r) + CountIn(pile(k), r) = WarCount(s, r)
                  /\ CountIn(rest(1, k), r) \in Nat /\ CountIn(rest(2, k), r) \in Nat
                  /\ CountIn(pile(k), r) \in Nat
    BY <1>4, <1>5, <1>6
  <2> HIDE DEF k
  <2>2. rest(p, k) \in Seq(Nat) /\ rest(q, k) \in Seq(Nat)
    BY <2>1
  <2>3. /\ rest(q, k) \o pile(k) \o rest(p, k) \in Seq(Nat)
        /\ \A r : CountIn(rest(q, k) \o pile(k) \o rest(p, k), r)
                    = CountIn(rest(q, k), r) + CountIn(pile(k), r) + CountIn(rest(p, k), r)
    BY <1>7, <2>1, <2>2
  <2>4. ASSUME NEW r PROVE CountIn(rest(q, k) \o pile(k) \o rest(p, k), r) = WarCount(s, r)
    <3>1. (p = 1 /\ q = 2) \/ (p = 2 /\ q = 1)
      BY <1>9
    <3>2. CASE p = 1 /\ q = 2
      BY <2>1, <2>3, <3>2
    <3>3. CASE p = 2 /\ q = 1
      BY <2>1, <2>3, <3>3
    <3> QED BY <3>1, <3>2, <3>3
  <2> QED BY <2>3, <2>4 DEF k
<1> HIDE DEF taken
<1>10. CASE short(1, last) /\ t = [cleared EXCEPT !.decks = <<<<>>, taken(1, 2)>>, !.told = 2]
  <2>1. taken(1, 2) \in Seq(Nat) /\ \A r : CountIn(taken(1, 2), r) = WarCount(s, r)
    BY <1>9
  <2> DEFINE none == <<>>
             ds == <<none, taken(1, 2)>>
             w == 2
  <2>2. ds \in [1..2 -> Seq(Nat)] /\ ds[1] = <<>> /\ ds[2] = taken(1, 2)
    <3>1. none \in Seq(Nat)
      BY EmptySeq
    <3>2. ds \in [1..2 -> Seq(Nat)] /\ ds[1] = none /\ ds[2] = taken(1, 2)
      <4> HIDE DEF none
      <4> QED BY <1>13, <2>1, <3>1
    <3> QED BY <3>2
  <2>3. t = [cleared EXCEPT !.decks = ds, !.told = w] /\ w \in 1..2
    BY <1>10
  <2> HIDE DEF ds, t, w
  <2>4. ASSUME NEW r PROVE CountIn(ds[1], r) + CountIn(ds[2], r) = WarCount(s, r)
    BY <2>1, <2>2, CountNone, CountIsNat
  <2> QED BY <1>8, <2>2, <2>3, <2>4 DEF t
<1>11. CASE short(2, last) /\ t = [cleared EXCEPT !.decks = <<taken(2, 1), <<>>>>, !.told = 1]
  <2>1. taken(2, 1) \in Seq(Nat) /\ \A r : CountIn(taken(2, 1), r) = WarCount(s, r)
    BY <1>9
  <2> DEFINE none == <<>>
             ds == <<taken(2, 1), none>>
             w == 1
  <2>2. ds \in [1..2 -> Seq(Nat)] /\ ds[2] = <<>> /\ ds[1] = taken(2, 1)
    <3>1. none \in Seq(Nat)
      BY EmptySeq
    <3>2. ds \in [1..2 -> Seq(Nat)] /\ ds[2] = none /\ ds[1] = taken(2, 1)
      <4> HIDE DEF none
      <4> QED BY <1>13, <2>1, <3>1
    <3> QED BY <3>2
  <2>3. t = [cleared EXCEPT !.decks = ds, !.told = w] /\ w \in 1..2
    BY <1>11
  <2> HIDE DEF ds, t, w
  <2>4. ASSUME NEW r PROVE CountIn(ds[1], r) + CountIn(ds[2], r) = WarCount(s, r)
    BY <2>1, <2>2, CountNone, CountIsNat
  <2> QED BY <1>8, <2>2, <2>3, <2>4 DEF t
<1>12. ASSUME ~short(1, last), ~short(2, last), NEW w \in 1..2,
              t = War!Won(s, w, <<rest(1, last), rest(2, last)>>, pile(last))
       PROVE  WarOK(t) /\ \A r : WarCount(t, r) = WarCount(s, r)
  <2> DEFINE ds == <<rest(1, last), rest(2, last)>>
  <2>1. /\ pile(last) \in Seq(Nat) /\ rest(1, last) \in Seq(Nat) /\ rest(2, last) \in Seq(Nat)
        /\ \A r : CountIn(rest(1, last), r) + CountIn(rest(2, last), r) + CountIn(pile(last), r)
                    = WarCount(s, r)
    BY <1>2, <1>6, <1>12
  <2>2. ds \in [1..2 -> Seq(Nat)] /\ ds[1] = rest(1, last) /\ ds[2] = rest(2, last)
    BY <2>1
  <2> HIDE DEF ds, t
  <2>3. t = War!Won(s, w, ds, pile(last))
    BY <1>12 DEF ds
  <2>4. /\ WarOK(t)
        /\ \A r : WarCount(t, r) = CountIn(ds[1], r) + CountIn(ds[2], r) + CountIn(pile(last), r)
    BY <1>1, <2>1, <2>2, <2>3, WonOK
  <2> QED BY <2>1, <2>2, <2>4
<1> HIDE DEF t
<1> QED BY <1>3, <1>10, <1>11, <1>12 DEF t

\* The cards are dealt, and none is on the table.
LEMMA WarInit == War!Init => WarInv
<1> SUFFICES ASSUME War!Init PROVE WarInv
  OBVIOUS
<1>1. PICK d \in WarDeals : host = War!Dealt(d)
  BY DEF War!Init
<1>2. d \in [1..2 -> Seq(Nat)] /\ \A p \in 1..2 : d[p] # <<>>
  BY WarAssumption
<1>3. War!Unflipped \in [1..2 -> BOOLEAN] /\ ~War!Unflipped[1]
  BY DEF War!Unflipped, War!Players, War!Host, War!Guest
<1>4. WarOK(host)
  BY <1>1, <1>2, <1>3, EmptySeq DEF War!Dealt, War!None, WarOK, WarTables
<1>5. toHost = <<>>
  BY DEF War!Init, War!NetInit
<1> QED BY <1>4, <1>5, EmptySeq DEF WarInv

\* The same cards, counted, are the same cards.
LEMMA WarCardsCount ==
  ASSUME NEW s \in WarTables, NEW t \in WarTables, \A r : WarCount(t, r) = WarCount(s, r)
  PROVE  \A c : War!Copies(War!Table(s), c) = War!Copies(War!Table(t), c)
<1>1. ASSUME NEW x \in Seq(Nat), NEW y \in Seq(Nat), NEW z \in Seq(Nat), NEW r
      PROVE  CountIn(x \o y \o z, r) = CountIn(x, r) + CountIn(y, r) + CountIn(z, r)
  <2> DEFINE xy == x \o y
  <2>1. xy \in Seq(Nat) /\ CountIn(xy, r) = CountIn(x, r) + CountIn(y, r)
    BY ConcatProperties, CountConcat
  <2> HIDE DEF xy
  <2>2. CountIn(xy \o z, r) = CountIn(xy, r) + CountIn(z, r)
    BY <2>1, CountConcat
  <2> QED BY <2>1, <2>2 DEF xy
<1>2. ASSUME NEW u \in WarTables, NEW c PROVE War!Copies(War!Table(u), c) = WarCount(u, c)
  <2>1. u.decks[1] \in Seq(Nat) /\ u.decks[2] \in Seq(Nat) /\ u.shown \in Seq(Nat)
    BY DEF WarTables
  <2>2. CountIn(War!Table(u), c) = WarCount(u, c)
    BY <1>1, <2>1 DEF War!Table, WarCount
  <2> QED BY <2>2, CountsAre DEF War!Copies, CountIn
<1> QED BY <1>2

\* A step keeps the inductive invariant and the cards.
LEMMA WarStep ==
  ASSUME WarInv, War!Next PROVE WarInv' /\ War!SameCards
<1> DEFINE Kept == WarOK(host') /\ \A r : WarCount(host', r) = WarCount(host, r)
<1>1. WarOK(host) /\ toHost \in Seq([type : {"flip"}])
  BY DEF WarInv
<1>2. WarOK(host') /\ toHost' \in Seq([type : {"flip"}]) => WarInv'
  BY DEF WarInv, WarOK, WarTables
<1>3. Kept => War!SameCards
  BY <1>1, WarCardsCount DEF War!SameCards, WarOK
<1>4. CASE War!HostFlips
  <2>1. host' = War!Flip(host, 1) /\ host.phase = "ready" /\ toHost' = toHost
    BY <1>4 DEF War!HostFlips, War!MayFlip, War!Becomes, War!Host
  <2> QED BY <1>1, <1>2, <1>3, <2>1, WarFlipOK
<1>5. CASE War!HostTakes
  <2>1. host' = War!Flip(host, 2) /\ toHost' \in Seq([type : {"flip"}])
    BY <1>1, <1>5, ClicksTravel DEF War!HostTakes, War!Becomes, War!Guest, War!Take, Speed!Take
  <2> QED BY <1>1, <1>2, <1>3, <2>1, WarFlipOK
<1>6. CASE War!Compared
  <2>1. host' = War!ResolveCompare(host) /\ host.phase = "compare" /\ toHost' = toHost
    BY <1>6 DEF War!Compared, War!Becomes
  <2> QED BY <1>1, <1>2, <1>3, <2>1, ResolveCompareOK
<1>7. CASE War!WarEnds
  <2>1. host' = War!ResolveWar(host) /\ toHost' = toHost
    BY <1>7 DEF War!WarEnds, War!Becomes
  <2> QED BY <1>1, <1>2, <1>3, <2>1, ResolveWarOK
<1>8. CASE War!GuestFlips \/ War!Transport
  <2>1. ASSUME War!GuestFlips PROVE toHost' \in Seq([type : {"flip"}])
    <3>1. [type |-> "flip"] \in [type : {"flip"}]
      OBVIOUS
    <3> QED BY <1>1, <2>1, <3>1, ClicksTravel DEF War!GuestFlips, War!Click, Speed!Click
  <2>2. ASSUME War!Transport PROVE toHost' \in Seq([type : {"flip"}])
    BY <1>1, <2>2, ClicksTravel
       DEF War!Transport, War!GuestReceives, War!LoseViews, War!LoseClicks,
           Speed!Transport, Speed!GuestReceives, Speed!LoseViews, Speed!LoseClicks
  <2>3. toHost' \in Seq([type : {"flip"}]) /\ host' = host
    <3>1. host' = host
      BY <1>8 DEF War!GuestFlips, War!Click, War!Transport, War!GuestReceives, War!LoseViews, War!LoseClicks
    <3>2. toHost' \in Seq([type : {"flip"}])
      BY <1>8, <2>1, <2>2
    <3> QED BY <3>1, <3>2
  <2> QED BY <1>1, <1>2, <1>3, <2>3
<1> QED BY <1>4, <1>5, <1>6, <1>7, <1>8 DEF War!Next
-----------------------------------------------------------------------------
(* All the games                                                           *)

\* Where a game begins, nothing is sent.
LEMMA LatestAtFirst ==
  ASSUME NEW v, toGuest = <<>>, missed = TRUE PROVE Latest(v)
BY EmptyWire DEF Latest

\* Both boards are empty.
LEMMA TttInit == Ttt!Init => TttInv /\ Even
<1> SUFFICES ASSUME Ttt!Init PROVE TttInv /\ Even
  OBVIOUS
<1>1. Ttt!Blank \in TttPages
  BY DEF Ttt!Blank, TttPages, Ttt!T!Cells, Ttt!T!Empty
<1> QED BY <1>1 DEF Ttt!Init, Ttt!NetInit, TttInv, Even

\* The inductive invariant: that of the game, and the host's last message
GamesInv ==
  /\ game \in {"speed", "memory", "war", "fish", "ttt", "holdem"}
  /\ game = "speed" => SpeedInv /\ Latest(Speed!View(host))
  /\ game = "memory" => MemoryInv /\ Latest(host)
  /\ game = "war" => WarInv /\ Latest(War!View(host))
  /\ game = "fish" => FishInv /\ Latest(Fish!View(host.now))
  /\ game = "ttt" => TttInv
  /\ game = "holdem" => HoldemInv

\* Every game begins so.
LEMMA GamesInit == Init => GamesInv
<1> SUFFICES ASSUME Init PROVE GamesInv
  OBVIOUS
<1>1. CASE game = "speed" /\ Speed!Init
  <2>1. toGuest = <<>> /\ missed = TRUE
    BY <1>1 DEF Speed!Init, Speed!NetInit
  <2> QED BY <1>1, <2>1, SpeedInit, LatestAtFirst DEF GamesInv
<1>2. CASE game = "memory" /\ Memory!Init
  <2>1. toGuest = <<>> /\ missed = FALSE /\ view = host
    BY <1>2 DEF Memory!Init, Memory!NetInit
  <2>2. Latest(host)
    BY <2>1, EmptyWire DEF Latest
  <2> QED BY <1>2, <2>2, MemoryInit DEF GamesInv
<1>3. CASE game = "war" /\ War!Init
  <2>1. toGuest = <<>> /\ missed = TRUE
    BY <1>3 DEF War!Init, War!NetInit
  <2> QED BY <1>3, <2>1, WarInit, LatestAtFirst DEF GamesInv
<1>4. CASE game = "fish" /\ Fish!Init
  <2>1. PICK s : /\ host = Fish!Drawing(s)
                 /\ \/ Fish!NetInit(TRUE)
                    \/ toGuest = <<Fish!View(s)>> /\ missed = FALSE
    BY <1>4 DEF Fish!Init
  <2>2. host.now = s
    BY <2>1 DEF Fish!Drawing
  <2>3. CASE Fish!NetInit(TRUE)
    <3>1. toGuest = <<>> /\ missed = TRUE
      BY <2>3 DEF Fish!NetInit
    <3> QED BY <1>4, <3>1, FishInit, LatestAtFirst DEF GamesInv
  <2>4. CASE toGuest = <<Fish!View(s)>> /\ missed = FALSE
    <3> DEFINE v == Fish!View(s)
    <3>1. v = Fish!View(host.now)
      BY <2>2
    <3> HIDE DEF v
    <3>2. toGuest = <<v>> /\ missed = FALSE
      BY <2>4 DEF v
    <3>3. IsWire(<<v>>)
      <4>1. <<v>> \in Seq({v})
        OBVIOUS
      <4> DEFINE w == <<v>>
      <4>2. w \in Seq({v})
        BY <4>1
      <4> HIDE DEF w
      <4>3. IsWire(w)
        BY <4>2, SeqsAreWires
      <4> QED BY <4>3 DEF w
    <3>4. Latest(v)
      BY <3>2, <3>3 DEF Latest, Final
    <3> QED BY <1>4, <3>1, <3>4, FishInit DEF GamesInv
  <2> QED BY <2>1, <2>3, <2>4
<1>5. CASE game = "ttt" /\ Ttt!Init
  BY <1>5, TttInit DEF GamesInv
<1>6. CASE game = "holdem" /\ Holdem!Init
  BY <1>6, HoldemInit DEF GamesInv
<1> QED BY <1>1, <1>2, <1>3, <1>4, <1>5, <1>6 DEF Init

\* What never changes game keeps the invariant of it.
LEMMA GamesStutter == GamesInv /\ UNCHANGED vars => GamesInv'
<1> SUFFICES ASSUME GamesInv, UNCHANGED vars PROVE GamesInv'
  OBVIOUS
<1> USE DEF vars
<1>1. SpeedInv => SpeedInv'
  BY DEF SpeedInv, SpeedOK
<1>2. MemoryInv => MemoryInv'
  BY DEF MemoryInv, TwoKinds, Memory!TableAgrees
<1>3. WarInv => WarInv'
  BY DEF WarInv, WarOK
<1>4. FishInv => FishInv'
  BY DEF FishInv, FishPage, FishClicks, FishOK, CanAsk
<1>5. TttInv => TttInv'
  BY DEF TttInv, MarkAhead
<1>6. HoldemInv => HoldemInv'
  BY DEF HoldemInv, TableOK
<1>7. /\ Latest(Speed!View(host)) => Latest(Speed!View(host))'
      /\ Latest(host) => Latest(host)'
      /\ Latest(War!View(host)) => Latest(War!View(host))'
      /\ Latest(Fish!View(host.now)) => Latest(Fish!View(host.now))'
  BY DEF Latest
<1> QED BY <1>1, <1>2, <1>3, <1>4, <1>5, <1>6, <1>7 DEF GamesInv

\* A step of a game, and what it does to the cards, the turn and the board
GamesStepOK ==
  /\ game = "speed" /\ host' # host => Speed!StallSeen
  /\ game = "memory" => Memory!MismatchEnds
  /\ game = "war" => War!SameCards
  /\ game = "ttt" => TttBoard!Next \/ Ttt!Ahead' = Ttt!Ahead
  /\ game = "holdem" => Holdem!EvenStakes

\* Every game goes on so.
LEMMA GamesStep == ASSUME GamesInv, Next PROVE GamesInv' /\ GamesStepOK
<1>1. game' = game
  BY DEF Next
<1>2. CASE game = "speed" /\ Speed!Next
  <2>1. SpeedInv' /\ (host' = host \/ Speed!StallSeen) /\ Latest(Speed!View(host))'
    BY <1>2, SpeedStep, SpeedLatest DEF GamesInv
  <2> QED BY <1>1, <1>2, <2>1 DEF GamesInv, GamesStepOK
<1>3. CASE game = "memory" /\ Memory!Next
  <2>1. MemoryInv' /\ Memory!MismatchEnds /\ Latest(host)'
    BY <1>3, MemoryStep, MemoryLatest DEF GamesInv
  <2> QED BY <1>1, <1>3, <2>1 DEF GamesInv, GamesStepOK
<1>4. CASE game = "war" /\ War!Next
  <2>1. WarInv' /\ War!SameCards /\ Latest(War!View(host))'
    BY <1>4, WarStep, WarLatest DEF GamesInv
  <2> QED BY <1>1, <1>4, <2>1 DEF GamesInv, GamesStepOK
<1>5. CASE game = "fish" /\ Fish!Next
  <2>1. FishPage
    BY <1>5 DEF GamesInv, FishInv
  <2>2. FishInv' /\ Latest(Fish!View(host.now))'
    BY <1>5, <2>1, FishStep, FishLatest DEF GamesInv
  <2> QED BY <1>1, <1>5, <2>2 DEF GamesInv, GamesStepOK
<1>6. CASE game = "ttt" /\ Ttt!Next
  <2>1. TttInv' /\ (TttBoard!Next \/ Ttt!Ahead' = Ttt!Ahead)
    BY <1>1, <1>6, TttStep, TttPlays DEF GamesInv
  <2> QED BY <1>1, <1>6, <2>1 DEF GamesInv, GamesStepOK
<1>7. CASE game = "holdem" /\ Holdem!Next
  <2>1. HoldemInv' /\ Holdem!EvenStakes
    BY <1>7, HoldemStep DEF GamesInv
  <2> QED BY <1>1, <1>7, <2>1 DEF GamesInv, GamesStepOK
<1> QED BY <1>2, <1>3, <1>4, <1>5, <1>6, <1>7 DEF Next

\* The inductive invariant holds throughout.
LEMMA GamesInductive == Spec => []GamesInv
<1>1. GamesInv /\ [Next]_vars => GamesInv'
  BY GamesStep, GamesStutter
<1> QED BY <1>1, GamesInit, PTL DEF Spec

\* What the inductive invariant is for: the cards and chips (SpeedVersus,
\* GoFishVersus, TexasHoldem) are all there.
THEOREM CardsAndChipsKept == Spec => []NothingLost
<1>1. GamesInv => NothingLost
  <2>1. SpeedInv => Speed!CardsKept
    BY KeptIs DEF SpeedInv, SpeedOK, Speed!CardsKept
  <2> QED BY <2>1, FishKept, HoldemKept DEF GamesInv, NothingLost
<1> QED BY <1>1, GamesInductive, PTL

\* Memory: however clicks and the timer that turns the cards back come, the open
\* cards, the lock and the scores agree (MemoryMultiplayer.tsx).
THEOREM MemoryAgrees == Spec => []MemoryTableAgrees
<1>1. GamesInv => MemoryTableAgrees
  BY DEF GamesInv, MemoryInv, MemoryTableAgrees
<1> QED BY <1>1, GamesInductive, PTL

\* Nobody is left with a turn that cannot be taken: a hand without cards in Go
\* Fish (GoFishMultiplayer.tsx), a hand of Hold'em that is decided.
THEOREM TurnsCanBeTaken == Spec => []TurnCanBeTaken
<1>1. GamesInv => TurnCanBeTaken
  BY FishKept, HoldemKept DEF GamesInv, TurnCanBeTaken
<1> QED BY <1>1, GamesInductive, PTL

\* A page to which nothing is on its way, and nothing was lost, shows the game of
\* the host's, or of the other page (broadcastState).
THEOREM PagesAgree == Spec => []PagesInSync
<1>1. GamesInv => PagesInSync
  <2>1. \A v : Latest(v) => Speed!Synced(v)
    BY DEF Latest, Speed!Synced
  <2>2. game = "speed" /\ Latest(Speed!View(host)) => Speed!GuestInSync
    BY <2>1 DEF Speed!GuestInSync
  <2>3. game = "memory" /\ Latest(host) => Memory!GuestInSync
    BY DEF Memory!GuestInSync, Memory!Synced, Latest
  <2>4. game = "war" /\ Latest(War!View(host)) => War!GuestInSync
    BY DEF War!GuestInSync, War!Synced, Latest
  <2>5. game = "fish" /\ Latest(Fish!View(host.now)) => Fish!GuestInSync
    BY DEF Fish!GuestInSync, Fish!Synced, Latest
  <2>6. TttInv => Ttt!PagesAgree
    BY DEF TttInv, MarkAhead, Ttt!PagesAgree
  <2> QED BY <2>2, <2>3, <2>4, <2>5, <2>6 DEF GamesInv, PagesInSync
<1> QED BY <1>1, GamesInductive, PTL

\* Once Speed is started a stall is seen by the move that makes it, a turn of Memory ends on a
\* mismatch only, and a street of Hold'em on even stakes (nextTurn, advancePhase).
THEOREM PlayPassesOnRight == Spec => PlayPassesOn
<1> DEFINE Right == /\ game = "speed" => Speed!StallSeen
                    /\ game = "memory" => Memory!MismatchEnds
                    /\ game = "holdem" => Holdem!EvenStakes
<1>1. GamesInv /\ [Next]_vars => [Right]_host
  BY GamesStep DEF GamesStepOK, vars
<1> QED BY <1>1, GamesInductive, PTL DEF Spec, PlayPassesOn

\* A flip that comes late, a comparison and a war of any length keep every card
\* (flipBoth, resolveCompare, resolveWar).
THEOREM WarKeepsCards == Spec => WarCardsKept
<1>1. GamesInv /\ [Next]_vars => [game = "war" => War!SameCards]_vars
  BY GamesStep DEF GamesStepOK, vars
<1> QED BY <1>1, GamesInductive, PTL DEF Spec, WarCardsKept

\* The two pages of Tic-tac-toe, with no server between their boards and marks on
\* their way, implement the one board (TicTacToe).
THEOREM TttIsOneGame == Spec => TttPlaysOneGame
<1>1. Init => TttBoard!Init
  <2> SUFFICES ASSUME Init PROVE TttBoard!Init
    OBVIOUS
  <2>1. CASE game = "ttt"
    <3>1. Ttt!Init
      BY <2>1 DEF Init
    <3>2. Ttt!Ahead = Ttt!Blank
      BY <3>1, TttInit, AheadIs DEF LastMarked, Ttt!Init
    <3> QED BY <2>1, <3>2 DEF TttBoard!Init, TttBoard!Cells, TttBoard!Empty, Ttt!Blank,
            Ttt!T!Cells, Ttt!T!Empty
  <2>2. CASE game # "ttt"
    BY <2>2 DEF TttBoard!Init, TttBoard!Cells, TttBoard!Empty
  <2> QED BY <2>1, <2>2
<1>2. GamesInv /\ [Next]_vars => [TttBoard!Next]_TttBoard!vars
  <2> SUFFICES ASSUME GamesInv, [Next]_vars PROVE TttBoard!Next \/ UNCHANGED TttBoard!vars
    OBVIOUS
  <2>1. game' = game
    BY DEF Next, vars
  <2>2. CASE game = "ttt"
    <3>1. TttBoard!Next \/ Ttt!Ahead' = Ttt!Ahead
      <4>1. UNCHANGED vars => Ttt!Ahead' = Ttt!Ahead
        BY DEF vars, Ttt!Ahead, Ttt!MarksOn
      <4> QED BY <2>2, <4>1, GamesStep DEF GamesStepOK
    <3> QED BY <2>1, <2>2, <3>1 DEF TttBoard!vars
  <2>3. CASE game # "ttt"
    BY <2>1, <2>3 DEF TttBoard!vars
  <2> QED BY <2>2, <2>3
<1> QED BY <1>1, <1>2, GamesInductive, PTL DEF Spec, TttPlaysOneGame, TttBoard!Spec
=============================================================================
