---------------------------- MODULE GoFishVersus ----------------------------
(* Go Fish for two players (GoFishMultiplayer.tsx). The host's page works   *)
(* on a copy of the game (gameStateRef) that an effect brings up to date    *)
(* after the page is drawn: at once after a click, but a message that comes *)
(* before that is worked on the game as it was.                             *)
EXTENDS HostSync, GoFishRules

CONSTANT HandSize

\* host.now is the state of the page, host.ref the copy the handlers read.
Drawing(s) == [now |-> s, ref |-> s]

\* buildGuestView
View(s) ==
  [hand |-> s.hands[Guest], theirs |-> BagCardinality(s.hands[Host]), books |-> s.books,
   pond |-> BagCardinality(s.pond), phase |-> s.phase, turn |-> s.turn, asked |-> s.asked]

\* "Waiting for game to start"
NoView == [hand |-> EmptyBag, theirs |-> 0, books |-> <<{}, {}>>, pond |-> 0,
           phase |-> "waiting", turn |-> 0, asked |-> 0]

\* The page of the host sends the deal as it opens; the guest's may not listen yet.
Init ==
  \E s \in Dealt(HandSize, "playing") :
    /\ host = Drawing(s) /\ view = NoView
    /\ \/ NetInit(TRUE)
       \/ toHost = <<>> /\ toGuest = <<View(s)>> /\ losses = 0 /\ missed = FALSE

\* broadcastAndSet, in a click or in a message
Becomes(s, ref) ==
  host' = [now |-> s, ref |-> ref] /\ Broadcast(View(s)) /\ UNCHANGED <<view, losses>>

-----------------------------------------------------------------------------
\* An empty hand after the transfer draws, or passes the turn.
PassedOn(s, p) ==
  IF s.phase # "gameOver" /\ s.hands[p] = EmptyBag
  THEN Refilled([s EXCEPT !.turn = Other(p)], Other(p)) ELSE {s}

\* processAction, gf_ask_rank
AskRank(s, p, r) ==
  IF s.phase # "playing" \/ s.turn # p \/ ~BagIn(r, s.hands[p]) THEN {}
  ELSE IF ~BagIn(r, s.hands[Other(p)]) THEN {[s EXCEPT !.phase = "goFish", !.asked = r]}
  ELSE LET got == Booked(Transferred([s EXCEPT !.asked = 0], p, r), p)
       IN {Ended(t) : t \in UNION {PassedOn(u, p) : u \in Refilled(got, p)}}

\* Card d is drawn: the rank asked for keeps the turn.
Fished(s, p, d) ==
  LET t == Booked(Drawn([s EXCEPT !.asked = 0], p, d), p)
      next == IF d = s.asked THEN p ELSE Other(p)
  IN IF t.phase = "gameOver" THEN {t}
     ELSE {Ended(u) : u \in Refilled([t EXCEPT !.phase = "playing", !.turn = next], next)}

\* processAction, gf_go_fish
GoFishing(s, p) ==
  IF s.phase # "goFish" \/ s.turn # p THEN {}
  ELSE IF s.pond = EmptyBag
       THEN {IF Over(s) THEN Ended(s)
             ELSE [s EXCEPT !.phase = "playing", !.turn = Other(p), !.asked = 0]}
  ELSE UNION {Fished(s, p, d) : d \in BagToSet(s.pond)}

\* What an action of p makes of the copy: nothing if p may not take it.
Outcomes(s, p, msg) ==
  CASE msg.type = "gf_ask_rank" -> AskRank(s, p, msg.rank)
    [] msg.type = "gf_go_fish" -> GoFishing(s, p)

\* What a page lets its player do, by the game it shows
Choices(v, p, hand) ==
  IF v.turn # p THEN {}
  ELSE IF v.phase = "goFish" THEN {[type |-> "gf_go_fish"]}
  ELSE IF v.phase = "playing" THEN {[type |-> "gf_ask_rank", rank |-> r] : r \in BagToSet(hand)}
  ELSE {}

HostPlays ==
  /\ \E msg \in Choices(host.now, Host, host.now.hands[Host]) :
       \E s \in Outcomes(host.ref, Host, msg) : Becomes(s, s)
  /\ UNCHANGED toHost

GuestClicks == \E msg \in Choices(view, Guest, view.hand) : Click(msg)

HostTakes ==
  /\ Take
  /\ LET after == Outcomes(host.ref, Guest, Head(toHost))
     IN IF after = {} THEN UNCHANGED <<host, view, toGuest, losses, missed>>
        ELSE \E s \in after : Becomes(s, host.ref)

\* The effect after the page is drawn
Commit ==
  /\ host.ref # host.now
  /\ host' = [host EXCEPT !.ref = host.now]
  /\ UNCHANGED <<view, net>>

Next == HostPlays \/ GuestClicks \/ HostTakes \/ Commit \/ Transport

\* Messages arrive, pages are drawn, and the player whose turn it shows plays.
Fairness ==
  /\ WF_vars(GuestReceives) /\ WF_vars(HostTakes) /\ WF_vars(Commit)
  /\ WF_vars(HostPlays) /\ WF_vars(GuestClicks)

Spec == Init /\ [][Next]_vars /\ Fairness
-----------------------------------------------------------------------------
(* Properties                                                              *)

\* Even an action worked on the game as it was loses and doubles no card.
CardsKept == \A r \in Ranks : Copies(host.now, r) = BookSize

\* Whoever has the turn can take it: a hand to ask from, as long as nobody
\* fishes (the hand is filled after books and transfers, or the game is over).
NeverStuck == host.now.phase = "playing" => host.now.hands[host.now.turn] # EmptyBag

\* The guest's page shows the game of the host.
GuestInSync == Synced(View(host.now))

\* While no message is lost the game ends.
GameEnds == TRUE ~> (host.now.phase = "gameOver" \/ losses > 0)

\* A book on the table stays there. Two asks of the guest, the second worked on
\* the copy from before the first, take the book of the first away again.
BooksStay == [][\A p \in Players : host.now.books[p] \subseteq host'.now.books[p]]_host
=============================================================================
