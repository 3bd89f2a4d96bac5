---------------------------- MODULE MemoryVersus ----------------------------
(* Memory for two players (MemoryMultiplayer.tsx): both pages lay the same  *)
(* cards, from the id of the room; the host turns the cards for both.       *)
EXTENDS HostSync, Integers, FiniteSets

CONSTANT Deck    \* the symbol of each card, in the order laid; each is on two

Places == DOMAIN Deck

\* cards (0 or the player who matched it; up: face up), the turn, the scores,
\* the cards flipped in this turn, and whether the table waits for the timer
Laid == [by |-> [i \in Places |-> 0], up |-> [i \in Places |-> FALSE],
         turn |-> Host, scores |-> <<0, 0>>, flipped |-> <<>>, locked |-> FALSE]

Init == host = Laid /\ view = Laid /\ NetInit(FALSE)

\* Mutant: a card that shows may be flipped again.
HiddenMutantShowing(s, i) == s.by[i] = 0

Hidden(s, i) == s.by[i] = 0 /\ ~s.up[i]

\* Mutant: a match ends the turn, too.
FlipMutantMatchPasses(s, i) ==
  LET shown == [s EXCEPT !.up[i] = TRUE, !.flipped = Append(@, i)]
      first == s.flipped[1]
  IN IF s.flipped = <<>> THEN shown
     ELSE IF Deck[first] # Deck[i] THEN [shown EXCEPT !.locked = TRUE]
     ELSE [shown EXCEPT !.by[first] = s.turn, !.by[i] = s.turn, !.turn = Other(@),
                        !.scores[s.turn] = @ + 1, !.flipped = <<>>]

\* processFlip: the host does not ask whose turn it is.
Flip(s, i) ==
  LET shown == [s EXCEPT !.up[i] = TRUE, !.flipped = Append(@, i)]
      first == s.flipped[1]
  IN IF s.flipped = <<>> THEN shown
     ELSE IF Deck[first] # Deck[i] THEN [shown EXCEPT !.locked = TRUE]
     ELSE [shown EXCEPT !.by[first] = s.turn, !.by[i] = s.turn,
                        !.scores[s.turn] = @ + 1, !.flipped = <<>>]

\* The timer of a mismatch: both cards back, the turn to the other player.
TurnedBack(s) ==
  [s EXCEPT !.up = [i \in Places |-> @[i] /\ i \notin {s.flipped[1], s.flipped[2]}],
            !.turn = Other(@), !.flipped = <<>>, !.locked = FALSE]

\* Mutant: the guest is sent the state from before.
BecomesMutantStale(s) == host' = s /\ Broadcast(host) /\ UNCHANGED <<view, losses>>

Becomes(s) == host' = s /\ Broadcast(s) /\ UNCHANGED <<view, losses>>

-----------------------------------------------------------------------------
\* handleCardClick on either page, for the game it shows
MayFlip(s, p, i) == s.turn = p /\ ~s.locked /\ Hidden(s, i)

HostClicks ==
  /\ \E i \in Places : MayFlip(host, Host, i) /\ Becomes(Flip(host, i))
  /\ UNCHANGED toHost

GuestClicks == \E i \in Places : MayFlip(view, Guest, i) /\ Click([at |-> i])

\* The host's listener: a card that shows, or any card while the table waits,
\* is passed over.
HostTakes ==
  /\ Take
  /\ LET i == Head(toHost).at
     IN IF ~host.locked /\ Hidden(host, i) THEN Becomes(Flip(host, i))
        ELSE UNCHANGED <<host, view, toGuest, losses, missed>>

\* 800 ms after two cards that do not match
TimerFires == host.locked /\ Becomes(TurnedBack(host)) /\ UNCHANGED toHost

Next == HostClicks \/ GuestClicks \/ HostTakes \/ TimerFires \/ Transport

\* Messages arrive, the timer fires, and whoever sees its turn flips a card.
Fairness ==
  /\ WF_vars(GuestReceives) /\ WF_vars(HostTakes) /\ WF_vars(TimerFires)
  /\ WF_vars(HostClicks) /\ WF_vars(GuestClicks)

Spec == Init /\ [][Next]_vars /\ Fairness
-----------------------------------------------------------------------------
(* Properties                                                              *)

Complete(s) == \A i \in Places : s.by[i] # 0

\* However late a click comes: the open cards are the ones of this turn and at
\* most two, the table waits exactly while two of them do not match, and cards
\* are taken in pairs, each counted once for the one who found it.
Agrees(s) ==
  /\ {i \in Places : s.up[i] /\ s.by[i] = 0} = {s.flipped[k] : k \in DOMAIN s.flipped}
  /\ Len(s.flipped) <= 2 /\ (s.locked <=> Len(s.flipped) = 2)
  /\ \A i, j \in Places : Deck[i] = Deck[j] => s.by[i] = s.by[j]
  /\ \A p \in Players : 2 * s.scores[p] = Cardinality({i \in Places : s.by[i] = p})
TableAgrees == Agrees(host)

\* Only a mismatch ends a turn (match: "same player continues").
MismatchEnds ==
  host'.turn # host.turn => host.locked /\ Deck[host.flipped[1]] # Deck[host.flipped[2]]
TurnEndsByMismatch == [][MismatchEnds]_host

\* The guest clicks on what it sees: it sees the table of the host.
GuestInSync == Synced(host)

\* While no message is lost, the table never waits for good: the turn of each
\* player comes, until all pairs are found.
TurnsCome ==
  \A p \in Players : TRUE ~> (host.turn = p \/ Complete(host) \/ losses > 0)
=============================================================================
