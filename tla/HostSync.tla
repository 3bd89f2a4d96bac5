------------------------------ MODULE HostSync ------------------------------
(* What the two-player games with a host share. The page of the host runs   *)
(* the game; whatever the guest clicks travels to it through the relay of   *)
(* the room (gameSocket.ts, game_ws_handler.py), and after a change the     *)
(* host sends the guest what it may see. One socket keeps the order; what   *)
(* is on its way is lost when the socket is, and nothing sends it again.    *)
EXTENDS Naturals, Sequences

CONSTANTS
  MaxWire,   \* bound: messages on their way to either page
  MaxLosses  \* bound: losses

VARIABLES
  host,     \* the game, as the host's page has it
  view,     \* what the guest's page shows
  toHost,   \* clicks on their way to the host
  toGuest,  \* views on their way to the guest
  losses,
  missed    \* no view, or a lost one, is the last the host has sent

net == <<toHost, toGuest, losses, missed>>
vars == <<host, view, net>>

Host == 1
Guest == 2
Players == {Host, Guest}
Other(p) == 3 - p

NetInit(unseen) == toHost = <<>> /\ toGuest = <<>> /\ losses = 0 /\ missed = unseen

\* broadcastState: the host sends the guest v.
Broadcast(v) ==
  /\ Len(toGuest) < MaxWire
  /\ toGuest' = Append(toGuest, v)
  /\ missed' = FALSE

\* sendAction on the guest's page
Click(msg) ==
  /\ Len(toHost) < MaxWire
  /\ toHost' = Append(toHost, msg)
  /\ UNCHANGED <<host, view, toGuest, losses, missed>>

\* The host takes the next click of the guest.
Take == toHost # <<>> /\ toHost' = Tail(toHost)

\* The guest shows the next view it was sent.
GuestReceives ==
  /\ toGuest # <<>>
  /\ view' = Head(toGuest)
  /\ toGuest' = Tail(toGuest)
  /\ UNCHANGED <<host, toHost, losses, missed>>

\* The guest's socket ends, or the server refuses a message as one too many.
LoseViews ==
  /\ losses < MaxLosses /\ toGuest # <<>>
  /\ toGuest' = <<>> /\ missed' = TRUE /\ losses' = losses + 1
  /\ UNCHANGED <<host, view, toHost>>

LoseClicks ==
  /\ losses < MaxLosses /\ toHost # <<>>
  /\ toHost' = <<>> /\ losses' = losses + 1
  /\ UNCHANGED <<host, view, toGuest, missed>>

Transport == GuestReceives \/ LoseViews \/ LoseClicks

\* When nothing is on its way and the last view was not lost, the guest's
\* page shows the game as it is.
Synced(v) == (toGuest = <<>> /\ ~missed) => view = v
=============================================================================
