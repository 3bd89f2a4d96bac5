------------------------------ MODULE GameRooms ------------------------------
(* The rooms of the multiplayer games: the registry of the server          *)
(* (game_room_manager.py) behind its message handlers (game_ws_handler.py) *)
(* and the page that shows a room (gameSocket.ts, MultiplayerWrapper.tsx,  *)
(* GameLobby.tsx). A user has one page. A message to the server is handled *)
(* when it is sent, as nothing but the user's own messages can pass it;    *)
(* the answers wait in the user's inbox.                                   *)
EXTENDS Naturals, Sequences, FiniteSets

CONSTANTS
  Users,       \* user ids
  Rooms,       \* the ids of the rooms that may be created, numbers
  Games,       \* the kinds of game
  MaxPlayers,  \* max_players of every room
  MaxInbox,    \* bound: messages on their way to a page
  MaxLosses,   \* bound: sockets lost
  None

ASSUME UsersAssumption == Users \subseteq Nat /\ Rooms \subseteq Nat
ASSUME NoneAssumption == None \notin Users /\ None \notin Rooms
ASSUME BoundsAssumption == MaxPlayers \in Nat /\ MaxInbox \in Nat /\ MaxLosses \in Nat

VARIABLES
  rooms,       \* _rooms, with the rooms never created and those closed
  user_rooms,  \* _user_rooms
  page,        \* what a user's browser shows
  active,      \* _activeRoomId of gameSocket
  inbox,       \* messages on their way to the page
  up,          \* whose game socket is connected
  losses

registry == <<rooms, user_rooms>>
client == <<page, active>>
net == <<up, losses>>
vars == <<rooms, user_rooms, page, active, inbox, up, losses>>

NoRoom(status) == [status |-> status, game |-> None, host |-> None,
                   players |-> {}, ready |-> {}, gone |-> {}]
Open(r) == r \in Rooms /\ rooms[r].status \in {"waiting", "playing"}

Init ==
  /\ rooms = [r \in Rooms |-> NoRoom("unused")]
  /\ user_rooms = [u \in Users |-> None]
  /\ \E g \in Games :
       page = [u \in Users |-> [game |-> g, mode |-> "select", room |-> None]]
  /\ active = [u \in Users |-> None]
  /\ inbox = [u \in Users |-> <<>>]
  /\ up = [u \in Users |-> TRUE]
  /\ losses = 0

-----------------------------------------------------------------------------
(* GameRoomManager, as functions of the registry                           *)

Registry == [rooms |-> rooms, user_rooms |-> user_rooms]

\* Mutant: the players stay registered.
ClosedMutantKeepsUsers(rs) ==
  [Registry EXCEPT !.rooms = [r \in Rooms |-> IF r \in rs THEN NoRoom("closed") ELSE rooms[r]]]

\* close_room, for every room of rs
Closed(rs) ==
  [rooms |-> [r \in Rooms |-> IF r \in rs THEN NoRoom("closed") ELSE rooms[r]],
   user_rooms |-> [u \in Users |->
     IF \E r \in rs : u \in rooms[r].players THEN None ELSE user_rooms[u]]]

\* Mutant: who was ready stays so.
WithoutMutantStaysReady(r, u) == [rooms[r] EXCEPT !.players = @ \ {u}]

Without(r, u) == [rooms[r] EXCEPT !.players = @ \ {u}, !.ready = @ \ {u}]

\* leave_room: without its host a room is closed; whoever leaves is in no
\* room any more, a member of r or not.
Left(r, u) ==
  IF ~Open(r) THEN Registry
  ELSE IF u = rooms[r].host THEN Closed({r})
  ELSE [rooms |-> [rooms EXCEPT ![r] = Without(r, u)],
        user_rooms |-> [user_rooms EXCEPT ![u] = None]]

\* _clean_stale_user_room, or leave_room by force when that declines: all of
\* them leave the room u is in, as nothing ever finishes a room.
Vacated(u) ==
  LET r == user_rooms[u] IN
  IF r = None THEN Registry
  ELSE IF ~Open(r)
  THEN [Registry EXCEPT !.user_rooms = [user_rooms EXCEPT ![u] = None]]
  ELSE Left(r, u)

\* join_room for a room that waits, mid_join_room for one that plays
Joinable(mgr, r, u, status) ==
  /\ mgr.rooms[r].status = status
  /\ mgr.user_rooms[u] = None
  /\ Cardinality(mgr.rooms[r].players) < MaxPlayers

Joined(mgr, r, u) ==
  [rooms |-> [mgr.rooms EXCEPT ![r].players = @ \cup {u}],
   user_rooms |-> [mgr.user_rooms EXCEPT ![u] = r]]

Becomes(mgr) == rooms' = mgr.rooms /\ user_rooms' = mgr.user_rooms

\* About room r, as it is.
Message(type, r) == [type |-> type, room |-> r, game |-> rooms[r].game,
                     status |-> rooms[r].status]
Notice(type) == [type |-> type, room |-> None, game |-> None, status |-> "closed"]

\* inbox after those of us that are connected were told msg.
Told(us, msg) ==
  [u \in Users |-> IF u \in us /\ up[u] THEN Append(inbox[u], msg) ELSE inbox[u]]

\* A message of u reaches the server.
Sends(u) == up[u] /\ \A v \in Users : Len(inbox[v]) < MaxInbox

-----------------------------------------------------------------------------
(* What a page sends, with its handler                                     *)

\* _handle_create, from the lobby
Create(u) ==
  LET g == page[u].game
      r == user_rooms[u] IN
  /\ Sends(u) /\ page[u].mode = "lobby" /\ page[u].room = None
  /\ IF r # None /\ Open(r) /\ rooms[r].game = g
     THEN /\ inbox' = Told({u}, Message("already_in_room", r))
          /\ UNCHANGED registry
     ELSE \E new \in Rooms :
          LET mgr == Vacated(u) IN
          /\ rooms[new].status = "unused"
          /\ \A q \in Rooms : q < new => rooms[q].status # "unused"
          /\ rooms' = [mgr.rooms EXCEPT ![new] =
               [status |-> "waiting", game |-> g, host |-> u, players |-> {u},
                ready |-> {}, gone |-> {}]]
          /\ user_rooms' = [mgr.user_rooms EXCEPT ![u] = new]
          /\ inbox' = Told({u}, [type |-> "created", room |-> new, game |-> g,
                                 status |-> "waiting"])
  /\ UNCHANGED <<client, net>>

\* _handle_join, _handle_mid_join and _handle_join_friend: u leaves the room it
\* is in before it is known whether r takes it.
Enter(u, r, status, reply) ==
  IF user_rooms[u] = r /\ Open(r)
  THEN /\ inbox' = Told({u}, Message("already_in_room", r))
       /\ UNCHANGED registry
  ELSE LET mgr == Vacated(u) IN
       IF Joinable(mgr, r, u, status)
       THEN /\ Becomes(Joined(mgr, r, u))
            /\ inbox' = Told({u}, Message(reply, r))
       ELSE /\ Becomes(mgr)
            /\ inbox' = Told({u}, Notice("error"))

\* With the code of a room, or with the invitation of its host, which brings
\* the page of its game up.
Join(u, r) ==
  /\ Sends(u) /\ rooms[r].status # "unused"
  /\ \/ /\ page[u].mode = "lobby" /\ page[u].room = None
        /\ UNCHANGED page
        /\ Enter(u, r, "waiting", "joined")
     \/ /\ Open(r) /\ u # rooms[r].host
        /\ page' = [page EXCEPT ![u] = IF @.game = rooms[r].game THEN @
                      ELSE [game |-> rooms[r].game, mode |-> "select", room |-> None]]
        /\ \/ Enter(u, r, "waiting", "joined")
           \/ Enter(u, r, "playing", "mid_joined")
  /\ UNCHANGED <<active, net>>

\* From the list of friends; a game under way is joined with the same answer.
JoinFriend(u, friend) ==
  LET r == user_rooms[friend] IN
  /\ Sends(u) /\ u # friend
  /\ r # None /\ Open(r)
  /\ page' = [page EXCEPT ![u] = IF @.game = rooms[r].game THEN @
                ELSE [game |-> rooms[r].game, mode |-> "select", room |-> None]]
  /\ Enter(u, r, rooms[r].status, "joined")
  /\ UNCHANGED <<active, net>>

\* Mutant: the room keeps the host that has left.
HandedMutantKeepsHost(r, u, heir) == Without(r, u)

\* The room r, handed over by u
Handed(r, u, heir) == [Without(r, u) EXCEPT !.host = heir]

\* _handle_leave: the host of a game with players left hands the room over.
LeaveRoom(u, r) ==
  LET others == rooms[r].players \ {u}
      heir == CHOOSE v \in others : \A w \in others : v <= w
      told == Told({u}, Notice("left")) IN
  IF ~Open(r)
  THEN UNCHANGED <<registry, inbox>>
  ELSE IF u = rooms[r].host /\ rooms[r].status = "playing" /\ others # {}
  THEN /\ rooms' = [rooms EXCEPT ![r] = Handed(r, u, heir)]
       /\ user_rooms' = [user_rooms EXCEPT ![u] = None]
       /\ inbox' = told
  ELSE /\ Becomes(Left(r, u))
       /\ inbox' = IF u # rooms[r].host THEN told
                   ELSE [v \in Users |-> IF v \in others /\ up[v]
                           THEN Append(inbox[v], Notice("room_closed"))
                           ELSE told[v]]

\* The buttons of the lobby and of a game.
Leave(u) ==
  /\ Sends(u)
  /\ page[u].mode \in {"lobby", "playing"} /\ page[u].room # None
  /\ LeaveRoom(u, page[u].room)
  /\ active' = [active EXCEPT ![u] = None]
  /\ page' = [page EXCEPT ![u].room = None,
       ![u].mode = IF @ = "playing" THEN "select" ELSE @]
  /\ UNCHANGED net

Ready(u) ==
  LET r == page[u].room IN
  /\ Sends(u) /\ page[u].mode = "lobby" /\ r # None
  /\ Open(r) /\ u \in rooms[r].players
  /\ rooms' = [rooms EXCEPT ![r].ready = @ \cup {u}]
  /\ UNCHANGED <<user_rooms, client, inbox, net>>

\* start_game, which does not ask whether the game has started.
Start(u) ==
  LET r == page[u].room IN
  /\ Sends(u) /\ page[u].mode = "lobby" /\ r # None
  /\ Open(r) /\ u = rooms[r].host
  /\ Cardinality(rooms[r].players) >= 2 /\ rooms[r].players = rooms[r].ready
  /\ rooms' = [rooms EXCEPT ![r].status = "playing"]
  /\ inbox' = Told(rooms[r].players, Message("started", r))
  /\ UNCHANGED <<user_rooms, client, net>>

\* handleBackToLobby and _handle_back_to_lobby: whoever asks, whatever the
\* others are doing. Every player is registered again.
BackToLobby(u) ==
  LET r == user_rooms[u] IN
  /\ Sends(u) /\ page[u].mode = "playing"
  /\ page' = [page EXCEPT ![u].mode = "lobby"]
  /\ IF r # None /\ Open(r)
     THEN /\ rooms' = [rooms EXCEPT ![r].status = "waiting", ![r].ready = {},
                                    ![r].gone = {}]
          /\ user_rooms' = [v \in Users |->
               IF v \in rooms[r].players THEN r ELSE user_rooms[v]]
          /\ inbox' = Told(rooms[r].players,
               [type |-> "lobby_reset", room |-> r, game |-> rooms[r].game,
                status |-> "waiting"])
     ELSE /\ inbox' = Told({u}, Notice("error"))
          /\ UNCHANGED registry
  /\ UNCHANGED <<active, net>>

\* The page of a game is opened: a new MultiplayerWrapper asks for the room.
OpenPage(u, g) ==
  /\ Sends(u)
  /\ page' = [page EXCEPT ![u] = [game |-> g, mode |-> "select", room |-> None]]
  /\ inbox' = LET r == user_rooms[u] IN
       Told({u}, IF r # None /\ Open(r) THEN Message("room_info", r)
                 ELSE Notice("no_room"))
  /\ UNCHANGED <<registry, active, net>>

\* Nothing is sent: into the lobby, and back to the selection, from where the
\* server still has the user in its room.
EnterLobby(u) ==
  /\ page[u].mode = "select"
  /\ page' = [page EXCEPT ![u].mode = "lobby"]
  /\ UNCHANGED <<registry, active, inbox, net>>

BackToSelect(u) ==
  /\ page[u].mode = "lobby"
  /\ page' = [page EXCEPT ![u].mode = "select", ![u].room = None]
  /\ active' = [active EXCEPT ![u] = None]
  /\ UNCHANGED <<registry, inbox, net>>

-----------------------------------------------------------------------------
(* Sockets                                                                 *)

\* The end of the websocket endpoint, for any socket of the user, that of the
\* notifications included: a player of a game keeps the seat, another leaves;
\* then the rooms that are an hour old, whoever they belong to, are closed.
SocketEnds(u, heard, old) ==
  LET r == user_rooms[u]
      away == IF r # None /\ Open(r) /\ rooms[r].status = "waiting"
              THEN Left(r, u) ELSE Registry
      waiting == r # None /\ Open(r) /\ rooms[r].status = "waiting"
      mark == [q \in Rooms |->
                IF q = r /\ rooms[q].status = "playing" /\ u \in rooms[q].players
                THEN [rooms[q] EXCEPT !.gone = @ \cup {u}] ELSE away.rooms[q]] IN
  /\ old \subseteq {q \in Rooms : mark[q].status \in {"waiting", "playing"}}
  /\ rooms' = [q \in Rooms |-> IF q \in old THEN NoRoom("closed") ELSE mark[q]]
  /\ user_rooms' = [v \in Users |->
       IF \E q \in old : v \in mark[q].players THEN None ELSE away.user_rooms[v]]
  /\ inbox' = [v \in Users |->
       IF v = u /\ ~heard THEN <<>>
       ELSE IF waiting /\ u = rooms[r].host /\ v \in rooms[r].players \ {u} /\ up[v]
       THEN Append(inbox[v], Notice("room_closed"))
       ELSE inbox[v]]

\* The page's own socket is lost, with what was on its way.
LoseSocket(u) ==
  /\ up[u] /\ losses < MaxLosses
  /\ up' = [up EXCEPT ![u] = FALSE]
  /\ losses' = losses + 1
  /\ \E old \in SUBSET Rooms : SocketEnds(u, FALSE, old)
  /\ UNCHANGED client

\* Another socket of the same user ends, and the page hears nothing of it.
OtherSocketEnds(u) ==
  /\ losses < MaxLosses
  /\ losses' = losses + 1
  /\ \E old \in SUBSET Rooms : SocketEnds(u, TRUE, old)
  /\ UNCHANGED <<client, up>>

\* onopen after 3 seconds, with game:rejoin for the room that was played: it
\* is granted within 60 seconds of the loss.
Reconnect(u) ==
  LET r == active[u] IN
  /\ ~up[u] /\ Len(inbox[u]) < MaxInbox
  /\ up' = [up EXCEPT ![u] = TRUE]
  /\ IF r = None THEN UNCHANGED <<rooms, inbox>>
     ELSE \/ /\ Open(r) /\ u \in rooms[r].players /\ u \in rooms[r].gone
             /\ rooms' = [rooms EXCEPT ![r].gone = @ \ {u}]
             /\ inbox' = [inbox EXCEPT ![u] = Append(@, Message("rejoin_success", r))]
          \/ /\ inbox' = [inbox EXCEPT ![u] = Append(@, Notice("rejoin_failed"))]
             /\ UNCHANGED rooms
  /\ UNCHANGED <<user_rooms, client, losses>>

-----------------------------------------------------------------------------
(* The listeners of the page                                               *)

Shows(u, mode, r) == [page[u] EXCEPT !.mode = mode, !.room = r]
Phase(m) == IF m.status = "playing" THEN "playing" ELSE "lobby"

\* What a message makes of the page, and of the room to rejoin.
Listened(u, m) ==
  LET mine == m.game = page[u].game
      lobby == page[u].mode = "lobby"
      same == [page |-> page[u], active |-> active[u]] IN
  CASE m.type = "created" /\ lobby ->
         [same EXCEPT !.page.room = m.room]
    [] m.type = "joined" ->
         [page |-> Shows(u, "lobby", m.room),
          active |-> IF lobby THEN active[u] ELSE m.room]
    [] m.type \in {"already_in_room", "room_info"} /\ mine ->
         [page |-> Shows(u, Phase(m), m.room), active |-> m.room]
    [] m.type = "already_in_room" /\ ~mine /\ lobby ->
         [same EXCEPT !.page.room = m.room]
    [] m.type = "no_room" -> [same EXCEPT !.active = None]
    [] m.type = "started" /\ lobby ->
         [page |-> Shows(u, "playing", m.room), active |-> m.room]
    [] m.type = "rejoin_success" -> [same EXCEPT !.page = Shows(u, "playing", m.room)]
    [] m.type = "rejoin_failed" -> [page |-> [page[u] EXCEPT !.mode = "select"],
                                    active |-> None]
    [] m.type = "lobby_reset" -> [same EXCEPT !.page = Shows(u, "lobby", m.room)]
    [] m.type \in {"left", "room_closed"} ->
         [page |-> Shows(u, "select", None), active |-> None]
    [] OTHER -> same  \* "error", "mid_joined": nobody listens

Receive(u) ==
  /\ inbox[u] # <<>>
  /\ LET after == Listened(u, Head(inbox[u])) IN
       /\ page' = [page EXCEPT ![u] = after.page]
       /\ active' = [active EXCEPT ![u] = after.active]
  /\ inbox' = [inbox EXCEPT ![u] = Tail(@)]
  /\ UNCHANGED <<registry, net>>

Next == \E u \in Users :
  \/ Create(u) \/ Leave(u) \/ Ready(u) \/ Start(u) \/ BackToLobby(u)
  \/ EnterLobby(u) \/ BackToSelect(u)
  \/ LoseSocket(u) \/ OtherSocketEnds(u) \/ Reconnect(u) \/ Receive(u)
  \/ \E r \in Rooms : Join(u, r)
  \/ \E friend \in Users : JoinFriend(u, friend)
  \/ \E g \in Games : OpenPage(u, g)

Spec == Init /\ [][Next]_vars

-----------------------------------------------------------------------------
RoomRecords ==
  [status : {"unused", "waiting", "playing", "closed"},
   game : Games \cup {None}, host : Users \cup {None},
   players : SUBSET Users, ready : SUBSET Users, gone : SUBSET Users]
Messages ==
  [type : {"created", "joined", "mid_joined", "already_in_room", "room_info",
           "no_room", "started", "rejoin_success", "rejoin_failed",
           "lobby_reset", "left", "room_closed", "error"},
   room : Rooms \cup {None}, game : Games \cup {None},
   status : {"waiting", "playing", "closed"}]

TypeOK ==
  /\ rooms \in [Rooms -> RoomRecords]
  /\ user_rooms \in [Users -> Rooms \cup {None}]
  /\ page \in [Users -> [game : Games, mode : {"select", "lobby", "playing"},
                        room : Rooms \cup {None}]]
  /\ active \in [Users -> Rooms \cup {None}]
  /\ inbox \in [Users -> Seq(Messages)]
  /\ up \in [Users -> BOOLEAN]
  /\ losses \in 0..MaxLosses

\* Through every leave, closing, hand-over and reset: the room a user is
\* registered in is open and has the user among its players. The code for a
\* registration whose room is gone (_clean_stale_user_room, /friends/online)
\* guards against what cannot happen.
RegisteredIsMember ==
  \A u \in Users : user_rooms[u] # None =>
    Open(user_rooms[u]) /\ u \in rooms[user_rooms[u]].players

\* An open room has a host, one of its players: there is always somebody who
\* can start the game and invite.
HostIsMember ==
  \A r \in Rooms : Open(r) => rooms[r].host \in rooms[r].players

\* Only players of the room are ready in it, so that players = ready_players
\* can become true again after anybody left.
ReadyAreMembers == \A r \in Rooms : rooms[r].ready \subseteq rooms[r].players

\* An open room has a game; one not yet created or closed for good keeps nothing.
ClosedIsEmpty ==
  \A r \in Rooms : IF Open(r) THEN rooms[r].game \in Games
                   ELSE rooms[r] = NoRoom(rooms[r].status)

\* What the handlers rely on beside the two above, in every room: the rest of
\* the invariant that GameRoomsProofs shows to be inductive.
RegistryInv == TypeOK /\ ReadyAreMembers /\ ClosedIsEmpty

\* The registry is meant to have a user in one room at most ("User is already
\* in a room"): leave_room with the id of a room left before forgets the room
\* the user is in.
OneRoomPerUser ==
  \A u \in Users, r, q \in Rooms :
    u \in rooms[r].players \cap rooms[q].players => r = q

\* game_ws_handler.py:360-362: the host that leaves a game does not disrupt the
\* opponent. A game with a player left is not closed while all are connected.
OpponentUndisturbed ==
  [][\A r \in Rooms :
       rooms[r].status = "playing" /\ losses' = losses
         /\ Cardinality(rooms[r].players) > 1 =>
           rooms'[r].status # "closed"]_vars

=============================================================================
