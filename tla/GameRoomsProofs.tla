--------------------------- MODULE GameRoomsProofs ---------------------------
(* The two indices of the registry agree, an open room has a host among its  *)
(* players and only players are ready, for every set of users, rooms and     *)
(* games. Every handler of game_ws_handler.py is one or two of the           *)
(* registry's functions (leave, close, join) and something said to the       *)
(* pages, so that the proof has a lemma for each of the functions and one    *)
(* for each handler.                                                         *)
EXTENDS GameRooms, WellFoundedInduction, TLAPS

OpenStatus == {"waiting", "playing"}

\* What the registry keeps true of each of its rooms.
RoomOK(room) ==
  /\ room \in RoomRecords
  /\ room.ready \subseteq room.players
  /\ room.status \in OpenStatus => room.host \in room.players /\ room.game \in Games
  /\ room.status \notin OpenStatus => room = NoRoom(room.status)

\* What it keeps true of its two indices: rs is _rooms, us is _user_rooms.
RegistryOK(rs, us) ==
  /\ rs \in [Rooms -> RoomRecords]
  /\ us \in [Users -> Rooms \cup {None}]
  /\ \A r \in Rooms : RoomOK(rs[r])
  /\ \A u \in Users :
       us[u] # None => rs[us[u]].status \in OpenStatus /\ u \in rs[us[u]].players

\* The types of what the pages have and of what is on its way to them.
Pages == [game : Games, mode : {"select", "lobby", "playing"}, room : Rooms \cup {None}]
ClientOK ==
  /\ page \in [Users -> Pages]
  /\ active \in [Users -> Rooms \cup {None}]
  /\ inbox \in [Users -> Seq(Messages)]
  /\ up \in [Users -> BOOLEAN]
  /\ losses \in 0..MaxLosses

IInv == RegistryOK(rooms, user_rooms) /\ ClientOK

\* The invariant, with the two properties that are about the registry.
LEMMA IInvIs == IInv <=> RegistryInv /\ RegisteredIsMember /\ HostIsMember
<1>1. ASSUME IInv PROVE RegistryInv /\ RegisteredIsMember /\ HostIsMember
  BY <1>1, NoneAssumption
     DEF IInv, RegistryOK, ClientOK, Pages, RoomOK, OpenStatus, RegistryInv, TypeOK,
         ReadyAreMembers, ClosedIsEmpty, RegisteredIsMember, HostIsMember, Open
<1>2. ASSUME RegistryInv, RegisteredIsMember, HostIsMember PROVE IInv
  BY <1>2, NoneAssumption
     DEF IInv, RegistryOK, ClientOK, Pages, RoomOK, OpenStatus, RegistryInv, TypeOK,
         ReadyAreMembers, ClosedIsEmpty, RegisteredIsMember, HostIsMember, Open
<1>3. QED
  BY <1>1, <1>2

-----------------------------------------------------------------------------
(* Rooms                                                                     *)

\* A room not created yet, and a closed one.
LEMMA NoRoomOK ==
  ASSUME NEW status \in {"unused", "closed"}
  PROVE  RoomOK(NoRoom(status))
<1>1. NoRoom(status).status = status
  BY DEF NoRoom
<1>2. NoRoom(status) \in RoomRecords /\ NoRoom(status).ready \subseteq NoRoom(status).players
  BY DEF NoRoom, RoomRecords
<1>3. NoRoom(NoRoom(status).status) = NoRoom(status)
  BY <1>1
<1>4. NoRoom(status).status \notin OpenStatus
  BY <1>1 DEF OpenStatus
<1>5. QED
  BY <1>2, <1>3, <1>4 DEF RoomOK

\* An open room, by its fields.
LEMMA OpenRoomOK ==
  ASSUME NEW room \in RoomRecords, room.status \in OpenStatus,
         room.host \in room.players, room.game \in Games,
         room.ready \subseteq room.players
  PROVE  RoomOK(room)
BY DEF RoomOK

\* A room without a player who is not its host.
LEMMA WithoutOK ==
  ASSUME NEW room, RoomOK(room), room.status \in OpenStatus,
         NEW u \in Users, u # room.host
  PROVE  RoomOK([room EXCEPT !.players = @ \ {u}, !.ready = @ \ {u}])
<1> DEFINE after == [room EXCEPT !.players = @ \ {u}, !.ready = @ \ {u}]
<1>1. room \in RoomRecords /\ room.host \in room.players /\ room.game \in Games
      /\ room.ready \subseteq room.players
  BY DEF RoomOK
<1>2. after \in RoomRecords
  BY <1>1 DEF RoomRecords, OpenStatus
<1>3. after.status \in OpenStatus /\ after.host \in after.players /\ after.game \in Games
      /\ after.ready \subseteq after.players
  BY <1>1 DEF RoomRecords
<1>4. QED
  BY <1>2, <1>3, OpenRoomOK

\* A room the host has left to another player.
LEMMA HandedOK ==
  ASSUME NEW room, RoomOK(room), room.status \in OpenStatus,
         NEW u \in Users, NEW heir \in room.players \ {u}
  PROVE  RoomOK([[room EXCEPT !.players = @ \ {u}, !.ready = @ \ {u}] EXCEPT !.host = heir])
<1> DEFINE after == [[room EXCEPT !.players = @ \ {u}, !.ready = @ \ {u}] EXCEPT !.host = heir]
<1>1. room \in RoomRecords /\ room.host \in room.players /\ room.game \in Games
      /\ room.ready \subseteq room.players
  BY DEF RoomOK
<1>2. after \in RoomRecords
  BY <1>1 DEF RoomRecords, OpenStatus
<1>3. after.status \in OpenStatus /\ after.host \in after.players /\ after.game \in Games
      /\ after.ready \subseteq after.players
  BY <1>1 DEF RoomRecords
<1>4. QED
  BY <1>2, <1>3, OpenRoomOK

\* A room with one more player.
LEMMA JoinedOK ==
  ASSUME NEW room, RoomOK(room), room.status \in OpenStatus,
         NEW u \in Users
  PROVE  RoomOK([room EXCEPT !.players = @ \cup {u}])
<1> DEFINE after == [room EXCEPT !.players = @ \cup {u}]
<1>1. room \in RoomRecords /\ room.host \in room.players /\ room.game \in Games
      /\ room.ready \subseteq room.players
  BY DEF RoomOK
<1>2. after \in RoomRecords
  BY <1>1 DEF RoomRecords, OpenStatus
<1>3. after.status \in OpenStatus /\ after.host \in after.players /\ after.game \in Games
      /\ after.ready \subseteq after.players
  BY <1>1 DEF RoomRecords
<1>4. QED
  BY <1>2, <1>3, OpenRoomOK

\* A room with one more player ready.
LEMMA ReadyOK ==
  ASSUME NEW room, RoomOK(room), room.status \in OpenStatus,
         NEW u \in room.players
  PROVE  RoomOK([room EXCEPT !.ready = @ \cup {u}])
<1> DEFINE after == [room EXCEPT !.ready = @ \cup {u}]
<1>1. room \in RoomRecords /\ room.host \in room.players /\ room.game \in Games
      /\ room.ready \subseteq room.players
  BY DEF RoomOK
<1>2. after \in RoomRecords
  BY <1>1 DEF RoomRecords, OpenStatus
<1>3. after.status \in OpenStatus /\ after.host \in after.players /\ after.game \in Games
      /\ after.ready \subseteq after.players
  BY <1>1 DEF RoomRecords
<1>4. QED
  BY <1>2, <1>3, OpenRoomOK

\* A room in another state of play.
LEMMA StartedOK ==
  ASSUME NEW room, RoomOK(room), room.status \in OpenStatus,
         NEW status \in OpenStatus
  PROVE  RoomOK([room EXCEPT !.status = status])
<1> DEFINE after == [room EXCEPT !.status = status]
<1>1. room \in RoomRecords /\ room.host \in room.players /\ room.game \in Games
      /\ room.ready \subseteq room.players
  BY DEF RoomOK
<1>2. after \in RoomRecords
  BY <1>1 DEF RoomRecords, OpenStatus
<1>3. after.status \in OpenStatus /\ after.host \in after.players /\ after.game \in Games
      /\ after.ready \subseteq after.players
  BY <1>1 DEF RoomRecords
<1>4. QED
  BY <1>2, <1>3, OpenRoomOK

\* A room back in the lobby.
LEMMA ResetOK ==
  ASSUME NEW room, RoomOK(room), room.status \in OpenStatus,
         NEW status \in OpenStatus
  PROVE  RoomOK([room EXCEPT !.status = status, !.ready = {}, !.gone = {}])
<1> DEFINE after == [room EXCEPT !.status = status, !.ready = {}, !.gone = {}]
<1>1. room \in RoomRecords /\ room.host \in room.players /\ room.game \in Games
      /\ room.ready \subseteq room.players
  BY DEF RoomOK
<1>2. after \in RoomRecords
  BY <1>1 DEF RoomRecords, OpenStatus
<1>3. after.status \in OpenStatus /\ after.host \in after.players /\ after.game \in Games
      /\ after.ready \subseteq after.players
  BY <1>1 DEF RoomRecords
<1>4. QED
  BY <1>2, <1>3, OpenRoomOK

\* A room with other players whose sockets are gone.
LEMMA GoneOK ==
  ASSUME NEW room, RoomOK(room), room.status \in OpenStatus,
         NEW gone \in SUBSET Users
  PROVE  RoomOK([room EXCEPT !.gone = gone])
<1> DEFINE after == [room EXCEPT !.gone = gone]
<1>1. room \in RoomRecords /\ room.host \in room.players /\ room.game \in Games
      /\ room.ready \subseteq room.players
  BY DEF RoomOK
<1>2. after \in RoomRecords
  BY <1>1 DEF RoomRecords, OpenStatus
<1>3. after.status \in OpenStatus /\ after.host \in after.players /\ after.game \in Games
      /\ after.ready \subseteq after.players
  BY <1>1 DEF RoomRecords
<1>4. QED
  BY <1>2, <1>3, OpenRoomOK

\* The room create_room makes.
LEMMA NewRoomOK ==
  ASSUME NEW g \in Games, NEW u \in Users
  PROVE  RoomOK([status |-> "waiting", game |-> g, host |-> u, players |-> {u},
                 ready |-> {}, gone |-> {}])
<1> DEFINE new == [status |-> "waiting", game |-> g, host |-> u, players |-> {u},
                   ready |-> {}, gone |-> {}]
<1>1. new \in RoomRecords
  BY DEF RoomRecords
<1>2. new.status \in OpenStatus /\ new.host \in new.players /\ new.game \in Games
      /\ new.ready \subseteq new.players
  BY DEF OpenStatus
<1>3. QED
  BY <1>1, <1>2, OpenRoomOK

-----------------------------------------------------------------------------
(* The registry                                                              *)

\* One room becomes new, and nobody is registered there who is no member.
LEMMA PutOK ==
  ASSUME NEW rs, NEW us, RegistryOK(rs, us),
         NEW r \in Rooms, NEW new, RoomOK(new),
         NEW us2 \in [Users -> Rooms \cup {None}],
         \A u \in Users : us2[u] # None =>
           \/ us2[u] = r /\ new.status \in OpenStatus /\ u \in new.players
           \/ us2[u] # r /\ us2[u] = us[u]
  PROVE  RegistryOK([rs EXCEPT ![r] = new], us2)
<1> DEFINE rs2 == [rs EXCEPT ![r] = new]
<1>1. rs2 \in [Rooms -> RoomRecords] /\ \A q \in Rooms : RoomOK(rs2[q])
  BY DEF RegistryOK, RoomOK
<1>2. ASSUME NEW u \in Users, us2[u] # None
      PROVE  rs2[us2[u]].status \in OpenStatus /\ u \in rs2[us2[u]].players
  BY <1>2 DEF RegistryOK
<1>3. QED
  BY <1>1, <1>2 DEF RegistryOK

\* Rooms are closed with the registrations of their players.
LEMMA CloseOK ==
  ASSUME NEW rs, NEW us, RegistryOK(rs, us), NEW old \in SUBSET Rooms
  PROVE  RegistryOK([r \in Rooms |-> IF r \in old THEN NoRoom("closed") ELSE rs[r]],
                    [u \in Users |-> IF \E r \in old : u \in rs[r].players THEN None
                                     ELSE us[u]])
<1> DEFINE rs2 == [r \in Rooms |-> IF r \in old THEN NoRoom("closed") ELSE rs[r]]
           us2 == [u \in Users |-> IF \E r \in old : u \in rs[r].players THEN None
                                   ELSE us[u]]
<1>1. RoomOK(NoRoom("closed"))
  BY NoRoomOK
<1>2. rs2 \in [Rooms -> RoomRecords] /\ \A q \in Rooms : RoomOK(rs2[q])
  BY <1>1 DEF RegistryOK, RoomOK
<1>3. us2 \in [Users -> Rooms \cup {None}]
  BY DEF RegistryOK
<1>4. ASSUME NEW u \in Users, us2[u] # None
      PROVE  rs2[us2[u]].status \in OpenStatus /\ u \in rs2[us2[u]].players
  <2>1. us2[u] = us[u] /\ us[u] \in Rooms
    BY <1>4, <1>3
  <2>2. rs[us[u]].status \in OpenStatus /\ u \in rs[us[u]].players
    BY <2>1, <1>4 DEF RegistryOK
  <2>3. us[u] \notin old
    BY <1>4, <2>2
  <2>4. QED
    BY <2>1, <2>2, <2>3
<1>5. QED
  BY <1>2, <1>3, <1>4 DEF RegistryOK

\* Of an open room: what the handlers read.
LEMMA OpenRoom ==
  ASSUME RegistryOK(rooms, user_rooms), NEW r, Open(r)
  PROVE  /\ r \in Rooms /\ r # None /\ RoomOK(rooms[r])
         /\ rooms[r].status \in OpenStatus
         /\ rooms[r] \in RoomRecords /\ rooms[r].host \in rooms[r].players
         /\ rooms[r].game \in Games /\ rooms[r].players \subseteq Users
BY NoneAssumption DEF Open, RegistryOK, RoomOK, OpenStatus, RoomRecords

\* leave_room
LEMMA LeftOK ==
  ASSUME RegistryOK(rooms, user_rooms), NEW r \in Rooms, NEW u \in Users
  PROVE  RegistryOK(Left(r, u).rooms, Left(r, u).user_rooms)
<1>1. CASE ~Open(r)
  BY <1>1 DEF Left, Registry
<1>2. CASE Open(r) /\ u = rooms[r].host
  <2>1. Left(r, u) = Closed({r})
    BY <1>2 DEF Left
  <2>2. {r} \in SUBSET Rooms
    OBVIOUS
  <2>3. RegistryOK(Closed({r}).rooms, Closed({r}).user_rooms)
    BY <2>2, CloseOK DEF Closed
  <2>4. QED
    BY <2>1, <2>3
<1>3. CASE Open(r) /\ u # rooms[r].host
  <2> DEFINE us2 == [user_rooms EXCEPT ![u] = None]
  <2>1. RoomOK(Without(r, u))
    BY <1>3, OpenRoom, WithoutOK DEF Without
  <2>2. us2 \in [Users -> Rooms \cup {None}]
    BY DEF RegistryOK
  <2>3. Without(r, u).status \in OpenStatus
        /\ Without(r, u).players = rooms[r].players \ {u}
    BY <1>3, OpenRoom DEF Without, RoomRecords
  <2>4. ASSUME NEW v \in Users, us2[v] # None
        PROVE  \/ us2[v] = r /\ Without(r, u).status \in OpenStatus
                  /\ v \in Without(r, u).players
               \/ us2[v] # r /\ us2[v] = user_rooms[v]
    BY <2>3, <2>4 DEF RegistryOK
  <2> HIDE DEF us2
  <2>5. RegistryOK([rooms EXCEPT ![r] = Without(r, u)], us2)
    BY <2>1, <2>2, <2>4, PutOK
  <2>6. QED
    BY <1>3, <2>5 DEF Left, us2
<1>4. QED
  BY <1>1, <1>2, <1>3

\* _clean_stale_user_room; a room not created yet stays so.
LEMMA VacatedOK ==
  ASSUME RegistryOK(rooms, user_rooms), NEW u \in Users
  PROVE  /\ RegistryOK(Vacated(u).rooms, Vacated(u).user_rooms)
         /\ \A q \in Rooms : rooms[q].status = "unused" =>
              Vacated(u).rooms[q].status = "unused"
<1> DEFINE r == user_rooms[u]
<1>1. CASE r = None
  BY <1>1 DEF Vacated, Registry
<1>2. CASE r # None
  <2>1. Open(r)
    BY <1>2 DEF RegistryOK, Open, OpenStatus
  <2>2. Vacated(u) = Left(r, u)
    BY <1>2, <2>1 DEF Vacated
  <2>3. ASSUME NEW q \in Rooms, rooms[q].status = "unused"
        PROVE  Left(r, u).rooms[q].status = "unused"
    <3>1. q # r
      BY <2>1, <2>3 DEF Open
    <3>2. Left(r, u).rooms[q] = rooms[q]
      BY <2>1, <3>1 DEF Left, Closed, RegistryOK
    <3>3. QED
      BY <2>3, <3>2
  <2>4. QED
    BY <2>1, <2>2, <2>3, LeftOK, OpenRoom
<1>3. QED
  BY <1>1, <1>2

\* join_room and mid_join_room
LEMMA JoinedMgrOK ==
  ASSUME NEW mgr, RegistryOK(mgr.rooms, mgr.user_rooms), NEW r \in Rooms,
         NEW u \in Users, NEW status \in OpenStatus, Joinable(mgr, r, u, status)
  PROVE  RegistryOK(Joined(mgr, r, u).rooms, Joined(mgr, r, u).user_rooms)
<1> DEFINE room == mgr.rooms[r]
           new == [room EXCEPT !.players = @ \cup {u}]
           us2 == [mgr.user_rooms EXCEPT ![u] = r]
<1>1. RoomOK(room) /\ room \in RoomRecords /\ room.status \in OpenStatus
  BY DEF RegistryOK, Joinable
<1>2. RoomOK(new)
  BY <1>1, JoinedOK
<1>3. us2 \in [Users -> Rooms \cup {None}]
  BY DEF RegistryOK
<1>4. new.status \in OpenStatus /\ new.players = room.players \cup {u}
  BY <1>1 DEF RoomRecords
<1>5. ASSUME NEW v \in Users, us2[v] # None
      PROVE  \/ us2[v] = r /\ new.status \in OpenStatus /\ v \in new.players
             \/ us2[v] # r /\ us2[v] = mgr.user_rooms[v]
  BY <1>4, <1>5 DEF RegistryOK
<1> HIDE DEF new, us2
<1>6. RegistryOK([mgr.rooms EXCEPT ![r] = new], us2)
  BY <1>2, <1>3, <1>5, PutOK
<1>7. QED
  BY <1>6 DEF Joined, new, us2

-----------------------------------------------------------------------------
(* What is said to the pages                                                 *)

\* A message about a room is a message.
LEMMA MessageOK ==
  ASSUME RegistryOK(rooms, user_rooms), NEW r \in Rooms, rooms[r].status # "unused",
         NEW type \in {"joined", "mid_joined", "already_in_room", "room_info",
                       "started", "rejoin_success"}
  PROVE  Message(type, r) \in Messages
BY DEF Message, Messages, RegistryOK, RoomRecords

\* A message about no room is a message.
LEMMA NoticeOK ==
  ASSUME NEW type \in {"no_room", "rejoin_failed", "left", "room_closed", "error"}
  PROVE  Notice(type) \in Messages
BY DEF Notice, Messages

\* Messages are put after those still to be received.
LEMMA ToldOK ==
  ASSUME ClientOK, NEW us, NEW msg \in Messages
  PROVE  Told(us, msg) \in [Users -> Seq(Messages)]
BY DEF ClientOK, Told

-----------------------------------------------------------------------------
(* The handlers                                                              *)

\* What is to be shown of a step.
LEMMA StepOK ==
  ASSUME RegistryOK(rooms', user_rooms'),
         page' \in [Users -> Pages], active' \in [Users -> Rooms \cup {None}],
         inbox' \in [Users -> Seq(Messages)], up' \in [Users -> BOOLEAN],
         losses' \in 0..MaxLosses
  PROVE  IInv'
BY DEF IInv, RegistryOK, ClientOK

\* _handle_create
LEMMA CreateOK ==
  ASSUME IInv, NEW u \in Users, Create(u)
  PROVE  IInv'
<1> USE DEF IInv
<1> DEFINE g == page[u].game
           r == user_rooms[u]
<1>1. g \in Games
  BY DEF ClientOK, Pages
<1>2. UNCHANGED <<page, active, up, losses>>
  BY DEF Create, client, net
<1>3. CASE r # None /\ Open(r) /\ rooms[r].game = g
  <2>1. Message("already_in_room", r) \in Messages
    BY <1>3, MessageOK, OpenRoom DEF OpenStatus
  <2>2. inbox' = Told({u}, Message("already_in_room", r)) /\ UNCHANGED <<rooms, user_rooms>>
    BY <1>3 DEF Create, registry
  <2>3. inbox' \in [Users -> Seq(Messages)]
    BY <2>1, <2>2, ToldOK
  <2>4. QED
    BY <1>2, <2>2, <2>3, StepOK DEF ClientOK
<1>4. CASE ~(r # None /\ Open(r) /\ rooms[r].game = g)
  <2> DEFINE mgr == Vacated(u)
             made(new) == [status |-> "waiting", game |-> g, host |-> u, players |-> {u},
                           ready |-> {}, gone |-> {}]
             said(new) == [type |-> "created", room |-> new, game |-> g,
                           status |-> "waiting"]
  <2>1. PICK new \in Rooms :
          /\ rooms[new].status = "unused"
          /\ rooms' = [mgr.rooms EXCEPT ![new] = made(new)]
          /\ user_rooms' = [mgr.user_rooms EXCEPT ![u] = new]
          /\ inbox' = Told({u}, said(new))
    BY <1>4 DEF Create
  <2> DEFINE us2 == [mgr.user_rooms EXCEPT ![u] = new]
  <2>2. RegistryOK(mgr.rooms, mgr.user_rooms) /\ mgr.rooms[new].status = "unused"
    BY <2>1, VacatedOK
  <2> HIDE DEF mgr
  <2>3. RoomOK(made(new))
    BY <1>1, NewRoomOK
  <2>4. us2 \in [Users -> Rooms \cup {None}]
    BY <2>2 DEF RegistryOK
  <2>5. ASSUME NEW v \in Users, us2[v] # None
        PROVE  \/ us2[v] = new /\ made(new).status \in OpenStatus /\ v \in made(new).players
               \/ us2[v] # new /\ us2[v] = mgr.user_rooms[v]
    BY <2>2, <2>5 DEF RegistryOK, OpenStatus
  <2> HIDE DEF us2, made
  <2>6. RegistryOK([mgr.rooms EXCEPT ![new] = made(new)], us2)
    BY <2>2, <2>3, <2>4, <2>5, PutOK
  <2>7. RegistryOK(rooms', user_rooms')
    BY <2>1, <2>6 DEF us2
  <2>8. said(new) \in Messages
    BY <1>1 DEF Messages
  <2>9. inbox' \in [Users -> Seq(Messages)]
    BY <2>1, <2>8, ToldOK
  <2>10. QED
    BY <1>2, <2>7, <2>9, StepOK DEF ClientOK
<1>5. QED
  BY <1>3, <1>4

\* _handle_join, _handle_mid_join and _handle_join_friend
LEMMA EnterOK ==
  ASSUME IInv, NEW u \in Users, NEW r \in Rooms, rooms[r].status # "unused",
         NEW status \in OpenStatus, NEW reply \in {"joined", "mid_joined"},
         Enter(u, r, status, reply)
  PROVE  RegistryOK(rooms', user_rooms') /\ inbox' \in [Users -> Seq(Messages)]
<1> USE DEF IInv
<1> DEFINE mgr == Vacated(u)
<1>1. \A type \in {"joined", "mid_joined", "already_in_room"} : Message(type, r) \in Messages
  BY MessageOK
<1>2. Notice("error") \in Messages
  BY NoticeOK
<1>3. RegistryOK(mgr.rooms, mgr.user_rooms)
  BY VacatedOK
<1>4. CASE user_rooms[u] = r /\ Open(r)
  <2>1. inbox' = Told({u}, Message("already_in_room", r)) /\ UNCHANGED <<rooms, user_rooms>>
    BY <1>4 DEF Enter, registry
  <2>2. QED
    BY <1>1, <2>1, ToldOK
<1>5. CASE ~(user_rooms[u] = r /\ Open(r)) /\ Joinable(mgr, r, u, status)
  <2>1. /\ rooms' = Joined(mgr, r, u).rooms /\ user_rooms' = Joined(mgr, r, u).user_rooms
        /\ inbox' = Told({u}, Message(reply, r))
    BY <1>5 DEF Enter, Becomes
  <2>2. QED
    BY <1>1, <1>3, <1>5, <2>1, JoinedMgrOK, ToldOK
<1>6. CASE ~(user_rooms[u] = r /\ Open(r)) /\ ~Joinable(mgr, r, u, status)
  <2>1. /\ rooms' = mgr.rooms /\ user_rooms' = mgr.user_rooms
        /\ inbox' = Told({u}, Notice("error"))
    BY <1>6 DEF Enter, Becomes
  <2>2. QED
    BY <1>2, <1>3, <2>1, ToldOK
<1>7. QED
  BY <1>4, <1>5, <1>6

\* The page that an invitation brings up
LEMMA BroughtUpOK ==
  ASSUME ClientOK, NEW u \in Users, NEW g \in Games
  PROVE  [page EXCEPT ![u] = IF @.game = g THEN @
            ELSE [game |-> g, mode |-> "select", room |-> None]] \in [Users -> Pages]
BY DEF ClientOK, Pages

\* _handle_join and _handle_mid_join
LEMMA JoinOK ==
  ASSUME IInv, NEW u \in Users, NEW r \in Rooms, Join(u, r)
  PROVE  IInv'
<1> USE DEF IInv
<1>1. rooms[r].status # "unused" /\ UNCHANGED <<active, up, losses>>
  BY DEF Join, net
<1>2. Enter(u, r, "waiting", "joined") \/ Enter(u, r, "playing", "mid_joined")
  BY DEF Join
<1>3. RegistryOK(rooms', user_rooms') /\ inbox' \in [Users -> Seq(Messages)]
  BY <1>1, <1>2, EnterOK DEF OpenStatus
<1>4. page' \in [Users -> Pages]
  <2>1. CASE UNCHANGED page
    BY <2>1 DEF ClientOK
  <2>2. CASE /\ Open(r)
             /\ page' = [page EXCEPT ![u] = IF @.game = rooms[r].game THEN @
                  ELSE [game |-> rooms[r].game, mode |-> "select", room |-> None]]
    BY <2>2, OpenRoom, BroughtUpOK
  <2>3. QED
    BY <2>1, <2>2 DEF Join
<1>5. QED
  BY <1>1, <1>3, <1>4, StepOK DEF ClientOK

\* _handle_join_friend
LEMMA JoinFriendOK ==
  ASSUME IInv, NEW u \in Users, NEW friend \in Users, JoinFriend(u, friend)
  PROVE  IInv'
<1> USE DEF IInv
<1> DEFINE r == user_rooms[friend]
<1>1. /\ Open(r) /\ Enter(u, r, rooms[r].status, "joined") /\ UNCHANGED <<active, up, losses>>
      /\ page' = [page EXCEPT ![u] = IF @.game = rooms[r].game THEN @
           ELSE [game |-> rooms[r].game, mode |-> "select", room |-> None]]
  BY DEF JoinFriend, net
<1>2. r \in Rooms /\ rooms[r].status \in OpenStatus /\ rooms[r].game \in Games
  BY <1>1, OpenRoom
<1>3. rooms[r].status # "unused"
  BY <1>2 DEF OpenStatus
<1>4. page' \in [Users -> Pages]
  BY <1>1, <1>2, BroughtUpOK
<1>5. RegistryOK(rooms', user_rooms') /\ inbox' \in [Users -> Seq(Messages)]
  BY <1>1, <1>2, <1>3, EnterOK
<1>6. QED
  BY <1>1, <1>4, <1>5, StepOK DEF ClientOK

\* The least of a set of user ids: the heir of a host.
LEMMA LeastExists ==
  ASSUME NEW T, T \subseteq Nat, T # {}
  PROVE  \E v \in T : \A w \in T : v <= w
<1> DEFINE R == {ss \in Nat \X Nat : ss[1] < ss[2]}
<1>1. IsWellFoundedOn(R, Nat)
  BY NatLessThanWellFounded DEF OpToRel
<1> HIDE DEF R
<1>2. PICK x \in T : \A y \in T : ~(<<y, x>> \in R)
  BY <1>1, WFMin
<1>3. \A y \in T : y < x => <<y, x>> \in R
  BY DEF R
<1>4. \A y \in T : ~(y < x)
  BY <1>2, <1>3
<1>5. QED
  BY <1>4

\* _handle_leave
LEMMA LeaveRoomOK ==
  ASSUME IInv, NEW u \in Users, NEW r \in Rooms, LeaveRoom(u, r)
  PROVE  RegistryOK(rooms', user_rooms') /\ inbox' \in [Users -> Seq(Messages)]
<1> USE DEF IInv
<1> DEFINE others == rooms[r].players \ {u}
           heir == CHOOSE v \in others : \A w \in others : v <= w
           told == Told({u}, Notice("left"))
<1>1. Notice("left") \in Messages /\ Notice("room_closed") \in Messages
  BY NoticeOK
<1>2. told \in [Users -> Seq(Messages)]
  BY <1>1, ToldOK
<1> HIDE DEF told
<1>3. CASE ~Open(r)
  BY <1>3 DEF LeaveRoom, registry, ClientOK
<1>4. CASE Open(r) /\ u = rooms[r].host /\ rooms[r].status = "playing" /\ others # {}
  <2> DEFINE us2 == [user_rooms EXCEPT ![u] = None]
             new == Handed(r, u, heir)
  <2>1. /\ rooms' = [rooms EXCEPT ![r] = new]
        /\ user_rooms' = us2
        /\ inbox' = told
    BY <1>4 DEF LeaveRoom, told
  <2>2. others \subseteq Nat
    BY <1>4, OpenRoom, UsersAssumption
  <2>3. heir \in others
    BY <1>4, <2>2, LeastExists
  <2>4. RoomOK(new)
    BY <1>4, <2>3, OpenRoom, HandedOK DEF Handed, Without
  <2>5. us2 \in [Users -> Rooms \cup {None}]
    BY DEF RegistryOK
  <2>6. new.status \in OpenStatus /\ new.players = others
    BY <1>4, OpenRoom DEF Handed, Without, RoomRecords
  <2>7. ASSUME NEW v \in Users, us2[v] # None
        PROVE  \/ us2[v] = r /\ new.status \in OpenStatus /\ v \in new.players
               \/ us2[v] # r /\ us2[v] = user_rooms[v]
    BY <2>6, <2>7 DEF RegistryOK
  <2> HIDE DEF us2, new
  <2>8. RegistryOK([rooms EXCEPT ![r] = new], us2)
    BY <2>4, <2>5, <2>7, PutOK
  <2>9. QED
    BY <1>2, <2>1, <2>8
<1>5. CASE Open(r) /\ ~(u = rooms[r].host /\ rooms[r].status = "playing" /\ others # {})
  <2>1. rooms' = Left(r, u).rooms /\ user_rooms' = Left(r, u).user_rooms
    BY <1>5 DEF LeaveRoom, Becomes
  <2>2. \/ inbox' = told
        \/ inbox' = [v \in Users |-> IF v \in others /\ up[v]
             THEN Append(inbox[v], Notice("room_closed")) ELSE told[v]]
    BY <1>5 DEF LeaveRoom, told
  <2>3. ASSUME NEW v \in Users
        PROVE  Append(inbox[v], Notice("room_closed")) \in Seq(Messages)
    BY <1>1 DEF ClientOK
  <2> HIDE DEF others
  <2>4. inbox' \in [Users -> Seq(Messages)]
    BY <1>2, <2>2, <2>3
  <2>5. QED
    BY <2>1, <2>4, LeftOK
<1>6. QED
  BY <1>3, <1>4, <1>5

\* _handle_leave
LEMMA LeaveOK ==
  ASSUME IInv, NEW u \in Users, Leave(u)
  PROVE  IInv'
<1> USE DEF IInv
<1>1. page[u].room \in Rooms /\ LeaveRoom(u, page[u].room) /\ UNCHANGED <<up, losses>>
  BY DEF Leave, net, ClientOK, Pages
<1>2. RegistryOK(rooms', user_rooms') /\ inbox' \in [Users -> Seq(Messages)]
  BY <1>1, LeaveRoomOK
<1>3. active' \in [Users -> Rooms \cup {None}]
  BY DEF Leave, ClientOK
<1>4. page' \in [Users -> Pages]
  <2> DEFINE after == [page[u] EXCEPT !.room = None,
                         !.mode = IF @ = "playing" THEN "select" ELSE @]
  <2>1. page[u] \in Pages
    BY DEF ClientOK
  <2>2. after \in Pages
    BY <2>1 DEF Pages
  <2>3. page' = [page EXCEPT ![u] = after]
    BY DEF Leave, ClientOK
  <2> HIDE DEF after
  <2>4. QED
    BY <2>2, <2>3 DEF ClientOK
<1>5. QED
  BY <1>1, <1>2, <1>3, <1>4, StepOK DEF ClientOK

\* The players of an open room are as they were, and so are the registrations.
LEMMA SamePlayersOK ==
  ASSUME RegistryOK(rooms, user_rooms), NEW r, Open(r), NEW new, RoomOK(new),
         new.status \in OpenStatus, new.players = rooms[r].players
  PROVE  RegistryOK([rooms EXCEPT ![r] = new], user_rooms)
<1>1. r \in Rooms
  BY OpenRoom
<1>2. user_rooms \in [Users -> Rooms \cup {None}]
  BY DEF RegistryOK
<1>3. ASSUME NEW v \in Users, user_rooms[v] # None
      PROVE  \/ user_rooms[v] = r /\ new.status \in OpenStatus /\ v \in new.players
             \/ user_rooms[v] # r /\ user_rooms[v] = user_rooms[v]
  BY <1>3 DEF RegistryOK
<1>4. QED
  BY <1>1, <1>2, <1>3, PutOK

\* _handle_ready
LEMMA ReadyStepOK ==
  ASSUME IInv, NEW u \in Users, Ready(u)
  PROVE  IInv'
<1> USE DEF IInv
<1> DEFINE r == page[u].room
           new == [rooms[r] EXCEPT !.ready = @ \cup {u}]
<1>1. /\ Open(r) /\ u \in rooms[r].players /\ rooms' = [rooms EXCEPT ![r] = new]
      /\ UNCHANGED <<user_rooms, page, active, inbox, up, losses>>
  BY OpenRoom DEF Ready, client, net, RegistryOK
<1>2. RoomOK(new)
  BY <1>1, OpenRoom, ReadyOK
<1>3. new.status \in OpenStatus /\ new.players = rooms[r].players
  BY <1>1, OpenRoom DEF RoomRecords
<1> HIDE DEF new
<1>4. RegistryOK(rooms', user_rooms')
  BY <1>1, <1>2, <1>3, SamePlayersOK
<1>5. QED
  BY <1>1, <1>4, StepOK DEF ClientOK

\* _handle_start
LEMMA StartOK ==
  ASSUME IInv, NEW u \in Users, Start(u)
  PROVE  IInv'
<1> USE DEF IInv
<1> DEFINE r == page[u].room
           new == [rooms[r] EXCEPT !.status = "playing"]
<1>1. /\ Open(r) /\ rooms' = [rooms EXCEPT ![r] = new]
      /\ inbox' = Told(rooms[r].players, Message("started", r))
      /\ UNCHANGED <<user_rooms, page, active, up, losses>>
  BY OpenRoom DEF Start, client, net, RegistryOK
<1>2. RoomOK(new)
  BY <1>1, OpenRoom, StartedOK DEF OpenStatus
<1>3. new.status \in OpenStatus /\ new.players = rooms[r].players
  BY <1>1, OpenRoom DEF RoomRecords, OpenStatus
<1> HIDE DEF new
<1>4. RegistryOK(rooms', user_rooms')
  BY <1>1, <1>2, <1>3, SamePlayersOK
<1>5. Message("started", r) \in Messages
  BY <1>1, OpenRoom, MessageOK DEF OpenStatus
<1>6. inbox' \in [Users -> Seq(Messages)]
  BY <1>1, <1>5, ToldOK
<1>7. QED
  BY <1>1, <1>4, <1>6, StepOK DEF ClientOK

\* _handle_back_to_lobby
LEMMA BackToLobbyOK ==
  ASSUME IInv, NEW u \in Users, BackToLobby(u)
  PROVE  IInv'
<1> USE DEF IInv
<1> DEFINE r == user_rooms[u]
<1>1. page' \in [Users -> Pages] /\ UNCHANGED <<active, up, losses>>
  <2>1. page' = [page EXCEPT ![u] = [page[u] EXCEPT !.mode = "lobby"]]
    BY DEF BackToLobby, ClientOK
  <2>2. [page[u] EXCEPT !.mode = "lobby"] \in Pages
    BY DEF ClientOK, Pages
  <2>3. QED
    BY <2>1, <2>2 DEF ClientOK, BackToLobby, net
<1>2. CASE r # None /\ Open(r)
  <2> DEFINE new == [rooms[r] EXCEPT !.status = "waiting", !.ready = {}, !.gone = {}]
             us2 == [v \in Users |-> IF v \in rooms[r].players THEN r ELSE user_rooms[v]]
             said == [type |-> "lobby_reset", room |-> r, game |-> rooms[r].game,
                      status |-> "waiting"]
  <2>1. r \in Rooms /\ rooms[r].game \in Games
    BY <1>2, OpenRoom
  <2>2. rooms' = [rooms EXCEPT ![r] = new] /\ user_rooms' = us2
        /\ inbox' = Told(rooms[r].players, said)
    BY <1>2, <2>1 DEF BackToLobby, RegistryOK
  <2>3. RoomOK(new)
    BY <1>2, OpenRoom, ResetOK DEF OpenStatus
  <2>4. new.status \in OpenStatus /\ new.players = rooms[r].players
    BY <1>2, OpenRoom DEF RoomRecords, OpenStatus
  <2>5. us2 \in [Users -> Rooms \cup {None}]
    BY <2>1 DEF RegistryOK
  <2>6. ASSUME NEW v \in Users, us2[v] # None
        PROVE  \/ us2[v] = r /\ new.status \in OpenStatus /\ v \in new.players
               \/ us2[v] # r /\ us2[v] = user_rooms[v]
    BY <2>4, <2>6 DEF RegistryOK
  <2> HIDE DEF new, us2
  <2>7. RegistryOK([rooms EXCEPT ![r] = new], us2)
    BY <2>1, <2>3, <2>5, <2>6, PutOK
  <2>8. said \in Messages
    BY <2>1 DEF Messages
  <2>9. inbox' \in [Users -> Seq(Messages)]
    BY <2>2, <2>8, ToldOK
  <2>10. QED
    BY <1>1, <2>2, <2>7, <2>9, StepOK DEF ClientOK
<1>3. CASE ~(r # None /\ Open(r))
  <2>1. inbox' = Told({u}, Notice("error")) /\ UNCHANGED <<rooms, user_rooms>>
    BY <1>3 DEF BackToLobby, registry
  <2>2. inbox' \in [Users -> Seq(Messages)]
    BY <2>1, NoticeOK, ToldOK
  <2>3. QED
    BY <1>1, <2>1, <2>2, StepOK DEF ClientOK
<1>4. QED
  BY <1>2, <1>3

\* The page of a game is opened.
LEMMA OpenPageOK ==
  ASSUME IInv, NEW u \in Users, NEW g \in Games, OpenPage(u, g)
  PROVE  IInv'
<1> USE DEF IInv
<1> DEFINE r == user_rooms[u]
<1>1. UNCHANGED <<rooms, user_rooms, active, up, losses>>
  BY DEF OpenPage, registry, net
<1>2. page' \in [Users -> Pages]
  BY DEF OpenPage, ClientOK, Pages
<1>3. CASE r # None /\ Open(r)
  <2>1. Message("room_info", r) \in Messages
    BY <1>3, OpenRoom, MessageOK DEF OpenStatus
  <2>2. inbox' = Told({u}, Message("room_info", r))
    BY <1>3 DEF OpenPage
  <2>3. QED
    BY <1>1, <1>2, <2>1, <2>2, ToldOK, StepOK DEF ClientOK
<1>4. CASE ~(r # None /\ Open(r))
  <2>1. Notice("no_room") \in Messages
    BY NoticeOK
  <2>2. inbox' = Told({u}, Notice("no_room"))
    BY <1>4 DEF OpenPage
  <2>3. QED
    BY <1>1, <1>2, <2>1, <2>2, ToldOK, StepOK DEF ClientOK
<1>5. QED
  BY <1>3, <1>4

\* The page shows the lobby, or the choice of mode again.
LEMMA LobbyOK ==
  ASSUME IInv, NEW u \in Users, EnterLobby(u) \/ BackToSelect(u)
  PROVE  IInv'
<1> USE DEF IInv
<1>1. UNCHANGED <<rooms, user_rooms, inbox, up, losses>>
  BY DEF EnterLobby, BackToSelect, registry, net
<1>2. CASE EnterLobby(u)
  <2>1. page' \in [Users -> Pages] /\ UNCHANGED active
    BY <1>2 DEF EnterLobby, ClientOK, Pages
  <2>2. QED
    BY <1>1, <2>1, StepOK DEF ClientOK
<1>3. CASE BackToSelect(u)
  <2> DEFINE after == [page[u] EXCEPT !.mode = "select", !.room = None]
  <2>1. after \in Pages
    BY DEF ClientOK, Pages
  <2>2. page' = [page EXCEPT ![u] = after]
    BY <1>3 DEF BackToSelect, ClientOK
  <2> HIDE DEF after
  <2>3. page' \in [Users -> Pages] /\ active' \in [Users -> Rooms \cup {None}]
    BY <1>3, <2>1, <2>2 DEF BackToSelect, ClientOK
  <2>4. QED
    BY <1>1, <2>3, StepOK DEF ClientOK
<1>4. QED
  BY <1>2, <1>3

\* The end of the websocket endpoint
LEMMA SocketEndsOK ==
  ASSUME IInv, NEW u \in Users, NEW heard \in BOOLEAN, NEW old \in SUBSET Rooms,
         SocketEnds(u, heard, old)
  PROVE  RegistryOK(rooms', user_rooms') /\ inbox' \in [Users -> Seq(Messages)]
<1> USE DEF IInv
<1> DEFINE r == user_rooms[u]
           waiting == r # None /\ Open(r) /\ rooms[r].status = "waiting"
           away == IF waiting THEN Left(r, u) ELSE Registry
           mark == [q \in Rooms |->
                     IF q = r /\ rooms[q].status = "playing" /\ u \in rooms[q].players
                     THEN [rooms[q] EXCEPT !.gone = @ \cup {u}] ELSE away.rooms[q]]
<1>1. RegistryOK(mark, away.user_rooms)
  <2>1. CASE waiting
    <3>1. r \in Rooms /\ away = Left(r, u)
      BY <2>1, OpenRoom
    <3>2. RegistryOK(away.rooms, away.user_rooms)
      BY <3>1, LeftOK
    <3> HIDE DEF away
    <3>3. mark = [q \in Rooms |-> away.rooms[q]]
      BY <2>1
    <3>4. away.rooms = [q \in Rooms |-> away.rooms[q]]
      BY <3>2 DEF RegistryOK
    <3>5. QED
      BY <3>2, <3>3, <3>4
  <2>2. CASE ~waiting
    <3>1. away.rooms = rooms /\ away.user_rooms = user_rooms
      BY <2>2 DEF Registry
    <3> HIDE DEF away
    <3>2. CASE r \in Rooms /\ rooms[r].status = "playing" /\ u \in rooms[r].players
      <4> DEFINE new == [rooms[r] EXCEPT !.gone = @ \cup {u}]
      <4>1. Open(r)
        BY <3>2 DEF Open
      <4>2. RoomOK(new)
        <5>1. rooms[r].gone \cup {u} \in SUBSET Users
          BY <4>1, OpenRoom DEF RoomRecords
        <5>2. QED
          BY <4>1, <5>1, OpenRoom, GoneOK
      <4>3. new.status \in OpenStatus /\ new.players = rooms[r].players
        BY <4>1, OpenRoom DEF RoomRecords
      <4>4. mark = [rooms EXCEPT ![r] = new]
        BY <3>1, <3>2 DEF RegistryOK
      <4> HIDE DEF new, mark
      <4>5. QED
        BY <3>1, <4>1, <4>2, <4>3, <4>4, SamePlayersOK
    <3>3. CASE ~(r \in Rooms /\ rooms[r].status = "playing" /\ u \in rooms[r].players)
      <4>1. mark = rooms
        BY <3>1, <3>3 DEF RegistryOK
      <4> HIDE DEF mark
      <4>2. QED
        BY <3>1, <4>1
    <3>4. QED
      BY <3>2, <3>3
  <2>3. QED
    BY <2>1, <2>2
<1>2. /\ rooms' = [q \in Rooms |-> IF q \in old THEN NoRoom("closed") ELSE mark[q]]
      /\ user_rooms' = [v \in Users |-> IF \E q \in old : v \in mark[q].players THEN None
                                        ELSE away.user_rooms[v]]
  BY DEF SocketEnds
<1>3. RegistryOK(rooms', user_rooms')
  <2> HIDE DEF mark, away
  <2>1. QED
    BY <1>1, <1>2, CloseOK
<1>4. inbox' = [v \in Users |->
        IF v = u /\ ~heard THEN <<>>
        ELSE IF waiting /\ u = rooms[r].host /\ v \in rooms[r].players \ {u} /\ up[v]
        THEN Append(inbox[v], Notice("room_closed"))
        ELSE inbox[v]]
  BY DEF SocketEnds
<1>5. inbox' \in [Users -> Seq(Messages)]
  <2>1. Notice("room_closed") \in Messages
    BY NoticeOK
  <2>2. ASSUME NEW v \in Users
        PROVE  /\ inbox[v] \in Seq(Messages)
               /\ Append(inbox[v], Notice("room_closed")) \in Seq(Messages)
               /\ <<>> \in Seq(Messages)
    BY <2>1 DEF ClientOK
  <2> HIDE DEF waiting
  <2>3. QED
    BY <1>4, <2>2
<1>6. QED
  BY <1>3, <1>5

\* A socket ends, with a word of it to the client or without.
LEMMA LossOK ==
  ASSUME IInv, NEW u \in Users, LoseSocket(u) \/ OtherSocketEnds(u)
  PROVE  IInv'
<1> USE DEF IInv
<1>1. PICK heard \in BOOLEAN, old \in SUBSET Rooms : SocketEnds(u, heard, old)
  BY DEF LoseSocket, OtherSocketEnds
<1>2. RegistryOK(rooms', user_rooms') /\ inbox' \in [Users -> Seq(Messages)]
  BY <1>1, SocketEndsOK
<1>3. UNCHANGED <<page, active>> /\ up' \in [Users -> BOOLEAN]
  BY DEF LoseSocket, OtherSocketEnds, client, ClientOK
<1>4. losses < MaxLosses /\ losses' = losses + 1
  BY DEF LoseSocket, OtherSocketEnds
<1>5. losses' \in 0..MaxLosses
  BY <1>4, BoundsAssumption DEF ClientOK
<1>6. QED
  BY <1>2, <1>3, <1>5, StepOK DEF ClientOK

\* A new socket, and the rejoin the client asks for.
LEMMA ReconnectOK ==
  ASSUME IInv, NEW u \in Users, Reconnect(u)
  PROVE  IInv'
<1> USE DEF IInv
<1> DEFINE r == active[u]
<1>1. UNCHANGED <<user_rooms, page, active, losses>> /\ up' \in [Users -> BOOLEAN]
  BY DEF Reconnect, client, ClientOK
<1>2. ASSUME NEW m \in Messages, inbox' = [inbox EXCEPT ![u] = Append(@, m)]
      PROVE  inbox' \in [Users -> Seq(Messages)]
  BY <1>2 DEF ClientOK
<1>3. CASE UNCHANGED <<rooms, inbox>>
  BY <1>1, <1>3, StepOK DEF ClientOK
<1>4. CASE /\ Open(r) /\ rooms' = [rooms EXCEPT ![r].gone = @ \ {u}]
           /\ inbox' = [inbox EXCEPT ![u] = Append(@, Message("rejoin_success", r))]
  <2> DEFINE new == [rooms[r] EXCEPT !.gone = @ \ {u}]
  <2>1. RoomOK(new)
    <3>1. rooms[r].gone \ {u} \in SUBSET Users
      BY <1>4, OpenRoom DEF RoomRecords
    <3>2. QED
      BY <1>4, <3>1, OpenRoom, GoneOK
  <2>2. new.status \in OpenStatus /\ new.players = rooms[r].players
    BY <1>4, OpenRoom DEF RoomRecords
  <2>3. rooms' = [rooms EXCEPT ![r] = new]
    BY <1>4, OpenRoom DEF RegistryOK
  <2> HIDE DEF new
  <2>4. RegistryOK(rooms', user_rooms')
    <3>1. RegistryOK([rooms EXCEPT ![r] = new], user_rooms)
      BY <1>4, <2>1, <2>2, SamePlayersOK
    <3>2. user_rooms' = user_rooms
      BY <1>1
    <3>3. QED
      BY <2>3, <3>1, <3>2
  <2>5. Message("rejoin_success", r) \in Messages
    BY <1>4, OpenRoom, MessageOK DEF OpenStatus
  <2>6. QED
    BY <1>1, <1>2, <1>4, <2>4, <2>5, StepOK DEF ClientOK
<1>5. CASE /\ inbox' = [inbox EXCEPT ![u] = Append(@, Notice("rejoin_failed"))]
           /\ UNCHANGED rooms
  <2>1. Notice("rejoin_failed") \in Messages
    BY NoticeOK
  <2>2. QED
    BY <1>1, <1>2, <1>5, <2>1, StepOK DEF ClientOK
<1>6. QED
  BY <1>3, <1>4, <1>5 DEF Reconnect

\* What a message makes of the page is a page.
LEMMA ListenedOK ==
  ASSUME ClientOK, NEW u \in Users, NEW m \in Messages
  PROVE  Listened(u, m).page \in Pages /\ Listened(u, m).active \in Rooms \cup {None}
<1> DEFINE same == [page |-> page[u], active |-> active[u]]
<1>1. page[u] \in Pages /\ active[u] \in Rooms \cup {None}
  BY DEF ClientOK
<1>2. m.room \in Rooms \cup {None}
  BY DEF Messages
<1>3. \A mode \in {"select", "lobby", "playing"}, r \in Rooms \cup {None} :
        Shows(u, mode, r) \in Pages
  BY <1>1 DEF Shows, Pages
<1>4. Phase(m) \in {"lobby", "playing"}
  BY DEF Phase
<1>5. [page[u] EXCEPT !.mode = "select"] \in Pages
  BY <1>1 DEF Pages
<1>6. [same EXCEPT !.page.room = m.room].page \in Pages
      /\ [same EXCEPT !.page.room = m.room].active = active[u]
  BY <1>1, <1>2 DEF Pages
<1>7. QED
  BY <1>1, <1>2, <1>3, <1>4, <1>5, <1>6 DEF Listened

\* The client receives the oldest message.
LEMMA ReceiveOK ==
  ASSUME IInv, NEW u \in Users, Receive(u)
  PROVE  IInv'
<1> USE DEF IInv
<1> DEFINE after == Listened(u, Head(inbox[u]))
<1>1. UNCHANGED <<rooms, user_rooms, up, losses>>
  BY DEF Receive, registry, net
<1>2. Head(inbox[u]) \in Messages /\ Tail(inbox[u]) \in Seq(Messages)
  BY DEF Receive, ClientOK
<1>3. after.page \in Pages /\ after.active \in Rooms \cup {None}
  BY <1>2, ListenedOK
<1>4. /\ page' = [page EXCEPT ![u] = after.page]
      /\ active' = [active EXCEPT ![u] = after.active]
      /\ inbox' = [inbox EXCEPT ![u] = Tail(@)]
  BY DEF Receive
<1> HIDE DEF after
<1>5. /\ page' \in [Users -> Pages] /\ active' \in [Users -> Rooms \cup {None}]
      /\ inbox' \in [Users -> Seq(Messages)]
  BY <1>2, <1>3, <1>4 DEF ClientOK
<1>6. QED
  BY <1>1, <1>5, StepOK DEF ClientOK

-----------------------------------------------------------------------------
(* The invariant                                                             *)

\* The invariant holds at first.
LEMMA InitOK == Init => IInv
<1> SUFFICES ASSUME Init PROVE IInv
  OBVIOUS
<1>1. RoomOK(NoRoom("unused"))
  BY NoRoomOK
<1>2. RegistryOK(rooms, user_rooms)
  BY <1>1 DEF Init, RegistryOK, RoomOK
<1>3. ClientOK
  BY BoundsAssumption DEF Init, ClientOK, Pages
<1>4. QED
  BY <1>2, <1>3 DEF IInv

\* Every step keeps the invariant.
LEMMA NextOK == IInv /\ [Next]_vars => IInv'
<1> SUFFICES ASSUME IInv, [Next]_vars PROVE IInv'
  OBVIOUS
<1>1. CASE UNCHANGED vars
  BY <1>1 DEF vars, IInv, RegistryOK, ClientOK
<1>2. ASSUME NEW u \in Users, Create(u) PROVE IInv'
  BY <1>2, CreateOK
<1>3. ASSUME NEW u \in Users, NEW r \in Rooms, Join(u, r) PROVE IInv'
  BY <1>3, JoinOK
<1>4. ASSUME NEW u \in Users, NEW friend \in Users, JoinFriend(u, friend) PROVE IInv'
  BY <1>4, JoinFriendOK
<1>5. ASSUME NEW u \in Users, Leave(u) PROVE IInv'
  BY <1>5, LeaveOK
<1>6. ASSUME NEW u \in Users, Ready(u) PROVE IInv'
  BY <1>6, ReadyStepOK
<1>7. ASSUME NEW u \in Users, Start(u) PROVE IInv'
  BY <1>7, StartOK
<1>8. ASSUME NEW u \in Users, BackToLobby(u) PROVE IInv'
  BY <1>8, BackToLobbyOK
<1>9. ASSUME NEW u \in Users, NEW g \in Games, OpenPage(u, g) PROVE IInv'
  BY <1>9, OpenPageOK
<1>10. ASSUME NEW u \in Users, EnterLobby(u) \/ BackToSelect(u) PROVE IInv'
  BY <1>10, LobbyOK
<1>11. ASSUME NEW u \in Users, LoseSocket(u) \/ OtherSocketEnds(u) PROVE IInv'
  BY <1>11, LossOK
<1>12. ASSUME NEW u \in Users, Reconnect(u) PROVE IInv'
  BY <1>12, ReconnectOK
<1>13. ASSUME NEW u \in Users, Receive(u) PROVE IInv'
  BY <1>13, ReceiveOK
<1>14. QED
  BY <1>1, <1>2, <1>3, <1>4, <1>5, <1>6, <1>7, <1>8, <1>9, <1>10, <1>11, <1>12, <1>13 DEF Next

\* The invariant is inductive.
LEMMA Inductive == Spec => []IInv
<1>1. QED
  BY InitOK, NextOK, PTL DEF Spec

\* The registry is of its types; only players of a room are ready in it; an open
\* room has a game, another one nothing.
THEOREM RegistryHolds == Spec => []RegistryInv
<1>1. IInv => RegistryInv
  BY IInvIs
<1>2. QED
  BY <1>1, Inductive, PTL

\* The room a user is registered in is open and has the user as a player.
THEOREM RegisteredAreMembers == Spec => []RegisteredIsMember
<1>1. IInv => RegisteredIsMember
  BY IInvIs
<1>2. QED
  BY <1>1, Inductive, PTL

\* The host of an open room is one of its players, whoever leaves and however.
THEOREM HostsAreMembers == Spec => []HostIsMember
<1>1. IInv => HostIsMember
  BY IInvIs
<1>2. QED
  BY <1>1, Inductive, PTL

=============================================================================
