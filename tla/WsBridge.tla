------------------------------ MODULE WsBridge ------------------------------
(***************************************************************************)
(* The WebSocket bridge of app/core/ws_manager.py: notifications put on    *)
(* ws_notification_queue by the consumer thread, the ConnectionManager's   *)
(* lists of sockets, one handler coroutine per connection                  *)
(* (websocket_order in app/main.py) and ws_broadcast_loop.                 *)
(*                                                                         *)
(* Coroutines share one event loop: a step runs from one await to the      *)
(* next, so lists change only while the broadcast awaits a send.  Python   *)
(* iterates over a list object: connect appends to the object being        *)
(* iterated, disconnect replaces it.                                       *)
(***************************************************************************)
EXTENDS Naturals, Sequences, SequencesExt

CONSTANTS Orders,     \* order ids
          Sockets,    \* WebSocket connections ever made
          path,       \* the room each one asks for: an order, or "all"
          MaxEvents   \* bound: events the consumer thread pushes

Rooms == Orders \union {"all"}

ASSUME BridgeConstants ==
    /\ "all" \notin Orders /\ MaxEvents \in Nat /\ path \in [Sockets -> Rooms]

VARIABLES
    pushed,             \* every notification put on the queue, oldest first
    taken,              \* how many of them the broadcast loop has taken
    active_connections, \* the list of each room; <<>> where the key is absent
    handler,            \* each connection's coroutine
    peer,               \* whether its client is "up" or "down"
    loop,               \* the broadcast loop: which list it is sending to
    received,           \* notifications each client got, by number
    since               \* how many had been taken when it was registered

vars == <<pushed, taken, active_connections, handler, peer, loop, received, since>>

\* loop.list is the list object being iterated and loop.shared says whether
\* it still is the one in active_connections.
Waiting == [pc |-> "get", room |-> "all", list |-> <<>>, i |-> 1,
            shared |-> FALSE, dead |-> {}]
Notifying(room, list) == [pc |-> "send", room |-> room, list |-> list, i |-> 1,
                          shared |-> list # <<>>, dead |-> {}]

Init ==
    /\ pushed = <<>>
    /\ taken = 0
    /\ active_connections = [room \in Rooms |-> <<>>]
    /\ handler = [s \in Sockets |-> "new"]
    /\ peer = [s \in Sockets |-> "up"]
    /\ loop = Waiting
    /\ received = [s \in Sockets |-> <<>>]
    /\ since = [s \in Sockets |-> 0]

-----------------------------------------------------------------------------

\* The consumer thread: ws_notification_queue.put(event).
put(o) ==
    /\ Len(pushed) < MaxEvents
    /\ pushed' = Append(pushed, o)
    /\ UNCHANGED <<taken, active_connections, handler, peer, loop, received, since>>

\* connect: await websocket.accept() ...
accept(s) ==
    /\ handler[s] = "new"
    /\ handler' = [handler EXCEPT ![s] = "accepting"]
    /\ UNCHANGED <<pushed, taken, active_connections, peer, loop, received, since>>

\* ... then the socket joins its room's list, also under the broadcast.
connect(s) ==
    /\ handler[s] = "accepting"
    /\ handler' = [handler EXCEPT ![s] = "receiving"]
    /\ active_connections' = [active_connections EXCEPT ![path[s]] = Append(@, s)]
    /\ loop' = IF loop.shared /\ loop.room = path[s]
               THEN [loop EXCEPT !.list = Append(@, s)] ELSE loop
    /\ since' = [since EXCEPT ![s] = taken]
    /\ UNCHANGED <<pushed, taken, peer, received>>

\* Seeded mistake: disconnect() drops the room instead of the socket.
WithoutRoom(list, gone) == <<>>

\* disconnect() keeps the other sockets of the list, in their order.
Without(list, gone) ==
    LET kept[n \in 0 .. Len(list)] ==
            IF n = 0 THEN <<>>
            ELSE IF list[n] \in gone THEN kept[n - 1]
            ELSE Append(kept[n - 1], list[n])
    IN  kept[Len(list)]

\* Seeded mistake: disconnect() removes from the list in place, and the
\* iteration goes on one place too far.
SharedRemoval(gone, room) ==
    IF loop.shared /\ loop.room = room
    THEN [loop EXCEPT !.list = Without(@, gone)] ELSE loop

\* Seeded mistake: after a disconnect the broadcast goes on with the old list
\* as if it still were the registered one.
StillRegistered(gone, room) == loop

\* The broadcast keeps the old list object when a room's list is replaced.
Replaced(gone, room) ==
    IF loop.room = room THEN [loop EXCEPT !.shared = FALSE] ELSE loop

\* Seeded mistake: a connection that ends is left in the registry.
ends_unnoticed(s) ==
    /\ handler[s] = "receiving"
    /\ peer[s] = "down"
    /\ handler' = [handler EXCEPT ![s] = "done"]
    /\ UNCHANGED <<pushed, taken, active_connections, peer, loop, received, since>>

\* receive_text raises once the client is away: the handler disconnects.
websocket_order(s) ==
    /\ handler[s] = "receiving"
    /\ peer[s] = "down"
    /\ handler' = [handler EXCEPT ![s] = "done"]
    /\ active_connections' = [active_connections EXCEPT ![path[s]] = Without(@, {s})]
    /\ loop' = Replaced({s}, path[s])
    /\ UNCHANGED <<pushed, taken, peer, received, since>>

close(s) ==
    /\ handler[s] # "new"
    /\ peer[s] = "up"
    /\ peer' = [peer EXCEPT ![s] = "down"]
    /\ UNCHANGED <<pushed, taken, active_connections, handler, loop, received, since>>

-----------------------------------------------------------------------------

\* ws_broadcast_loop takes a notification and turns to the order's room.
ws_broadcast_loop ==
    /\ loop.pc = "get"
    /\ taken < Len(pushed)
    /\ taken' = taken + 1
    /\ LET room == pushed[taken + 1]
       IN  loop' = Notifying(room, active_connections[room])
    /\ UNCHANGED <<pushed, active_connections, handler, peer, received, since>>

\* Seeded mistake: the broadcast does not move on after it has sent.
staying(i) == i

following(i) == i + 1

\* notify: the next socket of the list gets the notification, or is dead.
send_json ==
    /\ loop.pc = "send"
    /\ loop.i <= Len(loop.list)
    /\ LET s == loop.list[loop.i] IN
       \/ /\ peer[s] = "up"
          /\ received' = [received EXCEPT ![s] = Append(@, taken)]
          /\ loop' = [loop EXCEPT !.i = following(@)]
       \/ /\ peer[s] = "down"
          /\ loop' = [loop EXCEPT !.i = following(@), !.dead = @ \union {s}]
          /\ UNCHANGED received
    /\ UNCHANGED <<pushed, taken, active_connections, handler, peer, since>>

\* After the last socket: dead ones are disconnected, and the loop turns to
\* the "all" room, or back to the queue, without awaiting in between.
notify ==
    /\ loop.pc = "send"
    /\ loop.i > Len(loop.list)
    /\ active_connections' =
          [active_connections EXCEPT ![loop.room] = Without(@, loop.dead)]
    /\ loop' = IF loop.room = "all" THEN Waiting
               ELSE Notifying("all", active_connections["all"])
    /\ UNCHANGED <<pushed, taken, handler, peer, received, since>>

Broadcast == ws_broadcast_loop \/ send_json \/ notify

\* Every client got all it will get: the program may rest.
Rest ==
    /\ loop.pc = "get" /\ taken = MaxEvents
    /\ \A s \in Sockets : handler[s] = "done"
    /\ UNCHANGED vars

Next ==
    \/ \E o \in Orders : put(o)
    \/ \E s \in Sockets : accept(s) \/ connect(s) \/ websocket_order(s) \/ close(s)
    \/ Broadcast
    \/ Rest

Spec == Init /\ [][Next]_vars

\* The event loop runs every coroutine that can go on; clients and the
\* consumer thread come and go as they like.
Fairness ==
    /\ WF_vars(Broadcast)
    /\ \A s \in Sockets : WF_vars(connect(s)) /\ WF_vars(websocket_order(s))

FairSpec == Spec /\ Fairness

-----------------------------------------------------------------------------

\* Every variable keeps its shape; the list being iterated is the registered
\* one as long as nobody was disconnected from it.
TypeOK ==
    /\ pushed \in Seq(Orders) /\ taken \in 0 .. Len(pushed)
    /\ active_connections \in [Rooms -> Seq(Sockets)]
    /\ handler \in [Sockets -> {"new", "accepting", "receiving", "done"}]
    /\ peer \in [Sockets -> {"up", "down"}]
    /\ loop \in [pc : {"get", "send"}, room : Rooms, list : Seq(Sockets),
                 i : Nat, shared : BOOLEAN, dead : SUBSET Sockets]
    /\ loop.shared => loop.list = active_connections[loop.room]
    /\ received \in [Sockets -> Seq(1 .. taken)]
    /\ since \in [Sockets -> 0 .. taken]

\* Registered sockets belong to running handlers, in the right room and only
\* once; a handler whose socket is not registered has lost its client, so no
\* client waits at a socket nobody will ever send to.
RegistryIsClean ==
    /\ \A room \in Rooms : \A i, j \in DOMAIN active_connections[room] :
          LET s == active_connections[room][i] IN
          /\ path[s] = room /\ handler[s] = "receiving"
          /\ s = active_connections[room][j] => i = j
    /\ \A s \in Sockets :
          handler[s] = "receiving" /\ peer[s] = "up" =>
              Contains(active_connections[path[s]], s)

Concerns(n, s) == path[s] \in {pushed[n], "all"}

\* A client gets a notification at most once, in the order of the queue, and
\* only if it is about its order.
ReceivedInOrder ==
    \A s \in Sockets :
        /\ \A i \in DOMAIN received[s] : Concerns(received[s][i], s)
        /\ \A i \in 2 .. Len(received[s]) : received[s][i - 1] < received[s][i]

\* A client that stays connected gets every notification about its order
\* taken after it was registered, whoever connects or disconnects meanwhile;
\* the one being broadcast may still be on its way.
NobodyIsSkipped ==
    \A s \in Sockets : handler[s] = "receiving" /\ peer[s] = "up" =>
        \A n \in since[s] + 1 .. taken :
            Concerns(n, s) => \/ Contains(received[s], n)
                              \/ n = taken /\ loop.pc = "send"

\* What a client sees of the bridge: it is there while its handler serves
\* it, and awaits what was taken since until that arrives.
Present == {s \in Sockets : handler[s] = "receiving" /\ peer[s] = "up"}
Awaiting ==
    {s \in Present : /\ loop.pc = "send" /\ since[s] < taken
                     /\ Concerns(taken, s) /\ ~ Contains(received[s], taken)}

Promise == INSTANCE Delivery WITH
    busy <- loop.pc = "send", present <- Present, awaiting <- Awaiting, inbox <- received

\* Iterating over lists that others extend and replace, and over two rooms
\* one after the other, the bridge does what Delivery does in one place:
\* everyone who waits is served before the next notification, and once.
ImplementsDelivery == Promise!Spec

\* The sockets of clients that went away do not stay registered.
ClosedSocketsLeave ==
    \A s \in Sockets :
        peer[s] = "down" ~> ~ Contains(active_connections[path[s]], s)
=============================================================================
