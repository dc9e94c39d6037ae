---------------------------- MODULE WsBridgeProofs ----------------------------
(***************************************************************************)
(* What the WebSocket bridge keeps true for any orders, sockets, rooms and *)
(* number of events.                                                       *)
(*                                                                         *)
(* NobodyIsSkipped and ReceivedInOrder say nothing of a broadcast that is  *)
(* under way.  What carries them through it is where the loop stands in    *)
(* its list: who comes after that place has not got the notification yet   *)
(* (Unsent), and who must get it and has not still comes (Reaching).       *)
(***************************************************************************)
EXTENDS WsBridge, WellFoundedInduction, TLAPS

Sending == loop.pc = "send"

\* Those of the list whom the broadcast has come past.
Sent == {loop.list[k] : k \in 1 .. loop.i - 1}

Distinct(list) == \A j, k \in DOMAIN list : list[j] = list[k] => j = k

\* The list being sent to is of a room the last notification is for, whoever
\* has been disconnected from that room since; the dead are away for good.
ListIsRight ==
    /\ loop.i \in 1 .. Len(loop.list) + 1
    /\ \A s \in loop.dead : peer[s] = "down"
    /\ Sending =>
          /\ taken > 0 /\ loop.room \in {pushed[taken], "all"}
          /\ \A j \in DOMAIN loop.list : LET s == loop.list[j] IN
                path[s] = loop.room /\ (peer[s] = "up" => handler[s] = "receiving")
          /\ Distinct(loop.list)

\* Whom the broadcast has not come to does not have its notification.
Unsent ==
    Sending => \A s \in Sockets :
        path[s] \in {loop.room, "all"} /\ s \notin Sent =>
            \A j \in DOMAIN received[s] : received[s][j] < taken

\* The broadcast will come to s: in this list, or in that of the "all" room.
Pending(s) ==
    \/ path[s] = loop.room /\ \E k \in DOMAIN loop.list : k >= loop.i /\ loop.list[k] = s
    \/ path[s] = "all" /\ loop.room # "all"

\* Who has to get the notification has got it, or the broadcast will come.
Reaching ==
    Sending => \A s \in Sockets :
        handler[s] = "receiving" /\ peer[s] = "up" /\ since[s] < taken /\ Concerns(taken, s) =>
            Contains(received[s], taken) \/ Pending(s)

BridgeInv ==
    /\ TypeOK /\ RegistryIsClean /\ ReceivedInOrder /\ NobodyIsSkipped
    /\ ListIsRight /\ Unsent /\ Reaching

-----------------------------------------------------------------------------

\* A set of numbers has a least one.
LEMMA LeastNumber ==
    ASSUME NEW B \in SUBSET Nat, B # {}
    PROVE  \E c \in B : \A d \in B : c <= d
<1> DEFINE Less == {ss \in Nat \X Nat : ss[1] < ss[2]}
<1>1. IsWellFoundedOn(Less, Nat)
  BY NatLessThanWellFounded, Zenon DEF OpToRel
<1>2. PICK c \in B : \A d \in B : ~(<<d, c>> \in Less)
  <2> HIDE DEF Less
  <2> QED
    BY <1>1, WFMin
<1>3. \A d \in B : c <= d
  <2> SUFFICES ASSUME NEW d \in B, d < c
               PROVE  FALSE
    OBVIOUS
  <2> QED
    BY <1>2
<1> QED
  BY <1>3

\* f holds what disconnect() has kept of the first 0, 1, ... m sockets.
Scan(list, gone, f, m) ==
    f = [n \in 0 .. m |->
            IF n = 0 THEN <<>>
            ELSE IF list[n] \in gone THEN f[n - 1]
            ELSE Append(f[n - 1], list[n])]

LEMMA ScanExists ==
    ASSUME NEW list, NEW gone, NEW m \in Nat
    PROVE  \E f : Scan(list, gone, f, m)
<1> DEFINE B == {n \in Nat : ~ \E f : Scan(list, gone, f, n)}
<1> SUFFICES ASSUME B # {}
             PROVE  FALSE
  OBVIOUS
<1>1. PICK c \in B : \A d \in B : c <= d
  BY LeastNumber
<1>2. c # 0
  <2> DEFINE f == [n \in 0 .. 0 |-> <<>>]
  <2>1. Scan(list, gone, f, 0)
    BY DEF Scan
  <2> QED
    BY <2>1
<1>3. PICK f : Scan(list, gone, f, c - 1)
  BY <1>1, <1>2
<1> DEFINE g == [n \in 0 .. c |-> IF n = 0 THEN <<>>
                                  ELSE IF list[n] \in gone THEN f[n - 1]
                                  ELSE Append(f[n - 1], list[n])]
<1>4. ASSUME NEW n \in 0 .. c - 1
      PROVE  g[n] = f[n]
  <2>1. n \in 0 .. c
    BY <1>1, <1>2
  <2>2. f[n] = IF n = 0 THEN <<>>
               ELSE IF list[n] \in gone THEN f[n - 1] ELSE Append(f[n - 1], list[n])
    BY <1>3 DEF Scan
  <2> QED
    BY <2>1, <2>2
<1>5. Scan(list, gone, g, c)
  <2>1. \A n \in 0 .. c : n # 0 => n - 1 \in 0 .. c - 1
    OBVIOUS
  <2> QED
    BY <1>4, <2>1 DEF Scan
<1> QED
  BY <1>5

LEMMA ListTyped ==
    ASSUME NEW S, NEW list \in Seq(S)
    PROVE  /\ DOMAIN list = 1 .. Len(list) /\ Len(list) \in Nat
           /\ \A j \in DOMAIN list : list[j] \in S
           /\ \A T : S \subseteq T => list \in Seq(T)
  OBVIOUS

\* Who joins a list is its last member.
LEMMA JoinedList ==
    ASSUME NEW S, NEW list \in Seq(S), NEW t \in S
    PROVE  /\ \A s : Contains(Append(list, t), s) <=> Contains(list, s) \/ s = t
           /\ Distinct(list) /\ ~ Contains(list, t) => Distinct(Append(list, t))
<1>1. /\ DOMAIN Append(list, t) = 1 .. Len(list) + 1
      /\ \A j \in 1 .. Len(list) : Append(list, t)[j] = list[j]
      /\ Append(list, t)[Len(list) + 1] = t
      /\ DOMAIN list = 1 .. Len(list) /\ Len(list) \in Nat
      /\ Len(Append(list, t)) = Len(list) + 1
  OBVIOUS
<1>2. ASSUME NEW s
      PROVE  Contains(Append(list, t), s) <=> Contains(list, s) \/ s = t
  BY <1>1 DEF Contains
<1>3. ASSUME Distinct(list), ~ Contains(list, t)
      PROVE  Distinct(Append(list, t))
  BY <1>1, <1>3 DEF Distinct, Contains
<1> QED
  BY <1>2, <1>3

\* What is kept of a list are its members that are not gone, once each if
\* the list has them once.
LEMMA WithoutKeeps ==
    ASSUME NEW S, NEW list \in Seq(S), NEW gone
    PROVE  /\ Without(list, gone) \in Seq(S)
           /\ \A s : Contains(Without(list, gone), s) <=> Contains(list, s) /\ s \notin gone
           /\ Distinct(list) => Distinct(Without(list, gone))
<1> DEFINE h == CHOOSE f : Scan(list, gone, f, Len(list))
           Upto(n) == {list[k] : k \in 1 .. n}
           Good(n) == /\ h[n] \in Seq(S)
                      /\ \A s : Contains(h[n], s) <=> s \in Upto(n) /\ s \notin gone
                      /\ Distinct(list) => Distinct(h[n])
           B == {n \in 0 .. Len(list) : ~ Good(n)}
<1>1. Scan(list, gone, h, Len(list))
  <2>1. Len(list) \in Nat
    OBVIOUS
  <2>2. \E f : Scan(list, gone, f, Len(list))
    BY <2>1, ScanExists
  <2> QED
    BY <2>2
<1>2. Without(list, gone) = h[Len(list)]
  BY DEF Without, Scan
<1> HIDE DEF h
<1>3. B = {}
  <2> SUFFICES ASSUME B # {}
               PROVE  FALSE
    OBVIOUS
  <2>1. PICK c \in B : \A d \in B : c <= d
    <3> HIDE DEF Good
    <3>1. B \in SUBSET Nat
      OBVIOUS
    <3> HIDE DEF B
    <3> QED
      BY <3>1, LeastNumber
  <2>2. c \in 0 .. Len(list) /\ ~ Good(c)
    <3> HIDE DEF Good
    <3> QED
      OBVIOUS
  <2>3. c # 0
    <3>1. h[0] = <<>>
      BY <1>1 DEF Scan
    <3>2. Good(0)
      BY <3>1 DEF Contains, Distinct
    <3> QED
      BY <2>2, <3>2
  <2>4. c - 1 \in 0 .. Len(list) /\ Good(c - 1)
    <3> HIDE DEF Good
    <3> QED
      BY <2>1, <2>2, <2>3
  <2>5. h[c] = IF list[c] \in gone THEN h[c - 1] ELSE Append(h[c - 1], list[c])
    BY <1>1, <2>2, <2>3 DEF Scan
  <2>6. list[c] \in S /\ Upto(c) = Upto(c - 1) \union {list[c]}
    BY <2>2, <2>3
  <2>7. CASE list[c] \in gone
    BY <2>2, <2>4, <2>5, <2>6, <2>7
  <2>8. CASE list[c] \notin gone
    <3>1. h[c - 1] \in Seq(S) /\ h[c] = Append(h[c - 1], list[c])
      BY <2>4, <2>5, <2>8
    <3>2. h[c] \in Seq(S)
      BY <3>1, <2>6
    <3>3. \A s : Contains(h[c], s) <=> Contains(h[c - 1], s) \/ s = list[c]
      BY <3>1, <2>6, JoinedList
    <3>4. ASSUME Distinct(list)
          PROVE  Distinct(h[c])
      <4>1. ~ Contains(h[c - 1], list[c])
        BY <2>2, <2>3, <2>4, <3>4 DEF Distinct
      <4> QED
        BY <4>1, <3>1, <3>4, <2>4, <2>6, JoinedList
    <3> QED
      BY <2>2, <2>4, <2>6, <2>8, <3>2, <3>3, <3>4
  <2> QED
    BY <2>2, <2>7, <2>8
<1>4. Good(Len(list))
  <2> HIDE DEF Good
  <2>1. Len(list) \in 0 .. Len(list)
    OBVIOUS
  <2> QED
    BY <1>3, <2>1
<1>5. \A s : Contains(list, s) <=> s \in Upto(Len(list))
  BY DEF Contains
<1> QED
  BY <1>2, <1>4, <1>5

-----------------------------------------------------------------------------

\* RegistryIsClean, said of who is in the lists instead of where.
Registered ==
    /\ \A room \in Rooms :
          /\ Distinct(active_connections[room])
          /\ \A s \in Sockets : Contains(active_connections[room], s) =>
                path[s] = room /\ handler[s] = "receiving"
    /\ \A s \in Sockets : handler[s] = "receiving" /\ peer[s] = "up" =>
          Contains(active_connections[path[s]], s)

LEMMA RegistryByMember ==
    /\ TypeOK => (RegistryIsClean <=> Registered)
    /\ TypeOK' => (RegistryIsClean' <=> Registered')
<1>1. ASSUME TypeOK
      PROVE  RegistryIsClean <=> Registered
  <2>1. \A room \in Rooms :
           /\ DOMAIN active_connections[room] = 1 .. Len(active_connections[room])
           /\ \A j \in DOMAIN active_connections[room] : active_connections[room][j] \in Sockets
    BY <1>1 DEF TypeOK
  <2> QED
    BY <2>1 DEF RegistryIsClean, Registered, Distinct, Contains
<1>2. ASSUME TypeOK'
      PROVE  RegistryIsClean' <=> Registered'
  <2>1. \A room \in Rooms :
           /\ DOMAIN active_connections'[room] = 1 .. Len(active_connections'[room])
           /\ \A j \in DOMAIN active_connections'[room] : active_connections'[room][j] \in Sockets
    BY <1>2 DEF TypeOK
  <2> QED
    BY <2>1 DEF RegistryIsClean, Registered, Distinct, Contains
<1> QED
  BY <1>1, <1>2

LEMMA InitBridge ==
    ASSUME Init
    PROVE  BridgeInv
<1>1. TypeOK
  BY BridgeConstants DEF Init, TypeOK, Waiting, Rooms
<1>2. RegistryIsClean
  BY BridgeConstants DEF Init, RegistryIsClean
<1>3. ReceivedInOrder /\ NobodyIsSkipped
  BY DEF Init, ReceivedInOrder, NobodyIsSkipped
<1>4. ListIsRight /\ Unsent /\ Reaching
  BY DEF Init, ListIsRight, Unsent, Reaching, Sending, Waiting
<1> QED
  BY <1>1, <1>2, <1>3, <1>4 DEF BridgeInv

\* Nothing the invariant speaks of changes when a notification is queued, a
\* handshake begins or a client goes away.
LEMMA OutsideKeeps ==
    ASSUME BridgeInv, \/ \E o \in Orders : put(o)
                      \/ \E s \in Sockets : accept(s) \/ close(s)
    PROVE  BridgeInv'
<1>1. /\ UNCHANGED <<taken, active_connections, loop, received, since>>
      /\ pushed' = pushed \/ \E o \in Orders : pushed' = Append(pushed, o)
      /\ \A t \in Sockets : /\ handler'[t] = "receiving" <=> handler[t] = "receiving"
                            /\ peer'[t] = "up" => peer[t] = "up"
                            /\ peer[t] = "down" => peer'[t] = "down"
  BY DEF BridgeInv, TypeOK, put, accept, close
<1>2. /\ pushed \in Seq(Orders) /\ Len(pushed) \in Nat /\ taken \in 0 .. Len(pushed)
      /\ pushed' \in Seq(Orders) /\ Len(pushed') \in Nat /\ Len(pushed') >= Len(pushed)
      /\ \A n \in 1 .. taken : pushed'[n] = pushed[n]
  <2>1. pushed \in Seq(Orders) /\ Len(pushed) \in Nat /\ taken \in 0 .. Len(pushed)
    BY DEF BridgeInv, TypeOK
  <2>2. ASSUME NEW o \in Orders, pushed' = Append(pushed, o)
        PROVE  /\ pushed' \in Seq(Orders) /\ Len(pushed') \in Nat
               /\ Len(pushed') >= Len(pushed) /\ \A n \in 1 .. taken : pushed'[n] = pushed[n]
    BY <2>1, <2>2
  <2> QED
    BY <1>1, <2>1, <2>2
<1>3. TypeOK'
  <2>1. handler' \in [Sockets -> {"new", "accepting", "receiving", "done"}]
    BY DEF BridgeInv, TypeOK, put, accept, close
  <2>2. peer' \in [Sockets -> {"up", "down"}]
    BY DEF BridgeInv, TypeOK, put, accept, close
  <2>3. taken' \in 0 .. Len(pushed') /\ since' \in [Sockets -> 0 .. taken']
        /\ received' \in [Sockets -> Seq(1 .. taken')]
    BY <1>1, <1>2 DEF BridgeInv, TypeOK
  <2> QED
    BY <1>1, <1>2, <2>1, <2>2, <2>3 DEF BridgeInv, TypeOK
<1>4. RegistryIsClean'
  BY <1>1, <1>3, RegistryByMember DEF BridgeInv, Registered, TypeOK
<1>5. \A n \in 1 .. taken, t \in Sockets : Concerns(n, t)' <=> Concerns(n, t)
  BY <1>2 DEF Concerns
<1>6. \A t \in Sockets : /\ DOMAIN received[t] = 1 .. Len(received[t])
                        /\ \A j \in DOMAIN received[t] : received[t][j] \in 1 .. taken
  BY DEF BridgeInv, TypeOK
<1>7. ReceivedInOrder'
  BY <1>1, <1>5, <1>6 DEF BridgeInv, ReceivedInOrder
<1>8. NobodyIsSkipped'
  <2> SUFFICES ASSUME NEW t \in Sockets, handler[t] = "receiving", peer[t] = "up",
                      NEW n \in since[t] + 1 .. taken, Concerns(n, t)'
               PROVE  Contains(received[t], n) \/ (n = taken /\ loop.pc = "send")
    BY <1>1 DEF NobodyIsSkipped
  <2>1. n \in 1 .. taken
    <3>1. taken \in Nat
      BY <1>2
    <3>2. since[t] \in Nat
      BY DEF BridgeInv, TypeOK
    <3> QED
      BY <3>1, <3>2
  <2> QED
    BY <2>1, <1>5 DEF BridgeInv, NobodyIsSkipped
<1>9. ListIsRight'
  BY <1>1, <1>2 DEF BridgeInv, ListIsRight, Sending, TypeOK
<1>10. Unsent'
  BY <1>1 DEF BridgeInv, Unsent, Sending, Sent
<1>11. Reaching'
  BY <1>1, <1>2, <1>5 DEF BridgeInv, Reaching, Sending, Pending, ListIsRight
<1> QED
  BY <1>3, <1>4, <1>7, <1>8, <1>9, <1>10, <1>11 DEF BridgeInv

\* A broadcast that somebody joins or leaves goes on to everyone it would
\* have gone to: the list only gets longer, behind the place it is at.
LEMMA BroadcastGoesOn ==
    ASSUME BridgeInv, UNCHANGED <<pushed, taken, received>>,
           loop'.pc = loop.pc, loop'.room = loop.room, loop'.i = loop.i,
           loop'.list \in Seq(Sockets), Len(loop'.list) >= Len(loop.list),
           \A k \in DOMAIN loop.list : loop'.list[k] = loop.list[k],
           \A t \in Sockets :
              handler'[t] = "receiving" /\ peer'[t] = "up" /\ since'[t] < taken =>
                  handler[t] = "receiving" /\ peer[t] = "up" /\ since'[t] = since[t],
           since' \in [Sockets -> 0 .. taken]
    PROVE  ReceivedInOrder' /\ NobodyIsSkipped' /\ Unsent' /\ Reaching'
<1>1. ReceivedInOrder'
  BY DEF BridgeInv, ReceivedInOrder, Concerns
<1>2. loop.list \in Seq(Sockets) /\ loop.i \in 1 .. Len(loop.list) + 1 /\ taken \in Nat
  BY DEF BridgeInv, ListIsRight, TypeOK
<1>3. NobodyIsSkipped'
  <2> SUFFICES ASSUME NEW t \in Sockets, handler'[t] = "receiving", peer'[t] = "up",
                      NEW n \in since'[t] + 1 .. taken, Concerns(n, t)
               PROVE  Contains(received[t], n) \/ (n = taken /\ loop.pc = "send")
    BY DEF NobodyIsSkipped, Concerns
  <2>1. since'[t] \in Nat /\ n \in Nat /\ since'[t] < taken
    BY <1>2
  <2> QED
    BY <2>1 DEF BridgeInv, NobodyIsSkipped
<1>4. Unsent'
  <2>1. \A k \in 1 .. loop.i - 1 : loop'.list[k] = loop.list[k]
    <3>1. DOMAIN loop.list = 1 .. Len(loop.list) /\ Len(loop.list) \in Nat
      BY <1>2
    <3>2. \A k \in 1 .. loop.i - 1 : k \in DOMAIN loop.list
      BY <1>2, <3>1
    <3> QED
      BY <3>2
  <2>2. Sent' = Sent
    BY <2>1 DEF Sent
  <2> QED
    BY <2>2 DEF BridgeInv, Unsent, Sending
<1>5. Reaching'
  <2> SUFFICES ASSUME Sending, NEW t \in Sockets, Concerns(taken, t),
                      handler'[t] = "receiving", peer'[t] = "up", since'[t] < taken
               PROVE  Contains(received[t], taken) \/ Pending(t)'
    BY DEF Reaching, Sending, Concerns
  <2>1. Contains(received[t], taken) \/ Pending(t)
    BY DEF BridgeInv, Reaching
  <2>2. \A k \in DOMAIN loop.list : k \in DOMAIN loop'.list
    BY <1>2
  <2>3. Pending(t) => Pending(t)'
    BY <2>2 DEF Pending
  <2> QED
    BY <2>1, <2>3
<1> QED
  BY <1>1, <1>3, <1>4, <1>5

\* connect: the new socket is in no list yet, so its room's has it once; a
\* broadcast that still iterates over that list goes on to it.
LEMMA ConnectKeeps ==
    ASSUME BridgeInv, NEW s \in Sockets, connect(s)
    PROVE  BridgeInv'
<1> DEFINE list == active_connections[path[s]]
<1>1. path[s] \in Rooms /\ list \in Seq(Sockets) /\ ~ Contains(list, s)
  <2>1. path[s] \in Rooms
    BY BridgeConstants
  <2>2. list \in Seq(Sockets)
    BY <2>1 DEF BridgeInv, TypeOK
  <2>3. Contains(list, s) => handler[s] = "receiving"
    BY <2>1, RegistryByMember DEF BridgeInv, Registered
  <2> QED
    BY <2>1, <2>2, <2>3 DEF connect
<1>2. active_connections' = [active_connections EXCEPT ![path[s]] = Append(list, s)]
  BY DEF connect
<1>3. /\ handler' = [handler EXCEPT ![s] = "receiving"]
      /\ since' = [since EXCEPT ![s] = taken]
      /\ UNCHANGED <<pushed, taken, peer, received>>
  BY DEF connect
<1>4. loop \in [pc : {"get", "send"}, room : Rooms, list : Seq(Sockets),
                i : Nat, shared : BOOLEAN, dead : SUBSET Sockets]
  BY DEF BridgeInv, TypeOK
<1>5. loop.shared /\ loop.room = path[s] =>
         loop.list = list /\ loop' = [loop EXCEPT !.list = Append(list, s)]
  BY DEF BridgeInv, TypeOK, connect
<1>6. ~(loop.shared /\ loop.room = path[s]) => loop' = loop
  BY DEF connect
<1>7. /\ loop' \in [pc : {"get", "send"}, room : Rooms, list : Seq(Sockets),
                    i : Nat, shared : BOOLEAN, dead : SUBSET Sockets]
      /\ loop'.pc = loop.pc /\ loop'.room = loop.room /\ loop'.i = loop.i
      /\ loop'.shared = loop.shared /\ loop'.dead = loop.dead
      /\ Len(loop'.list) >= Len(loop.list)
      /\ \A k \in DOMAIN loop.list : loop'.list[k] = loop.list[k]
  <2>1. CASE loop.shared /\ loop.room = path[s]
    <3>1. Append(list, s) \in Seq(Sockets) /\ Len(Append(list, s)) >= Len(list)
          /\ \A k \in DOMAIN list : Append(list, s)[k] = list[k]
      BY <1>1
    <3> QED
      BY <1>4, <1>5, <2>1, <3>1
  <2>2. CASE ~(loop.shared /\ loop.room = path[s])
    BY <1>4, <1>6, <2>2
  <2> QED
    BY <2>1, <2>2
<1>8. TypeOK'
  <2>1. active_connections' \in [Rooms -> Seq(Sockets)]
    BY <1>1, <1>2 DEF BridgeInv, TypeOK
  <2>2. loop'.shared => loop'.list = active_connections'[loop'.room]
    BY <1>1, <1>2, <1>4, <1>5, <1>6 DEF BridgeInv, TypeOK
  <2>3. /\ handler' \in [Sockets -> {"new", "accepting", "receiving", "done"}]
        /\ since' \in [Sockets -> 0 .. taken]
    BY <1>3 DEF BridgeInv, TypeOK
  <2> QED
    BY <1>3, <1>7, <2>1, <2>2, <2>3 DEF BridgeInv, TypeOK
<1>9. RegistryIsClean'
  <2>1. ASSUME NEW room \in Rooms
        PROVE  /\ Distinct(active_connections'[room])
               /\ \A t \in Sockets : Contains(active_connections'[room], t) =>
                      path[t] = room /\ handler'[t] = "receiving"
    <3>1. CASE room = path[s]
      BY <1>1, <1>2, <1>3, <3>1, JoinedList, RegistryByMember DEF BridgeInv, Registered, TypeOK
    <3>2. CASE room # path[s]
      BY <1>2, <1>3, <3>2, RegistryByMember DEF BridgeInv, Registered, TypeOK
    <3> QED
      BY <3>1, <3>2
  <2>2. ASSUME NEW t \in Sockets, handler'[t] = "receiving", peer'[t] = "up"
        PROVE  Contains(active_connections'[path[t]], t)
    <3>1. path[t] \in Rooms
      BY BridgeConstants
    <3>2. t = s \/ Contains(active_connections[path[t]], t)
      BY <1>3, <2>2, RegistryByMember DEF BridgeInv, Registered, TypeOK
    <3>3. CASE path[t] = path[s]
      BY <1>1, <1>2, <3>1, <3>2, <3>3, JoinedList DEF BridgeInv, TypeOK
    <3>4. CASE path[t] # path[s]
      BY <1>2, <3>1, <3>2, <3>4 DEF BridgeInv, TypeOK
    <3> QED
      BY <3>3, <3>4
  <2> QED
    BY <1>8, <2>1, <2>2, RegistryByMember DEF Registered
<1>10. ListIsRight'
  <2>1. loop'.i \in 1 .. Len(loop'.list) + 1 /\ \A t \in loop'.dead : peer'[t] = "down"
    BY <1>3, <1>4, <1>7 DEF BridgeInv, ListIsRight
  <2>2. CASE loop.shared /\ loop.room = path[s]
    <3>1. loop'.list = Append(list, s)
      BY <1>4, <1>5, <2>2
    <3>2. \A j \in DOMAIN loop'.list :
             loop'.list[j] = s \/ (j \in DOMAIN list /\ loop'.list[j] = list[j])
      BY <1>1, <3>1
    <3>3. Distinct(loop.list) => Distinct(loop'.list)
      BY <1>1, <1>5, <2>2, <3>1, JoinedList
    <3>4. \A t : peer'[t] = peer[t] /\ (handler[t] = "receiving" => handler'[t] = "receiving")
      BY <1>3 DEF BridgeInv, TypeOK
    <3>5. ASSUME Sending, NEW j \in DOMAIN loop'.list
          PROVE  LET t == loop'.list[j] IN
                 path[t] = loop.room /\ (peer'[t] = "up" => handler'[t] = "receiving")
      <4>1. CASE loop'.list[j] = s
        BY <1>3, <2>2, <4>1 DEF BridgeInv, TypeOK
      <4>2. CASE j \in DOMAIN loop.list /\ loop'.list[j] = loop.list[j]
        BY <3>4, <3>5, <4>2 DEF BridgeInv, ListIsRight
      <4> QED
        BY <1>5, <2>2, <3>2, <4>1, <4>2
    <3> QED
      BY <1>3, <1>7, <2>1, <3>3, <3>5 DEF BridgeInv, ListIsRight, Sending
  <2>3. CASE ~(loop.shared /\ loop.room = path[s])
    BY <1>3, <1>6, <2>1, <2>3 DEF BridgeInv, ListIsRight, Sending
  <2> QED
    BY <2>2, <2>3
<1>11. ReceivedInOrder' /\ NobodyIsSkipped' /\ Unsent' /\ Reaching'
  <2>1. \A t \in Sockets :
           handler'[t] = "receiving" /\ peer'[t] = "up" /\ since'[t] < taken =>
               handler[t] = "receiving" /\ peer[t] = "up" /\ since'[t] = since[t]
    BY <1>3 DEF BridgeInv, TypeOK
  <2>2. since' \in [Sockets -> 0 .. taken]
    BY <1>3 DEF BridgeInv, TypeOK
  <2> QED
    BY <1>3, <1>7, <2>1, <2>2, BroadcastGoesOn
<1> QED
  BY <1>8, <1>9, <1>10, <1>11 DEF BridgeInv

\* disconnect: the socket leaves its room's list and no other; a broadcast
\* goes on with the list as it was.
LEMMA DisconnectKeeps ==
    ASSUME BridgeInv, NEW s \in Sockets, websocket_order(s)
    PROVE  BridgeInv'
<1> DEFINE list == active_connections[path[s]]
<1>1. path[s] \in Rooms /\ list \in Seq(Sockets)
  BY BridgeConstants DEF BridgeInv, TypeOK
<1>2. /\ Without(list, {s}) \in Seq(Sockets)
      /\ \A t : Contains(Without(list, {s}), t) <=> Contains(list, t) /\ t # s
      /\ Distinct(list) => Distinct(Without(list, {s}))
  BY <1>1, WithoutKeeps
<1>3. /\ active_connections' = [active_connections EXCEPT ![path[s]] = Without(list, {s})]
      /\ handler' = [handler EXCEPT ![s] = "done"]
      /\ peer[s] = "down"
      /\ UNCHANGED <<pushed, taken, peer, received, since>>
  BY DEF websocket_order
<1>4. loop \in [pc : {"get", "send"}, room : Rooms, list : Seq(Sockets),
                i : Nat, shared : BOOLEAN, dead : SUBSET Sockets]
  BY DEF BridgeInv, TypeOK
<1>5. /\ loop' \in [pc : {"get", "send"}, room : Rooms, list : Seq(Sockets),
                    i : Nat, shared : BOOLEAN, dead : SUBSET Sockets]
      /\ loop'.pc = loop.pc /\ loop'.room = loop.room /\ loop'.list = loop.list
      /\ loop'.i = loop.i /\ loop'.dead = loop.dead
      /\ loop'.shared => loop.shared /\ loop.room # path[s]
  BY <1>4 DEF websocket_order, Replaced
<1> HIDE DEF list
<1>6. TypeOK'
  <2>1. active_connections' \in [Rooms -> Seq(Sockets)]
    BY <1>1, <1>2, <1>3 DEF BridgeInv, TypeOK
  <2>2. loop'.shared => loop'.list = active_connections'[loop'.room]
    BY <1>3, <1>4, <1>5 DEF BridgeInv, TypeOK
  <2>3. handler' \in [Sockets -> {"new", "accepting", "receiving", "done"}]
    BY <1>3 DEF BridgeInv, TypeOK
  <2> QED
    BY <1>3, <1>5, <2>1, <2>2, <2>3 DEF BridgeInv, TypeOK
<1>7. RegistryIsClean'
  <2>1. ASSUME NEW room \in Rooms
        PROVE  /\ Distinct(active_connections'[room])
               /\ \A t \in Sockets : Contains(active_connections'[room], t) =>
                      path[t] = room /\ handler'[t] = "receiving"
    <3>1. CASE room = path[s]
      <4>1. active_connections'[room] = Without(list, {s}) /\ list = active_connections[room]
        BY <1>1, <1>3, <3>1 DEF list, BridgeInv, TypeOK
      <4>2. /\ Distinct(list)
            /\ \A t \in Sockets : Contains(list, t) => path[t] = room /\ handler[t] = "receiving"
        BY <4>1, RegistryByMember DEF BridgeInv, Registered
      <4>3. \A t \in Sockets \ {s} : handler'[t] = handler[t]
        BY <1>3 DEF BridgeInv, TypeOK
      <4> QED
        BY <4>1, <4>2, <4>3, <1>2
    <3>2. CASE room # path[s]
      BY <1>3, <3>2, RegistryByMember DEF BridgeInv, Registered, TypeOK
    <3> QED
      BY <3>1, <3>2
  <2>2. ASSUME NEW t \in Sockets, handler'[t] = "receiving", peer'[t] = "up"
        PROVE  Contains(active_connections'[path[t]], t)
    <3>1. path[t] \in Rooms /\ t # s
      BY <1>3, <2>2, BridgeConstants
    <3>2. Contains(active_connections[path[t]], t)
      BY <1>3, <2>2, <3>1, RegistryByMember DEF BridgeInv, Registered, TypeOK
    <3>3. CASE path[t] = path[s]
      <4>1. active_connections'[path[t]] = Without(list, {s})
            /\ list = active_connections[path[t]]
        BY <1>1, <1>3, <3>3 DEF list, BridgeInv, TypeOK
      <4> QED
        BY <1>2, <3>1, <3>2, <4>1
    <3>4. CASE path[t] # path[s]
      BY <1>3, <3>1, <3>2, <3>4 DEF BridgeInv, TypeOK
    <3> QED
      BY <3>3, <3>4
  <2> QED
    BY <1>6, <2>1, <2>2, RegistryByMember DEF Registered
<1>8. ListIsRight'
  BY <1>3, <1>5 DEF BridgeInv, ListIsRight, Sending
<1>9. ReceivedInOrder' /\ NobodyIsSkipped' /\ Unsent' /\ Reaching'
  <2>1. \A t \in Sockets :
           handler'[t] = "receiving" /\ peer'[t] = "up" /\ since'[t] < taken =>
               handler[t] = "receiving" /\ peer[t] = "up" /\ since'[t] = since[t]
    BY <1>3 DEF BridgeInv, TypeOK
  <2>2. since' \in [Sockets -> 0 .. taken]
    BY <1>3 DEF BridgeInv, TypeOK
  <2>3. loop'.list \in Seq(Sockets) /\ Len(loop'.list) >= Len(loop.list)
    BY <1>4, <1>5
  <2> QED
    BY <1>3, <1>5, <2>1, <2>2, <2>3, BroadcastGoesOn
<1> QED
  BY <1>6, <1>7, <1>8, <1>9 DEF BridgeInv

-----------------------------------------------------------------------------

LoopType == [pc : {"get", "send"}, room : Rooms, list : Seq(Sockets),
             i : Nat, shared : BOOLEAN, dead : SUBSET Sockets]

\* Turning to a room: its list is clean, and everyone who stays and waits
\* for a notification for that room is in it.
Turned(next, room) ==
    /\ next \in LoopType /\ next.pc = "send" /\ next.room = room
    /\ next.list = active_connections[room] /\ next.dead = {}
    /\ next.i = 1 /\ next.i \in 1 .. Len(next.list) + 1
    /\ Distinct(next.list)
    /\ \A j \in DOMAIN next.list : path[next.list[j]] = room /\ handler[next.list[j]] = "receiving"
    /\ \A s \in Sockets :
          path[s] = room /\ handler[s] = "receiving" /\ peer[s] = "up" =>
              \E k \in DOMAIN next.list : k >= 1 /\ next.list[k] = s

LEMMA TurningTo ==
    ASSUME BridgeInv, NEW room \in Rooms
    PROVE  Turned(Notifying(room, active_connections[room]), room)
<1> DEFINE list == active_connections[room]
<1>1. list \in Seq(Sockets) /\ Len(list) \in Nat /\ DOMAIN list = 1 .. Len(list)
  BY DEF BridgeInv, TypeOK
<1>2. Registered
  BY RegistryByMember DEF BridgeInv
<1>3. \A j \in DOMAIN list : path[list[j]] = room /\ handler[list[j]] = "receiving"
  BY <1>1, <1>2 DEF Registered, Contains
<1>4. ASSUME NEW s \in Sockets, path[s] = room, handler[s] = "receiving", peer[s] = "up"
      PROVE  \E k \in DOMAIN list : k >= 1 /\ list[k] = s
  BY <1>1, <1>2, <1>4 DEF Registered, Contains
<1>5. Distinct(list)
  BY <1>2 DEF Registered
<1>6. 1 \in 1 .. Len(list) + 1
  BY <1>1
<1> HIDE DEF list
<1>7. Turned(Notifying(room, list), room)
  BY <1>1, <1>3, <1>4, <1>5, <1>6 DEF Turned, Notifying, LoopType, list
<1> QED
  BY <1>7 DEF list

\* ws_broadcast_loop turns to the room of the next notification.
LEMMA TakeKeeps ==
    ASSUME BridgeInv, ws_broadcast_loop
    PROVE  BridgeInv'
<1> DEFINE room == pushed[taken + 1]
<1>1. /\ taken \in Nat /\ Len(pushed) \in Nat /\ taken' = taken + 1
      /\ taken' \in 1 .. Len(pushed) /\ room \in Orders
      /\ loop.pc = "get" /\ loop' = Notifying(room, active_connections[room])
      /\ UNCHANGED <<pushed, active_connections, handler, peer, received, since>>
  BY DEF BridgeInv, TypeOK, ws_broadcast_loop
<1>2. room \in Rooms /\ room # "all" /\ room = pushed[taken']
  BY <1>1, BridgeConstants DEF Rooms
<1> HIDE DEF room
<1>3. Turned(loop', room)
  BY <1>1, <1>2, TurningTo
<1>4. \A s \in Sockets :
         /\ received[s] \in Seq(1 .. taken) /\ received[s] \in Seq(1 .. taken')
         /\ \A j \in DOMAIN received[s] : received[s][j] < taken'
  <2> SUFFICES ASSUME NEW s \in Sockets
               PROVE  /\ received[s] \in Seq(1 .. taken) /\ received[s] \in Seq(1 .. taken')
                      /\ \A j \in DOMAIN received[s] : received[s][j] < taken'
    OBVIOUS
  <2>1. received[s] \in Seq(1 .. taken)
    BY DEF BridgeInv, TypeOK
  <2>2. \A j \in DOMAIN received[s] : received[s][j] \in 1 .. taken
    BY <2>1, ListTyped
  <2>3. 1 .. taken \subseteq 1 .. taken'
    BY <1>1
  <2>4. received[s] \in Seq(1 .. taken')
    BY <2>1, <2>3, ListTyped
  <2> QED
    BY <1>1, <2>1, <2>2, <2>4
<1>5. TypeOK'
  <2>1. received' \in [Sockets -> Seq(1 .. taken')] /\ since' \in [Sockets -> 0 .. taken']
    BY <1>1, <1>4 DEF BridgeInv, TypeOK
  <2> QED
    BY <1>1, <1>3, <2>1 DEF BridgeInv, TypeOK, LoopType, Turned
<1>6. RegistryIsClean' /\ ReceivedInOrder'
  BY <1>1 DEF BridgeInv, RegistryIsClean, ReceivedInOrder, Concerns
<1>7. NobodyIsSkipped'
  <2> SUFFICES ASSUME NEW t \in Sockets, handler[t] = "receiving", peer[t] = "up",
                      NEW n \in since[t] + 1 .. taken', Concerns(n, t)
               PROVE  Contains(received[t], n) \/ n = taken'
    BY <1>1, <1>3 DEF NobodyIsSkipped, Concerns, Turned
  <2>1. since[t] \in Nat
    BY DEF BridgeInv, TypeOK
  <2>2. n = taken' \/ n \in since[t] + 1 .. taken
    BY <1>1, <2>1
  <2> QED
    BY <1>1, <2>2 DEF BridgeInv, NobodyIsSkipped
<1>8. ListIsRight'
  BY <1>1, <1>2, <1>3 DEF ListIsRight, Sending, Turned
<1>9. Unsent'
  BY <1>1, <1>4 DEF Unsent
<1>10. Reaching'
  BY <1>1, <1>2, <1>3 DEF Reaching, Pending, Concerns, Turned
<1> QED
  BY <1>5, <1>6, <1>7, <1>8, <1>9, <1>10 DEF BridgeInv

\* notify sends to the next socket of the list, which has the notification
\* not yet, or finds it dead.
LEMMA SendKeeps ==
    ASSUME BridgeInv, send_json
    PROVE  BridgeInv'
<1> DEFINE s == loop.list[loop.i]
<1>1. /\ loop.pc = "send" /\ loop \in LoopType /\ loop.i \in DOMAIN loop.list
      /\ s \in Sockets /\ path[s] = loop.room /\ loop.room \in {pushed[taken], "all"}
      /\ taken \in Nat /\ taken \in 1 .. taken
      /\ DOMAIN loop.list = 1 .. Len(loop.list) /\ Len(loop.list) \in Nat
  BY DEF BridgeInv, TypeOK, ListIsRight, Sending, LoopType, send_json
<1>2. /\ UNCHANGED <<pushed, taken, active_connections, handler, peer, since>>
      /\ \/ /\ peer[s] = "up"
            /\ received' = [received EXCEPT ![s] = Append(received[s], taken)]
            /\ loop' = [loop EXCEPT !.i = loop.i + 1]
         \/ /\ peer[s] = "down"
            /\ received' = received
            /\ loop' = [loop EXCEPT !.i = loop.i + 1, !.dead = loop.dead \union {s}]
  BY DEF send_json, following
<1>3. s \notin Sent
  <2>1. \A k \in 1 .. loop.i - 1 : k \in DOMAIN loop.list /\ k # loop.i
    BY <1>1 DEF LoopType
  <2> QED
    BY <1>1, <2>1 DEF Sent, BridgeInv, ListIsRight, Sending, Distinct
<1> HIDE DEF s
<1>4. /\ loop' \in LoopType /\ loop'.pc = loop.pc /\ loop'.room = loop.room
      /\ loop'.list = loop.list /\ loop'.shared = loop.shared /\ loop'.i = loop.i + 1
      /\ loop'.dead = loop.dead \/ (peer[s] = "down" /\ loop'.dead = loop.dead \union {s})
  <2>1. loop.i + 1 \in Nat /\ loop.dead \union {s} \in SUBSET Sockets
    BY <1>1 DEF LoopType
  <2>2. CASE loop' = [loop EXCEPT !.i = loop.i + 1]
    BY <1>1, <2>1, <2>2 DEF LoopType
  <2>3. CASE peer[s] = "down" /\ loop' = [loop EXCEPT !.i = loop.i + 1,
                                                    !.dead = loop.dead \union {s}]
    BY <1>1, <2>1, <2>3 DEF LoopType
  <2> QED
    BY <1>2, <2>2, <2>3
<1>5. /\ \A t \in Sockets \ {s} : received'[t] = received[t]
      /\ received'[s] = received[s] \/ received'[s] = Append(received[s], taken)
      /\ peer[s] = "up" => received'[s] = Append(received[s], taken)
  BY <1>1, <1>2 DEF BridgeInv, TypeOK
<1>6. /\ received[s] \in Seq(1 .. taken)
      /\ \A j \in DOMAIN received[s] : received[s][j] \in 1 .. taken
      /\ \A j \in DOMAIN received[s] : received[s][j] < taken
  <2>1. received[s] \in Seq(1 .. taken)
    BY <1>1 DEF BridgeInv, TypeOK
  <2>2. \A j \in DOMAIN received[s] : received[s][j] < taken
    BY <1>1, <1>3 DEF BridgeInv, Unsent, Sending
  <2> QED
    BY <2>1, <2>2, ListTyped
<1>7. /\ Append(received[s], taken) \in Seq(1 .. taken)
      /\ DOMAIN Append(received[s], taken) = 1 .. Len(received[s]) + 1
      /\ Len(Append(received[s], taken)) = Len(received[s]) + 1
      /\ DOMAIN received[s] = 1 .. Len(received[s]) /\ Len(received[s]) \in Nat
      /\ \A j \in DOMAIN received[s] : Append(received[s], taken)[j] = received[s][j]
      /\ Append(received[s], taken)[Len(received[s]) + 1] = taken
  BY <1>1, <1>6
<1>8. TypeOK'
  <2>1. received' \in [Sockets -> Seq(1 .. taken)]
    BY <1>1, <1>2, <1>7 DEF BridgeInv, TypeOK
  <2> QED
    BY <1>2, <1>4, <2>1 DEF BridgeInv, TypeOK, LoopType
<1>9. RegistryIsClean'
  BY <1>2 DEF BridgeInv, RegistryIsClean
<1>10. ReceivedInOrder'
  <2> SUFFICES ASSUME NEW t \in Sockets
               PROVE  /\ \A j \in DOMAIN received'[t] : Concerns(received'[t][j], t)
                      /\ \A j \in 2 .. Len(received'[t]) : received'[t][j - 1] < received'[t][j]
    BY <1>2 DEF ReceivedInOrder, Concerns
  <2>1. CASE received'[t] = received[t]
    BY <2>1 DEF BridgeInv, ReceivedInOrder
  <2>2. CASE t = s /\ received'[s] = Append(received[s], taken)
    <3>1. Concerns(taken, s)
      BY <1>1 DEF Concerns
    <3>2. \A j \in DOMAIN received'[t] : Concerns(received'[t][j], t)
      BY <1>1, <1>7, <2>2, <3>1 DEF BridgeInv, ReceivedInOrder
    <3>3. ASSUME NEW j \in 2 .. Len(received'[t])
          PROVE  received'[t][j - 1] < received'[t][j]
      <4>1. CASE j = Len(received[s]) + 1
        BY <1>6, <1>7, <2>2, <4>1
      <4>2. CASE j \in 2 .. Len(received[s])
        BY <1>1, <1>7, <2>2, <4>2 DEF BridgeInv, ReceivedInOrder
      <4> QED
        BY <1>7, <2>2, <4>1, <4>2
    <3> QED
      BY <3>2, <3>3
  <2> QED
    BY <1>5, <2>1, <2>2
<1>11. \A t \in Sockets, n \in Nat : Contains(received[t], n) => Contains(received'[t], n)
  <2> SUFFICES ASSUME NEW t \in Sockets, NEW n \in Nat, Contains(received[t], n)
               PROVE  Contains(received'[t], n)
    OBVIOUS
  <2>1. CASE received'[t] = received[t]
    BY <2>1
  <2>2. CASE t = s /\ received'[s] = Append(received[s], taken)
    BY <1>7, <2>2 DEF Contains
  <2> QED
    BY <1>5, <2>1, <2>2
<1>12. peer[s] = "up" => Contains(received'[s], taken)
  BY <1>5, <1>7 DEF Contains
<1>13. NobodyIsSkipped'
  <2> SUFFICES ASSUME NEW t \in Sockets, handler[t] = "receiving", peer[t] = "up",
                      NEW n \in since[t] + 1 .. taken, Concerns(n, t)
               PROVE  Contains(received'[t], n) \/ n = taken
    BY <1>1, <1>2, <1>4 DEF NobodyIsSkipped, Concerns
  <2>1. n \in Nat
    <3>1. since[t] \in Nat
      BY <1>1 DEF BridgeInv, TypeOK
    <3> QED
      BY <1>1, <3>1
  <2> QED
    BY <2>1, <1>11 DEF BridgeInv, NobodyIsSkipped
<1>14. ListIsRight'
  <2>1. loop'.i \in 1 .. Len(loop'.list) + 1
    BY <1>1, <1>4 DEF LoopType
  <2> QED
    BY <1>2, <1>4, <2>1 DEF BridgeInv, ListIsRight, Sending
<1>15. Unsent'
  <2>1. Sent' = Sent \union {s}
    <3>1. 1 .. loop'.i - 1 = (1 .. loop.i - 1) \union {loop.i}
      BY <1>1, <1>4 DEF LoopType
    <3> QED
      BY <1>4, <3>1 DEF Sent, s
  <2> QED
    BY <1>1, <1>2, <1>4, <1>5, <2>1 DEF BridgeInv, Unsent, Sending
<1>16. Reaching'
  <2> SUFFICES ASSUME NEW t \in Sockets, Concerns(taken, t),
                      handler[t] = "receiving", peer[t] = "up", since[t] < taken
               PROVE  Contains(received'[t], taken) \/ Pending(t)'
    BY <1>2 DEF Reaching, Concerns
  <2>1. Contains(received[t], taken) \/ Pending(t)
    BY <1>1 DEF BridgeInv, Reaching, Sending
  <2>2. CASE t # s /\ Pending(t)
    <3>1. \A k \in DOMAIN loop.list : k >= loop.i /\ loop.list[k] = t => k >= loop.i + 1
      BY <1>1, <2>2 DEF s, LoopType
    <3> QED
      BY <1>4, <2>2, <3>1 DEF Pending
  <2> QED
    BY <1>1, <1>11, <1>12, <2>1, <2>2
<1> QED
  BY <1>8, <1>9, <1>10, <1>13, <1>14, <1>15, <1>16 DEF BridgeInv

\* After the last socket only those whose clients are away leave, and what
\* is still to be sent is up to the "all" room.
LEMMA NotifyKeeps ==
    ASSUME BridgeInv, notify
    PROVE  BridgeInv'
<1> DEFINE list == active_connections[loop.room]
<1>1. /\ loop \in LoopType /\ loop.pc = "send" /\ taken \in Nat
      /\ loop.room \in Rooms /\ list \in Seq(Sockets)
      /\ ~ \E k \in DOMAIN loop.list : k >= loop.i
      /\ \A t \in loop.dead : peer[t] = "down"
  BY DEF BridgeInv, TypeOK, ListIsRight, LoopType, notify
<1>2. /\ active_connections' = [active_connections EXCEPT ![loop.room] = Without(list, loop.dead)]
      /\ loop.room = "all" => loop' = Waiting
      /\ loop.room # "all" => loop' = Notifying("all", active_connections["all"])
      /\ UNCHANGED <<pushed, taken, handler, peer, received, since>>
  BY DEF notify
<1>3. /\ Without(list, loop.dead) \in Seq(Sockets)
      /\ \A t : Contains(Without(list, loop.dead), t) <=> Contains(list, t) /\ t \notin loop.dead
      /\ Distinct(list) => Distinct(Without(list, loop.dead))
  BY <1>1, WithoutKeeps
<1> HIDE DEF list
<1>4. /\ active_connections' \in [Rooms -> Seq(Sockets)]
      /\ active_connections'[loop.room] = Without(list, loop.dead)
      /\ \A room \in Rooms \ {loop.room} : active_connections'[room] = active_connections[room]
  BY <1>1, <1>2, <1>3 DEF BridgeInv, TypeOK
<1>5. loop.room # "all" => Turned(loop', "all")
  <2>1. "all" \in Rooms
    BY DEF Rooms
  <2> QED
    BY <1>2, <2>1, TurningTo
<1>6. Waiting \in LoopType
  BY DEF Waiting, LoopType, Rooms
<1>7. TypeOK'
  <2>1. loop' \in LoopType
    BY <1>2, <1>5, <1>6 DEF Turned
  <2>2. loop'.shared => loop'.list = active_connections'[loop'.room]
    <3>1. CASE loop.room = "all"
      BY <1>2, <3>1 DEF Waiting
    <3>2. CASE loop.room # "all"
      <4>1. loop'.room = "all" /\ loop'.list = active_connections["all"] /\ "all" \in Rooms
        BY <1>5, <3>2 DEF Turned, Rooms
      <4> QED
        BY <1>4, <3>2, <4>1
    <3> QED
      BY <3>1, <3>2
  <2> QED
    BY <1>2, <1>4, <2>1, <2>2 DEF BridgeInv, TypeOK, LoopType
<1>8. Registered
  BY RegistryByMember DEF BridgeInv
<1>9. RegistryIsClean'
  <2>1. ASSUME NEW room \in Rooms
        PROVE  /\ Distinct(active_connections'[room])
               /\ \A t \in Sockets : Contains(active_connections'[room], t) =>
                      path[t] = room /\ handler[t] = "receiving"
    BY <1>3, <1>4, <1>8 DEF Registered, list
  <2>2. ASSUME NEW t \in Sockets, handler[t] = "receiving", peer[t] = "up"
        PROVE  Contains(active_connections'[path[t]], t)
    <3>1. path[t] \in Rooms /\ Contains(active_connections[path[t]], t) /\ t \notin loop.dead
      BY <1>1, <1>8, <2>2, BridgeConstants DEF Registered
    <3> QED
      BY <1>3, <1>4, <3>1 DEF list
  <2> QED
    BY <1>2, <1>7, <2>1, <2>2, RegistryByMember DEF Registered
<1>10. ReceivedInOrder'
  BY <1>2 DEF BridgeInv, ReceivedInOrder, Concerns
<1>11. \A t \in Sockets :
          handler[t] = "receiving" /\ peer[t] = "up" /\ since[t] < taken /\ Concerns(taken, t) =>
              Contains(received[t], taken) \/ (path[t] = "all" /\ loop.room # "all")
  BY <1>1 DEF BridgeInv, Reaching, Sending, Pending
<1>12. NobodyIsSkipped'
  <2> SUFFICES ASSUME NEW t \in Sockets, handler[t] = "receiving", peer[t] = "up",
                      NEW n \in since[t] + 1 .. taken, Concerns(n, t)
               PROVE  Contains(received[t], n) \/ (n = taken /\ loop'.pc = "send")
    BY <1>2 DEF NobodyIsSkipped, Concerns
  <2>1. CASE n # taken
    BY <2>1 DEF BridgeInv, NobodyIsSkipped
  <2>2. CASE n = taken
    <3>1. since[t] < taken
      <4>1. since[t] \in Nat
        BY DEF BridgeInv, TypeOK
      <4> QED
        BY <1>1, <4>1, <2>2
    <3> QED
      BY <1>5, <1>11, <2>2, <3>1 DEF Turned
  <2> QED
    BY <2>1, <2>2
<1>13. ListIsRight'
  <2>1. CASE loop.room = "all"
    BY <1>2, <2>1 DEF ListIsRight, Sending, Waiting
  <2>2. CASE loop.room # "all"
    <3>1. taken > 0
      BY <1>1 DEF BridgeInv, ListIsRight, Sending
    <3> QED
      BY <1>2, <1>5, <2>2, <3>1 DEF ListIsRight, Turned
  <2> QED
    BY <2>1, <2>2
<1>14. Unsent'
  <2>1. CASE loop.room = "all"
    BY <1>2, <2>1 DEF Unsent, Sending, Waiting
  <2>2. CASE loop.room # "all"
    <3>1. \A t \in Sockets : path[t] = "all" => t \notin Sent
      <4>1. \A k \in 1 .. loop.i - 1 : path[loop.list[k]] = loop.room
        BY <1>1 DEF BridgeInv, ListIsRight, Sending, LoopType
      <4> QED
        BY <2>2, <4>1 DEF Sent
    <3> QED
      BY <1>1, <1>2, <1>5, <2>2, <3>1 DEF BridgeInv, Unsent, Sending, Turned
  <2> QED
    BY <2>1, <2>2
<1>15. Reaching'
  <2>1. CASE loop.room = "all"
    BY <1>2, <2>1 DEF Reaching, Sending, Waiting
  <2>2. CASE loop.room # "all"
    BY <1>2, <1>5, <1>11, <2>2 DEF Reaching, Pending, Concerns, Turned
  <2> QED
    BY <2>1, <2>2
<1> QED
  BY <1>7, <1>9, <1>10, <1>12, <1>13, <1>14, <1>15 DEF BridgeInv

-----------------------------------------------------------------------------

LEMMA BridgeStep ==
    ASSUME BridgeInv, [Next]_vars
    PROVE  BridgeInv'
<1>1. ASSUME NEW o \in Orders, put(o)
      PROVE  BridgeInv'
  BY <1>1, OutsideKeeps
<1>2. ASSUME NEW s \in Sockets, accept(s) \/ connect(s) \/ websocket_order(s) \/ close(s)
      PROVE  BridgeInv'
  BY <1>2, OutsideKeeps, ConnectKeeps, DisconnectKeeps
<1>3. CASE Broadcast
  BY <1>3, TakeKeeps, SendKeeps, NotifyKeeps DEF Broadcast
<1>4. CASE UNCHANGED vars
  BY <1>4 DEF vars, BridgeInv, TypeOK, RegistryIsClean, ReceivedInOrder, NobodyIsSkipped,
              ListIsRight, Unsent, Reaching, Sending, Sent, Pending, Concerns
<1> QED
  BY <1>1, <1>2, <1>3, <1>4 DEF Next, Rest

\* The inductive invariant: where the broadcast stands in its list
\* (ws_manager.py:52) tells who has the notification, and whoever must get it
\* has it or still comes, in this list or in that of the "all" room.
THEOREM BridgeInvariance == Spec => []BridgeInv
  BY InitBridge, BridgeStep, PTL DEF Spec

\* While a broadcast awaits a send (ws_manager.py:54), it iterates over the
\* registered list or over one that disconnect() has replaced since, never
\* over a mixture: the two are equal as long as nobody left the room.
THEOREM BridgeTypeCorrect == Spec => []TypeOK
  BY BridgeInvariance, PTL DEF BridgeInv

\* However connect, disconnect and the clean-up after a broadcast interleave
\* (ws_manager.py:29-59), a room lists the sockets of running handlers, each
\* once, and nobody who is still there is missing from it.
THEOREM RegistryStaysClean == Spec => []RegistryIsClean
  BY BridgeInvariance, PTL DEF BridgeInv

\* The loop over a list that others extend or replace (ws_manager.py:52)
\* sends no notification to a client twice, none out of order and none about
\* another order, also when the client is reached through the "all" room.
THEOREM ReceivedOnceInOrder == Spec => []ReceivedInOrder
  BY BridgeInvariance, PTL DEF BridgeInv

\* Whoever connects, disconnects or is found dead meanwhile, a client that
\* stays has every notification taken since it was registered, except the
\* one the broadcast has still to bring it (ws_manager.py:47-59, 91-92).
THEOREM NobodyWhoStaysIsSkipped == Spec => []NobodyIsSkipped
  BY BridgeInvariance, PTL DEF BridgeInv

-----------------------------------------------------------------------------
(* The bridge implements Delivery: connect is a Join, a client that goes   *)
(* away a Leave, and the end of the second room's list is the Finish.      *)

LEMMA OutsideRefines ==
    ASSUME BridgeInv, \/ \E o \in Orders : put(o)
                      \/ \E s \in Sockets : accept(s) \/ websocket_order(s) \/ close(s)
    PROVE  [Promise!Next]_(Promise!vars)
<1>1. UNCHANGED <<taken, received, since>> /\ loop'.pc = loop.pc
  BY DEF put, accept, websocket_order, close, Replaced, BridgeInv, TypeOK
<1>2. ASSUME NEW o \in Orders, put(o)
      PROVE  Promise!Push(o)
  <2>1. Present' = Present
    BY <1>2 DEF put, Present
  <2>2. loop.pc = "send" => pushed'[taken] = pushed[taken]
    <3> SUFFICES ASSUME loop.pc = "send"
                 PROVE  pushed'[taken] = pushed[taken]
      OBVIOUS
    <3>1. pushed \in Seq(Orders) /\ taken \in 1 .. Len(pushed)
      BY DEF BridgeInv, TypeOK, ListIsRight, Sending
    <3> QED
      BY <1>2, <3>1 DEF put
  <2>3. Awaiting' = Awaiting
    BY <1>1, <2>1, <2>2 DEF Awaiting, Concerns
  <2> QED
    BY <1>1, <1>2, <2>1, <2>3 DEF put, Promise!Push
<1>3. ASSUME NEW s \in Sockets, accept(s) \/ websocket_order(s)
      PROVE  UNCHANGED Promise!vars
  <2>1. Present' = Present
    BY <1>3 DEF accept, websocket_order, Present, BridgeInv, TypeOK
  <2>2. pushed' = pushed
    BY <1>3 DEF accept, websocket_order
  <2>3. Awaiting' = Awaiting
    BY <1>1, <2>1, <2>2 DEF Awaiting, Concerns
  <2> QED
    BY <1>1, <2>1, <2>2, <2>3 DEF Promise!vars
<1>4. ASSUME NEW s \in Sockets, close(s)
      PROVE  Promise!Leave(s) \/ UNCHANGED Promise!vars
  <2>1. pushed' = pushed /\ loop' = loop /\ handler' = handler
    BY <1>4 DEF close
  <2>2. Present' = Present \ {s}
    BY <1>4, <2>1 DEF close, Present, BridgeInv, TypeOK
  <2>3. Awaiting' = Awaiting \ {s}
    BY <1>1, <2>1, <2>2 DEF Awaiting, Concerns
  <2>4. s \notin Present => s \notin Awaiting
    BY DEF Awaiting
  <2>5. CASE s \in Present
    BY <1>1, <2>1, <2>2, <2>3, <2>5 DEF Promise!Leave
  <2>6. CASE s \notin Present
    BY <1>1, <2>1, <2>2, <2>3, <2>4, <2>6 DEF Promise!vars
  <2> QED
    BY <2>5, <2>6
<1> QED
  BY <1>2, <1>3, <1>4 DEF Promise!Next

LEMMA ConnectRefines ==
    ASSUME BridgeInv, NEW s \in Sockets, connect(s)
    PROVE  [Promise!Next]_(Promise!vars)
<1>1. UNCHANGED <<pushed, taken, received, peer>> /\ loop'.pc = loop.pc
  BY DEF connect
<1>2. /\ since'[s] = taken /\ handler[s] # "receiving" /\ handler'[s] = "receiving"
      /\ \A t \in Sockets \ {s} : since'[t] = since[t] /\ handler'[t] = handler[t]
  BY DEF connect, BridgeInv, TypeOK
<1>3. Present' = Present \union {t \in {s} : peer[s] = "up"} /\ s \notin Present
  BY <1>1, <1>2 DEF Present
<1>4. Awaiting' = Awaiting
  <2>1. s \notin Awaiting' /\ s \notin Awaiting
    BY <1>1, <1>2, <1>3 DEF Awaiting, BridgeInv, TypeOK
  <2>2. \A t \in Sockets \ {s} : t \in Awaiting' <=> t \in Awaiting
    BY <1>1, <1>2, <1>3 DEF Awaiting, Concerns
  <2>3. Awaiting \subseteq Sockets /\ Awaiting' \subseteq Sockets
    BY DEF Awaiting, Present
  <2> QED
    BY <2>1, <2>2, <2>3
<1>5. CASE peer[s] = "up"
  <2>1. Promise!Join(s)
    BY <1>1, <1>3, <1>4, <1>5 DEF Promise!Join
  <2> QED
    BY <2>1 DEF Promise!Next
<1>6. CASE peer[s] # "up"
  BY <1>1, <1>3, <1>4, <1>6 DEF Promise!vars
<1> QED
  BY <1>5, <1>6

LEMMA TakeRefines ==
    ASSUME BridgeInv, ws_broadcast_loop
    PROVE  Promise!Take
<1>1. /\ loop.pc = "get" /\ taken < Len(pushed) /\ taken' = taken + 1
      /\ loop'.pc = "send" /\ taken \in Nat
      /\ UNCHANGED <<pushed, handler, peer, received, since>>
  BY DEF ws_broadcast_loop, Notifying, BridgeInv, TypeOK
<1>2. Present' = Present
  BY <1>1 DEF Present
<1>3. \A s \in Sockets : since[s] < taken + 1 /\ ~ Contains(received[s], taken + 1)
  <2> SUFFICES ASSUME NEW s \in Sockets
               PROVE  since[s] < taken + 1 /\ ~ Contains(received[s], taken + 1)
    OBVIOUS
  <2>1. since[s] \in 0 .. taken /\ received[s] \in Seq(1 .. taken)
    BY DEF BridgeInv, TypeOK
  <2>2. \A j \in DOMAIN received[s] : received[s][j] \in 1 .. taken
    BY <2>1, ListTyped
  <2>3. \A j \in 1 .. Len(received[s]) : received[s][j] # taken + 1
    BY <1>1, <2>1, <2>2
  <2> QED
    BY <1>1, <2>1, <2>3 DEF Contains
<1>4. Awaiting' = {s \in Present : path[s] \in {pushed[taken + 1], "all"}}
  BY <1>1, <1>2, <1>3 DEF Awaiting, Concerns, Present
<1> QED
  BY <1>1, <1>2, <1>4 DEF Promise!Take, Promise!Wants

\* A socket that takes the notification belongs to a client that is there.
LEMMA SendRefines ==
    ASSUME BridgeInv, send_json
    PROVE  [Promise!Next]_(Promise!vars)
<1> DEFINE s == loop.list[loop.i]
<1>1. /\ loop.pc = "send" /\ loop.i \in DOMAIN loop.list /\ s \in Sockets
      /\ path[s] = loop.room /\ loop.room \in {pushed[taken], "all"}
      /\ peer[s] = "up" => handler[s] = "receiving"
      /\ taken \in Nat /\ loop.i \in Nat
  BY DEF BridgeInv, TypeOK, ListIsRight, Sending, send_json
<1>2. /\ UNCHANGED <<pushed, taken, handler, peer, since>> /\ loop'.pc = loop.pc
      /\ peer[s] = "up" => received' = [received EXCEPT ![s] = Append(received[s], taken)]
      /\ peer[s] # "up" => received' = received
  BY DEF send_json, following, BridgeInv, TypeOK
<1>3. s \notin Sent
  <2>1. \A k \in 1 .. loop.i - 1 : k \in DOMAIN loop.list /\ k # loop.i
    <3>1. DOMAIN loop.list = 1 .. Len(loop.list) /\ Len(loop.list) \in Nat
      BY DEF BridgeInv, TypeOK
    <3> QED
      BY <1>1, <3>1
  <2> QED
    BY <1>1, <2>1 DEF Sent, BridgeInv, ListIsRight, Sending, Distinct
<1> HIDE DEF s
<1>4. received[s] \in Seq(1 .. taken) /\ \A j \in DOMAIN received[s] : received[s][j] < taken
  <2>1. received[s] \in Seq(1 .. taken)
    BY <1>1 DEF BridgeInv, TypeOK
  <2>2. \A j \in DOMAIN received[s] : received[s][j] < taken
    BY <1>1, <1>3 DEF BridgeInv, Unsent, Sending
  <2> QED
    BY <2>1, <2>2
<1>5. Present' = Present
  BY <1>2 DEF Present
<1>6. CASE peer[s] = "up"
  <2>1. /\ \A t \in Sockets \ {s} : received'[t] = received[t]
        /\ received'[s] = Append(received[s], taken)
    BY <1>1, <1>2, <1>6 DEF BridgeInv, TypeOK
  <2>2. Contains(received'[s], taken)
    <3>1. Append(received[s], taken)[Len(received[s]) + 1] = taken
          /\ Len(received[s]) + 1 \in 1 .. Len(Append(received[s], taken))
      BY <1>4
    <3> QED
      BY <2>1, <3>1 DEF Contains
  <2>3. Awaiting' = Awaiting \ {s}
    BY <1>2, <1>5, <2>1, <2>2 DEF Awaiting, Concerns, Present
  <2>4. s \in Present /\ Promise!Wants(s, pushed[taken])
    BY <1>1, <1>6 DEF Present, Promise!Wants
  <2>5. Promise!Deliver(s)
    BY <1>1, <1>2, <1>4, <1>5, <1>6, <2>3, <2>4 DEF Promise!Deliver
  <2> QED
    BY <1>1, <2>5 DEF Promise!Next
<1>7. CASE peer[s] # "up"
  <2>1. Awaiting' = Awaiting
    BY <1>2, <1>5, <1>7 DEF Awaiting, Concerns
  <2> QED
    BY <1>2, <1>5, <1>7, <2>1 DEF Promise!vars
<1> QED
  BY <1>6, <1>7

\* At the end of a list only the "all" room's clients can still be waiting.
LEMMA NotifyRefines ==
    ASSUME BridgeInv, notify
    PROVE  [Promise!Next]_(Promise!vars)
<1>1. /\ loop.pc = "send" /\ ~ \E k \in DOMAIN loop.list : k >= loop.i
      /\ UNCHANGED <<pushed, taken, handler, peer, received, since>>
  BY DEF notify, BridgeInv, TypeOK, ListIsRight
<1>2. Present' = Present
  BY <1>1 DEF Present
<1>3. CASE loop.room = "all"
  <2>1. loop'.pc = "get"
    BY <1>3 DEF notify, Waiting
  <2>2. Awaiting = {}
    BY <1>1, <1>3 DEF Awaiting, Present, BridgeInv, Reaching, Sending, Pending
  <2>3. Awaiting' = {}
    BY <2>1 DEF Awaiting
  <2>4. Promise!Finish
    BY <1>1, <1>2, <2>1, <2>2, <2>3 DEF Promise!Finish
  <2> QED
    BY <2>4 DEF Promise!Next
<1>4. CASE loop.room # "all"
  <2>1. loop'.pc = "send"
    BY <1>4 DEF notify, Notifying
  <2>2. Awaiting' = Awaiting
    BY <1>1, <1>2, <2>1 DEF Awaiting, Concerns
  <2> QED
    BY <1>1, <1>2, <2>1, <2>2 DEF Promise!vars
<1> QED
  BY <1>3, <1>4

\* Two rooms' lists, gone through one after the other while clients connect,
\* leave and are found dead (ws_manager.py:29-59, 84-92), together do what
\* Delivery does in one place: each notification is brought to everyone who
\* was waiting for it, once, before the next one is taken.
THEOREM BridgeRefinement == Spec => ImplementsDelivery
<1>1. Init => Promise!Init
  BY DEF Init, Promise!Init, Present, Awaiting, Waiting
<1>2. BridgeInv /\ [Next]_vars => [Promise!Next]_(Promise!vars)
  <2> SUFFICES ASSUME BridgeInv, [Next]_vars
               PROVE  [Promise!Next]_(Promise!vars)
    OBVIOUS
  <2>1. CASE Broadcast
    <3>1. Promise!Take => Promise!Next
      BY DEF Promise!Next
    <3> QED
      BY <2>1, <3>1, TakeRefines, SendRefines, NotifyRefines DEF Broadcast
  <2>2. CASE UNCHANGED vars
    BY <2>2 DEF vars, Promise!vars, Present, Awaiting, Concerns
  <2> QED
    BY <2>1, <2>2, OutsideRefines, ConnectRefines DEF Next, Rest
<1> QED
  BY <1>1, <1>2, BridgeInvariance, PTL DEF Spec, ImplementsDelivery, Promise!Spec

=============================================================================
