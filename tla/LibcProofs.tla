----------------------------- MODULE LibcProofs -----------------------------
(***************************************************************************)
(* Theorems about the C library's sockets, that what select says of one    *)
(* holds until the guest uses it; about the C calling convention, that     *)
(* arguments arrive however guest and host code call each other; and, over *)
(* all behaviours of MCFiles, about files, preferences, streams and        *)
(* directories: the tree mirrors the host, what was saved is found again,  *)
(* bytes are read in order.                                                *)
(***************************************************************************)
EXTENDS Sockets, Abi, MCFiles, SequenceLemmas

\* Kinds of descriptors, and the records of guest sockets and host streams.
SlotKinds == {"none", "file", "socket"}
SocketHostObjects ==
    [type : {"tcp", "udp"}, broadcast : BOOLEAN, listener : BOOLEAN, pending : Nat, stream : Nat,
     udp : BOOLEAN]
HostStreams == [inbox : Nat, ended : {"no", "closed", "reset"}]

\* Which host sockets the host object of a socket has, of n connections.
SocketFits(s, n) ==
    /\ s.type = "udp" => ~s.listener /\ s.stream = 0 /\ s.pending = 0
    /\ s.type = "tcp" => ~s.udp
    /\ s.listener => s.stream = 0
    /\ s.pending # 0 => s.listener
    /\ s.stream \in 0 .. n /\ s.pending \in 0 .. n

SlotsInv ==
    /\ slots \in Seq(SlotKinds) /\ Len(slots) <= MaxFds
    /\ DOMAIN sockets = {fd \in DOMAIN slots : slots[fd] = "socket"}

ObjectsInv ==
    /\ sockets \in [DOMAIN sockets -> SocketHostObjects]
    /\ \A fd \in DOMAIN sockets : SocketFits(sockets[fd], Len(conns))

\* What waits at the host waits for a socket that is there.
NetInv ==
    /\ conns \in Seq(HostStreams)
    /\ datagrams \in [1 .. MaxFds -> Nat] /\ backlog \in [1 .. MaxFds -> Seq(Nat)]
    /\ \A fd \in 1 .. MaxFds :
          /\ datagrams[fd] > 0 => fd \in DOMAIN sockets /\ sockets[fd].udp
          /\ backlog[fd] # <<>> => fd \in DOMAIN sockets /\ sockets[fd].listener
          /\ \A i \in 1 .. Len(backlog[fd]) : backlog[fd][i] \in 1 .. Len(conns)

\* A connection has one holder: a socket, as its stream or pending, or a place in
\* a listener's backlog.
HolderInv ==
    /\ \A f, g \in DOMAIN sockets :
          /\ sockets[f].stream # 0 => sockets[f].stream # sockets[g].pending
          /\ f # g /\ sockets[f].stream # 0 => sockets[f].stream # sockets[g].stream
          /\ f # g /\ sockets[f].pending # 0 => sockets[f].pending # sockets[g].pending
    /\ \A f \in DOMAIN sockets, g \in 1 .. MaxFds : \A i \in 1 .. Len(backlog[g]) :
          backlog[g][i] # sockets[f].stream /\ backlog[g][i] # sockets[f].pending
    /\ \A f, g \in 1 .. MaxFds : \A i \in 1 .. Len(backlog[f]), j \in 1 .. Len(backlog[g]) :
          backlog[f][i] = backlog[g][j] => f = g /\ i = j

ToldInv ==
    \A fd \in told :
        /\ fd \in DOMAIN sockets
        /\ \/ sockets[fd].pending # 0
           \/ sockets[fd].stream # 0 /\ StreamReadable(sockets[fd].stream)
           \/ datagrams[fd] > 0

SockInv == SlotsInv /\ ObjectsInv /\ NetInv /\ HolderInv /\ ToldInv /\ ~sockPanic

\* What the run's app takes care of.
AllCare == {"asks", "accepts", "polls", "broadcast"} \subseteq SockCareful

\* Descriptors of sockets are within their bound.
LEMMA SocketNumbers ==
  ASSUME SlotsInv
  PROVE  /\ Len(slots) \in Nat /\ DOMAIN slots = 1 .. Len(slots)
         /\ \A fd \in DOMAIN slots : slots[fd] \in SlotKinds /\ fd \in 1 .. MaxFds
         /\ DOMAIN sockets \subseteq DOMAIN slots /\ DOMAIN sockets \subseteq 1 .. MaxFds
<1>1. Len(slots) \in Nat /\ DOMAIN slots = 1 .. Len(slots) /\ \A fd \in 1 .. Len(slots) : slots[fd] \in SlotKinds
  BY LenProperties, ElementOfSeq DEF SlotsInv
<1> QED BY <1>1, SocketsAssumption DEF SlotsInv

\* find_or_create_fd finds a number nobody has, and takes it.
LEMMA SlotTaken ==
  ASSUME SlotsInv, FreeSlot <= MaxFds, NEW what \in SlotKinds, Take(FreeSlot, what)
  PROVE  /\ FreeSlot \notin DOMAIN sockets /\ FreeSlot \in 1 .. MaxFds
         /\ slots' \in Seq(SlotKinds) /\ Len(slots') <= MaxFds
         /\ {fd \in DOMAIN slots' : slots'[fd] = "socket"}
              = IF what = "socket" THEN DOMAIN sockets \cup {FreeSlot} ELSE DOMAIN sockets
<1> DEFINE n == FreeSlot
           free == {k \in DOMAIN slots : slots[k] = "none"}
<1>1. /\ Len(slots) \in Nat /\ DOMAIN slots = 1 .. Len(slots) /\ slots \in Seq(SlotKinds)
  BY SocketNumbers DEF SlotsInv
<1>2. CASE free = {}
  <2>1. n = Len(slots) + 1
    BY <1>2 DEF FreeSlot
  <2>2. n \notin DOMAIN slots /\ n \in 1 .. MaxFds
    BY <1>1, <2>1, SocketsAssumption
  <2>3. slots' = Append(slots, what)
    BY <2>2 DEF Take
  <2>4. /\ slots' \in Seq(SlotKinds) /\ Len(slots') = n /\ DOMAIN slots' = 1 .. n
        /\ slots'[n] = what /\ \A i \in 1 .. Len(slots) : slots'[i] = slots[i]
    BY <1>1, <2>1, <2>3, Pushed
  <2> HIDE DEF n
  <2>5. 1 .. n = 1 .. Len(slots) \cup {n}
    BY <1>1, <2>1
  <2> QED BY <1>1, <2>2, <2>4, <2>5 DEF SlotsInv, n
<1>3. CASE free # {}
  <2>1. free \in SUBSET Nat
    BY <1>1
  <2>2. \E k \in free : \A j \in free : k <= j
    BY <1>3, <2>1, LeastNatural
  <2>3. n \in free
    BY <1>3, <2>2 DEF FreeSlot
  <2>4. n \in 1 .. Len(slots) /\ slots[n] = "none"
    BY <1>1, <2>3
  <2>5. slots' = [slots EXCEPT ![n] = what]
    BY <1>1, <2>4 DEF Take
  <2> HIDE DEF n
  <2>6. /\ slots' \in Seq(SlotKinds) /\ Len(slots') = Len(slots) /\ DOMAIN slots' = DOMAIN slots
        /\ \A i \in DOMAIN slots : slots'[i] = IF i = n THEN what ELSE slots[i]
    BY <1>1, <2>4, <2>5, ExceptSeq, LenProperties
  <2>7. n \in 1 .. MaxFds /\ n \notin DOMAIN sockets
    BY <1>1, <2>4, SocketNumbers DEF SlotsInv
  <2> QED BY <1>1, <2>4, <2>6, <2>7 DEF SlotsInv, n
<1> QED BY <1>2, <1>3

\* The host sockets of other objects are as they were, and so are their queues.
LEMMA HoldersStay ==
  ASSUME HolderInv, DOMAIN sockets' \subseteq DOMAIN sockets,
         \A f \in DOMAIN sockets' : /\ sockets'[f].stream = sockets[f].stream
                                    /\ sockets'[f].pending = sockets[f].pending,
         \A g \in 1 .. MaxFds : backlog'[g] = backlog[g] \/ backlog'[g] = <<>>
  PROVE  HolderInv'
<1>1. \A g \in 1 .. MaxFds : \A i \in 1 .. Len(backlog'[g]) :
         i \in 1 .. Len(backlog[g]) /\ backlog'[g][i] = backlog[g][i]
  BY EmptySeq, LenProperties
<1> QED BY <1>1 DEF HolderInv

\* A new socket without a connection.
LEMMA SocketKeeps ==
  ASSUME SockInv, Socket
  PROVE  SockInv'
<1> DEFINE n == FreeSlot
<1>1. PICK type \in {"tcp", "udp"} :
        /\ FreeSlot <= MaxFds /\ Take(FreeSlot, "socket")
        /\ sockPanic' = (FreeSlot \in DOMAIN sockets)
        /\ sockets' = WithSocket(sockets, FreeSlot, SocketHostObject(type, noConn))
  BY DEF Socket
<1>2. UNCHANGED <<conns, backlog, datagrams, told>>
  BY DEF Socket
<1>3. /\ n \notin DOMAIN sockets /\ n \in 1 .. MaxFds
      /\ slots' \in Seq(SlotKinds) /\ Len(slots') <= MaxFds
      /\ {fd \in DOMAIN slots' : slots'[fd] = "socket"} = DOMAIN sockets \cup {n}
  BY <1>1, SlotTaken DEF SockInv, SlotKinds
<1> HIDE DEF n
<1> DEFINE fresh == SocketHostObject(type, noConn)
<1>4. /\ sockets' = [k \in DOMAIN sockets \cup {n} |-> IF k = n THEN fresh ELSE sockets[k]]
  BY <1>1 DEF n, WithSocket
<1>5. /\ fresh \in SocketHostObjects /\ fresh.stream = 0 /\ fresh.pending = 0 /\ ~fresh.listener /\ ~fresh.udp
  BY DEF SocketHostObject, SocketHostObjects, noConn
<1> HIDE DEF fresh
<1>6. Len(conns) \in Nat
  BY LenProperties DEF SockInv, NetInv
<1>7. SocketFits(fresh, Len(conns))
  BY <1>5, <1>6 DEF SocketFits
<1>8. /\ DOMAIN sockets' = DOMAIN sockets \cup {n} /\ sockets'[n] = fresh
      /\ \A k \in DOMAIN sockets : sockets'[k] = sockets[k]
  BY <1>3, <1>4
<1>9. SlotsInv'
  BY <1>3, <1>8 DEF SlotsInv
<1>10. ObjectsInv'
  <2>1. \A k \in DOMAIN sockets' : sockets'[k] \in SocketHostObjects
    BY <1>5, <1>8 DEF SockInv, ObjectsInv
  <2> QED BY <1>2, <1>4, <1>7, <1>8, <2>1 DEF SockInv, ObjectsInv
<1>11. NetInv'
  BY <1>2, <1>8 DEF SockInv, NetInv
<1>12. HolderInv'
  <2>1. \A f \in DOMAIN sockets' : f \in DOMAIN sockets \/ (sockets'[f].stream = 0 /\ sockets'[f].pending = 0)
    BY <1>5, <1>8
  <2>2. \A g \in 1 .. MaxFds : \A i \in 1 .. Len(backlog[g]) : backlog[g][i] # 0
    BY <1>6 DEF SockInv, NetInv
  <2> QED BY <1>2, <1>8, <2>1, <2>2 DEF SockInv, HolderInv
<1>13. ToldInv'
  BY <1>2, <1>8 DEF SockInv, ToldInv, StreamReadable
<1> QED BY <1>1, <1>3, <1>9, <1>10, <1>11, <1>12, <1>13 DEF SockInv, n

\* A file takes a number too.
LEMMA OpenFileKeeps ==
  ASSUME SockInv, OpenFile
  PROVE  SockInv'
<1>1. FreeSlot <= MaxFds /\ Take(FreeSlot, "file")
      /\ UNCHANGED <<sockets, conns, backlog, datagrams, told, sockPanic>>
  BY DEF OpenFile
<1>2. /\ slots' \in Seq(SlotKinds) /\ Len(slots') <= MaxFds
      /\ {fd \in DOMAIN slots' : slots'[fd] = "socket"} = DOMAIN sockets
  BY <1>1, SlotTaken DEF SockInv, SlotKinds
<1> QED BY <1>1, <1>2 DEF SockInv, SlotsInv, ObjectsInv, NetInv, HolderInv, ToldInv, StreamReadable

\* A descriptor is closed, and its host sockets with it.
LEMMA CloseKeeps ==
  ASSUME SockInv, Close
  PROVE  SockInv'
<1>1. PICK fd \in DOMAIN slots : slots[fd] # "none" /\ CloseFd(fd)
  BY DEF Close
<1>2. /\ slots' = [slots EXCEPT ![fd] = "none"]
      /\ sockets' = [k \in DOMAIN sockets \ {fd} |-> sockets[k]]
      /\ backlog' = [backlog EXCEPT ![fd] = <<>>] /\ datagrams' = [datagrams EXCEPT ![fd] = 0]
      /\ told' = told \ {fd}
      /\ UNCHANGED <<conns, sockPanic>>
  BY <1>1 DEF CloseFd
<1>3. fd \in 1 .. Len(slots) /\ fd \in 1 .. MaxFds /\ DOMAIN slots = 1 .. Len(slots)
  BY SocketNumbers DEF SockInv
<1>4. /\ slots' \in Seq(SlotKinds) /\ Len(slots') = Len(slots) /\ DOMAIN slots' = DOMAIN slots
      /\ \A i \in DOMAIN slots : slots'[i] = IF i = fd THEN "none" ELSE slots[i]
  BY <1>2, <1>3, ExceptSeq, LenProperties DEF SockInv, SlotsInv, SlotKinds
<1>5. /\ DOMAIN sockets' = DOMAIN sockets \ {fd}
      /\ \A k \in DOMAIN sockets' : sockets'[k] = sockets[k]
  BY <1>2
<1>6. SlotsInv'
  BY <1>4, <1>5 DEF SockInv, SlotsInv
<1>7. ObjectsInv'
  BY <1>2, <1>5 DEF SockInv, ObjectsInv
<1>8. /\ datagrams' \in [1 .. MaxFds -> Nat] /\ backlog' \in [1 .. MaxFds -> Seq(Nat)]
      /\ \A g \in 1 .. MaxFds : /\ datagrams'[g] = IF g = fd THEN 0 ELSE datagrams[g]
                                /\ backlog'[g] = IF g = fd THEN <<>> ELSE backlog[g]
  BY <1>2, <1>3, EmptySeq DEF SockInv, NetInv
<1>9. NetInv'
  BY <1>2, <1>5, <1>8, EmptySeq DEF SockInv, NetInv
<1>10. HolderInv'
  BY <1>5, <1>8, HoldersStay DEF SockInv
<1>11. ToldInv'
  BY <1>2, <1>5, <1>8, SocketNumbers DEF SockInv, ToldInv, StreamReadable
<1> QED BY <1>2, <1>6, <1>7, <1>9, <1>10, <1>11 DEF SockInv

\* The settings of a socket change, but not its host sockets with connections.
LEMMA SettingKeeps ==
  ASSUME SockInv, NEW fd \in DOMAIN sockets, NEW s \in SocketHostObjects,
         sockets' = [sockets EXCEPT ![fd] = s],
         s.stream = sockets[fd].stream, s.pending = sockets[fd].pending,
         sockets[fd].listener => s.listener, sockets[fd].udp => s.udp,
         SocketFits(s, Len(conns)), sockPanic' = FALSE,
         UNCHANGED <<slots, conns, backlog, datagrams, told>>
  PROVE  SockInv'
<1>1. /\ DOMAIN sockets' = DOMAIN sockets /\ sockets' \in [DOMAIN sockets -> SocketHostObjects]
      /\ \A k \in DOMAIN sockets : sockets'[k] = IF k = fd THEN s ELSE sockets[k]
  BY DEF SockInv, ObjectsInv
<1>2. SlotsInv'
  BY <1>1 DEF SockInv, SlotsInv
<1>3. ObjectsInv'
  BY <1>1 DEF SockInv, ObjectsInv
<1>4. NetInv'
  BY <1>1 DEF SockInv, NetInv
<1>5. HolderInv'
  BY <1>1, HoldersStay DEF SockInv
<1>6. ToldInv'
  BY <1>1 DEF SockInv, ToldInv, StreamReadable
<1> QED BY <1>2, <1>3, <1>4, <1>5, <1>6 DEF SockInv

\* setsockopt: broadcasts are allowed.
LEMMA SetSockOptKeeps ==
  ASSUME SockInv, SetSockOpt
  PROVE  SockInv'
<1>1. PICK fd \in DOMAIN sockets : sockets[fd].type = "udp" /\ sockets' = [sockets EXCEPT ![fd].broadcast = TRUE]
  BY DEF SetSockOpt, FdsOf
<1> DEFINE s == [sockets[fd] EXCEPT !.broadcast = TRUE]
<1>2. sockets[fd] \in SocketHostObjects /\ SocketFits(sockets[fd], Len(conns))
  BY DEF SockInv, ObjectsInv
<1>3. /\ s \in SocketHostObjects /\ sockets' = [sockets EXCEPT ![fd] = s]
      /\ s.stream = sockets[fd].stream /\ s.pending = sockets[fd].pending
      /\ s.listener = sockets[fd].listener /\ s.udp = sockets[fd].udp /\ s.type = sockets[fd].type
  BY <1>1, <1>2 DEF SocketHostObjects
<1> HIDE DEF s
<1>4. SocketFits(s, Len(conns))
  BY <1>2, <1>3 DEF SocketFits
<1>5. UNCHANGED <<slots, conns, backlog, datagrams, told, sockPanic>> /\ ~sockPanic
  BY DEF SetSockOpt, SockInv
<1>6. sockPanic' = FALSE
  BY <1>5 DEF SetSockOpt
<1> QED BY <1>3, <1>4, <1>5, <1>6, SettingKeeps

\* bind, of a socket that is not bound and not connected.
LEMMA BindKeeps ==
  ASSUME AllCare, SockInv, Bind
  PROVE  SockInv'
<1>1. PICK fd \in DOMAIN sockets :
        /\ sockets[fd].stream = 0 /\ ~(sockets[fd].listener \/ sockets[fd].udp)
        /\ sockPanic' = (sockets[fd].listener \/ sockets[fd].udp)
        /\ sockets' = [sockets EXCEPT ![fd].listener = sockets[fd].type = "tcp",
                                      ![fd].udp = sockets[fd].type = "udp"]
  BY DEF Bind, AllCare, noConn
<1> DEFINE s == [sockets[fd] EXCEPT !.listener = sockets[fd].type = "tcp", !.udp = sockets[fd].type = "udp"]
<1>2. sockets[fd] \in SocketHostObjects /\ SocketFits(sockets[fd], Len(conns))
  BY DEF SockInv, ObjectsInv
<1>3. /\ s \in SocketHostObjects /\ sockets' = [sockets EXCEPT ![fd] = s]
      /\ s.stream = sockets[fd].stream /\ s.pending = sockets[fd].pending
      /\ s.listener = (s.type = "tcp") /\ s.udp = (s.type = "udp") /\ s.type = sockets[fd].type
  BY <1>1, <1>2 DEF SocketHostObjects
<1> HIDE DEF s
<1>4. SocketFits(s, Len(conns))
  BY <1>1, <1>2, <1>3 DEF SocketFits
<1>5. UNCHANGED <<slots, conns, backlog, datagrams, told>>
  BY DEF Bind
<1>6. sockPanic' = FALSE
  BY <1>1
<1> QED BY <1>1, <1>3, <1>4, <1>5, <1>6, SettingKeeps

\* sendto: a broadcast, which is allowed, makes the host socket.
LEMMA SendToKeeps ==
  ASSUME AllCare, SockInv, SendTo
  PROVE  SockInv'
<1>1. PICK fd \in DOMAIN sockets :
        /\ sockets[fd].type = "udp" /\ sockets[fd].broadcast /\ sockPanic' = ~sockets[fd].broadcast
        /\ sockets' = [sockets EXCEPT ![fd].udp = TRUE]
  BY DEF SendTo, FdsOf, AllCare
<1> DEFINE s == [sockets[fd] EXCEPT !.udp = TRUE]
<1>2. sockets[fd] \in SocketHostObjects /\ SocketFits(sockets[fd], Len(conns))
  BY DEF SockInv, ObjectsInv
<1>3. /\ s \in SocketHostObjects /\ sockets' = [sockets EXCEPT ![fd] = s]
      /\ s.stream = sockets[fd].stream /\ s.pending = sockets[fd].pending
      /\ s.listener = sockets[fd].listener /\ s.udp = TRUE /\ s.type = sockets[fd].type
  BY <1>1, <1>2 DEF SocketHostObjects
<1> HIDE DEF s
<1>4. SocketFits(s, Len(conns))
  BY <1>1, <1>2, <1>3 DEF SocketFits
<1>5. UNCHANGED <<slots, conns, backlog, datagrams, told>>
  BY DEF SendTo
<1>6. sockPanic' = FALSE
  BY <1>1
<1> QED BY <1>3, <1>4, <1>5, <1>6, SettingKeeps

\* One more connection.
LEMMA Connected ==
  ASSUME SockInv, conns' = NewConn
  PROVE  /\ Len(conns) \in Nat /\ Len(conns') = Len(conns) + 1 /\ conns' \in Seq(HostStreams)
         /\ \A c \in 1 .. Len(conns) : conns'[c] = conns[c] /\ c \in 1 .. Len(conns')
         /\ \A s \in SocketHostObjects : SocketFits(s, Len(conns)) => SocketFits(s, Len(conns'))
         /\ \A g \in 1 .. MaxFds : \A i \in 1 .. Len(backlog[g]) :
               backlog[g][i] \in 1 .. Len(conns) /\ backlog[g][i] # Len(conns')
         /\ \A f \in DOMAIN sockets : /\ sockets[f].stream \in 0 .. Len(conns)
                                      /\ sockets[f].pending \in 0 .. Len(conns)
                                      /\ sockets[f].stream # Len(conns') /\ sockets[f].pending # Len(conns')
<1> DEFINE e == [inbox |-> 0, ended |-> "no"]
<1>1. e \in HostStreams /\ conns' = Append(conns, e) /\ conns \in Seq(HostStreams)
  BY DEF HostStreams, NewConn, SockInv, NetInv
<1> HIDE DEF e
<1>2. /\ Len(conns) \in Nat /\ Len(conns') = Len(conns) + 1 /\ conns' \in Seq(HostStreams)
      /\ \A c \in 1 .. Len(conns) : conns'[c] = conns[c]
  BY <1>1, Pushed
<1>3. \A s \in SocketHostObjects : SocketFits(s, Len(conns)) => SocketFits(s, Len(conns'))
  BY <1>2 DEF SocketFits
<1>4. \A g \in 1 .. MaxFds : \A i \in 1 .. Len(backlog[g]) : backlog[g][i] \in 1 .. Len(conns)
  BY DEF SockInv, NetInv
<1>5. \A f \in DOMAIN sockets : /\ sockets[f].stream \in 0 .. Len(conns)
                                /\ sockets[f].pending \in 0 .. Len(conns)
  BY DEF SockInv, ObjectsInv, SocketFits
<1>6. Len(conns') \notin 0 .. Len(conns) /\ \A c \in 1 .. Len(conns) : c \in 1 .. Len(conns') /\ c # Len(conns')
  BY <1>2
<1> QED BY <1>2, <1>3, <1>4, <1>5, <1>6

\* connect.
LEMMA ConnectKeeps ==
  ASSUME SockInv, Connect
  PROVE  SockInv'
<1>1. PICK fd \in DOMAIN sockets :
        /\ sockets[fd].type = "tcp" /\ ~sockets[fd].listener /\ sockets[fd].stream = 0
        /\ sockets' = [sockets EXCEPT ![fd].stream = Len(conns) + 1]
  BY DEF Connect, FdsOf, noConn
<1>2. conns' = NewConn /\ UNCHANGED <<slots, backlog, datagrams, told, sockPanic>>
  BY DEF Connect
<1>3. /\ Len(conns) \in Nat /\ Len(conns') = Len(conns) + 1 /\ conns' \in Seq(HostStreams)
      /\ \A c \in 1 .. Len(conns) : conns'[c] = conns[c] /\ c \in 1 .. Len(conns')
      /\ \A x \in SocketHostObjects : SocketFits(x, Len(conns)) => SocketFits(x, Len(conns'))
      /\ \A g \in 1 .. MaxFds : \A i \in 1 .. Len(backlog[g]) :
            backlog[g][i] \in 1 .. Len(conns) /\ backlog[g][i] # Len(conns')
      /\ \A f \in DOMAIN sockets : /\ sockets[f].stream \in 0 .. Len(conns)
                                   /\ sockets[f].pending \in 0 .. Len(conns)
                                   /\ sockets[f].stream # Len(conns') /\ sockets[f].pending # Len(conns')
  BY <1>2, Connected
<1> DEFINE s == [sockets[fd] EXCEPT !.stream = Len(conns) + 1]
<1>4. sockets[fd] \in SocketHostObjects /\ SocketFits(sockets[fd], Len(conns))
  BY DEF SockInv, ObjectsInv
<1>5. /\ s \in SocketHostObjects /\ sockets' = [sockets EXCEPT ![fd] = s]
      /\ s.stream = Len(conns') /\ s.pending = sockets[fd].pending
      /\ ~s.listener /\ s.udp = sockets[fd].udp /\ s.type = "tcp"
  BY <1>1, <1>3, <1>4 DEF SocketHostObjects
<1> HIDE DEF s
<1>6. s.pending = 0 /\ ~s.udp /\ SocketFits(s, Len(conns'))
  BY <1>1, <1>3, <1>4, <1>5 DEF SocketFits
<1>7. /\ DOMAIN sockets' = DOMAIN sockets /\ sockets' \in [DOMAIN sockets -> SocketHostObjects]
      /\ \A k \in DOMAIN sockets : sockets'[k] = IF k = fd THEN s ELSE sockets[k]
  BY <1>5 DEF SockInv, ObjectsInv
<1>8. SlotsInv'
  BY <1>2, <1>7 DEF SockInv, SlotsInv
<1>9. ObjectsInv'
  BY <1>3, <1>6, <1>7 DEF SockInv, ObjectsInv
<1>10. NetInv'
  <2>1. ~sockets[fd].udp
    BY <1>5, <1>6
  <2> QED BY <1>1, <1>2, <1>3, <1>7, <2>1 DEF SockInv, NetInv
<1>11. HolderInv'
  BY <1>1, <1>2, <1>3, <1>5, <1>6, <1>7 DEF SockInv, HolderInv
<1>12. ToldInv'
  <2> SUFFICES ASSUME NEW k \in told
               PROVE  /\ k \in DOMAIN sockets
                      /\ \/ sockets'[k].pending # 0
                         \/ sockets'[k].stream # 0 /\ StreamReadable(sockets[k].stream)'
                         \/ datagrams'[k] > 0
    BY <1>2, <1>7 DEF ToldInv
  <2>1. /\ k \in DOMAIN sockets
        /\ \/ sockets[k].pending # 0
           \/ sockets[k].stream # 0 /\ StreamReadable(sockets[k].stream)
           \/ datagrams[k] > 0
    BY DEF SockInv, ToldInv
  <2>2. CASE k = fd
    BY <1>1, <1>2, <1>4, <1>5, <1>7, <2>1, <2>2 DEF SocketFits
  <2>3. CASE k # fd
    <3>1. sockets'[k] = sockets[k]
      BY <1>7, <2>1, <2>3
    <3>2. sockets[k].stream # 0 => sockets[k].stream \in 1 .. Len(conns)
      BY <1>3, <2>1
    <3> QED BY <1>2, <1>3, <2>1, <3>1, <3>2 DEF StreamReadable
  <2> QED BY <2>2, <2>3
<1> QED BY <1>2, <1>8, <1>9, <1>10, <1>11, <1>12 DEF SockInv

\* A connection comes for a listener.
LEMMA ArrivesKeeps ==
  ASSUME SockInv, Arrives
  PROVE  SockInv'
<1>1. PICK fd \in DOMAIN sockets :
        /\ sockets[fd].listener /\ conns' = NewConn
        /\ backlog' = [backlog EXCEPT ![fd] = Append(@, Len(conns) + 1)]
  BY DEF Arrives
<1>2. UNCHANGED <<slots, sockets, datagrams, told, sockPanic>>
  BY DEF Arrives
<1>3. /\ Len(conns) \in Nat /\ Len(conns') = Len(conns) + 1 /\ conns' \in Seq(HostStreams)
      /\ \A c \in 1 .. Len(conns) : conns'[c] = conns[c] /\ c \in 1 .. Len(conns')
      /\ \A x \in SocketHostObjects : SocketFits(x, Len(conns)) => SocketFits(x, Len(conns'))
      /\ \A g \in 1 .. MaxFds : \A i \in 1 .. Len(backlog[g]) :
            backlog[g][i] \in 1 .. Len(conns) /\ backlog[g][i] # Len(conns')
      /\ \A f \in DOMAIN sockets : /\ sockets[f].stream \in 0 .. Len(conns)
                                   /\ sockets[f].pending \in 0 .. Len(conns)
                                   /\ sockets[f].stream # Len(conns') /\ sockets[f].pending # Len(conns')
  BY <1>1, Connected
<1>4. fd \in 1 .. MaxFds
  BY SocketNumbers DEF SockInv
<1> DEFINE old == Len(backlog[fd])
           fresh == Len(conns')
<1>5. backlog \in [1 .. MaxFds -> Seq(Nat)] /\ backlog[fd] \in Seq(Nat) /\ fresh \in Nat
  BY <1>3, <1>4 DEF SockInv, NetInv
<1>6. backlog' = [backlog EXCEPT ![fd] = Append(backlog[fd], fresh)]
  BY <1>1, <1>3
<1> HIDE DEF fresh
<1>7. /\ Append(backlog[fd], fresh) \in Seq(Nat) /\ Len(Append(backlog[fd], fresh)) = old + 1 /\ old \in Nat
      /\ Append(backlog[fd], fresh)[old + 1] = fresh
      /\ \A i \in 1 .. old : Append(backlog[fd], fresh)[i] = backlog[fd][i]
  BY <1>5, Pushed
<1>8. /\ backlog' \in [1 .. MaxFds -> Seq(Nat)]
      /\ \A g \in 1 .. MaxFds : g # fd => backlog'[g] = backlog[g]
      /\ backlog'[fd] = Append(backlog[fd], fresh)
  BY <1>4, <1>5, <1>6, <1>7
<1>9. ASSUME NEW g \in 1 .. MaxFds, NEW i \in 1 .. Len(backlog'[g])
      PROVE  \/ i \in 1 .. Len(backlog[g]) /\ backlog'[g][i] = backlog[g][i]
             \/ g = fd /\ i = old + 1 /\ backlog'[g][i] = fresh
  <2>1. CASE g = fd
    <3>1. i \in 1 .. old + 1
      BY <1>7, <1>8, <1>9, <2>1
    <3>2. i \in 1 .. old \/ i = old + 1
      BY <1>7, <3>1
    <3> QED BY <1>7, <1>8, <2>1, <3>2
  <2>2. CASE g # fd
    BY <1>8, <1>9, <2>2
  <2> QED BY <2>1, <2>2
<1>10. fresh \in 1 .. Len(conns') /\ \A g \in 1 .. MaxFds : \A i \in 1 .. Len(backlog[g]) : backlog[g][i] # fresh
  BY <1>3 DEF fresh
<1>11. SlotsInv' /\ ObjectsInv'
  BY <1>2, <1>3 DEF SockInv, SlotsInv, ObjectsInv
<1>12. NetInv'
  <2>1. \A g \in 1 .. MaxFds : \A i \in 1 .. Len(backlog'[g]) : backlog'[g][i] \in 1 .. Len(conns')
    BY <1>3, <1>9, <1>10
  <2> QED BY <1>1, <1>2, <1>3, <1>8, <2>1 DEF SockInv, NetInv
<1>13. HolderInv'
  <2>1. \A f \in DOMAIN sockets : sockets[f].stream # fresh /\ sockets[f].pending # fresh
    BY <1>3 DEF fresh
  <2>2. \A f \in DOMAIN sockets, g \in 1 .. MaxFds : \A i \in 1 .. Len(backlog'[g]) :
          backlog'[g][i] # sockets[f].stream /\ backlog'[g][i] # sockets[f].pending
    BY <1>9, <2>1 DEF SockInv, HolderInv
  <2>3. ASSUME NEW f \in 1 .. MaxFds, NEW g \in 1 .. MaxFds,
               NEW i \in 1 .. Len(backlog'[f]), NEW j \in 1 .. Len(backlog'[g]),
               backlog'[f][i] = backlog'[g][j]
        PROVE  f = g /\ i = j
    <3>1. CASE f = fd /\ i = old + 1 /\ backlog'[f][i] = fresh
      BY <1>9, <1>10, <2>3, <3>1
    <3>2. CASE i \in 1 .. Len(backlog[f]) /\ backlog'[f][i] = backlog[f][i]
      <4>1. j \in 1 .. Len(backlog[g]) /\ backlog'[g][j] = backlog[g][j]
        BY <1>9, <1>10, <2>3, <3>2
      <4>2. backlog[f][i] = backlog[g][j] /\ i \in 1 .. Len(backlog[f])
        BY <2>3, <3>2, <4>1
      <4> QED BY <4>1, <4>2 DEF SockInv, HolderInv
    <3> QED BY <1>9, <3>1, <3>2
  <2> QED BY <1>2, <2>2, <2>3 DEF SockInv, HolderInv
<1>14. ToldInv'
  <2> SUFFICES ASSUME NEW k \in told
               PROVE  /\ k \in DOMAIN sockets
                      /\ \/ sockets[k].pending # 0
                         \/ sockets[k].stream # 0 /\ StreamReadable(sockets[k].stream)'
                         \/ datagrams[k] > 0
    BY <1>2 DEF ToldInv
  <2>1. /\ k \in DOMAIN sockets
        /\ \/ sockets[k].pending # 0
           \/ sockets[k].stream # 0 /\ StreamReadable(sockets[k].stream)
           \/ datagrams[k] > 0
    BY DEF SockInv, ToldInv
  <2>2. sockets[k].stream # 0 => sockets[k].stream \in 1 .. Len(conns)
    BY <1>3, <2>1
  <2> QED BY <1>2, <1>3, <2>1, <2>2 DEF StreamReadable
<1> QED BY <1>2, <1>11, <1>12, <1>13, <1>14 DEF SockInv

\* A connection changes, and what was readable of others stays so.
LEMMA StreamKeeps ==
  ASSUME SockInv, NEW c \in Conns, NEW s \in HostStreams, conns' = [conns EXCEPT ![c] = s],
         told' \subseteq told,
         \/ StreamReadable(c) => s.inbox > 0 \/ s.ended # "no"
         \/ \E fd \in DOMAIN sockets : sockets[fd].stream = c /\ fd \notin told',
         sockPanic' = FALSE, UNCHANGED <<slots, sockets, backlog, datagrams>>
  PROVE  SockInv'
<1>1. conns \in Seq(HostStreams) /\ c \in 1 .. Len(conns) /\ Len(conns) \in Nat
  BY LenProperties DEF Conns, SockInv, NetInv
<1>2. /\ conns' \in Seq(HostStreams) /\ Len(conns') = Len(conns)
      /\ \A d \in 1 .. Len(conns) : conns'[d] = IF d = c THEN s ELSE conns[d]
  BY <1>1, ExceptSeq
<1>3. SlotsInv' /\ ObjectsInv' /\ NetInv' /\ HolderInv'
  BY <1>2 DEF SockInv, SlotsInv, ObjectsInv, NetInv, HolderInv
<1>4. ToldInv'
  <2> SUFFICES ASSUME NEW k \in told'
               PROVE  /\ k \in DOMAIN sockets
                      /\ \/ sockets[k].pending # 0
                         \/ sockets[k].stream # 0 /\ StreamReadable(sockets[k].stream)'
                         \/ datagrams[k] > 0
    BY DEF ToldInv
  <2>1. /\ k \in DOMAIN sockets
        /\ \/ sockets[k].pending # 0
           \/ sockets[k].stream # 0 /\ StreamReadable(sockets[k].stream)
           \/ datagrams[k] > 0
    BY DEF SockInv, ToldInv
  <2> SUFFICES ASSUME sockets[k].stream # 0, StreamReadable(sockets[k].stream)
               PROVE  StreamReadable(sockets[k].stream)'
    BY <2>1
  <2>2. sockets[k].stream \in 1 .. Len(conns)
    BY <1>1, <2>1 DEF SockInv, ObjectsInv, SocketFits
  <2>3. CASE sockets[k].stream # c
    BY <1>2, <2>2, <2>3 DEF StreamReadable
  <2>4. CASE sockets[k].stream = c
    <3>1. \A fd \in DOMAIN sockets : sockets[fd].stream = c => fd = k
      BY <2>1, <2>4 DEF SockInv, HolderInv
    <3>2. s.inbox > 0 \/ s.ended # "no"
      BY <2>4, <3>1
    <3> QED BY <1>1, <1>2, <2>4, <3>2 DEF StreamReadable
  <2> QED BY <2>3, <2>4
<1> QED BY <1>3, <1>4 DEF SockInv

\* The remote end sends.
LEMMA PeerSendsKeeps ==
  ASSUME SockInv, PeerSends
  PROVE  SockInv'
<1>1. PICK c \in Conns : conns' = [conns EXCEPT ![c].inbox = @ + 1]
  BY DEF PeerSends
<1> DEFINE s == [conns[c] EXCEPT !.inbox = @ + 1]
<1>2. conns[c] \in HostStreams
  BY ElementOfSeq, LenProperties DEF SockInv, NetInv, Conns
<1>3. s \in HostStreams /\ s.inbox > 0 /\ conns' = [conns EXCEPT ![c] = s]
  BY <1>1, <1>2 DEF HostStreams
<1> HIDE DEF s
<1>4. sockPanic' = FALSE /\ UNCHANGED <<slots, sockets, backlog, datagrams, told>>
  BY DEF PeerSends
<1> QED BY <1>3, <1>4, StreamKeeps

\* The remote end closes, or resets, which is something to read too.
LEMMA PeerEndsKeeps ==
  ASSUME SockInv, PeerEnds
  PROVE  SockInv'
<1>1. PICK c \in Conns, how \in {"closed", "reset"} :
        conns' = [conns EXCEPT ![c].ended = how, ![c].inbox = IF how = "reset" THEN 0 ELSE @]
  BY DEF PeerEnds
<1> DEFINE s == [conns[c] EXCEPT !.ended = how, !.inbox = IF how = "reset" THEN 0 ELSE @]
<1>2. conns[c] \in HostStreams /\ conns \in Seq(HostStreams) /\ c \in DOMAIN conns
  BY ElementOfSeq, LenProperties DEF SockInv, NetInv, Conns
<1>3. s \in HostStreams /\ s.ended # "no" /\ conns' = [conns EXCEPT ![c] = s]
  BY <1>1, <1>2 DEF HostStreams
<1> HIDE DEF s
<1>4. sockPanic' = FALSE /\ UNCHANGED <<slots, sockets, backlog, datagrams, told>>
  BY DEF PeerEnds
<1> QED BY <1>3, <1>4, StreamKeeps

\* Datagrams of a socket come or are read.
LEMMA DatagramsKeep ==
  ASSUME SockInv, NEW fd \in DOMAIN sockets, sockets[fd].udp, NEW n \in Nat,
         datagrams' = [datagrams EXCEPT ![fd] = n],
         told' \subseteq told, fd \in told' => n > 0,
         sockPanic' = FALSE, UNCHANGED <<slots, sockets, conns, backlog>>
  PROVE  SockInv'
<1>1. fd \in 1 .. MaxFds
  BY SocketNumbers DEF SockInv
<1>2. /\ datagrams' \in [1 .. MaxFds -> Nat]
      /\ \A g \in 1 .. MaxFds : datagrams'[g] = IF g = fd THEN n ELSE datagrams[g]
  BY <1>1 DEF SockInv, NetInv
<1>3. SlotsInv' /\ ObjectsInv' /\ HolderInv'
  BY DEF SockInv, SlotsInv, ObjectsInv, HolderInv
<1>4. NetInv'
  BY <1>2 DEF SockInv, NetInv
<1>5. ToldInv'
  BY <1>2, SocketNumbers DEF SockInv, ToldInv, StreamReadable
<1> QED BY <1>3, <1>4, <1>5 DEF SockInv

\* A datagram arrives.
LEMMA DatagramKeeps ==
  ASSUME SockInv, Datagram
  PROVE  SockInv'
<1>1. PICK fd \in DOMAIN sockets : sockets[fd].udp /\ datagrams' = [datagrams EXCEPT ![fd] = @ + 1]
  BY DEF Datagram, FdsOf
<1>2. fd \in 1 .. MaxFds
  BY SocketNumbers DEF SockInv
<1> DEFINE n == datagrams[fd] + 1
<1>3. n \in Nat /\ n > 0 /\ datagrams' = [datagrams EXCEPT ![fd] = n]
  BY <1>1, <1>2 DEF SockInv, NetInv
<1> HIDE DEF n
<1>4. sockPanic' = FALSE /\ UNCHANGED <<slots, sockets, conns, backlog, told>>
  BY DEF Datagram
<1> QED BY <1>1, <1>3, <1>4, DatagramsKeep

\* recvfrom: what select has said of a socket is there, and is used.
LEMMA RecvFromKeeps ==
  ASSUME AllCare, SockInv, RecvFrom
  PROVE  SockInv'
<1>1. PICK fd \in DOMAIN sockets :
        LET s == sockets[fd]
        IN  /\ fd \in told /\ ~s.listener /\ (s.type = "tcp" => s.stream # noConn)
            /\ told' = told \ {fd}
            /\ IF s.type = "udp"
               THEN /\ datagrams' = [datagrams EXCEPT ![fd] = IF @ > 0 THEN @ - 1 ELSE 0]
                    /\ sockPanic' = (datagrams[fd] = 0) /\ UNCHANGED conns
               ELSE /\ conns' = [conns EXCEPT ![s.stream].inbox = IF @ > 0 THEN @ - 1 ELSE 0]
                    /\ sockPanic' = ~StreamReadable(s.stream) /\ UNCHANGED datagrams
  BY DEF RecvFrom, AllCare
<1>2. UNCHANGED <<slots, sockets, backlog>>
  BY DEF RecvFrom
<1>3. sockets[fd] \in SocketHostObjects /\ SocketFits(sockets[fd], Len(conns)) /\ fd \in 1 .. MaxFds
  BY SocketNumbers DEF SockInv, ObjectsInv
<1>4. /\ \/ sockets[fd].pending # 0
         \/ sockets[fd].stream # 0 /\ StreamReadable(sockets[fd].stream)
         \/ datagrams[fd] > 0
      /\ datagrams[fd] \in Nat /\ (datagrams[fd] > 0 => sockets[fd].udp)
  BY <1>1, <1>3 DEF SockInv, ToldInv, NetInv
<1>5. sockets[fd].pending = 0
  BY <1>1, <1>3 DEF SocketFits
<1>6. CASE sockets[fd].type = "udp"
  <2>1. datagrams[fd] > 0 /\ sockets[fd].udp
    BY <1>3, <1>4, <1>5, <1>6 DEF SocketFits
  <2> DEFINE n == datagrams[fd] - 1
  <2>2. n \in Nat /\ datagrams' = [datagrams EXCEPT ![fd] = n]
    BY <1>1, <1>3, <1>4, <1>6, <2>1 DEF SockInv, NetInv
  <2> HIDE DEF n
  <2>3. sockPanic' = FALSE /\ conns' = conns /\ fd \notin told' /\ told' \subseteq told
    <3>1. /\ told' = told \ {fd} /\ conns' = conns /\ sockPanic' = (datagrams[fd] = 0)
      BY <1>1, <1>6
    <3>2. datagrams[fd] # 0
      BY <1>4, <2>1
    <3> QED BY <3>1, <3>2
  <2> QED BY <1>2, <2>1, <2>2, <2>3, DatagramsKeep
<1>7. CASE sockets[fd].type = "tcp"
  <2> DEFINE c == sockets[fd].stream
             s == [conns[c] EXCEPT !.inbox = IF @ > 0 THEN @ - 1 ELSE 0]
  <2>1. c # 0 /\ ~sockets[fd].udp
    BY <1>1, <1>3, <1>7 DEF noConn, SocketFits
  <2>2. StreamReadable(c)
    BY <1>4, <1>5, <2>1
  <2>3. conns \in Seq(HostStreams) /\ Len(conns) \in Nat /\ DOMAIN conns = 1 .. Len(conns)
    BY LenProperties DEF SockInv, NetInv
  <2>4. c \in Conns
    BY <1>3, <2>1, <2>3 DEF SocketFits, Conns
  <2>5. conns[c] \in HostStreams
    BY <2>3, <2>4, ElementOfSeq DEF Conns
  <2>6. s \in HostStreams
    BY <2>5 DEF HostStreams
  <2>7. /\ conns' = [conns EXCEPT ![c] = s] /\ sockPanic' = ~StreamReadable(c)
        /\ datagrams' = datagrams /\ told' = told \ {fd}
    BY <1>1, <1>7
  <2>8. sockets[fd].stream = c /\ fd \notin told' /\ told' \subseteq told /\ sockPanic' = FALSE
    BY <2>2, <2>7
  <2> HIDE DEF c, s
  <2> QED BY <1>2, <2>4, <2>6, <2>7, <2>8, StreamKeeps
<1> QED BY <1>3, <1>6, <1>7 DEF SocketHostObjects

\* accept: a pending connection that its peer has reset is given up.
LEMMA AcceptLost ==
  ASSUME SockInv, NEW fd \in DOMAIN sockets, sockets' = [sockets EXCEPT ![fd].pending = 0],
         told' = told \ {fd}, ~sockPanic', UNCHANGED <<slots, conns, backlog, datagrams>>
  PROVE  SockInv'
<1> DEFINE old == [sockets[fd] EXCEPT !.pending = 0]
<1>1. sockets[fd] \in SocketHostObjects /\ SocketFits(sockets[fd], Len(conns)) /\ Len(conns) \in Nat
  BY LenProperties DEF SockInv, ObjectsInv, NetInv
<1>2. /\ old \in SocketHostObjects /\ old.stream = sockets[fd].stream /\ old.pending = 0
      /\ old.listener = sockets[fd].listener /\ old.udp = sockets[fd].udp /\ old.type = sockets[fd].type
      /\ sockets' = [sockets EXCEPT ![fd] = old]
  BY <1>1 DEF SocketHostObjects
<1> HIDE DEF old
<1>3. SocketFits(old, Len(conns))
  BY <1>1, <1>2 DEF SocketFits
<1>4. /\ DOMAIN sockets' = DOMAIN sockets /\ sockets' \in [DOMAIN sockets -> SocketHostObjects]
      /\ \A k \in DOMAIN sockets : sockets'[k] = IF k = fd THEN old ELSE sockets[k]
  BY <1>2 DEF SockInv, ObjectsInv
<1>5. SlotsInv' /\ ObjectsInv'
  BY <1>3, <1>4 DEF SockInv, SlotsInv, ObjectsInv
<1>6. NetInv'
  BY <1>2, <1>4 DEF SockInv, NetInv
<1>7. HolderInv'
  <2>1. \A f \in DOMAIN sockets : /\ sockets'[f].stream = sockets[f].stream
                                  /\ sockets'[f].pending \in {0, sockets[f].pending}
    BY <1>2, <1>4
  <2>2. \A g \in 1 .. MaxFds : \A i \in 1 .. Len(backlog[g]) : backlog[g][i] # 0
    BY DEF SockInv, NetInv
  <2> QED BY <1>4, <2>1, <2>2 DEF SockInv, HolderInv
<1>8. ToldInv'
  BY <1>4 DEF SockInv, ToldInv, StreamReadable
<1> QED BY <1>5, <1>6, <1>7, <1>8 DEF SockInv

\* accept: a pending connection goes to a socket of its own.
LEMMA AcceptKeeps ==
  ASSUME AllCare, SockInv, Accept
  PROVE  SockInv'
<1> DEFINE n == FreeSlot
<1>0. PICK fd \in DOMAIN sockets :
        /\ sockets[fd].type = "tcp" /\ FreeSlot <= MaxFds /\ fd \in told
        /\ sockets[fd].stream = 0 /\ told' = told \ {fd}
        /\ IF sockets[fd].pending = 0
           THEN sockPanic' = TRUE /\ UNCHANGED <<slots, sockets, lost>>
           ELSE IF IsReset(sockets[fd].pending)
           THEN /\ lost' = sockets[fd].pending /\ sockets' = [sockets EXCEPT ![fd].pending = 0]
                /\ UNCHANGED <<slots, sockPanic>>
           ELSE /\ Take(FreeSlot, "socket")
                /\ sockPanic' = (FreeSlot \in DOMAIN sockets)
                /\ sockets' = WithSocket([sockets EXCEPT ![fd].pending = 0], FreeSlot,
                                         SocketHostObject("tcp", sockets[fd].pending))
                /\ UNCHANGED lost
  BY DEF Accept, FdsOf, AllCare, noConn
<1>2. UNCHANGED <<conns, backlog, datagrams>>
  BY DEF Accept
<1>a. CASE sockets[fd].pending # 0 /\ IsReset(sockets[fd].pending)
  BY <1>0, <1>2, <1>a, AcceptLost DEF SockInv
<1> SUFFICES ASSUME ~(sockets[fd].pending # 0 /\ IsReset(sockets[fd].pending))
             PROVE  SockInv'
  BY <1>a
<1>1. /\ sockets[fd].type = "tcp" /\ FreeSlot <= MaxFds /\ fd \in told
      /\ sockets[fd].stream = 0 /\ told' = told \ {fd}
      /\ IF sockets[fd].pending = 0
         THEN sockPanic' = TRUE /\ UNCHANGED <<slots, sockets>>
         ELSE /\ Take(FreeSlot, "socket")
              /\ sockPanic' = (FreeSlot \in DOMAIN sockets)
              /\ sockets' = WithSocket([sockets EXCEPT ![fd].pending = 0], FreeSlot,
                                       SocketHostObject("tcp", sockets[fd].pending))
  BY <1>0
<1>3. sockets[fd] \in SocketHostObjects /\ SocketFits(sockets[fd], Len(conns)) /\ fd \in 1 .. MaxFds
  BY SocketNumbers DEF SockInv, ObjectsInv
<1> DEFINE c == sockets[fd].pending
<1>4. c # 0 /\ sockets[fd].listener
  BY <1>1, <1>3 DEF SockInv, ToldInv, NetInv, SocketFits
<1>5. /\ n \notin DOMAIN sockets /\ n \in 1 .. MaxFds
      /\ slots' \in Seq(SlotKinds) /\ Len(slots') <= MaxFds
      /\ {k \in DOMAIN slots' : slots'[k] = "socket"} = DOMAIN sockets \cup {n}
  BY <1>1, <1>4, SlotTaken DEF SockInv, SlotKinds
<1> DEFINE fresh == SocketHostObject("tcp", c)
           old == [sockets[fd] EXCEPT !.pending = 0]
<1>6. ~sockPanic' /\ sockets' = WithSocket([sockets EXCEPT ![fd] = old], n, fresh)
  <2>1. [sockets EXCEPT ![fd].pending = 0] = [sockets EXCEPT ![fd] = old]
    OBVIOUS
  <2>2. sockets' = WithSocket([sockets EXCEPT ![fd].pending = 0], n, fresh)
    BY <1>1, <1>4
  <2>3. ~sockPanic'
    <3>1. sockPanic' = (n \in DOMAIN sockets)
      BY <1>1, <1>4
    <3> HIDE DEF n, old, fresh
    <3> QED BY <1>5, <3>1
  <2> QED BY <2>1, <2>2, <2>3
<1> HIDE DEF n
<1>7. Len(conns) \in Nat /\ c \in 1 .. Len(conns)
  BY <1>3, <1>4, LenProperties DEF SockInv, NetInv, SocketFits
<1>8. /\ fresh \in SocketHostObjects /\ fresh.stream = c /\ fresh.pending = 0 /\ ~fresh.listener /\ ~fresh.udp
      /\ fresh.type = "tcp"
  BY <1>7 DEF SocketHostObject, SocketHostObjects, noConn
<1>9. /\ old \in SocketHostObjects /\ old.stream = 0 /\ old.pending = 0 /\ old.listener
      /\ ~old.udp /\ old.type = "tcp"
  BY <1>1, <1>3, <1>4 DEF SocketHostObjects, SocketFits
<1> HIDE DEF fresh, old
<1>10. SocketFits(fresh, Len(conns)) /\ SocketFits(old, Len(conns))
  BY <1>7, <1>8, <1>9 DEF SocketFits
<1>11. /\ DOMAIN sockets' = DOMAIN sockets \cup {n}
       /\ sockets' = [k \in DOMAIN sockets \cup {n} |->
                        IF k = n THEN fresh ELSE IF k = fd THEN old ELSE sockets[k]]
  BY <1>5, <1>6 DEF WithSocket, SockInv, ObjectsInv
<1>12. /\ sockets'[n] = fresh /\ sockets'[fd] = old /\ fd # n
       /\ \A k \in DOMAIN sockets : k # fd => sockets'[k] = sockets[k]
  BY <1>5, <1>11
<1>13. SlotsInv'
  BY <1>5, <1>11 DEF SlotsInv
<1>14. ObjectsInv'
  <2>1. \A k \in DOMAIN sockets' : sockets'[k] \in SocketHostObjects /\ SocketFits(sockets'[k], Len(conns))
    BY <1>8, <1>9, <1>10, <1>11, <1>12 DEF SockInv, ObjectsInv
  <2> QED BY <1>2, <1>11, <2>1 DEF ObjectsInv
<1>15. NetInv'
  <2>1. ~sockets[fd].udp
    BY <1>1, <1>3 DEF SocketFits
  <2>2. \A g \in DOMAIN sockets : /\ sockets[g].udp => sockets'[g].udp
                                  /\ sockets[g].listener => sockets'[g].listener
                                  /\ g \in DOMAIN sockets'
    BY <1>9, <1>11, <1>12, <2>1
  <2>3. \A g \in 1 .. MaxFds :
          /\ datagrams'[g] > 0 => g \in DOMAIN sockets' /\ sockets'[g].udp
          /\ backlog'[g] # <<>> => g \in DOMAIN sockets' /\ sockets'[g].listener
    <3> TAKE g \in 1 .. MaxFds
    <3>1. /\ datagrams[g] > 0 => g \in DOMAIN sockets /\ sockets[g].udp
          /\ backlog[g] # <<>> => g \in DOMAIN sockets /\ sockets[g].listener
      BY DEF SockInv, NetInv
    <3>2. datagrams' = datagrams /\ backlog' = backlog
      BY <1>2
    <3>3. ASSUME datagrams'[g] > 0 PROVE g \in DOMAIN sockets' /\ sockets'[g].udp
      <4>1. datagrams[g] > 0
        BY <3>2, <3>3
      <4>2. g \in DOMAIN sockets /\ sockets[g].udp
        BY <3>1, <4>1
      <4> QED BY <2>2, <4>2, Zenon
    <3>4. ASSUME backlog'[g] # <<>> PROVE g \in DOMAIN sockets' /\ sockets'[g].listener
      <4>1. backlog[g] # <<>>
        BY <3>2, <3>4
      <4>2. g \in DOMAIN sockets /\ sockets[g].listener
        BY <3>1, <4>1
      <4> QED BY <2>2, <4>2, Zenon
    <3> QED BY <3>3, <3>4
  <2> QED BY <1>2, <2>3 DEF SockInv, NetInv
<1>16. HolderInv'
  <2>1. ASSUME NEW f \in DOMAIN sockets'
        PROVE  \/ f = n /\ sockets'[f].stream = c /\ sockets'[f].pending = 0
               \/ f = fd /\ sockets'[f].stream = 0 /\ sockets'[f].pending = 0
               \/ f \in DOMAIN sockets /\ f # n /\ f # fd /\ sockets'[f] = sockets[f]
    BY <1>5, <1>8, <1>9, <1>11, <1>12
  <2>2. \A f \in DOMAIN sockets : f # fd => sockets[f].stream # c /\ sockets[f].pending # c
    BY <1>4 DEF SockInv, HolderInv
  <2>3. \A g \in 1 .. MaxFds : \A i \in 1 .. Len(backlog[g]) : backlog[g][i] # c /\ backlog[g][i] # 0
    BY <1>7 DEF SockInv, HolderInv, NetInv
  <2>4. ASSUME NEW f \in DOMAIN sockets', NEW g \in DOMAIN sockets'
        PROVE  /\ sockets'[f].stream # 0 => sockets'[f].stream # sockets'[g].pending
               /\ f # g /\ sockets'[f].stream # 0 => sockets'[f].stream # sockets'[g].stream
               /\ f # g /\ sockets'[f].pending # 0 => sockets'[f].pending # sockets'[g].pending
    <3>1. CASE f \in DOMAIN sockets /\ f # n /\ f # fd /\ sockets'[f] = sockets[f]
      <4>1. CASE g \in DOMAIN sockets /\ g # n /\ g # fd /\ sockets'[g] = sockets[g]
        BY <3>1, <4>1 DEF SockInv, HolderInv
      <4>2. CASE ~(g \in DOMAIN sockets /\ g # n /\ g # fd /\ sockets'[g] = sockets[g])
        BY <2>1, <2>2, <3>1, <4>2
      <4> QED BY <4>1, <4>2
    <3>2. CASE f = n /\ sockets'[f].stream = c /\ sockets'[f].pending = 0
      BY <1>4, <2>1, <2>2, <3>2
    <3>3. CASE f = fd /\ sockets'[f].stream = 0 /\ sockets'[f].pending = 0
      BY <3>3
    <3> QED BY <2>1, <3>1, <3>2, <3>3
  <2>5. \A f \in DOMAIN sockets', g \in 1 .. MaxFds : \A i \in 1 .. Len(backlog[g]) :
          backlog[g][i] # sockets'[f].stream /\ backlog[g][i] # sockets'[f].pending
    BY <2>1, <2>3 DEF SockInv, HolderInv
  <2> QED BY <1>2, <2>4, <2>5 DEF SockInv, HolderInv
<1>17. ToldInv'
  <2>1. \A k \in told' : k \in DOMAIN sockets /\ k # fd /\ sockets'[k] = sockets[k] /\ k \in DOMAIN sockets'
    BY <1>1, <1>11, <1>12 DEF SockInv, ToldInv
  <2> QED BY <1>1, <1>2, <2>1 DEF SockInv, ToldInv, StreamReadable
<1> QED BY <1>6, <1>13, <1>14, <1>15, <1>16, <1>17 DEF SockInv

\* The host object of a listener that has a connection pending.
LEMMA PendingSet ==
  ASSUME NEW s \in SocketHostObjects, NEW b \in Nat
  PROVE  LET t == [s EXCEPT !.pending = b]
         IN  /\ t \in SocketHostObjects /\ t.stream = s.stream /\ t.type = s.type
             /\ t.udp = s.udp /\ t.listener = s.listener /\ t.pending = b
BY DEF SocketHostObjects

\* select: a connection it accepts leaves the backlog and is the listener's
\* pending one; all that it is asked about can be answered.
LEMMA SelectKeeps ==
  ASSUME AllCare, SockInv, Select
  PROVE  SockInv'
<1>0. "polls" \in SockCareful /\ "accepts" \in SockCareful
  BY DEF AllCare
<1>a. PICK reads \in SUBSET DOMAIN sockets, writes \in SUBSET DOMAIN sockets,
           errors \in SUBSET DOMAIN sockets, waits \in BOOLEAN, reported \in BOOLEAN :
        /\ ~sockPanic /\ Cardinality(reads) + Cardinality(writes) + Cardinality(errors) \in 1 .. 2
        /\ "polls" \in SockCareful =>
             /\ ~waits
             /\ \A fd \in reads : sockets[fd].listener \/ sockets[fd].udp \/ sockets[fd].stream # noConn
             /\ \A fd \in writes : ~sockets[fd].listener
             /\ \A fd \in errors : sockets[fd].stream # noConn
        /\ "accepts" \in SockCareful => \A fd \in reads : sockets[fd].pending = noConn
        /\ sockets' = [fd \in DOMAIN sockets |->
                         IF fd \in reads /\ Comes(fd) THEN [sockets[fd] EXCEPT !.pending = Head(backlog[fd])]
                         ELSE sockets[fd]]
        /\ backlog' = [fd \in 1 .. MaxFds |->
                         IF fd \in reads /\ Comes(fd) THEN Tail(backlog[fd]) ELSE backlog[fd]]
        /\ told' = told \cup {fd \in reads : ReadReady(fd)}
        /\ sockPanic' = \/ \E fd \in reads : ReadFails(fd, waits)
                        \/ \E fd \in writes : WriteFails(fd, waits)
                        \/ \E fd \in errors : ErrorFails(fd)
        /\ \/ \E fd \in errors : HasError(fd) /\ ~reported /\ lost' = sockets[fd].stream
           \/ (reported \/ \A fd \in errors : ~HasError(fd)) /\ UNCHANGED lost
        /\ UNCHANGED <<slots, conns, datagrams>>
  BY Zenon DEF Select
<1>1. /\ ~waits
      /\ \A fd \in reads : sockets[fd].listener \/ sockets[fd].udp \/ sockets[fd].stream # 0
      /\ \A fd \in writes : ~sockets[fd].listener
      /\ \A fd \in errors : sockets[fd].stream # 0
      /\ \A fd \in reads : sockets[fd].pending = 0
      /\ sockets' = [fd \in DOMAIN sockets |->
                       IF fd \in reads /\ Comes(fd) THEN [sockets[fd] EXCEPT !.pending = Head(backlog[fd])]
                       ELSE sockets[fd]]
      /\ backlog' = [fd \in 1 .. MaxFds |->
                       IF fd \in reads /\ Comes(fd) THEN Tail(backlog[fd]) ELSE backlog[fd]]
      /\ told' = told \cup {fd \in reads : ReadReady(fd)}
      /\ sockPanic' = (\/ \E fd \in reads : ReadFails(fd, waits)
                       \/ \E fd \in writes : WriteFails(fd, waits)
                       \/ \E fd \in errors : ErrorFails(fd))
  BY <1>0, <1>a, Zenon DEF noConn
<1>2. UNCHANGED <<slots, conns, datagrams>>
  BY DEF Select
<1>3. /\ Len(conns) \in Nat
      /\ \A fd \in DOMAIN sockets : /\ sockets[fd] \in SocketHostObjects
                                    /\ SocketFits(sockets[fd], Len(conns))
                                    /\ fd \in 1 .. MaxFds /\ slots[fd] = "socket"
  BY SocketNumbers, LenProperties DEF SockInv, ObjectsInv, NetInv, SlotsInv
<1>4. ~sockPanic'
  <2>1. ASSUME NEW fd \in reads PROVE ~ReadFails(fd, waits)
    BY <1>1, <1>3 DEF ReadFails, Comes, SocketFits, SocketHostObjects, noConn
  <2>2. ASSUME NEW fd \in writes PROVE ~WriteFails(fd, waits)
    BY <1>1, <1>3 DEF WriteFails
  <2>3. ASSUME NEW fd \in errors PROVE ~ErrorFails(fd)
    BY <1>1, <1>3 DEF ErrorFails, SocketFits, noConn
  <2> QED BY <1>1, <2>1, <2>2, <2>3
<1> DEFINE took(fd) == fd \in reads /\ Comes(fd)
<1>5. ASSUME NEW fd \in 1 .. MaxFds, took(fd)
      PROVE  /\ fd \in DOMAIN sockets /\ sockets[fd].listener /\ sockets[fd].stream = 0
             /\ Len(backlog[fd]) \in Nat \ {0} /\ Head(backlog[fd]) = backlog[fd][1]
             /\ 1 \in 1 .. Len(backlog[fd]) /\ backlog[fd][1] \in 1 .. Len(conns)
             /\ Tail(backlog[fd]) \in Seq(Nat) /\ Len(Tail(backlog[fd])) = Len(backlog[fd]) - 1
             /\ \A i \in 1 .. Len(backlog[fd]) - 1 : Tail(backlog[fd])[i] = backlog[fd][i + 1]
  <2>1. fd \in DOMAIN sockets /\ sockets[fd].listener /\ sockets[fd].stream = 0 /\ backlog[fd] # <<>>
    BY <1>1, <1>5 DEF Comes, noConn
  <2>2. backlog[fd] \in Seq(Nat)
    BY DEF SockInv, NetInv
  <2>3. /\ Len(backlog[fd]) \in Nat \ {0} /\ Head(backlog[fd]) = backlog[fd][1]
        /\ Tail(backlog[fd]) \in Seq(Nat) /\ Len(Tail(backlog[fd])) = Len(backlog[fd]) - 1
        /\ \A i \in 1 .. Len(backlog[fd]) - 1 : Tail(backlog[fd])[i] = backlog[fd][i + 1]
    BY <2>1, <2>2, HeadRest
  <2>4. 1 \in 1 .. Len(backlog[fd])
    BY <2>3
  <2> QED BY <2>1, <2>3, <2>4 DEF SockInv, NetInv
<1>6. \A fd \in reads : fd \in DOMAIN sockets
  BY <1>1
<1>7. /\ DOMAIN sockets' = DOMAIN sockets
      /\ \A fd \in DOMAIN sockets : sockets'[fd] =
            IF took(fd) THEN [sockets[fd] EXCEPT !.pending = backlog[fd][1]] ELSE sockets[fd]
  BY <1>1, <1>3, <1>5
<1>8. /\ backlog' \in [1 .. MaxFds -> Seq(Nat)]
      /\ \A fd \in 1 .. MaxFds : backlog'[fd] = IF took(fd) THEN Tail(backlog[fd]) ELSE backlog[fd]
  BY <1>1, <1>5 DEF SockInv, NetInv
<1> HIDE DEF took
<1>9. ASSUME NEW fd \in DOMAIN sockets
      PROVE  /\ sockets'[fd] \in SocketHostObjects /\ SocketFits(sockets'[fd], Len(conns))
             /\ sockets'[fd].stream = sockets[fd].stream
             /\ sockets'[fd].udp = sockets[fd].udp /\ sockets'[fd].listener = sockets[fd].listener
             /\ sockets'[fd].pending = IF took(fd) THEN backlog[fd][1] ELSE sockets[fd].pending
  <2>1. CASE took(fd)
    <3> DEFINE b == backlog[fd][1]
               s == sockets[fd]
    <3>1. /\ s \in SocketHostObjects /\ SocketFits(s, Len(conns)) /\ s.listener /\ s.stream = 0
          /\ b \in 1 .. Len(conns) /\ Len(conns) \in Nat
      BY <1>3, <1>5, <2>1
    <3>2. sockets'[fd] = [s EXCEPT !.pending = b]
      BY <1>7, <2>1
    <3> HIDE DEF b, s
    <3>3. /\ sockets'[fd] \in SocketHostObjects /\ sockets'[fd].stream = s.stream /\ sockets'[fd].type = s.type
          /\ sockets'[fd].udp = s.udp /\ sockets'[fd].listener = s.listener /\ sockets'[fd].pending = b
      <4>1. b \in Nat
        BY <3>1
      <4> DEFINE t == [s EXCEPT !.pending = b]
      <4>2. /\ t \in SocketHostObjects /\ t.stream = s.stream /\ t.type = s.type
            /\ t.udp = s.udp /\ t.listener = s.listener /\ t.pending = b
        BY <3>1, <4>1, PendingSet
      <4>3. sockets'[fd] = t
        BY <3>2
      <4> HIDE DEF t
      <4> QED BY <4>2, <4>3, Zenon
    <3>4. SocketFits(sockets'[fd], Len(conns))
      BY <3>1, <3>3 DEF SocketFits
    <3> QED BY <2>1, <3>3, <3>4 DEF b, s
  <2>2. CASE ~took(fd)
    BY <1>3, <1>7, <2>2
  <2> QED BY <2>1, <2>2
<1>10. SlotsInv'
  BY <1>2, <1>7 DEF SockInv, SlotsInv
<1>11. ObjectsInv'
  <2>1. sockets' \in [DOMAIN sockets -> SocketHostObjects]
    BY <1>1, <1>7, <1>9
  <2> QED BY <1>2, <1>7, <1>9, <2>1 DEF ObjectsInv
\* Where the connections of the new backlogs were.
<1>12. ASSUME NEW g \in 1 .. MaxFds, NEW i \in 1 .. Len(backlog'[g])
       PROVE  LET j == IF took(g) THEN i + 1 ELSE i
              IN  j \in 1 .. Len(backlog[g]) /\ backlog'[g][i] = backlog[g][j] /\ (took(g) => j # 1)
  <2>1. CASE took(g)
    <3>1. i \in 1 .. Len(backlog[g]) - 1
      BY <1>5, <1>8, <1>12, <2>1
    <3>2. i + 1 \in 1 .. Len(backlog[g]) /\ i + 1 # 1
      BY <1>5, <2>1, <3>1
    <3>3. backlog'[g] = Tail(backlog[g])
      BY <1>8, <2>1
    <3>4. Tail(backlog[g])[i] = backlog[g][i + 1]
      BY <1>5, <2>1, <3>1
    <3> QED BY <2>1, <3>2, <3>3, <3>4
  <2>2. CASE ~took(g)
    BY <1>8, <1>12, <2>2
  <2> QED BY <2>1, <2>2
<1>13. NetInv'
  <2>1. ASSUME NEW g \in 1 .. MaxFds, NEW i \in 1 .. Len(backlog'[g])
        PROVE  backlog'[g][i] \in 1 .. Len(conns)
    <3>1. PICK j \in 1 .. Len(backlog[g]) : backlog'[g][i] = backlog[g][j]
      BY <1>12
    <3> QED BY <3>1 DEF SockInv, NetInv
  <2>2. ASSUME NEW g \in 1 .. MaxFds, backlog'[g] # <<>>
        PROVE  g \in DOMAIN sockets /\ sockets'[g].listener
    BY <1>5, <1>8, <1>9, <2>2 DEF SockInv, NetInv
  <2>3. ASSUME NEW g \in 1 .. MaxFds, datagrams'[g] > 0
        PROVE  g \in DOMAIN sockets /\ sockets'[g].udp
    BY <1>2, <1>9, <2>3 DEF SockInv, NetInv
  <2> QED BY <1>2, <1>7, <1>8, <2>1, <2>2, <2>3 DEF SockInv, NetInv
<1>14. HolderInv'
  <2> DEFINE Apart == \A f, g \in 1 .. MaxFds : \A i \in 1 .. Len(backlog[f]), j \in 1 .. Len(backlog[g]) :
                         backlog[f][i] = backlog[g][j] => f = g /\ i = j
  <2>0. Apart
    BY DEF SockInv, HolderInv
  <2>1. ASSUME NEW f \in DOMAIN sockets, NEW g \in DOMAIN sockets
        PROVE  /\ sockets'[f].stream # 0 => sockets'[f].stream # sockets'[g].pending
               /\ f # g /\ sockets'[f].stream # 0 => sockets'[f].stream # sockets'[g].stream
    BY <1>3, <1>5, <1>9 DEF SockInv, HolderInv
  <2>2. ASSUME NEW f \in DOMAIN sockets, NEW g \in DOMAIN sockets, f # g, sockets'[f].pending # 0
        PROVE  sockets'[f].pending # sockets'[g].pending
    BY <1>3, <1>5, <1>9, <2>2 DEF SockInv, HolderInv
  <2>3. ASSUME NEW f \in DOMAIN sockets, NEW g \in 1 .. MaxFds, NEW i \in 1 .. Len(backlog'[g])
        PROVE  backlog'[g][i] # sockets'[f].stream /\ backlog'[g][i] # sockets'[f].pending
    <3> DEFINE j == IF took(g) THEN i + 1 ELSE i
    <3>1. j \in 1 .. Len(backlog[g]) /\ backlog'[g][i] = backlog[g][j] /\ (took(g) => j # 1)
      BY <1>12
    <3> HIDE DEF j
    <3>2. backlog[g][j] # sockets[f].stream /\ backlog[g][j] # sockets[f].pending
      BY <3>1 DEF SockInv, HolderInv
    <3>3. ASSUME took(f) PROVE backlog[g][j] # backlog[f][1]
      <4>1. f \in 1 .. MaxFds /\ 1 \in 1 .. Len(backlog[f])
        BY <1>3, <1>5, <3>3
      <4>2. backlog[g][j] = backlog[f][1] => g = f /\ j = 1
        BY <2>0, <3>1, <4>1
      <4> QED BY <3>1, <3>3, <4>2
    <3> QED BY <1>9, <3>1, <3>2, <3>3
  <2>4. ASSUME NEW f \in 1 .. MaxFds, NEW g \in 1 .. MaxFds,
               NEW i \in 1 .. Len(backlog'[f]), NEW j \in 1 .. Len(backlog'[g]),
               backlog'[f][i] = backlog'[g][j]
        PROVE  f = g /\ i = j
    <3> DEFINE a == IF took(f) THEN i + 1 ELSE i
               b == IF took(g) THEN j + 1 ELSE j
    <3>1. /\ a \in 1 .. Len(backlog[f]) /\ backlog'[f][i] = backlog[f][a]
          /\ b \in 1 .. Len(backlog[g]) /\ backlog'[g][j] = backlog[g][b]
      BY <1>12
    <3> HIDE DEF a, b
    <3>2. f = g /\ a = b
      <4>1. backlog[f][a] = backlog[g][b]
        BY <2>4, <3>1
      <4> QED BY <2>0, <3>1, <4>1
    <3> QED BY <3>2 DEF a, b
  <2> QED BY <1>7, <2>1, <2>2, <2>3, <2>4 DEF HolderInv
<1>15. ToldInv'
  <2> SUFFICES ASSUME NEW k \in told'
               PROVE  /\ k \in DOMAIN sockets
                      /\ \/ sockets'[k].pending # 0
                         \/ sockets'[k].stream # 0 /\ StreamReadable(sockets[k].stream)
                         \/ datagrams[k] > 0
    <3>1. \A k \in DOMAIN sockets : StreamReadable(sockets[k].stream)' <=> StreamReadable(sockets[k].stream)
      BY <1>2, <1>7, <1>9 DEF StreamReadable
    <3> QED BY <1>2, <1>7, <3>1 DEF ToldInv
  <2>1. CASE k \in told
    <3>1. /\ k \in DOMAIN sockets
          /\ \/ sockets[k].pending # 0
             \/ sockets[k].stream # 0 /\ StreamReadable(sockets[k].stream)
             \/ datagrams[k] > 0
      BY <2>1 DEF SockInv, ToldInv
    <3> QED BY <1>3, <1>5, <1>9, <3>1
  <2>2. CASE k \in reads /\ ReadReady(k)
    <3>1. k \in DOMAIN sockets
      BY <1>6, <2>2
    <3>2. CASE Comes(k)
      <4>1. took(k)
        BY <2>2, <3>2 DEF took
      <4> QED BY <1>3, <1>5, <1>9, <3>1, <4>1
    <3>3. CASE ~Comes(k)
      BY <1>9, <2>2, <3>1, <3>3 DEF ReadReady, noConn
    <3> QED BY <3>2, <3>3
  <2> QED BY <1>1, <2>1, <2>2
<1> QED BY <1>4, <1>10, <1>11, <1>13, <1>14, <1>15 DEF SockInv

\* The property follows.
LEMMA SocketsAreReady == SockInv => ReadinessHolds
<1> SUFFICES ASSUME SockInv PROVE ReadinessHolds
  OBVIOUS
<1> DEFINE held == {<<fd, "pending">> : fd \in {k \in DOMAIN sockets : sockets[k].pending # noConn}}
                     \cup {<<fd, "stream">> : fd \in {k \in DOMAIN sockets : sockets[k].stream # noConn}}
           of(h) == IF h[2] = "pending" THEN sockets[h[1]].pending ELSE sockets[h[1]].stream
<1>1. ASSUME NEW h \in held
      PROVE  \E k \in DOMAIN sockets :
                \/ h = <<k, "pending">> /\ sockets[k].pending # 0 /\ of(h) = sockets[k].pending
                \/ h = <<k, "stream">> /\ sockets[k].stream # 0 /\ of(h) = sockets[k].stream
  BY DEF noConn
<1> HIDE DEF held, of
<1>2. ASSUME NEW h \in held, NEW g \in held, h # g PROVE of(h) # of(g)
  BY <1>1, <1>2 DEF SockInv, HolderInv
<1>3. ASSUME NEW fd \in DOMAIN sockets, NEW h \in held PROVE of(h) \notin Range(backlog[fd])
  <2>1. fd \in 1 .. MaxFds
    BY SocketNumbers DEF SockInv
  <2>2. DOMAIN backlog[fd] = 1 .. Len(backlog[fd])
    BY <2>1, LenProperties DEF SockInv, NetInv
  <2>3. \A i \in DOMAIN backlog[fd] : backlog[fd][i] # of(h)
    BY <1>1, <2>1, <2>2 DEF SockInv, HolderInv
  <2> QED BY <2>3 DEF Range
<1>4. /\ ~sockPanic
      /\ \A fd \in told : \/ sockets[fd].pending # noConn
                          \/ sockets[fd].stream # noConn /\ StreamReadable(sockets[fd].stream)
                          \/ datagrams[fd] > 0
      /\ DOMAIN sockets = {fd \in DOMAIN slots : slots[fd] = "socket"}
  BY DEF SockInv, SlotsInv, ToldInv, noConn
<1> QED BY <1>2, <1>3, <1>4 DEF ReadinessHolds, held, of

\* select, accept, recvfrom, close_socket: what select has said holds until the
\* guest uses it, no call has to wait or meets what is not implemented (but on what
\* the network has reset, see lost), descriptors and
\* sockets agree and every connection has one holder.
THEOREM ReadyWhenTold ==
  ASSUME {"asks", "accepts", "polls", "broadcast"} \subseteq SockCareful
  PROVE  SocketsSpec => []ReadinessHolds
<1>1. SocketsInit => SockInv
  <2> SUFFICES ASSUME SocketsInit PROVE SockInv
    OBVIOUS
  <2>1. /\ slots = <<>> /\ sockets = <<>> /\ conns = <<>> /\ ~sockPanic /\ told = {}
        /\ backlog = [fd \in 1 .. MaxFds |-> <<>>] /\ datagrams = [fd \in 1 .. MaxFds |-> 0]
    BY DEF SocketsInit
  <2>2. /\ DOMAIN slots = {} /\ DOMAIN sockets = {} /\ Len(slots) = 0
        /\ \A S : <<>> \in Seq(S) /\ Len(<<>>) = 0
    BY <2>1, EmptySeq, LenProperties
  <2>3. SlotsInv
    BY <2>1, <2>2, SocketsAssumption DEF SlotsInv
  <2>4. \A fd \in 1 .. MaxFds : backlog[fd] = <<>> /\ datagrams[fd] = 0 /\ 1 .. Len(backlog[fd]) = {}
    BY <2>1, <2>2
  <2>5. backlog \in [1 .. MaxFds -> Seq(Nat)] /\ datagrams \in [1 .. MaxFds -> Nat]
    BY <2>1, <2>2
  <2>6. NetInv
    BY <2>1, <2>2, <2>4, <2>5 DEF NetInv
  <2>7. HolderInv
    BY <2>2, <2>4 DEF HolderInv
  <2>8. ObjectsInv /\ ToldInv
    BY <2>1, <2>2 DEF ObjectsInv, ToldInv
  <2> QED BY <2>1, <2>3, <2>6, <2>7, <2>8 DEF SockInv
<1>2. SockInv /\ [SocketsNext]_sockVars => SockInv'
  <2> SUFFICES ASSUME SockInv, [SocketsNext]_sockVars PROVE SockInv'
    OBVIOUS
  <2>1. AllCare
    BY DEF AllCare
  <2>2. CASE Socket \/ OpenFile \/ Close \/ SetSockOpt \/ Bind \/ Connect \/ SendTo
    BY <2>1, <2>2, SocketKeeps, OpenFileKeeps, CloseKeeps, SetSockOptKeeps, BindKeeps, ConnectKeeps,
       SendToKeeps
  <2>3. CASE Arrives \/ PeerSends \/ PeerEnds \/ Datagram
    BY <2>3, ArrivesKeeps, PeerSendsKeeps, PeerEndsKeeps, DatagramKeeps
  <2>4. CASE Select \/ Accept \/ RecvFrom
    BY <2>1, <2>4, SelectKeeps, AcceptKeeps, RecvFromKeeps
  <2>6. CASE Send
    BY <2>6 DEF Send, SockInv, SlotsInv, ObjectsInv, NetInv, HolderInv, ToldInv, StreamReadable
  <2>5. CASE UNCHANGED sockVars
    BY <2>5 DEF sockVars, SockInv, SlotsInv, ObjectsInv, NetInv, HolderInv, ToldInv, StreamReadable
  <2> QED BY <2>2, <2>3, <2>4, <2>5, <2>6 DEF SocketsNext
<1> QED BY <1>1, <1>2, SocketsAreReady, PTL DEF SocketsSpec
-----------------------------------------------------------------------------
(* Calls between guest and host code                                       *)

AbiWords == {"junk", "arg", "value", "address", "returned", "fp", "lr"} \X Int \X Int
Kept == {<<>>} \cup (Int \X Int \X Int)
CallFrames ==
    [who : {"guest", "host"}, passed : Seq(AbiWords), got : Seq(AbiWords), fixed : Int, sp0 : Int,
     ret : Int, keep : Kept]

AbiTypeOK ==
    /\ r \in [0 .. 3 -> AbiWords] /\ stack \in [0 .. Top - 1 -> AbiWords]
    /\ frames \in Seq(CallFrames) /\ frames # <<>>
    /\ sp \in Int /\ lr \in Int /\ fp \in Int /\ count \in Int

\* What a function has read it need not find in registers any more.
HasRead(f) == Len(f.got) = Len(f.passed) \/ Len(f.got) >= 4

\* The stack arguments of a call, and before them the room for what it returns,
\* are below those of all calls that wait for it, and the stack pointer is at
\* the innermost; a call that returns a large value has none on the stack.
LaidOut(k) ==
    /\ frames[k].sp0 >= 0 /\ frames[k].sp0 + Extended(Len(frames[k].passed)) <= Top
    /\ frames[k].ret >= 0 => Len(frames[k].passed) <= 4
    /\ k > 1 => frames[k].keep \in Int \X Int \X Int /\ frames[k].keep[1] = frames[k - 1].sp0
    /\ \A j \in 1 .. k - 1 :
          /\ frames[k].sp0 + Extended(Len(frames[k].passed)) <= frames[j].sp0
          /\ frames[k].ret >= 0 => frames[k].ret + RetWords <= frames[j].sp0
LayoutInv == sp = frames[Len(frames)].sp0 /\ \A k \in 1 .. Len(frames) : LaidOut(k)

\* A function has what its caller passed, and the stack what is past the fourth
\* word of that; those that wait need the registers no more; and what the
\* running one has not read yet is in them.
HasPassed(k) ==
    /\ Leads(frames[k].got, frames[k].passed)
    /\ \A i \in 1 .. Len(frames[k].passed) : i > 4 => stack[frames[k].sp0 + i - 5] = frames[k].passed[i]
InRegisters(f) == \A i \in 1 .. Len(f.passed) : i <= 4 /\ i > Len(f.got) => r[i - 1] = f.passed[i]
PassedInv ==
    /\ \A k \in 1 .. Len(frames) : HasPassed(k)
    /\ \A k \in 1 .. Len(frames) - 1 : HasRead(frames[k])
    /\ InRegisters(frames[Len(frames)])

AbiInv == AbiTypeOK /\ LayoutInv /\ PassedInv

\* The running function is the innermost, and its sequences have lengths.
LEMMA TopFrame ==
  ASSUME AbiInv
  PROVE  /\ Len(frames) \in Nat \ {0} /\ DOMAIN frames = 1 .. Len(frames) /\ top = frames[Len(frames)]
         /\ \A k \in 1 .. Len(frames) :
               /\ frames[k] \in CallFrames
               /\ frames[k].sp0 \in Int /\ frames[k].ret \in Int
               /\ frames[k].got \in Seq(AbiWords) /\ frames[k].passed \in Seq(AbiWords)
               /\ Len(frames[k].got) \in Nat /\ Len(frames[k].passed) \in Nat
<1>1. /\ Len(frames) \in Nat \ {0} /\ DOMAIN frames = 1 .. Len(frames) /\ top = frames[Len(frames)]
  BY FrontLast DEF AbiInv, AbiTypeOK, top
<1>2. \A k \in 1 .. Len(frames) : frames[k] \in CallFrames
  BY <1>1, ElementOfSeq DEF AbiInv, AbiTypeOK
<1>3. ASSUME NEW k \in 1 .. Len(frames)
      PROVE  /\ frames[k].sp0 \in Int /\ frames[k].ret \in Int
             /\ frames[k].got \in Seq(AbiWords) /\ frames[k].passed \in Seq(AbiWords)
  BY <1>2, <1>3 DEF CallFrames
<1>4. \A k \in 1 .. Len(frames) : Len(frames[k].got) \in Nat /\ Len(frames[k].passed) \in Nat
  BY <1>3, LenProperties
<1> QED BY <1>1, <1>2, <1>3, <1>4

\* The numbers of a call's layout.
LEMMA FrameLayout ==
  ASSUME AbiInv, NEW k \in 1 .. Len(frames)
  PROVE  /\ LaidOut(k) /\ HasPassed(k) /\ sp \in Int /\ sp <= frames[k].sp0 /\ Top \in Nat
         /\ Extended(Len(frames[k].passed)) \in Nat
         /\ Len(frames[k].passed) > 4 => Extended(Len(frames[k].passed)) = Len(frames[k].passed) - 4
         /\ \A i \in 1 .. Len(frames[k].passed) :
               i > 4 => /\ frames[k].sp0 + i - 5 \in 0 .. Top - 1 /\ frames[k].sp0 + i - 5 >= sp
                        /\ stack[frames[k].sp0 + i - 5] = frames[k].passed[i]
<1> DEFINE n == Len(frames)
           words == Len(frames[k].passed)
           low == frames[k].sp0
<1>1. /\ n \in Nat \ {0} /\ words \in Nat /\ low \in Int /\ Top \in Nat
      /\ Len(frames[n].passed) \in Nat /\ frames[n].sp0 \in Int /\ n \in 1 .. n
  BY TopFrame, AbiAssumption
<1>2. LaidOut(k) /\ LaidOut(n) /\ HasPassed(k) /\ sp = frames[n].sp0
  BY <1>1 DEF AbiInv, LayoutInv, PassedInv
<1>3. /\ Extended(words) \in Nat /\ (words > 4 => Extended(words) = words - 4)
      /\ Extended(Len(frames[n].passed)) \in Nat
  BY <1>1 DEF Extended
<1>4. sp <= low
  <2>1. CASE k = n
    BY <2>1, <1>1, <1>2
  <2>2. CASE k # n
    <3>1. k \in 1 .. n - 1
      BY <2>2, <1>1
    <3>2. frames[n].sp0 + Extended(Len(frames[n].passed)) <= low
      BY <3>1, <1>2 DEF LaidOut
    <3> QED BY <3>2, <1>1, <1>2, <1>3
  <2> QED BY <2>1, <2>2
<1>5. low >= 0 /\ low + Extended(words) <= Top
  BY <1>2 DEF LaidOut
<1>6. \A i \in 1 .. words : i > 4 => stack[low + i - 5] = frames[k].passed[i]
  BY <1>2 DEF HasPassed
<1> HIDE DEF n, words, low
<1>7. \A i \in 1 .. words : i > 4 => low + i - 5 \in 0 .. Top - 1 /\ low + i - 5 >= sp
  <2>1. sp \in Int
    BY <1>1, <1>2
  <2>2. SUFFICES ASSUME NEW i \in 1 .. words, i > 4
                 PROVE  low + i - 5 \in 0 .. Top - 1 /\ low + i - 5 >= sp
    OBVIOUS
  <2>3. i \in Int /\ i <= words /\ words > 4 /\ low + words - 4 <= Top
    BY <1>1, <1>3, <1>5, <2>2
  <2> QED BY <1>1, <1>4, <1>5, <2>1, <2>2, <2>3
<1> QED BY <1>1, <1>2, <1>3, <1>4, <1>6, <1>7 DEF n, words, low

\* A call begins: its arguments and the room for its result are below the stack
\* pointer, and nothing from there on is written.
Untouched == \A a \in 0 .. Top - 1 : a >= sp => stack'[a] = stack[a]
Delivered(f) ==
    \A i \in 1 .. Len(f.passed) : /\ i <= 4 => r'[i - 1] = f.passed[i]
                                  /\ i > 4 => stack'[f.sp0 + i - 5] = f.passed[i]
Placed(f) ==
    /\ f.sp0 >= 0 /\ f.sp0 + Extended(Len(f.passed)) <= sp
    /\ f.ret >= 0 => Len(f.passed) <= 4 /\ f.ret + RetWords <= sp
Begins(f) ==
    /\ f.got = <<>> /\ f.keep \in Int \X Int \X Int /\ f.keep[1] = sp
    /\ frames' = Append(frames, f) /\ sp' = f.sp0 /\ lr' \in Int /\ fp' \in Int /\ count' \in Int
    /\ r' \in [0 .. 3 -> AbiWords] /\ stack' \in [0 .. Top - 1 -> AbiWords]
    /\ Placed(f) /\ Untouched /\ Delivered(f)

\* Then nothing of another call is disturbed, and the new one finds what it was
\* passed.
LEMMA NewCall ==
  ASSUME AbiInv, HasRead(top), NEW f \in CallFrames, Begins(f)
  PROVE  AbiInv'
<1>0. PICK n : n = Len(frames)
  OBVIOUS
<1>1. /\ n \in Nat \ {0} /\ top = frames[n] /\ n \in 1 .. n /\ sp = frames[n].sp0
      /\ \A k \in 1 .. n : /\ frames[k].sp0 \in Int /\ sp <= frames[k].sp0
                           /\ frames[k].sp0 + Extended(Len(frames[k].passed)) <= Top
                           /\ Extended(Len(frames[k].passed)) \in Nat
      /\ sp \in Int /\ Top \in Nat
  <2>1. /\ n \in Nat \ {0} /\ top = frames[n] /\ n \in 1 .. n /\ \A k \in 1 .. n : frames[k].sp0 \in Int
    BY <1>0, TopFrame
  <2>2. ASSUME NEW k \in 1 .. n
        PROVE  /\ sp <= frames[k].sp0 /\ frames[k].sp0 + Extended(Len(frames[k].passed)) <= Top
               /\ Extended(Len(frames[k].passed)) \in Nat /\ sp \in Int /\ Top \in Nat
    <3>1. LaidOut(k)
      BY <1>0, FrameLayout
    <3> QED BY <3>1, <1>0, FrameLayout DEF LaidOut
  <2>3. sp = frames[n].sp0
    BY <1>0 DEF AbiInv, LayoutInv
  <2> QED BY <2>1, <2>2, <2>3
<1>2. /\ frames' \in Seq(CallFrames) /\ frames' # <<>> /\ Len(frames') = n + 1 /\ frames'[n + 1] = f
      /\ \A k \in 1 .. n : frames'[k] = frames[k]
  BY <1>0, Pushed DEF AbiInv, AbiTypeOK, Begins
<1>3. /\ f.sp0 \in Int /\ f.ret \in Int /\ f.passed \in Seq(AbiWords) /\ Len(f.passed) \in Nat
      /\ Len(f.got) = 0 /\ Extended(Len(f.passed)) \in Nat
  <2>1. f.sp0 \in Int /\ f.ret \in Int /\ f.passed \in Seq(AbiWords)
    BY DEF CallFrames
  <2>2. Len(f.passed) \in Nat /\ Len(f.got) = 0
    <3>1. f.got = <<>>
      BY DEF Begins
    <3> QED BY <3>1, <2>1, EmptySeq, LenProperties
  <2> QED BY <2>1, <2>2 DEF Extended
<1>4. /\ \A k \in 1 .. n + 1 : k \in 1 .. n \/ k = n + 1
      /\ n + 1 - 1 = n /\ \A k \in 1 .. n : \A j \in 1 .. k - 1 : j \in 1 .. n
  BY <1>1
<1>5. \A k \in 1 .. n : LaidOut(k) /\ HasPassed(k) /\ HasRead(frames[k])
  <2> SUFFICES ASSUME NEW k \in 1 .. n PROVE LaidOut(k) /\ HasPassed(k) /\ HasRead(frames[k])
    OBVIOUS
  <2>1. CASE k = n
    BY <2>1, <1>0, <1>1, FrameLayout
  <2>2. CASE k # n
    <3>1. k \in 1 .. n - 1
      BY <2>2, <1>1
    <3> QED BY <3>1, <1>0, FrameLayout DEF AbiInv, PassedInv
  <2> QED BY <2>1, <2>2
<1>6. \A k \in 1 .. n : \A i \in 1 .. Len(frames[k].passed) : i > 4 =>
        /\ frames[k].sp0 + i - 5 \in 0 .. Top - 1 /\ frames[k].sp0 + i - 5 >= sp
        /\ stack[frames[k].sp0 + i - 5] = frames[k].passed[i]
  BY <1>0, FrameLayout
<1>7. AbiTypeOK'
  BY <1>2, <1>3 DEF AbiTypeOK, Begins
<1>8. \A k \in 1 .. n : LaidOut(k)'
  <2> SUFFICES ASSUME NEW k \in 1 .. n PROVE LaidOut(k)'
    OBVIOUS
  <2>1. LaidOut(k) /\ frames'[k] = frames[k] /\ (k > 1 => k - 1 \in 1 .. n)
    BY <1>1, <1>2, <1>5
  <2>2. k > 1 => frames'[k - 1] = frames[k - 1]
    BY <2>1, <1>2
  <2>3. \A j \in 1 .. k - 1 : frames'[j] = frames[j]
    BY <1>2, <1>4
  <2> QED BY <2>1, <2>2, <2>3 DEF LaidOut
<1>9. LaidOut(n + 1)'
  <2>1. \A j \in 1 .. n : /\ f.sp0 + Extended(Len(f.passed)) <= frames'[j].sp0
                          /\ f.ret >= 0 => f.ret + RetWords <= frames'[j].sp0
    <3> TAKE j \in 1 .. n
    <3>1. frames'[j].sp0 \in Int /\ sp <= frames'[j].sp0
      BY <1>1, <1>2
    <3>2. RetWords \in Int
      BY DEF RetWords
    <3>3. f.sp0 + Extended(Len(f.passed)) \in Int /\ f.ret + RetWords \in Int
      BY <3>2, <1>3
    <3>4. f.sp0 + Extended(Len(f.passed)) <= sp /\ (f.ret >= 0 => f.ret + RetWords <= sp)
      BY DEF Begins, Placed
    <3> QED BY <3>1, <3>3, <3>4, <1>1
  <2>2. f.sp0 + Extended(Len(f.passed)) <= Top
    <3>1. sp <= Top
      BY <1>1
    <3>2. f.sp0 + Extended(Len(f.passed)) \in Int
      BY <1>3
    <3>3. f.sp0 + Extended(Len(f.passed)) <= sp
      BY DEF Begins, Placed
    <3> QED BY <3>1, <3>2, <3>3, <1>1
  <2>3. f.keep[1] = frames'[n].sp0
    BY <1>1, <1>2 DEF Begins
  <2>4. /\ f.sp0 >= 0 /\ (f.ret >= 0 => Len(f.passed) <= 4) /\ f.keep \in Int \X Int \X Int
    BY DEF Begins, Placed
  <2>5. PICK k : k = n + 1
    OBVIOUS
  <2>6. 1 .. k - 1 = 1 .. n /\ k - 1 = n /\ frames'[k] = f
    BY <2>5, <1>1, <1>2
  <2>7. LaidOut(k)'
    BY <2>1, <2>2, <2>3, <2>4, <2>6 DEF LaidOut
  <2> QED BY <2>5, <2>7
<1>10. \A k \in 1 .. n : HasPassed(k)'
  <2> SUFFICES ASSUME NEW k \in 1 .. n PROVE HasPassed(k)'
    OBVIOUS
  <2>1. HasPassed(k) /\ frames'[k] = frames[k]
    BY <1>2, <1>5
  <2>2. \A i \in 1 .. Len(frames[k].passed) : i > 4 => stack'[frames[k].sp0 + i - 5] = frames[k].passed[i]
    BY <1>6 DEF Begins, Untouched
  <2> QED BY <2>1, <2>2 DEF HasPassed
<1>11. HasPassed(n + 1)' /\ InRegisters(f)'
  <2>1. Leads(f.got, f.passed)
    BY <1>3 DEF Leads
  <2>2. \A i \in 1 .. Len(f.passed) : i > 4 => stack'[f.sp0 + i - 5] = f.passed[i]
    BY DEF Begins, Delivered
  <2>3. \A i \in 1 .. Len(f.passed) : i <= 4 /\ i > Len(f.got) => r'[i - 1] = f.passed[i]
    BY DEF Begins, Delivered
  <2> QED BY <2>1, <2>2, <2>3, <1>2 DEF HasPassed, InRegisters
<1>12. LayoutInv'
  <2>1. sp' = f.sp0
    BY DEF Begins
  <2> QED BY <2>1, <1>2, <1>4, <1>8, <1>9 DEF LayoutInv
<1>13. PassedInv'
  BY <1>2, <1>4, <1>5, <1>10, <1>11 DEF PassedInv
<1> QED BY <1>7, <1>12, <1>13 DEF AbiInv

\* HostReads and GuestReads, of the running function.
ReadsNext ==
    /\ Len(top.got) < Len(top.passed)
    /\ frames' = [frames EXCEPT ![Len(frames)].got = Append(@, ReadArg(Len(top.got), top.sp0))]
    /\ UNCHANGED <<r, sp, lr, fp, stack, count>>

\* The running function reads the next of its arguments: the one it was passed.
LEMMA ReadKeeps ==
  ASSUME AbiInv, ReadsNext
  PROVE  AbiInv'
<1>0. PICK n, off, word, f :
        /\ n = Len(frames) /\ off = Len(top.got) /\ word = ReadArg(off, top.sp0)
        /\ f = [frames[n] EXCEPT !.got = Append(frames[n].got, word)]
  OBVIOUS
<1>1. /\ n \in Nat \ {0} /\ top = frames[n] /\ top \in CallFrames /\ n \in 1 .. n
      /\ top.got \in Seq(AbiWords) /\ top.passed \in Seq(AbiWords)
      /\ off \in Nat /\ Len(top.passed) \in Nat /\ top.sp0 \in Int
  BY <1>0, TopFrame
<1>2. off + 1 \in 1 .. Len(top.passed) /\ top.passed[off + 1] \in AbiWords
  BY <1>0, <1>1, ElementOfSeq DEF ReadsNext
<1>3. HasPassed(n) /\ InRegisters(top)
  BY <1>0, <1>1 DEF AbiInv, PassedInv
<1>4. word = top.passed[off + 1]
  <2>1. CASE off < 4
    <3>1. off + 1 <= 4 /\ off + 1 > off /\ off + 1 - 1 = off
      BY <2>1, <1>1
    <3>2. r[off + 1 - 1] = top.passed[off + 1]
      BY <3>1, <1>0, <1>2, <1>3 DEF InRegisters
    <3> QED BY <3>1, <3>2, <2>1, <1>0 DEF ReadArg
  <2>2. CASE ~(off < 4)
    <3>1. off + 1 > 4 /\ top.sp0 + (off + 1) - 5 = top.sp0 + off - 4
      BY <2>2, <1>1
    <3>2. stack[top.sp0 + (off + 1) - 5] = top.passed[off + 1]
      BY <3>1, <1>1, <1>2, <1>3 DEF HasPassed
    <3> QED BY <3>1, <3>2, <2>2, <1>0 DEF ReadArg
  <2> QED BY <2>1, <2>2
<1>5. \A k \in 1 .. n - 1 : HasRead(frames[k])
  BY <1>0 DEF AbiInv, PassedInv
<1>6. frames' = [frames EXCEPT ![n] = f] /\ UNCHANGED <<r, sp, lr, fp, stack, count>>
  BY <1>0 DEF ReadsNext
<1>7. /\ Append(top.got, word) \in Seq(AbiWords) /\ Len(Append(top.got, word)) = off + 1
      /\ Append(top.got, word)[off + 1] = word
      /\ \A i \in 1 .. off : Append(top.got, word)[i] = top.got[i]
  BY <1>1, <1>2, <1>4, AppendProperties, <1>0
<1>8. /\ f \in CallFrames /\ f.got = Append(top.got, word) /\ f.passed = top.passed /\ f.sp0 = top.sp0
      /\ f.ret = top.ret /\ f.keep = top.keep
  BY <1>0, <1>1, <1>7 DEF CallFrames
<1>9. /\ frames' \in Seq(CallFrames) /\ frames' # <<>> /\ Len(frames') = n /\ frames'[n] = f
      /\ \A k \in 1 .. n - 1 : frames'[k] = frames[k]
  <2>1. frames \in Seq(CallFrames) /\ frames # <<>>
    BY DEF AbiInv, AbiTypeOK
  <2>2. frames' = [frames EXCEPT ![Len(frames)] = f] /\ n = Len(frames) /\ f \in CallFrames
    BY <1>0, <1>6, <1>8
  <2> QED BY <2>1, <2>2, TopReplaced
<1>10. /\ \A k \in 1 .. n : k = n \/ k \in 1 .. n - 1
       /\ \A k \in 1 .. n : (k > 1 => k - 1 \in 1 .. n) /\ \A j \in 1 .. k - 1 : j \in 1 .. n
  BY <1>1
<1>11. \A k \in 1 .. n : LaidOut(k) /\ HasPassed(k)
  BY <1>0, FrameLayout
<1>12. \A k \in 1 .. n : /\ frames'[k].passed = frames[k].passed /\ frames'[k].sp0 = frames[k].sp0
                         /\ frames'[k].ret = frames[k].ret /\ frames'[k].keep = frames[k].keep
  BY <1>1, <1>8, <1>9, <1>10
<1>13. AbiTypeOK'
  BY <1>6, <1>9 DEF AbiInv, AbiTypeOK
<1>14. LayoutInv'
  <2>1. \A k \in 1 .. n : LaidOut(k)'
    <3> SUFFICES ASSUME NEW k \in 1 .. n PROVE LaidOut(k)'
      OBVIOUS
    <3>1. /\ LaidOut(k) /\ \A j \in 1 .. k - 1 : frames'[j].sp0 = frames[j].sp0
          /\ k > 1 => frames'[k - 1].sp0 = frames[k - 1].sp0
      BY <1>10, <1>11, <1>12
    <3> QED BY <3>1, <1>12 DEF LaidOut
  <2>2. sp' = frames'[n].sp0
    BY <1>0, <1>1, <1>6, <1>12 DEF AbiInv, LayoutInv
  <2> QED BY <2>1, <2>2, <1>9 DEF LayoutInv
<1>15. Leads(f.got, f.passed)
  <2>1. Leads(top.got, top.passed)
    BY <1>1, <1>3 DEF HasPassed
  <2>2. \A i \in 1 .. off + 1 : i \in 1 .. off \/ i = off + 1
    BY <1>1
  <2> QED BY <2>1, <2>2, <1>1, <1>2, <1>0, <1>4, <1>7, <1>8 DEF Leads
<1>16. \A k \in 1 .. n : HasPassed(k)'
  <2> SUFFICES ASSUME NEW k \in 1 .. n PROVE HasPassed(k)'
    OBVIOUS
  <2>1. Leads(frames'[k].got, frames'[k].passed)
    BY <1>9, <1>10, <1>11, <1>15 DEF HasPassed
  <2> QED BY <2>1, <1>6, <1>11, <1>12 DEF HasPassed
<1>17. InRegisters(f)'
  <2>1. \A i \in 1 .. Len(f.passed) : i > Len(f.got) => i > Len(top.got)
    BY <1>0, <1>1, <1>7, <1>8
  <2> QED BY <2>1, <1>3, <1>6, <1>8 DEF InRegisters
<1>18. PassedInv'
  BY <1>5, <1>9, <1>16, <1>17 DEF PassedInv
<1> QED BY <1>13, <1>14, <1>18 DEF AbiInv

\* The running function returns to one that has read what registers held, and
\* the stack pointer with it.
LEMMA ReturnKeeps ==
  ASSUME AbiInv, Len(frames) > 1, frames' = Front(frames), sp' = top.keep[1], lr' \in Int, fp' \in Int,
         r' \in [0 .. 3 -> AbiWords], UNCHANGED <<stack, count>>
  PROVE  AbiInv'
<1>0. PICK n : n = Len(frames)
  OBVIOUS
<1>1. /\ n \in Nat \ {0} /\ top = frames[n] /\ n \in 1 .. n
      /\ \A k \in 1 .. n : /\ frames[k].sp0 \in Int /\ Len(frames[k].got) \in Nat
                           /\ Len(frames[k].passed) \in Nat
  BY <1>0, TopFrame
<1>2. /\ frames' \in Seq(CallFrames) /\ Len(frames') = n - 1
      /\ \A k \in 1 .. n - 1 : frames'[k] = frames[k]
  BY <1>0, FrontLast DEF AbiInv, AbiTypeOK
<1>3. frames' # <<>>
  <2>1. Len(frames') # 0
    BY <1>0, <1>1, <1>2
  <2> QED BY <2>1, EmptySeq
<1>4. \A k \in 1 .. n : LaidOut(k) /\ HasPassed(k)
  BY <1>0, FrameLayout
<1>5. sp' = frames[n - 1].sp0
  BY <1>0, <1>1, <1>4 DEF LaidOut
<1>6. \A k \in 1 .. n - 1 : HasRead(frames[k])
  BY <1>0 DEF AbiInv, PassedInv
<1>7. /\ n > 1 /\ n - 1 \in 1 .. n - 1 /\ \A k \in 1 .. n - 1 : k \in 1 .. n
      /\ \A k \in 1 .. n - 1 : (k > 1 => k - 1 \in 1 .. n - 1) /\ \A j \in 1 .. k - 1 : j \in 1 .. n - 1
      /\ \A k \in 1 .. n - 1 - 1 : k \in 1 .. n - 1
  BY <1>0, <1>1
<1>8. AbiTypeOK'
  <2>1. sp' \in Int
    BY <1>1, <1>5, <1>7
  <2> QED BY <2>1, <1>2, <1>3 DEF AbiInv, AbiTypeOK
<1>9. LayoutInv'
  <2>1. \A k \in 1 .. n - 1 : LaidOut(k)'
    <3> SUFFICES ASSUME NEW k \in 1 .. n - 1 PROVE LaidOut(k)'
      OBVIOUS
    <3>1. /\ LaidOut(k) /\ frames'[k] = frames[k] /\ \A j \in 1 .. k - 1 : frames'[j] = frames[j]
          /\ k > 1 => frames'[k - 1] = frames[k - 1]
      BY <1>2, <1>4, <1>7
    <3> QED BY <3>1 DEF LaidOut
  <2> QED BY <2>1, <1>2, <1>5, <1>7 DEF LayoutInv
<1>10. \A k \in 1 .. n - 1 : HasPassed(k)' /\ HasRead(frames'[k])
  <2> SUFFICES ASSUME NEW k \in 1 .. n - 1 PROVE HasPassed(k)' /\ HasRead(frames'[k])
    OBVIOUS
  <2>1. HasPassed(k) /\ frames'[k] = frames[k]
    BY <1>2, <1>4, <1>7
  <2> QED BY <2>1, <1>6 DEF HasPassed
<1>11. InRegisters(frames[n - 1])'
  <2>1. frames'[n - 1] = frames[n - 1] /\ HasRead(frames[n - 1])
    BY <1>2, <1>6, <1>7
  <2>2. Len(frames[n - 1].got) \in Nat /\ Len(frames[n - 1].passed) \in Nat
    BY <1>1, <1>7
  <2>3. \A i \in 1 .. Len(frames[n - 1].passed) : ~(i <= 4 /\ i > Len(frames[n - 1].got))
    BY <2>1, <2>2 DEF HasRead
  <2> QED BY <2>1, <2>3 DEF InRegisters
<1>12. PassedInv'
  BY <1>2, <1>7, <1>10, <1>11 DEF PassedInv
<1> QED BY <1>8, <1>9, <1>12 DEF AbiInv

\* What is returned is written where no arguments are.
LEMMA WriteKeeps ==
  ASSUME AbiInv, GuestWritesReturn
  PROVE  AbiInv'
<1>0. PICK n, room : n = Len(frames) /\ room = top.ret .. top.ret + RetWords - 1
  OBVIOUS
<1>1. /\ n \in Nat \ {0} /\ top = frames[n] /\ n \in 1 .. n
      /\ \A k \in 1 .. n : /\ frames[k].sp0 \in Int /\ frames[k].ret \in Int /\ Len(frames[k].passed) \in Nat
  BY <1>0, TopFrame
<1>2. DOMAIN stack = 0 .. Top - 1 /\ stack \in [0 .. Top - 1 -> AbiWords] /\ <<"returned", top.ret, 0>> \in AbiWords
  BY <1>0, <1>1 DEF AbiInv, AbiTypeOK, AbiWords
<1>3. /\ stack' = [a \in 0 .. Top - 1 |-> IF a \in room THEN <<"returned", top.ret, 0>> ELSE stack[a]]
      /\ top.ret >= 0 /\ UNCHANGED <<r, sp, lr, fp, frames, count>>
  BY <1>0, <1>2 DEF GuestWritesReturn
<1>4. stack' \in [0 .. Top - 1 -> AbiWords]
  BY <1>2, <1>3
<1>5. \A k \in 1 .. n : LaidOut(k) /\ HasPassed(k)
  BY <1>0, FrameLayout
<1>6. \A k \in 1 .. n : \A i \in 1 .. Len(frames[k].passed) : i > 4 =>
        /\ frames[k].sp0 + i - 5 \in 0 .. Top - 1
        /\ stack[frames[k].sp0 + i - 5] = frames[k].passed[i]
  BY <1>0, FrameLayout
<1>7. \A k \in 1 .. n : HasPassed(k)'
  <2> SUFFICES ASSUME NEW k \in 1 .. n, NEW i \in 1 .. Len(frames[k].passed), i > 4
               PROVE  stack'[frames[k].sp0 + i - 5] = frames[k].passed[i]
    BY <1>3, <1>5 DEF HasPassed
  <2>1. k # n
    BY <1>1, <1>3, <1>5 DEF LaidOut
  <2>2. top.ret + RetWords <= frames[k].sp0
    <3>1. k \in 1 .. n - 1
      BY <2>1, <1>1
    <3> QED BY <3>1, <1>1, <1>3, <1>5 DEF LaidOut
  <2>3. PICK p : p = frames[k].sp0 + i - 5
    OBVIOUS
  <2>4. p \in 0 .. Top - 1 /\ stack[p] = frames[k].passed[i]
    BY <2>3, <1>6
  <2>5. p \notin room
    <3>1. frames[k].sp0 \in Int /\ top.ret \in Int
      BY <1>1
    <3>2. top.ret + 1 < p
      BY <2>2, <2>3, <3>1 DEF RetWords
    <3> QED BY <1>0, <3>1, <3>2 DEF RetWords
  <2>6. stack'[p] = stack[p]
    BY <1>3, <2>4, <2>5
  <2> QED BY <2>3, <2>4, <2>6
<1>8. AbiTypeOK'
  BY <1>3, <1>4 DEF AbiInv, AbiTypeOK
<1>9. LayoutInv'
  BY <1>3 DEF AbiInv, LayoutInv, LaidOut
<1>10. PassedInv'
  BY <1>0, <1>3, <1>7 DEF AbiInv, PassedInv, InRegisters
<1> QED BY <1>8, <1>9, <1>10 DEF AbiInv

\* Words of arguments, from register off on, of which those for the stack fit
\* from low up to the stack pointer.
Fits(words, n, off, low, old, before) ==
    /\ words \in Nat /\ n \in Int /\ off \in {0, 1} /\ low \in Int /\ low >= 0
    /\ old \in [0 .. 3 -> AbiWords] /\ before \in [0 .. Top - 1 -> AbiWords]
    /\ off = 1 => words <= 3
    /\ low + Extended(words) <= sp /\ sp <= Top
Put(words, n, off, low, old, before) ==
    /\ args(n, words) \in Seq(AbiWords) /\ Len(args(n, words)) = words
    /\ RegsWith(off, args(n, words), old) \in [0 .. 3 -> AbiWords]
    /\ off = 1 => RegsWith(off, args(n, words), old)[0] = old[0]
    /\ StackWith(off, args(n, words), low, before) \in [0 .. Top - 1 -> AbiWords]
    /\ \A a \in 0 .. Top - 1 : a >= sp => StackWith(off, args(n, words), low, before)[a] = before[a]
    /\ \A i \in 1 .. words :
          /\ i + off <= 4 => RegsWith(off, args(n, words), old)[i + off - 1] = args(n, words)[i]
          /\ i + off > 4 => StackWith(off, args(n, words), low, before)[low + i + off - 5] = args(n, words)[i]

\* write_next_arg puts them where they are looked for, and writes no more.
LEMMA BytesWritten ==
  ASSUME AbiInv, NEW words, NEW n, NEW off, NEW low, NEW old, NEW before,
         Fits(words, n, off, low, old, before)
  PROVE  Put(words, n, off, low, old, before)
<1>0. /\ words \in Nat /\ n \in Int /\ off \in {0, 1} /\ low \in Int /\ low >= 0
      /\ old \in [0 .. 3 -> AbiWords] /\ before \in [0 .. Top - 1 -> AbiWords]
      /\ off = 1 => words <= 3
      /\ low + Extended(words) <= sp /\ sp <= Top
  BY DEF Fits
<1> DEFINE w == args(n, words)
<1>1. /\ w \in Seq(AbiWords) /\ Len(w) = words /\ DOMAIN w = 1 .. words
      /\ \A i \in 1 .. words : w[i] \in AbiWords
  <2>1. \A i \in 1 .. words : <<"arg", n, i>> \in AbiWords
    BY <1>0 DEF AbiWords
  <2>2. w = [i \in 1 .. words |-> <<"arg", n, i>>]
    BY DEF args
  <2>3. w \in Seq(AbiWords)
    BY <1>0, <2>1, <2>2, IsASeq
  <2>4. DOMAIN w = 1 .. words /\ DOMAIN w = 1 .. Len(w) /\ Len(w) \in Nat
    BY <1>0, <2>2, <2>3, LenProperties
  <2> QED BY <1>0, <2>1, <2>2, <2>3, <2>4
<1>2. Extended(words) \in Nat /\ (words > 4 => Extended(words) = words - 4) /\ sp \in Int /\ Top \in Nat
  BY <1>0, AbiAssumption DEF Extended, AbiInv, AbiTypeOK
<1> HIDE DEF w
<1>3. RegsWith(off, w, old) = [k \in 0 .. 3 |-> IF k - off + 1 \in 1 .. words THEN w[k - off + 1] ELSE old[k]]
  BY <1>0, <1>1 DEF RegsWith
<1>4. StackWith(off, w, low, before) =
        [k \in 0 .. Top - 1 |->
           IF k >= low /\ k - low + 4 - off + 1 \in 1 .. words /\ k - low + 4 - off + 1 + off > 4
           THEN w[k - low + 4 - off + 1] ELSE before[k]]
  BY <1>0, <1>1 DEF StackWith
<1>5. RegsWith(off, w, old) \in [0 .. 3 -> AbiWords] /\ (off = 1 => RegsWith(off, w, old)[0] = old[0])
  <2>1. off = 1 => ~(0 - off + 1 \in 1 .. words)
    BY <1>0
  <2>2. \A k \in 0 .. 3 : old[k] \in AbiWords
    BY <1>0
  <2> QED BY <2>1, <2>2, <1>1, <1>3
<1>6. StackWith(off, w, low, before) \in [0 .. Top - 1 -> AbiWords]
  BY <1>0, <1>1, <1>4
<1>7. ASSUME NEW a \in 0 .. Top - 1, a >= sp PROVE StackWith(off, w, low, before)[a] = before[a]
  <2>1. ~(a >= low /\ a - low + 4 - off + 1 \in 1 .. words /\ a - low + 4 - off + 1 + off > 4)
    BY <1>0, <1>2, <1>7
  <2> QED BY <1>0, <2>1, <1>4
<1>8. ASSUME NEW i \in 1 .. words, i + off <= 4 PROVE RegsWith(off, w, old)[i + off - 1] = w[i]
  <2>1. i + off - 1 \in 0 .. 3 /\ (i + off - 1) - off + 1 = i
    BY <1>0, <1>8
  <2> QED BY <1>0, <2>1, <1>3
<1>9. ASSUME NEW i \in 1 .. words, i + off > 4 PROVE StackWith(off, w, low, before)[low + i + off - 5] = w[i]
  <2>1. off = 0
    BY <1>0, <1>9
  <2>2. /\ low + i + off - 5 \in 0 .. Top - 1 /\ low + i + off - 5 >= low
        /\ (low + i + off - 5) - low + 4 - off + 1 = i /\ (low + i + off - 5) - low + 4 - off + 1 + off > 4
    BY <1>0, <1>2, <1>9, <2>1
  <2> QED BY <1>0, <2>2, <1>4
<1> QED BY <1>0, <1>1, <1>5, <1>6, <1>7, <1>8, <1>9 DEF w, Put

\* The stack pointer is on the stack.
LEMMA SpOnStack == AbiInv => sp \in Int /\ 0 <= sp /\ sp <= Top
<1> SUFFICES ASSUME AbiInv PROVE sp \in Int /\ 0 <= sp /\ sp <= Top
  OBVIOUS
<1>0. Len(frames) \in 1 .. Len(frames)
  BY TopFrame
<1>1. PICK k \in 1 .. Len(frames) : k = Len(frames)
  BY <1>0
<1>2. /\ LaidOut(k) /\ Extended(Len(frames[k].passed)) \in Nat /\ frames[k].sp0 \in Int /\ Top \in Nat
      /\ sp = frames[k].sp0
  BY <1>1, TopFrame, FrameLayout DEF AbiInv, LayoutInv
<1> QED BY <1>2 DEF LaidOut

\* A guest function calls a host function.
LEMMA GuestCallKeeps ==
  ASSUME AbiInv, GuestCallsHost
  PROVE  AbiInv'
<1>1. PICK words \in ArgWords, fixed \in 0 .. 4, va \in BOOLEAN :
        /\ sp - Extended(words) >= 0
        /\ Len(top.got) = Len(top.passed) \/ Len(top.got) >= 4
        /\ r' = RegsWith(0, args(count + 1, words), r)
        /\ stack' = StackWith(0, args(count + 1, words), sp - Extended(words), stack)
        /\ sp' = sp - Extended(words) /\ lr' = count + 1 /\ count' = count + 1
        /\ frames' = Append(frames, frame("host", args(count + 1, words), IF va THEN fixed ELSE words,
                                          sp - Extended(words), -1, <<sp, lr, fp>>))
        /\ UNCHANGED fp
  BY Zenon DEF GuestCallsHost
<1> DEFINE a == args(count + 1, words)
           low == sp - Extended(words)
           f == frame("host", a, IF va THEN fixed ELSE words, low, -1, <<sp, lr, fp>>)
<1>2. words \in Nat /\ count \in Int /\ lr \in Int /\ fp \in Int /\ count + 1 \in Int
  BY AbiAssumption DEF AbiInv, AbiTypeOK
<1>3. sp \in Int /\ sp <= Top /\ low \in Int /\ low >= 0 /\ low + Extended(words) <= sp
  BY <1>1, <1>2, SpOnStack DEF Extended
<1>4. /\ a \in Seq(AbiWords) /\ Len(a) = words
      /\ r' \in [0 .. 3 -> AbiWords] /\ stack' \in [0 .. Top - 1 -> AbiWords]
      /\ \A k \in 0 .. Top - 1 : k >= sp => stack'[k] = stack[k]
      /\ \A i \in 1 .. words : /\ i + 0 <= 4 => r'[i + 0 - 1] = a[i]
                               /\ i + 0 > 4 => stack'[low + i + 0 - 5] = a[i]
  <2>1. Fits(words, count + 1, 0, low, r, stack)
    BY <1>2, <1>3 DEF Fits, AbiInv, AbiTypeOK
  <2>2. Put(words, count + 1, 0, low, r, stack)
    BY <2>1, BytesWritten
  <2> QED BY <2>2, <1>1 DEF Put
<1> HIDE DEF a, low
<1>5. /\ f \in CallFrames /\ f.got = <<>> /\ f.passed = a /\ f.sp0 = low /\ f.ret = -1
      /\ f.keep \in Int \X Int \X Int /\ f.keep[1] = sp
  BY <1>2, <1>3, <1>4, EmptySeq DEF frame, CallFrames, Kept
<1>6. frames' = Append(frames, f) /\ sp' = low /\ lr' \in Int /\ fp' \in Int /\ count' \in Int
  BY <1>1, <1>2 DEF a, low
<1> HIDE DEF f
<1>7. Delivered(f)
  <2> SUFFICES ASSUME NEW i \in 1 .. words
               PROVE  (i <= 4 => r'[i - 1] = a[i]) /\ (i > 4 => stack'[low + i - 5] = a[i])
    BY <1>4, <1>5 DEF Delivered
  <2>1. i + 0 = i /\ i + 0 - 1 = i - 1 /\ low + i + 0 - 5 = low + i - 5
    BY <1>2, <1>3
  <2>2. (i + 0 <= 4 => r'[i + 0 - 1] = a[i]) /\ (i + 0 > 4 => stack'[low + i + 0 - 5] = a[i])
    BY <1>4
  <2> QED BY <2>1, <2>2, Zenon
<1>8. HasRead(top)
  BY <1>1 DEF HasRead
<1>9. Begins(f)
  BY <1>3, <1>4, <1>5, <1>6, <1>7 DEF Begins, Placed, Untouched
<1> QED BY <1>5, <1>8, <1>9, NewCall

\* A host function that may call has read what registers held.
LEMMA MayCallHasRead ==
  ASSUME "va_regs" \in AbiCareful, MayCallOn
  PROVE  HasRead(top)
BY DEF MayCallOn, HasRead

\* A host function calls a guest function.
LEMMA HostCallKeeps ==
  ASSUME "va_regs" \in AbiCareful, AbiInv, HostCallsGuest
  PROVE  AbiInv'
<1> DEFINE framed == [stack EXCEPT ![sp - 2] = <<"fp", fp, 0>>, ![sp - 2 + 1] = <<"lr", lr, 0>>]
<1>1. PICK words \in ArgWords :
        /\ MayCallOn /\ sp - 2 - Extended(words) >= 0
        /\ stack' = StackWith(0, args(count + 1, words), sp - 2 - Extended(words), framed)
        /\ r' = RegsWith(0, args(count + 1, words), r)
        /\ sp' = sp - 2 - Extended(words) /\ fp' = sp - 2 /\ lr' = -1 /\ count' = count + 1
        /\ frames' = Append(frames, frame("guest", args(count + 1, words), words,
                                          sp - 2 - Extended(words), -1, <<sp, lr, fp>>))
  BY Zenon DEF HostCallsGuest
<1> DEFINE a == args(count + 1, words)
           low == sp - 2 - Extended(words)
           f == frame("guest", a, words, low, -1, <<sp, lr, fp>>)
<1>2. words \in Nat /\ count \in Int /\ lr \in Int /\ fp \in Int /\ count + 1 \in Int
  BY AbiAssumption DEF AbiInv, AbiTypeOK
<1>3. /\ sp \in Int /\ sp <= Top /\ low \in Int /\ low >= 0 /\ low + Extended(words) <= sp
      /\ sp - 2 \in 0 .. Top - 1 /\ sp - 2 + 1 \in 0 .. Top - 1
  <2>1. /\ Extended(words) \in Nat /\ sp \in Int /\ sp <= Top /\ Top \in Nat
        /\ sp - 2 - Extended(words) >= 0
    BY <1>1, <1>2, SpOnStack, AbiAssumption DEF Extended
  <2> QED BY <2>1
<1>4. /\ framed \in [0 .. Top - 1 -> AbiWords]
      /\ \A k \in 0 .. Top - 1 : k >= sp => framed[k] = stack[k]
  <2>1. <<"fp", fp, 0>> \in AbiWords /\ <<"lr", lr, 0>> \in AbiWords
    BY <1>2 DEF AbiWords
  <2> QED BY <2>1, <1>3 DEF AbiInv, AbiTypeOK
<1> HIDE DEF framed
<1>5. /\ a \in Seq(AbiWords) /\ Len(a) = words
      /\ r' \in [0 .. 3 -> AbiWords] /\ stack' \in [0 .. Top - 1 -> AbiWords]
      /\ \A k \in 0 .. Top - 1 : k >= sp => stack'[k] = framed[k]
      /\ \A i \in 1 .. words : /\ i + 0 <= 4 => r'[i + 0 - 1] = a[i]
                               /\ i + 0 > 4 => stack'[low + i + 0 - 5] = a[i]
  <2>1. Fits(words, count + 1, 0, low, r, framed)
    BY <1>2, <1>3, <1>4 DEF Fits, AbiInv, AbiTypeOK
  <2>2. Put(words, count + 1, 0, low, r, framed)
    BY <2>1, BytesWritten
  <2> QED BY <2>2, <1>1 DEF Put
<1> HIDE DEF a, low
<1>6. /\ f \in CallFrames /\ f.got = <<>> /\ f.passed = a /\ f.sp0 = low /\ f.ret = -1
      /\ f.keep \in Int \X Int \X Int /\ f.keep[1] = sp
  BY <1>2, <1>3, <1>5, EmptySeq DEF frame, CallFrames, Kept
<1>7. frames' = Append(frames, f) /\ sp' = low /\ lr' \in Int /\ fp' \in Int /\ count' \in Int
  BY <1>1, <1>2, <1>3 DEF a, low
<1> HIDE DEF f
<1>8. Delivered(f)
  <2> SUFFICES ASSUME NEW i \in 1 .. words
               PROVE  (i <= 4 => r'[i - 1] = a[i]) /\ (i > 4 => stack'[low + i - 5] = a[i])
    BY <1>5, <1>6 DEF Delivered
  <2>1. i + 0 = i /\ i + 0 - 1 = i - 1 /\ low + i + 0 - 5 = low + i - 5
    BY <1>2, <1>3
  <2>2. (i + 0 <= 4 => r'[i + 0 - 1] = a[i]) /\ (i + 0 > 4 => stack'[low + i + 0 - 5] = a[i])
    BY <1>5
  <2> QED BY <2>1, <2>2, Zenon
<1>9. HasRead(top)
  BY <1>1, MayCallHasRead
<1>10. Begins(f)
  <2>1. Placed(f)
    BY <1>3, <1>5, <1>6 DEF Placed
  <2>2. Untouched
    BY <1>4, <1>5 DEF Untouched
  <2> QED BY <1>5, <1>6, <1>7, <1>8, <2>1, <2>2 DEF Begins
<1> QED BY <1>6, <1>9, <1>10, NewCall

\* A host function sends a message; the room for a large value that it returns
\* is above all that the call writes.
LEMMA MessageKeeps ==
  ASSUME {"va_regs", "stret_args"} \subseteq AbiCareful, AbiInv, HostSendsMessage
  PROVE  AbiInv'
<1>1. PICK words \in ArgWords, stret \in BOOLEAN :
        LET a == args(count + 1, words)
            ret == IF stret THEN sp - RetWords ELSE -1
            off == IF stret THEN 1 ELSE 0
            sp0 == SpFor(words, stret)
            address == [k \in 0 .. 3 |-> IF stret /\ k = 0 THEN <<"address", ret, 0>> ELSE r[k]]
        IN  /\ MayCallOn /\ sp0 >= 0 /\ words >= 2
            /\ "stret_args" \in AbiCareful /\ stret => words + 1 <= 4
            /\ stack' = StackWith(off, a, sp0, stack) /\ r' = RegsWith(off, a, address)
            /\ sp' = sp0 /\ lr' = -1 /\ count' = count + 1
            /\ frames' = Append(frames, frame("guest", (IF stret THEN <<<<"address", ret, 0>>>> ELSE <<>>) \o a,
                                              Len(a) + off, sp0, ret, <<sp, lr, fp>>))
            /\ UNCHANGED fp
  BY Zenon DEF HostSendsMessage
<1> DEFINE a == args(count + 1, words)
           ret == IF stret THEN sp - RetWords ELSE -1
           off == IF stret THEN 1 ELSE 0
           low == SpFor(words, stret)
           address == [k \in 0 .. 3 |-> IF stret /\ k = 0 THEN <<"address", ret, 0>> ELSE r[k]]
           before == IF stret THEN <<<<"address", ret, 0>>>> ELSE <<>>
           f == frame("guest", before \o a, Len(a) + off, low, ret, <<sp, lr, fp>>)
<1>2. /\ MayCallOn /\ low >= 0 /\ (stret => words <= 3)
      /\ stack' = StackWith(off, a, low, stack) /\ r' = RegsWith(off, a, address)
      /\ sp' = low /\ lr' = -1 /\ count' = count + 1 /\ frames' = Append(frames, f) /\ UNCHANGED fp
  <2>1. stret => words + 1 <= 4
    BY <1>1
  <2>2. words \in Nat
    BY AbiAssumption
  <2> QED BY <1>1, <2>1, <2>2
<1>3. /\ words \in Nat /\ count \in Int /\ lr \in Int /\ fp \in Int /\ count + 1 \in Int
      /\ sp \in Int /\ sp <= Top /\ ret \in Int /\ off \in {0, 1} /\ (off = 1 <=> stret)
  BY AbiAssumption, SpOnStack DEF AbiInv, AbiTypeOK, RetWords
<1>4. /\ low \in Int /\ low + Extended(words) <= sp /\ (stret => Extended(words) = 0 /\ ret + RetWords = sp)
      /\ (~stret => ret = -1) /\ Extended(words) \in Nat
  BY <1>2, <1>3 DEF SpFor, Extended, RetWords
<1>5. /\ address \in [0 .. 3 -> AbiWords] /\ (stret => address[0] = <<"address", ret, 0>>)
      /\ <<"address", ret, 0>> \in AbiWords
  BY <1>3 DEF AbiWords, AbiInv, AbiTypeOK
<1> HIDE DEF address, low, ret, off
<1>6. /\ a \in Seq(AbiWords) /\ Len(a) = words
      /\ r' \in [0 .. 3 -> AbiWords] /\ (off = 1 => r'[0] = address[0])
      /\ stack' \in [0 .. Top - 1 -> AbiWords]
      /\ \A k \in 0 .. Top - 1 : k >= sp => stack'[k] = stack[k]
      /\ \A i \in 1 .. words : /\ i + off <= 4 => r'[i + off - 1] = a[i]
                               /\ i + off > 4 => stack'[low + i + off - 5] = a[i]
  <2>1. Fits(words, count + 1, off, low, address, stack)
    BY <1>2, <1>3, <1>4, <1>5 DEF Fits, AbiInv, AbiTypeOK
  <2>2. Put(words, count + 1, off, low, address, stack)
    BY <2>1, BytesWritten
  <2> QED BY <2>2, <1>2 DEF Put
<1> HIDE DEF a
<1>7. /\ before \o a \in Seq(AbiWords) /\ Len(before \o a) = words + off
      /\ off = 1 => (before \o a)[1] = address[0]
      /\ \A i \in 1 .. words : (before \o a)[i + off] = a[i]
  <2>1. before \in Seq(AbiWords) /\ Len(before) = off /\ (off = 1 => before[1] = address[0])
    <3>1. CASE stret
      BY <3>1, <1>3, <1>5 DEF off
    <3>2. CASE ~stret
      BY <3>2, <1>3, EmptySeq DEF off
    <3> QED BY <3>1, <3>2
  <2> HIDE DEF before
  <2>2. before \o a \in Seq(AbiWords) /\ Len(before \o a) = off + words
        /\ \A i \in 1 .. off + words : (before \o a)[i] = IF i <= off THEN before[i] ELSE a[i - off]
    <3>1. before \in Seq(AbiWords) /\ a \in Seq(AbiWords)
      BY <2>1, <1>6
    <3>2. /\ before \o a \in Seq(AbiWords) /\ Len(before \o a) = Len(before) + Len(a)
          /\ \A i \in 1 .. Len(before) + Len(a) :
                (before \o a)[i] = IF i <= Len(before) THEN before[i] ELSE a[i - Len(before)]
      BY <3>1, ConcatProperties
    <3>3. Len(before) = off /\ Len(a) = words
      BY <2>1, <1>6
    <3> QED BY <3>2, <3>3
  <2>3. ASSUME NEW i \in 1 .. words PROVE (before \o a)[i + off] = a[i]
    <3>1. PICK m : m = i + off
      OBVIOUS
    <3>2. m \in 1 .. off + words /\ ~(m <= off) /\ m - off = i
      BY <3>1, <1>3
    <3>3. (before \o a)[m] = a[i]
      BY <3>2, <2>2
    <3> QED BY <3>1, <3>3
  <2>4. off = 1 => (before \o a)[1] = address[0]
    BY <2>1, <2>2, <1>3
  <2>5. off + words = words + off
    BY <1>3
  <2> QED BY <2>2, <2>3, <2>4, <2>5, Zenon
<1> HIDE DEF before
<1>8. /\ f \in CallFrames /\ f.got = <<>> /\ f.passed = before \o a /\ f.sp0 = low /\ f.ret = ret
      /\ f.keep \in Int \X Int \X Int /\ f.keep[1] = sp
  BY <1>3, <1>4, <1>6, <1>7, EmptySeq DEF frame, CallFrames, Kept
<1> HIDE DEF f
<1>9. Extended(Len(f.passed)) = Extended(words) /\ (f.ret >= 0 => Len(f.passed) <= 4 /\ f.ret + RetWords <= sp)
  <2>1. CASE stret
    BY <2>1, <1>2, <1>3, <1>4, <1>7, <1>8 DEF Extended
  <2>2. CASE ~stret
    BY <2>2, <1>2, <1>3, <1>4, <1>7, <1>8 DEF Extended
  <2> QED BY <2>1, <2>2
<1>10. Delivered(f)
  <2> SUFFICES ASSUME NEW i \in 1 .. Len(f.passed)
               PROVE  (i <= 4 => r'[i - 1] = f.passed[i]) /\ (i > 4 => stack'[f.sp0 + i - 5] = f.passed[i])
    BY DEF Delivered
  <2>1. CASE i > off
    <3>1. PICK m : m = i - off
      OBVIOUS
    <3>2. m \in 1 .. words /\ m + off = i /\ m + off - 1 = i - 1 /\ low + m + off - 5 = low + i - 5
      <4>1. Len(f.passed) = words + off
        BY <1>7, <1>8
      <4> QED BY <4>1, <2>1, <3>1, <1>3, <1>4
    <3>3. f.passed[i] = a[m]
      BY <3>2, <1>7, <1>8
    <3>4. (m + off <= 4 => r'[m + off - 1] = a[m]) /\ (m + off > 4 => stack'[low + m + off - 5] = a[m])
      BY <3>2, <1>6
    <3>5. f.sp0 = low
      BY <1>8
    <3> QED BY <3>2, <3>3, <3>4, <3>5, Zenon
  <2>2. CASE ~(i > off)
    <3>1. i = 1 /\ off = 1
      BY <2>2, <1>3, <1>7, <1>8
    <3> QED BY <3>1, <1>6, <1>7, <1>8
  <2> QED BY <2>1, <2>2
<1>11. HasRead(top)
  BY <1>2, MayCallHasRead
<1>12. /\ f.sp0 >= 0 /\ f.sp0 + Extended(Len(f.passed)) <= sp /\ sp' = f.sp0
       /\ lr' \in Int /\ fp' \in Int /\ count' \in Int
  BY <1>2, <1>3, <1>4, <1>8, <1>9
<1>13. Begins(f)
  BY <1>2, <1>6, <1>8, <1>9, <1>10, <1>12 DEF Begins, Placed, Untouched
<1> QED BY <1>8, <1>11, <1>13, NewCall

\* A function gives back what the registers held when it was called.
LEMMA ReturnsKeep ==
  ASSUME AbiInv, HostReturns \/ GuestReturns
  PROVE  AbiInv'
<1>1. /\ Len(frames) > 1 /\ frames' = Front(frames) /\ sp' = top.keep[1] /\ UNCHANGED <<stack, count>>
      /\ lr' = top.keep[2] /\ fp' \in {fp, top.keep[3]}
      /\ \/ r' = [r EXCEPT ![0] = <<"value", count, 0>>]
         \/ r' = [k \in 0 .. 3 |-> IF k = 0 THEN <<"value", count, 0>> ELSE junk]
  BY DEF HostReturns, GuestReturns
<1>2. top.keep \in Int \X Int \X Int
  <2>1. Len(frames) \in 1 .. Len(frames) /\ top = frames[Len(frames)]
    BY TopFrame
  <2> QED BY <2>1, <1>1, FrameLayout DEF LaidOut
<1>3. fp \in Int /\ lr' \in Int /\ fp' \in Int
  BY <1>1, <1>2 DEF AbiInv, AbiTypeOK
<1>4. r' \in [0 .. 3 -> AbiWords]
  <2>1. <<"value", count, 0>> \in AbiWords /\ junk \in AbiWords
    BY DEF AbiWords, AbiInv, AbiTypeOK, junk
  <2> QED BY <2>1, <1>1 DEF AbiInv, AbiTypeOK
<1> QED BY <1>1, <1>3, <1>4, ReturnKeeps

\* The arguments are those the invariant speaks of.
LEMMA AbiInvArguments == AbiInv => ArgumentsArrive
<1> SUFFICES ASSUME AbiInv, NEW k \in 1 .. Len(frames)
             PROVE  /\ IsPrefix(frames[k].got, frames[k].passed)
                    /\ \A i \in DOMAIN frames[k].passed : i > 4 /\ i > Len(frames[k].got) =>
                          stack[frames[k].sp0 + i - 5] = frames[k].passed[i]
  BY TopFrame DEF ArgumentsArrive
<1>1. /\ frames[k].got \in Seq(AbiWords) /\ frames[k].passed \in Seq(AbiWords)
      /\ DOMAIN frames[k].passed = 1 .. Len(frames[k].passed)
  BY TopFrame, LenProperties
<1>2. IsPrefix(frames[k].got, frames[k].passed)
  <2>1. Leads(frames[k].got, frames[k].passed)
    BY FrameLayout DEF HasPassed
  <2> QED BY <2>1, <1>1, LeadsIsPrefix
<1> QED BY <1>1, <1>2, FrameLayout

\* CallFromGuest, CallFromHost, VaList::next: however host and guest call each
\* other, a function gets the arguments its caller passed.
THEOREM ArgumentsArriveForEver ==
  ASSUME {"va_regs", "stret_args"} \subseteq AbiCareful
  PROVE  AbiSpec => []ArgumentsArrive
<1>1. AbiInit => AbiInv
  <2> SUFFICES ASSUME AbiInit PROVE AbiInv
    OBVIOUS
  <2> DEFINE f == frame("guest", <<>>, 0, Top, -1, <<>>)
  <2>1. /\ frames = <<f>> /\ sp = Top /\ lr = 0 /\ fp = Top /\ count = 0
        /\ r = [k \in 0 .. 3 |-> junk] /\ stack = [k \in 0 .. Top - 1 |-> junk] /\ Top \in Nat
    BY AbiAssumption DEF AbiInit
  <2>2. f \in CallFrames /\ f.got = <<>> /\ f.passed = <<>> /\ f.sp0 = Top /\ f.ret = -1
    BY <2>1, EmptySeq DEF frame, CallFrames, Kept
  <2>3. Len(f.got) = 0 /\ Len(f.passed) = 0 /\ Extended(Len(f.passed)) = 0
    BY <2>2, EmptySeq DEF Extended
  <2> HIDE DEF f
  <2>4. frames \in Seq(CallFrames) /\ Len(frames) = 1 /\ frames[1] = f /\ frames # <<>>
    BY <2>1, <2>2, EmptySeq
  <2>5. AbiTypeOK
    <3>1. junk \in AbiWords
      BY DEF junk, AbiWords
    <3> QED BY <3>1, <2>1, <2>4 DEF AbiTypeOK
  <2>6. LayoutInv
    <3>1. LaidOut(1)
      BY <2>1, <2>2, <2>3, <2>4 DEF LaidOut
    <3> QED BY <3>1, <2>1, <2>2, <2>4 DEF LayoutInv
  <2>7. PassedInv
    <3>1. HasPassed(1) /\ InRegisters(f)
      BY <2>3, <2>4 DEF HasPassed, InRegisters, Leads
    <3> QED BY <3>1, <2>4 DEF PassedInv
  <2> QED BY <2>5, <2>6, <2>7 DEF AbiInv
<1>2. AbiInv /\ [AbiNext]_abiVars => AbiInv'
  <2> SUFFICES ASSUME AbiInv, [AbiNext]_abiVars PROVE AbiInv'
    OBVIOUS
  <2>1. CASE GuestCallsHost \/ HostCallsGuest \/ HostSendsMessage
    BY <2>1, GuestCallKeeps, HostCallKeeps, MessageKeeps
  <2>2. CASE HostReads \/ GuestReads
    BY <2>2, ReadKeeps DEF HostReads, GuestReads, ReadsNext
  <2>3. CASE GuestWritesReturn
    BY <2>3, WriteKeeps
  <2>4. CASE HostReturns \/ GuestReturns
    BY <2>4, ReturnsKeep
  <2>5. CASE UNCHANGED abiVars
    BY <2>5 DEF abiVars, AbiInv, AbiTypeOK, LayoutInv, PassedInv, LaidOut, HasPassed, InRegisters
  <2> QED BY <2>1, <2>2, <2>3, <2>4, <2>5 DEF AbiNext
<1> QED BY <1>1, <1>2, AbiInvArguments, PTL DEF AbiSpec

-----------------------------------------------------------------------------
(* Files: the guest's tree and the host's sandbox                          *)

\* The node that Fs::new makes of what the host has at a path.
NodeOf(entry) == IF entry = HostDir THEN Directory(TRUE) ELSE File("host", TRUE)

\* The tree is at any time what Fs::new would build from the host's files now,
\* the host's files have inodes that exist, and the host has not surprised.
TreeIsBuilt ==
    /\ DOMAIN tree = DOMAIN disk \cup DOMAIN ReadOnlyTree
    /\ DOMAIN disk \cap DOMAIN ReadOnlyTree = {}
    /\ \A p \in DOMAIN disk : tree[p] = NodeOf(disk[p])
    /\ \A p \in DOMAIN ReadOnlyTree : tree[p] = ReadOnlyTree[p]
InodesInv ==
    /\ \A p \in DOMAIN disk : disk[p] \in Inodes \cup {HostDir}
    /\ DOMAIN data = Inodes \cup {IpaInode}
HostInv == TreeIsBuilt /\ InodesInv /\ ~surprise

\* The app opens no file both to append and to be emptied, which the host's
\* File::options refuses.
HostTakes == \A o \in Modes : ~(o.append /\ o.truncate)

\* The made-up part of the tree cannot be written and is not on the host.
LEMMA ReadOnlyNodes ==
  /\ <<>> \in DOMAIN ReadOnlyTree
  /\ \A p \in DOMAIN ReadOnlyTree : ~ReadOnlyTree[p].writeable /\ ReadOnlyTree[p].location # "host"
BY DEF ReadOnlyTree, File, Directory

\* The fields of the nodes made from the host's files.
LEMMA Nodes ==
  /\ \A e : /\ NodeOf(e).writeable /\ NodeOf(e).kind \in {"file", "dir"}
            /\ NodeOf(e).kind = "dir" <=> e = HostDir
            /\ NodeOf(e).location = "host" <=> e # HostDir
  /\ NodeOf(HostDir) = Directory(TRUE)
  /\ \A i \in Inodes \cup {IpaInode} : i # HostDir /\ NodeOf(i) = File("host", TRUE)
<1>1. \A i \in Inodes \cup {IpaInode} : i # HostDir
  BY FsAssumption DEF IpaInode, HostDir
<1> QED BY <1>1 DEF NodeOf, File, Directory

\* What the tree says of a path when it is what Fs::new would build.
LEMMA TreeTells ==
  ASSUME HostInv, NEW p \in DOMAIN tree
  PROVE  /\ tree[p].writeable <=> p \in DOMAIN disk
         /\ p \in DOMAIN disk => (is_dir(p) <=> disk[p] = HostDir) /\ (is_file(p) <=> disk[p] # HostDir)
         /\ p \in DOMAIN disk => (tree[p].location = "host" <=> disk[p] # HostDir)
         /\ p \notin DOMAIN disk => tree[p].location # "host"
<1>1. CASE p \in DOMAIN disk
  <2>1. tree[p] = NodeOf(disk[p])
    BY <1>1 DEF HostInv, TreeIsBuilt
  <2>2. /\ tree[p].writeable /\ tree[p].kind \in {"file", "dir"}
        /\ tree[p].kind = "dir" <=> disk[p] = HostDir
        /\ tree[p].location = "host" <=> disk[p] # HostDir
    BY <2>1, Nodes, SMT
  <2> QED BY <1>1, <2>2 DEF is_dir, is_file, lookup_node
<1>2. CASE p \notin DOMAIN disk
  <2>1. p \in DOMAIN ReadOnlyTree /\ tree[p] = ReadOnlyTree[p]
    BY <1>2 DEF HostInv, TreeIsBuilt
  <2> QED BY <1>2, <2>1, ReadOnlyNodes
<1> QED BY <1>1, <1>2

\* The property from the invariant.
LEMMA BuiltAgrees ==
  ASSUME HostInv
  PROVE  TreeIsHost
<1>1. \A p \in DOMAIN tree : tree[p].writeable =>
          p \in DOMAIN disk /\ (disk[p] = HostDir <=> is_dir(p))
  BY TreeTells
<1>2. DOMAIN disk \subseteq DOMAIN tree
  BY DEF HostInv, TreeIsBuilt
<1> QED BY <1>1, <1>2 DEF TreeIsHost, HostAgrees, NoHostSurprise, HostInv

\* The host's files and the tree change at the same paths, in the same way.
LEMMA BothChange ==
  ASSUME HostInv, NEW made, NEW gone,
         (made \cup gone) \cap DOMAIN ReadOnlyTree = {},
         DOMAIN disk' = (DOMAIN disk \cup made) \ gone,
         DOMAIN tree' = (DOMAIN tree \cup made) \ gone,
         \A q \in made \ gone : /\ disk'[q] \in Inodes \cup {HostDir}
                                /\ tree'[q] = NodeOf(disk'[q]),
         \A q \in DOMAIN tree \ (made \cup gone) : tree'[q] = tree[q],
         \A q \in DOMAIN disk \ (made \cup gone) : disk'[q] = disk[q],
         DOMAIN data' = DOMAIN data, UNCHANGED surprise
  PROVE  HostInv'
<1>1. \A p \in DOMAIN disk' : p \in made \ gone \/ p \in DOMAIN disk \ (made \cup gone)
  OBVIOUS
<1>2. \A p \in DOMAIN disk' : tree'[p] = NodeOf(disk'[p]) /\ disk'[p] \in Inodes \cup {HostDir}
  <2>1. \A p \in DOMAIN disk : /\ p \in DOMAIN tree /\ tree[p] = NodeOf(disk[p])
                               /\ disk[p] \in Inodes \cup {HostDir}
    BY DEF HostInv, TreeIsBuilt, InodesInv
  <2> QED BY <1>1, <2>1
<1>3. \A p \in DOMAIN ReadOnlyTree : p \in DOMAIN tree \ (made \cup gone) /\ tree'[p] = ReadOnlyTree[p]
  BY DEF HostInv, TreeIsBuilt
<1>4. /\ DOMAIN tree' = DOMAIN disk' \cup DOMAIN ReadOnlyTree
      /\ DOMAIN disk' \cap DOMAIN ReadOnlyTree = {}
  BY DEF HostInv, TreeIsBuilt
<1>5. DOMAIN data' = Inodes \cup {IpaInode} /\ ~surprise'
  BY DEF HostInv, InodesInv
<1> QED BY <1>2, <1>3, <1>4, <1>5 DEF HostInv, TreeIsBuilt, InodesInv

\* Nothing but contents, descriptors and the working directory changes.
LEMMA SameTree ==
  ASSUME HostInv, UNCHANGED <<tree, disk, surprise>>, DOMAIN data' = DOMAIN data
  PROVE  HostInv'
BY DEF HostInv, TreeIsBuilt, InodesInv

\* The inode the host gives a new file is one of those it has free.
LEMMA FreeInode ==
  ASSUME FreeInodes # {}
  PROVE  (CHOOSE f \in FreeInodes : \A g \in FreeInodes : f <= g) \in FreeInodes
<1>1. FreeInodes \in SUBSET Nat
  BY FsAssumption DEF FreeInodes
<1>2. \E f \in FreeInodes : \A g \in FreeInodes : f <= g
  BY <1>1, LeastNatural
<1> QED BY <1>2

\* A place where something may be made is not in the made-up part.
LEMMA MayCreateWhere ==
  ASSUME HostInv, NEW p, NEW o, MayCreate(p, o)
  PROVE  /\ p \notin DOMAIN tree /\ p \notin DOMAIN disk /\ p \notin DOMAIN ReadOnlyTree
         /\ Front(p) \in DOMAIN disk /\ disk[Front(p)] = HostDir /\ o.create
<1>1. /\ p \notin DOMAIN tree /\ is_dir(Front(p)) /\ tree[Front(p)].writeable /\ o.create
  BY DEF MayCreate, ParentIsDir, lookup_node
<1>2. Front(p) \in DOMAIN tree
  BY <1>1 DEF is_dir, lookup_node
<1> QED BY <1>1, <1>2, TreeTells DEF HostInv, TreeIsBuilt

\* A node appears on both sides.
LEMMA OneMade ==
  ASSUME HostInv, NEW p, p \notin DOMAIN ReadOnlyTree, NEW entry \in Inodes \cup {HostDir},
         disk' = With(disk, p, entry), tree' = With(tree, p, NodeOf(entry)),
         DOMAIN data' = DOMAIN data, UNCHANGED surprise
  PROVE  HostInv'
<1>1. /\ DOMAIN disk' = DOMAIN disk \cup {p} /\ disk'[p] = entry
      /\ \A q \in DOMAIN disk \ {p} : disk'[q] = disk[q]
      /\ DOMAIN tree' = DOMAIN tree \cup {p} /\ tree'[p] = NodeOf(entry)
      /\ \A q \in DOMAIN tree \ {p} : tree'[q] = tree[q]
  BY DEF With
<1> DEFINE made == {p}
           gone == {}
<1>2. (made \cup gone) \cap DOMAIN ReadOnlyTree = {}
  OBVIOUS
<1>3. /\ DOMAIN disk' = (DOMAIN disk \cup made) \ gone
      /\ DOMAIN tree' = (DOMAIN tree \cup made) \ gone
  BY <1>1
<1>4. \A q \in made \ gone : /\ disk'[q] \in Inodes \cup {HostDir}
                             /\ tree'[q] = NodeOf(disk'[q])
  BY <1>1
<1>5. /\ \A q \in DOMAIN tree \ (made \cup gone) : tree'[q] = tree[q]
      /\ \A q \in DOMAIN disk \ (made \cup gone) : disk'[q] = disk[q]
  BY <1>1
<1> HIDE DEF made, gone
<1> QED BY <1>2, <1>3, <1>4, <1>5, BothChange

\* A file of the host is opened or made on both sides.
LEMMA OpenKeeps ==
  ASSUME HostInv, NEW p, NEW o, NEW i \in Inodes \cup {IpaInode}, NEW hold, NEW bytes, Room(p),
         open_with_options(p, o, i, hold, bytes)
  PROVE  HostInv'
<1> DEFINE outside == is_file(p) /\ tree[p].location # "host"
           least == CHOOSE f \in FreeInodes : \A g \in FreeInodes : f <= g
<1>1. /\ MayOpen(p, o) \/ MayCreate(p, o)
      /\ outside \/ HostOpens(p, o)
      /\ i = CASE outside -> IpaInode [] p \in DOMAIN disk -> disk[p] [] OTHER -> least
      /\ disk' = IF i = IpaInode THEN disk ELSE With(disk, p, i)
      /\ tree' = IF is_file(p) THEN tree ELSE With(tree, p, File("host", TRUE))
      /\ DOMAIN data' = DOMAIN data
      /\ UNCHANGED surprise
  BY DEF open_with_options
<1>2. is_file(p) => p \in DOMAIN tree
  BY DEF is_file, lookup_node
<1>3. CASE outside
  <2>0. p \notin DOMAIN disk
    BY <1>2, <1>3, TreeTells
  <2>1. i = IpaInode
    BY <1>1, <1>3, <2>0
  <2>2. is_file(p)
    BY <1>3
  <2> HIDE DEF outside, least
  <2>3. tree' = tree /\ disk' = disk
    BY <1>1, <2>1, <2>2
  <2> QED BY <1>1, <2>3, SameTree
<1>4. CASE ~outside /\ p \in DOMAIN disk
  <2>1. i = disk[p]
    BY <1>1, <1>4
  <2>2. disk[p] # HostDir /\ p \in DOMAIN tree
    BY <1>1, <1>4 DEF HostOpens, HostInv, TreeIsBuilt
  <2>3. is_file(p) /\ tree[p] = NodeOf(disk[p]) /\ disk[p] \in Inodes
    BY <2>2, <1>4, TreeTells DEF HostInv, TreeIsBuilt, InodesInv
  <2>4. i # IpaInode
    BY <2>1, <2>3, FsAssumption DEF IpaInode
  <2>5. /\ DOMAIN disk' = DOMAIN disk /\ \A q \in DOMAIN disk : disk'[q] = disk[q]
        /\ tree' = tree
    BY <1>1, <1>4, <2>1, <2>3, <2>4 DEF With
  <2>6. UNCHANGED surprise /\ DOMAIN data' = DOMAIN data
    BY <1>1
  <2> QED BY <2>5, <2>6 DEF HostInv, TreeIsBuilt, InodesInv
<1>5. CASE ~outside /\ p \notin DOMAIN disk
  <2>1. ~is_file(p)
    BY <1>2, <1>5, TreeTells
  <2>2. MayCreate(p, o)
    BY <1>1, <2>1 DEF MayOpen
  <2>3. i = least /\ FreeInodes # {}
    BY <1>1, <1>5, <2>1 DEF Room
  <2>4. i \in Inodes /\ i # IpaInode /\ i # HostDir
    <3>1. i \in FreeInodes
      BY <2>3, FreeInode
    <3> QED BY <3>1, FsAssumption DEF FreeInodes, IpaInode, HostDir
  <2>5. p \notin DOMAIN ReadOnlyTree
    BY <2>2, MayCreateWhere
  <2>6. disk' = With(disk, p, i) /\ tree' = With(tree, p, NodeOf(i))
    <3> HIDE DEF outside, least
    <3>1. tree' = With(tree, p, File("host", TRUE)) /\ disk' = With(disk, p, i)
      BY <1>1, <2>1, <2>4
    <3> QED BY <3>1, <2>4, Nodes
  <2>7. UNCHANGED surprise /\ DOMAIN data' = DOMAIN data
    BY <1>1
  <2> HIDE DEF outside, least
  <2> QED BY <2>4, <2>5, <2>6, <2>7, OneMade
<1> QED BY <1>3, <1>4, <1>5

\* handle_open_err is never called: what the tree allows, the host does.
LEMMA NeverSurprised ==
  ASSUME HostInv, NEW p, NEW o, ~(o.append /\ o.truncate)
  PROVE  ~OpenSurprise(p, o)
<1> SUFFICES ASSUME OpenSurprise(p, o) PROVE FALSE
  OBVIOUS
<1>1. /\ MayOpen(p, o) \/ MayCreate(p, o)
      /\ ~(is_file(p) /\ tree[p].location # "host") /\ ~HostOpens(p, o)
  BY DEF OpenSurprise
<1>2. CASE MayCreate(p, o)
  <2>1. /\ p \notin DOMAIN disk /\ Front(p) \in DOMAIN disk /\ disk[Front(p)] = HostDir /\ o.create
    BY <1>2, MayCreateWhere
  <2> QED BY <1>1, <2>1 DEF HostOpens
<1>3. CASE MayOpen(p, o)
  <2>1. is_file(p) /\ tree[p].location = "host" /\ p \in DOMAIN tree
    BY <1>1, <1>3 DEF MayOpen, is_file, lookup_node
  <2>2. p \in DOMAIN disk /\ disk[p] # HostDir
    BY <2>1, TreeTells
  <2> QED BY <1>1, <2>2 DEF HostOpens
<1> QED BY <1>1, <1>2, <1>3

\* The options with which Fs::write opens a file are ones that the host takes.
LEMMA WriteOptions ==
  WRITE.create /\ ~(WRITE.append /\ WRITE.truncate)
BY DEF WRITE, Options

\* Fs::write
LEMMA FileWriteKeeps ==
  ASSUME HostInv, NEW path, NEW bytes, write(path, bytes)
  PROVE  HostInv'
<1> DEFINE p == resolve_path(path)
<1>1. CASE Room(p) /\ \E i \in Inodes : open_with_options(p, WRITE, i, FALSE, bytes)
  <2>1. PICK i \in Inodes : open_with_options(p, WRITE, i, FALSE, bytes)
    BY <1>1
  <2>2. i \in Inodes \cup {IpaInode}
    OBVIOUS
  <2> HIDE DEF p
  <2> QED BY <1>1, <2>1, <2>2, OpenKeeps
<1>2. CASE Room(p) /\ OpenSurprise(p, WRITE)
  <2> HIDE DEF p
  <2> QED BY <1>2, NeverSurprised, WriteOptions
<1> QED BY <1>1, <1>2 DEF write

\* A node goes, or its file takes another name, on both sides.
LEMMA RenameKeeps ==
  ASSUME HostInv, ~SelfRename, NEW from, NEW to, rename(from, to)
  PROVE  HostInv'
<1> DEFINE f == resolve_path(from)
           t == resolve_path(to)
<1> HIDE DEF f, t
<1>1. /\ is_file(f) /\ tree[f].location = "host" /\ f # t
      /\ \/ /\ (is_file(t) /\ tree[t].location = "host") \/ MayCreate(t, WRITE)
            /\ f \in DOMAIN disk
            /\ disk' = With(Without(disk, f), t, disk[f])
            /\ tree' = Without(With(tree, t, File("host", TRUE)), f)
            /\ data' = Forget(data, disk', open)
            /\ UNCHANGED surprise
         \/ MayCreate(t, WRITE) /\ ~HostOpens(t, WRITE)
  BY DEF rename, f, t
<1>2. ~(MayCreate(t, WRITE) /\ ~HostOpens(t, WRITE))
  <2>1. MayCreate(t, WRITE) => t \notin DOMAIN tree /\ ~is_file(t)
    BY DEF MayCreate, lookup_node, is_file
  <2> QED BY <2>1, NeverSurprised, WriteOptions, MayCreateWhere DEF HostOpens
<1>3. f \in DOMAIN tree /\ f \in DOMAIN disk /\ disk[f] # HostDir /\ f \notin DOMAIN ReadOnlyTree
  <2>1. f \in DOMAIN tree
    BY <1>1 DEF is_file, lookup_node
  <2> QED BY <1>1, <2>1, TreeTells DEF HostInv, TreeIsBuilt
<1>4. t \notin DOMAIN ReadOnlyTree
  <2>1. CASE is_file(t) /\ tree[t].location = "host"
    <3>1. t \in DOMAIN tree
      BY <2>1 DEF is_file, lookup_node
    <3> QED BY <2>1, <3>1, TreeTells DEF HostInv, TreeIsBuilt
  <2>2. CASE MayCreate(t, WRITE)
    BY <2>2, MayCreateWhere
  <2> QED BY <1>1, <2>1, <2>2
<1>5. disk[f] \in Inodes
  BY <1>3 DEF HostInv, InodesInv
<1>6. /\ DOMAIN disk' = (DOMAIN disk \cup {t}) \ {f} /\ disk'[t] = disk[f]
      /\ \A q \in DOMAIN disk \ {t, f} : disk'[q] = disk[q]
      /\ DOMAIN tree' = (DOMAIN tree \cup {t}) \ {f} /\ tree'[t] = File("host", TRUE)
      /\ \A q \in DOMAIN tree \ {t, f} : tree'[q] = tree[q]
  BY <1>1, <1>2 DEF With, Without
<1>7. DOMAIN data' = DOMAIN data /\ UNCHANGED surprise
  BY <1>1, <1>2 DEF Forget
<1> DEFINE made == {t}
           gone == {f}
<1>8. (made \cup gone) \cap DOMAIN ReadOnlyTree = {}
  BY <1>3, <1>4
<1>9. /\ DOMAIN disk' = (DOMAIN disk \cup made) \ gone
      /\ DOMAIN tree' = (DOMAIN tree \cup made) \ gone
  BY <1>6
<1>10. \A q \in made \ gone : /\ disk'[q] \in Inodes \cup {HostDir}
                              /\ tree'[q] = NodeOf(disk'[q])
  BY <1>5, <1>6, Nodes
<1>11. /\ \A q \in DOMAIN tree \ (made \cup gone) : tree'[q] = tree[q]
       /\ \A q \in DOMAIN disk \ (made \cup gone) : disk'[q] = disk[q]
  BY <1>6
<1> HIDE DEF made, gone
<1> QED BY <1>7, <1>8, <1>9, <1>10, <1>11, BothChange

\* The host can remove what the tree lets be removed: the same kind of node,
\* and a directory that is empty here is empty there.
LEMMA RemoveKeeps ==
  ASSUME HostInv, NEW path, remove(path)
  PROVE  HostInv'
<1> DEFINE p == resolve_path(path)
<1> HIDE DEF p
<1>1. /\ p \in DOMAIN tree /\ tree[p].writeable /\ (is_dir(p) => Children(tree, p) = {})
      /\ IF /\ p \in DOMAIN disk
            /\ (disk[p] = HostDir) = is_dir(p)
            /\ is_dir(p) => Children(disk, p) = {}
         THEN /\ disk' = Without(disk, p)
              /\ tree' = Without(tree, p)
              /\ data' = Forget(data, disk', open)
              /\ UNCHANGED <<cwd, open, surprise>>
         ELSE Surprised
  BY DEF remove, lookup_node, p
<1>2. p \in DOMAIN disk /\ (is_dir(p) <=> disk[p] = HostDir)
  BY <1>1, TreeTells
<1>3. p \notin DOMAIN ReadOnlyTree
  BY <1>2 DEF HostInv, TreeIsBuilt
<1>4. is_dir(p) => Children(disk, p) = {}
  <2>1. DOMAIN disk \subseteq DOMAIN tree
    BY DEF HostInv, TreeIsBuilt
  <2> QED BY <1>1, <2>1 DEF Children
<1>5. (disk[p] = HostDir) = is_dir(p)
  BY <1>2 DEF is_dir, lookup_node
<1>6. /\ disk' = Without(disk, p)
      /\ tree' = Without(tree, p)
      /\ data' = Forget(data, disk', open)
      /\ UNCHANGED surprise
  BY <1>1, <1>2, <1>4, <1>5
<1> DEFINE made == {}
           gone == {p}
<1>7. (made \cup gone) \cap DOMAIN ReadOnlyTree = {}
  BY <1>3
<1>8. /\ DOMAIN disk' = (DOMAIN disk \cup made) \ gone
      /\ DOMAIN tree' = (DOMAIN tree \cup made) \ gone
  BY <1>6 DEF Without
<1>9. \A q \in made \ gone : /\ disk'[q] \in Inodes \cup {HostDir}
                             /\ tree'[q] = NodeOf(disk'[q])
  OBVIOUS
<1>10. /\ \A q \in DOMAIN tree \ (made \cup gone) : tree'[q] = tree[q]
       /\ \A q \in DOMAIN disk \ (made \cup gone) : disk'[q] = disk[q]
  BY <1>6 DEF Without
<1>11. DOMAIN data' = DOMAIN data /\ UNCHANGED surprise
  BY <1>6 DEF Forget
<1> HIDE DEF made, gone
<1> QED BY <1>7, <1>8, <1>9, <1>10, <1>11, BothChange

\* Directories appear on both sides: neither had them, the parent of the first
\* is there on both.
LEMMA CreateDirKeeps ==
  ASSUME HostInv, NEW path, create_dir(path)
  PROVE  HostInv'
<1> DEFINE p == resolve_path(path)
<1> HIDE DEF p
<1>1. /\ is_dir(Front(p)) /\ tree[Front(p)].writeable
      /\ p \notin DOMAIN tree
      /\ IF p \notin DOMAIN disk /\ Front(p) \in DOMAIN disk
         THEN /\ disk' = With(disk, p, HostDir)
              /\ tree' = With(tree, p, Directory(TRUE))
              /\ UNCHANGED <<cwd, data, open, surprise>>
         ELSE Surprised
  BY DEF create_dir, ParentIsDir, lookup_node, p
<1>2. p \notin DOMAIN disk /\ p \notin DOMAIN ReadOnlyTree
  BY <1>1 DEF HostInv, TreeIsBuilt
<1>3. Front(p) \in DOMAIN disk
  BY <1>1, TreeTells DEF is_dir, lookup_node
<1>4. /\ disk' = With(disk, p, HostDir) /\ tree' = With(tree, p, NodeOf(HostDir))
      /\ DOMAIN data' = DOMAIN data /\ UNCHANGED surprise
  BY <1>1, <1>2, <1>3, Nodes
<1>5. HostDir \in Inodes \cup {HostDir}
  OBVIOUS
<1> QED BY <1>2, <1>4, <1>5, OneMade

\* Fs::create_dir_all makes the same directories in the tree and at the host.
LEMMA CreateDirsKeeps ==
  ASSUME HostInv, NEW path, create_dir_all(path)
  PROVE  HostInv'
<1> DEFINE p == resolve_path(path)
           made == {SubSeq(p, 1, n) : n \in {m \in 1..Len(p) : ~lookup_node(SubSeq(p, 1, m))}}
           gone == {}
<1> HIDE DEF p
<1>1. IF \A q \in made : q \notin DOMAIN disk
      THEN /\ disk' = [q \in DOMAIN disk \cup made |-> IF q \in made THEN HostDir ELSE disk[q]]
           /\ tree' = [q \in DOMAIN tree \cup made |->
                          IF q \in made THEN Directory(TRUE) ELSE tree[q]]
           /\ UNCHANGED <<cwd, data, open, surprise>>
      ELSE Surprised
  BY DEF create_dir_all, p
<1>2. \A q \in made : q \notin DOMAIN tree /\ q \notin DOMAIN disk /\ q \notin DOMAIN ReadOnlyTree
  BY DEF lookup_node, HostInv, TreeIsBuilt
<1> HIDE DEF made
<1>3. /\ disk' = [q \in DOMAIN disk \cup made |-> IF q \in made THEN HostDir ELSE disk[q]]
      /\ tree' = [q \in DOMAIN tree \cup made |-> IF q \in made THEN Directory(TRUE) ELSE tree[q]]
      /\ DOMAIN data' = DOMAIN data /\ UNCHANGED surprise
  BY <1>1, <1>2
<1>4. (made \cup gone) \cap DOMAIN ReadOnlyTree = {}
  BY <1>2
<1>5. /\ DOMAIN disk' = (DOMAIN disk \cup made) \ gone
      /\ DOMAIN tree' = (DOMAIN tree \cup made) \ gone
  BY <1>3
<1>6. \A q \in made \ gone : /\ disk'[q] \in Inodes \cup {HostDir}
                             /\ tree'[q] = NodeOf(disk'[q])
  BY <1>3, Nodes
<1>7. /\ \A q \in DOMAIN tree \ (made \cup gone) : tree'[q] = tree[q]
      /\ \A q \in DOMAIN disk \ (made \cup gone) : disk'[q] = disk[q]
  BY <1>3
<1>8. DOMAIN data' = DOMAIN data /\ UNCHANGED surprise
  BY <1>3
<1> HIDE DEF gone
<1> QED BY <1>4, <1>5, <1>6, <1>7, <1>8, BothChange

\* The directories that Fs::new makes sure of are not in the made-up part.
MadeAtStart == {<<s>> : s \in Sandbox} \cup {<<"Library", "Preferences">>}
\* The directories that a start makes are not those of the read-only part.
LEMMA MadeDirs ==
  /\ MadeAtStart \cap DOMAIN ReadOnlyTree = {}
  /\ MadeAtStart = {<<"Documents">>, <<"Library">>, <<"tmp">>, <<"Library", "Preferences">>}
<1> DEFINE made == MadeAtStart
<1>1. made = {<<"Documents">>, <<"Library">>, <<"tmp">>, <<"Library", "Preferences">>}
  BY DEF MadeAtStart, Sandbox
<1>2. DOMAIN ReadOnlyTree = {<<>>, <<"App">>, <<"App", "x">>, <<"lib">>}
  BY DEF ReadOnlyTree
<1>3. ASSUME NEW q \in made PROVE q # <<>> /\ q[1] \in {"Documents", "Library", "tmp"}
  BY <1>1
<1>4. ASSUME NEW q \in {<<>>, <<"App">>, <<"App", "x">>, <<"lib">>}
      PROVE q = <<>> \/ q[1] \in {"App", "lib"}
  OBVIOUS
<1>5. made \cap DOMAIN ReadOnlyTree = {}
  <2> HIDE DEF made
  <2> QED BY <1>2, <1>3, <1>4
<1> QED BY <1>1, <1>5

\* The tree that Fs::new builds from the host's files is one that it would
\* build again, if no host file is where the made-up part is.
LEMMA RestartKeeps ==
  ASSUME HostInv, Restart
  PROVE  HostInv'
<1> DEFINE kept == {p \in DOMAIN disk : p[1] # "tmp"}
           made == {<<s>> : s \in Sandbox} \cup {<<"Library", "Preferences">>}
<1>1. made \cap DOMAIN ReadOnlyTree = {}
  BY MadeDirs DEF MadeAtStart
<1> HIDE DEF made
<1>2. Prepared(disk) = [p \in kept \cup made |-> IF p \in kept THEN disk[p] ELSE HostDir]
  BY DEF Prepared, made
<1>3. /\ disk' = [p \in kept \cup made |-> IF p \in kept THEN disk[p] ELSE HostDir]
      /\ tree' = new(disk)
      /\ DOMAIN data' = DOMAIN data /\ UNCHANGED surprise
  BY <1>2 DEF Restart, Forget
<1>4. tree' = [p \in DOMAIN ReadOnlyTree \cup DOMAIN disk' |->
                 IF p \in DOMAIN disk' THEN NodeOf(disk'[p]) ELSE ReadOnlyTree[p]]
  <2>1. disk' = Prepared(disk)
    BY DEF Restart
  <2>2. from_host_dir(disk') = [p \in DOMAIN disk' |-> NodeOf(disk'[p])]
    BY DEF from_host_dir, NodeOf
  <2> QED BY <1>3, <2>1, <2>2 DEF new
<1>5. DOMAIN disk' \cap DOMAIN ReadOnlyTree = {}
  BY <1>1, <1>3 DEF HostInv, TreeIsBuilt
<1>6. \A p \in DOMAIN disk' : disk'[p] \in Inodes \cup {HostDir}
  BY <1>3 DEF HostInv, InodesInv
<1>7. TreeIsBuilt'
  BY <1>4, <1>5 DEF TreeIsBuilt
<1> QED BY <1>3, <1>6, <1>7 DEF HostInv, InodesInv

\* Each file found at the first start has an inode of its own.
LEMMA FirstFiles ==
  LET names == SetToSeq(DOMAIN Documents)
  IN  /\ names \in Seq(DOMAIN Documents)
      /\ \A p \in DOMAIN Documents : (CHOOSE i \in 1..Len(names) : names[i] = p) \in Inodes
<1> DEFINE D == DOMAIN Documents
           n == Cardinality(D)
<1>1. n \in Nat /\ ExistsBijection(1 .. n, D)
  BY FsAssumption, FS_CardinalityType
<1>2. PICK b : b \in Bijection(1 .. n, D)
  BY <1>1 DEF ExistsBijection
<1>3. b \in [1 .. n -> D] /\ IsInjective(b)
  BY <1>2 DEF Bijection, Injection, IsInjective
<1> DEFINE names == SetToSeq(D)
<1>4. names \in [1 .. n -> D] /\ IsInjective(names)
  BY <1>3 DEF SetToSeq
<1>5. names \in Seq(D) /\ Len(names) = n
  <2>1. PICK k : k = n
    OBVIOUS
  <2>2. k \in Nat /\ names \in [1 .. k -> D]
    BY <1>1, <1>4, <2>1
  <2> HIDE DEF names, n
  <2>3. names \in Seq(D)
    BY <2>2, SeqDef
  <2> QED BY <2>1, <2>2, <2>3, LenProperties
<1>6. names \in Injection(1 .. n, D)
  BY <1>4 DEF Injection, IsInjective
<1>7. IsFiniteSet(1 .. n) /\ Cardinality(1 .. n) = n
  BY <1>1, FS_Interval
<1> HIDE DEF names
<1>8. names \in Surjection(1 .. n, D)
  BY <1>6, <1>7, FsAssumption, FS_Injection
<1>9. \A p \in D : \E i \in 1 .. n : names[i] = p
  BY <1>8 DEF Surjection
<1>10. 1 .. n \subseteq Inodes
  BY FsAssumption
<1> HIDE DEF n
<1>11. \A p \in D : (CHOOSE i \in 1 .. Len(names) : names[i] = p) \in Inodes
  BY <1>5, <1>9, <1>10
<1> QED BY <1>5, <1>11 DEF names

\* The first start.
LEMMA FirstStart ==
  ASSUME FsInit
  PROVE  HostInv
<1> DEFINE names == SetToSeq(DOMAIN Documents)
           host == [p \in DOMAIN Documents |-> CHOOSE i \in 1..Len(names) : names[i] = p]
           made == {<<s>> : s \in Sandbox} \cup {<<"Library", "Preferences">>}
           kept == {p \in DOMAIN host : p[1] # "tmp"}
<1>1. made \cap DOMAIN ReadOnlyTree = {}
  BY MadeDirs DEF MadeAtStart
<1>2. DOMAIN Documents \cap DOMAIN ReadOnlyTree = {}
  <2>1. DOMAIN ReadOnlyTree = {<<>>, <<"App">>, <<"App", "x">>, <<"lib">>}
    BY DEF ReadOnlyTree
  <2>2. ASSUME NEW q \in {<<>>, <<"App">>, <<"App", "x">>, <<"lib">>}
        PROVE Len(q) # 2 \/ q[1] \in {"App", "lib"}
    OBVIOUS
  <2> QED BY <2>1, <2>2, FsAssumption
<1>3. DOMAIN host = DOMAIN Documents /\ \A p \in DOMAIN host : host[p] \in Inodes
  BY FirstFiles
<1>4. /\ disk = Prepared(host) /\ tree = new(host) /\ DOMAIN data = Inodes \cup {IpaInode}
      /\ ~surprise
  BY DEF FsInit
<1> HIDE DEF host, made
<1>5. disk = [p \in kept \cup made |-> IF p \in kept THEN host[p] ELSE HostDir]
  BY <1>4 DEF Prepared, made
<1>6. tree = [p \in DOMAIN ReadOnlyTree \cup DOMAIN disk |->
                IF p \in DOMAIN disk THEN NodeOf(disk[p]) ELSE ReadOnlyTree[p]]
  <2>1. from_host_dir(disk) = [p \in DOMAIN disk |-> NodeOf(disk[p])]
    BY DEF from_host_dir, NodeOf
  <2> QED BY <1>4, <2>1 DEF new
<1>7. DOMAIN disk \cap DOMAIN ReadOnlyTree = {}
  BY <1>1, <1>2, <1>3, <1>5
<1>8. \A p \in DOMAIN disk : disk[p] \in Inodes \cup {HostDir}
  BY <1>3, <1>5
<1>9. TreeIsBuilt
  BY <1>6, <1>7 DEF TreeIsBuilt
<1> QED BY <1>4, <1>8, <1>9 DEF HostInv, InodesInv

\* The calls of FsStep.
LEMMA FsStepKeeps ==
  ASSUME HostInv, ~SelfRename, NEW paths, FsStep(paths)
  PROVE  HostInv'
<1>1. PICK p \in paths :
        \/ write(p, <<1>>)
        \/ remove(p)
        \/ create_dir(p)
        \/ create_dir_all(p)
        \/ change_working_directory(p)
        \/ createFileAtPath(p, <<2>>)
        \/ \E q \in paths : rename(p, q) \/ copyItemAtPath(p, q)
  BY DEF FsStep
<1>2. CASE write(p, <<1>>)
  BY <1>2, FileWriteKeeps
<1>3. CASE remove(p)
  BY <1>3, RemoveKeeps
<1>4. CASE create_dir(p)
  BY <1>4, CreateDirKeeps
<1>5. CASE create_dir_all(p)
  BY <1>5, CreateDirsKeeps
<1>6. CASE change_working_directory(p)
  <2>1. UNCHANGED <<tree, disk, surprise>> /\ DOMAIN data' = DOMAIN data
    BY <1>6 DEF change_working_directory
  <2> QED BY <2>1, SameTree
<1>7. CASE createFileAtPath(p, <<2>>)
  BY <1>7, FileWriteKeeps DEF createFileAtPath
<1>8. CASE \E q \in paths : rename(p, q)
  BY <1>8, RenameKeeps
<1>9. CASE \E q \in paths : copyItemAtPath(p, q)
  <2>1. PICK q : copyItemAtPath(p, q)
    BY <1>9
  <2>2. \E bytes : write(q, bytes)
    BY <2>1 DEF copyItemAtPath
  <2> QED BY <2>2, FileWriteKeeps
<1> QED BY <1>1, <1>2, <1>3, <1>4, <1>5, <1>6, <1>7, <1>8, <1>9

\* Descriptors: open may make a file, everything else only changes bytes.
LEMMA OpenDirectKeeps ==
  ASSUME HostInv, NEW path, NEW o, ~(o.append /\ o.truncate), open_direct(path, o)
  PROVE  HostInv'
<1> DEFINE p == resolve_path(path)
<1> HIDE DEF p
<1>1. \/ /\ Room(p)
         /\ \E i \in Inodes \cup {IpaInode} : open_with_options(p, o, i, i # IpaInode, <<>>)
      \/ UNCHANGED fsVars
      \/ OpenSurprise(p, o)
  BY DEF open_direct, ioVars, p
<1>2. CASE /\ Room(p)
           /\ \E i \in Inodes \cup {IpaInode} : open_with_options(p, o, i, i # IpaInode, <<>>)
  <2>1. PICK i \in Inodes \cup {IpaInode} : open_with_options(p, o, i, i # IpaInode, <<>>)
    BY <1>2
  <2> QED BY <1>2, <2>1, OpenKeeps
<1>3. CASE UNCHANGED fsVars
  BY <1>3, SameTree DEF fsVars
<1>4. CASE OpenSurprise(p, o)
  BY <1>4, NeverSurprised
<1> QED BY <1>1, <1>2, <1>3, <1>4

\* Closing a descriptor leaves tree and host alone.
LEMMA FileCloseKeeps ==
  ASSUME HostInv, NEW fd, close(fd)
  PROVE  HostInv'
<1>1. UNCHANGED <<tree, disk, surprise>> /\ DOMAIN data' = DOMAIN data
  BY DEF close, Forget
<1> QED BY <1>1, SameTree

\* Writing through a descriptor changes contents only.
LEMMA WriteFdKeeps ==
  ASSUME HostInv, NEW fd, NEW bytes, write_fd(fd, bytes)
  PROVE  HostInv'
<1>1. UNCHANGED <<tree, disk, surprise>> /\ DOMAIN data' = DOMAIN data
  BY DEF write_fd
<1> QED BY <1>1, SameTree

\* Every call on descriptors.
LEMMA IoStepKeeps ==
  ASSUME HostInv, HostTakes, NEW paths, IoStep(paths)
  PROVE  HostInv'
<1>1. CASE \E p \in paths : \E o \in Modes : open_direct(p, o)
  <2>1. PICK p \in paths, o \in Modes : open_direct(p, o)
    BY <1>1
  <2> QED BY <2>1, OpenDirectKeeps DEF HostTakes
<1>2. CASE \E p \in paths : stat(p)
  <2>1. UNCHANGED fsVars
    BY <1>2 DEF stat
  <2> QED BY <2>1, SameTree DEF fsVars
<1>3. CASE \E fd \in Fds : close(fd)
  BY <1>3, FileCloseKeeps
<1>4. CASE \E fd \in Fds : write_fd(fd, <<1>>)
  BY <1>4, WriteFdKeeps
<1>5. CASE \E fd \in Fds : pwrite(fd, <<1>>, 1) \/ ftruncate(fd, 1)
  <2>1. UNCHANGED <<tree, disk, surprise>> /\ DOMAIN data' = DOMAIN data
    BY <1>5 DEF pwrite, ftruncate
  <2> QED BY <2>1, SameTree
<1>6. CASE \E fd \in Fds : \/ read(fd, 1) \/ pread(fd, 1, 1) \/ readDataToEndOfFile(fd)
                           \/ clearerr_fd(fd)
                           \/ lseek(fd, 0, "SET") \/ lseek(fd, -1, "CUR")
                           \/ lseek(fd, 1, "CUR") \/ lseek(fd, 0, "END")
  <2>1. UNCHANGED fsVars
    BY <1>6 DEF read, pread, readDataToEndOfFile, clearerr_fd, lseek
  <2> QED BY <2>1, SameTree DEF fsVars
<1> QED BY <1>1, <1>2, <1>3, <1>4, <1>5, <1>6 DEF IoStep

\* C streams go through descriptors.
LEMMA StreamStepKeeps ==
  ASSUME HostInv, HostTakes, NEW paths, StreamStep(paths)
  PROVE  HostInv'
<1>1. CASE \E p \in paths, mode \in Modes : fopen(p, mode)
  <2>1. PICK p \in paths, o \in Modes : open_direct(p, o)
    BY <1>1 DEF fopen
  <2> QED BY <2>1, OpenDirectKeeps DEF HostTakes
<1>2. CASE \E s \in Streams : fwrite(s, <<1>>)
  BY <1>2, WriteFdKeeps DEF fwrite
<1>3. CASE \E s \in Streams : fclose(s)
  BY <1>3, FileCloseKeeps DEF fclose
<1>4. CASE \E s \in Streams : \/ fread(s, 2) \/ fgets(s, 2) \/ fgetc(s) \/ ungetc(s) \/ clearerr(s)
                              \/ \E whence \in {"SET", "CUR", "END"}, off \in -1..1 : fseek(s, off, whence)
  <2>1. \A s, n : fread(s, n) => UNCHANGED fsVars
    BY DEF fread
  <2>2. UNCHANGED fsVars
    BY <1>4, <2>1 DEF fgets, fgetc, ungetc, clearerr, clearerr_fd, fseek
  <2> QED BY <2>2, SameTree DEF fsVars
<1> QED BY <1>1, <1>2, <1>3, <1>4 DEF StreamStep

\* Directory streams only look.
LEMMA DirStepKeeps ==
  ASSUME NEW paths, DirStep(paths)
  PROVE  UNCHANGED fsVars
<1>1. UNCHANGED ioVars
  BY DEF DirStep, opendir, scandir, readdir, closedir, FreeEntry
<1> QED BY <1>1 DEF ioVars

\* synchronize overwrites the property list, in a directory that is made if it
\* has gone.
LEMMA SynchronizeKeeps ==
  ASSUME HostInv, synchronize
  PROVE  HostInv'
<1> DEFINE dir == resolve_path(PrefsDir)
           plist == resolve_path(PlistFile)
           prefs == IF ~lookup_node(dir) /\ ParentIsDir(dir) /\ tree[Front(dir)].writeable
                    THEN {dir} ELSE {}
           i == IF plist \in DOMAIN disk THEN disk[plist]
                ELSE CHOOSE f \in FreeInodes : \A g \in FreeInodes : f <= g
           may == /\ prefs # {} \/ (is_dir(dir) /\ tree[dir].writeable)
                  /\ lookup_node(plist) => is_file(plist) /\ tree[plist].writeable
<1> HIDE DEF dir, plist
<1>1. IF may
      THEN /\ plist \in DOMAIN disk \/ FreeInodes # {}
           /\ disk' = [q \in DOMAIN disk \cup prefs \cup {plist} |->
                        CASE q = plist -> i [] q \in prefs \ {plist} -> HostDir
                          [] OTHER -> disk[q]]
           /\ tree' = [q \in DOMAIN tree \cup prefs \cup {plist} |->
                        CASE q = plist -> File("host", TRUE)
                          [] q \in prefs \ {plist} -> Directory(TRUE)
                          [] OTHER -> tree[q]]
           /\ data' = [data EXCEPT ![i] = serialize_plist(app)]
           /\ UNCHANGED surprise
      ELSE UNCHANGED fsVars
  BY DEF synchronize, dir, plist
<1>2. CASE ~may
  BY <1>1, <1>2, SameTree DEF fsVars
<1>3. CASE may
  <2>1. lookup_node(plist) => plist \in DOMAIN disk /\ disk[plist] # HostDir
    BY <1>3, TreeTells DEF lookup_node
  <2>2. i \in Inodes
    <3>1. CASE plist \in DOMAIN disk
      <4>1. disk[plist] \in Inodes \cup {HostDir} /\ lookup_node(plist)
        BY <3>1 DEF HostInv, TreeIsBuilt, InodesInv, lookup_node
      <4> QED BY <4>1, <2>1, <3>1
    <3>2. CASE plist \notin DOMAIN disk
      <4>1. i \in FreeInodes
        BY <1>1, <1>3, <3>2, FreeInode
      <4> QED BY <4>1 DEF FreeInodes
    <3> QED BY <3>1, <3>2
  <2>3. plist \notin DOMAIN ReadOnlyTree
    BY <2>1 DEF HostInv, TreeIsBuilt, lookup_node
  <2>4. \A q \in prefs : q \notin DOMAIN ReadOnlyTree
    BY DEF HostInv, TreeIsBuilt, lookup_node
  <2> DEFINE made == prefs \cup {plist}
             gone == {}
  <2>5. /\ disk' = [q \in DOMAIN disk \cup prefs \cup {plist} |->
                      CASE q = plist -> i [] q \in prefs \ {plist} -> HostDir
                        [] OTHER -> disk[q]]
        /\ tree' = [q \in DOMAIN tree \cup prefs \cup {plist} |->
                      CASE q = plist -> File("host", TRUE)
                        [] q \in prefs \ {plist} -> Directory(TRUE)
                        [] OTHER -> tree[q]]
    BY <1>1, <1>3
  <2>6. DOMAIN data' = DOMAIN data /\ UNCHANGED surprise
    BY <1>1, <1>3
  <2> HIDE DEF prefs, i
  <2>7. (made \cup gone) \cap DOMAIN ReadOnlyTree = {}
    BY <2>3, <2>4
  <2>8. /\ DOMAIN disk' = (DOMAIN disk \cup made) \ gone
        /\ DOMAIN tree' = (DOMAIN tree \cup made) \ gone
    BY <2>5
  <2>9. \A q \in made \ gone : /\ disk'[q] \in Inodes \cup {HostDir}
                               /\ tree'[q] = NodeOf(disk'[q])
    <3>1. disk'[plist] = i /\ tree'[plist] = File("host", TRUE)
      BY <2>5
    <3>2. \A q \in prefs \ {plist} : disk'[q] = HostDir /\ tree'[q] = Directory(TRUE)
      BY <2>5
    <3>3. NodeOf(i) = File("host", TRUE) /\ NodeOf(HostDir) = Directory(TRUE)
      BY <2>2, Nodes
    <3> QED BY <2>2, <3>1, <3>2, <3>3
  <2>10. /\ \A q \in DOMAIN tree \ (made \cup gone) : tree'[q] = tree[q]
         /\ \A q \in DOMAIN disk \ (made \cup gone) : disk'[q] = disk[q]
    BY <2>5
  <2> HIDE DEF made, gone
  <2> QED BY <2>6, <2>7, <2>8, <2>9, <2>10, BothChange
<1> QED BY <1>2, <1>3

\* Every call on the user defaults; only synchronize touches the file system.
LEMMA DefaultsStepKeeps ==
  ASSUME HostInv, DefaultsStep
  PROVE  HostInv'
<1>1. synchronize \/ UNCHANGED fsVars
  BY DEF DefaultsStep, standardUserDefaults, setObject, removeObjectForKey, registerDefaults
<1>2. CASE UNCHANGED fsVars
  BY <1>2, SameTree DEF fsVars
<1> QED BY <1>1, <1>2, SynchronizeKeeps

\* Every step of an app that uses all of this.
LEMMA FilesNext ==
  ASSUME HostInv, ~SelfRename, HostTakes, [Next]_allVars
  PROVE  HostInv'
<1>1. CASE FsStep(TreePaths)
  BY <1>1, FsStepKeeps
<1>2. CASE IoStep({Abs(<<"Documents", "a">>)})
  BY <1>2, IoStepKeeps
<1>3. CASE StreamStep(FilePaths)
  BY <1>3, StreamStepKeeps
<1>4. CASE DirStep(DirPaths)
  <2>1. UNCHANGED fsVars
    BY <1>4, DirStepKeeps
  <2> QED BY <2>1, SameTree DEF fsVars
<1>5. CASE \E path : remove(path)
  BY <1>5, RemoveKeeps
<1>6. CASE \E path : write(path, <<1>>)
  BY <1>6, FileWriteKeeps
<1>7. CASE DefaultsStep
  BY <1>7, DefaultsStepKeeps
<1>8. CASE StartAgain
  BY <1>8, RestartKeeps DEF StartAgain, IoRestart
<1>9. CASE UNCHANGED allVars
  <2>1. UNCHANGED fsVars
    BY <1>9 DEF allVars, stdioVars, ioVars
  <2> QED BY <2>1, SameTree DEF fsVars
<1> QED BY <1>1, <1>2, <1>3, <1>4, <1>5, <1>6, <1>7, <1>8, <1>9 DEF Next

\* The invariant of the files, for an app that neither renames a file to itself
\* nor opens one both to append and to be emptied.
LEMMA HostInvariant ==
  ASSUME ~SelfRename, HostTakes
  PROVE  Spec => []HostInv
<1>1. Init => HostInv
  BY FirstStart DEF Init, DefaultsInit, StdioInit, IoInit
<1>2. HostInv /\ [Next]_allVars => HostInv'
  BY FilesNext
<1> QED BY <1>1, <1>2, PTL DEF Spec

\* The guest's tree and the host's files stay one through every sequence of
\* opens, writes, renames, removals, new directories, copies, descriptors,
\* streams, preferences and restarts (src/fs.rs): what one has the other has,
\* and handle_open_err never panics.
THEOREM FilesStayOne ==
  ASSUME ~SelfRename, HostTakes
  PROVE  Spec => []TreeIsHost
<1>1. HostInv => TreeIsHost
  BY BuiltAgrees
<1> QED BY <1>1, HostInvariant, PTL

\* A new start of the emulator (Fs::new) loses no file outside tmp, changes no
\* byte of one, and adds nothing but the standard directories.
LEMMA RestartKept ==
  ASSUME HostInv, Restart
  PROVE  FilesKept
<1> DEFINE kept == {p \in DOMAIN disk : p[1] # "tmp"}
           old == {p \in DOMAIN tree : p = <<>> \/ p[1] # "tmp"}
           now == {p \in DOMAIN tree' : p = <<>> \/ p[1] # "tmp"}
           standard == {<<"Documents">>, <<"Library">>, <<"tmp">>, <<"Library", "Preferences">>}
<1>1. Prepared(disk) = [p \in kept \cup MadeAtStart |-> IF p \in kept THEN disk[p] ELSE HostDir]
  BY DEF Prepared, MadeAtStart
<1>2. /\ disk' = [p \in kept \cup MadeAtStart |-> IF p \in kept THEN disk[p] ELSE HostDir]
      /\ data' = Forget(data, disk', {})
      /\ tree' = new(disk)
  BY <1>1 DEF Restart
<1>3. DOMAIN tree' = DOMAIN ReadOnlyTree \cup kept \cup MadeAtStart
  <2>1. DOMAIN from_host_dir(disk') = DOMAIN disk'
    BY DEF from_host_dir
  <2>2. tree' = new(disk) /\ disk' = Prepared(disk)
    BY DEF Restart
  <2> QED BY <1>2, <2>1, <2>2 DEF new
<1>4. MadeAtStart = standard /\ <<>> \in DOMAIN ReadOnlyTree
  BY MadeDirs, ReadOnlyNodes
<1>5. /\ DOMAIN tree = DOMAIN disk \cup DOMAIN ReadOnlyTree
      /\ DOMAIN disk \cap DOMAIN ReadOnlyTree = {}
  BY DEF HostInv, TreeIsBuilt
<1> HIDE DEF kept, standard
<1>6. old \subseteq now
  <2>1. ASSUME NEW p \in old PROVE p \in DOMAIN tree'
    <3>1. p \in DOMAIN ReadOnlyTree \/ (p \in DOMAIN disk /\ p[1] # "tmp")
      BY <1>4, <1>5
    <3> QED BY <1>3, <3>1 DEF kept
  <2> QED BY <2>1
<1>7. now \ old \subseteq {<<"Library">>, <<"Library", "Preferences">>, <<"Documents">>}
  <2>1. ASSUME NEW p \in now \ old PROVE p \in standard /\ p # <<"tmp">>
    <3>1. p \in DOMAIN tree' /\ p \notin DOMAIN ReadOnlyTree /\ p \notin kept
      BY <1>4, <1>5 DEF kept
    <3>2. p \in standard
      BY <1>3, <1>4, <3>1
    <3>3. p # <<"tmp">>
      <4>1. <<"tmp">>[1] = "tmp" /\ <<"tmp">> # <<>>
        OBVIOUS
      <4> QED BY <2>1, <4>1
    <3> QED BY <3>2, <3>3
  <2> QED BY <2>1 DEF standard
<1>8. ASSUME NEW p \in old, is_file(p), tree[p].location = "host"
      PROVE  disk'[p] = disk[p] /\ data'[disk[p]] = data[disk[p]]
  <2>1. p \in DOMAIN disk
    BY <1>8, TreeTells
  <2>2. p \in kept
    BY <1>4, <1>5, <2>1 DEF kept
  <2>3. p \in DOMAIN disk' /\ disk'[p] = disk[p]
    BY <1>2, <2>2
  <2>4. disk[p] \in DOMAIN data
    BY <1>8, <2>1, TreeTells DEF HostInv, InodesInv
  <2>5. data'[disk[p]] = data[disk[p]]
    BY <1>2, <2>3, <2>4 DEF Forget
  <2> QED BY <2>3, <2>5
<1> QED BY <1>6, <1>7, <1>8 DEF FilesKept

\* A set of natural numbers with a bound has a greatest element, which the
\* folds of sequences take first.
LEMMA Greatest ==
  ASSUME NEW n \in Nat, NEW s \in SUBSET (1 .. n), s # {}
  PROVE  Max(s) \in s /\ \A y \in s : Max(s) >= y
<1> DEFINE gaps == {n - x : x \in s}
<1>0. \A x \in s : x \in Int /\ n - x \in Nat
  OBVIOUS
<1>1. gaps \in SUBSET Nat /\ gaps # {}
  BY <1>0
<1>2. PICK m \in gaps : \A k \in gaps : m <= k
  BY <1>1, LeastNatural
<1>3. PICK x \in s : m = n - x
  BY <1>2
<1>4. ASSUME NEW y \in s PROVE x >= y
  <2>1. n - y \in gaps
    OBVIOUS
  <2> HIDE DEF gaps
  <2>2. n - x <= n - y
    BY <1>2, <1>3, <2>1
  <2> QED BY <2>2, <1>0
<1> QED BY <1>0, <1>4 DEF Max

\* What resolve_path's fold computes, for an absolute path: one component
\* after the other, from the first.
LEMMA PathFolds ==
  ASSUME NEW S, NEW q \in Seq(S)
  PROVE  \E g : /\ g[{}] = <<>>
                /\ \A s \in SUBSET DOMAIN q : s # {} =>
                     g[s] = apply_path_component(g[s \ {Max(s)}], q[Max(s)])
                /\ resolve_path([abs |-> TRUE, comps |-> q]) = g[DOMAIN q]
<1> DEFINE D == DOMAIN q
           V == Seq(S)
           c == [s \in SUBSET D |-> Max(s)]
           H == [p \in (SUBSET D) \X V |-> apply_path_component(p[2], q[c[p[1]]])]
<1>1. D = 1 .. Len(q) /\ Len(q) \in Nat /\ IsFiniteSet(D)
  BY FS_Interval
<1>2. ASSUME NEW s \in SUBSET D, s # {}
      PROVE  c[s] \in s /\ c[s] = Max(s) /\ q[c[s]] \in S
  <2>1. c[s] = Max(s)
    OBVIOUS
  <2>2. Max(s) \in s
    <3>1. s \in SUBSET (1 .. Len(q))
      BY <1>1
    <3> HIDE DEF D
    <3> QED BY <1>1, <1>2, <3>1, Greatest
  <2>3. \A i \in D : q[i] \in S
    OBVIOUS
  <2> QED BY <2>1, <2>2, <2>3
<1>3. ASSUME NEW v \in V, NEW x \in S PROVE apply_path_component(v, x) \in V
  <2>1. v # <<>> => Front(v) \in V
    BY FrontLast
  <2>2. Append(v, x) \in V /\ <<>> \in V
    BY AppendProperties, EmptySeq, Zenon
  <2> HIDE DEF V
  <2> QED BY <1>3, <2>1, <2>2 DEF apply_path_component
<1>4. \A s \in SUBSET D, v \in V : s # {} =>
          H[<<s, v>>] = apply_path_component(v, q[c[s]]) /\ H[<<s, v>>] \in V
  <2>1. ASSUME NEW s \in SUBSET D, NEW v \in V
        PROVE  H[<<s, v>>] = apply_path_component(v, q[c[s]])
    <3>1. <<s, v>> \in (SUBSET D) \X V /\ <<s, v>>[1] = s /\ <<s, v>>[2] = v
      OBVIOUS
    <3>2. \A p \in (SUBSET D) \X V : H[p] = apply_path_component(p[2], q[c[p[1]]])
      BY Zenon
    <3> HIDE DEF H, c, D, V
    <3> QED BY <3>1, <3>2, Zenon
  <2> HIDE DEF c, H, V
  <2> QED BY <1>2, <1>3, <2>1
<1>5. <<>> \in V
  OBVIOUS
<1> HIDE DEF c, H, V
<1>6. Recursion(D, V, <<>>, c, H)
  BY <1>1, <1>2, <1>4, <1>5 DEF Recursion
<1>7. PICK g \in [SUBSET D -> V] : Unfolds(g, SUBSET D, <<>>, c, H)
  BY <1>6, SetRecursion
<1>8. \A s \in SUBSET D : g[s] = IF s = {} THEN <<>>
                                 ELSE apply_path_component(g[s \ {Max(s)}], q[Max(s)])
  <2>1. ASSUME NEW s \in SUBSET D, s # {}
        PROVE  g[s] = apply_path_component(g[s \ {Max(s)}], q[Max(s)])
    <3>1. g[s] = H[<<s, g[s \ {c[s]}]>>] /\ g[s \ {c[s]}] \in V
      BY <1>7, <2>1 DEF Unfolds
    <3> QED BY <1>2, <1>4, <2>1, <3>1
  <2>2. g[{}] = <<>>
    BY <1>7 DEF Unfolds
  <2> QED BY <2>1, <2>2
<1> DEFINE k == [s \in SUBSET D |-> IF s = {} THEN <<>>
                                 ELSE apply_path_component(g[s \ {Max(s)}], q[Max(s)])]
           iter == CHOOSE h : h = [s \in SUBSET D |-> IF s = {} THEN <<>>
                                 ELSE apply_path_component(h[s \ {Max(s)}], q[Max(s)])]
<1>9. g = k
  <2>1. k = [s \in SUBSET D |-> k[s]] /\ g = [s \in SUBSET D |-> g[s]]
    BY <1>7
  <2>2. \A s \in SUBSET D : g[s] = k[s]
    BY <1>8
  <2> HIDE DEF k
  <2> QED BY <2>1, <2>2
<1>10. iter = [s \in SUBSET D |-> IF s = {} THEN <<>>
                  ELSE apply_path_component(iter[s \ {Max(s)}], q[Max(s)])]
  BY <1>9, Zenon
<1>11. resolve_path([abs |-> TRUE, comps |-> q]) = iter[D]
  BY DEF resolve_path, FoldLeft, MapThenFoldSet
<1> HIDE DEF iter, D
<1>12. \A s \in SUBSET D : s # {} => iter[s] = apply_path_component(iter[s \ {Max(s)}], q[Max(s)])
  BY <1>10
<1>13. iter[{}] = <<>>
  BY <1>10
<1> QED BY <1>11, <1>12, <1>13 DEF D

\* The preferences' directory and file are where their components say.
LEMMA PrefsPaths ==
  /\ resolve_path(PrefsDir) = <<"Library", "Preferences">>
  /\ resolve_path(PlistFile) = <<"Library", "Preferences", "plist">>
<1>1. Max({1}) = 1 /\ Max({1, 2}) = 2 /\ Max({1, 2, 3}) = 3
  <2>1. Max({1}) \in {1}
    BY Greatest, {1} \in SUBSET (1 .. 3), {1} # {}
  <2>2. Max({1, 2}) \in {1, 2} /\ \A y \in {1, 2} : Max({1, 2}) >= y
    BY Greatest, {1, 2} \in SUBSET (1 .. 3), {1, 2} # {}
  <2>3. Max({1, 2, 3}) \in {1, 2, 3} /\ \A y \in {1, 2, 3} : Max({1, 2, 3}) >= y
    BY Greatest, {1, 2, 3} \in SUBSET (1 .. 3), {1, 2, 3} # {}
  <2> QED BY <2>1, <2>2, <2>3
<1>2. /\ \A v : apply_path_component(v, "Library") = Append(v, "Library")
      /\ \A v : apply_path_component(v, "Preferences") = Append(v, "Preferences")
      /\ \A v : apply_path_component(v, "plist") = Append(v, "plist")
  BY DEF apply_path_component
<1>3. /\ {1} \ {1} = {} /\ {1, 2} \ {2} = {1} /\ {1, 2, 3} \ {3} = {1, 2}
      /\ {1} # {} /\ {1, 2} # {} /\ {1, 2, 3} # {}
  OBVIOUS
<1> DEFINE Names == {"Library", "Preferences", "plist"}
<1>4. "Library" \in Names /\ "Preferences" \in Names /\ "plist" \in Names
  OBVIOUS
<1> HIDE DEF Names
<1>5. ASSUME NEW a \in Names, NEW b \in Names, NEW c \in Names
      PROVE  /\ <<a, b>> \in Seq(Names) /\ <<a, b, c>> \in Seq(Names)
             /\ Append(Append(<<>>, a), b) = <<a, b>>
             /\ Append(Append(Append(<<>>, a), b), c) = <<a, b, c>>
  <2>1. /\ <<a, b>> \in Seq(Names) /\ <<a, b, c>> \in Seq(Names)
        /\ Append(<<>>, a) = <<a>> /\ Append(<<a>>, b) = <<a, b>>
        /\ Append(<<a, b>>, c) = <<a, b, c>>
    BY Appended
  <2> QED BY <2>1
<1>6. resolve_path(PrefsDir) = <<"Library", "Preferences">>
  <2> DEFINE q == <<"Library", "Preferences">>
  <2>1. q \in Seq(Names) /\ Append(Append(<<>>, "Library"), "Preferences") = q
    BY <1>4, <1>5
  <2>2. DOMAIN q = {1, 2} /\ q[1] = "Library" /\ q[2] = "Preferences"
    OBVIOUS
  <2> HIDE DEF q
  <2>3. PICK g : /\ g[{}] = <<>>
                 /\ \A s \in SUBSET DOMAIN q : s # {} =>
                      g[s] = apply_path_component(g[s \ {Max(s)}], q[Max(s)])
                 /\ resolve_path([abs |-> TRUE, comps |-> q]) = g[DOMAIN q]
    BY <2>1, PathFolds
  <2>4. \A s \in SUBSET {1, 2} : s # {} => g[s] = apply_path_component(g[s \ {Max(s)}], q[Max(s)])
    BY <2>2, <2>3
  <2>5. g[{1}] = apply_path_component(g[{}], "Library")
    <3>1. {1} \in SUBSET {1, 2}
      OBVIOUS
    <3> QED BY <2>2, <2>4, <1>1, <1>3, <3>1, Zenon
  <2>6. g[{1, 2}] = apply_path_component(g[{1}], "Preferences")
    <3>1. {1, 2} \in SUBSET {1, 2}
      OBVIOUS
    <3> QED BY <2>2, <2>4, <1>1, <1>3, <3>1, Zenon
  <2>7. g[{1, 2}] = q
    BY <1>2, <2>1, <2>3, <2>5, <2>6, Zenon
  <2> QED BY <2>2, <2>3, <2>7, Zenon DEF PrefsDir, q
<1>7. resolve_path(PlistFile) = <<"Library", "Preferences", "plist">>
  <2> DEFINE q == <<"Library", "Preferences", "plist">>
  <2>1. q \in Seq(Names) /\ Append(Append(Append(<<>>, "Library"), "Preferences"), "plist") = q
    BY <1>4, <1>5
  <2>2. DOMAIN q = {1, 2, 3} /\ q[1] = "Library" /\ q[2] = "Preferences" /\ q[3] = "plist"
    OBVIOUS
  <2> HIDE DEF q
  <2>3. PICK g : /\ g[{}] = <<>>
                 /\ \A s \in SUBSET DOMAIN q : s # {} =>
                      g[s] = apply_path_component(g[s \ {Max(s)}], q[Max(s)])
                 /\ resolve_path([abs |-> TRUE, comps |-> q]) = g[DOMAIN q]
    BY <2>1, PathFolds
  <2>4. \A s \in SUBSET {1, 2, 3} : s # {} => g[s] = apply_path_component(g[s \ {Max(s)}], q[Max(s)])
    BY <2>2, <2>3
  <2>5. g[{1}] = apply_path_component(g[{}], "Library")
    <3>1. {1} \in SUBSET {1, 2, 3}
      OBVIOUS
    <3> QED BY <2>2, <2>4, <1>1, <1>3, <3>1, Zenon
  <2>6. g[{1, 2}] = apply_path_component(g[{1}], "Preferences")
    <3>1. {1, 2} \in SUBSET {1, 2, 3}
      OBVIOUS
    <3> QED BY <2>2, <2>4, <1>1, <1>3, <3>1, Zenon
  <2>7. g[{1, 2, 3}] = apply_path_component(g[{1, 2}], "plist")
    <3>1. {1, 2, 3} \in SUBSET {1, 2, 3}
      OBVIOUS
    <3> QED BY <2>2, <2>4, <1>1, <1>3, <3>1, Zenon
  <2>8. g[{1, 2, 3}] = q
    <3>1. g[{1}] = Append(<<>>, "Library")
      BY <1>2, <2>3, <2>5, Zenon
    <3>2. g[{1, 2}] = Append(g[{1}], "Preferences") /\ g[{1, 2, 3}] = Append(g[{1, 2}], "plist")
      BY <1>2, <2>6, <2>7, Zenon
    <3> QED BY <2>1, <3>1, <3>2, Zenon
  <2> QED BY <2>2, <2>3, <2>8, Zenon DEF PlistFile, q
<1> QED BY <1>6, <1>7

\* The preferences file holds what synchronize wrote last; in a behaviour in
\* which the app does not use preferences there are none.
Plist == <<"Library", "Preferences", "plist">>
SavedInv ==
    /\ Plist \notin DOMAIN disk => saved = Empty
    /\ Plist \in DOMAIN disk => disk[Plist] \in Inodes /\ data[disk[Plist]] = serialize_plist(saved)
PrefsInv ==
    IF part = "defaults" THEN SavedInv
    ELSE app = Unloaded /\ registered = Empty /\ saved = Empty

\* standardUserDefaults finds what was saved.
LEMMA LoadsSaved ==
  ASSUME HostInv, PrefsInv, standardUserDefaults, part = "defaults"
  PROVE  app' = saved
<1>1. app' = deserialize_plist_from_file(Plist)
  BY PrefsPaths DEF standardUserDefaults, Plist
<1>2. CASE Plist \in DOMAIN disk
  <2>1. /\ disk[Plist] # HostDir
        /\ data[disk[Plist]] = <<saved>>
    <3>1. disk[Plist] \in Inodes /\ data[disk[Plist]] = <<saved>>
      BY <1>2 DEF PrefsInv, SavedInv, serialize_plist
    <3> QED BY <3>1, FsAssumption DEF HostDir
  <2> QED BY <1>1, <1>2, <2>1 DEF deserialize_plist_from_file
<1>3. CASE Plist \notin DOMAIN disk
  BY <1>1, <1>3 DEF PrefsInv, SavedInv, deserialize_plist_from_file
<1> QED BY <1>2, <1>3

\* Synchronizing, in the tree's and the host's terms.
LEMMA SynchronizeSaves ==
  ASSUME HostInv, SavedInv, synchronize
  PROVE  SavedInv'
<1> DEFINE dir == <<"Library", "Preferences">>
           made == IF ~lookup_node(dir) /\ ParentIsDir(dir) /\ tree[Front(dir)].writeable
                   THEN {dir} ELSE {}
           i == IF Plist \in DOMAIN disk THEN disk[Plist]
                ELSE CHOOSE f \in FreeInodes : \A g \in FreeInodes : f <= g
<1>1. resolve_path(PrefsDir) = dir /\ resolve_path(PlistFile) = Plist
  BY PrefsPaths DEF Plist
<1>2. CASE UNCHANGED <<fsVars, saved>>
  BY <1>2 DEF fsVars, SavedInv
<1>3. CASE ~UNCHANGED <<fsVars, saved>>
  <2>1. /\ Plist \in DOMAIN disk \/ FreeInodes # {}
        /\ disk' = [q \in DOMAIN disk \cup made \cup {Plist} |->
                     CASE q = Plist -> i [] q \in made \ {Plist} -> HostDir
                       [] OTHER -> disk[q]]
        /\ data' = [data EXCEPT ![i] = serialize_plist(app)]
        /\ saved' = app
    BY <1>1, <1>3 DEF synchronize
  <2>2. i \in Inodes
    BY <2>1, FreeInode DEF SavedInv, FreeInodes
  <2> HIDE DEF i, made
  <2>3. i \in DOMAIN data
    BY <2>2 DEF HostInv, InodesInv
  <2>4. Plist \in DOMAIN disk' /\ disk'[Plist] = i /\ data'[i] = serialize_plist(app)
    BY <2>1, <2>3
  <2>5. serialize_plist(app) = serialize_plist(saved)'
    BY <2>1 DEF serialize_plist
  <2> QED BY <2>2, <2>4, <2>5 DEF SavedInv
<1> QED BY <1>2, <1>3

\* Removing the directory is only possible without the file.
LEMMA RemoveSaves ==
  ASSUME HostInv, SavedInv, remove(PrefsDir), UNCHANGED saved
  PROVE  SavedInv'
<1> DEFINE dir == <<"Library", "Preferences">>
<1>1. resolve_path(PrefsDir) = dir /\ Plist # dir
  BY PrefsPaths DEF Plist
<1>2. CASE Surprised
  BY <1>2 DEF Surprised, SavedInv, serialize_plist
<1>3. CASE ~Surprised
  <2>1. disk' = Without(disk, dir) /\ data' = Forget(data, disk', open)
    BY <1>1, <1>3 DEF remove
  <2> HIDE DEF dir
  <2>2. DOMAIN disk' = DOMAIN disk \ {dir} /\ \A q \in DOMAIN disk \ {dir} : disk'[q] = disk[q]
    BY <2>1 DEF Without
  <2>3. CASE Plist \notin DOMAIN disk
    BY <1>1, <2>2, <2>3 DEF SavedInv
  <2>4. CASE Plist \in DOMAIN disk
    <3>1. Plist \in DOMAIN disk' /\ disk'[Plist] = disk[Plist] /\ disk[Plist] \in DOMAIN data
      BY <1>1, <2>2, <2>4 DEF SavedInv, HostInv, InodesInv
    <3>2. data'[disk[Plist]] = data[disk[Plist]]
      BY <2>1, <3>1 DEF Forget
    <3> QED BY <2>4, <3>1, <3>2 DEF SavedInv, serialize_plist
  <2> QED BY <2>3, <2>4
<1> QED BY <1>2, <1>3

\* A new start keeps the preferences file.
LEMMA RestartSaves ==
  ASSUME HostInv, SavedInv, Restart, UNCHANGED saved
  PROVE  SavedInv'
<1> DEFINE kept == {p \in DOMAIN disk : p[1] # "tmp"}
<1>1. disk' = [p \in kept \cup MadeAtStart |-> IF p \in kept THEN disk[p] ELSE HostDir]
  BY DEF Restart, Prepared, MadeAtStart
<1>2. Plist \notin MadeAtStart /\ Plist[1] # "tmp"
  <2>1. Plist # <<"Documents">> /\ Plist # <<"Library">> /\ Plist # <<"tmp">>
        /\ Plist # <<"Library", "Preferences">> /\ Plist[1] # "tmp"
    BY DEF Plist
  <2> QED BY <2>1, MadeDirs
<1>3. CASE Plist \notin DOMAIN disk
  BY <1>1, <1>2, <1>3 DEF SavedInv
<1>4. CASE Plist \in DOMAIN disk
  <2>1. Plist \in DOMAIN disk' /\ disk'[Plist] = disk[Plist] /\ disk[Plist] \in DOMAIN data
    BY <1>1, <1>2, <1>4 DEF SavedInv, HostInv, InodesInv
  <2>2. data'[disk[Plist]] = data[disk[Plist]]
    BY <2>1 DEF Forget, Restart
  <2> QED BY <1>4, <2>1, <2>2 DEF SavedInv, serialize_plist
<1> QED BY <1>3, <1>4

\* At the first start there is no preferences file.
LEMMA FirstPrefs ==
  ASSUME Init
  PROVE  PrefsInv
<1>1. app = Unloaded /\ registered = Empty /\ saved = Empty /\ FsInit
  BY DEF Init, DefaultsInit
<1>2. Plist \notin DOMAIN disk
  <2> DEFINE names == SetToSeq(DOMAIN Documents)
             host == [p \in DOMAIN Documents |-> CHOOSE i \in 1..Len(names) : names[i] = p]
             kept == {p \in DOMAIN host : p[1] # "tmp"}
  <2>1. disk = Prepared(host)
    BY <1>1 DEF FsInit
  <2>2. DOMAIN disk = kept \cup MadeAtStart
    BY <2>1 DEF Prepared, MadeAtStart
  <2>3. kept \subseteq DOMAIN Documents
    OBVIOUS
  <2>4. Len(Plist) = 3
    BY DEF Plist
  <2>5. Plist \notin MadeAtStart
    <3>1. /\ Plist # <<"Documents">> /\ Plist # <<"Library">> /\ Plist # <<"tmp">>
          /\ Plist # <<"Library", "Preferences">>
      BY DEF Plist
    <3> QED BY <3>1, MadeDirs
  <2>6. \A p \in DOMAIN Documents : Len(p) = 2
    BY FsAssumption
  <2> HIDE DEF kept
  <2>7. Plist \notin DOMAIN Documents
    BY <2>4, <2>6
  <2> QED BY <2>2, <2>3, <2>5, <2>7
<1> QED BY <1>1, <1>2 DEF PrefsInv, SavedInv

\* Each step of an app.
LEMMA PrefsNext ==
  ASSUME HostInv, PrefsInv, [Next]_allVars
  PROVE  PrefsInv'
<1>1. CASE UNCHANGED allVars
  <2>1. UNCHANGED <<fsVars, app, registered, saved, part>>
    BY <1>1 DEF allVars, stdioVars, ioVars
  <2> QED BY <2>1 DEF fsVars, PrefsInv, SavedInv, serialize_plist
<1>2. CASE Next /\ part # "defaults"
  <2>1. part' = part /\ (UNCHANGED <<app, registered, saved>> \/ DefaultsRestart)
    BY <1>2 DEF Next, others, StartAgain
  <2>2. app' = Unloaded /\ registered' = Empty /\ saved' = Empty
    BY <1>2, <2>1 DEF PrefsInv, DefaultsRestart
  <2> QED BY <1>2, <2>1, <2>2 DEF PrefsInv
<1>3. CASE Next /\ part = "defaults"
  <2>0. part' = part /\ SavedInv
    BY <1>3 DEF Next, PrefsInv
  <2>1. CASE UNCHANGED <<fsVars, saved>>
    BY <1>3, <2>0, <2>1 DEF fsVars, PrefsInv, SavedInv, serialize_plist
  <2>2. CASE synchronize
    BY <1>3, <2>0, <2>2, SynchronizeSaves DEF PrefsInv
  <2>3. CASE remove(PrefsDir) /\ UNCHANGED <<app, registered, saved>>
    BY <1>3, <2>0, <2>3, RemoveSaves DEF PrefsInv
  <2>4. CASE StartAgain
    <3>1. Restart /\ UNCHANGED saved
      BY <2>4 DEF StartAgain, DefaultsRestart
    <3> QED BY <1>3, <2>0, <3>1, RestartSaves DEF PrefsInv
  <2>5. CASE DefaultsStep
    <3>1. synchronize \/ UNCHANGED <<fsVars, saved>>
      BY <2>5 DEF DefaultsStep, standardUserDefaults, setObject, registerDefaults, removeObjectForKey
    <3> QED BY <2>1, <2>2, <3>1
  <2> QED BY <1>3, <2>3, <2>4, <2>5 DEF Next
<1> QED BY <1>1, <1>2, <1>3

\* No restart loses a file or a saved preference: every file outside tmp is
\* there after a new start with the same bytes and nothing else has appeared
\* (Fs::new in src/fs.rs), and standardUserDefaults loads exactly what the app
\* synchronized last (src/frameworks/foundation/ns_user_defaults.rs).
THEOREM RestartsKeepData ==
  ASSUME ~SelfRename, HostTakes
  PROVE  Spec => RestartKeepsData
<1> DEFINE DataKept == (Restart => FilesKept) /\ (standardUserDefaults => app' = saved)
<1>1. Init => PrefsInv
  BY FirstPrefs
<1>2. HostInv /\ PrefsInv /\ [Next]_allVars => PrefsInv'
  BY PrefsNext
<1>3. HostInv /\ PrefsInv /\ [Next]_allVars => [DataKept]_defaultsVars
  <2> SUFFICES ASSUME HostInv, PrefsInv, [Next]_allVars, ~UNCHANGED defaultsVars
               PROVE  DataKept
    OBVIOUS
  <2>1. Restart => FilesKept
    BY RestartKept
  <2>2. ASSUME standardUserDefaults PROVE app' = saved
    <3>1. CASE part = "defaults"
      BY <2>2, <3>1, LoadsSaved
    <3>2. CASE part # "defaults"
      <4>1. Next
        <5>1. UNCHANGED allVars => UNCHANGED defaultsVars
          BY DEF allVars, stdioVars, ioVars, defaultsVars
        <5> QED BY <5>1
      <4>2. UNCHANGED <<app, registered, saved>> \/ DefaultsRestart
        BY <3>2, <4>1 DEF Next, others, StartAgain
      <4>3. app = Unloaded /\ registered = Empty /\ saved = Empty
        BY <3>2 DEF PrefsInv
      <4>4. UNCHANGED <<fsVars, saved>> /\ registered' = Empty
        BY <2>2 DEF standardUserDefaults
      <4>5. app' = app
        BY <4>2, <4>3 DEF DefaultsRestart
      <4>6. UNCHANGED defaultsVars
        BY <4>3, <4>4, <4>5 DEF defaultsVars
      <4> QED BY <4>6
    <3> QED BY <3>1, <3>2
  <2> QED BY <2>1, <2>2
<1> QED BY <1>1, <1>2, <1>3, HostInvariant, PTL DEF Spec, RestartKeepsData

-----------------------------------------------------------------------------
(* Streams and directories: what is read is there once and in order        *)

\* s is m bytes of b from an offset on.
IsSlice(s, b, at, m) ==
    s \in Seq(Nat) /\ Len(s) = m /\ \A k \in 1 .. m : s[k] = b[at + k]

\* Up to n bytes from an offset that is not past the end.
LEMMA SliceIs ==
  ASSUME NEW b \in Seq(Nat), NEW at \in Nat, at <= Len(b), NEW n \in Nat
  PROVE  \E m \in 0 .. n : /\ at + m <= Len(b)
                           /\ m = n \/ at + m = Len(b)
                           /\ IsSlice(Slice(b, at, n), b, at, m)
<1>1. PICK l \in Nat : l = Len(b) /\ at <= l
  OBVIOUS
<1>2. PICK m \in 0 .. n : at + m = IF at + n < Len(b) THEN at + n ELSE Len(b)
  <2>1. CASE at + n < l
    BY <1>1, <2>1
  <2>2. CASE at + n >= l
    <3>1. l - at \in 0 .. n /\ at + (l - at) = l
      BY <1>1, <2>2
    <3> QED BY <1>1, <2>2, <3>1
  <2> QED BY <1>1, <2>1, <2>2
<1>3. /\ at + 1 \in Int /\ at + m \in Int /\ at + m <= l /\ (m = n \/ at + m = l)
      /\ (at + m) - (at + 1) + 1 = m /\ (at + 1 <= at + m <=> m >= 1)
  BY <1>1, <1>2
<1>4. \A i \in at + 1 .. at + m : b[i] \in Nat
  <2>1. \A i \in at + 1 .. at + m : i \in 1 .. Len(b)
    BY <1>1, <1>3
  <2> QED BY <2>1, ElementOfSeq
<1>5. PICK p \in Int, q \in Int : p = at + 1 /\ q = at + m
  BY <1>3
<1>6. Slice(b, at, n) = SubSeq(b, p, q)
  BY <1>2, <1>5 DEF Slice
<1>7. /\ SubSeq(b, p, q) \in Seq(Nat)
      /\ Len(SubSeq(b, p, q)) = IF p <= q THEN q - p + 1 ELSE 0
      /\ \A i \in 1 .. q - p + 1 : SubSeq(b, p, q)[i] = b[p + i - 1]
  <2>1. \A i \in p .. q : b[i] \in Nat
    BY <1>4, <1>5
  <2> QED BY <2>1, SubSeqProperties
<1>8. q - p + 1 = m /\ (p <= q <=> m >= 1) /\ \A i \in 1 .. m : p + i - 1 = at + i
  BY <1>5
<1>9. Len(SubSeq(b, p, q)) = m
  <2>1. CASE p <= q
    BY <1>7, <1>8, <2>1
  <2>2. CASE ~(p <= q)
    BY <1>7, <1>8, <2>2
  <2> QED BY <2>1, <2>2
<1>10. \A i \in 1 .. m : SubSeq(b, p, q)[i] = b[at + i]
  BY <1>7, <1>8
<1> QED BY <1>1, <1>3, <1>6, <1>7, <1>9, <1>10 DEF IsSlice

\* The bytes up to an offset.
LEMMA FirstBytes ==
  ASSUME NEW b \in Seq(Nat), NEW at \in Nat, at <= Len(b)
  PROVE  IsSlice(Slice(b, 0, at), b, 0, at)
<1>1. PICK z \in Nat, l \in Nat : z = 0 /\ l = Len(b) /\ z <= l
  OBVIOUS
<1>2. PICK m \in 0 .. at : /\ z + m <= Len(b) /\ (m = at \/ z + m = Len(b))
                           /\ IsSlice(Slice(b, z, at), b, z, m)
  BY <1>1, SliceIs
<1>3. m = at
  BY <1>1, <1>2
<1> QED BY <1>1, <1>2, <1>3

\* A slice followed by the next one is the slice of both.
LEMMA SlicesMeet ==
  ASSUME NEW s, NEW t, NEW w, NEW b, NEW at \in Nat, NEW m \in Nat,
         IsSlice(s, b, 0, at), IsSlice(t, b, at, m), IsSlice(w, b, 0, at + m)
  PROVE  s \o t = w
<1>1. /\ s \in Seq(Nat) /\ Len(s) = at /\ \A k \in 1 .. at : s[k] = b[0 + k]
      /\ t \in Seq(Nat) /\ Len(t) = m /\ \A k \in 1 .. m : t[k] = b[at + k]
      /\ w \in Seq(Nat) /\ Len(w) = at + m /\ \A k \in 1 .. at + m : w[k] = b[0 + k]
  BY DEF IsSlice
<1>2. /\ s \o t \in Seq(Nat) /\ Len(s \o t) = at + m
      /\ \A k \in 1 .. at + m : (s \o t)[k] = IF k <= at THEN s[k] ELSE t[k - at]
  BY <1>1, ConcatProperties
<1>3. \A k \in 1 .. at + m : (s \o t)[k] = w[k]
  <2>1. SUFFICES ASSUME NEW k \in 1 .. at + m PROVE (s \o t)[k] = w[k]
    OBVIOUS
  <2>2. CASE k <= at
    <3>1. k \in 1 .. at /\ (s \o t)[k] = s[k]
      BY <1>2, <2>2
    <3> QED BY <1>1, <3>1
  <2>3. CASE ~(k <= at)
    <3>1. k - at \in 1 .. m /\ at + (k - at) = k /\ 0 + k = k
      BY <2>3
    <3>2. (s \o t)[k] = t[k - at]
      BY <1>2, <2>3
    <3>3. t[k - at] = b[at + (k - at)]
      BY <1>1, <3>1
    <3>4. w[k] = b[0 + k]
      BY <1>1
    <3> QED BY <3>1, <3>2, <3>3, <3>4
  <2> QED BY <2>2, <2>3
<1> QED BY <1>1, <1>2, <1>3, SeqEqual

\* What was read so far and what is read next are together what is read then.
LEMMA TakeMore ==
  ASSUME NEW b \in Seq(Nat), NEW at \in Nat, at <= Len(b), NEW n \in Nat
  PROVE  \E m \in 0 .. n : /\ at + m <= Len(b) /\ (m = n \/ at + m = Len(b))
                           /\ Len(Slice(b, at, n)) = m
                           /\ Slice(b, 0, at) \o Slice(b, at, n) = Slice(b, 0, at + m)
<1>1. PICK m \in 0 .. n : /\ at + m <= Len(b) /\ (m = n \/ at + m = Len(b))
                          /\ IsSlice(Slice(b, at, n), b, at, m)
  BY SliceIs
<1>2. IsSlice(Slice(b, 0, at), b, 0, at)
  BY FirstBytes
<1>3. m \in Nat /\ at + m \in Nat /\ IsSlice(Slice(b, 0, at + m), b, 0, at + m)
  BY <1>1, FirstBytes
<1>4. Slice(b, 0, at) \o Slice(b, at, n) = Slice(b, 0, at + m)
  BY <1>1, <1>2, <1>3, SlicesMeet
<1> QED BY <1>1, <1>4 DEF IsSlice

\* One byte more, and one less.
LEMMA TakeOne ==
  ASSUME NEW b \in Seq(Nat), NEW at \in Nat, at < Len(b)
  PROVE  /\ b[at + 1] \in Nat
         /\ Slice(b, 0, at) \o <<b[at + 1]>> = Slice(b, 0, at + 1)
         /\ Last(Slice(b, 0, at + 1)) = b[at + 1] /\ Front(Slice(b, 0, at + 1)) = Slice(b, 0, at)
<1>1. /\ at + 1 \in 1 .. Len(b) /\ at + 1 \in Nat /\ at + 1 <= Len(b) /\ at <= Len(b)
      /\ b[at + 1] \in Nat
  BY ElementOfSeq
<1>2. PICK x \in Nat : x = b[at + 1]
  BY <1>1
<1>3. IsSlice(Slice(b, 0, at), b, 0, at) /\ IsSlice(Slice(b, 0, at + 1), b, 0, at + 1)
  BY <1>1, FirstBytes
<1>4. IsSlice(<<x>>, b, at, 1)
  <2>1. <<x>> \in Seq(Nat) /\ Len(<<x>>) = 1 /\ <<x>>[1] = x
    OBVIOUS
  <2>2. \A k \in 1 .. 1 : k = 1
    OBVIOUS
  <2> QED BY <1>2, <2>1, <2>2 DEF IsSlice
<1>5. Slice(b, 0, at) \o <<x>> = Slice(b, 0, at + 1)
  BY <1>3, <1>4, SlicesMeet
<1>6. PICK s \in Seq(Nat), w \in Seq(Nat) : s = Slice(b, 0, at) /\ w = Slice(b, 0, at + 1)
  BY <1>3 DEF IsSlice
<1>7. /\ Len(s) = at /\ Len(w) = at + 1
      /\ \A k \in 1 .. at : s[k] = b[0 + k]
      /\ \A k \in 1 .. at + 1 : w[k] = b[0 + k]
  BY <1>3, <1>6 DEF IsSlice
<1>8. w # <<>>
  BY <1>7
<1>9. /\ Last(w) = w[Len(w)] /\ Front(w) \in Seq(Nat) /\ Len(Front(w)) = Len(w) - 1
      /\ \A i \in 1 .. Len(w) - 1 : Front(w)[i] = w[i]
  BY <1>8, FrontLast
<1>10. Last(w) = x
  <2>1. w[at + 1] = b[0 + (at + 1)] /\ 0 + (at + 1) = at + 1
    BY <1>1, <1>7
  <2> QED BY <1>2, <1>7, <1>9, <2>1
<1>11. Front(w) = s
  <2>1. Len(Front(w)) = at
    BY <1>7, <1>9
  <2>2. \A i \in 1 .. at : i \in 1 .. Len(w) - 1 /\ i \in 1 .. at + 1
    BY <1>7
  <2>3. \A i \in 1 .. at : Front(w)[i] = s[i]
    BY <1>7, <1>9, <2>2
  <2> QED BY <1>7, <1>9, <2>1, <2>3, SeqEqual
<1> QED BY <1>1, <1>2, <1>5, <1>6, <1>10, <1>11

\* Open files and streams.
FileRecord ==
    [kind : {"file", "dir"}, inode : Inodes \cup {IpaInode}, pos : Nat, eof : BOOLEAN,
     read : BOOLEAN, write : BOOLEAN, append : BOOLEAN]
StreamRecord == [fd : Nat, pushbacks : Seq(Nat), taken : Seq(Nat)]

\* The bundle's file keeps its bytes; every stream has a descriptor of its own.
BytesInv == data \in [Inodes \cup {IpaInode} -> Seq(Nat)] /\ data[IpaInode] = IpaBytes
FilesTyped == files \in Seq(FileRecord \cup {NoFile})
FdsInv ==
    /\ file_streams \in [Streams -> StreamRecord]
    /\ \A s \in Streams : IsOpen(file_streams[s].fd)
    /\ \A s, t \in Streams : file_streams[s].fd = file_streams[t].fd => s = t

\* What a stream of the bundle has given to the app is the file up to its
\* offset, and what was pushed back is what comes next, the last pushed first.
FitsAt(pb, tk, pos, eof) ==
    /\ pos + Len(pb) <= Len(IpaBytes)
    /\ tk = Slice(IpaBytes, 0, pos)
    /\ \A k \in 1 .. Len(pb) : pb[k] = IpaBytes[pos + Len(pb) + 1 - k]
    /\ eof => pos = Len(IpaBytes)
StreamFits(st, f) ==
    f.kind = "file" /\ f.inode = IpaInode => FitsAt(st.pushbacks, st.taken, f.pos, f.eof)
StreamsInv ==
    /\ HostInv /\ BytesInv /\ FilesTyped /\ FdsInv
    /\ \A s \in Streams : StreamFits(file_streams[s], FileOf(s))

\* A file's record with another offset and another indicator.
At(f, pos, eof) ==
    [kind |-> f.kind, inode |-> f.inode, pos |-> pos, eof |-> eof,
     read |-> f.read, write |-> f.write, append |-> f.append]

\* What an open file's record has.
LEMMA FileParts ==
  ASSUME NEW f \in FileRecord
  PROVE  /\ f.kind \in {"file", "dir"} /\ f.inode \in Inodes \cup {IpaInode} /\ f.pos \in Nat
         /\ f.eof \in BOOLEAN /\ f.read \in BOOLEAN /\ f.write \in BOOLEAN /\ f.append \in BOOLEAN
         /\ f # NoFile
BY DEF FileRecord, NoFile

\* g is the same open file as f, with these.
IsAt(g, f, pos, eof) ==
    g \in FileRecord /\ g.kind = f.kind /\ g.inode = f.inode /\ g.pos = pos /\ g.eof = eof

\* At makes the record of such a file.
LEMMA AtIs ==
  ASSUME NEW f \in FileRecord, NEW p \in Nat, NEW e \in BOOLEAN
  PROVE  IsAt(At(f, p, e), f, p, e)
<1>1. At(f, p, e) \in FileRecord
  BY FileParts DEF FileRecord, At
<1> QED BY <1>1 DEF At, IsAt

\* What the code's assignments to a file's fields make of it.
LEMMA Assigned ==
  ASSUME NEW f \in FileRecord, NEW p \in Nat, NEW e \in BOOLEAN
  PROVE  /\ [f EXCEPT !.pos = p, !.eof = e] = At(f, p, e)
         /\ [f EXCEPT !.eof = e] = At(f, f.pos, e)
         /\ [f EXCEPT !.pos = p] = At(f, p, f.eof)
<1>1. f = [kind |-> f.kind, inode |-> f.inode, pos |-> f.pos, eof |-> f.eof,
           read |-> f.read, write |-> f.write, append |-> f.append]
  BY DEF FileRecord
<1>2. PICK k \in {"file", "dir"}, i \in Inodes \cup {IpaInode}, q \in Nat, d \in BOOLEAN,
           ro \in BOOLEAN, wo \in BOOLEAN, ao \in BOOLEAN :
        f = [kind |-> k, inode |-> i, pos |-> q, eof |-> d, read |-> ro, write |-> wo, append |-> ao]
  BY <1>1, FileParts
<1>3. [f EXCEPT !.eof = e] = [kind |-> k, inode |-> i, pos |-> q, eof |-> e, read |-> ro, write |-> wo, append |-> ao]
  BY <1>2
<1>6. [f EXCEPT !.pos = p] = [kind |-> k, inode |-> i, pos |-> p, eof |-> d, read |-> ro, write |-> wo, append |-> ao]
  BY <1>2
<1>4. [f EXCEPT !.pos = p, !.eof = e]
        = [kind |-> k, inode |-> i, pos |-> p, eof |-> e, read |-> ro, write |-> wo, append |-> ao]
  <2>1. PICK g : g = [kind |-> k, inode |-> i, pos |-> p, eof |-> d, read |-> ro, write |-> wo, append |-> ao]
    OBVIOUS
  <2>2. [f EXCEPT !.pos = p] = g
    BY <1>2, <2>1
  <2>3. [g EXCEPT !.eof = e] = [kind |-> k, inode |-> i, pos |-> p, eof |-> e, read |-> ro, write |-> wo, append |-> ao]
    BY <2>1
  <2>4. [f EXCEPT !.pos = p, !.eof = e] = [[f EXCEPT !.pos = p] EXCEPT !.eof = e]
    OBVIOUS
  <2> QED BY <2>2, <2>3, <2>4, Zenon
<1>5. /\ f.kind = k /\ f.inode = i /\ f.pos = q /\ f.eof = d /\ f.read = ro /\ f.write = wo /\ f.append = ao
  BY <1>2
<1> QED BY <1>2, <1>3, <1>4, <1>5, <1>6, Zenon DEF At

\* Wherever it is asked for, a slice is a sequence of bytes.
LEMMA SliceTyped ==
  ASSUME NEW b \in Seq(Nat), NEW at \in Nat, NEW n \in Nat
  PROVE  Slice(b, at, n) \in Seq(Nat) /\ Len(Slice(b, at, n)) \in Nat
<1>1. PICK p \in Int, q \in Int :
        p = at + 1 /\ p >= 1 /\ q = (IF at + n < Len(b) THEN at + n ELSE Len(b)) /\ q <= Len(b)
  OBVIOUS
<1>2. \A i \in p .. q : b[i] \in Nat
  <2>1. \A i \in p .. q : i \in 1 .. Len(b)
    BY <1>1
  <2> QED BY <2>1, ElementOfSeq
<1>3. SubSeq(b, p, q) \in Seq(Nat)
  BY <1>2, SubSeqProperties
<1>4. Slice(b, at, n) = SubSeq(b, p, q)
  BY <1>1 DEF Slice
<1> QED BY <1>3, <1>4

\* read() moves the offset by what it gives.
LEMMA AfterReadIs ==
  ASSUME BytesInv, NEW f \in FileRecord, NEW n \in Nat
  PROVE  /\ BytesRead(f, n) \in Seq(Nat)
         /\ AfterRead(f, n) \in FileRecord
         /\ AfterRead(f, n).kind = f.kind /\ AfterRead(f, n).inode = f.inode
<1>1. /\ f.pos \in Nat /\ f.eof \in BOOLEAN /\ f.read \in BOOLEAN
      /\ f.inode \in Inodes \cup {IpaInode}
  BY FileParts
<1>2. data[f.inode] \in Seq(Nat)
  BY <1>1 DEF BytesInv
<1>3. BytesRead(f, n) \in Seq(Nat) /\ Len(BytesRead(f, n)) \in Nat
  BY <1>1, <1>2, SliceTyped DEF BytesRead
<1>4. CASE ~f.read
  BY <1>3, <1>4 DEF AfterRead
<1>5. CASE f.read
  <2> DEFINE l == Len(BytesRead(f, n))
  <2>1. PICK p \in Nat : p = f.pos + l
    BY <1>1, <1>3
  <2>2. PICK e \in BOOLEAN : e = (f.eof \/ (l = 0 /\ n # 0))
    BY Zenon
  <2>3. AfterRead(f, n) = [f EXCEPT !.pos = f.pos + l, !.eof = (f.eof \/ (l = 0 /\ n # 0))]
    BY <1>5 DEF AfterRead
  <2> HIDE DEF l
  <2>4. AfterRead(f, n) = [f EXCEPT !.pos = p, !.eof = e]
    BY Zenon, <2>1, <2>2, <2>3
  <2>5. AfterRead(f, n) = At(f, p, e)
    BY Zenon, <2>4, Assigned
  <2>6. At(f, p, e) \in FileRecord /\ At(f, p, e).kind = f.kind /\ At(f, p, e).inode = f.inode
    <3>1. IsAt(At(f, p, e), f, p, e)
      BY Zenon, AtIs
    <3> QED BY <3>1 DEF IsAt
  <2> QED BY <1>3, <2>5, <2>6
<1> QED BY <1>4, <1>5

\* lseek() takes every offset from zero on.
LEMMA SeekIs ==
  ASSUME BytesInv, NEW f \in FileRecord, NEW off \in Int, NEW whence \in {"SET", "CUR", "END"}
  PROVE  \/ Seek(f, off, whence) = f
         \/ \E p \in Nat : Seek(f, off, whence) = At(f, p, FALSE) /\ (whence = "CUR" => p = f.pos + off)
<1>1. f.pos \in Nat /\ f.inode \in Inodes \cup {IpaInode}
  BY FileParts
<1>2. Len(data[f.inode]) \in Nat
  <2>1. data[f.inode] \in Seq(Nat)
    BY <1>1 DEF BytesInv
  <2> QED BY <2>1
<1> DEFINE start == CASE whence = "SET" -> 0
                      [] whence = "CUR" -> f.pos
                      [] whence = "END" -> Len(data[f.inode])
<1>3. start \in Nat /\ (whence = "CUR" => start = f.pos)
  BY <1>1, <1>2
<1>4. Seek(f, off, whence) = IF start + off < 0 THEN f ELSE [f EXCEPT !.pos = start + off, !.eof = FALSE]
  BY DEF Seek
<1> HIDE DEF start
<1>5. CASE start + off < 0
  BY <1>4, <1>5
<1>6. CASE ~(start + off < 0)
  <2>1. start + off \in Nat
    BY <1>3, <1>6
  <2>2. Seek(f, off, whence) = At(f, start + off, FALSE)
    <3>1. Seek(f, off, whence) = [f EXCEPT !.pos = start + off, !.eof = FALSE]
      BY <1>4, <1>6
    <3> QED BY Zenon, <2>1, <3>1, Assigned, FALSE \in BOOLEAN
  <2> QED BY <1>3, <2>1, <2>2
<1> QED BY <1>5, <1>6

\* A stream with other pushed back and taken characters, and the assignments
\* that make it.
StreamAs(st, pb, tk) == [fd |-> st.fd, pushbacks |-> pb, taken |-> tk]
AssignBoth(fs, s, pb, tk) == [fs EXCEPT ![s].pushbacks = pb, ![s].taken = tk]
AssignTaken(fs, s, tk) == [fs EXCEPT ![s].taken = tk]
StreamIs(fs, s, st) == [fs EXCEPT ![s] = st]

\* One stream and its descriptor change; nobody else has that descriptor.
LEMMA StreamMoves ==
  ASSUME StreamsInv, HostInv', BytesInv',
         NEW s \in Streams, NEW f \in FileRecord, NEW st \in StreamRecord,
         st.fd = file_streams[s].fd, StreamFits(st, f),
         files' = [files EXCEPT ![st.fd] = f],
         file_streams' = StreamIs(file_streams, s, st)
  PROVE  StreamsInv'
<1> DEFINE X == FileRecord \cup {NoFile}
<1>1. /\ files \in Seq(X) /\ file_streams \in [Streams -> StreamRecord]
      /\ \A t \in Streams : file_streams[t].fd \in DOMAIN files /\ files[file_streams[t].fd] # NoFile
      /\ \A t, u \in Streams : file_streams[t].fd = file_streams[u].fd => t = u
      /\ \A t \in Streams : StreamFits(file_streams[t], files[file_streams[t].fd])
  BY DEF StreamsInv, FilesTyped, FdsInv, IsOpen, Fds, FileOf
<1>2. f # NoFile /\ f \in X
  BY FileParts
<1> HIDE DEF X
<1>3. /\ files' \in Seq(X) /\ DOMAIN files' = DOMAIN files /\ files'[st.fd] = f
      /\ \A k \in DOMAIN files : k # st.fd => files'[k] = files[k]
  <2>1. st.fd \in DOMAIN files /\ DOMAIN files = 1 .. Len(files)
    BY <1>1, LenProperties
  <2>2. files' \in Seq(X)
    BY <1>1, <1>2, <2>1, ExceptSeq
  <2> QED BY <2>1, <2>2
<1>4. /\ Streams' = Streams /\ file_streams' \in [Streams -> StreamRecord]
      /\ file_streams'[s] = st /\ \A t \in Streams : t # s => file_streams'[t] = file_streams[t]
  BY <1>1 DEF Streams, StreamIs
<1>5. \A t \in Streams : file_streams'[t].fd = file_streams[t].fd
  BY <1>4
<1>6. \A t \in Streams : t # s => files'[file_streams[t].fd] = files[file_streams[t].fd]
  BY <1>1, <1>3
<1>7. \A t \in Streams : file_streams'[t].fd \in DOMAIN files' /\ files'[file_streams'[t].fd] # NoFile
  BY <1>1, <1>2, <1>3, <1>5, <1>6
<1>8. \A t \in Streams : StreamFits(file_streams'[t], files'[file_streams'[t].fd])
  <2>1. SUFFICES ASSUME NEW t \in Streams
                 PROVE  StreamFits(file_streams'[t], files'[file_streams'[t].fd])
    OBVIOUS
  <2>2. CASE t = s
    BY <1>3, <1>4, <2>2
  <2>3. CASE t # s
    BY <1>1, <1>4, <1>6, <2>3
  <2> QED BY <2>2, <2>3
<1>9. FilesTyped'
  BY <1>3 DEF FilesTyped, X
<1>10. FdsInv'
  BY <1>1, <1>4, <1>5, <1>7 DEF FdsInv, IsOpen, Fds
<1>11. \A t \in Streams' : StreamFits(file_streams'[t], FileOf(t)')
  BY <1>4, <1>8 DEF FileOf
<1> QED BY <1>9, <1>10, <1>11 DEF StreamsInv, StreamFits

\* What the assignments to a stream's fields make of it.
LEMMA StreamAssigned ==
  ASSUME NEW T, NEW fs \in [T -> StreamRecord], NEW s \in T, NEW pb, NEW tk
  PROVE  /\ AssignBoth(fs, s, pb, tk) = StreamIs(fs, s, StreamAs(fs[s], pb, tk))
         /\ AssignTaken(fs, s, tk) = StreamIs(fs, s, StreamAs(fs[s], fs[s].pushbacks, tk))
<1>1. PICK d, p, t : fs[s] = [fd |-> d, pushbacks |-> p, taken |-> t]
  <2>1. fs[s] \in StreamRecord
    OBVIOUS
  <2> QED BY <2>1 DEF StreamRecord
<1> DEFINE g == [fs EXCEPT ![s] = [fd |-> d, pushbacks |-> pb, taken |-> t]]
<1>2. [fs EXCEPT ![s].pushbacks = pb] = g
  <2>1. PICK w : w = [fd |-> d, pushbacks |-> p, taken |-> t]
    OBVIOUS
  <2>2. [w EXCEPT !.pushbacks = pb] = [fd |-> d, pushbacks |-> pb, taken |-> t]
    BY <2>1
  <2>3. [fs EXCEPT ![s].pushbacks = pb] = [fs EXCEPT ![s] = [fs[s] EXCEPT !.pushbacks = pb]]
    OBVIOUS
  <2> QED BY <1>1, <2>1, <2>2, <2>3, Zenon
<1>3. g[s] = [fd |-> d, pushbacks |-> pb, taken |-> t] /\ DOMAIN g = T
      /\ g = [x \in T |-> g[x]] /\ \A x \in T : x # s => g[x] = fs[x]
  OBVIOUS
<1> HIDE DEF g
<1>4. [g EXCEPT ![s].taken = tk] = [g EXCEPT ![s] = [fd |-> d, pushbacks |-> pb, taken |-> tk]]
  <2>1. PICK w : w = [fd |-> d, pushbacks |-> pb, taken |-> t]
    OBVIOUS
  <2>2. [w EXCEPT !.taken = tk] = [fd |-> d, pushbacks |-> pb, taken |-> tk]
    BY <2>1
  <2>3. [g EXCEPT ![s].taken = tk] = [g EXCEPT ![s] = [g[s] EXCEPT !.taken = tk]]
    OBVIOUS
  <2> QED BY <1>3, <2>1, <2>2, <2>3, Zenon
<1>5. [g EXCEPT ![s] = [fd |-> d, pushbacks |-> pb, taken |-> tk]]
        = [fs EXCEPT ![s] = [fd |-> d, pushbacks |-> pb, taken |-> tk]]
  BY DEF g
<1>6. [fs EXCEPT ![s].pushbacks = pb, ![s].taken = tk] = [[fs EXCEPT ![s].pushbacks = pb] EXCEPT ![s].taken = tk]
  OBVIOUS
<1>7. fs[s].fd = d /\ fs[s].pushbacks = p
  BY <1>1
<1>8. [fs EXCEPT ![s].taken = tk] = [fs EXCEPT ![s] = [fd |-> d, pushbacks |-> p, taken |-> tk]]
  <2>1. PICK w : w = [fd |-> d, pushbacks |-> p, taken |-> t]
    OBVIOUS
  <2>2. [w EXCEPT !.taken = tk] = [fd |-> d, pushbacks |-> p, taken |-> tk]
    BY <2>1
  <2>3. [fs EXCEPT ![s].taken = tk] = [fs EXCEPT ![s] = [fs[s] EXCEPT !.taken = tk]]
    OBVIOUS
  <2> QED BY <1>1, <2>1, <2>2, <2>3, Zenon
<1> QED BY <1>2, <1>4, <1>5, <1>6, <1>7, <1>8, Zenon DEF AssignBoth, AssignTaken, StreamIs, StreamAs


\* StreamAs makes the record of a stream.
LEMMA StreamAsTyped ==
  ASSUME NEW st \in StreamRecord, NEW pb \in Seq(Nat), NEW tk \in Seq(Nat)
  PROVE  /\ StreamAs(st, pb, tk) \in StreamRecord /\ StreamAs(st, pb, tk).fd = st.fd
         /\ st.fd \in Nat /\ st.pushbacks \in Seq(Nat) /\ st.taken \in Seq(Nat)
BY DEF StreamRecord, StreamAs


\* A stream's record fits when its parts do.
LEMMA FitsThen ==
  ASSUME NEW f \in FileRecord, NEW st, NEW pb, NEW tk, NEW p \in Nat, NEW e \in BOOLEAN,
         FitsAt(pb, tk, p, e)
  PROVE  StreamFits(StreamAs(st, pb, tk), At(f, p, e))
<1>1. IsAt(At(f, p, e), f, p, e)
  BY AtIs, Zenon
<1>2. StreamAs(st, pb, tk).pushbacks = pb /\ StreamAs(st, pb, tk).taken = tk
  BY DEF StreamAs
<1> QED BY <1>1, <1>2, Zenon DEF StreamFits, IsAt

\* Reading with nothing pushed back gives what comes next.
LEMMA ReadFits ==
  ASSUME BytesInv, NEW f \in FileRecord, NEW st \in StreamRecord, NEW n \in Nat,
         StreamFits(st, f), st.pushbacks = <<>>, f.kind = "file", f.inode = IpaInode
  PROVE  StreamFits(StreamAs(st, <<>>, st.taken \o BytesRead(f, n)), AfterRead(f, n))
<1>1. /\ f.pos \in Nat /\ f.pos <= Len(IpaBytes) /\ st.taken = Slice(IpaBytes, 0, f.pos)
      /\ f.eof => f.pos = Len(IpaBytes)
      /\ f.eof \in BOOLEAN /\ f.read \in BOOLEAN /\ data[f.inode] = IpaBytes
  <2>1. Len(<<>>) = 0 /\ f.pos \in Nat
    BY FileParts
  <2> QED BY <2>1, FileParts DEF StreamFits, FitsAt, BytesInv
<1>2. IpaBytes \in Seq(Nat)
  BY FsAssumption
<1>3. CASE ~f.read
  <2>1. BytesRead(f, n) = <<>> /\ AfterRead(f, n) = f
    BY <1>3 DEF BytesRead, AfterRead
  <2>2. st.taken \o <<>> = st.taken
    <3>1. st.taken \in Seq(Nat)
      BY DEF StreamRecord
    <3> QED BY <3>1, ConcatEmptySeq
  <2> QED BY <1>1, <2>1, <2>2 DEF StreamFits, FitsAt, StreamAs
<1>4. CASE f.read
  <2> DEFINE l == Len(BytesRead(f, n))
  <2>1. PICK m \in 0 .. n : /\ f.pos + m <= Len(IpaBytes) /\ (m = n \/ f.pos + m = Len(IpaBytes))
                            /\ Len(Slice(IpaBytes, f.pos, n)) = m
                            /\ Slice(IpaBytes, 0, f.pos) \o Slice(IpaBytes, f.pos, n)
                                 = Slice(IpaBytes, 0, f.pos + m)
    BY <1>1, <1>2, TakeMore
  <2>2. BytesRead(f, n) = Slice(IpaBytes, f.pos, n) /\ l = m
    BY <1>1, <1>4, <2>1 DEF BytesRead
  <2>3. AfterRead(f, n) = [f EXCEPT !.pos = f.pos + l, !.eof = (f.eof \/ (l = 0 /\ n # 0))]
    BY <1>4 DEF AfterRead
  <2> HIDE DEF l
  <2>4. PICK p \in Nat : p = f.pos + m
    BY <1>1, <2>1
  <2>5. PICK e \in BOOLEAN : e = (f.eof \/ (l = 0 /\ n # 0))
    BY Zenon
  <2>6. AfterRead(f, n) = [f EXCEPT !.pos = p, !.eof = e]
    BY Zenon, <2>2, <2>3, <2>4, <2>5
  <2>7. AfterRead(f, n) = At(f, p, e)
    BY Zenon, <2>6, Assigned
  <2>8. IsAt(AfterRead(f, n), f, p, e)
    BY Zenon, <2>7, AtIs
  <2>9. e => p = Len(IpaBytes)
    <3>1. e => f.eof \/ (m = 0 /\ n # 0)
      BY <2>2, <2>5
    <3> QED BY <1>1, <2>1, <2>4, <3>1
  <2>10. st.taken \o BytesRead(f, n) = Slice(IpaBytes, 0, p)
    BY <1>1, <2>1, <2>2, <2>4
  <2>11. p + Len(<<>>) <= Len(IpaBytes) /\ 1 .. Len(<<>>) = {}
    BY <2>1, <2>4
  <2> QED BY <2>8, <2>9, <2>10, <2>11 DEF IsAt, StreamFits, FitsAt, StreamAs
<1> QED BY <1>1, <1>3, <1>4

\* What the invariant says of one stream.
LEMMA StreamFile ==
  ASSUME StreamsInv, NEW s \in Streams
  PROVE  /\ file_streams[s] \in StreamRecord /\ FileOf(s) \in FileRecord
         /\ StreamFits(file_streams[s], FileOf(s))
         /\ file_streams[s].fd \in DOMAIN files
         /\ files = [files EXCEPT ![file_streams[s].fd] = FileOf(s)]
         /\ file_streams \in [Streams -> StreamRecord]
         /\ file_streams = StreamIs(file_streams, s, file_streams[s])
<1>1. /\ file_streams \in [Streams -> StreamRecord] /\ files \in Seq(FileRecord \cup {NoFile})
      /\ file_streams[s].fd \in DOMAIN files /\ files[file_streams[s].fd] # NoFile
  BY DEF StreamsInv, FdsInv, FilesTyped, IsOpen, Fds
<1>2. files[file_streams[s].fd] \in FileRecord \cup {NoFile}
  BY <1>1, ElementOfSeq, LenProperties
<1>3. files = [files EXCEPT ![file_streams[s].fd] = files[file_streams[s].fd]]
  <2>1. files = [k \in DOMAIN files |-> files[k]]
    BY <1>1
  <2> QED BY <2>1
<1> QED BY <1>1, <1>2, <1>3 DEF StreamsInv, FileOf, StreamIs

\* Calls that touch nothing in the file system keep its part of the invariant.
LEMMA FsStays ==
  ASSUME StreamsInv, UNCHANGED fsVars
  PROVE  HostInv' /\ BytesInv'
<1>1. HostInv'
  BY SameTree DEF StreamsInv, fsVars
<1> QED BY <1>1 DEF StreamsInv, BytesInv, fsVars

\* Asking for no bytes gives none and changes nothing.
LEMMA ReadNothing ==
  ASSUME BytesInv, NEW f \in FileRecord
  PROVE  BytesRead(f, 0) = <<>> /\ AfterRead(f, 0) = f
<1>1. f.pos \in Nat /\ f.eof \in BOOLEAN /\ data[f.inode] \in Seq(Nat)
  BY FileParts DEF BytesInv
<1>2. PICK p \in Int, q \in Int, l \in Nat :
        /\ l = Len(data[f.inode]) /\ p = f.pos + 1 /\ q < p
        /\ q = IF f.pos + 0 < l THEN f.pos + 0 ELSE l
  <2>1. PICK l \in Nat : l = Len(data[f.inode])
    BY <1>1
  <2>2. CASE f.pos + 0 < l
    BY <1>1, <2>1, <2>2
  <2>3. CASE ~(f.pos + 0 < l)
    BY <1>1, <2>1, <2>3
  <2> QED BY <2>2, <2>3
<1>3. Slice(data[f.inode], f.pos, 0) = SubSeq(data[f.inode], p, q)
  BY <1>2 DEF Slice
<1>4. SubSeq(data[f.inode], p, q) = <<>>
  BY <1>2, SubSeqEmpty
<1>5. BytesRead(f, 0) = <<>>
  BY <1>3, <1>4 DEF BytesRead
<1>6. CASE ~f.read
  BY <1>5, <1>6 DEF AfterRead
<1>7. CASE f.read
  <2>1. AfterRead(f, 0) = [f EXCEPT !.pos = f.pos + Len(<<>>), !.eof = (f.eof \/ (Len(<<>>) = 0 /\ 0 # 0))]
    BY <1>5, <1>7 DEF AfterRead
  <2>2. f.pos + Len(<<>>) = f.pos
    BY <1>1
  <2>3. (f.eof \/ (Len(<<>>) = 0 /\ 0 # 0)) = f.eof
    <3>1. ~(0 # 0) /\ f.eof \in BOOLEAN
      BY <1>1
    <3> QED BY <3>1, Zenon
  <2>4. [f EXCEPT !.pos = f.pos, !.eof = f.eof] = f
    BY DEF FileRecord
  <2> QED BY <1>5, <2>1, <2>2, <2>3, <2>4, Zenon
<1> QED BY <1>6, <1>7

\* fread, with nothing pushed back.
LEMMA FreadKeeps ==
  ASSUME StreamsInv, ~FreadAfterUngetc, NEW s \in Streams, NEW n \in Nat, fread(s, n)
  PROVE  StreamsInv'
<1> DEFINE st == file_streams[s]
           f == FileOf(s)
           taken == Took(s, FromPushbacks(s, n) \o BytesRead(f, n - Len(FromPushbacks(s, n))))
<1>1. /\ st \in StreamRecord /\ f \in FileRecord /\ StreamFits(st, f)
      /\ files = [files EXCEPT ![st.fd] = f] /\ file_streams \in [Streams -> StreamRecord]
      /\ st.taken \in Seq(Nat) /\ st.fd \in Nat /\ f.kind = "file"
  BY StreamFile DEF StreamRecord, fread, IsFile, FileOf
<1>2. st.pushbacks = <<>> /\ BytesInv /\ HostInv' /\ BytesInv'
  <2>1. st.pushbacks = <<>> /\ UNCHANGED fsVars
    BY DEF fread
  <2> QED BY <2>1, FsStays DEF StreamsInv
<1>3. FromPushbacks(s, n) = <<>>
  <2>1. Len(<<>>) = 0 /\ 0 <= n
    OBVIOUS
  <2>2. SubSeq(<<>>, 1, 0) = <<>>
    BY SubSeqEmpty
  <2>3. Reverse(<<>>) = <<>>
    BY DEF Reverse
  <2>4. Len(st.pushbacks) - 0 + 1 = 1
    BY <1>2
  <2> QED BY <1>2, <2>1, <2>2, <2>3, <2>4 DEF FromPushbacks
<1>4. n - Len(FromPushbacks(s, n)) = n
  BY <1>3
<1>5. files' = [files EXCEPT ![st.fd] = AfterRead(f, n)]
  <2>1. IF n = 0 THEN UNCHANGED files ELSE SetFile(st.fd, AfterRead(f, n))
    BY <1>4 DEF fread
  <2>2. CASE n = 0
    BY <1>1, <1>2, <2>1, <2>2, ReadNothing
  <2>3. CASE n # 0
    BY <2>1, <2>3 DEF SetFile
  <2> QED BY <2>2, <2>3
<1>6. <<>> \o BytesRead(f, n) = BytesRead(f, n) /\ BytesRead(f, n) \in Seq(Nat)
      /\ AfterRead(f, n) \in FileRecord
      /\ AfterRead(f, n).kind = f.kind /\ AfterRead(f, n).inode = f.inode
  <2>1. BytesRead(f, n) \in Seq(Nat) /\ AfterRead(f, n) \in FileRecord
        /\ AfterRead(f, n).kind = f.kind /\ AfterRead(f, n).inode = f.inode
    BY <1>1, <1>2, AfterReadIs
  <2> QED BY <2>1, ConcatEmptySeq
<1>7. taken = IF f.inode = IpaInode THEN st.taken \o BytesRead(f, n) ELSE <<>>
  BY <1>3, <1>4, <1>6 DEF Took
<1>8. taken \in Seq(Nat)
  <2>1. <<>> \in Seq(Nat)
    OBVIOUS
  <2>2. st.taken \o BytesRead(f, n) \in Seq(Nat)
    BY <1>1, <1>6
  <2> QED BY <1>7, <2>1, <2>2
<1> DEFINE now == StreamAs(st, <<>>, taken)
<1>9. file_streams' = StreamIs(file_streams, s, now)
  <2>1. SubSeq(st.pushbacks, 1, Len(st.pushbacks) - Len(FromPushbacks(s, n))) = <<>>
    <3>1. Len(<<>>) - Len(<<>>) = 0 /\ 0 < 1 /\ 0 \in Int /\ 1 \in Int
      OBVIOUS
    <3>2. SubSeq(<<>>, 1, 0) = <<>>
      BY SubSeqEmpty
    <3> QED BY <1>2, <1>3, <3>1, <3>2
  <2>2. file_streams' = AssignBoth(file_streams, s, <<>>, taken)
    BY <2>1 DEF fread, AssignBoth
  <2> HIDE DEF taken
  <2> QED BY <1>1, <2>2, StreamAssigned
<1>10. now \in StreamRecord /\ now.fd = st.fd
  <2>1. <<>> \in Seq(Nat)
    OBVIOUS
  <2> HIDE DEF taken
  <2> QED BY <1>1, <1>8, <2>1, StreamAsTyped
<1>11. StreamFits(now, AfterRead(f, n))
  <2>1. CASE f.inode = IpaInode
    <3>1. taken = st.taken \o BytesRead(f, n)
      BY <1>7, <2>1
    <3> HIDE DEF taken
    <3>2. StreamFits(StreamAs(st, <<>>, st.taken \o BytesRead(f, n)), AfterRead(f, n))
      BY <1>1, <1>2, <2>1, ReadFits
    <3> QED BY <3>1, <3>2
  <2>2. CASE f.inode # IpaInode
    BY <1>6, <2>2 DEF StreamFits
  <2> QED BY <2>1, <2>2
<1> HIDE DEF now
<1>12. files' = [files EXCEPT ![now.fd] = AfterRead(f, n)]
  BY <1>5, <1>10
<1> QED BY <1>2, <1>6, <1>9, <1>10, <1>11, <1>12, StreamMoves

\* fgets reads up to a newline.
LEMMA FgetsKeeps ==
  ASSUME StreamsInv, ~FreadAfterUngetc, NEW s \in Streams, NEW n \in Nat, fgets(s, n)
  PROVE  StreamsInv'
<1> DEFINE line == BytesRead(FileOf(s), n)
           newlines == {k \in DOMAIN line : line[k] = 2}
           least == CHOOSE k \in newlines : \A j \in newlines : k <= j
           stop == IF newlines = {} THEN n ELSE least
<1>1. fread(s, stop)
  BY DEF fgets
<1>2. line \in Seq(Nat)
  <2>1. FileOf(s) \in FileRecord
    BY StreamFile
  <2> QED BY <2>1, AfterReadIs DEF StreamsInv
<1> HIDE DEF line
<1>3. newlines \in SUBSET Nat
  BY <1>2, LenProperties
<1> HIDE DEF newlines
<1>4. newlines # {} => least \in newlines
  <2>1. newlines # {} => \E k \in newlines : \A j \in newlines : k <= j
    BY <1>3, LeastNatural
  <2> QED BY <2>1
<1>5. stop \in Nat
  BY <1>3, <1>4
<1> HIDE DEF stop
<1> QED BY <1>1, <1>5, FreadKeeps

\* A seek relative to the offset.
LEMMA SeekFrom ==
  ASSUME NEW f \in FileRecord, NEW off \in Int, NEW p \in Nat, p = f.pos + off
  PROVE  Seek(f, off, "CUR") = At(f, p, FALSE)
<1>1. f.pos \in Nat
  BY FileParts
<1>2. ~(f.pos + off < 0)
  BY <1>1
<1>3. Seek(f, off, "CUR") = [f EXCEPT !.pos = f.pos + off, !.eof = FALSE]
  BY <1>2 DEF Seek
<1>4. Seek(f, off, "CUR") = [f EXCEPT !.pos = p, !.eof = FALSE]
  BY <1>3
<1> QED BY <1>4, Assigned, FALSE \in BOOLEAN, Zenon

\* What came back from ungetc is what comes next.
LEMMA PushedIsNext ==
  ASSUME NEW f \in FileRecord, NEW st, NEW pb \in Seq(Nat), NEW tk, NEW q \in Nat, NEW e,
         FitsAt(pb, tk, q, e), pb # <<>>
  PROVE  StreamFits(StreamAs(st, Front(pb), tk \o <<Last(pb)>>), At(f, q + 1, FALSE))
<1>1. IpaBytes \in Seq(Nat) /\ q + 1 \in Nat
  BY FsAssumption
<1>2. PICK l \in Nat, m \in Nat : l = Len(pb) /\ m = Len(IpaBytes) /\ l >= 1
  BY <1>1, FrontLast
<1>3. /\ Last(pb) = pb[l] /\ Front(pb) \in Seq(Nat) /\ Len(Front(pb)) = l - 1
      /\ \A k \in 1 .. l - 1 : Front(pb)[k] = pb[k]
  BY <1>1, <1>2, FrontLast
<1>4. /\ q + l <= m /\ tk = Slice(IpaBytes, 0, q)
      /\ \A k \in 1 .. l : pb[k] = IpaBytes[q + l + 1 - k]
  BY <1>2 DEF FitsAt
<1>5. Last(pb) = IpaBytes[q + 1]
  <2>1. l \in 1 .. l /\ q + l + 1 - l = q + 1
    BY <1>2
  <2>2. pb[l] = IpaBytes[q + l + 1 - l]
    BY <1>4, <2>1
  <2> QED BY <1>3, <2>1, <2>2
<1>6. tk \o <<Last(pb)>> = Slice(IpaBytes, 0, q + 1)
  <2>1. q + l <= m
    BY <1>4
  <2>2. q < Len(IpaBytes)
    BY <1>2, <2>1
  <2>3. Slice(IpaBytes, 0, q) \o <<IpaBytes[q + 1]>> = Slice(IpaBytes, 0, q + 1)
    BY <1>1, <2>2, TakeOne
  <2> QED BY <1>4, <1>5, <2>3
<1>7. \A k \in 1 .. l - 1 : Front(pb)[k] = IpaBytes[(q + 1) + (l - 1) + 1 - k]
  <2>1. SUFFICES ASSUME NEW k \in 1 .. l - 1 PROVE Front(pb)[k] = IpaBytes[(q + 1) + (l - 1) + 1 - k]
    OBVIOUS
  <2>2. k \in 1 .. l /\ (q + 1) + (l - 1) + 1 - k = q + l + 1 - k
    OBVIOUS
  <2>3. pb[k] = IpaBytes[q + l + 1 - k]
    BY <1>4, <2>2
  <2> QED BY <1>3, <2>2, <2>3
<1>8. (q + 1) + (l - 1) <= m
  <2>1. q + l <= m
    BY <1>4
  <2> QED BY <2>1
<1>9. FitsAt(Front(pb), tk \o <<Last(pb)>>, q + 1, FALSE)
  BY <1>2, <1>3, <1>6, <1>7, <1>8 DEF FitsAt
<1> QED BY <1>1, <1>9, FitsThen, FALSE \in BOOLEAN, Zenon

\* Giving the last character back takes it off what the app has.
LEMMA GivenBack ==
  ASSUME NEW f \in FileRecord, NEW st, NEW pb \in Seq(Nat), NEW tk, NEW p \in Nat, NEW e,
         FitsAt(pb, tk, p + 1, e)
  PROVE  StreamFits(StreamAs(st, Append(pb, Last(tk)), Front(tk)), At(f, p, FALSE))
<1>1. IpaBytes \in Seq(Nat)
  BY FsAssumption
<1>2. PICK l \in Nat, m \in Nat : l = Len(pb) /\ m = Len(IpaBytes)
  BY <1>1
<1>3. /\ p + 1 + l <= m /\ tk = Slice(IpaBytes, 0, p + 1)
      /\ \A k \in 1 .. l : pb[k] = IpaBytes[p + 1 + l + 1 - k]
  BY <1>2 DEF FitsAt
<1>4. p < Len(IpaBytes) /\ p + (l + 1) <= m
  <2>1. p + 1 + l <= m
    BY <1>3
  <2> QED BY <1>2, <2>1
<1>5. /\ IpaBytes[p + 1] \in Nat
      /\ Last(tk) = IpaBytes[p + 1] /\ Front(tk) = Slice(IpaBytes, 0, p)
  BY <1>1, <1>3, <1>4, TakeOne
<1>6. PICK x \in Nat : x = IpaBytes[p + 1]
  BY <1>5
<1>7. /\ Append(pb, x) \in Seq(Nat) /\ Len(Append(pb, x)) = l + 1 /\ Append(pb, x)[l + 1] = x
      /\ \A k \in 1 .. l : Append(pb, x)[k] = pb[k]
  BY <1>1, <1>2
<1>8. \A k \in 1 .. l + 1 : Append(pb, x)[k] = IpaBytes[p + (l + 1) + 1 - k]
  <2>1. SUFFICES ASSUME NEW k \in 1 .. l + 1 PROVE Append(pb, x)[k] = IpaBytes[p + (l + 1) + 1 - k]
    OBVIOUS
  <2>2. CASE k = l + 1
    <3>1. p + (l + 1) + 1 - k = p + 1
      BY <2>2
    <3> QED BY <1>6, <1>7, <2>2, <3>1
  <2>3. CASE k # l + 1
    <3>1. k \in 1 .. l /\ p + (l + 1) + 1 - k = p + 1 + l + 1 - k
      BY <2>3
    <3>2. pb[k] = IpaBytes[p + 1 + l + 1 - k]
      BY <1>3, <3>1
    <3> QED BY <1>7, <3>1, <3>2
  <2> QED BY <2>2, <2>3
<1>9. FitsAt(Append(pb, x), Front(tk), p, FALSE)
  BY <1>2, <1>4, <1>5, <1>7, <1>8 DEF FitsAt
<1> QED BY <1>5, <1>6, <1>9, FitsThen, FALSE \in BOOLEAN, Zenon

\* fgetc
LEMMA FgetcKeeps ==
  ASSUME StreamsInv, NEW s \in Streams, fgetc(s)
  PROVE  StreamsInv'
<1> DEFINE st == file_streams[s]
           f == FileOf(s)
<1>1. /\ st \in StreamRecord /\ f \in FileRecord /\ StreamFits(st, f)
      /\ file_streams \in [Streams -> StreamRecord]
      /\ st.pushbacks \in Seq(Nat) /\ st.taken \in Seq(Nat)
      /\ f.kind = "file" /\ f.pos \in Nat /\ BytesInv
  BY StreamFile, FileParts DEF StreamRecord, fgetc, IsFile, FileOf, StreamsInv
<1>2. HostInv' /\ BytesInv'
  <2>1. UNCHANGED fsVars
    BY DEF fgetc
  <2> QED BY <2>1, FsStays
<1>3. CASE st.pushbacks # <<>>
  <2> DEFINE pb == Front(st.pushbacks)
             tk == Took(s, <<Last(st.pushbacks)>>)
             now == StreamAs(st, pb, tk)
             g == At(f, f.pos + 1, FALSE)
  <2>1. pb \in Seq(Nat) /\ Last(st.pushbacks) \in Nat
    BY <1>1, <1>3, FrontLast
  <2>2. tk \in Seq(Nat) /\ (f.inode = IpaInode => tk = st.taken \o <<Last(st.pushbacks)>>)
    <3>1. <<>> \in Seq(Nat) /\ <<Last(st.pushbacks)>> \in Seq(Nat)
      BY <2>1
    <3> QED BY <1>1, <3>1 DEF Took
  <2>3. f.pos + 1 \in Nat
    BY <1>1
  <2>4. IsAt(g, f, f.pos + 1, FALSE)
    BY <1>1, <2>3, AtIs, FALSE \in BOOLEAN, Zenon
  <2>5. Seek(f, 1, "CUR") = g
    <3>1. PICK off \in Int, p \in Nat : off = 1 /\ p = f.pos + 1
      BY <2>3
    <3>2. p = f.pos + off
      BY <3>1
    <3>3. Seek(f, off, "CUR") = At(f, p, FALSE)
      BY <1>1, <3>2, SeekFrom, Zenon
    <3> QED BY <3>1, <3>3
  <2>6. files' = [files EXCEPT ![st.fd] = g]
    BY <1>3, <2>5 DEF fgetc, SetFile
  <2>7. file_streams' = AssignBoth(file_streams, s, pb, tk)
    BY <1>3 DEF fgetc, AssignBoth
  <2> HIDE DEF pb, tk
  <2>8. file_streams' = StreamIs(file_streams, s, now)
    BY <1>1, <2>7, StreamAssigned
  <2>9. now \in StreamRecord /\ now.fd = st.fd
    BY <1>1, <2>1, <2>2, StreamAsTyped
  <2>10. StreamFits(now, g)
    <3>1. CASE f.inode = IpaInode
      <4>1. FitsAt(st.pushbacks, st.taken, f.pos, f.eof)
        BY <1>1, <3>1 DEF StreamFits
      <4>2. StreamFits(StreamAs(st, Front(st.pushbacks), st.taken \o <<Last(st.pushbacks)>>), g)
        BY <1>1, <1>3, <4>1, PushedIsNext
      <4>3. tk = st.taken \o <<Last(st.pushbacks)>>
        BY <2>2, <3>1
      <4> QED BY <4>2, <4>3 DEF pb
    <3>2. CASE f.inode # IpaInode
      BY <2>4, <3>2 DEF IsAt, StreamFits
    <3> QED BY <3>1, <3>2
  <2> HIDE DEF now, g
  <2>11. g \in FileRecord /\ files' = [files EXCEPT ![now.fd] = g]
    BY <2>4, <2>6, <2>9 DEF IsAt
  <2> QED BY <1>2, <2>8, <2>9, <2>10, <2>11, StreamMoves
<1>4. CASE st.pushbacks = <<>>
  <2> DEFINE tk == Took(s, BytesRead(f, 1))
             now == StreamAs(st, st.pushbacks, tk)
             g == AfterRead(f, 1)
  <2>1. /\ BytesRead(f, 1) \in Seq(Nat) /\ g \in FileRecord
        /\ g.kind = f.kind /\ g.inode = f.inode
    BY <1>1, AfterReadIs
  <2>2. tk \in Seq(Nat) /\ (f.inode = IpaInode => tk = st.taken \o BytesRead(f, 1))
    <3>1. <<>> \in Seq(Nat)
      OBVIOUS
    <3> QED BY <1>1, <2>1, <3>1 DEF Took
  <2>3. files' = [files EXCEPT ![st.fd] = g]
    BY <1>4 DEF fgetc, SetFile
  <2>4. file_streams' = AssignTaken(file_streams, s, tk)
    BY <1>4 DEF fgetc, AssignTaken
  <2> HIDE DEF tk, g
  <2>5. file_streams' = StreamIs(file_streams, s, now)
    BY <1>1, <2>4, StreamAssigned
  <2>6. now \in StreamRecord /\ now.fd = st.fd
    BY <1>1, <2>2, StreamAsTyped
  <2>7. StreamFits(now, g)
    <3>1. CASE f.inode = IpaInode
      <4>1. StreamFits(StreamAs(st, <<>>, st.taken \o BytesRead(f, 1)), AfterRead(f, 1))
        BY <1>1, <1>4, <3>1, ReadFits
      <4>2. tk = st.taken \o BytesRead(f, 1)
        BY <2>2, <3>1
      <4> QED BY <1>4, <4>1, <4>2 DEF g
    <3>2. CASE f.inode # IpaInode
      BY <2>1, <3>2 DEF StreamFits
    <3> QED BY <3>1, <3>2
  <2> HIDE DEF now
  <2>8. files' = [files EXCEPT ![now.fd] = g]
    BY <2>3, <2>6
  <2> QED BY <1>2, <2>1, <2>5, <2>6, <2>7, <2>8, StreamMoves
<1> QED BY <1>3, <1>4

\* ungetc
LEMMA UngetcKeeps ==
  ASSUME StreamsInv, NEW s \in Streams, ungetc(s)
  PROVE  StreamsInv'
<1> DEFINE st == file_streams[s]
           f == FileOf(s)
           pb == Append(st.pushbacks, Last(st.taken))
           tk == Front(st.taken)
           now == StreamAs(st, pb, tk)
<1>1. /\ st \in StreamRecord /\ f \in FileRecord /\ StreamFits(st, f)
      /\ file_streams \in [Streams -> StreamRecord]
      /\ st.pushbacks \in Seq(Nat) /\ st.taken \in Seq(Nat) /\ st.taken # <<>>
      /\ f.kind = "file" /\ f.pos \in Nat /\ f.pos > 0
  BY StreamFile, FileParts DEF StreamRecord, ungetc, IsFile, FileOf
<1>2. HostInv' /\ BytesInv'
  <2>1. UNCHANGED fsVars
    BY DEF ungetc
  <2> QED BY <2>1, FsStays
<1>3. PICK p \in Nat : f.pos = p + 1 /\ p = f.pos + -1
  <2>1. f.pos - 1 \in Nat
    BY <1>1
  <2> QED BY <1>1, <2>1
<1> DEFINE g == At(f, p, FALSE)
<1>4. tk \in Seq(Nat) /\ pb \in Seq(Nat)
  <2>1. tk \in Seq(Nat) /\ Last(st.taken) \in Nat
    BY <1>1, FrontLast
  <2> QED BY <1>1, <2>1
<1>5. IsAt(g, f, p, FALSE)
  BY <1>1, AtIs, FALSE \in BOOLEAN, Zenon
<1>6. Seek(f, -1, "CUR") = g
  <2>1. PICK off \in Int : off = -1
    OBVIOUS
  <2>2. p = f.pos + off
    BY <1>3, <2>1
  <2>3. Seek(f, off, "CUR") = At(f, p, FALSE)
    BY <1>1, <2>2, SeekFrom, Zenon
  <2> QED BY <2>1, <2>3
<1>7. files' = [files EXCEPT ![st.fd] = g]
  BY <1>6 DEF ungetc, SetFile
<1>8. file_streams' = AssignBoth(file_streams, s, pb, tk)
  BY DEF ungetc, AssignBoth
<1>9. StreamFits(now, g)
  <2>1. CASE f.inode = IpaInode
    <3>1. FitsAt(st.pushbacks, st.taken, p + 1, f.eof)
      BY <1>1, <1>3, <2>1 DEF StreamFits
    <3> QED BY <1>1, <3>1, GivenBack
  <2>2. CASE f.inode # IpaInode
    BY <1>5, <2>2 DEF IsAt, StreamFits
  <2> QED BY <2>1, <2>2
<1> HIDE DEF pb, tk
<1>10. file_streams' = StreamIs(file_streams, s, now)
  BY <1>1, <1>8, StreamAssigned
<1>11. now \in StreamRecord /\ now.fd = st.fd
  BY <1>1, <1>4, StreamAsTyped
<1> HIDE DEF now, g
<1>12. g \in FileRecord /\ files' = [files EXCEPT ![now.fd] = g]
  BY <1>5, <1>7, <1>11 DEF IsAt
<1> QED BY <1>2, <1>9, <1>10, <1>11, <1>12, StreamMoves

\* fseek, which drops what was pushed back.
LEMMA FseekKeeps ==
  ASSUME StreamsInv, NEW s \in Streams, NEW off \in Int, NEW whence \in {"SET", "CUR", "END"},
         fseek(s, off, whence)
  PROVE  StreamsInv'
<1> DEFINE st == file_streams[s]
           f == FileOf(s)
           g == Seek(f, off, whence)
           tk == IF f.inode = IpaInode THEN Slice(IpaBytes, 0, g.pos) ELSE <<>>
           now == StreamAs(st, <<>>, tk)
<1>1. /\ st \in StreamRecord /\ f \in FileRecord /\ StreamFits(st, f)
      /\ file_streams \in [Streams -> StreamRecord]
      /\ f.kind = "file" /\ f.pos \in Nat /\ BytesInv
      /\ f.eof \in BOOLEAN
  BY StreamFile, FileParts DEF fseek, IsFile, FileOf, StreamsInv
<1>2. HostInv' /\ BytesInv'
  <2>1. UNCHANGED fsVars
    BY DEF fseek
  <2> QED BY <2>1, FsStays
<1>3. \/ g = f
      \/ \E p \in Nat : g = At(f, p, FALSE)
  BY <1>1, SeekIs
<1>4. /\ files' = [files EXCEPT ![st.fd] = g] /\ g.pos <= Len(Content(st.fd))
      /\ file_streams' = AssignBoth(file_streams, s, <<>>, tk)
  BY DEF fseek, SetFile, AssignBoth
<1> HIDE DEF g
<1>5. /\ g \in FileRecord /\ g.kind = f.kind /\ g.inode = f.inode /\ g.pos \in Nat
      /\ g.eof => g.pos = f.pos /\ f.eof
  <2>1. CASE g = f
    BY <1>1, <2>1
  <2>2. CASE \E p \in Nat : g = At(f, p, FALSE)
    <3>1. PICK p \in Nat : g = At(f, p, FALSE)
      BY <2>2
    <3>2. IsAt(g, f, p, FALSE)
      BY <1>1, <3>1, AtIs, FALSE \in BOOLEAN, Zenon
    <3> QED BY <3>2 DEF IsAt
  <2> QED BY <1>3, <2>1, <2>2
<1>6. tk \in Seq(Nat)
  <2>1. Slice(IpaBytes, 0, g.pos) \in Seq(Nat)
    BY <1>5, FsAssumption, SliceTyped, 0 \in Nat
  <2>2. <<>> \in Seq(Nat)
    OBVIOUS
  <2> QED BY <2>1, <2>2
<1>7. StreamFits(now, g)
  <2>1. CASE f.inode = IpaInode
    <3>1. Len(Content(st.fd)) = Len(IpaBytes)
      BY <1>1, <2>1 DEF Content, FileOf, BytesInv
    <3>2. f.eof => f.pos = Len(IpaBytes)
      BY <1>1, <2>1 DEF StreamFits, FitsAt
    <3>3. g.eof => g.pos = Len(IpaBytes)
      BY <1>5, <3>2
    <3>4. now.pushbacks = <<>> /\ now.taken = Slice(IpaBytes, 0, g.pos)
      BY <2>1 DEF StreamAs
    <3>5. g.pos + Len(<<>>) <= Len(IpaBytes) /\ 1 .. Len(<<>>) = {}
      <4>1. g.pos + 0 = g.pos
        BY <1>5
      <4> QED BY <1>4, <3>1, <4>1
    <3> HIDE DEF now
    <3>6. FitsAt(now.pushbacks, now.taken, g.pos, g.eof)
      BY <3>3, <3>4, <3>5 DEF FitsAt
    <3> QED BY <3>6 DEF StreamFits
  <2>2. CASE f.inode # IpaInode
    BY <1>5, <2>2 DEF StreamFits
  <2> QED BY <2>1, <2>2
<1> HIDE DEF tk
<1>8. file_streams' = StreamIs(file_streams, s, now)
  BY <1>1, <1>4, StreamAssigned
<1>9. now \in StreamRecord /\ now.fd = st.fd
  <2>1. <<>> \in Seq(Nat)
    OBVIOUS
  <2> QED BY <1>1, <1>6, <2>1, StreamAsTyped
<1> HIDE DEF now
<1>10. files' = [files EXCEPT ![now.fd] = g]
  BY <1>4, <1>9
<1> QED BY <1>2, <1>5, <1>7, <1>8, <1>9, <1>10, StreamMoves

\* clearerr
LEMMA ClearerrKeeps ==
  ASSUME StreamsInv, NEW s \in Streams, clearerr(s)
  PROVE  StreamsInv'
<1> DEFINE st == file_streams[s]
           f == FileOf(s)
           g == At(f, f.pos, FALSE)
<1>1. /\ st \in StreamRecord /\ f \in FileRecord /\ StreamFits(st, f) /\ f.pos \in Nat
      /\ file_streams = StreamIs(file_streams, s, st)
  BY StreamFile, FileParts
<1>2. HostInv' /\ BytesInv'
  <2>1. UNCHANGED fsVars
    BY DEF clearerr, clearerr_fd
  <2> QED BY <2>1, FsStays
<1>3. [f EXCEPT !.eof = FALSE] = g
  BY <1>1, Assigned, FALSE \in BOOLEAN, Zenon
<1>4. files' = [files EXCEPT ![st.fd] = g] /\ UNCHANGED file_streams
  BY <1>3 DEF clearerr, clearerr_fd, SetFile, FileOf
<1>5. IsAt(g, f, f.pos, FALSE)
  BY <1>1, AtIs, FALSE \in BOOLEAN, Zenon
<1>6. StreamFits(st, g)
  BY <1>1, <1>5 DEF StreamFits, FitsAt, IsAt
<1> HIDE DEF g
<1>7. g \in FileRecord
  BY <1>5 DEF IsAt
<1> QED BY <1>1, <1>2, <1>4, <1>6, <1>7, StreamMoves

\* What the host writes is bytes.
LEMMA WrittenTyped ==
  ASSUME BytesInv, NEW f \in FileRecord, NEW bytes \in Seq(Nat)
  PROVE  /\ Written(f, bytes) \in Seq(Nat)
         /\ AfterWrite(f, bytes) \in FileRecord /\ AfterWrite(f, bytes).kind = f.kind
         /\ AfterWrite(f, bytes).inode = f.inode
<1>1. f.pos \in Nat /\ f.inode \in Inodes \cup {IpaInode} /\ f.eof \in BOOLEAN
  BY FileParts
<1>2. PICK old \in Seq(Nat) : old = data[f.inode]
  BY <1>1 DEF BytesInv
<1>3. PICK at \in Nat, l \in Nat, m \in Nat : at = WriteAt(f) /\ l = Len(bytes) /\ m = Len(old)
  <2>1. Len(old) \in Nat /\ Len(bytes) \in Nat
    OBVIOUS
  <2>2. WriteAt(f) \in Nat
    BY <1>1, <1>2, <2>1 DEF WriteAt
  <2> QED BY <2>1, <2>2
<1>4. CASE ~f.write
  BY <1>2, <1>4 DEF Written, AfterWrite
<1>5. CASE f.write
  <2> DEFINE value(k) == CASE k > at /\ k <= at + l -> bytes[k - at]
                           [] k <= m /\ (k <= at \/ k > at + l) -> old[k]
                           [] OTHER -> 0
  <2>1. PICK n \in Nat : n = IF at + l > m THEN at + l ELSE m
    BY <1>3
  <2>2. Written(f, bytes) = [k \in 1 .. n |-> value(k)]
    BY <1>2, <1>3, <1>5, <2>1 DEF Written
  <2>3. ASSUME NEW k \in 1 .. n PROVE value(k) \in Nat
    <3>1. CASE k > at /\ k <= at + l
      <4>1. k - at \in 1 .. Len(bytes)
        BY <1>3, <3>1
      <4>2. bytes[k - at] \in Nat
        BY <4>1, ElementOfSeq
      <4> QED BY <3>1, <4>2
    <3>2. CASE ~(k > at /\ k <= at + l) /\ k <= m
      <4>1. k \in 1 .. Len(old)
        BY <1>3, <3>2
      <4>2. old[k] \in Nat
        BY <4>1, ElementOfSeq
      <4> QED BY <3>2, <4>2
    <3>3. CASE ~(k > at /\ k <= at + l) /\ ~(k <= m)
      BY <3>3
    <3> QED BY <3>1, <3>2, <3>3
  <2> HIDE DEF value
  <2>4. [k \in 1 .. n |-> value(k)] \in Seq(Nat)
    <3>1. [k \in 1 .. n |-> value(k)] \in [1 .. n -> Nat]
      BY <2>3
    <3> QED BY <3>1, SeqDef
  <2>5. PICK p \in Nat : p = at + l
    BY <1>3
  <2>6. AfterWrite(f, bytes) = [f EXCEPT !.pos = p]
    BY <1>3, <1>5, <2>5 DEF AfterWrite
  <2>7. AfterWrite(f, bytes) = At(f, p, f.eof)
    BY <1>1, <2>6, Assigned, Zenon
  <2>8. IsAt(AfterWrite(f, bytes), f, p, f.eof)
    BY <1>1, <2>7, AtIs, Zenon
  <2> QED BY <2>2, <2>4, <2>8 DEF IsAt
<1> QED BY <1>4, <1>5

\* fwrite, to a file that is not the bundle's.
LEMMA FwriteKeeps ==
  ASSUME StreamsInv, NEW s \in Streams, NEW bytes \in Seq(Nat), fwrite(s, bytes)
  PROVE  StreamsInv'
<1> DEFINE st == file_streams[s]
           f == FileOf(s)
           g == AfterWrite(f, bytes)
<1>1. /\ st \in StreamRecord /\ f \in FileRecord /\ StreamFits(st, f) /\ BytesInv
      /\ file_streams = StreamIs(file_streams, s, st)
      /\ f.inode # IpaInode /\ f.inode \in Inodes \cup {IpaInode}
  BY StreamFile, FileParts DEF StreamsInv, fwrite
<1>2. /\ files' = [files EXCEPT ![st.fd] = g]
      /\ data' = [data EXCEPT ![f.inode] = Written(f, bytes)]
      /\ UNCHANGED file_streams
  BY DEF fwrite, write_fd, SetFile, FileOf
<1>3. HostInv'
  BY WriteFdKeeps DEF fwrite, StreamsInv
<1>4. /\ Written(f, bytes) \in Seq(Nat) /\ g \in FileRecord /\ g.kind = f.kind /\ g.inode = f.inode
  BY <1>1, WrittenTyped
<1>5. BytesInv'
  <2>1. IpaInode \in Inodes \cup {IpaInode}
    OBVIOUS
  <2> QED BY <1>1, <1>2, <1>4, <2>1 DEF BytesInv
<1>6. StreamFits(st, g)
  BY <1>1, <1>4 DEF StreamFits
<1> HIDE DEF g
<1> QED BY <1>1, <1>2, <1>3, <1>4, <1>5, <1>6, StreamMoves

\* Forgetting files that are gone leaves the bundle's alone.
LEMMA ForgetKeeps ==
  ASSUME BytesInv, NEW host, NEW held, data' = Forget(data, host, held)
  PROVE  BytesInv'
<1>1. /\ DOMAIN data = Inodes \cup {IpaInode} /\ data[IpaInode] = IpaBytes
      /\ \A i \in DOMAIN data : data[i] \in Seq(Nat)
  BY DEF BytesInv
<1>2. <<>> \in Seq(Nat)
  OBVIOUS
<1>3. /\ data' = [i \in DOMAIN data |-> data'[i]]
      /\ \A i \in DOMAIN data : data'[i] \in {<<>>, data[i]}
      /\ data'[IpaInode] = data[IpaInode]
  BY <1>1 DEF Forget
<1>4. \A i \in DOMAIN data : data'[i] \in Seq(Nat)
  BY <1>1, <1>2, <1>3
<1> QED BY <1>1, <1>3, <1>4 DEF BytesInv

\* fclose
LEMMA FcloseKeeps ==
  ASSUME StreamsInv, NEW s \in Streams, fclose(s)
  PROVE  StreamsInv'
<1> DEFINE fd == file_streams[s].fd
           X == FileRecord \cup {NoFile}
<1>1. close(fd) /\ file_streams' = Without(file_streams, s)
  BY DEF fclose
<1>2. HostInv' /\ BytesInv'
  <2>1. HostInv'
    BY <1>1, FileCloseKeeps DEF StreamsInv
  <2>2. data' = Forget(data, disk, open')
    BY <1>1 DEF close
  <2> QED BY <2>1, <2>2, ForgetKeeps DEF StreamsInv
<1>3. /\ files \in Seq(X) /\ file_streams \in [Streams -> StreamRecord]
      /\ \A t \in Streams : file_streams[t].fd \in DOMAIN files /\ files[file_streams[t].fd] # NoFile
      /\ \A t, u \in Streams : file_streams[t].fd = file_streams[u].fd => t = u
      /\ \A t \in Streams : StreamFits(file_streams[t], files[file_streams[t].fd])
  BY DEF StreamsInv, FilesTyped, FdsInv, IsOpen, Fds, FileOf
<1>4. NoFile \in X
  OBVIOUS
<1> HIDE DEF X
<1>5. /\ files' \in Seq(X) /\ DOMAIN files' = DOMAIN files
      /\ \A k \in DOMAIN files : k # fd => files'[k] = files[k]
  <2>1. fd \in DOMAIN files /\ DOMAIN files = 1 .. Len(files)
    BY <1>3, LenProperties
  <2>2. files' = [files EXCEPT ![fd] = NoFile]
    BY <1>1 DEF close
  <2>3. files' \in Seq(X)
    BY <1>3, <1>4, <2>1, <2>2, ExceptSeq
  <2> QED BY <2>1, <2>2, <2>3
<1>6. /\ Streams' = Streams \ {s}
      /\ file_streams' = [t \in Streams \ {s} |-> file_streams[t]]
      /\ file_streams' \in [Streams' -> StreamRecord]
      /\ \A t \in Streams' : t \in Streams /\ t # s /\ file_streams'[t] = file_streams[t]
  <2>1. file_streams' = [t \in Streams \ {s} |-> file_streams[t]]
    BY <1>1 DEF Without, Streams
  <2>2. Streams' = Streams \ {s}
    BY <2>1 DEF Streams
  <2> QED BY <1>3, <2>1, <2>2
<1>7. \A t \in Streams' : files'[file_streams'[t].fd] = files[file_streams[t].fd]
  BY <1>3, <1>5, <1>6
<1>8. FilesTyped'
  BY <1>5 DEF FilesTyped, X
<1>9. FdsInv'
  BY <1>3, <1>5, <1>6, <1>7 DEF FdsInv, IsOpen, Fds
<1>10. \A t \in Streams' : StreamFits(file_streams'[t], FileOf(t)')
  BY <1>3, <1>6, <1>7 DEF FileOf
<1> QED BY <1>2, <1>8, <1>9, <1>10 DEF StreamsInv, StreamFits, FitsAt

\* The file that opening gives is the bundle's only when it is opened to read.
LEMMA OpenedBytes ==
  ASSUME HostInv, BytesInv, NEW p, NEW o, o.truncate => o.write \/ o.append,
         NEW i \in Inodes \cup {IpaInode}, NEW hold, Room(p),
         open_with_options(p, o, i, hold, <<>>)
  PROVE  BytesInv'
<1> DEFINE outside == is_file(p) /\ tree[p].location # "host"
           least == CHOOSE f \in FreeInodes : \A g \in FreeInodes : f <= g
<1>1. /\ MayOpen(p, o) \/ MayCreate(p, o)
      /\ i = CASE outside -> IpaInode [] p \in DOMAIN disk -> disk[p] [] OTHER -> least
      /\ data' = [data EXCEPT ![i] = IF o.truncate THEN <<>> ELSE data[i]]
  BY DEF open_with_options
<1>2. is_file(p) => p \in DOMAIN tree
  BY DEF is_file, lookup_node
<1>3. i = IpaInode => ~o.truncate
  <2>1. SUFFICES ASSUME i = IpaInode, o.truncate PROVE FALSE
    OBVIOUS
  <2>2. CASE outside
    <3>1. p \in DOMAIN tree /\ ~MayCreate(p, o)
      BY <1>2, <2>2 DEF MayCreate, lookup_node
    <3>2. tree[p].writeable
      BY <1>1, <2>1, <3>1 DEF MayOpen
    <3> QED BY <2>2, <3>1, <3>2, TreeTells DEF is_file
  <2>3. CASE ~outside /\ p \in DOMAIN disk
    <3>1. i = disk[p]
      BY <1>1, <2>3
    <3>2. disk[p] \in Inodes \cup {HostDir}
      BY <2>3 DEF HostInv, InodesInv
    <3> QED BY <2>1, <3>1, <3>2, FsAssumption DEF IpaInode, HostDir
  <2>4. CASE ~outside /\ p \notin DOMAIN disk
    <3>1. ~is_file(p)
      BY <1>2, <2>4, TreeTells
    <3>2. i = least /\ FreeInodes # {}
      BY <1>1, <2>4, <3>1 DEF Room
    <3>3. i \in FreeInodes
      BY <3>2, FreeInode
    <3> QED BY <2>1, <3>3, FsAssumption DEF FreeInodes, IpaInode
  <2> QED BY <2>2, <2>3, <2>4
<1> HIDE DEF outside, least
<1>4. (IF o.truncate THEN <<>> ELSE data[i]) \in Seq(Nat)
  <2>1. <<>> \in Seq(Nat) /\ data[i] \in Seq(Nat)
    BY DEF BytesInv
  <2> QED BY <2>1
<1>5. data' \in [Inodes \cup {IpaInode} -> Seq(Nat)]
  BY <1>1, <1>4 DEF BytesInv
<1>6. data'[IpaInode] = data[IpaInode]
  <2>1. IpaInode \in Inodes \cup {IpaInode}
    OBVIOUS
  <2> QED BY <1>1, <1>3, <2>1 DEF BytesInv
<1> QED BY <1>5, <1>6 DEF BytesInv

\* A descriptor goes into the first empty slot, or at the end.
LEMMA FilledIs ==
  ASSUME FilesTyped, NEW f \in FileRecord
  PROVE  /\ Filled(files, f) \in Seq(FileRecord \cup {NoFile}) /\ Slot(files) \in Nat
         /\ Slot(files) \in DOMAIN Filled(files, f) /\ Filled(files, f)[Slot(files)] = f
         /\ \A k \in DOMAIN files : files[k] # NoFile =>
              k # Slot(files) /\ k \in DOMAIN Filled(files, f) /\ Filled(files, f)[k] = files[k]
<1> DEFINE X == FileRecord \cup {NoFile}
           empty == {k \in DOMAIN files : files[k] = NoFile}
           n == Slot(files)
<1>1. /\ files \in Seq(X) /\ Len(files) \in Nat /\ DOMAIN files = 1 .. Len(files) /\ f \in X
  BY LenProperties DEF FilesTyped
<1> HIDE DEF X
<1>2. CASE empty # {}
  <2>1. empty \in SUBSET Nat
    BY <1>1
  <2>2. PICK m \in empty : \A j \in empty : m <= j
    BY <1>2, <2>1, LeastNatural
  <2>3. \A j \in 1 .. (m - 1) : files[j] # NoFile
    <3>1. \A j \in 1 .. (m - 1) : j \in DOMAIN files /\ ~(m <= j)
      BY <1>1, <2>2
    <3> QED BY <2>2, <3>1
  <2>4. \E k \in DOMAIN files : files[k] = NoFile /\ \A j \in 1 .. (k - 1) : files[j] # NoFile
    BY <2>2, <2>3
  <2>5. \E k \in DOMAIN files : files[k] = NoFile
    BY <2>4
  <2>6. n \in DOMAIN files /\ files[n] = NoFile
    BY <2>4, <2>5 DEF Slot
  <2> HIDE DEF n
  <2>7. Filled(files, f) = [files EXCEPT ![n] = f]
    BY <2>6 DEF Filled, n
  <2>8. Filled(files, f) \in Seq(X)
    BY <1>1, <2>6, <2>7, ExceptSeq
  <2> QED BY <1>1, <2>6, <2>7, <2>8 DEF n, X
<1>3. CASE empty = {}
  <2>1. ~\E k \in DOMAIN files : files[k] = NoFile
    BY <1>3
  <2>2. n = Len(files) + 1
    BY <2>1 DEF Slot
  <2> HIDE DEF n
  <2>3. n \notin DOMAIN files /\ n \in Nat
    BY <1>1, <2>2
  <2>4. Filled(files, f) = Append(files, f)
    BY <2>3 DEF Filled, n
  <2>5. /\ Append(files, f) \in Seq(X) /\ Len(Append(files, f)) = n
        /\ Append(files, f)[n] = f /\ \A k \in 1 .. Len(files) : Append(files, f)[k] = files[k]
    BY <1>1, <2>2
  <2>6. DOMAIN Append(files, f) = 1 .. n
    BY <2>5, LenProperties
  <2>7. n \in 1 .. n /\ \A k \in DOMAIN files : k # n /\ k \in 1 .. n
    BY <1>1, <2>2
  <2> QED BY <1>1, <2>3, <2>4, <2>5, <2>6, <2>7 DEF n, X
<1> QED BY <1>2, <1>3

\* A new stream is at the start of its file.
LEMMA StreamAdded ==
  ASSUME StreamsInv, HostInv', BytesInv', NEW f \in FileRecord, f.pos = 0, f.eof = FALSE,
         NEW s, s \notin Streams, files' = Filled(files, f),
         file_streams' = With(file_streams, s, NewStream(Slot(files)))
  PROVE  StreamsInv'
<1> DEFINE n == Slot(files)
           st == NewStream(n)
           X == FileRecord \cup {NoFile}
<1>1. /\ files' \in Seq(X) /\ n \in Nat /\ n \in DOMAIN files' /\ files'[n] = f
      /\ \A k \in DOMAIN files : files[k] # NoFile => k # n /\ k \in DOMAIN files' /\ files'[k] = files[k]
  BY FilledIs DEF StreamsInv
<1>2. /\ file_streams \in [Streams -> StreamRecord]
      /\ \A t \in Streams : file_streams[t].fd \in DOMAIN files /\ files[file_streams[t].fd] # NoFile
      /\ \A t, u \in Streams : file_streams[t].fd = file_streams[u].fd => t = u
      /\ \A t \in Streams : StreamFits(file_streams[t], files[file_streams[t].fd])
  BY DEF StreamsInv, FdsInv, IsOpen, Fds, FileOf
<1> HIDE DEF n, X
<1>3. st \in StreamRecord /\ st.fd = n /\ st.pushbacks = <<>> /\ st.taken = <<>>
  <2>1. <<>> \in Seq(Nat)
    OBVIOUS
  <2> QED BY <1>1, <2>1 DEF StreamRecord, NewStream
<1>4. StreamFits(st, f)
  <2>1. IpaBytes \in Seq(Nat) /\ Len(IpaBytes) \in Nat
    BY FsAssumption
  <2>2. IsSlice(Slice(IpaBytes, 0, 0), IpaBytes, 0, 0)
    BY <2>1, FirstBytes, 0 \in Nat
  <2>3. Slice(IpaBytes, 0, 0) = <<>>
    BY <2>2 DEF IsSlice
  <2>4. 0 + Len(<<>>) <= Len(IpaBytes) /\ 1 .. Len(<<>>) = {}
    BY <2>1
  <2>5. FitsAt(<<>>, <<>>, 0, FALSE)
    BY <2>3, <2>4 DEF FitsAt
  <2> QED BY <1>3, <2>5 DEF StreamFits
<1>5. f # NoFile
  BY FileParts
<1> HIDE DEF st
<1>6. /\ Streams' = Streams \cup {s} /\ file_streams' \in [Streams' -> StreamRecord]
      /\ file_streams'[s] = st /\ \A t \in Streams : t # s /\ file_streams'[t] = file_streams[t]
  <2>1. file_streams' = [t \in Streams \cup {s} |-> IF t = s THEN st ELSE file_streams[t]]
    BY DEF With, Streams, st, n
  <2>2. Streams' = Streams \cup {s}
    BY <2>1 DEF Streams
  <2> QED BY <1>2, <1>3, <2>1, <2>2
<1>7. \A t \in Streams : /\ file_streams'[t].fd = file_streams[t].fd /\ file_streams[t].fd # n
                         /\ file_streams[t].fd \in DOMAIN files'
                         /\ files'[file_streams[t].fd] = files[file_streams[t].fd]
  BY <1>1, <1>2, <1>6
<1>8. FilesTyped'
  BY <1>1 DEF FilesTyped, X
<1>9. \A t \in Streams' : file_streams'[t].fd \in DOMAIN files' /\ files'[file_streams'[t].fd] # NoFile
  BY <1>1, <1>2, <1>3, <1>5, <1>6, <1>7
<1>10. \A t, u \in Streams' : file_streams'[t].fd = file_streams'[u].fd => t = u
  BY <1>2, <1>3, <1>6, <1>7
<1>11. FdsInv'
  BY <1>6, <1>9, <1>10 DEF FdsInv, IsOpen, Fds
<1>12. \A t \in Streams' : StreamFits(file_streams'[t], FileOf(t)')
  <2>1. SUFFICES ASSUME NEW t \in Streams' PROVE StreamFits(file_streams'[t], files'[file_streams'[t].fd])
    BY DEF FileOf
  <2>2. CASE t = s
    BY <1>1, <1>3, <1>4, <1>6, <2>2
  <2>3. CASE t \in Streams
    BY <1>2, <1>6, <1>7, <2>3
  <2> QED BY <1>6, <2>2, <2>3
<1> QED BY <1>8, <1>11, <1>12 DEF StreamsInv, StreamFits, FitsAt


\* fopen: a descriptor and a stream, or neither.
LEMMA FopenKeeps ==
  ASSUME StreamsInv, NEW path, NEW mode, fopen(path, mode)
  PROVE  StreamsInv'
<1> DEFINE p == resolve_path(path)
           opened(kind, i) == PosixFile(kind, i, mode)
<1>1. /\ mode.read \in BOOLEAN /\ mode.write \in BOOLEAN /\ mode.append \in BOOLEAN
      /\ ~(mode.append /\ mode.truncate) /\ (mode.truncate => mode.write)
  <2>1. mode \in fopen_modes
    BY DEF fopen
  <2>2. PICK plus \in BOOLEAN : \/ mode = Options(TRUE, plus, FALSE, FALSE, FALSE)
                                \/ mode = Options(plus, TRUE, FALSE, TRUE, TRUE)
                                \/ mode = Options(plus, TRUE, TRUE, TRUE, FALSE)
    BY <2>1 DEF fopen_modes
  <2>3. CASE mode = Options(TRUE, plus, FALSE, FALSE, FALSE)
    BY <2>3 DEF Options
  <2>4. CASE mode = Options(plus, TRUE, FALSE, TRUE, TRUE)
    BY <2>4 DEF Options
  <2>5. CASE mode = Options(plus, TRUE, TRUE, TRUE, FALSE)
    BY <2>5 DEF Options
  <2> QED BY <2>2, <2>3, <2>4, <2>5
<1>2. PICK s \in FreePointers :
        /\ open_direct(path, mode)
        /\ file_streams' = IF files' = files THEN file_streams
                           ELSE With(file_streams, s, NewStream(Slot(files)))
  BY DEF fopen
<1>3. s \notin Streams
  BY DEF FreePointers
<1>4. HostInv'
  BY <1>1, <1>2, OpenDirectKeeps DEF StreamsInv
<1>5. ASSUME files' = files, BytesInv' PROVE StreamsInv'
  <2>1. UNCHANGED <<files, file_streams>>
    BY <1>2, <1>5
  <2> QED BY <1>4, <1>5, <2>1
          DEF StreamsInv, FilesTyped, FdsInv, IsOpen, Fds, Streams, StreamFits, FitsAt, FileOf
<1>6. ASSUME NEW kind \in {"file", "dir"}, NEW i \in Inodes \cup {IpaInode},
             files' = Filled(files, opened(kind, i)), BytesInv'
      PROVE  StreamsInv'
  <2>1. CASE files' = files
    BY <1>5, <1>6, <2>1
  <2>2. CASE files' # files
    <3>1. opened(kind, i) = [kind |-> kind, inode |-> i, pos |-> 0, eof |-> FALSE,
                             read |-> mode.read, write |-> mode.write \/ mode.append,
                             append |-> mode.append]
      BY DEF PosixFile
    <3>2. PICK w \in BOOLEAN : w = (mode.write \/ mode.append)
      BY <1>1
    <3>3. /\ opened(kind, i) \in FileRecord
          /\ opened(kind, i).pos = 0 /\ opened(kind, i).eof = FALSE
      BY <1>1, <3>1, <3>2 DEF FileRecord
    <3>4. file_streams' = With(file_streams, s, NewStream(Slot(files)))
      BY <1>2, <2>2
    <3> HIDE DEF opened
    <3> QED BY <1>3, <1>4, <1>6, <3>3, <3>4, StreamAdded
  <2> QED BY <2>1, <2>2
<1> HIDE DEF opened, p
<1>7. \/ /\ Room(p)
         /\ \E i \in Inodes \cup {IpaInode} :
               /\ open_with_options(p, mode, i, i # IpaInode, <<>>)
               /\ files' = Filled(files, opened("file", i))
      \/ files' = Filled(files, opened("dir", IpaInode)) /\ UNCHANGED fsVars
      \/ OpenSurprise(p, mode) /\ UNCHANGED files
      \/ UNCHANGED ioVars
  BY <1>2 DEF open_direct, opened, p
<1>8. CASE /\ Room(p)
           /\ \E i \in Inodes \cup {IpaInode} :
                 /\ open_with_options(p, mode, i, i # IpaInode, <<>>)
                 /\ files' = Filled(files, opened("file", i))
  <2>1. PICK i \in Inodes \cup {IpaInode} :
               /\ open_with_options(p, mode, i, i # IpaInode, <<>>)
               /\ files' = Filled(files, opened("file", i))
    BY <1>8
  <2>2. BytesInv'
    BY <1>1, <1>8, <2>1, OpenedBytes DEF StreamsInv
  <2> QED BY <1>6, <2>1, <2>2
<1>9. CASE files' = Filled(files, opened("dir", IpaInode)) /\ UNCHANGED fsVars
  <2>1. BytesInv'
    BY <1>9, FsStays
  <2> QED BY <1>6, <1>9, <2>1
<1>10. CASE OpenSurprise(p, mode) /\ UNCHANGED files
  <2>1. UNCHANGED data
    BY <1>10 DEF OpenSurprise, Surprised
  <2>2. BytesInv'
    BY <2>1 DEF StreamsInv, BytesInv
  <2> QED BY <1>5, <1>10, <2>2
<1>11. CASE UNCHANGED ioVars
  <2>1. UNCHANGED fsVars /\ UNCHANGED files
    BY <1>11 DEF ioVars
  <2>2. BytesInv'
    BY <2>1, FsStays
  <2> QED BY <1>5, <2>1, <2>2
<1> QED BY <1>7, <1>8, <1>9, <1>10, <1>11

\* Every call of the app on its streams.
LEMMA StreamCallKeeps ==
  ASSUME StreamsInv, ~FreadAfterUngetc, NEW paths, StreamStep(paths)
  PROVE  StreamsInv'
<1>1. CASE \E p \in paths, mode \in Modes : fopen(p, mode)
  BY <1>1, FopenKeeps
<1>2. CASE \E s \in Streams : fread(s, 2)
  BY <1>2, FreadKeeps, 2 \in Nat
<1>3. CASE \E s \in Streams : fgets(s, 2)
  BY <1>3, FgetsKeeps, 2 \in Nat
<1>4. CASE \E s \in Streams : fgetc(s)
  BY <1>4, FgetcKeeps
<1>5. CASE \E s \in Streams : ungetc(s)
  BY <1>5, UngetcKeeps
<1>6. CASE \E s \in Streams : fwrite(s, <<1>>)
  <2>1. <<1>> \in Seq(Nat)
    OBVIOUS
  <2> QED BY <1>6, <2>1, FwriteKeeps
<1>7. CASE \E s \in Streams : clearerr(s)
  BY <1>7, ClearerrKeeps
<1>8. CASE \E s \in Streams : fclose(s)
  BY <1>8, FcloseKeeps
<1>9. CASE \E s \in Streams, whence \in {"SET", "CUR", "END"}, off \in -1 .. 1 : fseek(s, off, whence)
  <2>1. PICK s \in Streams, whence \in {"SET", "CUR", "END"}, off \in -1 .. 1 : fseek(s, off, whence)
    BY <1>9
  <2>2. off \in Int
    OBVIOUS
  <2> QED BY <2>1, <2>2, FseekKeeps
<1> QED BY <1>1, <1>2, <1>3, <1>4, <1>5, <1>6, <1>7, <1>8, <1>9 DEF StreamStep

\* With no stream open there is nothing to say of them.
LEMMA NoStreams ==
  ASSUME files = <<>>, file_streams = <<>>
  PROVE  FilesTyped /\ FdsInv /\ \A s \in Streams : StreamFits(file_streams[s], FileOf(s))
<1>1. Streams = {} /\ file_streams \in [Streams -> StreamRecord]
  BY DEF Streams
<1>2. files \in Seq(FileRecord \cup {NoFile})
  <2> DEFINE X == FileRecord \cup {NoFile}
  <2> HIDE DEF X
  <2>1. <<>> \in Seq(X)
    OBVIOUS
  <2> QED BY <2>1 DEF X
<1> QED BY <1>1, <1>2 DEF FilesTyped, FdsInv

\* A new start has no streams.
LEMMA RestartEnds ==
  ASSUME HostInv, BytesInv, StartAgain
  PROVE  StreamsInv'
<1>1. Restart /\ files' = <<>> /\ file_streams' = <<>>
  BY DEF StartAgain, IoRestart
<1>2. HostInv'
  BY <1>1, RestartKeeps
<1>3. BytesInv'
  BY <1>1, ForgetKeeps DEF Restart
<1>4. FilesTyped' /\ FdsInv' /\ \A s \in Streams' : StreamFits(file_streams'[s], FileOf(s)')
  <2>1. Streams' = {} /\ file_streams' \in [Streams' -> StreamRecord]
    BY <1>1 DEF Streams
  <2>2. files' \in Seq(FileRecord \cup {NoFile})
    <3> DEFINE X == FileRecord \cup {NoFile}
    <3> HIDE DEF X
    <3>1. <<>> \in Seq(X)
      OBVIOUS
    <3> QED BY <1>1, <3>1 DEF X
  <2> QED BY <2>1, <2>2 DEF FilesTyped, FdsInv
<1> QED BY <1>2, <1>3, <1>4 DEF StreamsInv, StreamFits, FitsAt

\* The bytes that the host has at the first start.
LEMMA FirstBytesHeld ==
  ASSUME FsInit
  PROVE  BytesInv
<1> DEFINE names == SetToSeq(DOMAIN Documents)
<1>1. IsFiniteSet(DOMAIN Documents) /\ IpaBytes \in Seq(Nat)
      /\ \A p \in DOMAIN Documents : Documents[p] \in Seq(Nat)
  BY FsAssumption
<1>2. \A k \in 1 .. Len(names) : names[k] \in DOMAIN Documents
  <2>1. names \in Seq(DOMAIN Documents)
    BY FirstFiles
  <2> QED BY <2>1, ElementOfSeq
<1>3. data = [i \in Inodes \cup {IpaInode} |->
                CASE i = IpaInode -> IpaBytes
                  [] i \in 1 .. Len(names) -> Documents[names[i]]
                  [] OTHER -> <<>>]
  BY DEF FsInit
<1> HIDE DEF names
<1>4. <<>> \in Seq(Nat)
  OBVIOUS
<1>5. IpaInode \notin 1 .. Len(names)
  BY DEF IpaInode
<1> QED BY <1>1, <1>2, <1>3, <1>4, <1>5 DEF BytesInv

\* What the guest's code has not closed and has not freed.
Listing(names, n) == [names |-> names, read |-> n]
Reads == [d \in Dirs |-> open_dirs[d].read]
DirsInv ==
    /\ IsFiniteSet(Dirs)
    /\ open_dirs = [d \in Dirs |-> Listing(open_dirs[d].names, open_dirs[d].read)]
    /\ \A d \in Dirs : open_dirs[d].read \in Nat
    /\ handed \in Int
    /\ dirents = handed + Total(Reads, Dirs)
TreeFinite == IsFiniteSet(DOMAIN tree) /\ IsFiniteSet(DOMAIN disk)

\* The entries counted are those of the open directories.
LEMMA ReadsCounted ==
  ASSUME DirsInv
  PROVE  Ints(Reads, Dirs) /\ Total(Reads, Dirs) \in Int
<1>1. Ints(Reads, Dirs)
  BY DEF DirsInv, Reads, Ints
<1> QED BY <1>1, TotalChosen DEF DirsInv

\* opendir
LEMMA OpendirKeeps ==
  ASSUME DirsInv, NEW path, opendir(path)
  PROVE  DirsInv'
<1> DEFINE S == Dirs
           f == Reads
<1> DEFINE N == {Last(q) : q \in Children(tree, resolve_path(path))}
<1>1. PICK d \in FreePointers :
         /\ open_dirs' = With(open_dirs, d, Listing(N, 0))
         /\ UNCHANGED <<dirents, handed>>
  BY DEF opendir, Listing
<1> HIDE DEF N
<1>2. d \notin S /\ Ints(f, S) /\ Total(f, S) \in Int /\ IsFiniteSet(S)
  BY ReadsCounted DEF FreePointers, DirsInv
<1>3. /\ open_dirs' = [q \in S \cup {d} |-> IF q = d THEN Listing(N, 0) ELSE open_dirs[q]]
      /\ Dirs' = S \cup {d} /\ IsFiniteSet(S \cup {d})
  <2>1. open_dirs' = [q \in S \cup {d} |-> IF q = d THEN Listing(N, 0) ELSE open_dirs[q]]
    BY <1>1 DEF With, Dirs
  <2> QED BY <1>2, <2>1, FS_AddElement DEF Dirs
<1>4. /\ open_dirs'[d] = Listing(N, 0) /\ open_dirs'[d].read = 0
      /\ \A q \in S : q # d /\ open_dirs'[q] = open_dirs[q]
  <2>1. open_dirs'[d] = Listing(N, 0) /\ \A q \in S : q # d /\ open_dirs'[q] = open_dirs[q]
    BY <1>2, <1>3
  <2> QED BY <2>1 DEF Listing
<1>5. PICK T, g : T = Dirs' /\ g = Reads'
  OBVIOUS
<1>6. T = S \cup {d} /\ g = [q \in T |-> open_dirs'[q].read]
  BY <1>3, <1>5 DEF Reads
<1>7. g[d] = 0 /\ \A q \in S : g[q] = f[q]
  BY <1>4, <1>6 DEF Reads
<1>8. \A q \in T : open_dirs'[q].read \in Nat
  BY <1>4, <1>6, 0 \in Nat DEF DirsInv
<1>9. Ints(g, T) /\ IsFiniteSet(T) /\ T \ {d} = S /\ d \in T
  BY <1>2, <1>3, <1>6, <1>8 DEF Ints
<1> HIDE DEF f, S
<1>10. Total(g, S) = Total(f, S)
  BY <1>2, <1>7, TotalAgrees
<1>11. Total(g, T) = g[d] + Total(g, T \ {d})
  BY <1>9, TotalElement
<1>12. Total(g, T) = Total(f, S)
  BY <1>2, <1>7, <1>9, <1>10, <1>11
<1>13. \A q \in T : open_dirs'[q] = Listing(open_dirs'[q].names, open_dirs'[q].read)
  <2>1. open_dirs'[d] = Listing(open_dirs'[d].names, open_dirs'[d].read)
    BY <1>4 DEF Listing
  <2>2. \A q \in S : open_dirs[q] = Listing(open_dirs[q].names, open_dirs[q].read)
    BY DEF DirsInv, S
  <2> QED BY <1>4, <1>6, <2>1, <2>2
<1>14. open_dirs' = [q \in T |-> Listing(open_dirs'[q].names, open_dirs'[q].read)]
  BY <1>3, <1>6, <1>13
<1> QED BY <1>1, <1>5, <1>8, <1>9, <1>12, <1>14 DEF DirsInv, f, S

\* readdir
LEMMA ReaddirKeeps ==
  ASSUME DirsInv, NEW d \in Dirs, readdir(d)
  PROVE  DirsInv'
<1> DEFINE S == Dirs
           f == Reads
<1>1. Ints(f, S) /\ Total(f, S) \in Int /\ IsFiniteSet(S)
  BY ReadsCounted DEF DirsInv
<1>2. PICK n : open_dirs' = [open_dirs EXCEPT ![d].names = @ \ {n}, ![d].read = @ + 1]
  BY DEF readdir
<1>3. open_dirs[d] = Listing(open_dirs[d].names, open_dirs[d].read) /\ open_dirs[d].read \in Nat
  BY DEF DirsInv
<1>4. PICK k \in Nat : k = open_dirs[d].read
  BY <1>3
<1>5. PICK N : N = open_dirs[d].names
  OBVIOUS
<1>6. /\ Dirs' = S
      /\ open_dirs' = [q \in S |-> IF q = d THEN Listing(N \ {n}, k + 1) ELSE open_dirs[q]]
  <2>1. open_dirs = [q \in S |-> open_dirs[q]]
    BY DEF DirsInv
  <2>2. open_dirs[d] = [names |-> N, read |-> k]
    BY <1>3, <1>4, <1>5 DEF Listing
  <2>3. open_dirs' = [[open_dirs EXCEPT ![d] = [names |-> N \ {n}, read |-> k]] EXCEPT ![d].read = @ + 1]
    BY <1>2, <1>5, <2>1, <2>2
  <2>4. open_dirs' = [open_dirs EXCEPT ![d] = Listing(N \ {n}, k + 1)]
    BY <2>1, <2>3 DEF Listing
  <2> QED BY <2>1, <2>4 DEF Dirs
<1>7. /\ open_dirs'[d] = Listing(N \ {n}, k + 1)
      /\ open_dirs'[d].read = k + 1
      /\ \A q \in S : q # d => open_dirs'[q] = open_dirs[q]
  <2>1. open_dirs'[d] = Listing(N \ {n}, k + 1) /\ \A q \in S : q # d => open_dirs'[q] = open_dirs[q]
    BY <1>6
  <2> QED BY <2>1 DEF Listing
<1>8. PICK g : g = Reads' /\ g = [q \in S |-> open_dirs'[q].read]
  BY <1>6 DEF Reads
<1>9. f = [q \in S |-> open_dirs[q].read] /\ \A q \in S : f[q] \in Nat
  BY DEF Reads, DirsInv
<1>10. g[d] = f[d] + 1 /\ \A q \in S : q # d => g[q] = f[q]
  BY <1>4, <1>7, <1>8, <1>9
<1>11. Ints(g, S)
  <2>1. \A q \in S : g[q] \in Int
    BY <1>9, <1>10
  <2> QED BY <2>1 DEF Ints
<1>12. d \in S /\ f[d] \in Nat
  BY <1>9
<1> HIDE DEF f, S
<1>13. Total(g, S) = Total(f, S) + (g[d] - f[d])
  BY <1>1, <1>10, <1>11, <1>12, TotalMoves DEF Moves
<1>14. Total(g, S) = Total(f, S) + 1
  BY <1>1, <1>10, <1>12, <1>13
<1>15. dirents' = dirents + 1 /\ handed' = handed
  BY DEF readdir
<1>16. dirents' = handed' + Total(g, S)
  BY <1>1, <1>14, <1>15 DEF DirsInv, f, S
<1>17. \A q \in S : /\ open_dirs'[q].read \in Nat
                    /\ open_dirs'[q] = Listing(open_dirs'[q].names, open_dirs'[q].read)
  <2>1. \A q \in S : /\ open_dirs[q].read \in Nat
                     /\ open_dirs[q] = Listing(open_dirs[q].names, open_dirs[q].read)
    BY DEF DirsInv, S
  <2>2. open_dirs'[d] = Listing(open_dirs'[d].names, open_dirs'[d].read)
    BY <1>7 DEF Listing
  <2> QED BY <1>7, <2>1, <2>2
<1>18. open_dirs' = [q \in S |-> Listing(open_dirs'[q].names, open_dirs'[q].read)]
  BY <1>6, <1>17
<1> QED BY <1>1, <1>6, <1>8, <1>15, <1>16, <1>17, <1>18 DEF DirsInv, S

\* closedir
LEMMA ClosedirKeeps ==
  ASSUME DirsInv, NEW d, closedir(d)
  PROVE  DirsInv'
<1> DEFINE S == Dirs
           f == Reads
<1>1. CASE d \notin Dirs
  <2>1. UNCHANGED <<open_dirs, dirents, handed>>
    BY <1>1 DEF closedir
  <2> QED BY <2>1 DEF DirsInv, Dirs, Reads
<1>2. CASE d \in Dirs
  <2>1. /\ open_dirs' = [q \in S \ {d} |-> open_dirs[q]]
        /\ dirents' = dirents - f[d] /\ handed' = handed
    BY <1>2 DEF closedir, Without, Dirs, Reads
  <2>2. Dirs' = S \ {d}
    BY <2>1 DEF Dirs
  <2>3. Ints(f, S) /\ Total(f, S) \in Int /\ IsFiniteSet(S) /\ d \in S /\ f[d] \in Int
    BY <1>2, ReadsCounted DEF DirsInv, Ints
  <2>4. IsFiniteSet(S \ {d}) /\ Ints(f, S \ {d})
    BY <2>3, FS_RemoveElement DEF Ints
  <2>5. PICK g : g = Reads' /\ g = [q \in S \ {d} |-> open_dirs'[q].read]
    BY <2>2 DEF Reads
  <2>6. \A q \in S \ {d} : g[q] = f[q]
    BY <2>1, <2>5 DEF Reads
  <2>7. \A q \in S \ {d} : /\ open_dirs'[q].read \in Nat
                           /\ open_dirs'[q] = Listing(open_dirs'[q].names, open_dirs'[q].read)
    <3>1. \A q \in S : /\ open_dirs[q].read \in Nat
                       /\ open_dirs[q] = Listing(open_dirs[q].names, open_dirs[q].read)
      BY DEF DirsInv
    <3>2. \A q \in S \ {d} : open_dirs'[q] = open_dirs[q]
      BY <2>1
    <3> QED BY <3>1, <3>2
  <2>8. dirents = handed + Total(f, S) /\ handed \in Int
    BY DEF DirsInv
  <2> HIDE DEF f, S
  <2>9. Total(g, S \ {d}) = Total(f, S \ {d}) /\ Total(f, S \ {d}) \in Int
    BY <2>4, <2>6, TotalAgrees, TotalChosen
  <2>10. Total(f, S) = f[d] + Total(f, S \ {d})
    BY <2>3, TotalElement
  <2>11. dirents' = handed' + Total(g, S \ {d})
    BY <2>1, <2>3, <2>8, <2>9, <2>10
  <2>12. open_dirs' = [q \in S \ {d} |-> Listing(open_dirs'[q].names, open_dirs'[q].read)]
    BY <2>1, <2>7
  <2>13. handed' \in Int
    BY <2>1, <2>8
  <2> QED BY <2>2, <2>4, <2>5, <2>7, <2>11, <2>12, <2>13 DEF DirsInv
<1> QED BY <1>1, <1>2

\* scandir gives its entries to the app, which frees them one by one.
LEMMA EntriesKept ==
  ASSUME DirsInv, IsFiniteSet(DOMAIN tree), NEW paths, (\E p \in paths : scandir(p)) \/ FreeEntry
  PROVE  DirsInv'
<1>1. PICK n \in Int : /\ dirents' = dirents + n /\ handed' = handed + n
                       /\ UNCHANGED open_dirs
  <2>1. CASE FreeEntry
    <3>1. dirents' = dirents + (-1) /\ handed' = handed + (-1) /\ UNCHANGED open_dirs
      BY <2>1, ReadsCounted DEF FreeEntry, DirsInv
    <3> QED BY <3>1
  <2>2. CASE \E p \in paths : scandir(p)
    <3>1. PICK p \in paths : scandir(p)
      BY <2>2
    <3>2. PICK C : C = Children(tree, resolve_path(p))
      OBVIOUS
    <3>3. C \in SUBSET (DOMAIN tree)
      BY <3>2 DEF Children
    <3>4. Cardinality(C) \in Nat
      BY <3>3, FS_Subset, FS_CardinalityType
    <3>5. /\ dirents' = dirents + Cardinality(C) /\ handed' = handed + Cardinality(C)
          /\ UNCHANGED open_dirs
      BY <3>1, <3>2 DEF scandir
    <3> QED BY <3>4, <3>5
  <2> QED BY <2>1, <2>2
<1>2. Dirs' = Dirs /\ Reads' = Reads
  BY <1>1 DEF Dirs, Reads
<1>3. dirents = handed + Total(Reads, Dirs) /\ handed \in Int /\ Total(Reads, Dirs) \in Int
  BY ReadsCounted DEF DirsInv
<1>4. dirents' = handed' + Total(Reads, Dirs) /\ handed' \in Int
  BY <1>1, <1>3
<1> QED BY <1>1, <1>2, <1>4 DEF DirsInv

\* What leaves the directories alone.
LEMMA DirsStay ==
  ASSUME DirsInv, UNCHANGED <<open_dirs, dirents, handed>>
  PROVE  DirsInv'
BY DEF DirsInv, Dirs, Reads

\* Every call of the app on directories.
LEMMA DirCallKeeps ==
  ASSUME DirsInv, IsFiniteSet(DOMAIN tree), NEW paths, DirStep(paths)
  PROVE  DirsInv'
<1>1. CASE \E p \in paths : opendir(p)
  BY <1>1, OpendirKeeps
<1>2. CASE \E d \in Dirs : readdir(d)
  BY <1>2, ReaddirKeeps
<1>3. CASE \E d \in Pointers \ Streams : closedir(d)
  BY <1>3, ClosedirKeeps
<1>4. CASE (\E p \in paths : scandir(p)) \/ FreeEntry
  BY <1>4, EntriesKept
<1> QED BY <1>1, <1>2, <1>3, <1>4 DEF DirStep

\* Nothing adds up to nothing.
LEMMA TotalNone ==
  ASSUME NEW S, S = {}, NEW f
  PROVE  Total(f, S) = 0 /\ IsFiniteSet(S)
<1>1. IsFiniteSet(S) /\ Ints(f, S)
  BY FS_EmptySet DEF Ints
<1> QED BY <1>1, TotalChosen

\* What Fs::new makes up itself is finite.
LEMMA FixedFinite == IsFiniteSet(MadeAtStart) /\ IsFiniteSet(DOMAIN ReadOnlyTree)
<1>1. IsFiniteSet({})
  BY FS_EmptySet
<1>2. MadeAtStart = ((({} \cup {<<"Documents">>}) \cup {<<"Library">>}) \cup {<<"tmp">>})
                       \cup {<<"Library", "Preferences">>}
  BY DEF MadeAtStart, Sandbox
<1>3. DOMAIN ReadOnlyTree = ((({} \cup {<<>>}) \cup {<<"App">>}) \cup {<<"App", "x">>}) \cup {<<"lib">>}
  BY DEF ReadOnlyTree
<1>4. ASSUME NEW a, NEW b, NEW c, NEW d
      PROVE  IsFiniteSet(((({} \cup {a}) \cup {b}) \cup {c}) \cup {d})
  <2>1. IsFiniteSet({} \cup {a})
    BY <1>1, FS_AddElement
  <2>2. IsFiniteSet(({} \cup {a}) \cup {b})
    BY <2>1, FS_AddElement
  <2>3. IsFiniteSet((({} \cup {a}) \cup {b}) \cup {c})
    BY <2>2, FS_AddElement
  <2> QED BY <2>3, FS_AddElement
<1>5. IsFiniteSet(MadeAtStart)
  BY <1>2, <1>4
<1>6. IsFiniteSet(DOMAIN ReadOnlyTree)
  <2>1. PICK a, b, c, d : a = <<>> /\ b = <<"App">> /\ c = <<"App", "x">> /\ d = <<"lib">>
    OBVIOUS
  <2>2. DOMAIN ReadOnlyTree = ((({} \cup {a}) \cup {b}) \cup {c}) \cup {d}
    BY <1>3, <2>1, Zenon
  <2>3. IsFiniteSet(((({} \cup {a}) \cup {b}) \cup {c}) \cup {d})
    BY <1>4
  <2> QED BY <2>2, <2>3, Zenon
<1> QED BY <1>5, <1>6

\* Opening, removing and starting again change a tree by finitely much.
LEMMA FiniteStays ==
  ASSUME TreeFinite,
         \/ \E path, bytes : write(path, bytes) \/ remove(path)
         \/ Restart
         \/ UNCHANGED fsVars
  PROVE  TreeFinite'
<1>1. IsFiniteSet(DOMAIN tree) /\ IsFiniteSet(DOMAIN disk)
  BY DEF TreeFinite
<1>2. CASE UNCHANGED <<tree, disk>>
  BY <1>1, <1>2 DEF TreeFinite
<1>3. CASE \E path, bytes : write(path, bytes)
  <2>1. PICK path, bytes : write(path, bytes)
    BY <1>3
  <2>2. PICK p : p = resolve_path(path)
    OBVIOUS
  <2>3. \/ \E i \in Inodes : open_with_options(p, WRITE, i, FALSE, bytes)
        \/ OpenSurprise(p, WRITE)
    BY <2>1, <2>2 DEF write
  <2>4. CASE \E i \in Inodes : open_with_options(p, WRITE, i, FALSE, bytes)
    <3>1. PICK i \in Inodes : open_with_options(p, WRITE, i, FALSE, bytes)
      BY <2>4
    <3>2. /\ DOMAIN tree' \in {DOMAIN tree, DOMAIN tree \cup {p}}
          /\ DOMAIN disk' \in {DOMAIN disk, DOMAIN disk \cup {p}}
      BY <3>1 DEF open_with_options, With
    <3> QED BY <1>1, <3>2, FS_AddElement DEF TreeFinite
  <2>5. CASE OpenSurprise(p, WRITE)
    BY <1>2, <2>5 DEF OpenSurprise, Surprised
  <2> QED BY <2>3, <2>4, <2>5
<1>4. CASE \E path : remove(path)
  <2>1. PICK path : remove(path)
    BY <1>4
  <2>2. PICK p : p = resolve_path(path)
    OBVIOUS
  <2>3. \/ disk' = Without(disk, p) /\ tree' = Without(tree, p)
        \/ Surprised
    BY <2>1, <2>2 DEF remove
  <2>4. CASE disk' = Without(disk, p) /\ tree' = Without(tree, p)
    <3>1. DOMAIN tree' = DOMAIN tree \ {p} /\ DOMAIN disk' = DOMAIN disk \ {p}
      BY <2>4 DEF Without
    <3> QED BY <1>1, <3>1, FS_RemoveElement DEF TreeFinite
  <2>5. CASE Surprised
    BY <1>2, <2>5 DEF Surprised
  <2> QED BY <2>3, <2>4, <2>5
<1>5. CASE Restart
  <2>1. disk' = Prepared(disk) /\ tree' = new(disk)
    BY <1>5 DEF Restart
  <2>2. DOMAIN Prepared(disk) = {p \in DOMAIN disk : p[1] # "tmp"} \cup MadeAtStart
    BY DEF Prepared, MadeAtStart
  <2>3. DOMAIN new(disk) = DOMAIN ReadOnlyTree \cup DOMAIN Prepared(disk)
    BY DEF new, from_host_dir
  <2>4. {p \in DOMAIN disk : p[1] # "tmp"} \in SUBSET DOMAIN disk
    OBVIOUS
  <2>5. IsFiniteSet({p \in DOMAIN disk : p[1] # "tmp"})
    BY <1>1, <2>4, FS_Subset
  <2>6. IsFiniteSet(DOMAIN Prepared(disk))
    BY <2>2, <2>5, FixedFinite, FS_Union
  <2>7. IsFiniteSet(DOMAIN new(disk))
    BY <2>3, <2>6, FixedFinite, FS_Union
  <2> QED BY <2>1, <2>6, <2>7 DEF TreeFinite
<1> QED BY <1>2, <1>3, <1>4, <1>5 DEF fsVars

\* The first tree is finite.
LEMMA FirstFinite ==
  ASSUME FsInit
  PROVE  TreeFinite
<1> DEFINE names == SetToSeq(DOMAIN Documents)
           host == [p \in DOMAIN Documents |-> CHOOSE i \in 1..Len(names) : names[i] = p]
<1>1. disk = Prepared(host) /\ tree = new(host) /\ DOMAIN host = DOMAIN Documents
  BY DEF FsInit
<1> HIDE DEF host
<1>2. DOMAIN Prepared(host) = {p \in DOMAIN host : p[1] # "tmp"} \cup MadeAtStart
  BY DEF Prepared, MadeAtStart
<1>3. DOMAIN new(host) = DOMAIN ReadOnlyTree \cup DOMAIN Prepared(host)
  BY DEF new, from_host_dir
<1>4. {p \in DOMAIN host : p[1] # "tmp"} \in SUBSET DOMAIN Documents
  BY <1>1
<1>5. IsFiniteSet({p \in DOMAIN host : p[1] # "tmp"})
  BY <1>4, FsAssumption, FS_Subset
<1>6. IsFiniteSet(DOMAIN Prepared(host))
  BY <1>2, <1>5, FixedFinite, FS_Union
<1>7. IsFiniteSet(DOMAIN new(host))
  BY <1>3, <1>6, FixedFinite, FS_Union
<1> QED BY <1>1, <1>6, <1>7 DEF TreeFinite

\* What holds of streams and directories in all parts.
WhatIsOpen ==
    /\ part = "streams" => StreamsInv
    /\ part # "streams" => file_streams = <<>>
    /\ part = "directories" => TreeFinite
    /\ DirsInv

\* A new start has no directories open.
LEMMA RestartCloses ==
  ASSUME StartAgain
  PROVE  DirsInv'
<1>1. open_dirs' = <<>> /\ dirents' = 0 /\ handed' = 0
  BY DEF StartAgain
<1>2. PICK S, f : S = Dirs' /\ f = Reads'
  OBVIOUS
<1>3. S = {} /\ S = DOMAIN open_dirs' /\ open_dirs' = [d \in S |-> Listing(open_dirs'[d].names, open_dirs'[d].read)]
  BY <1>1, <1>2 DEF Dirs
<1>4. Total(f, S) = 0 /\ IsFiniteSet(S)
  BY <1>3, TotalNone
<1> QED BY <1>1, <1>2, <1>3, <1>4 DEF DirsInv

\* The first start.
LEMMA FirstOpen == Init => WhatIsOpen
<1> SUFFICES ASSUME Init PROVE WhatIsOpen
  OBVIOUS
<1>1. FsInit /\ files = <<>> /\ file_streams = <<>> /\ open_dirs = <<>> /\ dirents = 0 /\ handed = 0
  BY DEF Init, StdioInit, IoInit
<1>2. StreamsInv
  BY <1>1, FirstStart, FirstBytesHeld, NoStreams DEF StreamsInv
<1>3. DirsInv
  <2>1. PICK S, f : S = Dirs /\ f = Reads
    OBVIOUS
  <2>2. S = {} /\ open_dirs = [d \in S |-> Listing(open_dirs[d].names, open_dirs[d].read)]
    BY <1>1, <2>1 DEF Dirs
  <2>3. Total(f, S) = 0 /\ IsFiniteSet(S)
    BY <2>2, TotalNone
  <2> QED BY <1>1, <2>1, <2>2, <2>3 DEF DirsInv
<1> QED BY <1>1, <1>2, <1>3, FirstFinite DEF WhatIsOpen

\* Every step of the files.
LEMMA OpenNext ==
  ASSUME WhatIsOpen, ~FreadAfterUngetc, [Next]_allVars
  PROVE  WhatIsOpen'
<1>1. CASE StartAgain /\ UNCHANGED part
  <2>1. DirsInv' /\ file_streams' = <<>>
    BY <1>1, RestartCloses DEF StartAgain
  <2>2. part = "streams" => StreamsInv'
    BY <1>1, RestartEnds DEF WhatIsOpen, StreamsInv
  <2>3. part = "directories" => TreeFinite'
    BY <1>1, FiniteStays DEF WhatIsOpen, StartAgain, IoRestart
  <2> QED BY <1>1, <2>1, <2>2, <2>3 DEF WhatIsOpen
<1>2. CASE part = "streams" /\ UNCHANGED part /\ StreamStep(FilePaths)
  <2>1. StreamsInv'
    BY <1>2, StreamCallKeeps DEF WhatIsOpen
  <2>2. UNCHANGED <<open_dirs, dirents, handed>>
    <3>1. \A s, n : fread(s, n) => UNCHANGED <<open_dirs, dirents, handed>>
      BY DEF fread
    <3> QED BY <1>2, <3>1 DEF StreamStep, fopen, fgets, fgetc, ungetc, fwrite, clearerr, fclose, fseek
  <2>3. DirsInv'
    BY <2>2, DirsStay DEF WhatIsOpen
  <2> QED BY <1>2, <2>1, <2>3 DEF WhatIsOpen
<1>3. CASE part = "directories" /\ UNCHANGED part /\ DirStep(DirPaths)
  <2>1. DirsInv'
    BY <1>3, DirCallKeeps DEF WhatIsOpen, TreeFinite
  <2>2. TreeFinite'
    BY <1>3, DirStepKeeps, FiniteStays DEF WhatIsOpen
  <2>3. UNCHANGED file_streams
    BY <1>3 DEF DirStep, opendir, scandir, readdir, closedir, FreeEntry
  <2> QED BY <1>3, <2>1, <2>2, <2>3 DEF WhatIsOpen
<1>4. CASE /\ part = "directories" /\ UNCHANGED part
           /\ \E p \in DirPaths : write(p, <<1>>) \/ remove(p)
           /\ UNCHANGED <<files, file_streams, open_dirs, dirents, handed>>
  <2>1. DirsInv' /\ TreeFinite'
    BY <1>4, DirsStay, FiniteStays DEF WhatIsOpen
  <2> QED BY <1>4, <2>1 DEF WhatIsOpen
<1>5. CASE /\ part \notin {"streams", "directories"} /\ UNCHANGED part
           /\ UNCHANGED <<file_streams, open_dirs, dirents, handed>>
  <2>1. DirsInv'
    BY <1>5, DirsStay DEF WhatIsOpen
  <2> QED BY <1>5, <2>1 DEF WhatIsOpen
<1>6. CASE UNCHANGED allVars
  <2>1. UNCHANGED fsVars /\ UNCHANGED <<tree, disk, data, open, surprise>>
        /\ UNCHANGED <<files, file_streams, open_dirs, dirents, handed, part>>
    BY <1>6 DEF allVars, stdioVars, ioVars, fsVars
  <2>2. DirsInv'
    BY <2>1, DirsStay DEF WhatIsOpen
  <2>3. part = "streams" => StreamsInv'
    <3>1. ASSUME StreamsInv PROVE StreamsInv'
      <4>1. HostInv' /\ BytesInv'
        BY <2>1, <3>1, FsStays DEF StreamsInv
      <4> QED BY <2>1, <3>1, <4>1
              DEF StreamsInv, FilesTyped, FdsInv, IsOpen, Fds, Streams, StreamFits, FitsAt, FileOf
    <3> QED BY <3>1 DEF WhatIsOpen
  <2>4. part = "directories" => TreeFinite'
    BY <2>1 DEF WhatIsOpen, TreeFinite
  <2> QED BY <2>1, <2>2, <2>3, <2>4 DEF WhatIsOpen
<1> QED BY <1>1, <1>2, <1>3, <1>4, <1>5, <1>6 DEF Next, others

\* Streams and directories, in a state of the invariant.
LEMMA OpenSound == WhatIsOpen => StreamsSound
<1> SUFFICES ASSUME WhatIsOpen PROVE StreamsSound
  OBVIOUS
<1>1. ReadsInOrder
  <2>1. CASE part = "streams"
    BY <2>1 DEF WhatIsOpen, StreamsInv, StreamFits, FitsAt, ReadsInOrder, IsFile, FileOf
  <2>2. CASE part # "streams"
    <3>1. Streams = {}
      BY <2>2 DEF WhatIsOpen, Streams
    <3> QED BY <3>1 DEF ReadsInOrder
  <2> QED BY <2>1, <2>2
<1>2. DirentsAccounted
  BY DEF WhatIsOpen, DirsInv, DirentsAccounted, Total, Reads
<1> QED BY <1>1, <1>2 DEF StreamsSound

\* What an app reads of the bundle through the C library's streams
\* (src/libc/stdio.rs) is the file from its beginning up to the descriptor's
\* offset, each byte once and in order, in every mixture of fgetc, ungetc,
\* fread, fgets, fseek and the rest, end of file only at the end; and the
\* entries readdir and scandir (src/libc/dirent.rs) allocate are those that
\* closedir or the app has still to free.  The hypothesis is the condition of
\* the run: fread and fgets find no characters pushed back, for fread does not
\* move the offset forward again over the ones it takes.
THEOREM StreamsStaySound ==
  ASSUME ~FreadAfterUngetc
  PROVE  Spec => []StreamsSound
<1>1. WhatIsOpen /\ [Next]_allVars => WhatIsOpen'
  BY OpenNext
<1> QED BY <1>1, FirstOpen, OpenSound, PTL DEF Spec
=============================================================================
