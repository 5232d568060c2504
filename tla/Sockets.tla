---- MODULE Sockets ----
(***************************************************************************)
(* Guest sockets (src/libc/sys/socket.rs): blocking TCP and UDP sockets    *)
(* over non-blocking host sockets.  A call that would have to wait is not  *)
(* implemented: the app is expected to ask select() first.  select()       *)
(* accepts the connection it finds on a listener, since the host cannot be *)
(* asked without, and keeps it for the guest's accept().                   *)
(*                                                                         *)
(* The remote ends and the host's network are the environment.  A message  *)
(* is one unit; its content does not matter.  With network access disabled *)
(* socket() fails and there is nothing to model.                           *)
(***************************************************************************)
EXTENDS Integers, Sequences, FiniteSets, SequencesExt

CONSTANTS MaxFds,           \* bound: descriptors
          MaxConns,         \* bound: TCP connections in a run
          MaxUnread,        \* bound: messages waiting at a socket
          SockCareful       \* what the app avoids

ASSUME SocketsAssumption ==
    /\ MaxFds \in Nat /\ MaxConns \in Nat /\ MaxUnread \in Nat
    /\ SockCareful \subseteq {"asks", "accepts", "polls", "broadcast"}

VARIABLES slots,        \* posix_io's files: a sequence of "none", "file", "socket"
          sockets,      \* State.sockets: descriptor -> SocketHostObject
          conns,        \* host TCP streams: [inbox, ended], by number
          backlog,      \* connections the host has completed: descriptor of the listener -> sequence
          datagrams,    \* messages at the host UDP socket of a descriptor
          told,         \* ghost: descriptors select() has called readable, not used since
          sockPanic,    \* a call has met what it does not implement, or an assertion
          lost          \* the stream on which a call has met the network's failure, and panicked

sockVars == <<slots, sockets, conns, backlog, datagrams, told, sockPanic, lost>>

noConn == 0
Conns == DOMAIN conns
FdsOf(type) == {fd \in DOMAIN sockets : sockets[fd].type = type}

SocketHostObject(type, stream) ==
    [type |-> type, broadcast |-> FALSE, listener |-> FALSE, pending |-> noConn, stream |-> stream, udp |-> FALSE]

SocketsInit ==
    /\ slots = <<>> /\ sockets = <<>> /\ conns = <<>> /\ sockPanic = FALSE
    /\ backlog = [fd \in 1 .. MaxFds |-> <<>>] /\ datagrams = [fd \in 1 .. MaxFds |-> 0]
    /\ told = {} /\ lost = noConn

-----------------------------------------------------------------------------
(* Descriptors                                                             *)

FreeSlot ==
    LET free == {k \in DOMAIN slots : slots[k] = "none"}
    IN  IF free = {} THEN Len(slots) + 1 ELSE CHOOSE k \in free : \A j \in free : k <= j

\* find_or_create_fd
Take(fd, what) == slots' = IF fd \in DOMAIN slots THEN [slots EXCEPT ![fd] = what] ELSE Append(slots, what)

WithSocket(socks, fd, s) == [k \in DOMAIN socks \cup {fd} |-> IF k = fd THEN s ELSE socks[k]]

\* socket(); the assertion that there is no socket by that number yet.
Socket ==
    \E type \in {"tcp", "udp"} :
        /\ ~sockPanic /\ FreeSlot <= MaxFds
        /\ Take(FreeSlot, "socket")
        /\ sockPanic' = (FreeSlot \in DOMAIN sockets)
        /\ sockets' = WithSocket(sockets, FreeSlot, SocketHostObject(type, noConn))
        /\ UNCHANGED <<conns, backlog, datagrams, told>>

OpenFile ==
    /\ ~sockPanic /\ FreeSlot <= MaxFds /\ Take(FreeSlot, "file")
    /\ UNCHANGED <<sockets, conns, backlog, datagrams, told, sockPanic>>

\* A plausible slip: the socket's host object stays in the table.
CloseFdOnly(fd) ==
    /\ slots' = [slots EXCEPT ![fd] = "none"]
    /\ backlog' = [backlog EXCEPT ![fd] = <<>>] /\ datagrams' = [datagrams EXCEPT ![fd] = 0]
    /\ told' = told \ {fd}
    /\ UNCHANGED <<sockets, conns, sockPanic>>

\* close() and close_socket(): the host sockets go with the host object.
CloseFd(fd) ==
    /\ slots' = [slots EXCEPT ![fd] = "none"]
    /\ sockets' = [k \in DOMAIN sockets \ {fd} |-> sockets[k]]
    /\ backlog' = [backlog EXCEPT ![fd] = <<>>] /\ datagrams' = [datagrams EXCEPT ![fd] = 0]
    /\ told' = told \ {fd}
    /\ UNCHANGED <<conns, sockPanic>>

\* shutdown() of both directions closes the descriptor as well.
Close == \E fd \in DOMAIN slots : ~sockPanic /\ slots[fd] # "none" /\ CloseFd(fd)

-----------------------------------------------------------------------------
(* Setting sockets up                                                      *)

SetSockOpt ==
    \E fd \in FdsOf("udp") :
        /\ ~sockPanic /\ ~sockets[fd].broadcast /\ sockets' = [sockets EXCEPT ![fd].broadcast = TRUE]
        /\ UNCHANGED <<slots, conns, backlog, datagrams, told, sockPanic>>

\* bind(), to a free port; std::net listens at once, so listen() does nothing.
Bind ==
    \E fd \in DOMAIN sockets :
        /\ ~sockPanic /\ sockets[fd].stream = noConn
        /\ "polls" \in SockCareful => ~(sockets[fd].listener \/ sockets[fd].udp)
        /\ sockPanic' = (sockets[fd].listener \/ sockets[fd].udp)
        /\ sockets' = [sockets EXCEPT ![fd].listener = sockets[fd].type = "tcp", ![fd].udp = sockets[fd].type = "udp"]
        /\ UNCHANGED <<slots, conns, backlog, datagrams, told>>

NewConn == Append(conns, [inbox |-> 0, ended |-> "no"])

\* connect(), to a server that is there.
Connect ==
    \E fd \in FdsOf("tcp") :
        /\ ~sockPanic /\ Len(conns) < MaxConns /\ ~sockets[fd].listener /\ sockets[fd].stream = noConn
        /\ conns' = NewConn
        /\ sockets' = [sockets EXCEPT ![fd].stream = Len(conns) + 1]
        /\ UNCHANGED <<slots, backlog, datagrams, told, sockPanic>>

-----------------------------------------------------------------------------
(* The network                                                             *)

Arrives ==
    \E fd \in DOMAIN sockets :
        /\ ~sockPanic /\ sockets[fd].listener /\ Len(conns) < MaxConns
        /\ conns' = NewConn /\ backlog' = [backlog EXCEPT ![fd] = Append(@, Len(conns) + 1)]
        /\ UNCHANGED <<slots, sockets, datagrams, told, sockPanic>>

PeerSends ==
    \E c \in Conns :
        /\ ~sockPanic /\ conns[c].ended = "no" /\ conns[c].inbox < MaxUnread
        /\ conns' = [conns EXCEPT ![c].inbox = @ + 1]
        /\ UNCHANGED <<slots, sockets, backlog, datagrams, told, sockPanic>>

\* The peer closes its end, or resets the connection: also later, in answer to
\* what it is sent.
PeerEnds ==
    \E c \in Conns, how \in {"closed", "reset"} :
        /\ ~sockPanic /\ conns[c].ended \notin {how, "reset"}
        /\ conns' = [conns EXCEPT ![c].ended = how, ![c].inbox = IF how = "reset" THEN 0 ELSE @]
        /\ UNCHANGED <<slots, sockets, backlog, datagrams, told, sockPanic>>

Datagram ==
    \E fd \in FdsOf("udp") :
        /\ ~sockPanic /\ sockets[fd].udp /\ datagrams[fd] < MaxUnread
        /\ datagrams' = [datagrams EXCEPT ![fd] = @ + 1]
        /\ UNCHANGED <<slots, sockets, conns, backlog, told, sockPanic>>

-----------------------------------------------------------------------------
(* select()                                                                *)

\* Peeking at a stream: data, its end and a reset count as readable.
StreamReadable(c) == conns[c].inbox > 0 \/ conns[c].ended # "no"

\* The read set.  A listener is asked by accepting what has come.
Comes(fd) == sockets[fd].type = "tcp" /\ sockets[fd].stream = noConn /\ sockets[fd].listener /\ backlog[fd] # <<>>
ReadReady(fd) ==
    LET s == sockets[fd]
    IN  \/ s.type = "udp" /\ s.udp /\ datagrams[fd] > 0
        \/ s.type = "tcp" /\ s.stream # noConn /\ StreamReadable(s.stream)
        \/ Comes(fd)
ReadFails(fd, waits) ==
    LET s == sockets[fd]
    IN  \/ slots[fd] # "socket"
        \/ s.type = "udp" /\ ~s.udp
        \/ s.type = "tcp" /\ s.stream = noConn /\ ~s.listener
        \/ Comes(fd) /\ s.pending # noConn
        \/ waits /\ ~ReadReady(fd)

\* The write set, and the error set.
WriteFails(fd, waits) ==
    LET s == sockets[fd]
    IN  slots[fd] # "socket" \/ s.listener \/ (waits /\ s.stream = noConn /\ ~s.udp)
ErrorFails(fd) ==
    LET s == sockets[fd]
    IN  slots[fd] # "socket" \/ s.type = "udp" \/ s.listener \/ s.stream = noConn

\* take_error() has something to report of a stream that was reset, unless a
\* call before it has taken the report: that depends on the host.
IsReset(c) == c # noConn /\ conns[c].ended = "reset"
HasError(fd) == IsReset(sockets[fd].stream)

\* process_set looks at each descriptor by itself: what it does to one is of no
\* consequence to the others, nor to the sets that follow.
Select ==
    \E reads, writes, errors \in SUBSET DOMAIN sockets, waits, reported \in BOOLEAN :
        /\ ~sockPanic /\ Cardinality(reads) + Cardinality(writes) + Cardinality(errors) \in 1 .. 2
        /\ "polls" \in SockCareful =>
             /\ ~waits
             /\ \A fd \in reads : sockets[fd].listener \/ sockets[fd].udp \/ sockets[fd].stream # noConn
             /\ \A fd \in writes : ~sockets[fd].listener
             /\ \A fd \in errors : sockets[fd].stream # noConn
        /\ "accepts" \in SockCareful => \A fd \in reads : sockets[fd].pending = noConn
        /\ sockets' = [fd \in DOMAIN sockets |->
                         IF fd \in reads /\ Comes(fd) THEN [sockets[fd] EXCEPT !.pending = Head(backlog[fd])]
                         ELSE sockets[fd]]
        /\ backlog' = [fd \in 1 .. MaxFds |->
                         IF fd \in reads /\ Comes(fd) THEN Tail(backlog[fd]) ELSE backlog[fd]]
        /\ told' = told \cup {fd \in reads : ReadReady(fd)}
        /\ sockPanic' = \/ \E fd \in reads : ReadFails(fd, waits)
                        \/ \E fd \in writes : WriteFails(fd, waits)
                        \/ \E fd \in errors : ErrorFails(fd)
        /\ \/ \E fd \in errors : HasError(fd) /\ ~reported /\ lost' = sockets[fd].stream
           \/ (reported \/ \A fd \in errors : ~HasError(fd)) /\ UNCHANGED lost
        /\ UNCHANGED <<slots, conns, datagrams>>

-----------------------------------------------------------------------------
(* Using sockets                                                           *)

\* accept(): the connection select() has kept, whose address is asked for: the
\* host has none if the peer has reset it since.  Accepting one that has only
\* just come, and waiting for one, are not implemented.
Accept ==
    \E fd \in FdsOf("tcp") :
        /\ ~sockPanic /\ FreeSlot <= MaxFds
        /\ "asks" \in SockCareful => fd \in told
        /\ sockets[fd].stream = noConn /\ told' = told \ {fd}
        /\ IF sockets[fd].pending = noConn
           THEN sockPanic' = TRUE /\ UNCHANGED <<slots, sockets, lost>>
           ELSE IF IsReset(sockets[fd].pending)
           THEN /\ lost' = sockets[fd].pending /\ sockets' = [sockets EXCEPT ![fd].pending = noConn]
                /\ UNCHANGED <<slots, sockPanic>>
           ELSE /\ Take(FreeSlot, "socket")
                /\ sockPanic' = (FreeSlot \in DOMAIN sockets)
                /\ sockets' = WithSocket([sockets EXCEPT ![fd].pending = noConn], FreeSlot,
                                         SocketHostObject("tcp", sockets[fd].pending))
                /\ UNCHANGED lost
        /\ UNCHANGED <<conns, backlog, datagrams>>

\* recvfrom(): a reset is an error, the end of the stream is no data.
RecvFrom ==
    \E fd \in DOMAIN sockets :
        LET s == sockets[fd]
        IN  /\ ~sockPanic
            /\ "asks" \in SockCareful => fd \in told
            /\ ~s.listener /\ (s.type = "tcp" => s.stream # noConn)
            /\ told' = told \ {fd}
            /\ IF s.type = "udp"
               THEN /\ datagrams' = [datagrams EXCEPT ![fd] = IF @ > 0 THEN @ - 1 ELSE 0]
                    /\ sockPanic' = (datagrams[fd] = 0) /\ UNCHANGED conns
               ELSE /\ conns' = [conns EXCEPT ![s.stream].inbox = IF @ > 0 THEN @ - 1 ELSE 0]
                    /\ sockPanic' = ~StreamReadable(s.stream) /\ UNCHANGED datagrams
            /\ UNCHANGED <<slots, sockets, backlog>>

\* send() changes nothing on this side, or panics: on a stream that its peer has
\* reset, and on one whose peer reads so little that the host would have to wait.
Send ==
    \E fd \in FdsOf("tcp") :
        /\ ~sockPanic /\ sockets[fd].stream # noConn
        /\ lost' = sockets[fd].stream
        /\ UNCHANGED <<slots, sockets, conns, backlog, datagrams, told, sockPanic>>

\* sendto(): a broadcast makes the host socket; it must be allowed to.
\* Otherwise it changes nothing on this side.
SendTo ==
    \E fd \in FdsOf("udp") :
        /\ ~sockPanic /\ ~sockets[fd].udp
        /\ "broadcast" \in SockCareful => sockets[fd].broadcast
        /\ sockPanic' = ~sockets[fd].broadcast
        /\ sockets' = [sockets EXCEPT ![fd].udp = TRUE]
        /\ UNCHANGED <<slots, conns, backlog, datagrams, told>>

\* A panic ends the run.
SocketsNext ==
    /\ lost = noConn
    /\ \/ Select \/ Accept \/ Send
       \/ /\ UNCHANGED lost
          /\ \/ Socket \/ OpenFile \/ Close \/ SetSockOpt \/ Bind \/ Connect
             \/ Arrives \/ PeerSends \/ PeerEnds \/ Datagram \/ RecvFrom \/ SendTo

SocketsSpec == SocketsInit /\ [][SocketsNext]_sockVars

-----------------------------------------------------------------------------
(* Properties                                                              *)

\* "App usage of select() is (optimistically) assumed to check for data
\* readiness before calling any of blocking functions": for an app that does,
\* what select() said holds until it is used, so that no call has to wait for
\* data or a connection, and none meets what is not implemented; the descriptors
\* and the socket table agree, however numbers are reused; and no connection is
\* lost or given to the guest twice.  What the network does to a stream is
\* another matter: a reset still panics where it is sent on, looked for errors or
\* accepted, and only receiving reports it (see lost).
ReadinessHolds ==
    LET held == {<<fd, "pending">> : fd \in {k \in DOMAIN sockets : sockets[k].pending # noConn}}
                  \cup {<<fd, "stream">> : fd \in {k \in DOMAIN sockets : sockets[k].stream # noConn}}
        at(h) == IF h[2] = "pending" THEN sockets[h[1]].pending ELSE sockets[h[1]].stream
    IN  /\ ~sockPanic
        /\ \A fd \in told : \/ sockets[fd].pending # noConn
                            \/ sockets[fd].stream # noConn /\ StreamReadable(sockets[fd].stream)
                            \/ datagrams[fd] > 0
        /\ DOMAIN sockets = {fd \in DOMAIN slots : slots[fd] = "socket"}
        /\ \A h, g \in held : h # g => at(h) # at(g)
        /\ \A fd \in DOMAIN sockets, h \in held : at(h) \notin Range(backlog[fd])
====
