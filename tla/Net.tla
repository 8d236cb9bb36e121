-------------------------------- MODULE Net --------------------------------
(***************************************************************************)
(* The network stack between its callers and the wire: the socket system   *)
(* calls of syscall.c above, the receive interrupt of virtio_net.c below,  *)
(* and a host on the other end of a wire that may lose, repeat, reorder or *)
(* damage a frame.  A system call runs with interrupts off up to where it  *)
(* sleeps, and so does the interrupt handler: each is one step.            *)
(*                                                                         *)
(* The other host is external.  It asks for our MAC address first, as the  *)
(* comment in ipv4_send expects, holds one TCP connection, and numbers the *)
(* bytes it sends 1, 2, 3...                                               *)
(***************************************************************************)
EXTENDS Socket

CONSTANTS Procs, MAX_FDS, Scenarios, MaxOps, Lens, PeerMacs, MaxSockets

VARIABLES n,        \* the stack
          fdt,      \* fdt[p][fd]: the index in socket_table, or Unused
          proc,     \* proc[p] = [pc, sk, len]: what p sleeps in
          wire,     \* frames on their way to us
          peer,     \* [state, mac, next, sent]
          scenario, hist, ops
vars == <<n, fdt, proc, wire, peer, scenario, hist, ops>>

Unused == -1
ServerPort == 80
PeerPort == 7
PeerISN == 10
Idle == [pc |-> "IDLE", sk |-> NULL, len |-> 0]

\* Bounds: MaxOps[scenario][k] events of kind k.
Kinds == {"setup", "call", "arp", "peer", "fault"}
Left(k) == ops[k] < MaxOps[scenario][k]
Spend(k) == ops' = [ops EXCEPT ![k] = @ + 1]

net_init == [arp |-> arp_init, slot |-> 0, out |-> <<>>, sk |-> <<>>,
             table |-> [i \in 0 .. SOCKET_MAX - 1 |-> NULL], port |-> FirstPort, awake |-> {}]

\* The stack after the calls a scenario has behind it: a server that listens
\* (on our address, or on any), a server whose first process has no descriptor
\* left, a client with a socket, a datagram server.
Listening(ip) == socket_listen(socket_bind(socket_create(
                     arp_insert(net_init, "peer", "m1"), "STREAM"), 1, ip, ServerPort), 1)
Boot(sc) ==
    CASE sc = "fresh" -> net_init
      [] sc = "server" -> Listening(Us)
      [] sc = "anyaddr" -> Listening(NoIp)
      [] sc = "busy" -> socket_create(Listening(Us), "STREAM")
      [] sc = "client" -> socket_create(arp_insert(net_init, "peer", "m1"), "STREAM")
      [] sc = "udp" -> socket_bind(socket_create(
                              arp_insert(net_init, "peer", "m1"), "DGRAM"), 1, NoIp, ServerPort)

\* After a fork every process has the first descriptor.
Init ==
    /\ scenario \in Scenarios
    /\ n = Boot(scenario)
    /\ fdt = [p \in Procs |-> [fd \in 0 .. MAX_FDS - 1 |->
                IF fd = 0 /\ scenario # "fresh" THEN 0
                ELSE IF fd = 1 /\ scenario = "busy" /\ p = Min(Procs) THEN 1 ELSE Unused]]
    /\ proc = [p \in Procs |-> Idle]
    /\ wire = <<>>
    /\ peer = [state |-> "CLOSED", mac |-> "m1", port |-> 0, next |-> 0, sent |-> 0]
    /\ hist = [fault |-> FALSE, unsent |-> FALSE, early |-> {}, full |-> {}, shared |-> {}, got |-> [s \in 1 .. MaxSockets |-> <<>>],
               learnt |-> arp_lookup(n, "peer")]
    /\ ops = [k \in Kinds |-> 0]

-----------------------------------------------------------------------------
(* System calls *)
FreeFd(p) == {fd \in 0 .. MAX_FDS - 1 : fdt[p][fd] = Unused}
fd_to_socket(p, fd) == IF fdt[p][fd] = Unused THEN NULL ELSE socket_get(n, fdt[p][fd])
CanCall(p, k) == proc[p] = Idle /\ Left(k)

\* The call of process p has left stack m.  A socket that is new in the table
\* gets a descriptor; without a free one it goes again.
Entered(m) == {i \in DOMAIN m.table : m.table[i] # n.table[i]}
GiveFd(p, m) ==
    LET Placed(is, fds) == IF is # {} /\ fds = {} THEN socket_free(m, Min(is)) ELSE m
        Given(is, fds) == IF is # {} /\ fds # {} THEN [fdt[p] EXCEPT ![Min(fds)] = Min(is)] ELSE fdt[p]
    IN /\ n' = Placed(Entered(m), FreeFd(p))
       /\ fdt' = [fdt EXCEPT ![p] = Given(Entered(m), FreeFd(p))]

sys_socket(p, type) ==
    /\ CanCall(p, "setup") /\ Spend("setup")
    /\ \E m \in {socket_create(n, type)} : GiveFd(p, m)
    /\ UNCHANGED <<proc, wire, peer, scenario, hist>>

sys_bind(p, fd, ip, port) ==
    /\ CanCall(p, "setup") /\ fd_to_socket(p, fd) # NULL /\ Spend("setup")
    /\ n' = socket_bind(n, fd_to_socket(p, fd), ip, port)
    /\ UNCHANGED <<fdt, proc, wire, peer, scenario, hist>>

sys_listen(p, fd) ==
    /\ CanCall(p, "setup") /\ fd_to_socket(p, fd) # NULL /\ Spend("setup")
    /\ n.sk[fd_to_socket(p, fd)].type = "STREAM"
    /\ n' = socket_listen(n, fd_to_socket(p, fd))
    /\ UNCHANGED <<fdt, proc, wire, peer, scenario, hist>>

\* The descriptor goes, the socket stays in the table.
sys_close(p, fd) ==
    /\ CanCall(p, "setup") /\ fdt[p][fd] # Unused /\ Spend("setup")
    /\ fdt' = [fdt EXCEPT ![p][fd] = Unused]
    /\ UNCHANGED <<n, proc, wire, peer, scenario, hist>>

\* Process p sleeps on a queue of socket s; m is the stack it leaves.
SleepIn(p, m, s, wq, pc, len) ==
    /\ n' = [m EXCEPT !.sk[s][wq] = Append(@, p), !.awake = @ \ {p}]
    /\ proc' = [proc EXCEPT ![p] = [pc |-> pc, sk |-> s, len |-> len]]
Return(p, m) ==
    /\ n' = [m EXCEPT !.awake = @ \ {p}]
    /\ proc' = [proc EXCEPT ![p] = Idle]

\* accept's loop and what follows it, from the call or after a wake-up.
Accept(p, s) ==
    \/ ~Pending(n, s) /\ SleepIn(p, n, s, "accept_wq", "ACCEPT", 0) /\ fdt' = fdt
    \/ /\ Pending(n, s)
       /\ proc' = [proc EXCEPT ![p] = Idle]
       /\ \E m \in {[socket_accept(n, s) EXCEPT !.awake = @ \ {p}]} : GiveFd(p, m)

sys_accept(p, fd) ==
    /\ CanCall(p, "call") /\ fd_to_socket(p, fd) # NULL /\ Spend("call")
    /\ n.sk[fd_to_socket(p, fd)].state = "LISTEN"
    /\ Accept(p, fd_to_socket(p, fd))
    /\ UNCHANGED <<wire, peer, scenario, hist>>

\* A program connects a socket it has not connected or listened on before.
sys_connect(p, fd) ==
    /\ CanCall(p, "call") /\ fd_to_socket(p, fd) # NULL /\ Spend("call")
    /\ \E s \in {fd_to_socket(p, fd)}, m \in {socket_connect(n, fd_to_socket(p, fd), "peer", PeerPort)} :
          /\ n.sk[s].state = "CLOSED"
          /\ \/ n.sk[s].type = "DGRAM" /\ Return(p, m) /\ hist' = hist
             \/ /\ n.sk[s].type = "STREAM" /\ SleepIn(p, m, s, "rx_wq", "CONNECT", 0)
                /\ hist' = [hist EXCEPT !.unsent = @ \/ ~Sent(n, "peer")]
    /\ UNCHANGED <<fdt, wire, peer, scenario>>

\* The bytes of a call carry its length.
sys_send(p, fd, len) ==
    /\ CanCall(p, "call") /\ fd_to_socket(p, fd) # NULL /\ Spend("call")
    /\ \/ n.sk[fd_to_socket(p, fd)].type = "DGRAM"
       \/ n.sk[fd_to_socket(p, fd)].state = "ESTABLISHED"
    /\ n' = socket_send(n, fd_to_socket(p, fd), [i \in 1 .. len |-> i])
    /\ UNCHANGED <<fdt, proc, wire, peer, scenario, hist>>

sys_sendto(p, fd, len, ip) ==
    /\ CanCall(p, "call") /\ fd_to_socket(p, fd) # NULL /\ Spend("call")
    /\ n.sk[fd_to_socket(p, fd)].type = "DGRAM"
    /\ n' = socket_sendto(n, fd_to_socket(p, fd), [i \in 1 .. len |-> i], ip, PeerPort)
    /\ UNCHANGED <<fdt, proc, wire, peer, scenario, hist>>

\* recv's loop and what follows it for a stream, recvfrom's for datagrams: a
\* program uses the call that goes with its socket.  A datagram socket whose
\* count has wrapped is not read any further.
Read(m, s, len) ==
    IF m.sk[s].type = "DGRAM" THEN socket_recvfrom(m, s, len) ELSE socket_recv(m, s, len)
Torn(s) == n.sk[s].type = "DGRAM" /\ s \in hist.full
Recv(p, s, len) ==
    \/ /\ MustWait(n, s) /\ SleepIn(p, n, s, "rx_wq", "RECV", len)
       /\ hist' = [hist EXCEPT !.shared = IF p \in n.awake THEN @ \cup {s} ELSE @]
    \/ /\ ~MustWait(n, s) /\ ~Torn(s)
       /\ Return(p, Read(n, s, len))
       /\ hist' = [hist EXCEPT
             !.got[s] = IF n.sk[s].type = "DGRAM" THEN @ ELSE @ \o Received(n, s, len),
             !.shared = IF n'.sk[s].rx_count > 0 THEN @ \cup {s} ELSE @ \ {s}]

sys_recv(p, fd, len) ==
    /\ CanCall(p, "call") /\ fd_to_socket(p, fd) # NULL /\ Spend("call")
    /\ Recv(p, fd_to_socket(p, fd), len)
    /\ UNCHANGED <<fdt, wire, peer, scenario>>

\* A woken thread takes up where it slept.
Resume(p) ==
    /\ p \in n.awake
    /\ \/ proc[p].pc = "ACCEPT" /\ Accept(p, proc[p].sk) /\ UNCHANGED hist
       \/ /\ proc[p].pc = "CONNECT" /\ UNCHANGED fdt
          /\ \/ /\ n.sk[proc[p].sk].state = "SYN_SENT"
                /\ SleepIn(p, n, proc[p].sk, "rx_wq", "CONNECT", 0)
                /\ hist' = [hist EXCEPT !.shared = @ \cup {proc[p].sk}]
             \/ n.sk[proc[p].sk].state # "SYN_SENT" /\ Return(p, n) /\ hist' = hist
       \/ proc[p].pc = "RECV" /\ Recv(p, proc[p].sk, proc[p].len) /\ UNCHANGED fdt
    /\ UNCHANGED <<wire, peer, scenario, ops>>

-----------------------------------------------------------------------------
(* The receive interrupt *)

\* History: the sockets that lose the payload of frame f, because it comes
\* with the segment that completes the handshake, or because the ring is full.
Target(f) ==
    IF f.type = "ARP" \/ ~f.body.ok \/ f.body.proto = "ICMP" THEN NULL
    ELSE IF f.body.proto = "TCP"
         THEN find_socket(n, f.body.body.dp, "STREAM", f.body.src, f.body.body.sp)
         ELSE find_socket(n, f.body.body.dp, "DGRAM", NoIp, 0)
Room(s) == SOCK_RXBUF_SIZE - n.sk[s].rx_count - (IF n.sk[s].type = "DGRAM" THEN META ELSE 0)
Swallowed(s, data) == IF n.sk[s].state = "SYN_RECV" /\ data # <<>> THEN {s} ELSE {}
Overflow(s, data) == IF n.sk[s].state # "LISTEN" /\ Len(data) > Room(s) THEN {s} ELSE {}
Noted(f, s) ==
    IF s = NULL THEN hist
    ELSE [hist EXCEPT !.early = @ \cup Swallowed(s, f.body.body.data),
                      !.full = @ \cup Overflow(s, f.body.body.data)]

\* The handler's loop, a frame at a time.
virtio_net_poll_rx ==
    /\ wire # <<>>
    /\ n' = eth_rx(n, Head(wire))
    /\ wire' = Tail(wire)
    /\ hist' = IF Head(wire).type = "ARP" THEN [hist EXCEPT !.learnt = Head(wire).body.sha]
               ELSE Noted(Head(wire), Target(Head(wire)))
    /\ UNCHANGED <<fdt, proc, peer, scenario, ops>>

-----------------------------------------------------------------------------
(* The other host *)
Packet(proto, body) ==
    [to |-> OurMac, from |-> peer.mac, type |-> "IPV4",
     body |-> [src |-> "peer", dst |-> Us, ok |-> TRUE, proto |-> proto, body |-> body]]
Segment(flags, seq, ack, data) ==
    Packet("TCP", [pseudo |-> "peer", sp |-> PeerPort, dp |-> peer.port, seq |-> seq, ack |-> ack,
                   flags |-> flags, data |-> data])
Emit(frames) == wire' = wire \o frames

PeerArp(mac, tpa) ==
    /\ Left("arp") /\ Spend("arp")
    /\ peer' = [peer EXCEPT !.mac = mac]
    /\ Emit(<<[to |-> OurMac, from |-> mac, type |-> "ARP",
               body |-> [request |-> TRUE, sha |-> mac, spa |-> "peer", tpa |-> tpa]]>>)
    /\ UNCHANGED <<n, fdt, proc, scenario, hist>>

PeerPing ==
    /\ Left("arp") /\ Spend("arp")
    /\ Emit(<<Packet("ICMP", [request |-> TRUE, id |-> ops.arp])>>)
    /\ UNCHANGED <<n, fdt, proc, peer, scenario, hist>>

PeerUdp(len) ==
    /\ Left("peer") /\ Spend("peer")
    /\ Emit(<<Packet("UDP", [sp |-> PeerPort, dp |-> ServerPort,
                             data |-> [i \in 1 .. len |-> ops.peer]])>>)
    /\ UNCHANGED <<n, fdt, proc, peer, scenario, hist>>

PeerSyn ==
    /\ Left("peer") /\ Spend("peer") /\ peer.state = "CLOSED"
    /\ peer' = [peer EXCEPT !.state = "SYN_SENT", !.port = ServerPort, !.next = PeerISN + 1]
    /\ Emit(<<[Segment({"SYN"}, PeerISN, 0, <<>>) EXCEPT !.body.body.dp = ServerPort]>>)
    /\ UNCHANGED <<n, fdt, proc, scenario, hist>>

PeerData ==
    /\ Left("peer") /\ Spend("peer") /\ peer.state = "ESTABLISHED"
    /\ \E len \in Lens \ {0} :
          /\ Emit(<<Segment({"ACK", "PSH"}, peer.next, 0, [i \in 1 .. len |-> peer.sent + i])>>)
          /\ peer' = [peer EXCEPT !.next = @ + len, !.sent = @ + len]
    /\ UNCHANGED <<n, fdt, proc, scenario, hist>>

PeerEnd(flag) ==
    /\ Left("peer") /\ Spend("peer") /\ peer.state = "ESTABLISHED"
    /\ Emit(<<Segment({"ACK", flag}, peer.next, 0, <<>>)>>)
    /\ peer' = [peer EXCEPT !.state = "DONE"]
    /\ UNCHANGED <<n, fdt, proc, scenario, hist>>

\* The peer takes a frame.  It answers a SYN by accepting or refusing it, and
\* completes its own handshake; a segment with a wrong checksum is dropped.
Good(f) == /\ f.type = "IPV4" /\ f.to = peer.mac
           /\ f.body.proto = "TCP" /\ f.body.body.pseudo = f.body.src

PeerAccept(t) ==
    /\ t.flags = {"SYN"} /\ peer.state = "CLOSED"
    /\ peer' = [peer EXCEPT !.state = "ESTABLISHED", !.port = t.sp, !.next = PeerISN + 1]
    /\ Emit(<<[Segment({"SYN", "ACK"}, PeerISN, t.seq + 1, <<>>) EXCEPT !.body.body.dp = t.sp]>>)
PeerRefuse(t) ==
    /\ t.flags = {"SYN"}
    /\ peer' = peer
    /\ Emit(<<[Segment({"RST", "ACK"}, 0, t.seq + 1, <<>>) EXCEPT !.body.body.dp = t.sp]>>)
PeerConnected(t) ==
    /\ t.flags = {"SYN", "ACK"} /\ peer.state = "SYN_SENT"
    /\ peer' = [peer EXCEPT !.state = "ESTABLISHED"]
    /\ Emit(<<Segment({"ACK"}, peer.next, t.seq + 1, <<>>)>>)
PeerIgnore(f) ==
    /\ Good(f) => /\ f.body.body.flags # {"SYN"}
                  /\ ~(f.body.body.flags = {"SYN", "ACK"} /\ peer.state = "SYN_SENT")
    /\ peer' = IF Good(f) THEN [peer EXCEPT !.state = IF "RST" \in f.body.body.flags THEN "DONE" ELSE @]
               ELSE peer
    /\ wire' = wire

PeerReceive ==
    /\ n.out # <<>>
    /\ n' = [n EXCEPT !.out = Tail(@)]
    /\ \/ PeerIgnore(Head(n.out))
       \/ Good(Head(n.out)) /\ \E t \in {Head(n.out).body.body} :
                                   PeerAccept(t) \/ PeerRefuse(t) \/ PeerConnected(t)
    /\ UNCHANGED <<fdt, proc, scenario, hist, ops>>

\* The wire: a frame is lost, repeated, overtaken or damaged.
Fault ==
    /\ Left("fault") /\ Spend("fault") /\ wire # <<>>
    /\ \/ wire' = Tail(wire)
       \/ wire' = <<Head(wire)>> \o wire
       \/ Len(wire) > 1 /\ wire' = <<wire[2], wire[1]>> \o SubSeq(wire, 3, Len(wire))
       \/ Head(wire).type = "IPV4" /\ wire' = [wire EXCEPT ![1].body.ok = FALSE]
    /\ hist' = [hist EXCEPT !.fault = TRUE]
    /\ UNCHANGED <<n, fdt, proc, peer, scenario>>

Fds == 0 .. MAX_FDS - 1
Calls(p) ==
    \/ \E type \in {"STREAM", "DGRAM"} : sys_socket(p, type)
    \/ \E fd \in Fds :
         \/ sys_listen(p, fd) \/ sys_close(p, fd) \/ sys_accept(p, fd) \/ sys_connect(p, fd)
         \/ \E ip \in {Us, NoIp} : sys_bind(p, fd, ip, ServerPort)
         \/ \E len \in Lens : \/ sys_send(p, fd, len) \/ sys_recv(p, fd, len)
                              \/ \E ip \in {"peer", "far"} : sys_sendto(p, fd, len, ip)
Peer ==
    \/ \E mac \in PeerMacs, tpa \in {Us, "gw"} : PeerArp(mac, tpa)
    \/ PeerPing \/ PeerSyn \/ PeerData \/ PeerReceive
    \/ \E flag \in {"FIN", "RST"} : PeerEnd(flag)
    \/ \E len \in Lens : PeerUdp(len)
Next == (\E p \in Procs : Calls(p) \/ Resume(p)) \/ Peer \/ virtio_net_poll_rx \/ Fault

\* Interrupts are served, woken threads run, and the other host takes what it
\* is sent.
Fairness ==
    /\ WF_vars(virtio_net_poll_rx) /\ WF_vars(PeerReceive)
    /\ \A p \in Procs : WF_vars(Resume(p))
Spec == Init /\ [][Next]_vars
FairSpec == Spec /\ Fairness

-----------------------------------------------------------------------------
Sockets == DOMAIN n.sk
Content(s) == RxCells(n.sk[s], n.sk[s].rx_count)
InTable == {n.table[i] : i \in DOMAIN n.table} \ {NULL}
Queued(s) ==
    LET sk == n.sk[s]
        len == (sk.accept_tail + SOCK_BACKLOG_MAX - sk.accept_head) % SOCK_BACKLOG_MAX
    IN [i \in 1 .. len |-> sk.accept_queue[(sk.accept_head + i - 1) % SOCK_BACKLOG_MAX]]

\* Sockets, their rings and ports have their types, and only a thread inside a
\* call is woken.
TypeOK ==
    /\ Len(n.sk) <= MaxSockets
    /\ \A s \in Sockets : /\ n.sk[s].state \in {"CLOSED", "LISTEN", "SYN_SENT", "SYN_RECV",
                                                "ESTABLISHED", "CLOSE_WAIT"}
                           /\ n.sk[s].rx_head \in 0 .. SOCK_RXBUF_SIZE - 1
                           /\ n.sk[s].lport \in {0, ServerPort} \cup FirstPort .. LastPort
    /\ \A p \in Procs : (p \in n.awake) => proc[p].pc # "IDLE"

\* A Socket has one owner: the table, one accept queue, or nobody once freed.
\* Nothing that can be found again was passed to kfree, no thread sleeps in
\* freed memory, and a child is not queued twice.
OneOwner ==
    /\ TypeOK
    /\ \A i, j \in DOMAIN n.table : n.table[i] = n.table[j] /\ n.table[i] # NULL => i = j
    /\ \A s \in Sockets :
         /\ s \in InTable => ~n.sk[s].freed
         /\ n.sk[s].freed => n.sk[s].rx_wq = <<>> /\ n.sk[s].accept_wq = <<>>
         /\ \A i, j \in DOMAIN Queued(s) : Queued(s)[i] = Queued(s)[j] => i = j
         /\ \A i \in DOMAIN Queued(s) : Queued(s)[i] \notin InTable /\ ~n.sk[Queued(s)[i]].freed
    /\ \A p \in Procs : proc[p].sk # NULL => ~n.sk[proc[p].sk].freed

\* The ring reads as datagrams to its end, as socket_recvfrom reads it.
Parse(s) ==
    LET cells == Content(s)
        F[k \in 1 .. Len(cells) + 1] ==
            IF k = Len(cells) + 1 THEN TRUE
            ELSE /\ cells[k][1] = "meta" /\ k + META + cells[k][2] <= Len(cells) + 1
                 /\ \A i \in k + META .. k + META + cells[k][2] - 1 : cells[i][1] = "data"
                 /\ F[k + META + cells[k][2]]
    IN F[1]

\* Every receive ring holds what its count says, and a datagram ring a whole
\* number of datagrams, each behind its metadata, until a datagram finds room
\* for its metadata and none for its data.
RxWhole ==
    \A s \in Sockets \ hist.full :
        /\ n.sk[s].rx_count <= SOCK_RXBUF_SIZE
        /\ (n.sk[s].rx_tail + n.sk[s].rx_count) % SOCK_RXBUF_SIZE = n.sk[s].rx_head
        /\ n.sk[s].type = "DGRAM" => Parse(s)

\* What the stream's readers were given and what waits in the ring is a prefix
\* of what the other host sent, in order and without a gap, as long as the
\* wire is perfect, the ring has room and no data came with the segment that
\* completed the handshake.
StreamPrefix ==
    \A s \in Sockets \ (hist.full \cup hist.early) :
        n.sk[s].type = "STREAM" /\ ~hist.fault =>
            LET seen == hist.got[s] \o Content(s)
            IN Len(seen) <= peer.sent /\ \A i \in DOMAIN seen : seen[i] = <<"data", i>>

\* The acknowledgement number counts the bytes kept, whatever the wire does:
\* only a full ring acknowledges what is not stored.
AckedIsKept ==
    \A s \in Sockets \ hist.full :
        n.sk[s].state \in {"ESTABLISHED", "CLOSE_WAIT"} /\ n.sk[s].type = "STREAM" =>
            n.sk[s].rcv_nxt = PeerISN + 1 + Len(hist.got[s]) + n.sk[s].rx_count
                              + (IF n.sk[s].state = "CLOSE_WAIT" THEN 1 ELSE 0)

\* What socket_recv and socket_recvfrom return is what was sent: whole datagrams,
\* a stream in order, acknowledged as far as it is kept.
ReceiveRight == RxWhole /\ StreamPrefix /\ AckedIsKept

\* The cache has one entry per address, and it is the last one learnt: every
\* frame goes to the MAC address its next hop was last seen with.
ArpFresh ==
    /\ \A i, j \in DOMAIN n.arp : n.arp[i].ip = n.arp[j].ip /\ n.arp[i] # NoEntry => i = j
    /\ arp_lookup(n, "peer") = hist.learnt
    /\ \A i \in DOMAIN n.out : n.out[i].to # OurMac

\* No wake-up is lost: a thread does not sleep in recv while data waits for
\* it, nor in connect once the other host has answered, with either answer;
\* unless several threads sleep on the socket, and the one that was woken
\* could not use, or not use up, what it was woken for.
NoSleeperStranded ==
    \A s \in Sockets \ hist.shared, p \in Procs :
        proc[p].sk = s /\ p \notin n.awake =>
            \/ proc[p].pc = "ACCEPT" \/ \E q \in n.awake : proc[q].sk = s
            \/ proc[p].pc = "CONNECT" /\ n.sk[s].state = "SYN_SENT"
            \/ proc[p].pc = "RECV" /\ n.sk[s].rx_count = 0

\* accept returns when a connection is waiting in its queue.
AcceptReturns ==
    \A p \in Procs :
        (proc[p].pc = "ACCEPT" /\ Pending(n, proc[p].sk)) ~> proc[p].pc = "IDLE"

\* A segment's checksum is the one its receiver computes, over the addresses
\* in the packet that carries it.
SegmentsVerify ==
    \A i \in DOMAIN n.out :
        n.out[i].type = "IPV4" /\ n.out[i].body.proto = "TCP" =>
            n.out[i].body.body.pseudo = n.out[i].body.src
=============================================================================
