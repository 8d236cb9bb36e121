------------------------------- MODULE Socket -------------------------------
(***************************************************************************)
(* kernel/net: ethernet.c, arp.c, ipv4.c, icmp.c, the sending halves of    *)
(* tcp.c and udp.c, and socket.c.  The stack is a record n; n.arp maps     *)
(* cache slots to entries, n.slot is arp_next_slot and n.out is what       *)
(* virtio_net_send has given to the device.  Headers are records, and a    *)
(* checksum is the flag ok, which a frame damaged on the way loses; that   *)
(* of a TCP segment also covers the source address it was computed with,   *)
(* the field pseudo.                                                       *)
(*                                                                         *)
(* n.sk[i] is the i-th Socket ever allocated, n.table is socket_table,     *)
(* n.port is ephemeral_port_next and n.awake the threads wq_wake has made  *)
(* runnable.  The receive ring holds one cell per byte; the metadata in    *)
(* front of a datagram takes META cells.  The states a close would lead to *)
(* are left out: nothing in the kernel sends a FIN.                        *)
(***************************************************************************)
EXTENDS Integers, Sequences, SequencesExt, FiniteSets, FiniteSetsExt

CONSTANTS ARP_CACHE_SIZE, SOCKET_MAX, SOCK_RXBUF_SIZE, SOCK_BACKLOG_MAX, META, MAX_SEG,
          FirstPort, LastPort, ISN_CLIENT, ISN_SERVER

-----------------------------------------------------------------------------
(* Below the sockets *)
Us == "us"              \* nif->ip_addr
Gateway == "gw"
Broadcast == "all"
OurMac == "m0"
OnLink == {"us", "gw", "peer"}      \* the addresses of our network

NoEntry == [ip |-> "none", mac |-> "none"]
arp_init == [i \in 0 .. ARP_CACHE_SIZE - 1 |-> NoEntry]

\* Mutant: a known address gets a second entry.
arp_insert_twice(n, ip, mac) ==
    [n EXCEPT !.arp[n.slot] = [ip |-> ip, mac |-> mac], !.slot = (@ + 1) % ARP_CACHE_SIZE]

\* The entry of the address is updated, or the next slot in turn taken.
arp_insert(n, ip, mac) ==
    LET known == {i \in DOMAIN n.arp : n.arp[i].ip = ip}
    IN IF known # {} THEN [n EXCEPT !.arp[Min(known)].mac = mac]
       ELSE [n EXCEPT !.arp[n.slot] = [ip |-> ip, mac |-> mac],
                      !.slot = (@ + 1) % ARP_CACHE_SIZE]

\* The MAC of the first entry of the address, "none" without one.
arp_lookup(n, ip) ==
    LET known == {i \in DOMAIN n.arp : n.arp[i].ip = ip}
    IN IF known = {} THEN "none" ELSE n.arp[Min(known)].mac

eth_send(n, dst, type, payload) ==
    [n EXCEPT !.out = Append(@, [to |-> dst, from |-> OurMac, type |-> type, body |-> payload])]

NextHop(dst) == IF dst \in OnLink THEN dst ELSE Gateway

\* Sent reports what ipv4_send returns; without an ARP entry nothing is sent.
Sent(n, dst) == arp_lookup(n, NextHop(dst)) # "none"

ipv4_send(n, dst, proto, payload) ==
    IF ~Sent(n, dst) THEN n
    ELSE eth_send(n, arp_lookup(n, NextHop(dst)), "IPV4",
                  [src |-> Us, dst |-> dst, ok |-> TRUE, proto |-> proto, body |-> payload])

\* The checksum is computed with the caller's source address, the packet
\* carries the interface's.
tcp_send(n, src, sp, dst, dp, seq, ack, flags, data) ==
    ipv4_send(n, dst, "TCP", [pseudo |-> src, sp |-> sp, dp |-> dp, seq |-> seq, ack |-> ack,
                              flags |-> flags, data |-> data])

udp_send(n, sp, dst, dp, data) ==
    ipv4_send(n, dst, "UDP", [sp |-> sp, dp |-> dp, data |-> data])

icmp_rx(n, src, msg) ==
    IF ~msg.request THEN n
    ELSE ipv4_send(n, src, "ICMP", [msg EXCEPT !.request = FALSE])

\* The sender is learnt whatever the packet is; a request for us is answered.
arp_rx(n, pkt) ==
    IF ~(pkt.request /\ pkt.tpa = Us) THEN arp_insert(n, pkt.spa, pkt.sha)
    ELSE eth_send(arp_insert(n, pkt.spa, pkt.sha), pkt.sha, "ARP",
                  [request |-> FALSE, sha |-> OurMac, spa |-> Us, tpa |-> pkt.spa])

-----------------------------------------------------------------------------
(* Sockets *)
NoIp == "0"
NULL == 0
CountMod == 65536       \* rx_count is unsigned; the wrap is what matters

NewSocket(type) ==
    [type |-> type, state |-> "CLOSED", lip |-> NoIp, lport |-> 0, rip |-> NoIp, rport |-> 0,
     rx_buf |-> [i \in 0 .. SOCK_RXBUF_SIZE - 1 |-> <<"none", 0>>], rx_head |-> 0, rx_tail |-> 0,
     rx_count |-> 0, snd_una |-> 0, snd_nxt |-> 0, rcv_nxt |-> 0,
     rx_wq |-> <<>>, accept_wq |-> <<>>,
     accept_queue |-> [i \in 0 .. SOCK_BACKLOG_MAX - 1 |-> NULL],
     accept_head |-> 0, accept_tail |-> 0, freed |-> FALSE]

Free(n) == {i \in DOMAIN n.table : n.table[i] = NULL}
socket_get(n, idx) == IF idx \in DOMAIN n.table THEN n.table[idx] ELSE NULL

\* The first free place of socket_table, for socket s.
Enter(n, s) == [n EXCEPT !.table[Min(Free(n))] = s]

\* With the table full the new socket is freed again.
socket_create(n, type) ==
    LET Made(m) == IF Free(m) = {} THEN [m EXCEPT !.sk[Len(m.sk)].freed = TRUE]
                   ELSE Enter(m, Len(m.sk))
    IN Made([n EXCEPT !.sk = Append(@, NewSocket(type))])

\* wq_wake and wq_wake_all
wake(n, s, wq) ==
    IF n.sk[s][wq] = <<>> THEN n
    ELSE [n EXCEPT !.awake = @ \cup {Head(n.sk[s][wq])}, !.sk[s][wq] = Tail(@)]
wake_all(n, s, wq) ==
    [n EXCEPT !.awake = @ \cup ToSet(n.sk[s][wq]), !.sk[s][wq] = <<>>]

socket_free(n, idx) ==
    LET Gone(m, s) == [wake_all(wake_all(m, s, "rx_wq"), s, "accept_wq") EXCEPT !.sk[s].freed = TRUE]
    IN Gone([n EXCEPT !.table[idx] = NULL], n.table[idx])

socket_alloc_ephemeral_port(n) ==
    [n EXCEPT !.port = IF @ + 1 > LastPort THEN FirstPort ELSE @ + 1]

\* A local port for a socket that has none.
WithPort(n, s) ==
    IF n.sk[s].lport # 0 THEN n
    ELSE [socket_alloc_ephemeral_port(n) EXCEPT !.sk[s].lport = n.port]

socket_bind(n, s, ip, port) == [n EXCEPT !.sk[s].lip = ip, !.sk[s].lport = port]
socket_listen(n, s) == [n EXCEPT !.sk[s].state = "LISTEN"]

-----------------------------------------------------------------------------
\* accept: the head of the queue moves to the table, or is freed.
Pending(n, s) == n.sk[s].accept_head # n.sk[s].accept_tail

\* Mutant: the head of the queue is taken and not advanced.
socket_accept_stay(n, s) ==
    LET child == n.sk[s].accept_queue[n.sk[s].accept_head]
    IN IF Free(n) = {} THEN [n EXCEPT !.sk[child].freed = TRUE] ELSE Enter(n, child)

socket_accept(n, s) ==
    LET Taken(m, child) ==
            IF Free(m) = {} THEN [m EXCEPT !.sk[child].freed = TRUE] ELSE Enter(m, child)
    IN Taken([n EXCEPT !.sk[s].accept_head = (@ + 1) % SOCK_BACKLOG_MAX],
             n.sk[s].accept_queue[n.sk[s].accept_head])

\* connect up to the wait for the answer; for a datagram socket all of it.
socket_connect(n, s, ip, port) ==
    LET Syn(m) ==
            tcp_send([m EXCEPT !.sk[s].state = "SYN_SENT", !.sk[s].lip = Us,
                               !.sk[s].snd_una = ISN_CLIENT, !.sk[s].snd_nxt = ISN_CLIENT + 1],
                     Us, m.sk[s].lport, ip, port, ISN_CLIENT, 0, {"SYN"}, <<>>)
        Addressed(m) == IF m.sk[s].type = "DGRAM" THEN [m EXCEPT !.sk[s].state = "ESTABLISHED"]
                        ELSE Syn(m)
    IN Addressed(WithPort([n EXCEPT !.sk[s].rip = ip, !.sk[s].rport = port], s))

\* send: segments of at most MAX_SEG bytes, one after the other.
SendSegments(n, s, data) ==
    LET Segment(m, i) ==
            LET sk == m.sk[s]
            IN tcp_send([m EXCEPT !.sk[s].snd_nxt = @ + Min({MAX_SEG, Len(data) - i})],
                        sk.lip, sk.lport, sk.rip, sk.rport, sk.snd_nxt, sk.rcv_nxt,
                        {"ACK", "PSH"}, SubSeq(data, i + 1, Min({i + MAX_SEG, Len(data)})))
        starts == [k \in 1 .. (Len(data) + MAX_SEG - 1) \div MAX_SEG |-> (k - 1) * MAX_SEG]
    IN FoldLeft(Segment, n, starts)

socket_sendto(n, s, data, ip, port) ==
    LET Out(m) == udp_send(m, m.sk[s].lport, ip, port, data)
    IN Out(WithPort(n, s))

socket_send(n, s, data) ==
    IF n.sk[s].type = "DGRAM" THEN socket_sendto(n, s, data, n.sk[s].rip, n.sk[s].rport)
    ELSE SendSegments(n, s, data)

-----------------------------------------------------------------------------
\* The cells of the ring from the tail on.
RxCells(sk, k) == [i \in 1 .. k |-> sk.rx_buf[(sk.rx_tail + i - 1) % SOCK_RXBUF_SIZE]]

\* Mutant: the count is lowered, the tail stays.
Skip_still(n, s, k, c) == [n EXCEPT !.sk[s].rx_count = (@ + CountMod - c) % CountMod]

\* The ring after k cells were passed over and the count lowered by c.
Skip(n, s, k, c) ==
    [n EXCEPT !.sk[s].rx_tail = (@ + k) % SOCK_RXBUF_SIZE,
              !.sk[s].rx_count = (@ + CountMod - c) % CountMod]

MustWait(n, s) == n.sk[s].rx_count = 0 /\ n.sk[s].state # "CLOSE_WAIT"
socket_recv(n, s, len) ==
    LET k == Min({len, n.sk[s].rx_count}) IN Skip(n, s, k, k)
Received(n, s, len) == RxCells(n.sk[s], Min({len, n.sk[s].rx_count}))

\* The first metadata cell tells the length; the datagram is passed over whole,
\* whatever the caller's buffer takes and whatever the ring really holds.
socket_recvfrom(n, s, len) ==
    LET k == n.sk[s].rx_buf[n.sk[s].rx_tail][2] IN Skip(n, s, META + k, META + k)

-----------------------------------------------------------------------------
\* find_socket: a connected socket, or else the first one that takes anybody.
find_socket(n, lport, type, rip, rport) ==
    LET Here(i) == /\ n.table[i] # NULL
                   /\ n.sk[n.table[i]].type = type /\ n.sk[n.table[i]].lport = lport
        Exact(i) == Here(i) /\ n.sk[n.table[i]].rip = rip /\ n.sk[n.table[i]].rport = rport
        Wild(i) == Here(i) /\ (n.sk[n.table[i]].rip = NoIp \/ n.sk[n.table[i]].state = "LISTEN")
        First(is) == IF is = {} THEN NULL ELSE n.table[Min(is)]
        Or(s) == IF s # NULL THEN s ELSE First({i \in DOMAIN n.table : Wild(i)})
    IN Or(First({i \in DOMAIN n.table : Exact(i)}))

Fits(n, s, len) == n.sk[s].rx_count + len <= SOCK_RXBUF_SIZE

rx_enqueue(n, s, cells) ==
    LET Cell(k, old) == IF k < Len(cells) THEN cells[k + 1] ELSE old
        Filled(buf, head) ==
            [i \in DOMAIN buf |-> Cell((i + SOCK_RXBUF_SIZE - head) % SOCK_RXBUF_SIZE, buf[i])]
    IN IF ~Fits(n, s, Len(cells)) THEN n
       ELSE [n EXCEPT !.sk[s].rx_buf = Filled(@, n.sk[s].rx_head),
                      !.sk[s].rx_head = (@ + Len(cells)) % SOCK_RXBUF_SIZE,
                      !.sk[s].rx_count = @ + Len(cells)]

\* The cells of a payload, and those of UdpRxMeta, which tell its length.
Bytes(data) == [i \in DOMAIN data |-> <<"data", data[i]>>]
Meta(len) == [i \in 1 .. META |-> <<"meta", len>>]

\* The metadata goes in first; the data may then find no room.
DatagramTo(n, s, u) ==
    LET Stored(m) == IF Fits(n, s, META) THEN rx_enqueue(m, s, Bytes(u.data)) ELSE m
    IN wake(Stored(rx_enqueue(n, s, Meta(Len(u.data)))), s, "rx_wq")

socket_udp_deliver(n, u) ==
    LET To(s) == IF s = NULL THEN n ELSE DatagramTo(n, s, u)
    IN To(find_socket(n, u.dp, "DGRAM", NoIp, 0))

-----------------------------------------------------------------------------
Reply(n, s, src, t, seq, flags) ==
    tcp_send(n, n.sk[s].lip, n.sk[s].lport, src, t.sp, seq, n.sk[s].rcv_nxt, flags, <<>>)

\* LISTEN: a SYN makes a child, answered at once and queued for accept; with
\* the queue full the child is freed after the answer.
OnListen(n, s, src, t) ==
    LET Child(sk) == [NewSocket("STREAM") EXCEPT
                        !.state = "SYN_RECV", !.lip = sk.lip, !.lport = sk.lport, !.rip = src,
                        !.rport = t.sp, !.rcv_nxt = t.seq + 1, !.snd_una = ISN_SERVER,
                        !.snd_nxt = ISN_SERVER + 1]
        Queue(m, c, next) ==
            IF next = m.sk[s].accept_head THEN [m EXCEPT !.sk[c].freed = TRUE]
            ELSE [m EXCEPT !.sk[s].accept_queue[m.sk[s].accept_tail] = c, !.sk[s].accept_tail = next]
        Queued(m) == Queue(m, Len(m.sk), (m.sk[s].accept_tail + 1) % SOCK_BACKLOG_MAX)
        Answered(m) == Reply(m, Len(m.sk), src, t, ISN_SERVER, {"SYN", "ACK"})
    IN IF "SYN" \notin t.flags THEN n
       ELSE Queued(Answered([n EXCEPT !.sk = Append(@, Child(n.sk[s]))]))

\* SYN_RECV: any segment with ACK establishes, and wakes one acceptor of the
\* first listener on the port.
OnSynRecv(n, s, t) ==
    LET Parent(m, i) == /\ m.table[i] # NULL /\ m.sk[m.table[i]].state = "LISTEN"
                        /\ m.sk[m.table[i]].lport = m.sk[s].lport
        Wake(m, is) == IF is = {} THEN m ELSE wake(m, m.table[Min(is)], "accept_wq")
        Woken(m) == Wake(m, {i \in DOMAIN m.table : Parent(m, i)})
    IN IF "ACK" \notin t.flags THEN n
       ELSE Woken([n EXCEPT !.sk[s].snd_una = t.ack, !.sk[s].state = "ESTABLISHED"])

\* Mutant: the connecting thread is not woken by a refusal.
OnSynSent_deaf(n, s, src, t) ==
    LET Acked(m) == wake(Reply(m, s, src, t, m.sk[s].snd_nxt, {"ACK"}), s, "rx_wq")
    IN IF {"SYN", "ACK"} \subseteq t.flags
       THEN Acked([n EXCEPT !.sk[s].snd_una = t.ack, !.sk[s].rcv_nxt = t.seq + 1,
                            !.sk[s].state = "ESTABLISHED"])
       ELSE IF "RST" \in t.flags THEN [n EXCEPT !.sk[s].state = "CLOSED"]
       ELSE n

OnSynSent(n, s, src, t) ==
    LET Acked(m) == wake(Reply(m, s, src, t, m.sk[s].snd_nxt, {"ACK"}), s, "rx_wq")
    IN IF {"SYN", "ACK"} \subseteq t.flags
       THEN Acked([n EXCEPT !.sk[s].snd_una = t.ack, !.sk[s].rcv_nxt = t.seq + 1,
                            !.sk[s].state = "ESTABLISHED"])
       ELSE IF "RST" \in t.flags THEN wake([n EXCEPT !.sk[s].state = "CLOSED"], s, "rx_wq")
       ELSE n

\* ESTABLISHED: data is stored if it fits and acknowledged in any case, whatever
\* its sequence number; then a FIN ends the peer's side.
OnEstablished(n, s, src, t) ==
    LET Ack(m) == Reply(m, s, src, t, m.sk[s].snd_nxt, {"ACK"})
        Una(m) == IF "ACK" \in t.flags THEN [m EXCEPT !.sk[s].snd_una = t.ack] ELSE m
        Data(m) == IF t.data = <<>> THEN m
                   ELSE Ack([rx_enqueue(m, s, Bytes(t.data)) EXCEPT !.sk[s].rcv_nxt = @ + Len(t.data)])
        Fin(m) == IF "FIN" \notin t.flags THEN m
                  ELSE Ack([m EXCEPT !.sk[s].rcv_nxt = @ + 1, !.sk[s].state = "CLOSE_WAIT"])
        Woken(m) == IF t.data # <<>> \/ "FIN" \in t.flags THEN wake(m, s, "rx_wq") ELSE m
    IN IF "RST" \in t.flags THEN wake([n EXCEPT !.sk[s].state = "CLOSED"], s, "rx_wq")
       ELSE Woken(Fin(Data(Una(n))))

ToSocket(n, s, state, src, t) ==
    CASE state = "LISTEN" -> OnListen(n, s, src, t)
      [] state = "SYN_RECV" -> OnSynRecv(n, s, t)
      [] state = "SYN_SENT" -> OnSynSent(n, s, src, t)
      [] state = "ESTABLISHED" -> OnEstablished(n, s, src, t)
      [] state \in {"CLOSED", "CLOSE_WAIT"} -> n

\* The second search of the code finds nothing the first did not.
socket_tcp_deliver(n, src, t) ==
    LET To(s) ==
            IF s # NULL THEN ToSocket(n, s, n.sk[s].state, src, t)
            ELSE IF "RST" \in t.flags THEN n
            ELSE tcp_send(n, Us, t.dp, src, t.sp, t.ack, t.seq + 1, {"RST", "ACK"}, <<>>)
    IN To(find_socket(n, t.dp, "STREAM", src, t.sp))

-----------------------------------------------------------------------------
\* What arrives, from the interrupt handler down to the socket.
tcp_rx(n, src, t) == IF t.pseudo = src THEN socket_tcp_deliver(n, src, t) ELSE n

ipv4_rx(n, p) ==
    IF ~p.ok \/ p.dst \notin {Us, Broadcast} THEN n
    ELSE CASE p.proto = "ICMP" -> icmp_rx(n, p.src, p.body)
           [] p.proto = "UDP" -> socket_udp_deliver(n, p.body)
           [] p.proto = "TCP" -> tcp_rx(n, p.src, p.body)

eth_rx(n, frame) ==
    CASE frame.type = "ARP" -> arp_rx(n, frame.body)
      [] frame.type = "IPV4" -> ipv4_rx(n, frame.body)
=============================================================================
