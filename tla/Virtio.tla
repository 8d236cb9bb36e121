------------------------------- MODULE Virtio -------------------------------
(***************************************************************************)
(* The virtqueue of kernel/drivers/virtio.c: a table of descriptors, whose *)
(* free ones are linked through next, the ring of chains handed to the     *)
(* device and the ring of those it returned.  The 16-bit ring indices run  *)
(* freely and wrap at IdxMod, a multiple of every queue size.              *)
(*                                                                         *)
(* The disk driver virtio_blk.c and the network driver virtio_net.c, each  *)
(* against a device that works on its own.  A driver call runs with        *)
(* interrupts off: it hands a chain to the device and polls for it, or     *)
(* gives up after POLL_TIMEOUT turns.  Received frames come in through an  *)
(* interrupt, whose handler may send an answer from within.                *)
(*                                                                         *)
(* Pages are frames of physical memory; other kernel code takes and        *)
(* returns pages between the calls.  A page holds one sector.              *)
(***************************************************************************)
EXTENDS Integers, Sequences, SequencesExt, FiniteSets, FiniteSetsExt

CONSTANTS IdxMod, Pages, Capacity, BlkSizes, RX_BUF_COUNT, Loads

-----------------------------------------------------------------------------
(* The driver's side of a virtqueue *)
NONE == -1
FreeDesc(next) == [addr |-> 0, len |-> 0, more |-> FALSE, writes |-> FALSE, next |-> next]

\* The queue that virtio_init_queue sets up for a device with size descriptors.
\* seen counts the chains the device took.
virtio_init_queue(size) ==
    [size |-> size,
     desc |-> [i \in 0 .. size - 1 |-> FreeDesc(IF i + 1 < size THEN i + 1 ELSE NONE)],
     avail |-> [idx |-> 0, ring |-> [i \in 0 .. size - 1 |-> 0]],
     used |-> [idx |-> 0, ring |-> [i \in 0 .. size - 1 |-> [id |-> 0, len |-> 0]]],
     free_head |-> 0, num_free |-> size, last_used_idx |-> 0, seen |-> 0]

\* The descriptors from head on, as the driver links them.
Links(vq, head) ==
    LET F[k \in 0 .. vq.size] ==
            IF k = 0 THEN <<head>>
            ELSE LET On(s) == IF Last(s) = NONE THEN s ELSE Append(s, vq.desc[Last(s)].next) IN On(F[k - 1])
        Cut(s) == IF Last(s) = NONE THEN Front(s) ELSE s
    IN Cut(F[vq.size])

virtq_alloc_desc(vq) ==
    IF vq.num_free = 0 THEN [vq |-> vq, d |-> NONE]
    ELSE [vq |-> [vq EXCEPT !.free_head = vq.desc[vq.free_head].next, !.num_free = @ - 1,
                            !.desc[vq.free_head].next = NONE],
          d |-> vq.free_head]

\* Mutant: only the head goes back to the free list.
virtq_free_chain_head(vq, head) ==
    [vq EXCEPT !.desc[head] = FreeDesc(vq.free_head), !.free_head = head, !.num_free = @ + 1]

\* Each descriptor of the chain is pushed on the free list.
virtq_free_chain(vq, head) ==
    LET Push(m, d) == [m EXCEPT !.desc[d] = FreeDesc(m.free_head), !.free_head = d, !.num_free = @ + 1]
    IN FoldLeft(Push, vq, Links(vq, head))

virtio_submit(vq, head) ==
    [vq EXCEPT !.avail.ring[vq.avail.idx % vq.size] = head, !.avail.idx = (@ + 1) % IdxMod]

virtq_has_used(vq) == vq.last_used_idx # vq.used.idx

virtq_pop_used(vq) ==
    [vq |-> [vq EXCEPT !.last_used_idx = (@ + 1) % IdxMod],
     e |-> vq.used.ring[vq.last_used_idx % vq.size]]

-----------------------------------------------------------------------------
(* The device's side *)
Offered(vq) == vq.seen # vq.avail.idx
Taken(vq) == [vq EXCEPT !.seen = (@ + 1) % IdxMod]
NextHead(vq) == vq.avail.ring[vq.seen % vq.size]

\* The chain as the device follows it, while the descriptors say there is more.
DeviceChain(vq, head) ==
    LET F[k \in 0 .. 2] ==
            IF k = 0 THEN <<head>>
            ELSE LET On(s) == IF vq.desc[Last(s)].more THEN Append(s, vq.desc[Last(s)].next) ELSE s
                 IN On(F[k - 1])
    IN F[2]
Return(vq, head, len) ==
    [vq EXCEPT !.used.ring[vq.used.idx % vq.size] = [id |-> head, len |-> len],
               !.used.idx = (@ + 1) % IdxMod]

-----------------------------------------------------------------------------
VARIABLES q,        \* the queues: blk, rx, tx
          pages,    \* allocated page frames
          others,   \* those of them that other kernel code has
          mem,      \* what a page holds
          rx_bufs,  \* rx_bufs[i] = [phys, desc_idx]
          call,     \* the driver call that polls
          irq,      \* the receive interrupt: line, running, buf (in dispatch)
          dev,      \* requests each device is working on
          disk,     \* the sectors on the disk
          frames,   \* arrived from the wire, dispatched to eth_rx
          last,     \* the disk call that returned last, late: a call timed out
          calls, load  \* transfers and sends begun, and how many of what may happen
vars == <<q, pages, others, mem, rx_bufs, call, irq, dev, disk, frames, last, calls, load>>

Sector == 0 .. Capacity - 1
EmptyPage == [op |-> "", sector |-> 0, status |-> "", data |-> 0]
NoCall == [who |-> "none", op |-> "", sector |-> 0, count |-> 0, vals |-> <<>>,
           head |-> NONE, req |-> 0, data |-> {}]
NoBuf == 0

-----------------------------------------------------------------------------
(* Page frames *)
pmm_alloc_page(taken) == IF Pages \subseteq taken THEN 0 ELSE Min(Pages \ taken)
pmm_alloc_contiguous(taken, n) ==
    LET fit == {p \in Pages : p .. p + n - 1 \subseteq Pages \ taken} IN IF fit = {} THEN 0 ELSE Min(fit)

-----------------------------------------------------------------------------
(* Initialisation *)
Posted(vq, page) ==
    LET With(a) == virtio_submit([a.vq EXCEPT !.desc[a.d] = [addr |-> page, len |-> 1, more |-> FALSE,
                                                            writes |-> TRUE, next |-> NONE]], a.d)
    IN With(virtq_alloc_desc(vq))

Init ==
    /\ \E size \in BlkSizes :
         q = [blk |-> virtio_init_queue(size),
              rx |-> FoldLeft(Posted, virtio_init_queue(RX_BUF_COUNT), [i \in 1 .. RX_BUF_COUNT |-> i]),
              tx |-> virtio_init_queue(2)]
    /\ rx_bufs = [i \in 1 .. RX_BUF_COUNT |-> [phys |-> i, desc_idx |-> i - 1]]
    /\ pages = 1 .. RX_BUF_COUNT /\ others = {}
    /\ mem = [p \in Pages |-> EmptyPage]
    /\ call = NoCall
    /\ irq = [line |-> FALSE, running |-> FALSE, buf |-> NoBuf]
    /\ dev = [blk |-> <<>>, tx |-> <<>>]
    /\ disk = [s \in Sector |-> 0]
    /\ frames = [arrived |-> <<>>, got |-> <<>>]
    /\ last = [ret |-> -1, sector |-> 0, vals |-> <<>>, late |-> FALSE]
    /\ calls = [blk |-> 0, tx |-> 0] /\ load \in Loads

-----------------------------------------------------------------------------
(* Disk transfers *)
Idle == call.who = "none" /\ ~irq.running
Begin(who) == calls[who] < load[who] /\ calls' = [calls EXCEPT ![who] = @ + 1] /\ UNCHANGED load

\* Header, data and status: three descriptors, or none.
blk_build_chain(vq, req, data, n, is_write) ==
    LET Three(a, b, c) ==
            IF NONE \in {a.d, b.d, c.d}
            THEN [vq |-> FoldLeft(virtq_free_chain, c.vq, SelectSeq(<<a.d, b.d, c.d>>, LAMBDA d : d # NONE)),
                  head |-> NONE]
            ELSE [vq |-> [c.vq EXCEPT
                    !.desc[a.d] = [addr |-> req, len |-> 1, more |-> TRUE, writes |-> FALSE, next |-> b.d],
                    !.desc[b.d] = [addr |-> data, len |-> n, more |-> TRUE, writes |-> ~is_write, next |-> c.d],
                    !.desc[c.d] = [addr |-> req, len |-> 1, more |-> FALSE, writes |-> TRUE, next |-> NONE]],
                  head |-> a.d]
        Two(a, b) == Three(a, b, virtq_alloc_desc(b.vq))
        One(a) == Two(a, virtq_alloc_desc(a.vq))
    IN One(virtq_alloc_desc(vq))

\* The header, the status byte and, for a write, the data are put in place.
Filled(req, data, n, op, sector, vals) ==
    [p \in Pages |-> IF p = req THEN [mem[p] EXCEPT !.op = op, !.sector = sector, !.status = "init"]
                     ELSE IF op = "write" /\ p \in data .. data + n - 1
                     THEN [mem[p] EXCEPT !.data = vals[p - data + 1]]
                     ELSE mem[p]]

Refuse == /\ last' = [last EXCEPT !.ret = -1]
          /\ UNCHANGED <<pages, call>>

\* blk_transfer up to the polling loop
blk_transfer(op, sector, count, vals) ==
    /\ Idle /\ Begin("blk")
    /\ \/ count = 0 /\ last' = [last EXCEPT !.ret = 0, !.vals = <<>>] /\ UNCHANGED <<q, mem, pages, call>>
       \/ count > 0 /\ sector + count > Capacity /\ Refuse /\ UNCHANGED <<q, mem>>
       \/ /\ count > 0 /\ sector + count <= Capacity
          /\ \E req \in {pmm_alloc_page(pages)} :
             \E data \in {pmm_alloc_contiguous(pages \cup {req}, count)} :
               \/ req = 0 /\ Refuse /\ UNCHANGED <<q, mem>>
               \/ req # 0 /\ data = 0 /\ Refuse /\ UNCHANGED <<q, mem>>
               \/ /\ req # 0 /\ data # 0
                  /\ mem' = Filled(req, data, count, op, sector, vals)
                  /\ \E b \in {blk_build_chain(q.blk, req, data, count, op = "write")} :
                       \/ b.head = NONE /\ q' = [q EXCEPT !.blk = b.vq] /\ Refuse
                       \/ /\ b.head # NONE
                          /\ q' = [q EXCEPT !.blk = virtio_submit(b.vq, b.head)]
                          /\ pages' = pages \cup {req} \cup (data .. data + count - 1)
                          /\ call' = [who |-> "blk", op |-> op, sector |-> sector, count |-> count,
                                      vals |-> vals, head |-> b.head, req |-> req,
                                      data |-> data .. data + count - 1]
                          /\ UNCHANGED last
    /\ UNCHANGED <<others, rx_bufs, irq, dev, disk, frames>>

Release == pages' = pages \ (call.data \cup {call.req}) /\ call' = NoCall

\* Mutant: the status byte is not looked at.
Result_blind ==
    [ret |-> 0, vals |-> [i \in 1 .. call.count |-> mem[Min(call.data) + i - 1].data]]

\* What the call reports: the data in its pages, if the device says it is good.
Result ==
    [ret |-> IF mem[call.req].status = "ok" THEN 0 ELSE -1,
     vals |-> [i \in 1 .. call.count |-> mem[Min(call.data) + i - 1].data]]

\* The loop ends with an entry in the used ring: which one is not asked.
blk_complete ==
    /\ call.who = "blk" /\ virtq_has_used(q.blk)
    /\ q' = [q EXCEPT !.blk = virtq_free_chain(virtq_pop_used(q.blk).vq, call.head)]
    /\ last' = [last EXCEPT !.ret = Result.ret, !.sector = call.sector, !.vals = Result.vals]
    /\ Release
    /\ UNCHANGED <<others, mem, rx_bufs, irq, dev, disk, frames, calls, load>>

\* The loop ends without one.  The answer may come while the call gives up.
blk_timeout ==
    /\ call.who = "blk"
    /\ q' = [q EXCEPT !.blk = virtq_free_chain(q.blk, call.head)]
    /\ last' = [last EXCEPT !.ret = -1, !.late = TRUE]
    /\ Release
    /\ UNCHANGED <<others, mem, rx_bufs, irq, dev, disk, frames, calls, load>>

-----------------------------------------------------------------------------
(* The network interface *)

\* Sending: from a system call, or from the handler of a received frame.  Calls
\* do not overlap, so that a descriptor is free.
virtio_net_send ==
    /\ Begin("tx") /\ call.who = "none" /\ (irq.running => irq.buf # NoBuf)
    /\ \E page \in {pmm_alloc_page(pages)} :
         \/ page = 0 /\ UNCHANGED <<q, pages, mem, call>>
         \/ /\ page # 0
            /\ mem' = [mem EXCEPT ![page].data = calls.tx + 1]
            /\ \E a \in {virtq_alloc_desc(q.tx)} :
                 /\ q' = [q EXCEPT !.tx = virtio_submit([a.vq EXCEPT !.desc[a.d] =
                             [addr |-> page, len |-> 1, more |-> FALSE, writes |-> FALSE, next |-> NONE]], a.d)]
                 /\ call' = [NoCall EXCEPT !.who = "tx", !.head = a.d, !.data = {page}]
            /\ pages' = pages \cup {page}
    /\ UNCHANGED <<others, rx_bufs, irq, dev, disk, frames, last>>

\* The polling loop ends with an entry in the used ring.
send_complete ==
    /\ call.who = "tx" /\ virtq_has_used(q.tx)
    /\ q' = [q EXCEPT !.tx = virtq_free_chain(virtq_pop_used(q.tx).vq, call.head)]
    /\ pages' = pages \ call.data /\ call' = NoCall
    /\ UNCHANGED <<others, mem, rx_bufs, irq, dev, disk, frames, last, calls, load>>

send_timeout ==
    /\ call.who = "tx"
    /\ q' = [q EXCEPT !.tx = virtq_free_chain(q.tx, call.head)]
    /\ pages' = pages \ call.data /\ call' = NoCall
    /\ last' = [last EXCEPT !.late = TRUE]
    /\ UNCHANGED <<others, mem, rx_bufs, irq, dev, disk, frames, calls, load>>

\* The interrupt: reading the ISR clears it, then the used ring is polled.
virtio_net_irq_handler ==
    /\ Idle /\ irq.line
    /\ irq' = [irq EXCEPT !.running = TRUE, !.line = FALSE]
    /\ UNCHANGED <<q, pages, others, mem, rx_bufs, call, dev, disk, frames, last, calls, load>>

\* virtio_net_poll_rx: a buffer is found by its descriptor (BuffersOut: there is
\* one), and its frame goes
\* to eth_rx unless it is shorter than the header ...
BufOf(d) == Min({i \in DOMAIN rx_bufs : rx_bufs[i].desc_idx = d})
poll_rx_dispatch ==
    /\ irq.running /\ irq.buf = NoBuf /\ virtq_has_used(q.rx)
    /\ \E u \in {virtq_pop_used(q.rx)} :
         /\ q' = [q EXCEPT !.rx = u.vq]
         /\ irq' = [irq EXCEPT !.buf = BufOf(u.e.id)]
         /\ frames' = [frames EXCEPT !.got =
                         IF u.e.len = 0 THEN @ ELSE Append(@, mem[rx_bufs[BufOf(u.e.id)].phys].data)]
    /\ UNCHANGED <<pages, others, mem, rx_bufs, call, dev, disk, last, calls, load>>

\* ... and then to the device again.
Resubmitted(vq, i) == Posted(virtq_free_chain(vq, rx_bufs[i].desc_idx), rx_bufs[i].phys)
poll_rx_resubmit ==
    /\ irq.running /\ irq.buf # NoBuf /\ call.who = "none"
    /\ mem' = [mem EXCEPT ![rx_bufs[irq.buf].phys] = EmptyPage]
    /\ rx_bufs' = [rx_bufs EXCEPT ![irq.buf].desc_idx =
                      virtq_free_chain(q.rx, rx_bufs[irq.buf].desc_idx).free_head]
    /\ q' = [q EXCEPT !.rx = Resubmitted(@, irq.buf)]
    /\ irq' = [irq EXCEPT !.buf = NoBuf]
    /\ UNCHANGED <<pages, others, call, dev, disk, frames, last, calls, load>>

\* Mutant: the handler looks for one frame only.
poll_rx_end_one ==
    /\ irq.running /\ irq.buf = NoBuf
    /\ irq' = [irq EXCEPT !.running = FALSE]
    /\ UNCHANGED <<q, pages, others, mem, rx_bufs, call, dev, disk, frames, last, calls, load>>

poll_rx_end ==
    /\ irq.running /\ irq.buf = NoBuf /\ ~virtq_has_used(q.rx)
    /\ irq' = [irq EXCEPT !.running = FALSE]
    /\ UNCHANGED <<q, pages, others, mem, rx_bufs, call, dev, disk, frames, last, calls, load>>

-----------------------------------------------------------------------------
(* The devices and the rest of the kernel *)

\* A device takes a chain and, of a disk request, reads its header.  A chain it
\* cannot make sense of is returned with an empty answer.
DeviceFetch(n) ==
    /\ Offered(q[n])
    /\ LET head == NextHead(q[n])
           chain == DeviceChain(q[n], head)
           At(i) == q[n].desc[chain[i]].addr
       IN IF At(1) = 0 \/ (n = "blk" /\ Len(chain) # 3)
          THEN q' = [q EXCEPT ![n] = Return(Taken(@), head, 0)] /\ UNCHANGED dev
          ELSE /\ q' = [q EXCEPT ![n] = Taken(@)]
               /\ dev' = [dev EXCEPT ![n] = Append(@,
                    [head |-> head, op |-> mem[At(1)].op, sector |-> mem[At(1)].sector, req |-> At(1),
                     data |-> IF n = "blk" THEN At(2) ELSE 0,
                     count |-> IF n = "blk" THEN q[n].desc[chain[2]].len ELSE 0])]
    /\ UNCHANGED <<pages, others, mem, rx_bufs, call, irq, disk, frames, last, calls, load>>

\* The disk moves the data and reports, or reports an error.
DiskDone(ok) ==
    /\ dev.blk # <<>>
    /\ LET r == Head(dev.blk)
           on == r.sector .. r.sector + r.count - 1
       IN /\ disk' = [s \in Sector |-> IF ok /\ r.op = "write" /\ s \in on
                                        THEN mem[r.data + s - r.sector].data ELSE disk[s]]
          /\ mem' = [p \in Pages |->
                IF p = r.req THEN [mem[p] EXCEPT !.status = IF ok THEN "ok" ELSE "ioerr"]
                ELSE IF ok /\ r.op = "read" /\ p \in r.data .. r.data + r.count - 1
                THEN [mem[p] EXCEPT !.data = disk[r.sector + p - r.data]]
                ELSE mem[p]]
          /\ q' = [q EXCEPT !.blk = Return(@, r.head, 1)]
    /\ dev' = [dev EXCEPT !.blk = Tail(@)]
    /\ UNCHANGED <<pages, others, rx_bufs, call, irq, frames, last, calls, load>>

FrameSent ==
    /\ dev.tx # <<>>
    /\ q' = [q EXCEPT !.tx = Return(@, Head(dev.tx).head, 0)]
    /\ dev' = [dev EXCEPT !.tx = Tail(@)]
    /\ UNCHANGED <<pages, others, mem, rx_bufs, call, irq, disk, frames, last, calls, load>>

\* A frame arrives, with or without a byte behind the header; without a buffer
\* it is lost.
FrameArrives(len) ==
    /\ Len(frames.arrived) < load.frames /\ Offered(q.rx)
    /\ LET head == NextHead(q.rx)
           n == Len(frames.arrived) + 1
       IN /\ q' = [q EXCEPT !.rx = Return(Taken(@), head, len)]
          /\ mem' = [mem EXCEPT ![q.rx.desc[head].addr].data = n * len]
          /\ frames' = [frames EXCEPT !.arrived = Append(@, n * len)]
    /\ irq' = [irq EXCEPT !.line = TRUE]
    /\ UNCHANGED <<pages, others, rx_bufs, call, dev, disk, last, calls, load>>

\* Other code takes a page, or gives one back.
Elsewhere ==
    /\ Idle
    /\ \/ /\ Cardinality(others) < load.others /\ pmm_alloc_page(pages) # 0
          /\ others' = others \cup {pmm_alloc_page(pages)} /\ pages' = pages \cup {pmm_alloc_page(pages)}
       \/ \E p \in others : others' = others \ {p} /\ pages' = pages \ {p}
    /\ UNCHANGED <<q, mem, rx_bufs, call, irq, dev, disk, frames, last, calls, load>>

-----------------------------------------------------------------------------
Driver == blk_complete \/ blk_timeout \/ send_complete \/ send_timeout
Handler == virtio_net_irq_handler \/ poll_rx_dispatch \/ poll_rx_resubmit \/ poll_rx_end
Next ==
    \/ \E op \in {"read", "write"}, sector \in Sector, count \in 0 .. 2 :
         blk_transfer(op, sector, count, [i \in 1 .. count |-> calls.blk + 1])
    \/ virtio_net_send \/ Driver \/ Handler
    \/ DeviceFetch("blk") \/ DeviceFetch("tx") \/ FrameSent
    \/ \E ok \in BOOLEAN : DiskDone(ok)
    \/ \E len \in {0, 1} : FrameArrives(len)
    \/ Elsewhere
Spec == Init /\ [][Next]_vars

-----------------------------------------------------------------------------
\* Queues, pages, the call and the interrupt: every index is one of its queue.
TypeOK ==
    /\ pages \subseteq Pages /\ others \subseteq pages
    /\ \A n \in DOMAIN q : /\ q[n].num_free \in 0 .. q[n].size
                           /\ q[n].free_head \in {NONE} \cup DOMAIN q[n].desc
                           /\ q[n].last_used_idx \in 0 .. IdxMod - 1
    /\ call.head \in {NONE} \cup 0 .. 3
    /\ irq.buf \in 0 .. RX_BUF_COUNT

OutBy(n) == IF n = "rx" THEN {rx_bufs[i].desc_idx : i \in DOMAIN rx_bufs}
            ELSE IF call.who = n THEN ToSet(Links(q[n], call.head)) ELSE {}

\* Every descriptor is in the free list once or in the chain that the driver has
\* out, also after a call that gave up.
DescriptorsConserved ==
    \A n \in DOMAIN q :
        LET free == IF q[n].num_free = 0 THEN <<>> ELSE Links(q[n], q[n].free_head)
        IN /\ Len(free) = q[n].num_free /\ IsInjective(free)
           /\ ToSet(free) \cap OutBy(n) = {}
           /\ ToSet(free) \cup OutBy(n) = DOMAIN q[n].desc

\* Every page is free, a receive buffer, of the call in progress, or someone
\* else's: no path of a call loses one or gives one back that it does not have.
PagesConserved ==
    LET bufs == {rx_bufs[i].phys : i \in DOMAIN rx_bufs}
        own == (call.data \cup {call.req}) \ {0}
    IN /\ pages = bufs \cup own \cup others
       /\ bufs \cap own = {} /\ bufs \cap others = {} /\ own \cap others = {}

\* A disk call that reports success read, or wrote, what is now on the disk,
\* as long as no call gave up before its answer came.
TransferRight ==
    last.ret = 0 /\ ~last.late /\ call.who # "blk" =>
        \A i \in DOMAIN last.vals : disk[last.sector + i - 1] = last.vals[i]

AtWork == {r.req : r \in ToSet(dev.blk) \cup ToSet(dev.tx)}
          \cup UNION {r.data .. r.data + r.count - 1 : r \in ToSet(dev.blk)}

\* A device works on pages of the call that waits for it, as long as no call
\* gave up: nothing it writes lands in a page that has another owner.
DmaOwned == ~last.late => AtWork \subseteq call.data \cup {call.req}

\* The same, whatever happened.
DmaOwnedAlways == AtWork \subseteq call.data \cup {call.req}

\* Every receive buffer is with the device, in the used ring or in dispatch.
BuffersOut ==
    LET Gap(a, b) == (b - a + IdxMod) % IdxMod
    IN Gap(q.rx.seen, q.rx.avail.idx) + Gap(q.rx.last_used_idx, q.rx.used.idx)
         + (IF irq.buf = NoBuf THEN 0 ELSE 1) = RX_BUF_COUNT

\* Nothing is lost: descriptors, pages and receive buffers.
Conserved == TypeOK /\ DescriptorsConserved /\ PagesConserved /\ BuffersOut

\* A disk call moves the right data, in pages that are its own.
TransfersSound == TransferRight /\ DmaOwned

\* The frames in the used ring that the driver has not looked at.
Waiting ==
    [i \in 1 .. (q.rx.used.idx - q.rx.last_used_idx + IdxMod) % IdxMod |->
        mem[q.rx.desc[q.rx.used.ring[(q.rx.last_used_idx + i - 1) % q.rx.size].id].addr].data]
Full(s) == SelectSeq(s, LAMBDA x : x # 0)

\* Frames reach eth_rx once, in the order of their arrival and unharmed; those
\* that have not are in the used ring.
FramesInOrder == frames.got \o Full(Waiting) = Full(frames.arrived)

\* While a frame is in the used ring the interrupt is pending or its handler
\* running: no frame waits for the next one.
NoFrameStranded == Waiting # <<>> => irq.line \/ irq.running

\* Frames are delivered in order, and none is left in the ring.
FramesDelivered == FramesInOrder /\ NoFrameStranded
=============================================================================
