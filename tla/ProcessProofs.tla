--------------------------- MODULE ProcessProofs ---------------------------
(***************************************************************************)
(* Proofs about Process, for any number of processes and any signals.      *)
(*                                                                         *)
(* A system call changes the process table in two parts, its own and that  *)
(* of sig_maybe_deliver, so the invariant is put as a predicate on tables  *)
(* (Sound) that each part preserves.                                       *)
(***************************************************************************)
EXTENDS Process, DataLemmas

USE DEF SIGKILL, SIGCHLD, SIGCONT, SIGSTOP, SIGTSTP, SIGINT

Table == [Proc -> PCB]

\* What ThreadMatchesProcess and NoContinuePending say of one process.
Agrees(r) ==
    /\ r.state = "ALIVE" <=> r.thread \in {"READY", "BLOCKED"}
    /\ r.state = "STOPPED" <=> r.thread = "STOPPED"
    /\ r.state \in {"ZOMBIE", "TERMINATED"} <=> r.thread = "DEAD"
    /\ r.thread = "BLOCKED" => r.at = "wait"
    /\ r.state = "STOPPED" => SIGCONT \notin r.pending

\* The parent is to be told about the process.
Due(r) ==
    \/ r.state = "STOPPED" /\ r.exit_status # 0
    \/ r.state = "ZOMBIE" /\ r.exit_status \in Status

Sound(P) ==
    /\ P \in Table
    /\ \A p \in Proc : Agrees(P[p])
    /\ \A p, c \in Proc : P[p].thread = "BLOCKED" /\ P[c].parent = p => ~Due(P[c])

\* r becomes q, in a way that leaves its parent nothing new to be told, does not
\* put it to sleep and does not move it.
Quiet(r, q) ==
    /\ q \in PCB /\ Agrees(q)
    /\ Due(q) => Due(r)
    /\ q.thread = "BLOCKED" => r.thread = "BLOCKED"
    /\ q.parent = r.parent

\* Processes that do not exist, or have died, are left as they are, and nobody
\* is moved.
Kept(P, Q) ==
    \A c \in Proc :
        /\ Q[c].parent = P[c].parent /\ Q[c].at = P[c].at
        /\ P[c].state \in {"NONE", "ZOMBIE", "TERMINATED"} =>
              Q[c].state = P[c].state /\ Q[c].exit_status = P[c].exit_status

----------------------------------------------------------------------------
(* The operators                                                           *)

\* The newest of some children is one of them.
LEMMA MaxIn == ASSUME NEW S \in SUBSET Proc, S # {} PROVE Max(S) \in S
  <1> DEFINE T == {MaxProc - x : x \in S}
  <1>1. T \in SUBSET Nat /\ T # {}
    <2>1. \A x \in S : MaxProc - x \in Nat
      BY ProcessAssumption DEF Proc
    <2> QED
      BY <2>1
  <1>2. PICK m \in T : \A y \in T : m <= y
    BY <1>1, LeastExists
  <1>3. PICK x \in S : m = MaxProc - x
    BY <1>2
  <1>4. \A y \in S : x >= y
    BY <1>1, <1>2, <1>3, ProcessAssumption DEF Proc
  <1> QED
    BY <1>4 DEF Max

\* A change of one process or of many, each of them quiet.
LEMMA QuietTable ==
    ASSUME NEW P, Sound(P), NEW Q, Q = [c \in Proc |-> Q[c]],
           \A c \in Proc : Quiet(P[c], Q[c])
    PROVE  Sound(Q)
  BY DEF Sound, Quiet, Table

\* post: a signal is recorded, and SIGCONT resumes a stopped process.
LEMMA PostQuiet ==
    ASSUME NEW r \in PCB, Agrees(r), NEW s \in Sig \cup {SIGCHLD}
    PROVE  /\ Quiet(r, post(r, s)) /\ post(r, s).at = r.at
           /\ r.thread = "READY" => post(r, s).thread = "READY"
           /\ r.state \in {"NONE", "ZOMBIE", "TERMINATED"} =>
                 post(r, s).state = r.state /\ post(r, s).exit_status = r.exit_status
  <1> DEFINE a == [r EXCEPT !.pending = @ \cup {s}]
             b == [a EXCEPT !.state = "ALIVE", !.thread = "READY"]
  <1>1. /\ a \in PCB /\ a.pending = r.pending \cup {s} /\ a.state = r.state /\ a.thread = r.thread
        /\ a.exit_status = r.exit_status /\ a.parent = r.parent /\ a.at = r.at
    BY DEF PCB
  <1>2. post(r, s) = IF s = SIGCONT /\ r.state = "STOPPED" THEN b ELSE a
    BY DEF post
  <1> HIDE DEF a
  <1>3. /\ b \in PCB /\ b.state = "ALIVE" /\ b.thread = "READY"
        /\ b.exit_status = a.exit_status /\ b.parent = a.parent /\ b.at = a.at
    BY <1>1 DEF PCB
  <1> HIDE DEF b
  <1>4. CASE s = SIGCONT /\ r.state = "STOPPED"
    BY <1>1, <1>2, <1>3, <1>4 DEF Quiet, Agrees, Due
  <1>5. CASE ~(s = SIGCONT /\ r.state = "STOPPED")
    BY <1>1, <1>2, <1>5 DEF Quiet, Agrees, Due
  <1> QED
    BY <1>4, <1>5

\* sig_send and sig_send_group.
LEMMA SendSound ==
    ASSUME NEW P, Sound(P), NEW p \in Proc, NEW s \in Sig \cup {SIGCHLD}
    PROVE  /\ Sound(sig_send(P, p, s)) /\ Kept(P, sig_send(P, p, s))
           /\ \A c \in Proc : P[c].thread = "READY" => sig_send(P, p, s)[c].thread = "READY"
  <1> DEFINE Q == sig_send(P, p, s)
  <1>1. Q = [c \in Proc |-> Q[c]] /\ \A c \in Proc : Q[c] = P[c] \/ Q[c] = post(P[c], s)
    BY DEF sig_send, Sound, Table
  <1>2. \A c \in Proc : P[c] \in PCB /\ Agrees(P[c]) /\ Quiet(P[c], P[c])
    BY DEF Sound, Table, Quiet
  <1> HIDE DEF Q
  <1>3. Sound(Q)
    BY <1>1, <1>2, PostQuiet, QuietTable
  <1>4. Kept(P, Q)
    BY <1>1, <1>2, PostQuiet DEF Kept, Quiet
  <1>5. \A c \in Proc : P[c].thread = "READY" => Q[c].thread = "READY"
    BY <1>1, <1>2, PostQuiet
  <1> QED
    BY <1>3, <1>4, <1>5 DEF Q

LEMMA GroupSound ==
    ASSUME NEW P, Sound(P), NEW g \in Proc, NEW s \in Sig
    PROVE  /\ Sound(sig_send_group(P, g, s)) /\ Kept(P, sig_send_group(P, g, s))
           /\ \A c \in Proc : P[c].thread = "READY" => sig_send_group(P, g, s)[c].thread = "READY"
  <1> DEFINE Q == sig_send_group(P, g, s)
  <1>1. Q = [c \in Proc |-> Q[c]] /\ \A c \in Proc : Q[c] = P[c] \/ Q[c] = post(P[c], s)
    BY DEF sig_send_group
  <1>2. \A c \in Proc : P[c] \in PCB /\ Agrees(P[c]) /\ Quiet(P[c], P[c])
    BY DEF Sound, Table, Quiet
  <1> HIDE DEF Q
  <1>3. Sound(Q)
    BY <1>1, <1>2, PostQuiet, QuietTable
  <1>4. Kept(P, Q)
    BY <1>1, <1>2, PostQuiet DEF Kept, Quiet
  <1>5. \A c \in Proc : P[c].thread = "READY" => Q[c].thread = "READY"
    BY <1>1, <1>2, PostQuiet
  <1> QED
    BY <1>3, <1>4, <1>5 DEF Q

\* What the wakeup and the SIGCHLD of a process's parent change.
LEMMA NotifyPoint ==
    ASSUME NEW P \in Table, NEW p \in Proc
    PROVE  /\ notify_parent(P, p) \in Table
           /\ \A c \in Proc : LET r == P[c]
                                q == notify_parent(P, p)[c]
                            IN  /\ q.state = r.state /\ q.exit_status = r.exit_status
                                /\ q.parent = r.parent /\ q.at = r.at
                                /\ q.pending \subseteq r.pending \cup {SIGCHLD}
                                /\ q.thread = IF c = P[p].parent /\ r.thread = "BLOCKED"
                                              THEN "READY" ELSE r.thread
  <1> DEFINE q == P[p].parent
             W == wake_waiter(P, q)
  <1>1. CASE q = NULL
    BY <1>1 DEF notify_parent, Table, PCB, NULL, Proc
  <1>2. CASE q # NULL
    <2>1. q \in Proc /\ notify_parent(P, p) = sig_send(W, q, SIGCHLD)
      BY <1>2 DEF notify_parent, Table, PCB
    <2>2. /\ W \in Table
          /\ \A c \in Proc : W[c] = [P[c] EXCEPT !.thread = W[c].thread]
          /\ \A c \in Proc : W[c].thread = IF c = q /\ P[c].thread = "BLOCKED"
                                           THEN "READY" ELSE P[c].thread
      <3> DEFINE w == [P[q] EXCEPT !.thread = "READY"]
      <3>1. P[q] \in PCB /\ w \in PCB /\ w.thread = "READY"
        BY <2>1 DEF Table, PCB
      <3>2. W = IF P[q].thread = "BLOCKED" THEN [P EXCEPT ![q] = w] ELSE P
        BY <2>1 DEF wake_waiter, Table
      <3>3. \A c \in Proc : P[c] = [P[c] EXCEPT !.thread = P[c].thread]
        BY DEF Table, PCB
      <3> HIDE DEF W, w, q
      <3>4. CASE P[q].thread = "BLOCKED"
        <4>0. W = [P EXCEPT ![q] = w] /\ q \in Proc
          BY <2>1, <3>2, <3>4
        <4>1. W \in Table /\ W[q] = w /\ \A c \in Proc \ {q} : W[c] = P[c]
          BY <3>1, <4>0 DEF Table
        <4> QED
          BY <2>1, <3>1, <3>3, <3>4, <4>1 DEF w
      <3>5. CASE P[q].thread # "BLOCKED"
        BY <2>1, <3>2, <3>3, <3>5
      <3> QED
        BY <3>4, <3>5
    <2> HIDE DEF W, q
    <2> DEFINE N == sig_send(W, q, SIGCHLD)
    <2>3. /\ N \in Table
          /\ \A c \in Proc : N[c] = W[c] \/ N[c] = [W[c] EXCEPT !.pending = @ \cup {SIGCHLD}]
      <3> DEFINE a == [W[q] EXCEPT !.pending = @ \cup {SIGCHLD}]
      <3>0. W[q] \in PCB
        BY <2>1, <2>2 DEF Table
      <3>1. a \in PCB /\ post(W[q], SIGCHLD) = a
        BY <3>0 DEF post, PCB
      <3>2. N = IF Exists(W, q) THEN [W EXCEPT ![q] = a] ELSE W
        BY <2>1, <2>2, <3>1 DEF sig_send, Table
      <3> HIDE DEF N, a
      <3>3. CASE Exists(W, q)
        <4>1. N = [W EXCEPT ![q] = a] /\ q \in Proc
          BY <2>1, <3>2, <3>3
        <4>2. N \in Table /\ N[q] = a /\ \A c \in Proc \ {q} : N[c] = W[c]
          BY <2>2, <3>1, <4>1 DEF Table
        <4> QED
          BY <4>2 DEF a
      <3>4. CASE ~Exists(W, q)
        BY <2>2, <3>2, <3>4
      <3> QED
        BY <3>3, <3>4
    <2> HIDE DEF N
    <2>4. ASSUME NEW c \in Proc
          PROVE  /\ N[c].state = P[c].state /\ N[c].exit_status = P[c].exit_status
                 /\ N[c].parent = P[c].parent /\ N[c].at = P[c].at
                 /\ N[c].pending \subseteq P[c].pending \cup {SIGCHLD}
                 /\ N[c].thread = W[c].thread
      <3>1. P[c] \in PCB /\ W[c] \in PCB
        BY <2>2 DEF Table
      <3>2. /\ W[c].state = P[c].state /\ W[c].exit_status = P[c].exit_status
            /\ W[c].parent = P[c].parent /\ W[c].at = P[c].at /\ W[c].pending = P[c].pending
        <4>1. W[c] = [P[c] EXCEPT !.thread = W[c].thread]
          BY <2>2
        <4> QED
          BY <3>1, <4>1 DEF PCB
      <3>3. CASE N[c] = W[c]
        BY <3>2, <3>3
      <3>4. CASE N[c] = [W[c] EXCEPT !.pending = @ \cup {SIGCHLD}]
        BY <3>1, <3>2, <3>4 DEF PCB
      <3> QED
        BY <2>3, <3>3, <3>4
    <2> QED
      BY <2>1, <2>2, <2>3, <2>4 DEF q, N
  <1> QED
    BY <1>1, <1>2

\* A live process p becomes a, which its parent is to be told: afterwards the
\* parent is awake.
LEMMA NotifySound ==
    ASSUME NEW P, Sound(P), NEW p \in Proc, NEW Q \in Table,
           P[p].thread = "READY", Q[p].thread # "BLOCKED", Agrees(Q[p]),
           \A c \in Proc : Q[c].parent = P[c].parent,
           \A c \in Proc \ {p} :
              /\ Q[c].state = P[c].state /\ Q[c].exit_status = P[c].exit_status
              /\ Q[c].at = P[c].at
              /\ Q[c].pending \subseteq P[c].pending \cup {SIGCHLD}
              /\ Q[c].thread = IF c = P[p].parent /\ P[c].thread = "BLOCKED"
                               THEN "READY" ELSE P[c].thread
    PROVE  Sound(Q)
  <1>1. ASSUME NEW c \in Proc PROVE Agrees(Q[c])
    <2>1. CASE c = p
      BY <2>1
    <2>2. CASE c # p
      <3>1. Agrees(P[c])
        BY DEF Sound
      <3> QED
        BY <2>2, <3>1 DEF Agrees
    <2> QED
      BY <2>1, <2>2
  <1>2. ASSUME NEW b \in Proc, NEW c \in Proc, Q[b].thread = "BLOCKED", Q[c].parent = b
        PROVE  ~Due(Q[c])
    <2>1. b # p /\ P[b].thread = "BLOCKED" /\ b # P[p].parent /\ c # p
      BY <1>2
    <2> QED
      BY <1>2, <2>1 DEF Sound, Due
  <1> QED
    BY <1>1, <1>2 DEF Sound

\* sig_stop of a running process by a stop signal.
LEMMA StopSound ==
    ASSUME NEW P, Sound(P), NEW p \in Proc, P[p].thread = "READY",
           NEW s \in Nat, SIGCONT \notin P[p].pending
    PROVE  Sound(sig_stop(P, p, s)) /\ Kept(P, sig_stop(P, p, s))
  <1> DEFINE r == [P[p] EXCEPT !.state = "STOPPED", !.exit_status = s, !.thread = "STOPPED"]
             S == [P EXCEPT ![p] = r]
             Q == notify_parent(S, p)
  <1>1. P \in Table /\ P[p] \in PCB /\ P[p].state = "ALIVE"
    BY DEF Sound, Agrees, Table
  <1>2. /\ r \in PCB /\ r.state = "STOPPED" /\ r.thread = "STOPPED"
        /\ r.parent = P[p].parent /\ r.at = P[p].at /\ r.pending = P[p].pending
    BY <1>1 DEF PCB
  <1> HIDE DEF r
  <1>3. S \in Table /\ S[p] = r /\ \A c \in Proc \ {p} : S[c] = P[c]
    BY <1>1, <1>2 DEF Table
  <1>4. sig_stop(P, p, s) = Q
    BY <1>1 DEF sig_stop, Table, r
  <1> HIDE DEF S
  <1>5. /\ Q \in Table
        /\ \A c \in Proc : /\ Q[c].state = S[c].state /\ Q[c].exit_status = S[c].exit_status
                           /\ Q[c].parent = S[c].parent /\ Q[c].at = S[c].at
                           /\ Q[c].pending \subseteq S[c].pending \cup {SIGCHLD}
                           /\ Q[c].thread = IF c = S[p].parent /\ S[c].thread = "BLOCKED"
                                            THEN "READY" ELSE S[c].thread
    BY <1>3, NotifyPoint
  <1> HIDE DEF Q
  <1>6. Agrees(Q[p]) /\ Q[p].thread # "BLOCKED"
    BY <1>2, <1>3, <1>5 DEF Agrees
  <1>7. \A c \in Proc : Q[c].parent = P[c].parent /\ Q[c].at = P[c].at
    BY <1>2, <1>3, <1>5
  <1>8. Sound(Q)
    BY <1>2, <1>3, <1>5, <1>6, <1>7, NotifySound
  <1>9. Kept(P, Q)
    BY <1>1, <1>3, <1>5, <1>7 DEF Kept
  <1> QED
    BY <1>4, <1>8, <1>9

\* sig_terminate of a running process: its status is not one of exit.
LEMMA TerminateSound ==
    ASSUME NEW P, Sound(P), NEW p \in Proc, P[p].thread = "READY", NEW s \in Sig \cup {SIGCHLD}
    PROVE  Sound(sig_terminate(P, p, s)) /\ Kept(P, sig_terminate(P, p, s))
  <1> DEFINE x == 128 + s
             r == [P[p] EXCEPT !.exit_status = x, !.state = "ZOMBIE", !.thread = "DEAD"]
             Q == [P EXCEPT ![p] = r]
  <1>1. P \in Table /\ P[p] \in PCB /\ P[p].state = "ALIVE" /\ x \in Nat \ Status
    BY ProcessAssumption DEF Sound, Agrees, Table
  <1>2. r \in PCB /\ r.state = "ZOMBIE" /\ r.exit_status = x /\ r.thread = "DEAD"
        /\ r.parent = P[p].parent /\ r.at = P[p].at
    <2> HIDE DEF x
    <2> QED
      BY <1>1 DEF PCB
  <1>3. sig_terminate(P, p, s) = Q
    <2>1. sig_terminate(P, p, s) =
            [P EXCEPT ![p].exit_status = x, ![p].state = "ZOMBIE", ![p].thread = "DEAD"]
      BY DEF sig_terminate
    <2> HIDE DEF x
    <2> QED
      BY <1>1, <2>1 DEF Table
  <1> HIDE DEF r
  <1>4. Q \in Table /\ Q[p] = r /\ \A c \in Proc \ {p} : Q[c] = P[c]
    BY <1>1, <1>2 DEF Table
  <1> HIDE DEF Q
  <1>5. \A c \in Proc : Quiet(P[c], Q[c])
    BY <1>1, <1>2, <1>4 DEF Quiet, Agrees, Due, Sound, Table
  <1>6. Sound(Q)
    BY <1>4, <1>5, QuietTable DEF Table
  <1>7. Kept(P, Q)
    BY <1>1, <1>2, <1>4 DEF Kept
  <1> QED
    BY <1>3, <1>6, <1>7

\* One process changes in what neither its parent nor its thread depends on, and
\* only loses pending signals.
LEMMA LocalSound ==
    ASSUME NEW P, Sound(P), NEW p \in Proc, NEW Q \in Table,
           \A c \in Proc \ {p} : Q[c] = P[c],
           Q[p].pending \subseteq P[p].pending,
           Q[p].state = P[p].state, Q[p].exit_status = P[p].exit_status,
           Q[p].thread = P[p].thread, Q[p].parent = P[p].parent,
           Q[p].at = P[p].at \/ P[p].thread # "BLOCKED"
    PROVE  Sound(Q) /\ (Q[p].at = P[p].at => Kept(P, Q))
  <1>1. P \in Table /\ P[p] \in PCB /\ Agrees(P[p]) /\ Q[p] \in PCB
    BY DEF Sound, Table
  <1>2. \A c \in Proc : Quiet(P[c], Q[c])
    BY <1>1 DEF Quiet, Agrees, Due, Sound, Table
  <1> QED
    BY <1>1, <1>2, QuietTable DEF Kept, Table

\* sig_maybe_deliver at the end of a system call of p, whatever is pending.
LEMMA DeliverSound ==
    ASSUME NEW P, Sound(P), NEW p \in Proc, P[p].thread = "READY", NEW ok \in BOOLEAN
    PROVE  Sound(sig_maybe_deliver(P, p, ok)) /\ Kept(P, sig_maybe_deliver(P, p, ok))
  <1> DEFINE todo == {s \in P[p].pending : ~Ignored(P[p], s)}
             s == Min(todo)
             R == Remaining(P[p].pending, s)
             Q == [P EXCEPT ![p].pending = R]
             d == IF s \in {SIGKILL, SIGSTOP} THEN "SIG_DFL" ELSE Disposition(P[p], s)
             D == sig_maybe_deliver(P, p, ok)
  <1>1. P \in Table /\ P[p] \in PCB /\ P[p].pending \subseteq Sig \cup {SIGCHLD}
        /\ P[p].handlers \in [Caught -> Handler]
    BY DEF Sound, Table, PCB
  <1>2. D = CASE todo = {} -> [P EXCEPT ![p].pending = {}]
              [] todo # {} /\ d = "SIG_DFL" /\ s \in {SIGSTOP, SIGTSTP} -> sig_stop(Q, p, s)
              [] todo # {} /\ d = "SIG_DFL" /\ s \notin {SIGSTOP, SIGTSTP} -> sig_terminate(Q, p, s)
              [] todo # {} /\ d = "function" -> IF ok THEN Q ELSE sig_terminate(Q, p, s)
    BY <1>1 DEF sig_maybe_deliver, Table
  <1> HIDE DEF D
  <1>3. CASE todo = {}
    <2>1. D = [P EXCEPT ![p].pending = {}] /\ {} \in SUBSET P[p].pending
      BY <1>2, <1>3
    <2>2. /\ D \in Table /\ \A c \in Proc \ {p} : D[c] = P[c]
          /\ D[p].pending \subseteq P[p].pending
          /\ D[p].state = P[p].state /\ D[p].exit_status = P[p].exit_status
          /\ D[p].thread = P[p].thread /\ D[p].parent = P[p].parent /\ D[p].at = P[p].at
      <3> DEFINE r == [P[p] EXCEPT !.pending = {}]
      <3>1. /\ r \in PCB /\ r.pending = {}
            /\ r.state = P[p].state /\ r.exit_status = P[p].exit_status
            /\ r.thread = P[p].thread /\ r.parent = P[p].parent /\ r.at = P[p].at
        BY <1>1 DEF PCB
      <3>2. D = [P EXCEPT ![p] = r]
        BY <1>1, <2>1 DEF Table
      <3> HIDE DEF r
      <3> QED
        BY <1>1, <3>1, <3>2 DEF Table
    <2> QED
      BY <2>2, LocalSound DEF D
  <1>4. CASE todo # {}
    <2>1. s \in todo /\ s \in Sig \cup {SIGCHLD} /\ s \in Nat
      <3>1. todo \in SUBSET Nat /\ todo \subseteq Sig \cup {SIGCHLD}
        <4>1. todo \subseteq P[p].pending
          OBVIOUS
        <4>2. Sig \cup {SIGCHLD} \subseteq Nat
          BY ProcessAssumption
        <4> HIDE DEF todo
        <4> QED
          BY <1>1, <4>1, <4>2
      <3> HIDE DEF todo
      <3> QED
        BY <1>4, <3>1, MinIn
    <2>2. d \in {"SIG_DFL", "function"}
      BY <1>1, <2>1 DEF Ignored, Disposition, Handler
    <2> HIDE DEF s, d, todo
    <2>3. R \in SUBSET P[p].pending
      BY DEF Remaining
    <2> HIDE DEF R
    <2>4. Sound(Q) /\ Kept(P, Q) /\ Q[p].thread = "READY" /\ Q[p].pending = R
      <3> DEFINE r == [P[p] EXCEPT !.pending = R]
      <3>1. /\ r \in PCB /\ r.pending = R
            /\ r.state = P[p].state /\ r.exit_status = P[p].exit_status
            /\ r.thread = P[p].thread /\ r.parent = P[p].parent /\ r.at = P[p].at
        BY <1>1, <2>3 DEF PCB
      <3>2. Q = [P EXCEPT ![p] = r]
        BY <1>1 DEF Table
      <3> HIDE DEF r, Q
      <3>3. Q \in Table /\ Q[p] = r /\ \A c \in Proc \ {p} : Q[c] = P[c]
        BY <1>1, <3>1, <3>2 DEF Table
      <3> QED
        BY <2>3, <3>1, <3>3, LocalSound
    <2> HIDE DEF Q
    <2>5. CASE d = "SIG_DFL" /\ s \in {SIGSTOP, SIGTSTP}
      <3>1. SIGCONT \notin Q[p].pending
        BY <2>4, <2>5 DEF R, Remaining
      <3>2. D = sig_stop(Q, p, s)
        BY <1>2, <1>4, <2>5
      <3>3. Sound(D) /\ Kept(Q, D)
        BY <2>1, <2>4, <3>1, <3>2, StopSound
      <3> QED
        BY <2>4, <3>3 DEF Kept, D
    <2>6. CASE ~(d = "SIG_DFL" /\ s \in {SIGSTOP, SIGTSTP}) /\ D = sig_terminate(Q, p, s)
      <3>1. Sound(D) /\ Kept(Q, D)
        BY <2>1, <2>4, <2>6, TerminateSound
      <3> QED
        BY <2>4, <3>1 DEF Kept, D
    <2>7. CASE D = Q
      BY <2>4, <2>7 DEF D
    <2> QED
      BY <1>2, <1>4, <2>2, <2>5, <2>6, <2>7
  <1> QED
    BY <1>3, <1>4

----------------------------------------------------------------------------
(* Steps                                                                   *)

\* Nobody is created, and nobody starts.
Moves(P, Q) ==
    \A c \in Proc :
        /\ P[c].state = "NONE" => Q[c].state = "NONE"
        /\ Q[c].at \in {"user", "wait"} <=> P[c].at \in {"user", "wait"}
        /\ Q[c].at = "entered" <=> P[c].at = "entered"

\* What ZombieKept says of a step from P to Q.
Buries(P, Q) ==
    \A p \in Proc :
        /\ P[p].state = "ZOMBIE" =>
              /\ Q[p].state \in {"ZOMBIE", "TERMINATED"}
              /\ Q[p].exit_status = P[p].exit_status
              /\ Q[p].state = "TERMINATED" => P[p].parent # NULL /\ P[P[p].parent].state = "ALIVE"
        /\ P[p].state = "TERMINATED" => Q[p].state = "TERMINATED"

\* A table on the way through a system call.
Fine(P, Q) == Sound(Q) /\ Moves(P, Q) /\ Buries(P, Q)

\* The invariant of the table, in its two forms.
LEMMA SoundIs ==
    ASSUME IInv
    PROVE  Sound(proc) /\ NULL \notin Proc
  <1>1. \A p, c \in Proc : proc[p].thread = "BLOCKED" /\ proc[c].parent = p => ~Due(proc[c])
    BY DEF IInv, JobControlSound, NoMissedChild, Reportable, Unreported, Zombies, Children, Due
  <1> QED
    BY <1>1 DEF IInv, ThreadMatchesProcess, TypeOK, JobControlSound, NoContinuePending,
                Sound, Agrees, Table, NULL, Proc

Image == [space : Proc \cup {NULL}, ctx : Proc \cup {NULL}]

\* What a sound table gives of the invariant after a step.
LEMMA SoundGives ==
    ASSUME Sound(proc'), next_pid' \in 2..(MaxProc + 1), fork_args' \in Proc \cup {NULL},
           image' \in [Proc -> Image]
    PROVE  ThreadMatchesProcess' /\ JobControlSound'
  <1>1. ThreadMatchesProcess' /\ NoContinuePending'
    BY DEF ThreadMatchesProcess, TypeOK, NoContinuePending, Sound, Agrees, Table, Image
  <1>2. NoMissedChild'
    BY DEF Sound, Due, NoMissedChild, Reportable, Unreported, Zombies, Children
  <1> QED
    BY <1>1, <1>2 DEF JobControlSound

\* A change of the table alone keeps the invariant.
LEMMA TableStep ==
    ASSUME IInv, Sound(proc'), Moves(proc, proc'), UNCHANGED <<next_pid, fork_args, image>>
    PROVE  IInv'
  <1>1. ThreadMatchesProcess' /\ JobControlSound'
    BY SoundGives DEF IInv, ThreadMatchesProcess, TypeOK, Image
  <1>2. StartsNoEarlier'
    BY DEF IInv, StartsNoEarlier, Moves
  <1>3. ForksInOrder'
    <2>1. 1 \in Proc
      BY ProcessAssumption DEF Proc
    <2> QED
      BY <2>1 DEF IInv, ForksInOrder, Moves
  <1> QED
    BY <1>1, <1>2, <1>3 DEF IInv

\* A step that leaves dead and missing processes alone is fine after one that is.
LEMMA KeptFine ==
    ASSUME NEW P, NEW Q, NEW R, Fine(P, Q), Kept(Q, R), Sound(R)
    PROVE  Fine(P, R)
  BY DEF Fine, Kept, Moves, Buries

\* A table stays as it is.
LEMMA SameFine == ASSUME NEW P, Sound(P) PROVE Fine(P, P)
  BY DEF Fine, Moves, Buries

\* The end of a system call: the signals pending then are looked at.
LEMMA ReturnStep ==
    ASSUME IInv, NEW p \in Proc, NEW Q, Fine(proc, Q), Q[p].thread = "READY", Return(Q, p),
           UNCHANGED <<next_pid, fork_args, image>>
    PROVE  IInv' /\ Buries(proc, proc')
  <1>1. PICK ok \in BOOLEAN : proc' = sig_maybe_deliver(Q, p, ok)
    BY DEF Return
  <1>2. Sound(proc') /\ Kept(Q, proc')
    BY <1>1, DeliverSound DEF Fine
  <1>3. Fine(proc, proc')
    BY <1>2, KeptFine
  <1> QED
    BY <1>3, TableStep DEF Fine

----------------------------------------------------------------------------
(* One lemma per action                                                    *)

\* sys_kill and sys_kill_group.
LEMMA KillStep ==
    ASSUME IInv, NEW p \in Proc, NEW q \in Proc, NEW s \in Sig,
           sys_kill(p, q, s) \/ sys_kill_group(p, q, s)
    PROVE  IInv' /\ Buries(proc, proc')
  <1>1. Sound(proc) /\ proc[p].thread = "READY" /\ UNCHANGED <<next_pid, fork_args, image>>
    BY SoundIs DEF sys_kill, sys_kill_group, Running
  <1>2. Fine(proc, proc)
    BY <1>1, SameFine
  <1>3. CASE sys_kill(p, q, s)
    <2> DEFINE Q == sig_send(proc, q, s)
    <2>1. Sound(Q) /\ Kept(proc, Q) /\ Q[p].thread = "READY"
      BY <1>1, SendSound
    <2>2. Return(Q, p)
      BY <1>3 DEF sys_kill
    <2> HIDE DEF Q
    <2> QED
      BY <1>1, <1>2, <2>1, <2>2, KeptFine, ReturnStep
  <1>4. CASE sys_kill_group(p, q, s)
    <2> DEFINE Q == sig_send_group(proc, q, s)
    <2>1. Sound(Q) /\ Kept(proc, Q) /\ Q[p].thread = "READY"
      BY <1>1, GroupSound
    <2>2. Return(Q, p)
      BY <1>4 DEF sys_kill_group
    <2> HIDE DEF Q
    <2> QED
      BY <1>1, <1>2, <2>1, <2>2, KeptFine, ReturnStep
  <1> QED
    BY <1>3, <1>4

\* Ctrl-C and Ctrl-Z.
LEMMA TtyStep ==
    ASSUME IInv, NEW g \in Proc, NEW s \in Sig, tty_signal(g, s)
    PROVE  IInv' /\ Buries(proc, proc')
  <1>1. Sound(proc) /\ Fine(proc, proc)
    BY SoundIs, SameFine
  <1>2. Sound(proc') /\ Kept(proc, proc') /\ UNCHANGED <<next_pid, fork_args, image>>
    BY <1>1, GroupSound DEF tty_signal
  <1>3. Fine(proc, proc')
    BY <1>1, <1>2, KeptFine
  <1> QED
    BY <1>2, <1>3, TableStep DEF Fine

\* sys_signal installs a handler.
LEMMA SignalStep ==
    ASSUME IInv, NEW p \in Proc, NEW s \in Caught, NEW h \in Handler, sys_signal(p, s, h)
    PROVE  IInv' /\ Buries(proc, proc')
  <1> DEFINE r == [proc[p] EXCEPT !.handlers = [proc[p].handlers EXCEPT ![s] = h]]
             Q == [proc EXCEPT ![p] = r]
  <1>1. /\ Sound(proc) /\ proc \in Table /\ proc[p] \in PCB /\ proc[p].thread = "READY"
        /\ Fine(proc, proc)
    BY SoundIs, SameFine DEF sys_signal, Running, Sound, Table
  <1>2. proc[p].handlers \in [Caught -> Handler]
    BY <1>1 DEF PCB
  <1>3. [proc[p].handlers EXCEPT ![s] = h] \in [Caught -> Handler]
    BY <1>2
  <1>4. /\ r \in PCB /\ r.pending = proc[p].pending
        /\ r.state = proc[p].state /\ r.exit_status = proc[p].exit_status
        /\ r.thread = proc[p].thread /\ r.parent = proc[p].parent /\ r.at = proc[p].at
    BY <1>1, <1>3 DEF PCB
  <1>5. Return(Q, p) /\ UNCHANGED <<next_pid, fork_args, image>>
    <2>1. [proc EXCEPT ![p].handlers[s] = h] = Q
      BY <1>1 DEF Table
    <2> QED
      BY <2>1 DEF sys_signal
  <1> HIDE DEF r
  <1>6. Q \in Table /\ Q[p] = r /\ \A c \in Proc \ {p} : Q[c] = proc[c]
    BY <1>1, <1>4 DEF Table
  <1> HIDE DEF Q
  <1>7. Sound(Q) /\ Kept(proc, Q) /\ Q[p].thread = "READY"
    BY <1>1, <1>4, <1>6, LocalSound
  <1> QED
    BY <1>1, <1>5, <1>7, KeptFine, ReturnStep

\* sys_setpgid moves a process, perhaps the caller, to another group.
LEMMA SetpgidStep ==
    ASSUME IInv, NEW p \in Proc, NEW q \in Proc, NEW g \in Group, sys_setpgid(p, q, g)
    PROVE  IInv' /\ Buries(proc, proc')
  <1> DEFINE k == IF g = 0 THEN q ELSE g
             r == [proc[q] EXCEPT !.pgid = k]
             Q == [proc EXCEPT ![q] = r]
  <1>1. /\ Sound(proc) /\ proc \in Table /\ proc[q] \in PCB /\ proc[p].thread = "READY"
        /\ Fine(proc, proc)
    BY SoundIs, SameFine DEF sys_setpgid, Running, Sound, Table
  <1>2. k \in Proc
    BY ProcessAssumption DEF Proc
  <1>3. Return(Q, p) /\ UNCHANGED <<next_pid, fork_args, image>>
    <2>1. [proc EXCEPT ![q].pgid = IF g = 0 THEN q ELSE g] = Q
      BY <1>1 DEF Table
    <2> QED
      BY <2>1 DEF sys_setpgid
  <1> HIDE DEF k
  <1>4. /\ r \in PCB /\ r.pending = proc[q].pending
        /\ r.state = proc[q].state /\ r.exit_status = proc[q].exit_status
        /\ r.thread = proc[q].thread /\ r.parent = proc[q].parent /\ r.at = proc[q].at
    BY <1>1, <1>2 DEF PCB
  <1> HIDE DEF r
  <1>5. Q \in Table /\ Q[q] = r /\ \A c \in Proc \ {q} : Q[c] = proc[c]
    BY <1>1, <1>4 DEF Table
  <1> HIDE DEF Q
  <1>6. Sound(Q) /\ Kept(proc, Q)
    BY <1>1, <1>4, <1>5, LocalSound
  <1>7. Q[p].thread = "READY"
    BY <1>1, <1>4, <1>5
  <1> QED
    BY <1>1, <1>3, <1>6, <1>7, KeptFine, ReturnStep

\* sys_exit: the parent is woken, and the process is a zombie.
LEMMA ExitStep ==
    ASSUME IInv, NEW p \in Proc, NEW x \in Status, sys_exit(p, x)
    PROVE  IInv' /\ Buries(proc, proc')
  <1> DEFINE r == [proc[p] EXCEPT !.exit_status = x, !.state = "ZOMBIE"]
             S == [proc EXCEPT ![p] = r]
             N == notify_parent(S, p)
             d == [N[p] EXCEPT !.thread = "DEAD"]
  <1>1. /\ Sound(proc) /\ proc \in Table /\ proc[p] \in PCB /\ Agrees(proc[p])
        /\ proc[p].thread = "READY" /\ proc[p].at = "user" /\ proc[p].state = "ALIVE"
        /\ UNCHANGED <<next_pid, fork_args, image>>
    BY SoundIs DEF sys_exit, Running, Sound, Table, Agrees
  <1>2. /\ r \in PCB /\ r.state = "ZOMBIE" /\ r.exit_status = x /\ r.thread = "READY"
        /\ r.parent = proc[p].parent /\ r.at = "user" /\ r.pending = proc[p].pending
    BY <1>1, ProcessAssumption DEF PCB
  <1>3. proc' = [N EXCEPT ![p].thread = "DEAD"]
    <2>1. [proc EXCEPT ![p].exit_status = x, ![p].state = "ZOMBIE"] = S
      BY <1>1 DEF Table
    <2> QED
      BY <2>1 DEF sys_exit
  <1> HIDE DEF r
  <1>4. S \in Table /\ S[p] = r /\ \A c \in Proc \ {p} : S[c] = proc[c]
    BY <1>1, <1>2 DEF Table
  <1> HIDE DEF S
  <1>5. /\ N \in Table
        /\ \A c \in Proc :
              /\ N[c].state = S[c].state /\ N[c].exit_status = S[c].exit_status
              /\ N[c].parent = S[c].parent /\ N[c].at = S[c].at
              /\ N[c].pending \subseteq S[c].pending \cup {SIGCHLD}
              /\ N[c].thread = IF c = S[p].parent /\ S[c].thread = "BLOCKED"
                               THEN "READY" ELSE S[c].thread
    BY <1>4, NotifyPoint
  <1> HIDE DEF N
  <1>6. /\ d \in PCB /\ d.state = "ZOMBIE" /\ d.thread = "DEAD" /\ d.at = "user"
        /\ d.parent = proc[p].parent
    <2>1. N[p] \in PCB /\ N[p].state = "ZOMBIE" /\ N[p].at = "user" /\ N[p].parent = proc[p].parent
      BY <1>2, <1>4, <1>5 DEF Table
    <2> QED
      BY <2>1 DEF PCB
  <1>7. proc' = [N EXCEPT ![p] = d]
    BY <1>3, <1>5 DEF Table
  <1> HIDE DEF d
  <1>8. proc' \in Table /\ proc'[p] = d /\ \A c \in Proc \ {p} : proc'[c] = N[c]
    BY <1>5, <1>6, <1>7 DEF Table
  <1>9. /\ \A c \in Proc : proc'[c].parent = proc[c].parent
        /\ \A c \in Proc \ {p} :
              /\ proc'[c].state = proc[c].state /\ proc'[c].exit_status = proc[c].exit_status
              /\ proc'[c].at = proc[c].at
              /\ proc'[c].pending \subseteq proc[c].pending \cup {SIGCHLD}
              /\ proc'[c].thread = IF c = proc[p].parent /\ proc[c].thread = "BLOCKED"
                                   THEN "READY" ELSE proc[c].thread
    BY <1>2, <1>4, <1>5, <1>6, <1>8
  <1>10. Sound(proc')
    <2>1. proc'[p].thread # "BLOCKED" /\ Agrees(proc'[p])
      BY <1>6, <1>8 DEF Agrees
    <2> QED
      BY <1>1, <1>8, <1>9, <2>1, NotifySound
  <1>11. Moves(proc, proc') /\ Buries(proc, proc')
    BY <1>1, <1>6, <1>8, <1>9 DEF Moves, Buries
  <1> QED
    BY <1>1, <1>10, <1>11, TableStep

\* A process is somewhere else, and is otherwise the same.
Moved(P, p, a) == [P EXCEPT ![p].at = a]

LEMMA MoveSound ==
    ASSUME NEW P, Sound(P), NEW p \in Proc, P[p].thread = "READY", NEW a \in {"entered", "user"}
    PROVE  LET Q == Moved(P, p, a)
           IN  /\ Sound(Q) /\ \A c \in Proc \ {p} : Q[c] = P[c]
               /\ Q[p].thread = "READY" /\ Q[p].at = a /\ Q[p].state = P[p].state
               /\ Q[p].exit_status = P[p].exit_status /\ Q[p].parent = P[p].parent
  <1> DEFINE r == [P[p] EXCEPT !.at = a]
             Q == Moved(P, p, a)
  <1>1. P \in Table /\ P[p] \in PCB
    BY DEF Sound, Table
  <1>2. /\ r \in PCB /\ r.pending = P[p].pending
        /\ r.state = P[p].state /\ r.exit_status = P[p].exit_status
        /\ r.thread = P[p].thread /\ r.parent = P[p].parent /\ r.at = a
    BY <1>1 DEF PCB
  <1>3. Q = [P EXCEPT ![p] = r]
    BY <1>1 DEF Table, Moved
  <1> HIDE DEF r, Q
  <1>4. Q \in Table /\ Q[p] = r /\ \A c \in Proc \ {p} : Q[c] = P[c]
    BY <1>1, <1>2, <1>3 DEF Table
  <1>5. P[p].thread # "BLOCKED"
    OBVIOUS
  <1>6. /\ Q[p].pending \subseteq P[p].pending
        /\ Q[p].state = P[p].state /\ Q[p].exit_status = P[p].exit_status
        /\ Q[p].thread = P[p].thread /\ Q[p].parent = P[p].parent
    BY <1>2, <1>4
  <1>7. Sound(Q)
    BY <1>4, <1>5, <1>6, LocalSound
  <1> QED
    BY <1>2, <1>4, <1>7 DEF Q

\* fork_child_entry reads g_fork_child_args the first time ...
LEMMA EntryStep ==
    ASSUME IInv, NEW p \in Proc, fork_child_entry(p)
    PROVE  IInv' /\ Buries(proc, proc')
  <1>1. /\ Sound(proc) /\ proc[p].thread = "READY" /\ proc[p].state = "ALIVE" /\ proc[p].at = "born"
        /\ proc' = Moved(proc, p, "entered")
        /\ image' = [image EXCEPT ![p].space = fork_args]
        /\ UNCHANGED <<next_pid, fork_args>>
    BY SoundIs DEF fork_child_entry, Sound, Agrees, Moved
  <1>2. /\ Sound(proc') /\ \A c \in Proc \ {p} : proc'[c] = proc[c]
        /\ proc'[p].thread = "READY" /\ proc'[p].at = "entered" /\ proc'[p].state = "ALIVE"
    BY <1>1, MoveSound
  <1>3. p <= fork_args /\ fork_args \in Proc
    <2>1. next_pid \in 2..(MaxProc + 1) /\ fork_args \in Proc \cup {NULL}
      BY DEF IInv, ThreadMatchesProcess, TypeOK
    <2>2. p # 1 /\ ~(p >= next_pid) /\ fork_args = IF next_pid = 2 THEN NULL ELSE next_pid - 1
      BY <1>1 DEF IInv, ForksInOrder
    <2> QED
      BY <2>1, <2>2, ProcessAssumption DEF Proc, NULL
  <1> DEFINE i == [image[p] EXCEPT !.space = fork_args]
  <1>4. image \in [Proc -> Image] /\ next_pid \in 2..(MaxProc + 1)
    BY DEF IInv, ThreadMatchesProcess, TypeOK, Image
  <1>5. i \in Image /\ i.space = fork_args
    BY <1>3, <1>4 DEF Image
  <1>6. image' = [image EXCEPT ![p] = i]
    BY <1>1, <1>4
  <1> HIDE DEF i
  <1>7. image' \in [Proc -> Image] /\ image'[p] = i /\ \A c \in Proc \ {p} : image'[c] = image[c]
    BY <1>4, <1>5, <1>6
  <1>8. ThreadMatchesProcess' /\ JobControlSound'
    BY <1>1, <1>2, <1>3, <1>4, <1>7, SoundGives
  <1>9. StartsNoEarlier'
    BY <1>2, <1>3, <1>5, <1>7 DEF IInv, StartsNoEarlier
  <1>10. ForksInOrder'
    <2>1. 1 \in Proc /\ p # 1
      BY <1>1, ProcessAssumption DEF Proc, IInv, ForksInOrder
    <2>2. \A c \in Proc : c >= next_pid => proc'[c].state = "NONE"
      BY <1>1, <1>2 DEF IInv, ForksInOrder
    <2>3. \A c \in Proc : proc'[c].at = "entered" => image'[c].space <= fork_args
      BY <1>2, <1>3, <1>5, <1>7 DEF IInv, ForksInOrder, Proc
    <2> QED
      BY <1>1, <1>2, <2>1, <2>2, <2>3 DEF IInv, ForksInOrder
  <1>11. Buries(proc, proc')
    BY <1>1, <1>2 DEF Buries
  <1> QED
    BY <1>8, <1>9, <1>10, <1>11 DEF IInv

\* ... and the second time.
LEMMA StartStep ==
    ASSUME IInv, NEW p \in Proc, fork_return_to_user(p)
    PROVE  IInv' /\ Buries(proc, proc')
  <1>1. /\ Sound(proc) /\ proc[p].thread = "READY" /\ proc[p].state = "ALIVE" /\ proc[p].at = "entered"
        /\ proc' = Moved(proc, p, "user")
        /\ image' = [image EXCEPT ![p].ctx = fork_args]
        /\ UNCHANGED <<next_pid, fork_args>>
    BY SoundIs DEF fork_return_to_user, Sound, Agrees, Moved
  <1>2. /\ Sound(proc') /\ \A c \in Proc \ {p} : proc'[c] = proc[c]
        /\ proc'[p].thread = "READY" /\ proc'[p].at = "user" /\ proc'[p].state = "ALIVE"
    BY <1>1, MoveSound
  <1>3. image[p].space <= fork_args /\ fork_args \in Proc \cup {NULL}
    BY <1>1 DEF IInv, ThreadMatchesProcess, TypeOK, ForksInOrder
  <1> DEFINE i == [image[p] EXCEPT !.ctx = fork_args]
  <1>4. image \in [Proc -> Image] /\ next_pid \in 2..(MaxProc + 1)
    BY DEF IInv, ThreadMatchesProcess, TypeOK, Image
  <1>5. i \in Image /\ i.space = image[p].space /\ i.ctx = fork_args
    BY <1>3, <1>4 DEF Image
  <1>6. image' = [image EXCEPT ![p] = i]
    BY <1>1, <1>4
  <1> HIDE DEF i
  <1>7. image' \in [Proc -> Image] /\ image'[p] = i /\ \A c \in Proc \ {p} : image'[c] = image[c]
    BY <1>4, <1>5, <1>6
  <1>8. ThreadMatchesProcess' /\ JobControlSound'
    BY <1>1, <1>2, <1>3, <1>4, <1>7, SoundGives
  <1>9. StartsNoEarlier'
    BY <1>2, <1>3, <1>5, <1>7 DEF IInv, StartsNoEarlier
  <1>10. ForksInOrder'
    <2>1. 1 \in Proc
      BY ProcessAssumption DEF Proc
    <2> QED
      BY <1>1, <1>2, <1>5, <1>7, <2>1 DEF IInv, ForksInOrder
  <1>11. Buries(proc, proc')
    BY <1>1, <1>2 DEF Buries
  <1> QED
    BY <1>8, <1>9, <1>10, <1>11 DEF IInv

\* sys_fork: the child is added, and then the parent's signals are looked at.
LEMMA ForkStep ==
    ASSUME IInv, NEW p \in Proc, sys_fork(p)
    PROVE  IInv' /\ Buries(proc, proc')
  <1> DEFINE n == next_pid
             r == proc_setup("ALIVE", p, proc[p].pgid, "READY", "born")
             Q == [proc EXCEPT ![n] = r]
  <1>1. /\ Sound(proc) /\ proc \in Table /\ proc[p].thread = "READY" /\ proc[p].state = "ALIVE"
        /\ proc[p].pgid \in Proc
    <2>1. Sound(proc) /\ proc[p].thread = "READY"
      BY SoundIs DEF sys_fork, Running
    <2>2. proc \in Table /\ proc[p] \in PCB /\ Agrees(proc[p])
      BY <2>1 DEF Sound, Table
    <2> QED
      BY <2>1, <2>2 DEF Agrees, PCB
  <1>2. /\ n \in Proc /\ Return(Q, p) /\ fork_args' = n /\ next_pid' = n + 1 /\ image' = image
    BY DEF sys_fork
  <1>3. proc[n].state = "NONE" /\ n # p /\ n \in Nat /\ n >= 2
    BY <1>1, <1>2, ProcessAssumption DEF IInv, ForksInOrder, ThreadMatchesProcess, TypeOK, Proc
  <1>4. r \in PCB /\ Agrees(r) /\ ~Due(r) /\ r.thread = "READY" /\ r.at = "born" /\ r.state = "ALIVE"
    <2>1. [s \in Caught |-> "SIG_DFL"] \in [Caught -> Handler]
      BY DEF Handler
    <2> QED
      BY <1>1, <2>1 DEF proc_setup, PCB, Agrees, Due
  <1> HIDE DEF r
  <1>5. Q \in Table /\ Q[n] = r /\ \A c \in Proc \ {n} : Q[c] = proc[c]
    BY <1>1, <1>2, <1>4 DEF Table
  <1> HIDE DEF Q
  <1>6. Sound(Q) /\ Q[p].thread = "READY"
    BY <1>1, <1>3, <1>4, <1>5 DEF Sound
  <1>7. Sound(proc') /\ Kept(Q, proc')
    <2>1. PICK ok \in BOOLEAN : proc' = sig_maybe_deliver(Q, p, ok)
      BY <1>2 DEF Return
    <2> QED
      BY <1>6, <2>1, DeliverSound
  <1>8. \A c \in Proc :
            /\ proc'[c].at = IF c = n THEN "born" ELSE proc[c].at
            /\ c # n /\ proc[c].state \in {"NONE", "ZOMBIE", "TERMINATED"} =>
                  proc'[c].state = proc[c].state /\ proc'[c].exit_status = proc[c].exit_status
    BY <1>4, <1>5, <1>7 DEF Kept
  <1> HIDE DEF n
  <1>9. ThreadMatchesProcess' /\ JobControlSound'
    <2>1. next_pid' \in 2..(MaxProc + 1) /\ fork_args' \in Proc \cup {NULL} /\ image' \in [Proc -> Image]
      BY <1>2, <1>3, ProcessAssumption DEF IInv, ThreadMatchesProcess, TypeOK, Image, Proc
    <2> QED
      BY <1>7, <2>1, SoundGives
  <1>10. StartsNoEarlier'
    BY <1>2, <1>8 DEF IInv, StartsNoEarlier
  <1>11. ForksInOrder'
    <2>1. n = next_pid /\ 1 \in Proc /\ 1 # n
      BY <1>3, ProcessAssumption DEF n, Proc
    <2>2. \A c \in Proc : c >= next_pid' => proc'[c].state = "NONE"
      BY <1>2, <1>3, <1>8, <2>1 DEF IInv, ForksInOrder, Proc
    <2>3. ASSUME NEW c \in Proc, proc'[c].at = "entered" PROVE image'[c].space <= fork_args'
      <3>1. proc[c].at = "entered" /\ image[c].space <= fork_args
        BY <1>8, <2>3 DEF IInv, ForksInOrder
      <3>2. fork_args \in Nat /\ fork_args <= n /\ image[c].space \in Nat
        BY <1>3, <2>1, ProcessAssumption
           DEF IInv, ForksInOrder, ThreadMatchesProcess, TypeOK, NULL, Proc
      <3> QED
        BY <1>2, <1>3, <3>1, <3>2
    <2>4. fork_args' = IF next_pid' = 2 THEN NULL ELSE next_pid' - 1
      BY <1>2, <1>3
    <2>5. proc'[1].at \in {"user", "wait"}
      BY <1>8, <2>1 DEF IInv, ForksInOrder
    <2> QED
      BY <2>2, <2>3, <2>4, <2>5 DEF ForksInOrder
  <1>12. Buries(proc, proc')
    BY <1>3, <1>8 DEF Buries
  <1> QED
    BY <1>9, <1>10, <1>11, <1>12 DEF IInv

\* What sys_wait does to the child that it has found.
LEMMA ReapSound ==
    ASSUME NEW P, Sound(P), NEW c \in Proc, P[c].state = "ZOMBIE"
    PROVE  LET Q == proc_reap(P, c)
           IN  /\ Sound(Q) /\ Q[c].state = "TERMINATED" /\ Q[c].exit_status = P[c].exit_status
               /\ Q[c].at = P[c].at /\ \A d \in Proc \ {c} : Q[d] = P[d]
  <1> DEFINE r == [P[c] EXCEPT !.state = "TERMINATED"]
             Q == proc_reap(P, c)
  <1>1. P \in Table /\ P[c] \in PCB /\ Agrees(P[c])
    BY DEF Sound, Table
  <1>2. r \in PCB /\ r.state = "TERMINATED" /\ r.exit_status = P[c].exit_status
        /\ r.thread = P[c].thread /\ r.parent = P[c].parent /\ r.at = P[c].at
    BY <1>1 DEF PCB
  <1>3. Q = [P EXCEPT ![c] = r]
    BY <1>1 DEF proc_reap, Table
  <1> HIDE DEF r, Q
  <1>4. Q = [d \in Proc |-> Q[d]] /\ Q[c] = r /\ \A d \in Proc \ {c} : Q[d] = P[d]
    BY <1>1, <1>2, <1>3 DEF Table
  <1>5. \A d \in Proc : Quiet(P[d], Q[d])
    BY <1>1, <1>2, <1>4 DEF Sound, Quiet, Agrees, Due, Table
  <1>6. Sound(Q)
    BY <1>4, <1>5, QuietTable
  <1> QED
    BY <1>2, <1>4, <1>6 DEF Q

LEMMA ReportSound ==
    ASSUME NEW P, Sound(P), NEW c \in Proc, P[c].state = "STOPPED"
    PROVE  LET Q == Reported(P, c)
           IN  /\ Sound(Q) /\ Q[c].state = "STOPPED" /\ Q[c].at = P[c].at
               /\ \A d \in Proc \ {c} : Q[d] = P[d]
  <1> DEFINE r == [P[c] EXCEPT !.exit_status = 0]
             Q == Reported(P, c)
  <1>1. P \in Table /\ P[c] \in PCB /\ Agrees(P[c])
    BY DEF Sound, Table
  <1>2. r \in PCB /\ r.state = "STOPPED" /\ r.exit_status = 0 /\ r.pending = P[c].pending
        /\ r.thread = P[c].thread /\ r.parent = P[c].parent /\ r.at = P[c].at
    BY <1>1 DEF PCB
  <1>3. Q = [P EXCEPT ![c] = r]
    BY <1>1 DEF Reported, Table
  <1> HIDE DEF r, Q
  <1>4. Q = [d \in Proc |-> Q[d]] /\ Q[c] = r /\ \A d \in Proc \ {c} : Q[d] = P[d]
    BY <1>1, <1>2, <1>3 DEF Table
  <1>5. \A d \in Proc : Quiet(P[d], Q[d])
    BY <1>1, <1>2, <1>4 DEF Sound, Quiet, Agrees, Due, Table
  <1>6. Sound(Q)
    BY <1>4, <1>5, QuietTable
  <1> QED
    BY <1>2, <1>4, <1>6 DEF Q

\* sys_wait: a zombie is reaped, a stop reported, nothing found, or the caller sleeps.
LEMMA WaitStep ==
    ASSUME IInv, NEW p \in Proc, NEW nohang \in BOOLEAN, sys_wait(p, nohang)
    PROVE  IInv' /\ Buries(proc, proc')
  <1> DEFINE back == Moved(proc, p, "user")
  <1>1. /\ Sound(proc) /\ proc[p].thread = "READY" /\ proc[p].state = "ALIVE"
        /\ proc[p].at \in {"user", "wait"} /\ UNCHANGED <<next_pid, fork_args, image>>
        /\ NULL \notin Proc
    BY SoundIs DEF sys_wait, Sound, Agrees
  <1>2. /\ Sound(back) /\ \A c \in Proc \ {p} : back[c] = proc[c]
        /\ back[p].thread = "READY" /\ back[p].at = "user" /\ back[p].state = proc[p].state
        /\ back[p].exit_status = proc[p].exit_status
    <2>1. "user" \in {"entered", "user"} /\ Sound(proc) /\ proc[p].thread = "READY"
      BY <1>1
    <2> QED
      BY <2>1, MoveSound
  <1>3. Zombies(p) \in SUBSET Proc /\ Unreported(p) \in SUBSET Proc
    BY DEF Zombies, Unreported, Children
  <1>4. CASE Zombies(p) # {} /\ Return(proc_reap(back, Max(Zombies(p))), p)
    <2> DEFINE c == Max(Zombies(p))
               Q == proc_reap(back, c)
    <2>1. c \in Proc /\ proc[c].state = "ZOMBIE" /\ proc[c].parent = p /\ c # p
      <3>1. c \in Zombies(p)
        BY <1>3, <1>4, MaxIn
      <3> HIDE DEF c
      <3> QED
        BY <1>1, <3>1 DEF Zombies, Children
    <2> HIDE DEF c, back
    <2>2. /\ Sound(Q) /\ Q[c].state = "TERMINATED" /\ Q[c].exit_status = back[c].exit_status
          /\ Q[c].at = back[c].at /\ \A d \in Proc \ {c} : Q[d] = back[d]
      BY <1>2, <2>1, ReapSound
    <2>3. Return(Q, p)
      BY <1>4 DEF c
    <2> HIDE DEF Q
    <2>4. Fine(proc, Q) /\ Q[p].thread = "READY"
      BY <1>1, <1>2, <2>1, <2>2 DEF Fine, Moves, Buries
    <2> QED
      BY <1>1, <2>3, <2>4, ReturnStep
  <1>5. CASE Unreported(p) # {} /\ Return(Reported(back, Max(Unreported(p))), p)
    <2> DEFINE c == Max(Unreported(p))
               Q == Reported(back, c)
    <2>1. c \in Proc /\ proc[c].state = "STOPPED" /\ c # p
      <3>1. c \in Unreported(p)
        BY <1>3, <1>5, MaxIn
      <3> HIDE DEF c
      <3> QED
        BY <1>1, <3>1 DEF Unreported, Children
    <2> HIDE DEF c, back
    <2>2. /\ Sound(Q) /\ Q[c].state = "STOPPED" /\ Q[c].at = back[c].at
          /\ \A d \in Proc \ {c} : Q[d] = back[d]
      BY <1>2, <2>1, ReportSound
    <2>3. Return(Q, p)
      BY <1>5 DEF c
    <2> HIDE DEF Q
    <2>4. Fine(proc, Q) /\ Q[p].thread = "READY"
      BY <1>1, <1>2, <2>1, <2>2 DEF Fine, Moves, Buries
    <2> QED
      BY <1>1, <2>3, <2>4, ReturnStep
  <1>6. CASE Return(back, p)
    <2> HIDE DEF back
    <2>1. Fine(proc, back)
      BY <1>1, <1>2 DEF Fine, Moves, Buries
    <2> QED
      BY <1>1, <1>2, <1>6, <2>1, ReturnStep
  <1>7. CASE /\ Zombies(p) = {} /\ Unreported(p) = {}
             /\ proc' = [proc EXCEPT ![p].at = "wait", ![p].thread = "BLOCKED"]
    <2> DEFINE r == [proc[p] EXCEPT !.at = "wait", !.thread = "BLOCKED"]
    <2>1. proc \in Table /\ proc[p] \in PCB /\ Agrees(proc[p])
      BY <1>1 DEF Sound, Table
    <2>2. /\ r \in PCB /\ r.at = "wait" /\ r.thread = "BLOCKED" /\ r.state = "ALIVE"
          /\ r.exit_status = proc[p].exit_status /\ r.parent = proc[p].parent
      BY <1>1, <2>1 DEF PCB
    <2>3. proc' = [proc EXCEPT ![p] = r]
      BY <1>7, <2>1 DEF Table
    <2> HIDE DEF r
    <2>4. proc' \in Table /\ proc'[p] = r /\ \A c \in Proc \ {p} : proc'[c] = proc[c]
      BY <2>1, <2>2, <2>3 DEF Table
    <2>5. \A c \in Proc : proc[c].parent = p => ~Due(proc[c])
      BY <1>7 DEF Zombies, Unreported, Children, Due
    <2>6. \A c \in Proc : Agrees(proc'[c]) /\ proc'[c].parent = proc[c].parent /\ (Due(proc'[c]) => Due(proc[c]))
      BY <1>1, <2>2, <2>4 DEF Sound, Agrees, Due
    <2>7. Sound(proc')
      BY <1>1, <2>4, <2>5, <2>6 DEF Sound
    <2>8. Moves(proc, proc') /\ Buries(proc, proc')
      BY <1>1, <2>2, <2>4 DEF Moves, Buries
    <2> QED
      BY <1>1, <2>7, <2>8, TableStep
  <1> QED
    BY <1>4, <1>5, <1>6, <1>7 DEF sys_wait, Moved

----------------------------------------------------------------------------
(* Theorems                                                                *)

\* init_launch's process 1 satisfies the invariant.
LEMMA InitInv == Init => IInv
  <1> SUFFICES ASSUME Init PROVE IInv
    OBVIOUS
  <1> DEFINE a == proc_setup("ALIVE", NULL, 1, "READY", "user")
             b(p) == proc_setup("NONE", NULL, p, "NONE", "born")
  <1>1. 1 \in Proc /\ next_pid = 2 /\ fork_args = NULL /\ next_pid \in 2..(MaxProc + 1)
    BY ProcessAssumption DEF Init, Proc
  <1>2. [s \in Caught |-> "SIG_DFL"] \in [Caught -> Handler]
    BY DEF Handler
  <1>3. a \in PCB /\ Agrees(a) /\ ~Due(a) /\ a.thread = "READY" /\ a.state = "ALIVE" /\ a.at = "user"
    BY <1>1, <1>2 DEF proc_setup, PCB, Agrees, Due
  <1>4. ASSUME NEW p \in Proc
        PROVE  /\ b(p) \in PCB /\ Agrees(b(p)) /\ ~Due(b(p))
               /\ b(p).thread = "NONE" /\ b(p).state = "NONE" /\ b(p).at = "born"
    BY <1>2 DEF proc_setup, PCB, Agrees, Due
  <1>5. proc = [p \in Proc |-> IF p = 1 THEN a ELSE b(p)]
    BY DEF Init
  <1> HIDE DEF a, b
  <1>6. Sound(proc)
    BY <1>3, <1>4, <1>5 DEF Sound, Table
  <1>7. /\ image = [p \in Proc |-> [space |-> p, ctx |-> p]] /\ image \in [Proc -> Image]
        /\ \A p \in Proc : image[p].space = p /\ image[p].ctx = p
    BY DEF Init, Image
  <1>8. ThreadMatchesProcess
    BY <1>1, <1>6, <1>7 DEF ThreadMatchesProcess, TypeOK, Sound, Agrees, Table, Image
  <1>9. JobControlSound
    BY <1>6 DEF JobControlSound, NoContinuePending, NoMissedChild, Reportable, Unreported,
                Zombies, Children, Sound, Agrees, Due
  <1>10. StartsNoEarlier
    <2>1. \A p \in Proc : p <= p
      BY DEF Proc
    <2>2. \A p \in Proc : image[p].space = p /\ image[p].ctx = p
      BY <1>7
    <2> QED
      BY <2>1, <2>2 DEF StartsNoEarlier
  <1>11. ForksInOrder
    BY <1>1, <1>3, <1>4, <1>5 DEF ForksInOrder, Proc
  <1> QED
    BY <1>8, <1>9, <1>10, <1>11 DEF IInv

\* Every step keeps the invariant, and buries no zombie but its own child.
LEMMA StepInv == ASSUME IInv, Next PROVE IInv' /\ Buries(proc, proc')
  <1>1. ASSUME NEW p \in Proc, sys_fork(p) PROVE IInv' /\ Buries(proc, proc')
    BY <1>1, ForkStep
  <1>2. ASSUME NEW p \in Proc, fork_child_entry(p) PROVE IInv' /\ Buries(proc, proc')
    BY <1>2, EntryStep
  <1>3. ASSUME NEW p \in Proc, fork_return_to_user(p) PROVE IInv' /\ Buries(proc, proc')
    BY <1>3, StartStep
  <1>4. ASSUME NEW p \in Proc, sys_other(p) PROVE IInv' /\ Buries(proc, proc')
    <2>1. Sound(proc) /\ proc[p].thread = "READY"
      BY <1>4, SoundIs DEF sys_other, Running
    <2> QED
      BY <1>4, <2>1, SameFine, ReturnStep DEF sys_other
  <1>5. ASSUME NEW p \in Proc, NEW n \in BOOLEAN, sys_wait(p, n) PROVE IInv' /\ Buries(proc, proc')
    BY <1>5, WaitStep
  <1>6. ASSUME NEW p \in Proc, NEW x \in Status, sys_exit(p, x) PROVE IInv' /\ Buries(proc, proc')
    BY <1>6, ExitStep
  <1>7. ASSUME NEW p \in Proc, NEW q \in Proc, NEW s \in Sig, sys_kill(p, q, s) \/ sys_kill_group(p, q, s)
        PROVE  IInv' /\ Buries(proc, proc')
    BY <1>7, KillStep
  <1>8. ASSUME NEW p \in Proc, NEW q \in Proc, NEW g \in Group, sys_setpgid(p, q, g)
        PROVE  IInv' /\ Buries(proc, proc')
    BY <1>8, SetpgidStep
  <1>9. ASSUME NEW p \in Proc, NEW s \in Caught, NEW h \in Handler, sys_signal(p, s, h)
        PROVE  IInv' /\ Buries(proc, proc')
    BY <1>9, SignalStep
  <1>10. ASSUME NEW g \in Proc, NEW s \in Sig, tty_signal(g, s) PROVE IInv' /\ Buries(proc, proc')
    BY <1>10, TtyStep
  <1> QED
    BY <1>1, <1>2, <1>3, <1>4, <1>5, <1>6, <1>7, <1>8, <1>9, <1>10 DEF Next

\* The inductive invariant holds of any number of processes.
THEOREM Invariance == Spec => []IInv
  <1>1. IInv /\ UNCHANGED vars => IInv'
    <2> SUFFICES ASSUME IInv, UNCHANGED vars PROVE IInv'
      OBVIOUS
    <2>1. Sound(proc') /\ Moves(proc, proc')
      BY SoundIs DEF vars, Moves
    <2> QED
      BY <2>1, TableStep DEF vars
  <1> QED
    BY InitInv, StepInv, <1>1, PTL DEF Spec

\* Whatever order stops, continues, exits and reaps come in, process and thread
\* states agree: no dead process is scheduled.
THEOREM ThreadStates == Spec => []ThreadMatchesProcess
  BY Invariance, PTL DEF IInv

\* No stopped process has SIGCONT pending (sig_send and sig_maybe_deliver), and no
\* parent asleep in sys_wait has missed a child that exited or stopped.
THEOREM JobControl == Spec => []JobControlSound
  BY Invariance, PTL DEF IInv

\* A child of fork starts from its own or a later fork's g_fork_child_args.
THEOREM ForkOrder == Spec => []StartsNoEarlier
  BY Invariance, PTL DEF IInv

\* A zombie keeps its exit status until its live parent reaps it (proc_reap in
\* sys_wait), and a reaped process stays reaped.
THEOREM ZombieStatus == Spec => ZombieKept
  <1>1. IInv /\ [Next]_vars => [\A p \in Proc : KeepsZombie(p)]_vars
    BY StepInv DEF Buries, KeepsZombie
  <1> QED
    BY <1>1, Invariance, PTL DEF Spec, ZombieKept
============================================================================
