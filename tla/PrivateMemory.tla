--------------------------- MODULE PrivateMemory ---------------------------
(***************************************************************************)
(* What address spaces promise: every process has a memory of its own.     *)
(* Only the process that runs changes it: nothing another process does,    *)
(* no switch and no call that fails.                                       *)
(***************************************************************************)
EXTENDS Integers, TLC

CONSTANTS Proc,        \* processes
          Programs,    \* the memories a new program can start with
          Grown,       \* pages that brk can add
          Written      \* what a program writes

VARIABLES memory,      \* memory[p][v] is what p reads at page v
          runs         \* the process that has the CPU, 0 for none

None == [v \in {} |-> 0]

PrivateInit == memory = [p \in Proc |-> None] /\ runs = 0

Store(p) ==
    \E v \in DOMAIN memory[p] :
        memory' = [memory EXCEPT ![p] = [@ EXCEPT ![v] = Written]]

Start(p) == \E f \in Programs : memory' = [memory EXCEPT ![p] = f]

Grow(p) ==
    /\ memory[p] # None
    /\ \E first, last \in Grown :
          memory' = [memory EXCEPT ![p] = [v \in first .. last |-> 0] @@ @]

Copy(p) ==
    \E q \in Proc : memory[p] # None /\ memory[q] = None /\ memory' = [memory EXCEPT ![q] = memory[p]]

End(p) == memory' = [memory EXCEPT ![p] = None] /\ runs' # p

First(p) == runs = 0 /\ runs' = p /\ memory[p] = None /\ Start(p)
Switch(p) == runs' = p /\ UNCHANGED memory

PrivateNext ==
    \/ \E p \in Proc : First(p)
    \/ \E p \in Proc \cup {0} : Switch(p)
    \/ \E p \in Proc : runs = p /\ (End(p) \/ (runs' = p /\ (Store(p) \/ Start(p) \/ Grow(p) \/ Copy(p))))

PrivateSpec == PrivateInit /\ [][PrivateNext]_<<memory, runs>>
=============================================================================
