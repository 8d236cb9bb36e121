------------------------------ MODULE MCVirtio ------------------------------
(***************************************************************************)
(* Loads for the two drivers: transfers, some with memory short, sends and *)
(* frames, and a little of each.                                           *)
(***************************************************************************)
EXTENDS Virtio

Load(blk, tx, nframes, nothers) == [blk |-> blk, tx |-> tx, frames |-> nframes, others |-> nothers]
MCLoads == {Load(3, 0, 0, 1), Load(1, 1, 0, 3), Load(0, 2, 3, 0), Load(1, 1, 1, 0)}
=============================================================================
