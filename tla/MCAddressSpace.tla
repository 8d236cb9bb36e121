--------------------------- MODULE MCAddressSpace ---------------------------
(***************************************************************************)
(* A machine of a few dozen frames: room for two processes, and for a      *)
(* third or for an exec beside the second only sometimes, so that every    *)
(* allocation of fork, exec, brk and heap growth fails in some behaviour.  *)
(***************************************************************************)
EXTENDS AddressSpace

CONSTANT Frames

MCMemoryMap ==
    <<[base |-> 0, length |-> 600, usable |-> TRUE],
      [base |-> 600, length |-> 500, usable |-> FALSE],
      [base |-> 1100, length |-> Frames * PAGE_SIZE - 1100, usable |-> TRUE]>>

Text == [vaddr |-> 256, memsz |-> 100, filesz |-> 100, w |-> FALSE, x |-> TRUE, inFile |-> TRUE]
Data == [vaddr |-> 612, memsz |-> 250, filesz |-> 100, w |-> TRUE, x |-> FALSE, inFile |-> TRUE]
Image(tag, segs) == [tag |-> tag, valid |-> TRUE, size |-> 200, segs |-> segs]
MCImages ==
    {Image(1, <<Text, Data>>),
     Image(2, <<Text, [Data EXCEPT !.inFile = FALSE]>>)}

MCArgvs == {<<200, 56>>}
=============================================================================
