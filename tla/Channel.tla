------------------------------ MODULE Channel ------------------------------
(***************************************************************************)
(* What a pipe promises its users: a bounded first-in first-out channel.   *)
(* Bytes written are appended, bytes read are taken from the front, in     *)
(* pieces of any length, and nothing else changes what is in between while *)
(* the channel is open.                                                    *)
(***************************************************************************)
EXTENDS Naturals, Sequences

CONSTANTS Byte, Capacity

VARIABLES
    chan, open,
    moved    \* what the last step took from a writer or gave to a reader

Init == chan = <<>> /\ ~open /\ moved = [by |-> "none", bytes |-> <<>>]

Write ==
    /\ open /\ open'
    /\ moved'.by = "writer"
    /\ chan' = chan \o moved'.bytes
    /\ Len(chan') <= Capacity

Read ==
    /\ open /\ open'
    /\ moved'.by = "reader" /\ moved'.bytes # <<>>
    /\ chan = moved'.bytes \o chan'

\* Opening, closing both ends (what was not read is gone), or nothing of note.
Other ==
    /\ moved' = [by |-> "none", bytes |-> <<>>]
    /\ chan' = IF open' THEN chan ELSE <<>>

Spec == Init /\ [][Write \/ Read \/ Other]_<<chan, open, moved>>
============================================================================
