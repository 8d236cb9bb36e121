------------------------------ MODULE MCPipe ------------------------------
(* Small instances of Pipe for TLC.                                        *)
EXTENDS Pipe, TLC

\* A byte, and two that can be told apart: enough to see bytes lost, repeated
\* or out of order in a ring of two.
SmallPayload == {<<0>>, <<1, 0>>}

\* One byte more than the ring holds.
BigPayload == {<<0, 0, 0>>}

\* The processes that only write are interchangeable.
Writers == Permutations(Proc \ (Reader \union {First}))
============================================================================
