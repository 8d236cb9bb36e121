------------------------------- MODULE MCNet -------------------------------
(***************************************************************************)
(* Two processes that share a descriptor, a table of three sockets, rings  *)
(* of four bytes, a backlog of two, and six starting points, each with     *)
(* its own number of calls, frames and faults.                             *)
(***************************************************************************)
EXTENDS Net

MCMaxOps ==
    [fresh |-> [setup |-> 2, call |-> 1, arp |-> 2, peer |-> 0, fault |-> 0],
     server |-> [setup |-> 0, call |-> 2, arp |-> 0, peer |-> 3, fault |-> 1],
     anyaddr |-> [setup |-> 0, call |-> 1, arp |-> 0, peer |-> 1, fault |-> 2],
     busy |-> [setup |-> 2, call |-> 1, arp |-> 0, peer |-> 1, fault |-> 0],
     client |-> [setup |-> 0, call |-> 2, arp |-> 0, peer |-> 2, fault |-> 1],
     udp |-> [setup |-> 0, call |-> 2, arp |-> 0, peer |-> 3, fault |-> 1]]
=============================================================================
