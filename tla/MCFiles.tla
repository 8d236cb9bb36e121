------------------------------- MODULE MCFiles -------------------------------
(***************************************************************************)
(* Two processes, a handful of nodes and one path of each kind.            *)
(***************************************************************************)
EXTENDS Files

From(abs, comps) == [abs |-> abs, comps |-> comps]
MCInputs ==
    {From(TRUE, <<"a", "b">>), From(FALSE, <<"..", "c">>), From(TRUE, <<"dev">>),
     From(TRUE, <<"proc", "2", "status">>)}
ToAppend == [acc |-> "w", creat |-> TRUE, trunc |-> FALSE, append |-> TRUE]
Update == [acc |-> "rw", creat |-> TRUE, trunc |-> TRUE, append |-> FALSE]
MCOpens ==
    {[input |-> From(TRUE, <<"a", "b">>), flags |-> ToAppend],
     [input |-> From(FALSE, <<".", "c">>), flags |-> Update],
     [input |-> From(TRUE, <<"proc", "1", "status">>), flags |-> NoFlags],
     [input |-> From(TRUE, <<"dev", "zero">>), flags |-> NoFlags]}
MCPidName == <<"1", "2", "3">>
MCMaxOps == [file |-> 3, path |-> 2, process |-> 3]
MCModes == {Mode0755 \cup {<<"s", "u">>}}
=============================================================================
