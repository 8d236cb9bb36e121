---------------------------- MODULE MCTerminal ----------------------------
(***************************************************************************)
(* Two readers, a screen of two rows and three columns, a ring of four     *)
(* characters that a second line overflows.                                *)
(***************************************************************************)
EXTENDS Terminal

MCKeys == {"SHIFT", "-SHIFT", "CTRL", "-CTRL", "ALT", "-ALT", "CAPS",
           "c", "z", "NL", "BS", "ESC", "F1", "F2"}
MCOutputs == {<<"ESC", "[", "1", ";", ";">>, <<"3", "H", "w">>, <<"w", "TAB", "w">>,
              <<"ESC", "[", "2", "J", "ESC", "[", "C">>,
              <<"ESC", "[", "1", ";", "3", "1", "m", "ESC", "[", "K">>}
MCMaxOps == [modifier |-> 2, key |-> 5, read |-> 2, write |-> 1]
=============================================================================
