------------------------------ MODULE MCFat32 ------------------------------
(***************************************************************************)
(* Five clusters of two cells, a file in the root and one in a directory,  *)
(* names in small and capital letters and with an extension.              *)
(***************************************************************************)
EXTENDS FatVolume

a == <<"a">>
d == <<"d">>
MCPaths == {<<<<"A">>>>, <<<<"a", ".", "d">>>>, <<d, a>>}
MCDirs == {<<d>>}
=============================================================================
