----------------------------- MODULE FileStore -----------------------------
(***************************************************************************)
(* What a file promises: the bytes it was given, zero where nothing was    *)
(* written, whatever its buffer held before and however it was moved.      *)
(***************************************************************************)
EXTENDS Integers, Sequences

CONSTANTS FileId, Byte, MaxSize

VARIABLE file       \* file[n] is the contents of n, <<>> when there is no n

StoreInit == file \in [FileId -> Seq(Byte)]

\* Bytes written at off, after zeros when off is past the end.
Overlay(old, off, bytes) ==
    [i \in 1 .. IF off + Len(bytes) > Len(old) THEN off + Len(bytes) ELSE Len(old) |->
        IF off < i /\ i <= off + Len(bytes) THEN bytes[i - off]
        ELSE IF i <= Len(old) THEN old[i]
        ELSE 0]

WriteTo(n) ==
    \E off \in 0 .. MaxSize, b \in Byte :
        file' = [file EXCEPT ![n] = Overlay(@, off, <<b, b>>)]

Clear(n) == file' = [file EXCEPT ![n] = <<>>]

StoreNext == \E n \in FileId : file'[n] # file[n] /\ (WriteTo(n) \/ Clear(n))

StoreSpec == StoreInit /\ [][StoreNext]_file
=============================================================================
