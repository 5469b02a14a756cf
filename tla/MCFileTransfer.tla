--------------------------- MODULE MCFileTransfer ---------------------------
(* Instances of FileTransfer for model checking.                           *)
EXTENDS FileTransfer, TLC

(* "a b" and "ab" are both received as "ab"; an older and longer "ab" is   *)
(* there already.                                                          *)
SameName == <<"ab", "ab">>
ThreeAndTwo == <<3, 2>>
OldAb == "ab" :> 4
=============================================================================
