--------------------------- MODULE MCFileTransfer ---------------------------
(* Instances of FileTransfer for TLC. *)
EXTENDS FileTransfer, TLC

CONSTANTS p1, p2

\* A chunk and a shorter one; a file of exactly one chunk.
MCFileSize == p1 :> 3 @@ p2 :> 2
OneSize == p1 :> 3

OwnNames == p1 :> "a" @@ p2 :> "b"
OneName == p1 :> "a"
=============================================================================
