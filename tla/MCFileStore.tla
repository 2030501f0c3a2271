---------------------------- MODULE MCFileStore -----------------------------
(* FileStore with files of up to two bytes, for TLC. *)
EXTENDS FileStore, TLC

CONSTANTS a, b

MCByte == {a, b}
MCContents == {<<>>, <<a>>, <<a, b>>}
=============================================================================
