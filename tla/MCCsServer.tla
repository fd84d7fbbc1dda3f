------------------------------ MODULE MCCsServer ------------------------------
(* Constants for TLC.  One id is printable, "GK_CLIENT_ID_TOK" of the         *)
(* integration client and of the documents, and its bytes which are printed in *)
(* another order than they lie differ.                                         *)
EXTENDS CsServer, TLC

MCZeroId == [i \in 0..15 |-> 0]
MCTokenId ==
    LET bytes == <<71, 75, 95, 67, 76, 73, 69, 78, 84, 95, 73, 68, 95, 84, 79, 75>>
    IN  [i \in 0..15 |-> bytes[i + 1]]
MCIds == {MCZeroId, MCTokenId}
===============================================================================
