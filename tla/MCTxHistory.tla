---------------------------- MODULE MCTxHistory -----------------------------
(***************************************************************************)
(* An instance of TxHistory for TLC.  Two bytes are written, so that one   *)
(* taking the other's place shows, besides the zero one that reset leaves  *)
(* in the register.  The first bit of both is set, and only the first of   *)
(* one: the order of the bits shows on the line.                           *)
(***************************************************************************)
EXTENDS TxHistory

MCBytes == {b \in Byte : b[0] = 1}
=============================================================================
