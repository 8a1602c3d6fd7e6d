--------------------------- MODULE MCFlagHistory ----------------------------
(***************************************************************************)
(* An instance of FlagHistory for TLC.  The one byte written is the zero   *)
(* that reset leaves in the register: which byte is sent does not matter   *)
(* here, but that a transmission is under way does, because the writes     *)
(* made meanwhile are ignored.                                             *)
(***************************************************************************)
EXTENDS FlagHistory

MCBytes == {Zeros}
=============================================================================
