---------------------------- MODULE MCSbeStream ----------------------------
(***************************************************************************)
(* Small instances of SbeStream.                                           *)
(***************************************************************************)
EXTENDS SbeStream

NoNumber == -1

(* One message of every block length.                                      *)
BlockLengths == {CancelRequest, TimedResult, UpdateQtyRequest, FillInfo}
=============================================================================
