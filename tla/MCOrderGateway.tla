----------------------------- MODULE MCOrderGateway -----------------------------
(***************************************************************************)
(* OrderGateway for TLC: four prices and a fifth order large enough to     *)
(* sweep them all, which is one fill more than a call can report; cancels  *)
(* of any id handed out or not yet.                                        *)
(***************************************************************************)
EXTENDS OrderGateway
=============================================================================
