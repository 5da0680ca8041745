--------------------------------- MODULE Parser ---------------------------------
(***************************************************************************)
(* The native wire format and its parser, src/feed/parser.cpp: a message   *)
(* is refused when its payload is too short for its type or when a field   *)
(* cannot be meant.  It has no state and looks at one message alone.       *)
(*                                                                         *)
(* A raw message is a record of its type, its payload's length and the     *)
(* fields read from the payload; a field its type does not have is never   *)
(* read.                                                                   *)
(***************************************************************************)
EXTENDS Types

WireSize == [AddOrder |-> 37, ModifyOrder |-> 36, CancelOrder |-> 32, Trade |-> 37, Clear |-> 20]
MsgTypes == DOMAIN WireSize

\* mutant: a modify to quantity 0 passes
AcceptsEmptyModify(raw) ==
  /\ raw.type \in MsgTypes
  /\ raw.length >= WireSize[raw.type]
  /\ raw.type = "AddOrder" => raw.qty # 0 /\ raw.price # 0 /\ raw.side \in Sides
  /\ raw.type = "Trade" => raw.qty # 0

\* A modify's price, and a trade's price and side, are not looked at.
Accepts(raw) ==
  /\ raw.type \in MsgTypes
  /\ raw.length >= WireSize[raw.type]
  /\ raw.type = "AddOrder" => raw.qty # 0 /\ raw.price # 0 /\ raw.side \in Sides
  /\ raw.type \in {"ModifyOrder", "Trade"} => raw.qty # 0

\* the message, or None for a ParseError
Parse(raw) == IF Accepts(raw) THEN {raw} ELSE None
=============================================================================
