------------------------------ MODULE MCOrderBook ------------------------------
(***************************************************************************)
(* OrderBook with its two ladders for TLC: a few order ids, id 0 among     *)
(* them, and few prices and quantities.  U32 is the number of uint32_t     *)
(* values: at 4 a level's quantity wraps after two orders.                 *)
(***************************************************************************)
EXTENDS LadderBook
=============================================================================
