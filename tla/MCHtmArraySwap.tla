--------------------------- MODULE MCHtmArraySwap ---------------------------
(* Small instances of HtmArraySwap for TLC: three rows r0, r1, r2. *)
EXTENDS HtmArraySwap

CONSTANTS r0, r1, r2

MCInitMem == [a \in Addr |-> a]
MCPairs == {<<r0, r1>>, <<r1, r2>>}
=============================================================================
