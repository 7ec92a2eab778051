------------------------------ MODULE MCHttpConn -----------------------------
(* HttpConn for TLC: two clients compete for one slot, bodies go up to one    *)
(* unit over the limit, and the buffer is one token too small for the largest *)
(* request with bytes behind it.                                              *)
EXTENDS HttpConn
==============================================================================
