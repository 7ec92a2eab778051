------------------------------- MODULE MCClient ------------------------------
(* Client for TLC: the client's record and one other, which differs in its    *)
(* public key; two box keys, so that a retry is boxed under another one.      *)
EXTENDS Client
==============================================================================
