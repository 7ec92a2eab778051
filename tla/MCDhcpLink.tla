------------------------------ MODULE MCDhcpLink -----------------------------
(* DhcpLink for TLC: two hosts and a stranger for two addresses, so that the  *)
(* pool runs out, and a clock that wraps within a lease.                      *)
EXTENDS DhcpLink
==============================================================================
