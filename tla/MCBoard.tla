-------------------------------- MODULE MCBoard ------------------------------
(* Board for TLC: a tick of 50 ms with every duration rounded up, which keeps *)
(* PollTime < ResetDelay < EraseTime < CryptoTime < Period as on the board.   *)
EXTENDS Board
==============================================================================
