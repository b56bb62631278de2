------------------------------ MODULE MCIosPump ------------------------------
(* IosPump on a small instance: a queue of two, batches of two, a buffer that *)
(* holds one long packet or two short ones, and packets no buffer can take.   *)
EXTENDS IosPump
=============================================================================
