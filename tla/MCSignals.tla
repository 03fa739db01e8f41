----------------------------- MODULE MCSignals -----------------------------
(***************************************************************************)
(* Two threads, the names a configuration gives them.                      *)
(***************************************************************************)
EXTENDS Signals, TLC

CONSTANTS t1, t2
=============================================================================
