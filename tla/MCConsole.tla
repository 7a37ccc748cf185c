----------------------------- MODULE MCConsole ------------------------------
(* Console for TLC: flows are model values, given in each .cfg.            *)
EXTENDS Console
=============================================================================
