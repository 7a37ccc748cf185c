---------------------------- MODULE MCWatchGuard ----------------------------
(* WatchGuard for TLC: the constants are numbers, given in each .cfg.      *)
EXTENDS WatchGuard
=============================================================================
