------------------------------ MODULE MC_CommMgr ------------------------------
(* CommMgr for TLC: the constants are given in the configuration.            *)
EXTENDS CommMgr
===============================================================================
