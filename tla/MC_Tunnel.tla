------------------------------ MODULE MC_Tunnel ------------------------------
(* Values of the constants of Tunnel for TLC.                                *)
EXTENDS Tunnel

MCTypes == {"V6UDPV4", "V6V4", "V4V6"}
=============================================================================
