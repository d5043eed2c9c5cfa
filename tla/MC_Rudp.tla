------------------------------ MODULE MC_Rudp ------------------------------
(* Values of the constants of Rudp for TLC.                                  *)
EXTENDS Rudp

CONSTANTS h1, h2

MCHost == {h1, h2}
=============================================================================
