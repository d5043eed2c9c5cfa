------------------------------ MODULE MC_Servent ------------------------------
(* Values of the constants of Servent for TLC.                               *)
EXTENDS Servent

\* "client" is the side of the Gateway6 Client, "gui" that of its GUI.
MCSide == {"client", "gui"}
===============================================================================
