------------------------------ MODULE MCServer ------------------------------
(***************************************************************************)
(* Instances of Server for TLC.                                            *)
(***************************************************************************)
EXTENDS Server

CONSTANTS MaxGlobal, MaxAuth, WindowGlobal, WindowAuth

Limiters == {"global", "auth"}

MCMax == [l \in Limiters |-> IF l = "auth" THEN MaxAuth ELSE MaxGlobal]

MCWindow == [l \in Limiters |-> IF l = "auth" THEN WindowAuth ELSE WindowGlobal]

=============================================================================
