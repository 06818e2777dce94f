--------------------------- MODULE MCControlPlane ---------------------------
(* ControlPlane on a small instance for TLC: one product of one client.    *)
EXTENDS ControlPlane

=============================================================================
