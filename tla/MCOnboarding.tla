--------------------------- MODULE MCOnboarding ---------------------------
(* A small instance of Onboarding for TLC.                                 *)
EXTENDS Onboarding
CONSTANTS p1, p2, p3, k1, t1, t2, z1, z2
=============================================================================
