------------------------------ MODULE MCVault ------------------------------
(* A small instance of Vault for TLC.                                      *)
EXTENDS Vault
CONSTANTS s1, s2, w1, w2, c1
=============================================================================
