------------------------ MODULE MCProtocolSessions ------------------------
(* Small instances of ProtocolSessions for TLC. *)
EXTENDS ProtocolSessions
=============================================================================
