--------------------------- MODULE MCAuthSessions ---------------------------
(* Instances of the session model for TLC.                                 *)
EXTENDS AuthSessions, TLC

=============================================================================
