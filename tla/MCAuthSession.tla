---------------------------- MODULE MCAuthSession ----------------------------
(* Model values for AuthSession.                                             *)
EXTENDS AuthSessionProps, TLC
=============================================================================
