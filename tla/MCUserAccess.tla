---------------------------- MODULE MCUserAccess ----------------------------
(* A window of five bytes at address 3; registers range over 0 .. 9.        *)
EXTENDS UserAccess
=============================================================================
