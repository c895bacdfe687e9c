----------------------------- MODULE MCLockout -----------------------------
(* Lockout for TLC: the instance is in its configuration.                   *)
EXTENDS Lockout
=============================================================================
