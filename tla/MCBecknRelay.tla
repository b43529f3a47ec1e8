---------------------------- MODULE MCBecknRelay ----------------------------
(* Small instances of BecknRelay for TLC. *)
EXTENDS BecknRelay
=============================================================================
