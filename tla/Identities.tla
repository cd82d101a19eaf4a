----------------------------- MODULE Identities -----------------------------
(***************************************************************************)
(* What requests run as, for the modules of one server process: a paired   *)
(* device, or a password session.                                          *)
(***************************************************************************)
EXTENDS Common

CONSTANTS
    Devices,       \* device ids; each is paired at most once (64 random bits)
    Sessions       \* password sessions; each signs in at most once
=============================================================================
