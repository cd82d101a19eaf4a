---------------------------- MODULE MCStreamHub ----------------------------
(* A small instance of StreamHub: one stream of a password session and one  *)
(* of a view-only device, on one hub with one place.                        *)
EXTENDS StreamHub, TLC

CONSTANTS v, p

PlainClients == {[role |-> "full", device |-> None, session |-> p],
                 [role |-> "view", device |-> v, session |-> None]}
OnePlace == [h \in Hubs |-> 1]
=============================================================================
