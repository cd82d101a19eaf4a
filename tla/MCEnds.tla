------------------------------- MODULE MCEnds -------------------------------
(* Small instances of what ends what a device or a session holds in one     *)
(* server process: the streams of the server's hub and a linked one; the    *)
(* time limits and subscriptions of devices; the codes devices and a        *)
(* session made.                                                            *)
(* They share no state here: a behaviour is of one part, and the others     *)
(* stay as they begin.                                                      *)
EXTENDS StreamHub, DeviceAuth, TLC

CONSTANTS s1, s2, s3, f, w

VARIABLE part     \* the part of the behaviour

\* A full device, a request of it with a stream token a view-only client asked
\* for, and a browser beside it.
Mixed == {[role |-> "full", device |-> f, session |-> None],
          [role |-> "view", device |-> f, session |-> None],
          [role |-> "full", device |-> None, session |-> w]}

\* Two streams fit in the server's hub, one in the linked one.
TwoAndOne == [x \in Hubs |-> IF x = Main THEN 2 ELSE 1]

Parts == {"streams", "limits", "pushes", "codes"}

EndsInit == part \in Parts /\ HubInit /\ Init

\* The bounds of a step of the hubs: requests are alike, so they come in one
\* order, three of them where one hub is used and goes on, else two; and one
\* of the two identities ends.
HubBounds ==
    /\ pc[s1] = "idle" => pc'[s2] = "idle"
    /\ pc[s2] = "idle" => pc'[s3] = "idle"
    /\ shut'[Main] # "no" \/ (\E s \in Streams : hubOf'[s] # Main) => pc'[s3] = "idle"
    /\ gone' \subseteq {f, w} /\ Cardinality(gone') <= 1

\* The device with the streams is not paired: the others are alike.
OthersPair == f \notin used'

NoSubscriber == \A x \in Routines : job'[x].step # "subscribing"
NoSession == \A x \in Sessions : session'[x] = "new"

\* Subscriptions of devices with a shorter limit, and codes with none.
Short == INSTANCE DeviceAuth WITH Limits <- {1}, MaxTime <- 1
Unlimited == INSTANCE DeviceAuth WITH Limits <- {0}, MaxTime <- 0

EndsNext ==
    /\ UNCHANGED part
    /\ \/ part = "streams" /\ HubNext /\ HubBounds /\ UNCHANGED vars
       \/ part = "limits" /\ Next /\ OthersPair /\ NoSubscriber /\ NoSession /\ UNCHANGED hubVars
       \/ part = "pushes" /\ Short!Next /\ OthersPair /\ NoSession /\ UNCHANGED hubVars
       \/ part = "codes" /\ Unlimited!Next /\ OthersPair /\ NoSubscriber /\ UNCHANGED hubVars

EndsSpec == EndsInit /\ [][EndsNext]_<<part, hubVars, vars>>

Symm == Permutations(Devices \ {f}) \cup Permutations(Routines)
=============================================================================
