--------------------------- MODULE DeviceRegistry ---------------------------
(***************************************************************************)
(* What the paired devices promise whoever asks (server/device_store.go):  *)
(* one set of devices, changed one whole operation at a time.  Each device *)
(* is paired once, under the creator its record names; when that is a      *)
(* device, it is paired itself, under the same password, at the very step  *)
(* that pairs the new one.  No password has more than its limit.  A device *)
(* that left never comes back.  Whether a session that pairs is still      *)
(* signed in is kept in a process's memory and not in the registry.        *)
(* DeviceStore shows how the processes that share devices.json keep this.  *)
(***************************************************************************)
EXTENDS Naturals, FiniteSets

CONSTANTS Devices, Creators, Gens, None, MaxDevices

VARIABLES
    paired,    \* the devices that may sign in
    by, gen    \* [Devices -> who paired it, under which password, or None:
               \* never paired]: kept of a device that left

Init ==
    /\ paired = {}
    /\ by = [d \in Devices |-> None]
    /\ gen = [d \in Devices |-> None]

LiveOf(g) == {e \in paired : gen[e] = g}

\* c pairs d, which was never paired, under the password g.
Pair(d, c, g) ==
    /\ by[d] = None
    /\ c \in Devices => c \in LiveOf(g)
    /\ Cardinality(LiveOf(g)) < MaxDevices
    /\ paired' = paired \cup {d}
    /\ by' = [by EXCEPT ![d] = c]
    /\ gen' = [gen EXCEPT ![d] = g]

\* Devices leave for good: one, or one and those it paired, in one step.
Leave(S) ==
    /\ S # {}
    /\ paired' = paired \ S
    /\ UNCHANGED <<by, gen>>

Next ==
    \/ \E d \in Devices, c \in Creators, g \in Gens : Pair(d, c, g)
    \/ \E S \in SUBSET paired : Leave(S)

Spec == Init /\ [][Next]_<<paired, by, gen>>
=============================================================================
