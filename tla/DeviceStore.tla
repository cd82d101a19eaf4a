---------------------------- MODULE DeviceStore ----------------------------
(***************************************************************************)
(* The paired devices (server/device_store.go): one file, shared by the    *)
(* processes that run on a state directory (servers, command lines), each  *)
(* with the records it last read in memory.                                *)
(*                                                                         *)
(* A change takes the process's writeMu and devices.lock, then mu: it      *)
(* reads the file again, applies one operation and renames the new file    *)
(* into place.  A lookup holds mu only: it stats the file, and reads it    *)
(* again when it changed, then stats what it read, without devices.lock.   *)
(* A process may die between any two steps.                                *)
(***************************************************************************)
EXTENDS Integers, FiniteSets

CONSTANTS
    Procs,         \* processes
    Gen,           \* [Procs -> the password each runs with]
    Devices,       \* device ids
    Sessions,      \* password sessions
    Home,          \* [Sessions -> the process that holds it in memory]
    Password,      \* the creator of what the CLI pairs
    None,
    MaxDevices,    \* live devices of one password
    MaxWrites      \* bound: writes of the file in a behaviour

Creators == Devices \cup Sessions \cup {Password}
Gens == {Gen[p] : p \in Procs}
Kinds == {"add", "revoke", "cascade", "sweep", "prune", "flush"}
\* A change: its operation, the device it is about, the creator of an added
\* device, or the session whose devices go and whether it is signed out.
Changes == [kind : Kinds, id : Devices \cup {None}, by : Creators \cup {None}, out : BOOLEAN]
Asked(kind, d, c) == [kind |-> kind, id |-> d, by |-> c, out |-> FALSE]

ASSUME StoreAssumption ==
    /\ Home \in [Sessions -> Procs] /\ DOMAIN Gen = Procs
    /\ Devices \cap Sessions = {} /\ Password \notin Devices \cup Sessions
    /\ None \notin Procs \cup Creators \cup Changes \cup Gens
    /\ MaxDevices \in Nat \ {0} /\ MaxWrites \in Nat

VARIABLES
    file,      \* the ids of the records of devices.json
    stamp,     \* its modification time and size
    by, gen,   \* [Devices -> pairedBy and gen of the record]
    flock,     \* the process that holds devices.lock
    up,        \* the processes that run
    mem, memStamp,   \* of each process: recs, and modTime and size
    job, step, next, \* of each process: the change it makes, how far, its outcome
    loading, seen,   \* a lookup is reading the file again; what it read
    live,      \* sessions not signed out
    handed,    \* of each process: the devices handed to deviceAuth.end
    lost,      \* of each process: the live devices it knew and no longer has
    swept      \* devices and sessions whose devices were revoked with them

fileVars == <<file, stamp, by, gen>>
readVars == <<loading, seen>>
memVars == <<mem, memStamp, lost>>
jobVars == <<job, step, next>>
vars == <<fileVars, flock, up, memVars, jobVars, readVars, live, handed, swept>>

Steps == {"idle", "queued", "locked", "read", "written"}
\* In these steps the process holds devices.lock.
Locked == {"locked", "read", "written"}
\* The outcome of an operation: the records it keeps, the devices it removed.
Outcomes == [keep : SUBSET Devices, gone : SUBSET Devices]
NoOutcome == [keep |-> {}, gone |-> {}]

TypeOK ==
    /\ file \subseteq Devices /\ stamp \in 0..MaxWrites
    /\ by \in [Devices -> Creators \cup {None}]
    /\ gen \in [Devices -> Gens \cup {None}]
    /\ \A d \in Devices : by[d] # None => gen[d] \in Gens
    /\ flock \in Procs \cup {None} /\ up \subseteq Procs
    /\ mem \in [Procs -> SUBSET Devices] /\ memStamp \in [Procs -> 0..MaxWrites]
    /\ job \in [Procs -> Changes \cup {None}] /\ step \in [Procs -> Steps]
    /\ next \in [Procs -> Outcomes]
    /\ loading \subseteq Procs /\ seen \in [Procs -> SUBSET Devices]
    /\ live \subseteq Sessions
    /\ handed \in [Procs -> SUBSET Devices] /\ lost \in [Procs -> SUBSET Devices]
    /\ swept \subseteq Creators

Init ==
    /\ file = {} /\ stamp = 0
    /\ by = [d \in Devices |-> None] /\ gen = [d \in Devices |-> None]
    /\ flock = None /\ up = {}
    /\ mem = [p \in Procs |-> {}] /\ memStamp = [p \in Procs |-> 0]
    /\ job = [p \in Procs |-> None] /\ step = [p \in Procs |-> "idle"]
    /\ next = [p \in Procs |-> NoOutcome]
    /\ loading = {} /\ seen = [p \in Procs |-> {}]
    /\ live = Sessions
    /\ handed = [p \in Procs |-> {}] /\ lost = [p \in Procs |-> {}]
    /\ swept = {}

-----------------------------------------------------------------------------
(* The operations, over the records S a change reads.                      *)

\* Mutant of LiveIn: every record is live.
LiveAny(p, S) == S

LiveIn(p, S) == {d \in S : gen[d] = Gen[p]}
PairedBy(p, S, C) == {d \in LiveIn(p, S) : by[d] \in C}
MadeBySession(p, S, s) == PairedBy(p, S, {s})

\* What an operation removes: a device, or one and those it paired, or what
\* a session paired and what those paired, or what another password paired.
Removed(p, j, S) ==
    {d \in S :
        \/ j.kind \in {"revoke", "cascade"} /\ d = j.id
        \/ j.kind = "cascade" /\ d \in PairedBy(p, S, {j.id})
        \/ /\ j.kind = "sweep"
           /\ d \in MadeBySession(p, S, j.by) \cup PairedBy(p, S, MadeBySession(p, S, j.by))
        \/ j.kind = "prune" /\ d \notin LiveIn(p, S)}

\* Mutant of CreatorStands: nobody asks for the creator.
CreatorUnasked(p, c, S) == TRUE

\* Mutant of CreatorStands: the creator is looked up in memory, as a request's
\* device is.
CreatorRemembered(p, c, S) ==
    /\ c \in Sessions => c \in live
    /\ c \in Devices => c \in LiveIn(p, mem[p])

\* The session is not signed out, the device is paired in the file as read.
CreatorStands(p, c, S) ==
    /\ c \in Sessions => c \in live
    /\ c \in Devices => c \in LiveIn(p, S)

HasRoom(p, S) == Cardinality(LiveIn(p, S)) < MaxDevices

\* Whether it writes at all: a creator that is gone pairs nothing, an unknown
\* device is an error, a sweep that finds nothing leaves the file.
Accepts(p, j, S) ==
    /\ j.kind = "add" => CreatorStands(p, j.by, S) /\ HasRoom(p, S)
    /\ j.kind \in {"revoke", "cascade"} => j.id \in LiveIn(p, S)
    /\ j.kind = "sweep" => Removed(p, j, S) # {}

Outcome(p, j, S) ==
    [keep |-> (S \ Removed(p, j, S)) \cup (IF j.kind = "add" THEN {j.id} ELSE {}),
     gone |-> Removed(p, j, S)]

-----------------------------------------------------------------------------
(* A change.                                                               *)

\* mu is free: no change of p is between its read and its read back, no
\* lookup of p is reading the file.
MuFree(p) == step[p] \notin {"read", "written"} /\ p \notin loading

Start(p, j) ==
    /\ job' = [job EXCEPT ![p] = j]
    /\ step' = [step EXCEPT ![p] = "queued"]
    /\ UNCHANGED <<fileVars, flock, up, memVars, next, readVars, handed, swept>>

BeingAdded == {job[q].id : q \in {r \in Procs : job[r] # None}}

\* A code is redeemed: the new device gets a random id.  Its creator may have
\* been revoked since the code was made, and only a full device makes codes.
StartAdd(p, d, c) ==
    /\ p \in up /\ step[p] = "idle" /\ p \notin loading /\ stamp < MaxWrites
    /\ by[d] = None /\ d \notin BeingAdded
    /\ c \in Sessions => Home[c] = p
    /\ c \in Devices => by[c] \in Sessions \cup {Password} /\ gen[c] = Gen[p]
    /\ Start(p, Asked("add", d, c))
    /\ UNCHANGED live

StartRevoke(p, d, kind) ==
    /\ p \in up /\ step[p] = "idle" /\ p \notin loading /\ stamp < MaxWrites
    /\ by[d] # None
    /\ Start(p, Asked(kind, d, None))
    /\ UNCHANGED live

\* A session is signed out from the list: it leaves its process's memory
\* first, then the devices it paired are revoked.
StartSweep(p, s) ==
    /\ p \in up /\ step[p] = "idle" /\ p \notin loading /\ stamp < MaxWrites
    /\ live' = IF Home[s] = p THEN live \ {s} ELSE live
    /\ Start(p, [Asked("sweep", None, s) EXCEPT !.out = s \notin live'])

\* start --fresh prunes what other passwords paired.
StartPrune(p) ==
    /\ p \in up /\ step[p] = "idle" /\ p \notin loading /\ stamp < MaxWrites
    /\ Start(p, Asked("prune", None, None))
    /\ UNCHANGED live

TakeLock(p) ==
    /\ step[p] = "queued"
    /\ flock = None
    /\ flock' = p
    /\ step' = [step EXCEPT ![p] = "locked"]
    /\ UNCHANGED <<fileVars, up, memVars, job, next, readVars, live, handed, swept>>

\* The change ends and its locks are free again.
Finish(p) ==
    /\ job' = [job EXCEPT ![p] = None]
    /\ step' = [step EXCEPT ![p] = "idle"]
    /\ next' = [next EXCEPT ![p] = NoOutcome]
    /\ flock' = IF flock = p THEN None ELSE flock

\* Mutant of LockTimeout: waits for as long as it takes.
LockTimeoutNever(p) == FALSE /\ UNCHANGED vars

\* Another process holds the lock for the whole wait.
LockTimeout(p) ==
    /\ step[p] = "queued"
    /\ flock # None
    /\ Finish(p)
    /\ UNCHANGED <<fileVars, up, memVars, readVars, live, handed, swept>>

\* Takes mu, reads the file and applies the operation to its records.
Read(p) ==
    /\ step[p] = "locked" /\ MuFree(p)
    /\ Accepts(p, job[p], file)
    /\ next' = [next EXCEPT ![p] = Outcome(p, job[p], file)]
    /\ step' = [step EXCEPT ![p] = "read"]
    /\ UNCHANGED <<fileVars, flock, up, memVars, job, readVars, live, handed, swept>>

\* The operation refuses (an added device's creator may also have expired),
\* or the file cannot be read or written.
Fail(p) ==
    /\ (step[p] = "locked" /\ MuFree(p)) \/ step[p] = "read"
    /\ Finish(p)
    /\ UNCHANGED <<fileVars, up, memVars, readVars, live, handed, swept>>

\* The new file is in place.  A device added with a limit has its creator's
\* at most, so it may be past it from the start.
Write(p) ==
    LET j == job[p]
    IN  /\ step[p] = "read" /\ stamp < MaxWrites
        /\ file' = next[p].keep
        /\ stamp' = stamp + 1
        /\ IF j.kind = "add"
             THEN /\ by' = [by EXCEPT ![j.id] = j.by]
                  /\ gen' = [gen EXCEPT ![j.id] = Gen[p]]
             ELSE UNCHANGED <<by, gen>>
        /\ step' = [step EXCEPT ![p] = "written"]
        /\ UNCHANGED <<flock, up, memVars, job, next, readVars, live, handed, swept>>

\* What p has in memory becomes S.
Keep(p, S) ==
    /\ mem' = [mem EXCEPT ![p] = S]
    /\ lost' = [lost EXCEPT ![p] = @ \cup (LiveIn(p, mem[p]) \ S)]

\* Whom a change leaves without devices: a device revoked with those it
\* paired, or a session signed out of the server it was made on, or of one
\* with its password, and the devices it had paired.
SweptBy(p) ==
    LET j == job[p]
    IN  {c \in Sessions \cup Devices :
            \/ j.kind = "cascade" /\ c = j.id
            \/ /\ j.kind = "sweep"
               /\ \/ c = j.by /\ j.out /\ Gen[Home[c]] = Gen[p]
                  \/ c \in next[p].gone /\ by[c] = j.by}

\* Reads the file back under devices.lock; when that fails the records the
\* operation made are kept, with the old stamp.  The change returns, and the
\* devices it revoked are ended.
Return(p) ==
    LET j == job[p]
    IN  /\ step[p] = "written"
        /\ \/ Keep(p, file) /\ memStamp' = [memStamp EXCEPT ![p] = stamp]
           \/ Keep(p, next[p].keep) /\ UNCHANGED memStamp
        /\ handed' = [handed EXCEPT ![p] = @ \cup (IF j.kind = "prune" THEN {} ELSE next[p].gone)]
        /\ swept' = swept \cup SweptBy(p)
        /\ Finish(p)
        /\ UNCHANGED <<fileVars, up, readVars, live>>

\* A lookup writes the recorded uses while it holds mu: it waits for neither
\* writeMu nor devices.lock.
FlushUses(p) ==
    /\ p \in up /\ step[p] = "idle" /\ p \notin loading
    /\ flock = None /\ stamp < MaxWrites
    /\ flock' = p
    /\ job' = [job EXCEPT ![p] = Asked("flush", None, None)]
    /\ step' = [step EXCEPT ![p] = "read"]
    /\ next' = [next EXCEPT ![p] = [keep |-> file, gone |-> {}]]
    /\ UNCHANGED <<fileVars, up, memVars, readVars, live, handed, swept>>

-----------------------------------------------------------------------------
(* A lookup (lookup, alive, list): maybeReloadLocked.                      *)

\* Mutant of Reload: reads the file without mu.
ReloadStale(p) ==
    /\ p \in up /\ memStamp[p] # stamp
    /\ loading' = loading \cup {p}
    /\ seen' = [seen EXCEPT ![p] = file]
    /\ UNCHANGED <<fileVars, flock, up, memVars, jobVars, live, handed, swept>>

\* The file's stat is not the one remembered: it is read again.
Reload(p) ==
    /\ p \in up /\ MuFree(p)
    /\ memStamp[p] # stamp
    /\ loading' = loading \cup {p}
    /\ seen' = [seen EXCEPT ![p] = file]
    /\ UNCHANGED <<fileVars, flock, up, memVars, jobVars, live, handed, swept>>

\* ... and the file is statted after it was read.  The devices that are gone
\* since the last read are ended.
Reloaded(p) ==
    /\ p \in loading
    /\ loading' = loading \ {p}
    /\ seen' = [seen EXCEPT ![p] = {}]
    /\ Keep(p, seen[p])
    /\ memStamp' = [memStamp EXCEPT ![p] = stamp]
    /\ handed' = [handed EXCEPT ![p] = @ \cup (LiveIn(p, mem[p]) \ seen[p])]
    /\ UNCHANGED <<fileVars, flock, up, jobVars, live, swept>>

-----------------------------------------------------------------------------
(* Sessions, time, and processes.                                          *)

\* A session ends without its devices: Log out, its expiry.
SessionEnds(s) ==
    /\ s \in live
    /\ live' = live \ {s}
    /\ UNCHANGED <<fileVars, flock, up, memVars, jobVars, readVars, handed, swept>>

\* newDeviceStore loads the file, without devices.lock like a lookup.
Boot(p) ==
    /\ p \notin up
    /\ up' = up \cup {p}
    /\ loading' = loading \cup {p}
    /\ seen' = [seen EXCEPT ![p] = file]
    /\ UNCHANGED <<fileVars, flock, memVars, jobVars, live, handed, swept>>

\* A process dies, at any step: the system releases its lock, and what it had
\* in memory is gone, its sessions with it.
Crash(p) ==
    /\ p \in up
    /\ up' = up \ {p}
    /\ Finish(p)
    /\ mem' = [mem EXCEPT ![p] = {}] /\ memStamp' = [memStamp EXCEPT ![p] = 0]
    /\ lost' = [lost EXCEPT ![p] = {}] /\ handed' = [handed EXCEPT ![p] = {}]
    /\ loading' = loading \ {p} /\ seen' = [seen EXCEPT ![p] = {}]
    /\ live' = {s \in live : Home[s] # p}
    /\ UNCHANGED <<fileVars, swept>>

-----------------------------------------------------------------------------
Ask(p) ==
    \/ \E d \in Devices, c \in Creators : StartAdd(p, d, c)
    \/ \E d \in Devices, kind \in {"revoke", "cascade"} : StartRevoke(p, d, kind)
    \/ \E s \in Sessions : StartSweep(p, s)
    \/ StartPrune(p)

Change(p) == TakeLock(p) \/ LockTimeout(p) \/ Read(p) \/ Fail(p) \/ Write(p) \/ Return(p)
Lookup(p) == Reload(p) \/ Reloaded(p) \/ FlushUses(p)

Next ==
    \/ \E p \in Procs : Ask(p) \/ Change(p) \/ Lookup(p) \/ Boot(p) \/ Crash(p)
    \/ \E s \in Sessions : SessionEnds(s)

Spec == Init /\ [][Next]_vars

\* A change under way goes on, and a lookup that reads the file ends: each
\* waits for devices.lock at most devicesLockWait, and for mu while another
\* step of its own process runs.  Requests keep coming to a server that runs,
\* at least the pings of its streams: each second the file is statted again.
Fairness ==
    \A p \in Procs : /\ WF_vars(Change(p))
                     /\ WF_vars(Reload(p)) /\ WF_vars(Reloaded(p))

FairSpec == Spec /\ Fairness

-----------------------------------------------------------------------------
(* Properties.                                                             *)

\* The processes together keep the registry's promise: a change is one step
\* of it, no process writes back a device another one revoked, a device is
\* paired by the creator its record names, which is paired itself when the
\* file is replaced, and no password's devices pass the limit.
Registry == INSTANCE DeviceRegistry WITH paired <- file
Implements == Registry!Spec

\* Once a device was revoked with the devices it paired, or a signed out
\* session with the ones it paired and theirs, no device of theirs is paired,
\* not even by a code that was redeemed meanwhile.
SweptPairNothing == \A d \in file : by[d] \notin swept

\* A process changes the devices of its own password only (prune apart).
OthersKept ==
    [][\A p \in Procs :
         step[p] = "read" /\ step'[p] = "written" /\ job[p].kind # "prune"
           => \A d \in file : gen[d] # Gen[p] => d \in file']_vars

\* A process that once found a device gone never finds it alive again: what
\* the hub relies on when it asks.
GoneStaysGone == \A p \in Procs : lost[p] \cap mem[p] = {}

\* A reload ends what every device it no longer finds live holds.
GoneIsEnded == \A p \in Procs : lost[p] \subseteq handed[p]

\* A change that was asked for ends, whoever else holds the file.
ChangesEnd == \A p \in Procs : step[p] = "queued" ~> step[p] = "idle"

\* A second process sees a revoke: a device that left the file leaves the
\* memory of every process that runs.
RevokeIsSeen ==
    \A p \in Procs, d \in Devices : (d \in mem[p] /\ d \notin file) ~> d \notin mem[p]
=============================================================================
