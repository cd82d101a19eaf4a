----------------------------- MODULE StreamHub -----------------------------
(***************************************************************************)
(* The hubs of open terminal streams (server/stream.go): admission with    *)
(* eviction, the two ways an identity that ended closes its streams (the   *)
(* closers a revoke runs, and the recheck of every ping), the end of one   *)
(* stream, and shutdown.  Main is the server's own hub; the others are its *)
(* linked hubs (the streams forwarded to other machines).                  *)
(*                                                                         *)
(* A step is what the code does while it holds a hub's mutex without       *)
(* asking anyone else; addFor, which asks the device and session stores    *)
(* under the mutex, is one step per question.                              *)
(***************************************************************************)
EXTENDS Identities, Integers, Sequences, SequencesExt, FiniteSets

CONSTANTS
    Streams,       \* stream requests, each one run of its handler
    Hubs, Main,    \* the hubs; Main is the one the others are linked to
    Clients,       \* what requests run as: [role, device, session]
    MaxStreams,    \* [Hubs -> limit of open streams]
    MaxPerDevice   \* open streams of one view-only device

Ids == Devices \cup Sessions
Linked == Hubs \ {Main}

Causes == {"evicted", "deviceRevoked", "sessionRevoked", "shutdown", "client", "returned"}
\* How a stream's client learns of the end: the close code, or a cut connection.
Told == {"evicted", "policy", "away", "exit", "attachFailed", "tooMany", "cut"}

\* Where a handler is; from "locked" to "capped" it holds its hub's mutex.
Asking == {"locked", "deviceOk", "sessionOk", "capped"}
Tracked == {"attaching", "running", "closed"}
States == {"idle", "refused", "removed"} \cup Asking \cup Tracked

ASSUME HubAssumption ==
    /\ Main \in Hubs
    /\ None \notin Streams \cup Ids \cup Causes \cup Told
    /\ Devices \cap Sessions = {}
    /\ Clients \subseteq [role : {"full", "view"}, device : Devices \cup {None},
                          session : Sessions \cup {None}]
    /\ MaxStreams \in [Hubs -> Nat \ {0}]
    /\ MaxPerDevice \in Nat \ {0}

VARIABLES
    lock,      \* [Hubs -> the stream whose addFor holds the mutex, or None]
    list,      \* hub.streams, oldest first
    closing,   \* hub.closing
    pc, hubOf, client,   \* of each stream: where its handler is, its hub, its client
    cause,     \* the cause its context was cancelled with
    told,      \* what its client was told
    gone,      \* identities alive and sessionAlive answer false for
    closedIn,  \* [Ids -> the hubs whose closeDevice or closeSession returned]
    shut       \* [Hubs -> where shutdown is: "no", "waiting", "done", "late"]

hubVars == <<lock, list, closing, pc, hubOf, client, cause, told, gone, closedIn, shut>>
streamVars == <<pc, hubOf, client, cause, told>>

NoClient == [role |-> "view", device |-> None, session |-> None]

HubTypeOK ==
    /\ lock \in [Hubs -> Streams \cup {None}]
    /\ list \in [Hubs -> Seq(Streams)]
    /\ closing \in [Hubs -> BOOLEAN]
    /\ pc \in [Streams -> States]
    /\ hubOf \in [Streams -> Hubs]
    /\ client \in [Streams -> Clients \cup {NoClient}]
    /\ cause \in [Streams -> Causes \cup {None}]
    /\ told \in [Streams -> Told \cup {None}]
    /\ gone \subseteq Ids
    /\ closedIn \in [Ids -> SUBSET Hubs]
    /\ shut \in [Hubs -> {"no", "waiting", "done", "late"}]

HubInit ==
    /\ lock = [h \in Hubs |-> None]
    /\ list = [h \in Hubs |-> <<>>]
    /\ closing = [h \in Hubs |-> FALSE]
    /\ pc = [s \in Streams |-> "idle"]
    /\ hubOf = [s \in Streams |-> Main]
    /\ client = [s \in Streams |-> NoClient]
    /\ cause = [s \in Streams |-> None]
    /\ told = [s \in Streams |-> None]
    /\ gone = {}
    /\ closedIn = [i \in Ids |-> {}]
    /\ shut = [h \in Hubs |-> "no"]

-----------------------------------------------------------------------------
(* Helpers.                                                                *)

Owners(s) == {client[s].device, client[s].session} \ {None}
Listed(h) == {list[h][i] : i \in DOMAIN list[h]}
TrackedIn(h) == {s \in Streams : hubOf[s] = h /\ pc[s] \in Tracked}
Views == {s \in Streams : client[s].role = "view"}
\* Position i of q holds the oldest stream of q that is in T.
OldestOf(q, i, T) == q[i] \in T /\ \A j \in 1..(i - 1) : q[j] \notin T
\* CancelCauseFunc: the first cause is kept.
Cancel(S, why) == [s \in Streams |-> IF s \in S /\ cause[s] = None THEN why ELSE cause[s]]

-----------------------------------------------------------------------------
(* addFor: one handler asks for a place in hub h.                          *)

\* Takes the mutex; a hub that is shutting down refuses.
Lock(s, h, c) ==
    /\ pc[s] = "idle"
    /\ lock[h] = None
    /\ hubOf' = [hubOf EXCEPT ![s] = h]
    /\ client' = [client EXCEPT ![s] = c]
    /\ IF closing[h]
         THEN /\ pc' = [pc EXCEPT ![s] = "refused"]
              /\ told' = [told EXCEPT ![s] = "away"]
              /\ UNCHANGED lock
         ELSE /\ pc' = [pc EXCEPT ![s] = "locked"]
              /\ lock' = [lock EXCEPT ![h] = s]
              /\ UNCHANGED told
    /\ UNCHANGED <<list, closing, cause, gone, closedIn, shut>>

\* Refuse s, releasing the mutex.
Refuse(s, why) ==
    /\ pc' = [pc EXCEPT ![s] = "refused"]
    /\ told' = [told EXCEPT ![s] = why]
    /\ lock' = [lock EXCEPT ![hubOf[s]] = None]

\* Mutant of AskSession: does not ask.
AskSessionNever(s) ==
    /\ pc[s] = "deviceOk"
    /\ pc' = [pc EXCEPT ![s] = "sessionOk"]
    /\ UNCHANGED <<told, lock, list, closing, hubOf, client, cause, gone, closedIn, shut>>

\* hub.alive, then hub.sessionAlive: each question goes to a store of its own,
\* so the identity may end right after the answer.
AskDevice(s) ==
    /\ pc[s] = "locked"
    /\ IF client[s].device \in gone
         THEN Refuse(s, "policy")
         ELSE pc' = [pc EXCEPT ![s] = "deviceOk"] /\ UNCHANGED <<told, lock>>
    /\ UNCHANGED <<list, closing, hubOf, client, cause, gone, closedIn, shut>>

AskSession(s) ==
    /\ pc[s] = "deviceOk"
    /\ IF client[s].session \in gone
         THEN Refuse(s, "policy")
         ELSE pc' = [pc EXCEPT ![s] = "sessionOk"] /\ UNCHANGED <<told, lock>>
    /\ UNCHANGED <<list, closing, hubOf, client, cause, gone, closedIn, shut>>

\* Mutant of Evict: out of the list, never cancelled.
EvictUncancelled(h, i) ==
    /\ list' = [list EXCEPT ![h] = RemoveAt(@, i)]
    /\ UNCHANGED cause

\* evict: cancelled, and out of the list before its cleanup.
Evict(h, i) ==
    /\ cause' = Cancel({list[h][i]}, "evicted")
    /\ list' = [list EXCEPT ![h] = RemoveAt(@, i)]

\* Mutant of CapDevice: one too many.
CapDevicePast(s) ==
    LET h == hubOf[s]
        mine == {t \in Streams : client[t].device = client[s].device}
    IN  /\ pc[s] = "sessionOk"
        /\ IF /\ client[s].role = "view"
              /\ client[s].device # None
              /\ Cardinality({i \in DOMAIN list[h] : list[h][i] \in mine}) > MaxPerDevice
             THEN \E i \in DOMAIN list[h] : OldestOf(list[h], i, mine) /\ Evict(h, i)
             ELSE UNCHANGED <<cause, list>>
        /\ pc' = [pc EXCEPT ![s] = "capped"]
        /\ UNCHANGED <<lock, closing, hubOf, client, told, gone, closedIn, shut>>

\* A view-only device past its own cap loses its oldest stream.
CapDevice(s) ==
    LET h == hubOf[s]
        mine == {t \in Streams : client[t].device = client[s].device}
    IN  /\ pc[s] = "sessionOk"
        /\ IF /\ client[s].role = "view"
              /\ client[s].device # None
              /\ Cardinality({i \in DOMAIN list[h] : list[h][i] \in mine}) >= MaxPerDevice
             THEN \E i \in DOMAIN list[h] : OldestOf(list[h], i, mine) /\ Evict(h, i)
             ELSE UNCHANGED <<cause, list>>
        /\ pc' = [pc EXCEPT ![s] = "capped"]
        /\ UNCHANGED <<lock, closing, hubOf, client, told, gone, closedIn, shut>>

\* Mutant of MakeRoom: the oldest stream goes whatever its role.
MakeRoomOldest(s) ==
    LET h == hubOf[s]
    IN  /\ pc[s] = "capped"
        /\ Len(list[h]) >= MaxStreams[h]
        /\ IF client[s].role = "view" /\ Listed(h) \cap Views = {}
             THEN Refuse(s, "tooMany") /\ UNCHANGED <<cause, list>>
             ELSE Evict(h, 1) /\ UNCHANGED <<pc, told, lock>>
        /\ UNCHANGED <<closing, hubOf, client, gone, closedIn, shut>>

\* The hub is full: the oldest view-only stream goes, else, for a full client
\* only, the oldest stream.
MakeRoom(s) ==
    LET h == hubOf[s]
    IN  /\ pc[s] = "capped"
        /\ Len(list[h]) >= MaxStreams[h]
        /\ IF Listed(h) \cap Views # {}
             THEN /\ \E i \in DOMAIN list[h] : OldestOf(list[h], i, Views) /\ Evict(h, i)
                  /\ UNCHANGED <<pc, told, lock>>
             ELSE IF client[s].role = "view"
                    THEN Refuse(s, "tooMany") /\ UNCHANGED <<cause, list>>
                    ELSE Evict(h, 1) /\ UNCHANGED <<pc, told, lock>>
        /\ UNCHANGED <<closing, hubOf, client, gone, closedIn, shut>>

Register(s) ==
    LET h == hubOf[s]
    IN  /\ pc[s] = "capped"
        /\ Len(list[h]) < MaxStreams[h]
        /\ list' = [list EXCEPT ![h] = Append(@, s)]
        /\ pc' = [pc EXCEPT ![s] = "attaching"]
        /\ lock' = [lock EXCEPT ![h] = None]
        /\ UNCHANGED <<closing, hubOf, client, cause, told, gone, closedIn, shut>>

-----------------------------------------------------------------------------
(* handleStream and runStream after addFor.                                *)

\* Attach answers; it may still succeed when the stream was cancelled
\* meanwhile.  A forwarded stream has no attach of its own.
Attached(s) ==
    /\ pc[s] = "attaching"
    /\ pc' = [pc EXCEPT ![s] = "running"]
    /\ UNCHANGED <<lock, list, closing, hubOf, client, cause, told, gone, closedIn, shut>>

\* Attach fails: its own error, its timeout, or the stream was cancelled
\* (its context ends the attach).
AttachFails(s) ==
    /\ pc[s] = "attaching"
    /\ hubOf[s] = Main
    /\ pc' = [pc EXCEPT ![s] = "closed"]
    /\ told' = [told EXCEPT ![s] = "attachFailed"]
    /\ UNCHANGED <<lock, list, closing, hubOf, client, cause, gone, closedIn, shut>>

\* The client leaves, or stops answering pings.
ClientGone(s) ==
    /\ pc[s] = "running"
    /\ cause[s] = None
    /\ cause' = Cancel({s}, "client")
    /\ UNCHANGED <<lock, list, closing, pc, hubOf, client, told, gone, closedIn, shut>>

\* The ping's recheck, without the mutex.
Recheck(s) ==
    /\ pc[s] = "running"
    /\ cause[s] = None
    /\ Owners(s) \cap gone # {}
    /\ cause' = Cancel({s}, IF client[s].device \in gone THEN "deviceRevoked" ELSE "sessionRevoked")
    /\ UNCHANGED <<lock, list, closing, pc, hubOf, client, told, gone, closedIn, shut>>

\* The terminal's process ended.
Exits(s) ==
    /\ pc[s] = "running"
    /\ pc' = [pc EXCEPT ![s] = "closed"]
    /\ told' = [told EXCEPT ![s] = IF hubOf[s] = Main THEN "exit" ELSE "cut"]
    /\ UNCHANGED <<lock, list, closing, hubOf, client, cause, gone, closedIn, shut>>

\* The close frame of a stream that was cancelled with why.
CloseFrame(why) ==
    CASE why = "evicted" -> "evicted"
      [] why \in {"deviceRevoked", "sessionRevoked"} -> "policy"
      [] why = "shutdown" -> "away"
      [] OTHER -> "cut"

\* The cancelled stream closes its terminal, then its connection; the
\* connection of a forwarded one is cut.
Cancelled(s) ==
    /\ pc[s] = "running"
    /\ cause[s] # None
    /\ pc' = [pc EXCEPT ![s] = "closed"]
    /\ told' = [told EXCEPT ![s] = IF hubOf[s] = Main THEN CloseFrame(cause[s]) ELSE "cut"]
    /\ UNCHANGED <<lock, list, closing, hubOf, client, cause, gone, closedIn, shut>>

\* The handler returns: scancel(nil), then remove.
Unregister(s) ==
    LET h == hubOf[s]
    IN  /\ pc[s] = "closed"
        /\ lock[h] = None
        /\ cause' = Cancel({s}, "returned")
        /\ IF s \in Listed(h)
             THEN \E i \in DOMAIN list[h] :
                    OldestOf(list[h], i, {s}) /\ list' = [list EXCEPT ![h] = RemoveAt(@, i)]
             ELSE UNCHANGED list
        /\ pc' = [pc EXCEPT ![s] = "removed"]
        /\ UNCHANGED <<lock, closing, hubOf, client, told, gone, closedIn, shut>>

-----------------------------------------------------------------------------
(* The end of an identity, and shutdown.                                   *)

\* A store answers that the identity is gone: revoked here, revoked by
\* another process, expired.
MarkGone(id) ==
    /\ id \notin gone
    /\ gone' = gone \cup {id}
    /\ UNCHANGED <<lock, list, closing, streamVars, closedIn, shut>>

\* closeDevice or closeSession on one hub: the linked hubs first.
Close(id, h) ==
    /\ id \in gone
    /\ h \notin closedIn[id]
    /\ h = Main => Linked \subseteq closedIn[id]
    /\ lock[h] = None
    /\ cause' = Cancel({s \in Listed(h) : id \in Owners(s)},
                       IF id \in Devices THEN "deviceRevoked" ELSE "sessionRevoked")
    /\ closedIn' = [closedIn EXCEPT ![id] = @ \cup {h}]
    /\ UNCHANGED <<lock, list, closing, pc, hubOf, client, told, gone, shut>>

\* Mutants of ShutBegin: the hub goes on accepting; the linked hubs only once
\* Main's wait is over.
ShutBeginOpen(h) ==
    /\ shut[h] = "no"
    /\ h # Main => shut[Main] = "waiting" /\ \A l \in Linked : shut[l] # "waiting"
    /\ lock[h] = None
    /\ cause' = Cancel(Listed(h), "shutdown")
    /\ shut' = [shut EXCEPT ![h] = "waiting"]
    /\ UNCHANGED <<lock, list, closing, pc, hubOf, client, told, gone, closedIn>>

ShutBeginAfterMain(h) ==
    /\ shut[h] = "no"
    /\ h # Main => shut[Main] \in {"done", "late"}
    /\ lock[h] = None
    /\ closing' = [closing EXCEPT ![h] = TRUE]
    /\ cause' = Cancel(Listed(h), "shutdown")
    /\ shut' = [shut EXCEPT ![h] = "waiting"]
    /\ UNCHANGED <<lock, list, pc, hubOf, client, told, gone, closedIn>>

\* shutdown of hub h up to its wait: Main's comes first, then, from within
\* it, the linked ones, one after the other.
ShutBegin(h) ==
    /\ shut[h] = "no"
    /\ h # Main => shut[Main] = "waiting" /\ \A l \in Linked : shut[l] # "waiting"
    /\ lock[h] = None
    /\ closing' = [closing EXCEPT ![h] = TRUE]
    /\ cause' = Cancel(Listed(h), "shutdown")
    /\ shut' = [shut EXCEPT ![h] = "waiting"]
    /\ UNCHANGED <<lock, list, pc, hubOf, client, told, gone, closedIn>>

\* The wait of hub h's shutdown ends when its streams are gone.  Main waits
\* for its own streams only after every linked hub's shutdown returned, and
\* returns their error.
ShutDone(h) ==
    /\ shut[h] = "waiting"
    /\ h = Main => \A l \in Linked : shut[l] \in {"done", "late"}
    /\ TrackedIn(h) = {}
    /\ shut' = [shut EXCEPT ![h] = IF h = Main /\ \E l \in Linked : shut[l] = "late"
                                     THEN "late" ELSE "done"]
    /\ UNCHANGED <<lock, list, closing, streamVars, gone, closedIn>>

\* ... or when its time is over.
ShutLate(h) ==
    /\ shut[h] = "waiting"
    /\ h = Main => \A l \in Linked : shut[l] \in {"done", "late"}
    /\ shut' = [shut EXCEPT ![h] = "late"]
    /\ UNCHANGED <<lock, list, closing, streamVars, gone, closedIn>>

-----------------------------------------------------------------------------
\* What a handler does once its request is in.
Handler(s) ==
    \/ AskDevice(s) \/ AskSession(s) \/ CapDevice(s) \/ MakeRoom(s) \/ Register(s)
    \/ Attached(s) \/ AttachFails(s) \/ Recheck(s) \/ Cancelled(s) \/ Unregister(s)

Shutdown == \E h \in Hubs : ShutBegin(h) \/ ShutDone(h) \/ ShutLate(h)

HubNext ==
    \/ \E s \in Streams, h \in Hubs, c \in Clients : Lock(s, h, c)
    \/ \E s \in Streams : Handler(s) \/ ClientGone(s) \/ Exits(s)
    \/ \E id \in Ids : MarkGone(id) \/ \E h \in Hubs : Close(id, h)
    \/ Shutdown

HubSpec == HubInit /\ [][HubNext]_hubVars

\* Handlers and a shutdown that began keep running: every wait of theirs has
\* a timeout (muxTimeout for the attach, streamPingEvery for the recheck,
\* streamDrainWait for the drain).  Requests, ends of identities, the
\* closers, and the start of a shutdown may never come.
HubFairness ==
    /\ \A s \in Streams : WF_hubVars(Handler(s))
    /\ \A s \in Streams : WF_hubVars(Recheck(s)) /\ WF_hubVars(Cancelled(s))
    /\ \A h \in Linked : WF_hubVars(ShutBegin(h))
    /\ \A h \in Hubs : WF_hubVars(ShutDone(h) \/ ShutLate(h))

-----------------------------------------------------------------------------
(* Properties.                                                             *)

\* A stream the hub keeps open: its terminal runs and nothing ends it.
Open(s) == pc[s] \in {"attaching", "running"} /\ cause[s] = None

\* Once the closer of a revoked device or a signed out session has returned
\* on a hub, no stream of it is open there, the ones that were still opening
\* included (the alive checks of addFor against the order of a revoke: gone
\* in the store before closeDevice takes the mutex).
NoStreamOutlivesItsOwner ==
    \A id \in Ids : \A s \in Streams :
        hubOf[s] \in closedIn[id] /\ id \in Owners(s) => ~Open(s)

\* A stream leaves the list before its handler is done only by eviction: a
\* closer or a shutdown that walks the list misses no open stream, and the
\* list never holds a stream whose handler returned.
ListIsWhatRuns ==
    \A s \in Streams :
        /\ pc[s] \in Tracked /\ s \notin Listed(hubOf[s]) => cause[s] # None
        /\ \A h \in Hubs : s \in Listed(h) => hubOf[s] = h /\ pc[s] \in Tracked

\* A device that asked for nothing but view-only streams.
OnlyViews(d) == \A s \in Streams : client[s].device = d => s \in Views

\* The limits: of a hub, and of one view-only device in it.  A device that
\* also had full streams may end with more view-only ones than that: they
\* count while they are open, and the oldest of both is evicted first.
HubBounded ==
    \A h \in Hubs :
        /\ Len(list[h]) <= MaxStreams[h]
        /\ \A d \in Devices :
             OnlyViews(d) =>
                 Cardinality({s \in Listed(h) : client[s].device = d}) <= MaxPerDevice

\* A full stream is evicted only for a full client, and only with no view-only
\* stream left to evict (addFor's doc comment), except by the request of its
\* own device whose stream token a view-only client asked for: it never costs
\* another client's full stream.
ViewEvictsOwnOnly ==
    [][\A s \in Streams :
         cause[s] = None /\ cause'[s] = "evicted" /\ client[s].role = "full"
           => LET t == lock[hubOf[s]]
              IN  \/ client[t].role = "full" /\ Listed(hubOf[s]) \cap Views = {}
                  \/ client[t].device = client[s].device /\ client[s].device # None]_hubVars

\* A shutdown that returned without an error left no stream anywhere, and no
\* stream is ever added to a hub that began to shut down.
ShutdownIsFinal ==
    /\ shut[Main] = "done" => \A h \in Hubs : TrackedIn(h) = {} /\ closing[h]
    /\ \A h \in Hubs : closing[h] => \A s \in TrackedIn(h) : ~Open(s)

\* A client whose stream was evicted while it ran is told so (4001), whatever
\* else ends at the same time: it is what keeps it from reconnecting.
EvictedIsTold ==
    \A s \in Streams :
        pc[s] = "removed" /\ cause[s] = "evicted" => told[s] \in {"evicted", "exit"}

\* A stream of an identity that is gone ends, closers or not: the recheck of
\* its pings ends it.
GoneStreamsEnd ==
    \A id \in Ids : \A s \in Streams :
        (id \in gone /\ id \in Owners(s) /\ pc[s] \in Tracked) ~> pc[s] = "removed"

\* A shutdown that began returns.
ShutdownReturns == (shut[Main] = "waiting") ~> (shut[Main] \in {"done", "late"})

\* What has to end ends: the streams of an identity that is gone, and a
\* shutdown.
StreamsEnd == GoneStreamsEnd /\ ShutdownReturns

=============================================================================
