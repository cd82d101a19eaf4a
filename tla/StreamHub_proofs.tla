-------------------------- MODULE StreamHub_proofs --------------------------
(***************************************************************************)
(* What TLAPS proves of StreamHub, for every set of streams, hubs and      *)
(* identities and every limit: its type invariant, that no stream outlives *)
(* its owner, that the list is what runs, that a shutdown is final, and    *)
(* whom a view-only stream may evict.                                      *)
(***************************************************************************)
EXTENDS StreamHub, SliceLemmas

-----------------------------------------------------------------------------
(* The inductive invariant.                                                *)

\* A handler between Lock and Register holds its hub's mutex, and only one
\* handler holds it.
MutexHeld ==
    \A s \in Streams : pc[s] \in Asking => lock[hubOf[s]] = s

\* What stands in a list is tracked there, once.
ListWellFormed ==
    \A h \in Hubs :
        /\ \A i \in 1..Len(list[h]) :
             hubOf[list[h][i]] = h /\ pc[list[h][i]] \in Tracked
        /\ \A i, j \in 1..Len(list[h]) : list[h][i] = list[h][j] => i = j

\* A tracked stream nothing cancelled stands in its hub's list.
OpenIsListed ==
    \A s \in Streams :
        pc[s] \in Tracked /\ cause[s] = None
            => \E i \in 1..Len(list[hubOf[s]]) : list[hubOf[s]][i] = s

\* The closers run for identities that are gone.
ClosedIsGone == \A id \in Ids : closedIn[id] # {} => id \in gone

\* Where a closer is through, its identity has no open stream and no handler
\* that was already told the identity is alive.
ClosedIsEnded ==
    \A id \in Ids, s \in Streams :
        hubOf[s] \in closedIn[id] =>
            /\ pc[s] = "deviceOk" => client[s].device # id
            /\ pc[s] \in {"sessionOk", "capped"} => id \notin Owners(s)
            /\ id \in Owners(s) => ~Open(s)

\* A hub that shuts down admits nobody and has no open stream; one whose
\* shutdown is done has no stream.
ClosingIsFinal ==
    \A h \in Hubs :
        /\ shut[h] # "no" => closing[h]
        /\ shut[h] = "done" => TrackedIn(h) = {}
        /\ closing[h] => \A s \in Streams :
             hubOf[s] = h => pc[s] \notin Asking /\ ~Open(s)
        /\ shut[Main] = "done" => shut[h] = "done"

IInv ==
    /\ HubTypeOK
    /\ MutexHeld
    /\ ListWellFormed
    /\ OpenIsListed
    /\ ClosedIsGone
    /\ ClosedIsEnded
    /\ ClosingIsFinal

(* Cancelling with a cause keeps every cause there was, and leaves without
   one only streams that had none and were not meant. *)
LEMMA CancelKeeps ==
    ASSUME HubTypeOK, NEW S, NEW why \in Causes
    PROVE  /\ Cancel(S, why) \in [Streams -> Causes \cup {None}]
           /\ \A s \in Streams : Cancel(S, why)[s] = None => cause[s] = None /\ s \notin S
  BY HubAssumption DEF Cancel, HubTypeOK

(* The first stream of a set that stands in a list: its position is one of
   the list's, for the sequence lemmas. *)
LEMMA ListTyped ==
    ASSUME HubTypeOK, NEW h \in Hubs
    PROVE  /\ list[h] \in Seq(Streams)
           /\ Len(list[h]) \in Nat
           /\ DOMAIN list[h] = 1..Len(list[h])
           /\ \A i \in 1..Len(list[h]) : list[h][i] \in Streams
  BY LenProperties, ElementOfSeq DEF HubTypeOK

(* What an eviction does to the invariant's parts about the list: the stream
   it takes out is cancelled, every other stream keeps its place. *)
LEMMA EvictStep ==
    ASSUME HubTypeOK, ListWellFormed, OpenIsListed,
           NEW h \in Hubs, NEW i \in 1..Len(list[h]), Evict(h, i)
    PROVE  /\ list' \in [Hubs -> Seq(Streams)]
           /\ cause' \in [Streams -> Causes \cup {None}]
           /\ \A s \in Streams : cause'[s] = None => cause[s] = None
           /\ \A g \in Hubs :
                /\ \A j \in 1..Len(list'[g]) :
                     \E k \in 1..Len(list[g]) : list'[g][j] = list[g][k]
                /\ \A j, k \in 1..Len(list'[g]) : list'[g][j] = list'[g][k] => j = k
           /\ \A s \in Streams :
                pc[s] \in Tracked /\ cause'[s] = None
                    => \E j \in 1..Len(list'[hubOf[s]]) : list'[hubOf[s]][j] = s
<1> DEFINE q == list[h]
           r == RemoveAt(q, i)
<1>1. q \in Seq(Streams) /\ q[i] \in Streams
  BY ListTyped
<1>2. list' = [list EXCEPT ![h] = r] /\ cause' = Cancel({q[i]}, "evicted")
  BY DEF Evict
<1>3. r \in Seq(Streams)
  BY <1>1, RemoveAtMoves
<1>4. /\ \A j \in 1..Len(q) : j # i => \E k \in 1..Len(r) : r[k] = q[j]
      /\ \A k \in 1..Len(r) : \E j \in 1..Len(q) : j # i /\ r[k] = q[j]
  BY <1>1, RemoveAtKeeps
<1>5. \A j, k \in 1..Len(r) : r[j] = r[k] => j = k
  <2>1. \A j, k \in 1..Len(q) : q[j] = q[k] => j = k
    BY DEF ListWellFormed
  <2> QED BY <1>1, <2>1, RemoveAtDistinct
<1> HIDE DEF r
<1>6. /\ cause' \in [Streams -> Causes \cup {None}]
      /\ \A s \in Streams : cause'[s] = None => cause[s] = None /\ s # q[i]
  BY <1>1, <1>2, CancelKeeps DEF Causes
<1>7. list' \in [Hubs -> Seq(Streams)] /\ list'[h] = r
      /\ \A g \in Hubs : g # h => list'[g] = list[g]
  BY <1>2, <1>3 DEF HubTypeOK
<1>8. ASSUME NEW s \in Streams, pc[s] \in Tracked, cause'[s] = None
      PROVE  \E j \in 1..Len(list'[hubOf[s]]) : list'[hubOf[s]][j] = s
  <2>1. PICK j \in 1..Len(list[hubOf[s]]) : list[hubOf[s]][j] = s
    BY <1>6, <1>8 DEF OpenIsListed
  <2>2. CASE hubOf[s] = h
    <3>1. j # i
      BY <1>6, <1>8, <2>1, <2>2
    <3>2. j \in 1..Len(q) /\ q[j] = s
      BY <2>1, <2>2
    <3>3. PICK k \in 1..Len(r) : r[k] = s
      BY <1>4, <3>1, <3>2
    <3> QED BY <1>7, <2>2, <3>3
  <2>3. CASE hubOf[s] # h
    BY <1>7, <2>1, <2>3 DEF HubTypeOK
  <2> QED BY <2>2, <2>3
<1>9. ASSUME NEW g \in Hubs
      PROVE  /\ \A j \in 1..Len(list'[g]) : \E k \in 1..Len(list[g]) : list'[g][j] = list[g][k]
             /\ \A j, k \in 1..Len(list'[g]) : list'[g][j] = list'[g][k] => j = k
  <2>1. CASE g = h
    BY <1>4, <1>5, <1>7, <2>1
  <2>2. CASE g # h
    BY <1>7, <2>2 DEF ListWellFormed
  <2> QED BY <2>1, <2>2
<1> QED BY <1>6, <1>7, <1>8, <1>9

(* A hub starts without streams, within the invariant. *)
THEOREM InitIInv == HubInit => IInv
<1> SUFFICES ASSUME HubInit PROVE IInv
  OBVIOUS
<1>1. HubTypeOK
  <2>1. <<>> \in Seq(Streams)
    BY EmptySeq
  <2> QED BY <2>1, HubAssumption DEF HubInit, HubTypeOK, States, Ids
<1>2. \A h \in Hubs : Len(list[h]) = 0
  BY DEF HubInit
<1>3. MutexHeld /\ OpenIsListed
  BY DEF HubInit, MutexHeld, OpenIsListed, Asking, Tracked
<1>4. ListWellFormed
  BY <1>2 DEF ListWellFormed
<1>5. ClosedIsGone /\ ClosedIsEnded
  BY DEF HubInit, ClosedIsGone, ClosedIsEnded
<1>6. ClosingIsFinal
  BY HubAssumption DEF HubInit, ClosingIsFinal, TrackedIn, Tracked
<1> QED BY <1>1, <1>3, <1>4, <1>5, <1>6 DEF IInv

(* Asking for a place: Lock, the two questions, a refusal, Register. *)
LEMMA AskingStep ==
    ASSUME IInv, NEW s \in Streams,
           \/ \E h \in Hubs, c \in Clients : Lock(s, h, c)
           \/ AskDevice(s) \/ AskSession(s)
    PROVE  IInv'
<1> USE DEF IInv
<1>1. ASSUME NEW h \in Hubs, NEW c \in Clients, Lock(s, h, c)
      PROVE  IInv'
  <2>1. HubTypeOK'
    BY <1>1 DEF HubTypeOK, Lock, States, Asking, Told
  <2>2. MutexHeld'
    BY <1>1, HubAssumption DEF MutexHeld, HubTypeOK, Lock, Asking
  <2>3. ListWellFormed'
    <3>1. \A g \in Hubs : \A i \in 1..Len(list[g]) : list[g][i] # s
      BY <1>1 DEF ListWellFormed, Lock, Tracked
    <3>2. \A g \in Hubs : \A i \in 1..Len(list[g]) : list[g][i] \in Streams
      BY ListTyped
    <3> QED BY <1>1, <3>1, <3>2 DEF ListWellFormed, Lock, HubTypeOK, Tracked
  <2>4. OpenIsListed'
    BY <1>1 DEF OpenIsListed, Lock, HubTypeOK, Tracked
  <2>5. ClosedIsGone' /\ ClosedIsEnded'
    BY <1>1 DEF ClosedIsGone, ClosedIsEnded, Lock, HubTypeOK, Open, Owners
  <2>6. ClosingIsFinal'
    BY <1>1 DEF ClosingIsFinal, Lock, HubTypeOK, Open, Asking, TrackedIn, Tracked
  <2> QED BY <2>1, <2>2, <2>3, <2>4, <2>5, <2>6
<1>2. ASSUME AskDevice(s)
      PROVE  IInv'
  <2>1. HubTypeOK'
    BY <1>2 DEF HubTypeOK, AskDevice, Refuse, States, Asking, Told
  <2>2. MutexHeld'
    BY <1>2 DEF MutexHeld, HubTypeOK, AskDevice, Refuse, Asking
  <2>3. ListWellFormed'
    <3>1. \A g \in Hubs : \A i \in 1..Len(list[g]) : list[g][i] # s
      BY <1>2 DEF ListWellFormed, AskDevice, Tracked
    <3>2. \A g \in Hubs : \A i \in 1..Len(list[g]) : list[g][i] \in Streams
      BY ListTyped
    <3> QED BY <1>2, <3>1, <3>2 DEF ListWellFormed, AskDevice, Refuse, HubTypeOK, Tracked
  <2>4. OpenIsListed'
    <3>1. /\ list' = list /\ hubOf' = hubOf /\ cause' = cause
          /\ \A r \in Streams : pc'[r] \in Tracked => pc[r] = pc'[r]
      BY <1>2 DEF AskDevice, Refuse, HubTypeOK, Tracked
    <3>2. \A r \in Streams : pc'[r] \in Tracked /\ cause[r] = None =>
              \E i \in 1..Len(list[hubOf[r]]) : list[hubOf[r]][i] = r
      BY <3>1 DEF OpenIsListed
    <3> QED BY <3>1, <3>2 DEF OpenIsListed
  <2>5. ClosedIsGone' /\ ClosedIsEnded'
    BY <1>2 DEF ClosedIsGone, ClosedIsEnded, AskDevice, Refuse, HubTypeOK, Open, Owners
  <2>6. ClosingIsFinal'
    BY <1>2 DEF ClosingIsFinal, AskDevice, Refuse, HubTypeOK, Open, Asking, TrackedIn, Tracked
  <2> QED BY <2>1, <2>2, <2>3, <2>4, <2>5, <2>6
<1>3. ASSUME AskSession(s)
      PROVE  IInv'
  <2>1. HubTypeOK'
    BY <1>3 DEF HubTypeOK, AskSession, Refuse, States, Asking, Told
  <2>2. MutexHeld'
    BY <1>3 DEF MutexHeld, HubTypeOK, AskSession, Refuse, Asking
  <2>3. ListWellFormed'
    <3>1. \A g \in Hubs : \A i \in 1..Len(list[g]) : list[g][i] # s
      BY <1>3 DEF ListWellFormed, AskSession, Tracked
    <3>2. \A g \in Hubs : \A i \in 1..Len(list[g]) : list[g][i] \in Streams
      BY ListTyped
    <3> QED BY <1>3, <3>1, <3>2 DEF ListWellFormed, AskSession, Refuse, HubTypeOK, Tracked
  <2>4. OpenIsListed'
    <3>1. /\ list' = list /\ hubOf' = hubOf /\ cause' = cause
          /\ \A r \in Streams : pc'[r] \in Tracked => pc[r] = pc'[r]
      BY <1>3 DEF AskSession, Refuse, HubTypeOK, Tracked
    <3>2. \A r \in Streams : pc'[r] \in Tracked /\ cause[r] = None =>
              \E i \in 1..Len(list[hubOf[r]]) : list[hubOf[r]][i] = r
      BY <3>1 DEF OpenIsListed
    <3> QED BY <3>1, <3>2 DEF OpenIsListed
  <2>5. ClosedIsGone' /\ ClosedIsEnded'
    BY <1>3 DEF ClosedIsGone, ClosedIsEnded, AskSession, Refuse, HubTypeOK, Open, Owners
  <2>6. ClosingIsFinal'
    BY <1>3 DEF ClosingIsFinal, AskSession, Refuse, HubTypeOK, Open, Asking, TrackedIn, Tracked
  <2> QED BY <2>1, <2>2, <2>3, <2>4, <2>5, <2>6
<1> QED BY <1>1, <1>2, <1>3

(* A step that evicts from hub h for a handler that goes on holding its
   mutex (pc may move within Asking, to a state asked no less). *)
LEMMA EvictKeeps ==
    ASSUME IInv, NEW s \in Streams, pc[s] \in {"sessionOk", "capped"},
           NEW h \in Hubs, NEW i \in 1..Len(list[h]), Evict(h, i),
           pc' = [pc EXCEPT ![s] = "capped"],
           UNCHANGED <<lock, closing, hubOf, client, told, gone, closedIn, shut>>
    PROVE  IInv'
<1> USE DEF IInv
<1>1. /\ list' \in [Hubs -> Seq(Streams)]
      /\ cause' \in [Streams -> Causes \cup {None}]
      /\ \A t \in Streams : cause'[t] = None => cause[t] = None
      /\ \A g \in Hubs :
           /\ \A j \in 1..Len(list'[g]) : \E k \in 1..Len(list[g]) : list'[g][j] = list[g][k]
           /\ \A j, k \in 1..Len(list'[g]) : list'[g][j] = list'[g][k] => j = k
      /\ \A t \in Streams :
           pc[t] \in Tracked /\ cause'[t] = None
               => \E j \in 1..Len(list'[hubOf[t]]) : list'[hubOf[t]][j] = t
  BY EvictStep
<1>2. pc' \in [Streams -> States] /\ pc'[s] = "capped" /\ pc[s] \notin Tracked
      /\ \A t \in Streams : t # s => pc'[t] = pc[t]
  BY DEF HubTypeOK, States, Asking, Tracked
<1>3. HubTypeOK'
  BY <1>1, <1>2 DEF HubTypeOK
<1>4. MutexHeld'
  BY <1>2 DEF MutexHeld, Asking
<1>5. ListWellFormed'
  <2>1. \A g \in Hubs : \A i_1 \in 1..Len(list[g]) : list[g][i_1] # s /\ list[g][i_1] \in Streams
    BY <1>2, ListTyped DEF ListWellFormed
  <2>2. ASSUME NEW g \in Hubs, NEW j \in 1..Len(list'[g])
        PROVE  hubOf'[list'[g][j]] = g /\ pc'[list'[g][j]] \in Tracked
    <3>1. PICK k \in 1..Len(list[g]) : list'[g][j] = list[g][k]
      BY <1>1, <2>2
    <3> QED BY <1>2, <2>1, <3>1 DEF ListWellFormed
  <2> QED BY <1>1, <2>2 DEF ListWellFormed
<1>6. OpenIsListed'
  BY <1>1, <1>2 DEF OpenIsListed, Tracked
<1>7. ClosedIsGone' /\ ClosedIsEnded'
  BY <1>1, <1>2 DEF ClosedIsGone, ClosedIsEnded, Open, Owners
<1>8. ClosingIsFinal'
  BY <1>1, <1>2 DEF ClosingIsFinal, Open, Asking, TrackedIn, Tracked
<1> QED BY <1>3, <1>4, <1>5, <1>6, <1>7, <1>8

(* A step that only moves the handler that holds the mutex on, within Asking
   or to its refusal. *)
LEMMA AskedKeeps ==
    ASSUME IInv, NEW s \in Streams, pc[s] \in {"sessionOk", "capped"},
           \/ pc' = [pc EXCEPT ![s] = "capped"] /\ lock' = lock
           \/ pc' = [pc EXCEPT ![s] = "refused"] /\ lock' = [lock EXCEPT ![hubOf[s]] = None],
           told' \in [Streams -> Told \cup {None}],
           UNCHANGED <<list, cause, closing, hubOf, client, gone, closedIn, shut>>
    PROVE  IInv'
<1> USE DEF IInv
<1>1. HubTypeOK'
  BY DEF HubTypeOK, States, Asking
<1>2. MutexHeld'
  BY DEF MutexHeld, HubTypeOK, Asking
<1>3. ListWellFormed'
  <2>1. \A g \in Hubs : \A i \in 1..Len(list[g]) : list[g][i] # s /\ list[g][i] \in Streams
    BY ListTyped DEF ListWellFormed, Tracked
  <2> QED BY <2>1 DEF ListWellFormed, HubTypeOK
<1>4. OpenIsListed'
  BY DEF OpenIsListed, HubTypeOK, Tracked
<1>5. ClosedIsGone' /\ ClosedIsEnded'
  BY DEF ClosedIsGone, ClosedIsEnded, HubTypeOK, Open, Owners
<1>6. ClosingIsFinal'
  BY DEF ClosingIsFinal, HubTypeOK, Open, Asking, TrackedIn, Tracked
<1> QED BY <1>1, <1>2, <1>3, <1>4, <1>5, <1>6

(* Evicting the oldest stream of a device at its limit keeps the invariant. *)
LEMMA CapDeviceStep ==
    ASSUME IInv, NEW s \in Streams, CapDevice(s)
    PROVE  IInv'
<1>1. hubOf[s] \in Hubs /\ DOMAIN list[hubOf[s]] = 1..Len(list[hubOf[s]])
  BY ListTyped DEF IInv, HubTypeOK
<1>2. CASE \E i \in DOMAIN list[hubOf[s]] : Evict(hubOf[s], i)
  BY <1>1, <1>2, EvictKeeps DEF CapDevice
<1>3. CASE UNCHANGED <<cause, list>>
  BY <1>3, AskedKeeps DEF CapDevice, IInv, HubTypeOK
<1> QED BY <1>2, <1>3 DEF CapDevice

(* So does evicting for a full hub. *)
LEMMA MakeRoomStep ==
    ASSUME IInv, NEW s \in Streams, MakeRoom(s)
    PROVE  IInv'
<1>1. /\ hubOf[s] \in Hubs /\ DOMAIN list[hubOf[s]] = 1..Len(list[hubOf[s]])
      /\ Len(list[hubOf[s]]) \in Nat
  BY ListTyped DEF IInv, HubTypeOK
<1>2. 1 \in 1..Len(list[hubOf[s]])
  BY <1>1, HubAssumption DEF MakeRoom
<1>3. CASE (\E i \in DOMAIN list[hubOf[s]] : Evict(hubOf[s], i)) /\ UNCHANGED <<pc, told, lock>>
  <2>1. pc' = [pc EXCEPT ![s] = "capped"]
    BY <1>3 DEF MakeRoom, IInv, HubTypeOK
  <2> QED BY <1>1, <1>3, <2>1, EvictKeeps DEF MakeRoom
<1>4. CASE Refuse(s, "tooMany") /\ UNCHANGED <<cause, list>>
  <2>1. told' \in [Streams -> Told \cup {None}]
    BY <1>4 DEF Refuse, IInv, HubTypeOK, Told
  <2> QED BY <1>4, <2>1, AskedKeeps DEF MakeRoom, Refuse
<1> QED BY <1>1, <1>2, <1>3, <1>4 DEF MakeRoom

(* So does registering a stream, once there is room for it. *)
LEMMA RegisterStep ==
    ASSUME IInv, NEW s \in Streams, Register(s)
    PROVE  IInv'
<1> DEFINE h == hubOf[s]
           q == list[h]
<1> USE DEF IInv
<1>1. h \in Hubs /\ q \in Seq(Streams) /\ Len(q) \in Nat
  BY ListTyped DEF HubTypeOK
<1>2. /\ Append(q, s) \in Seq(Streams)
      /\ Len(Append(q, s)) = Len(q) + 1
      /\ Append(q, s)[Len(q) + 1] = s
      /\ \A i \in 1..Len(q) : Append(q, s)[i] = q[i]
  BY <1>1
<1>3. /\ list'[h] = Append(q, s) /\ \A g \in Hubs : g # h => list'[g] = list[g]
      /\ list' \in [Hubs -> Seq(Streams)]
  BY <1>1, <1>2 DEF Register, HubTypeOK
<1>4. pc'[s] = "attaching" /\ pc[s] = "capped" /\ lock[h] = s /\ lock'[h] = None
      /\ \A t \in Streams : t # s => pc'[t] = pc[t]
  BY <1>1 DEF Register, HubTypeOK, MutexHeld, Asking
<1>5. \A g \in Hubs : \A i \in 1..Len(list[g]) : list[g][i] # s /\ list[g][i] \in Streams
  BY <1>4, ListTyped DEF ListWellFormed, Tracked
<1>6. HubTypeOK'
  BY <1>3 DEF HubTypeOK, Register, States, Tracked
<1>7. MutexHeld'
  BY <1>4 DEF MutexHeld, Register, HubTypeOK, Asking
<1>8. ListWellFormed'
  <2>1. ASSUME NEW g \in Hubs, NEW j \in 1..Len(list'[g])
        PROVE  hubOf'[list'[g][j]] = g /\ pc'[list'[g][j]] \in Tracked
    <3>1. CASE g = h /\ j = Len(q) + 1
      BY <1>2, <1>3, <1>4, <3>1 DEF Register, Tracked
    <3>2. CASE ~(g = h /\ j = Len(q) + 1)
      <4>1. j \in 1..Len(list[g]) /\ list'[g][j] = list[g][j]
        BY <1>1, <1>2, <1>3, <2>1, <3>2
      <4> QED BY <1>4, <1>5, <4>1 DEF ListWellFormed, Register
    <3> QED BY <3>1, <3>2
  <2>2. ASSUME NEW g \in Hubs, NEW i \in 1..Len(list'[g]), NEW j \in 1..Len(list'[g]),
               list'[g][i] = list'[g][j]
        PROVE  i = j
    <3>1. CASE g = h
      <4>1. i \in 1..(Len(q) + 1) /\ j \in 1..(Len(q) + 1)
        BY <1>2, <1>3, <3>1
      <4>2. Append(q, s)[i] = Append(q, s)[j]
        BY <1>3, <2>2, <3>1
      <4>3. \A k \in 1..Len(q) : q[k] # s
        BY <1>1, <1>5
      <4>4. CASE i \in 1..Len(q) /\ j \in 1..Len(q)
        BY <1>1, <1>2, <4>2, <4>4 DEF ListWellFormed
      <4>5. CASE i = Len(q) + 1 \/ j = Len(q) + 1
        BY <1>1, <1>2, <4>1, <4>2, <4>3, <4>5
      <4> QED BY <1>1, <4>1, <4>4, <4>5
    <3>2. CASE g # h
      BY <1>3, <2>2, <3>2 DEF ListWellFormed
    <3> QED BY <3>1, <3>2
  <2> QED BY <2>1, <2>2 DEF ListWellFormed
<1>9. OpenIsListed'
  <2> SUFFICES ASSUME NEW t \in Streams, pc'[t] \in Tracked, cause'[t] = None
               PROVE  \E j \in 1..Len(list'[hubOf[t]]) : list'[hubOf[t]][j] = t
    BY DEF OpenIsListed, Register
  <2>1. CASE t = s
    BY <1>1, <1>2, <1>3, <2>1
  <2>2. CASE t # s
    <3>1. PICK j \in 1..Len(list[hubOf[t]]) : list[hubOf[t]][j] = t
      BY <1>4, <2>2 DEF OpenIsListed, Register
    <3>2. CASE hubOf[t] = h
      <4>1. j \in 1..Len(list'[h]) /\ list'[h][j] = t
        BY <1>1, <1>2, <1>3, <3>1, <3>2
      <4> QED BY <3>2, <4>1
    <3>3. CASE hubOf[t] # h
      BY <1>3, <3>1, <3>3 DEF HubTypeOK
    <3> QED BY <3>2, <3>3
  <2> QED BY <2>1, <2>2
<1>10. ClosedIsGone' /\ ClosedIsEnded'
  BY <1>4 DEF ClosedIsGone, ClosedIsEnded, Register, HubTypeOK, Open, Owners
<1>11. ClosingIsFinal'
  BY <1>4 DEF ClosingIsFinal, Register, HubTypeOK, Open, Asking, TrackedIn, Tracked
<1> QED BY <1>6, <1>7, <1>8, <1>9, <1>10, <1>11

(* A step that only cancels streams and moves handlers on after Register, so
   that none is open that was not; what ends is no longer open. *)
LEMMA EndingKeeps ==
    ASSUME IInv,
           cause' \in [Streams -> Causes \cup {None}],
           \A s \in Streams : cause'[s] = None => cause[s] = None,
           pc' \in [Streams -> States],
           \A s \in Streams : pc'[s] # pc[s] =>
               \/ pc[s] = "attaching" /\ pc'[s] = "running"
               \/ pc[s] \in {"attaching", "running"} /\ pc'[s] = "closed",
           told' \in [Streams -> Told \cup {None}],
           UNCHANGED <<lock, list, closing, hubOf, client, gone, closedIn, shut>>
    PROVE  IInv'
<1> USE DEF IInv
<1>1. \A s \in Streams : /\ pc'[s] \in Asking <=> pc[s] \in Asking
                         /\ pc'[s] \in Tracked <=> pc[s] \in Tracked
                         /\ pc'[s] \in Asking => pc'[s] = pc[s]
  BY DEF Asking, Tracked
<1>2. \A s \in Streams : Open(s)' => Open(s)
  BY DEF Open
<1>3. HubTypeOK'
  BY DEF HubTypeOK
<1>4. MutexHeld'
  BY <1>1 DEF MutexHeld
<1>5. ListWellFormed'
  <2>1. \A g \in Hubs : \A i \in 1..Len(list[g]) : list[g][i] \in Streams
    BY ListTyped
  <2> QED BY <1>1, <2>1 DEF ListWellFormed
<1>6. OpenIsListed'
  BY <1>1 DEF OpenIsListed
<1>7. ClosedIsGone'
  BY DEF ClosedIsGone
<1>8. ClosedIsEnded'
  <2> SUFFICES ASSUME NEW id \in Ids, NEW s \in Streams, hubOf[s] \in closedIn[id]
               PROVE  /\ pc'[s] = "deviceOk" => client[s].device # id
                      /\ pc'[s] \in {"sessionOk", "capped"} => id \notin Owners(s)
                      /\ id \in Owners(s) => ~Open(s)'
    BY DEF ClosedIsEnded, Owners
  <2> QED BY <1>1, <1>2 DEF ClosedIsEnded, Asking
<1>9. ClosingIsFinal'
  <2>1. \A h \in Hubs : TrackedIn(h)' = TrackedIn(h)
    BY <1>1 DEF TrackedIn
  <2> QED BY <1>1, <1>2, <2>1 DEF ClosingIsFinal
<1> QED BY <1>3, <1>4, <1>5, <1>6, <1>7, <1>8, <1>9

(* So does every step of a stream that leaves the hub's list alone. *)
LEMMA RunningStep ==
    ASSUME IInv, NEW s \in Streams,
           \/ Attached(s) \/ AttachFails(s) \/ ClientGone(s)
           \/ Recheck(s) \/ Exits(s) \/ Cancelled(s)
    PROVE  IInv'
<1>1. HubTypeOK
  BY DEF IInv
<1>2. CASE Attached(s) \/ AttachFails(s) \/ Exits(s) \/ Cancelled(s)
  <2>1. /\ cause' = cause
        /\ pc' \in [Streams -> States]
        /\ \A t \in Streams : pc'[t] # pc[t] =>
             \/ pc[t] = "attaching" /\ pc'[t] = "running"
             \/ pc[t] \in {"attaching", "running"} /\ pc'[t] = "closed"
        /\ told' \in [Streams -> Told \cup {None}]
        /\ UNCHANGED <<lock, list, closing, hubOf, client, gone, closedIn, shut>>
    BY <1>1, <1>2 DEF Attached, AttachFails, Exits, Cancelled, HubTypeOK, States, Tracked, Told, CloseFrame
  <2> QED BY <1>1, <2>1, EndingKeeps DEF HubTypeOK
<1>3. CASE ClientGone(s) \/ Recheck(s)
  <2>1. PICK why \in Causes : cause' = Cancel({s}, why)
    BY <1>3 DEF ClientGone, Recheck, Causes
  <2>2. /\ cause' \in [Streams -> Causes \cup {None}]
        /\ \A t \in Streams : cause'[t] = None => cause[t] = None
    BY <1>1, <2>1, CancelKeeps
  <2>3. UNCHANGED <<lock, list, closing, pc, hubOf, client, told, gone, closedIn, shut>>
    BY <1>3 DEF ClientGone, Recheck
  <2> QED BY <1>1, <2>2, <2>3, EndingKeeps DEF HubTypeOK
<1> QED BY <1>2, <1>3

(* So does a stream leaving the list it is on, whichever place it has. *)
LEMMA UnregisterStep ==
    ASSUME IInv, NEW s \in Streams, Unregister(s)
    PROVE  IInv'
<1> DEFINE h == hubOf[s]
           q == list[h]
<1> USE DEF IInv
<1>1. /\ h \in Hubs /\ q \in Seq(Streams) /\ Len(q) \in Nat /\ DOMAIN q = 1..Len(q)
      /\ \A j, k \in 1..Len(q) : q[j] = q[k] => j = k
  BY ListTyped DEF HubTypeOK, ListWellFormed
<1>2. /\ pc[s] = "closed" /\ pc'[s] = "removed" /\ \A t \in Streams : t # s => pc'[t] = pc[t]
      /\ pc' \in [Streams -> States]
  BY DEF Unregister, HubTypeOK, States
<1>3. /\ cause' \in [Streams -> Causes \cup {None}]
      /\ \A t \in Streams : cause'[t] = None => cause[t] = None
  BY CancelKeeps DEF Unregister, Causes
<1>4. UNCHANGED <<lock, closing, hubOf, client, told, gone, closedIn, shut>>
  BY DEF Unregister
<1>5. /\ list' \in [Hubs -> Seq(Streams)]
      /\ \A g \in Hubs : g # h => list'[g] = list[g]
      /\ \A j \in 1..Len(list'[h]) : list'[h][j] # s /\ \E k \in 1..Len(q) : list'[h][j] = q[k]
      /\ \A j \in 1..Len(q) : q[j] # s => \E k \in 1..Len(list'[h]) : list'[h][k] = q[j]
      /\ \A j, k \in 1..Len(list'[h]) : list'[h][j] = list'[h][k] => j = k
  <2>1. CASE s \in Listed(h)
    <3>1. PICK i \in 1..Len(q) : q[i] = s /\ list' = [list EXCEPT ![h] = RemoveAt(q, i)]
      BY <1>1, <2>1 DEF Unregister, OldestOf
    <3>2. list'[h] = RemoveAt(q, i) /\ \A g \in Hubs : g # h => list'[g] = list[g]
      BY <1>1, <3>1 DEF HubTypeOK
    <3>3. RemoveAt(q, i) \in Seq(Streams)
      BY <1>1, RemoveAtMoves
    <3>4. list' \in [Hubs -> Seq(Streams)]
      BY <3>1, <3>3 DEF HubTypeOK
    <3>5. /\ \A j \in 1..Len(q) : j # i =>
               \E k \in 1..Len(RemoveAt(q, i)) : RemoveAt(q, i)[k] = q[j]
          /\ \A k \in 1..Len(RemoveAt(q, i)) : \E j \in 1..Len(q) : j # i /\ RemoveAt(q, i)[k] = q[j]
      BY <1>1, RemoveAtKeeps
    <3>6. /\ \A j, k \in 1..Len(RemoveAt(q, i)) : RemoveAt(q, i)[j] = RemoveAt(q, i)[k] => j = k
          /\ \A k \in 1..Len(RemoveAt(q, i)) : RemoveAt(q, i)[k] # q[i]
      BY <1>1, RemoveAtDistinct
    <3> DEFINE r == RemoveAt(q, i)
    <3> HIDE DEF r
    <3>7. ASSUME NEW j \in 1..Len(r)
          PROVE  r[j] # s /\ \E k \in 1..Len(q) : r[j] = q[k]
      BY <3>1, <3>5, <3>6, <3>7 DEF r
    <3>8. ASSUME NEW j \in 1..Len(q), q[j] # s
          PROVE  \E k \in 1..Len(r) : r[k] = q[j]
      <4>1. j # i
        BY <3>1, <3>8
      <4> QED BY <3>5, <4>1 DEF r
    <3>9. list'[h] = r
      BY <3>2 DEF r
    <3>10. \A j, k \in 1..Len(r) : r[j] = r[k] => j = k
      BY <3>6 DEF r
    <3> QED BY <3>2, <3>4, <3>7, <3>8, <3>9, <3>10
  <2>2. CASE s \notin Listed(h)
    <3>1. list' = list
      BY <2>2 DEF Unregister
    <3>2. \A j \in 1..Len(q) : q[j] # s
      BY <1>1, <2>2 DEF Listed
    <3> QED BY <1>1, <3>1, <3>2 DEF HubTypeOK
  <2> QED BY <2>1, <2>2
<1>6. \A g \in Hubs : g # h => \A j \in 1..Len(list[g]) : list[g][j] # s
  BY <1>1, ListTyped DEF ListWellFormed
<1>7. HubTypeOK'
  BY <1>2, <1>3, <1>4, <1>5 DEF HubTypeOK
<1>8. MutexHeld'
  BY <1>2, <1>4 DEF MutexHeld, Asking
<1>9. ListWellFormed'
  <2>1. ASSUME NEW g \in Hubs, NEW j \in 1..Len(list'[g])
        PROVE  hubOf'[list'[g][j]] = g /\ pc'[list'[g][j]] \in Tracked
    <3>1. PICK k \in 1..Len(list[g]) : list'[g][j] = list[g][k] /\ list[g][k] # s
      BY <1>5, <1>6, <2>1
    <3>2. list[g][k] \in Streams
      BY ListTyped
    <3> QED BY <1>2, <1>4, <3>1, <3>2 DEF ListWellFormed
  <2>2. \A g \in Hubs : \A j, k \in 1..Len(list'[g]) : list'[g][j] = list'[g][k] => j = k
    BY <1>5 DEF ListWellFormed
  <2> QED BY <2>1, <2>2 DEF ListWellFormed
<1>10. OpenIsListed'
  <2> SUFFICES ASSUME NEW t \in Streams, pc'[t] \in Tracked, cause'[t] = None
               PROVE  \E j \in 1..Len(list'[hubOf[t]]) : list'[hubOf[t]][j] = t
    BY <1>4 DEF OpenIsListed
  <2>1. t # s
    BY <1>2 DEF Tracked
  <2>2. PICK j \in 1..Len(list[hubOf[t]]) : list[hubOf[t]][j] = t
    BY <1>2, <1>3, <2>1 DEF OpenIsListed
  <2>3. CASE hubOf[t] = h
    <3>1. j \in 1..Len(q) /\ q[j] = t
      BY <2>2, <2>3
    <3>2. PICK k \in 1..Len(list'[h]) : list'[h][k] = t
      BY <1>5, <2>1, <3>1
    <3> QED BY <2>3, <3>2
  <2>4. CASE hubOf[t] # h
    BY <1>5, <2>2, <2>4 DEF HubTypeOK
  <2> QED BY <2>3, <2>4
<1>11. ClosedIsGone' /\ ClosedIsEnded'
  BY <1>2, <1>3, <1>4 DEF ClosedIsGone, ClosedIsEnded, Open, Owners
<1>12. ClosingIsFinal'
  BY <1>2, <1>3, <1>4 DEF ClosingIsFinal, Open, Asking, TrackedIn, Tracked
<1> QED BY <1>7, <1>8, <1>9, <1>10, <1>11, <1>12

(* A step that changes neither the streams nor the lists: an identity is
   gone, a shutdown's wait is over. *)
LEMMA BesidesStep ==
    ASSUME IInv,
           \/ \E id \in Ids : MarkGone(id)
           \/ \E h \in Hubs : ShutDone(h) \/ ShutLate(h)
    PROVE  IInv'
<1> USE DEF IInv
<1>1. UNCHANGED <<lock, list, closing, streamVars, closedIn>>
  BY DEF MarkGone, ShutDone, ShutLate
<1>2. gone \subseteq gone' /\ gone' \subseteq Ids
  BY DEF MarkGone, ShutDone, ShutLate, HubTypeOK
<1>3. shut' \in [Hubs -> {"no", "waiting", "done", "late"}]
  BY DEF MarkGone, ShutDone, ShutLate, HubTypeOK
<1>4. HubTypeOK'
  BY <1>1, <1>2, <1>3 DEF HubTypeOK, streamVars
<1>5. MutexHeld' /\ ListWellFormed' /\ OpenIsListed'
  BY <1>1 DEF MutexHeld, ListWellFormed, OpenIsListed, streamVars
<1>6. ClosedIsGone' /\ ClosedIsEnded'
  BY <1>1, <1>2 DEF ClosedIsGone, ClosedIsEnded, streamVars, Owners, Open
<1>7. ClosingIsFinal'
  <2>1. /\ \A h \in Hubs : shut'[h] # "no" => shut[h] # "no"
        /\ \A h \in Hubs : shut'[h] = "done" => TrackedIn(h) = {}
        /\ \A h \in Hubs : shut'[Main] = "done" => shut'[h] = "done"
    <3>1. CASE \E id \in Ids : MarkGone(id)
      BY <3>1 DEF MarkGone, ClosingIsFinal
    <3>2. ASSUME NEW h \in Hubs, ShutDone(h)
          PROVE  <2>1
      BY <3>2, HubAssumption DEF ShutDone, ClosingIsFinal, HubTypeOK, Linked
    <3>3. ASSUME NEW h \in Hubs, ShutLate(h)
          PROVE  <2>1
      BY <3>3, HubAssumption DEF ShutLate, ClosingIsFinal, HubTypeOK, Linked
    <3> QED BY <3>1, <3>2, <3>3
  <2> QED BY <1>1, <2>1 DEF ClosingIsFinal, streamVars, TrackedIn, Open
<1> QED BY <1>4, <1>5, <1>6, <1>7

(* A stream nothing cancelled stands in the list whoever walks it reads. *)
LEMMA OpenInListed ==
    ASSUME IInv, NEW s \in Streams, pc[s] \in Tracked, cause[s] = None
    PROVE  s \in Listed(hubOf[s])
<1>1. hubOf[s] \in Hubs
  BY DEF IInv, HubTypeOK
<1>2. PICK i \in 1..Len(list[hubOf[s]]) : list[hubOf[s]][i] = s
  BY DEF IInv, OpenIsListed
<1> QED BY <1>1, <1>2, ListTyped DEF IInv, Listed

(* While nobody holds a hub's mutex, nobody is asking for a place in it. *)
LEMMA FreeMutexNoAsking ==
    ASSUME IInv, NEW h \in Hubs, lock[h] = None, NEW s \in Streams, hubOf[s] = h
    PROVE  pc[s] \notin Asking
  BY HubAssumption DEF IInv, MutexHeld

(* The closers. *)
LEMMA CloseStep ==
    ASSUME IInv, NEW id \in Ids, NEW h \in Hubs, Close(id, h)
    PROVE  IInv'
<1> DEFINE S == {s \in Listed(h) : id \in Owners(s)}
<1> USE DEF IInv
<1>1. PICK why \in Causes : cause' = Cancel(S, why)
  BY DEF Close, Causes
<1>2. /\ cause' \in [Streams -> Causes \cup {None}]
      /\ \A s \in Streams : cause'[s] = None => cause[s] = None /\ s \notin S
  BY <1>1, CancelKeeps
<1>3. UNCHANGED <<lock, list, closing, pc, hubOf, client, told, gone, shut>>
  BY DEF Close
<1>4. \A s \in Streams : Open(s)' => Open(s) /\ s \notin S
  BY <1>2, <1>3 DEF Open
<1>5. HubTypeOK'
  BY <1>2, <1>3 DEF HubTypeOK, Close
<1>6. MutexHeld' /\ ListWellFormed'
  BY <1>3 DEF MutexHeld, ListWellFormed
<1>7. OpenIsListed'
  BY <1>2, <1>3 DEF OpenIsListed
<1>8. ClosedIsGone'
  BY DEF Close, ClosedIsGone, HubTypeOK
<1>9. ClosedIsEnded'
  <2> SUFFICES ASSUME NEW i \in Ids, NEW s \in Streams, hubOf[s] \in closedIn'[i]
               PROVE  /\ pc[s] = "deviceOk" => client[s].device # i
                      /\ pc[s] \in {"sessionOk", "capped"} => i \notin Owners(s)
                      /\ i \in Owners(s) => ~Open(s)'
    BY <1>3 DEF ClosedIsEnded, Owners
  <2>1. CASE hubOf[s] \in closedIn[i]
    BY <1>4, <2>1 DEF ClosedIsEnded
  <2>2. CASE hubOf[s] \notin closedIn[i]
    <3>1. i = id /\ hubOf[s] = h
      BY <2>2 DEF Close, HubTypeOK
    <3>2. pc[s] \notin Asking
      BY <3>1, FreeMutexNoAsking DEF Close
    <3>3. ASSUME i \in Owners(s), Open(s)'
          PROVE  FALSE
      <4>1. Open(s) /\ s \notin S
        BY <1>4, <3>3
      <4>2. s \in Listed(h)
        BY <3>1, <4>1, OpenInListed DEF Open, Tracked
      <4> QED BY <3>1, <3>3, <4>1, <4>2
    <3> QED BY <3>2, <3>3 DEF Asking
  <2> QED BY <2>1, <2>2
<1>10. ClosingIsFinal'
  BY <1>3, <1>4 DEF ClosingIsFinal, TrackedIn
<1> QED BY <1>5, <1>6, <1>7, <1>8, <1>9, <1>10

(* So does the start of a shutdown, which tells every stream on the list. *)
LEMMA ShutBeginStep ==
    ASSUME IInv, NEW h \in Hubs, ShutBegin(h)
    PROVE  IInv'
<1> USE DEF IInv
<1>1. /\ cause' \in [Streams -> Causes \cup {None}]
      /\ \A s \in Streams : cause'[s] = None => cause[s] = None /\ s \notin Listed(h)
  <2>1. cause' = Cancel(Listed(h), "shutdown") /\ "shutdown" \in Causes
    BY DEF ShutBegin, Causes
  <2> QED BY <2>1, CancelKeeps
<1>2. UNCHANGED <<lock, list, pc, hubOf, client, told, gone, closedIn>>
  BY DEF ShutBegin
<1>3. \A s \in Streams : Open(s)' => Open(s) /\ s \notin Listed(h)
  BY <1>1, <1>2 DEF Open
<1>4. /\ closing' \in [Hubs -> BOOLEAN] /\ closing'[h]
      /\ \A g \in Hubs : g # h => closing'[g] = closing[g] /\ shut'[g] = shut[g]
      /\ shut' \in [Hubs -> {"no", "waiting", "done", "late"}] /\ shut'[h] = "waiting"
      /\ shut[h] = "no"
  BY DEF ShutBegin, HubTypeOK
<1>5. HubTypeOK'
  BY <1>1, <1>2, <1>4 DEF HubTypeOK
<1>6. MutexHeld' /\ ListWellFormed' /\ OpenIsListed'
  BY <1>1, <1>2 DEF MutexHeld, ListWellFormed, OpenIsListed
<1>7. ClosedIsGone' /\ ClosedIsEnded'
  BY <1>2, <1>3 DEF ClosedIsGone, ClosedIsEnded, Owners
<1>8. ClosingIsFinal'
  <2> SUFFICES ASSUME NEW g \in Hubs
               PROVE  /\ shut'[g] # "no" => closing'[g]
                      /\ shut'[g] = "done" => TrackedIn(g)' = {}
                      /\ closing'[g] => \A s \in Streams :
                           hubOf'[s] = g => pc'[s] \notin Asking /\ ~Open(s)'
                      /\ shut'[Main] = "done" => shut'[g] = "done"
    BY DEF ClosingIsFinal
  <2>1. TrackedIn(g)' = TrackedIn(g)
    BY <1>2 DEF TrackedIn
  <2>2. CASE g = h
    <3>1. ASSUME NEW s \in Streams, hubOf[s] = g
          PROVE  pc[s] \notin Asking /\ ~Open(s)'
      BY <1>3, <2>2, <3>1, FreeMutexNoAsking, OpenInListed DEF Open, Tracked, ShutBegin
    <3>2. shut'[Main] # "done"
      BY <1>4, <2>2, HubAssumption DEF ClosingIsFinal
    <3> QED BY <1>2, <1>4, <2>2, <3>1, <3>2
  <2>3. CASE g # h
    <3>1. shut'[Main] = "done" => shut[Main] = "done"
      BY <1>4, HubAssumption
    <3> QED BY <1>2, <1>3, <1>4, <2>1, <2>3, <3>1 DEF ClosingIsFinal
  <2> QED BY <2>2, <2>3
<1> QED BY <1>5, <1>6, <1>7, <1>8

(* The invariant is inductive. *)
THEOREM NextIInv == IInv /\ [HubNext]_hubVars => IInv'
<1> SUFFICES ASSUME IInv, [HubNext]_hubVars PROVE IInv'
  OBVIOUS
<1>1. CASE UNCHANGED hubVars
  <2> USE <1>1 DEF IInv, hubVars
  <2>1. HubTypeOK' /\ MutexHeld'
    BY DEF HubTypeOK, MutexHeld
  <2>2. ListWellFormed' /\ OpenIsListed'
    BY DEF ListWellFormed, OpenIsListed
  <2>3. ClosedIsGone' /\ ClosedIsEnded'
    BY DEF ClosedIsGone, ClosedIsEnded, Owners, Open
  <2>4. ClosingIsFinal'
    BY DEF ClosingIsFinal, Open, TrackedIn
  <2> QED BY <2>1, <2>2, <2>3, <2>4
<1>2. ASSUME NEW s \in Streams, NEW h \in Hubs, NEW c \in Clients, Lock(s, h, c)
      PROVE  IInv'
  BY <1>2, AskingStep
<1>3. ASSUME NEW s \in Streams, Handler(s) \/ ClientGone(s) \/ Exits(s)
      PROVE  IInv'
  BY <1>3, AskingStep, CapDeviceStep, MakeRoomStep, RegisterStep, RunningStep, UnregisterStep
     DEF Handler
<1>4. ASSUME NEW id \in Ids, MarkGone(id) \/ \E h \in Hubs : Close(id, h)
      PROVE  IInv'
  BY <1>4, BesidesStep, CloseStep
<1>5. CASE Shutdown
  BY <1>5, BesidesStep, ShutBeginStep DEF Shutdown
<1> QED BY <1>1, <1>2, <1>3, <1>4, <1>5 DEF HubNext

(* The inductive invariant holds in every state the hub reaches. *)
THEOREM Inductive == HubSpec => []IInv
  BY InitIInv, NextIInv, PTL DEF HubSpec

-----------------------------------------------------------------------------
(* What follows from it.                                                   *)

\* Every variable keeps to what the hubs can hold, for any number of streams.
THEOREM TypeCorrect == HubSpec => []HubTypeOK
<1>1. IInv => HubTypeOK
  BY DEF IInv
<1> QED BY <1>1, Inductive, PTL

\* Whatever the order of a revoke and of the requests in flight, once
\* closeDevice or closeSession returned on a hub no stream of the identity is
\* open there.
THEOREM EndedForGood == HubSpec => []NoStreamOutlivesItsOwner
<1>1. IInv => NoStreamOutlivesItsOwner
  BY DEF IInv, ClosedIsEnded, NoStreamOutlivesItsOwner
<1> QED BY <1>1, Inductive, PTL

\* hub.streams holds every stream that is open and none whose handler
\* returned, so that walking it under the mutex reaches all of them.
THEOREM ListIsComplete == HubSpec => []ListIsWhatRuns
<1>1. IInv => ListIsWhatRuns
  <2> SUFFICES ASSUME IInv, NEW s \in Streams
               PROVE  /\ pc[s] \in Tracked /\ s \notin Listed(hubOf[s]) => cause[s] # None
                      /\ \A h \in Hubs : s \in Listed(h) => hubOf[s] = h /\ pc[s] \in Tracked
    BY DEF ListIsWhatRuns
  <2>1. pc[s] \in Tracked /\ s \notin Listed(hubOf[s]) => cause[s] # None
    BY OpenInListed
  <2>2. ASSUME NEW h \in Hubs, s \in Listed(h)
        PROVE  hubOf[s] = h /\ pc[s] \in Tracked
    <3>1. PICK i \in 1..Len(list[h]) : list[h][i] = s
      BY <2>2, ListTyped DEF IInv, Listed
    <3> QED BY <3>1 DEF IInv, ListWellFormed
  <2> QED BY <2>1, <2>2
<1> QED BY <1>1, Inductive, PTL

\* A shutdown that returns nil leaves no stream in any hub, and a hub that
\* began to shut down opens none.
THEOREM ShutForGood == HubSpec => []ShutdownIsFinal
<1>1. IInv => ShutdownIsFinal
  BY DEF IInv, ClosingIsFinal, ShutdownIsFinal, TrackedIn
<1> QED BY <1>1, Inductive, PTL

\* Only a full client makes a full stream of another device go.
THEOREM ViewHarmless == HubSpec => ViewEvictsOwnOnly
<1> DEFINE Harmless ==
      \A s \in Streams :
         cause[s] = None /\ cause'[s] = "evicted" /\ client[s].role = "full"
           => LET t == lock[hubOf[s]]
              IN  \/ client[t].role = "full" /\ Listed(hubOf[s]) \cap Views = {}
                  \/ client[t].device = client[s].device /\ client[s].device # None
<1>1. IInv /\ [HubNext]_hubVars => [Harmless]_hubVars
  <2> SUFFICES ASSUME IInv, HubNext, NEW s \in Streams,
                      cause[s] = None, cause'[s] = "evicted", client[s].role = "full"
               PROVE  \/ /\ client[lock[hubOf[s]]].role = "full"
                         /\ Listed(hubOf[s]) \cap Views = {}
                      \/ /\ client[lock[hubOf[s]]].device = client[s].device
                         /\ client[s].device # None
    BY DEF Harmless
  <2>1. PICK t \in Streams : CapDevice(t) \/ MakeRoom(t)
    <3>1. None # "evicted"
      BY HubAssumption DEF Causes
    <3>2. \A S, why : cause' = Cancel(S, why) => why = "evicted"
      BY HubAssumption DEF Cancel, Causes
    <3>3. \A t \in Streams : ~(ClientGone(t) \/ Recheck(t) \/ Unregister(t))
      BY <3>2 DEF ClientGone, Recheck, Unregister
    <3>4. \A id \in Ids, h \in Hubs : ~Close(id, h)
      BY <3>2 DEF Close
    <3>5. \A h \in Hubs : ~ShutBegin(h)
      BY <3>2 DEF ShutBegin
    <3> QED BY <3>1, <3>3, <3>4, <3>5
        DEF HubNext, Handler, Shutdown, Lock, AskDevice, AskSession, Register, Attached,
            AttachFails, Exits, Cancelled, MarkGone, ShutDone, ShutLate, streamVars
  <2> DEFINE h == hubOf[t]
  <2>2. /\ h \in Hubs /\ lock[h] = t
        /\ list[h] \in Seq(Streams) /\ DOMAIN list[h] = 1..Len(list[h]) /\ Len(list[h]) \in Nat
    BY <2>1, ListTyped DEF IInv, HubTypeOK, MutexHeld, CapDevice, MakeRoom, Asking
  <2>3. ASSUME NEW i \in 1..Len(list[h]), Evict(h, i)
        PROVE  list[h][i] = s /\ hubOf[s] = h
    <3>1. cause'[s] = IF s \in {list[h][i]} /\ cause[s] = None THEN "evicted" ELSE cause[s]
      BY <2>3 DEF Evict, Cancel
    <3> QED BY <2>2, <3>1, HubAssumption DEF Causes, IInv, ListWellFormed
  <2>4. cause' # cause
    BY HubAssumption DEF Causes
  <2>5. s \notin Views
    BY DEF Views
  <2>6. CASE CapDevice(t)
    <3> DEFINE mine == {u \in Streams : client[u].device = client[t].device}
    <3>1. PICK i \in 1..Len(list[h]) :
            OldestOf(list[h], i, mine) /\ Evict(h, i) /\ client[t].device # None
      BY <2>2, <2>4, <2>6 DEF CapDevice
    <3> QED BY <2>2, <2>3, <3>1 DEF OldestOf
  <2>7. CASE MakeRoom(t)
    <3>1. CASE Listed(h) \cap Views # {}
      <4>1. PICK i \in 1..Len(list[h]) : OldestOf(list[h], i, Views) /\ Evict(h, i)
        BY <2>2, <2>7, <3>1 DEF MakeRoom
      <4> QED BY <2>3, <2>5, <4>1 DEF OldestOf
    <3>2. CASE Listed(h) \cap Views = {}
      <4>1. client[t].role # "view" /\ Evict(h, 1)
        BY <2>4, <2>7, <3>2 DEF MakeRoom
      <4>2. 1 \in 1..Len(list[h])
        BY <2>2, <2>7, HubAssumption DEF MakeRoom
      <4>3. client[t].role \in {"full", "view"}
        BY HubAssumption DEF IInv, HubTypeOK, NoClient
      <4> QED BY <2>2, <2>3, <3>2, <4>1, <4>2, <4>3
    <3> QED BY <3>1, <3>2
  <2> QED BY <2>1, <2>6, <2>7
<1>2. [][Harmless]_hubVars => ViewEvictsOwnOnly
  BY DEF ViewEvictsOwnOnly
<1> HIDE DEF Harmless
<1> QED BY <1>1, <1>2, Inductive, PTL DEF HubSpec
-----------------------------------------------------------------------------
(* The limits: what is counted while a handler holds the mutex.            *)

\* The places of a device in a hub's list.
Places(h, d) == {i \in 1..Len(list[h]) : list[h][i] \in {s \in Streams : client[s].device = d}}

\* A request that did not come in yet is nobody's.
IdleIsNobody == \A s \in Streams : pc[s] = "idle" => client[s] = NoClient

\* A view-only device has at most its limit of places, and one less once its
\* handler has made room for one more.
PlacesBounded ==
    \A h \in Hubs, d \in Devices :
        OnlyViews(d) =>
            /\ Cardinality(Places(h, d)) <= MaxPerDevice
            /\ \A s \in Streams :
                 pc[s] = "capped" /\ hubOf[s] = h /\ client[s].device = d
                     => Cardinality(Places(h, d)) < MaxPerDevice

Counted ==
    /\ IdleIsNobody
    /\ \A h \in Hubs : Len(list[h]) <= MaxStreams[h]
    /\ PlacesBounded

\* The places are counted.
LEMMA PlacesFinite ==
    ASSUME HubTypeOK, NEW h \in Hubs, NEW d
    PROVE  IsFiniteSet(Places(h, d)) /\ Cardinality(Places(h, d)) \in Nat
<1>1. IsFiniteSet(1..Len(list[h])) /\ Places(h, d) \in SUBSET (1..Len(list[h]))
  <2>1. Len(list[h]) \in Int
    BY ListTyped
  <2> QED BY <2>1, FS_Interval DEF Places
<1> QED BY <1>1, FS_Subset, FS_CardinalityType

\* A hub starts with nothing in its list.
LEMMA InitCounted == HubInit => Counted
<1> SUFFICES ASSUME HubInit PROVE Counted
  OBVIOUS
<1>1. \A h \in Hubs : Len(list[h]) = 0
  BY DEF HubInit
<1>2. \A h \in Hubs, d \in Devices : Places(h, d) = {}
  BY <1>1 DEF Places
<1>3. IdleIsNobody /\ \A s \in Streams : pc[s] # "capped"
  BY DEF HubInit, IdleIsNobody
<1>4. Cardinality({}) = 0 /\ MaxPerDevice \in Nat
  BY FS_EmptySet, HubAssumption
<1>5. PlacesBounded
  BY <1>2, <1>3, <1>4 DEF PlacesBounded
<1>6. \A h \in Hubs : Len(list[h]) <= MaxStreams[h]
  BY <1>1, HubAssumption
<1> QED BY <1>3, <1>5, <1>6 DEF Counted

\* Where the list and what the handlers are is left alone, and nobody is let
\* past the limit of a device.
LEMMA SameCounted ==
    ASSUME IInv, Counted,
           UNCHANGED <<list, hubOf, client>>,
           \A s \in Streams : pc'[s] = "capped" => pc[s] = "capped",
           \A s \in Streams : pc'[s] = "idle" => pc[s] = "idle"
    PROVE  Counted'
<1>1. \A d : OnlyViews(d)' = OnlyViews(d) /\ \A h : Places(h, d)' = Places(h, d)
  BY DEF OnlyViews, Views, Places
<1> QED BY <1>1 DEF Counted, IdleIsNobody, PlacesBounded

\* A request comes in: its stream stands in no list.
LEMMA LockCounted ==
    ASSUME IInv, Counted, NEW s \in Streams, NEW h \in Hubs, NEW c \in Clients, Lock(s, h, c)
    PROVE  Counted'
<1>1. /\ pc[s] = "idle" /\ client[s] = NoClient /\ pc'[s] \in {"locked", "refused"}
      /\ \A t \in Streams : t # s => pc'[t] = pc[t] /\ hubOf'[t] = hubOf[t] /\ client'[t] = client[t]
      /\ list' = list
  BY DEF IInv, HubTypeOK, Counted, IdleIsNobody, Lock
<1>2. \A d \in Devices : OnlyViews(d)' => OnlyViews(d)
  BY <1>1, HubAssumption DEF OnlyViews, Views, NoClient
<1>3. \A g \in Hubs, d \in Devices : Places(g, d)' = Places(g, d)
  <2>1. \A g \in Hubs : \A i \in 1..Len(list[g]) : list[g][i] # s
    BY <1>1 DEF IInv, ListWellFormed, Tracked
  <2> QED BY <1>1, <2>1 DEF Places
<1> QED BY <1>1, <1>2, <1>3 DEF Counted, IdleIsNobody, PlacesBounded

\* A position leaves a hub's list: nobody has more places, and the device of
\* the stream in it has fewer.
LEMMA RemovedCounts ==
    ASSUME HubTypeOK, NEW h \in Hubs, NEW i \in 1..Len(list[h]), client' = client,
           list' = [list EXCEPT ![h] = RemoveAt(@, i)]
    PROVE  /\ \A g \in Hubs : Len(list'[g]) <= Len(list[g])
           /\ \A g \in Hubs : \A d :
                /\ Cardinality(Places(g, d)') <= Cardinality(Places(g, d))
                /\ Cardinality(Places(g, d)') \in Nat
           /\ \A d : client[list[h][i]].device = d =>
                Cardinality(Places(h, d)') < Cardinality(Places(h, d))
<1> DEFINE q == list[h]
           r == RemoveAt(q, i)
<1>1. q \in Seq(Streams) /\ Len(q) \in Nat /\ q[i] \in Streams
  BY ListTyped
<1>2. Len(r) = Len(q) - 1
  BY <1>1, RemoveAtMoves
<1>3. list'[h] = r /\ \A g \in Hubs : g # h => list'[g] = list[g]
  BY DEF HubTypeOK
<1>4. ASSUME NEW T
      PROVE  /\ Cardinality({j \in 1..Len(q) : q[j] \in T}) \in Nat
             /\ Cardinality({k \in 1..Len(r) : r[k] \in T}) \in Nat
             /\ Cardinality({k \in 1..Len(r) : r[k] \in T})
                  <= Cardinality({j \in 1..Len(q) : q[j] \in T})
             /\ q[i] \in T => Cardinality({k \in 1..Len(r) : r[k] \in T})
                                < Cardinality({j \in 1..Len(q) : q[j] \in T})
  BY <1>1, RemoveAtCounts
<1>5. ASSUME NEW d
      PROVE  /\ Places(h, d) = {j \in 1..Len(q) : q[j] \in {s \in Streams : client[s].device = d}}
             /\ Places(h, d)' = {k \in 1..Len(r) : r[k] \in {s \in Streams : client[s].device = d}}
  BY <1>3 DEF Places
<1>6. ASSUME NEW g \in Hubs, NEW d, g # h
      PROVE  Places(g, d)' = Places(g, d) /\ Cardinality(Places(g, d)) \in Nat
  BY <1>3, <1>6, PlacesFinite DEF Places
<1> HIDE DEF q, r
<1>7. \A g \in Hubs : Len(list'[g]) <= Len(list[g])
  <2>1. \A g \in Hubs : Len(list[g]) \in Nat
    BY ListTyped
  <2> QED BY <1>1, <1>2, <1>3, <2>1 DEF q
<1>8. ASSUME NEW g \in Hubs, NEW d
      PROVE  /\ Cardinality(Places(g, d)') <= Cardinality(Places(g, d))
             /\ Cardinality(Places(g, d)') \in Nat
  <2>1. CASE g = h
    BY <1>4, <1>5, <2>1
  <2>2. CASE g # h
    BY <1>6, <2>2
  <2> QED BY <2>1, <2>2
<1>9. ASSUME NEW d, client[list[h][i]].device = d
      PROVE  Cardinality(Places(h, d)') < Cardinality(Places(h, d))
  <2>1. q[i] \in {s \in Streams : client[s].device = d}
    BY <1>1, <1>9 DEF q
  <2> QED BY <1>4, <1>5, <2>1 DEF q
<1> QED BY <1>7, <1>8, <1>9

\* Nobody else is at the limit of a hub whose mutex a handler holds.
LEMMA OneCapped ==
    ASSUME IInv, NEW s \in Streams, pc[s] \in Asking,
           NEW t \in Streams, pc[t] = "capped", hubOf[t] = hubOf[s]
    PROVE  t = s
  BY DEF IInv, MutexHeld, Asking

\* A device past its limit loses a place before its handler goes on.
LEMMA CapDeviceCounted ==
    ASSUME IInv, Counted, NEW s \in Streams, CapDevice(s)
    PROVE  Counted'
<1> DEFINE h == hubOf[s]
           mine == {t \in Streams : client[t].device = client[s].device}
<1>1. /\ HubTypeOK /\ h \in Hubs /\ DOMAIN list[h] = 1..Len(list[h])
      /\ pc[s] = "sessionOk" /\ pc' = [pc EXCEPT ![s] = "capped"]
      /\ UNCHANGED <<hubOf, client>>
  BY ListTyped DEF IInv, HubTypeOK, CapDevice
<1>2. Places(h, client[s].device) = {i \in DOMAIN list[h] : list[h][i] \in mine}
  BY <1>1 DEF Places
<1>3. \A d : OnlyViews(d)' = OnlyViews(d)
  BY <1>1 DEF OnlyViews, Views
<1>4. IdleIsNobody'
  BY <1>1 DEF Counted, IdleIsNobody, HubTypeOK
<1>5. \A t \in Streams : pc'[t] = "capped" /\ hubOf[t] = h => t = s
  BY <1>1, OneCapped DEF Asking, HubTypeOK
<1>6. \A t \in Streams : pc'[t] = "capped" /\ hubOf[t] # h => pc[t] = "capped"
  BY <1>1 DEF HubTypeOK
<1>7. \A d \in Devices : OnlyViews(d) /\ client[s].device = d =>
        client[s].role = "view" /\ client[s].device # None
  BY HubAssumption DEF OnlyViews, Views, Ids
<1>8. \A g \in Hubs, d \in Devices :
        Cardinality(Places(g, d)) \in Nat /\ MaxPerDevice \in Nat
  BY <1>1, PlacesFinite, HubAssumption
<1>12. \A g \in Hubs : Len(list[g]) \in Nat /\ MaxStreams[g] \in Nat
  BY <1>1, ListTyped, HubAssumption
<1>9. CASE UNCHANGED list /\ ~(/\ client[s].role = "view"
                               /\ client[s].device # None
                               /\ Cardinality(Places(h, client[s].device)) >= MaxPerDevice)
  <2>1. \A g, d : Places(g, d)' = Places(g, d)
    BY <1>1, <1>9 DEF Places
  <2>2. \A d \in Devices : OnlyViews(d) /\ client[s].device = d =>
          Cardinality(Places(h, d)) < MaxPerDevice
    BY <1>1, <1>7, <1>8, <1>9
  <2>3. PlacesBounded'
    BY <1>1, <1>3, <1>5, <1>6, <2>1, <2>2 DEF Counted, PlacesBounded
  <2> QED BY <1>4, <1>9, <2>3 DEF Counted
<1>10. ASSUME NEW i \in 1..Len(list[h]), list[h][i] \in mine, Evict(h, i)
       PROVE  Counted'
  <2>1. /\ \A g \in Hubs : Len(list'[g]) <= Len(list[g])
        /\ \A g \in Hubs : \A d :
             /\ Cardinality(Places(g, d)') <= Cardinality(Places(g, d))
             /\ Cardinality(Places(g, d)') \in Nat
        /\ \A d : client[s].device = d => Cardinality(Places(h, d)') < Cardinality(Places(h, d))
    <3>1. client[list[h][i]].device = client[s].device
      BY <1>10
    <3> QED BY <1>1, <1>10, <3>1, RemovedCounts DEF Evict
  <2>2. \A g \in Hubs : Len(list'[g]) <= MaxStreams[g]
    <3>1. \A g \in Hubs : list'[g] \in Seq(Streams) /\ Len(list'[g]) \in Nat
      BY <1>1, <1>10, EvictStep, LenProperties DEF IInv
    <3> QED BY <1>12, <2>1, <3>1 DEF Counted
  <2>3. PlacesBounded'
    BY <1>1, <1>3, <1>5, <1>6, <1>8, <2>1 DEF Counted, PlacesBounded
  <2> QED BY <1>4, <2>2, <2>3 DEF Counted
<1>11. \/ UNCHANGED list /\ ~(/\ client[s].role = "view"
                               /\ client[s].device # None
                               /\ Cardinality(Places(h, client[s].device)) >= MaxPerDevice)
       \/ \E i \in 1..Len(list[h]) : list[h][i] \in mine /\ Evict(h, i)
  BY <1>1, <1>2 DEF CapDevice, OldestOf
<1> QED BY <1>9, <1>10, <1>11

\* Eviction from a full hub, the return of a handler: a position is removed,
\* and no handler gets past the limit of a device.
LEMMA RemovalCounted ==
    ASSUME IInv, Counted, NEW h \in Hubs, NEW i \in 1..Len(list[h]),
           list' = [list EXCEPT ![h] = RemoveAt(@, i)],
           UNCHANGED <<hubOf, client>>,
           \A s \in Streams : pc'[s] = "capped" => pc[s] = "capped",
           \A s \in Streams : pc'[s] = "idle" => pc[s] = "idle"
    PROVE  Counted'
<1>1. HubTypeOK /\ \A d : OnlyViews(d)' = OnlyViews(d)
  BY DEF OnlyViews, Views, IInv
<1>2. \A g \in Hubs, d \in Devices :
        Cardinality(Places(g, d)) \in Nat /\ MaxPerDevice \in Nat
  BY <1>1, PlacesFinite, HubAssumption
<1>3. /\ \A g \in Hubs : Len(list'[g]) <= Len(list[g])
      /\ \A g \in Hubs : \A d :
           /\ Cardinality(Places(g, d)') <= Cardinality(Places(g, d))
           /\ Cardinality(Places(g, d)') \in Nat
  BY <1>1, RemovedCounts
<1>4. PlacesBounded'
  BY <1>1, <1>2, <1>3 DEF Counted, PlacesBounded
<1>5. \A g \in Hubs : Len(list'[g]) <= MaxStreams[g]
  <2>1. RemoveAt(list[h], i) \in Seq(Streams)
    BY <1>1, ListTyped, RemoveAtMoves
  <2>2. \A g \in Hubs : list'[g] \in Seq(Streams)
    BY <1>1, <2>1, ListTyped DEF HubTypeOK
  <2>3. \A g \in Hubs : Len(list'[g]) \in Nat /\ Len(list[g]) \in Nat /\ MaxStreams[g] \in Nat
    BY <1>1, <2>2, ListTyped, LenProperties, HubAssumption
  <2> QED BY <1>3, <2>3 DEF Counted
<1> QED BY <1>4, <1>5 DEF Counted, IdleIsNobody

\* A stream is registered where its handler made room for it.
LEMMA RegisterCounted ==
    ASSUME IInv, Counted, NEW s \in Streams, Register(s)
    PROVE  Counted'
<1> DEFINE h == hubOf[s]
           q == list[h]
<1>1. /\ HubTypeOK /\ h \in Hubs /\ q \in Seq(Streams) /\ Len(q) \in Nat
      /\ pc[s] = "capped" /\ pc' = [pc EXCEPT ![s] = "attaching"]
      /\ UNCHANGED <<hubOf, client>>
  BY ListTyped DEF IInv, HubTypeOK, Register
<1>2. /\ Len(Append(q, s)) = Len(q) + 1
      /\ Append(q, s)[Len(q) + 1] = s
      /\ \A i \in 1..Len(q) : Append(q, s)[i] = q[i]
  BY <1>1
<1>3. list'[h] = Append(q, s) /\ \A g \in Hubs : g # h => list'[g] = list[g]
  BY <1>1 DEF Register, HubTypeOK
<1>4. \A d : OnlyViews(d)' = OnlyViews(d)
  BY <1>1 DEF OnlyViews, Views
<1>5. \A g \in Hubs : Len(list'[g]) <= MaxStreams[g]
  BY <1>1, <1>2, <1>3, HubAssumption DEF Counted, Register
<1>6. \A t \in Streams : pc'[t] = "capped" => pc[t] = "capped" /\ hubOf[t] # h
  BY <1>1, OneCapped DEF Asking, HubTypeOK
<1>7. \A g \in Hubs, d \in Devices :
        /\ Cardinality(Places(g, d)) \in Nat /\ MaxPerDevice \in Nat
        /\ IsFiniteSet(Places(g, d))
  BY <1>1, PlacesFinite, HubAssumption
<1>8. \A g \in Hubs, d \in Devices : g # h => Places(g, d)' = Places(g, d)
  BY <1>1, <1>3 DEF Places
<1>9. ASSUME NEW d \in Devices
      PROVE  Places(h, d)' = IF client[s].device = d THEN Places(h, d) \cup {Len(q) + 1}
                             ELSE Places(h, d)
  <2>1. Places(h, d)' = {i \in 1..(Len(q) + 1) :
                           Append(q, s)[i] \in {t \in Streams : client[t].device = d}}
    BY <1>1, <1>2, <1>3 DEF Places
  <2>2. Places(h, d) = {i \in 1..Len(q) : q[i] \in {t \in Streams : client[t].device = d}}
    BY DEF Places
  <2> QED BY <1>1, <1>2, <2>1, <2>2
<1>10. ASSUME NEW d \in Devices, OnlyViews(d)
       PROVE  Cardinality(Places(h, d)') <= MaxPerDevice
  <2>1. CASE client[s].device = d
    <3>1. Cardinality(Places(h, d)) < MaxPerDevice
      BY <1>1, <1>10, <2>1 DEF Counted, PlacesBounded
    <3>3. Places(h, d)' = Places(h, d) \cup {Len(q) + 1}
      BY <1>9, <2>1
    <3>5. IsFiniteSet(Places(h, d)) /\ Cardinality(Places(h, d)) \in Nat
      BY <1>1, <1>7
    <3>2. Cardinality(Places(h, d)') <= Cardinality(Places(h, d)) + 1
      <4> DEFINE P == Places(h, d)
                 n == Len(q) + 1
      <4>1. Places(h, d)' = P \cup {n} /\ IsFiniteSet(P) /\ Cardinality(P) \in Nat
        BY <3>3, <3>5
      <4> HIDE DEF P, n
      <4>2. Cardinality(P \cup {n}) = IF n \in P THEN Cardinality(P) ELSE Cardinality(P) + 1
        BY <4>1, FS_AddElement
      <4>3. Cardinality(P \cup {n}) <= Cardinality(P) + 1
        BY <4>1, <4>2
      <4> QED BY <4>1, <4>3 DEF P
    <3>4. Cardinality(Places(h, d)') \in Nat
      BY <1>1, <1>7, <3>3, FS_AddElement, FS_CardinalityType
    <3> QED BY <1>1, <1>7, <3>1, <3>2, <3>4
  <2>2. CASE client[s].device # d
    BY <1>1, <1>9, <1>10, <2>2 DEF Counted, PlacesBounded
  <2> QED BY <2>1, <2>2
<1>11. PlacesBounded'
  BY <1>1, <1>4, <1>6, <1>8, <1>10 DEF Counted, PlacesBounded
<1> QED BY <1>1, <1>5, <1>11 DEF Counted, IdleIsNobody, HubTypeOK

\* Every step keeps the counts.
LEMMA NextCounted == IInv /\ Counted /\ [HubNext]_hubVars => Counted'
<1> SUFFICES ASSUME IInv, Counted, [HubNext]_hubVars PROVE Counted'
  OBVIOUS
<1>1. HubTypeOK
  BY DEF IInv
<1>2. CASE UNCHANGED hubVars
  BY <1>2, SameCounted DEF hubVars
<1>3. ASSUME NEW s \in Streams, NEW h \in Hubs, NEW c \in Clients, Lock(s, h, c)
      PROVE  Counted'
  BY <1>3, LockCounted
<1>4. ASSUME NEW s \in Streams,
             \/ AskDevice(s) \/ AskSession(s) \/ Attached(s) \/ AttachFails(s)
             \/ Recheck(s) \/ Cancelled(s) \/ ClientGone(s) \/ Exits(s)
      PROVE  Counted'
  <2>1. /\ UNCHANGED <<list, hubOf, client>>
        /\ \A t \in Streams : pc'[t] = "capped" => pc[t] = "capped"
        /\ \A t \in Streams : pc'[t] = "idle" => pc[t] = "idle"
    BY <1>1, <1>4 DEF HubTypeOK, AskDevice, AskSession, Refuse, Attached, AttachFails, Recheck,
                      Cancelled, ClientGone, Exits
  <2> QED BY <2>1, SameCounted
<1>5. ASSUME NEW s \in Streams, MakeRoom(s)
      PROVE  Counted'
  <2>1. /\ hubOf[s] \in Hubs /\ DOMAIN list[hubOf[s]] = 1..Len(list[hubOf[s]])
        /\ Len(list[hubOf[s]]) \in Nat
        /\ UNCHANGED <<hubOf, client>>
        /\ \A t \in Streams : pc'[t] = "capped" => pc[t] = "capped"
        /\ \A t \in Streams : pc'[t] = "idle" => pc[t] = "idle"
    BY <1>1, <1>5, ListTyped DEF HubTypeOK, MakeRoom, Refuse
  <2>2. 1 \in 1..Len(list[hubOf[s]])
    BY <1>5, <2>1, HubAssumption DEF MakeRoom
  <2>3. CASE \E i \in 1..Len(list[hubOf[s]]) : Evict(hubOf[s], i)
    BY <2>1, <2>3, RemovalCounted DEF Evict
  <2>4. CASE UNCHANGED list
    BY <2>1, <2>4, SameCounted
  <2> QED BY <1>5, <2>1, <2>2, <2>3, <2>4 DEF MakeRoom
<1>6. ASSUME NEW s \in Streams, Unregister(s)
      PROVE  Counted'
  <2>1. /\ hubOf[s] \in Hubs /\ DOMAIN list[hubOf[s]] = 1..Len(list[hubOf[s]])
        /\ UNCHANGED <<hubOf, client>>
        /\ \A t \in Streams : pc'[t] = "capped" => pc[t] = "capped"
        /\ \A t \in Streams : pc'[t] = "idle" => pc[t] = "idle"
    BY <1>1, <1>6, ListTyped DEF HubTypeOK, Unregister
  <2>2. CASE UNCHANGED list
    BY <2>1, <2>2, SameCounted
  <2>3. CASE \E i \in 1..Len(list[hubOf[s]]) :
               list' = [list EXCEPT ![hubOf[s]] = RemoveAt(@, i)]
    BY <2>1, <2>3, RemovalCounted
  <2> QED BY <1>6, <2>1, <2>2, <2>3 DEF Unregister
<1>7. ASSUME NEW s \in Streams, CapDevice(s) \/ Register(s)
      PROVE  Counted'
  BY <1>7, CapDeviceCounted, RegisterCounted
<1>8. CASE (\E id \in Ids : MarkGone(id) \/ \E h \in Hubs : Close(id, h)) \/ Shutdown
  <2>1. UNCHANGED <<list, hubOf, client, pc>>
    BY <1>8 DEF MarkGone, Close, Shutdown, ShutBegin, ShutDone, ShutLate, streamVars
  <2> QED BY <2>1, SameCounted
<1> QED BY <1>2, <1>3, <1>4, <1>5, <1>6, <1>7, <1>8 DEF HubNext, Handler

\* No hub keeps more streams than its limit, nor more of one view-only device
\* than that device's, whatever is evicted, revoked or ends in between.
THEOREM LimitsHold == HubSpec => []HubBounded
<1>1. IInv /\ Counted => HubBounded
  <2> SUFFICES ASSUME IInv, Counted, NEW h \in Hubs, NEW d \in Devices, OnlyViews(d)
               PROVE  Cardinality({s \in Listed(h) : client[s].device = d}) <= MaxPerDevice
    BY DEF Counted, HubBounded
  <2> DEFINE P == Places(h, d)
             T == {s \in Listed(h) : client[s].device = d}
             f == [i \in P |-> list[h][i]]
  <2>1. /\ IsFiniteSet(P) /\ Cardinality(P) \in Nat /\ Cardinality(P) <= MaxPerDevice
        /\ MaxPerDevice \in Nat
    BY PlacesFinite, HubAssumption DEF IInv, Counted, PlacesBounded
  <2>2. f \in Surjection(P, T)
    <3>1. DOMAIN list[h] = 1..Len(list[h]) /\ \A i \in 1..Len(list[h]) : list[h][i] \in Streams
      BY ListTyped DEF IInv
    <3>2. f \in [P -> T]
      BY <3>1 DEF Places, Listed
    <3>3. \A t \in T : \E i \in P : f[i] = t
      BY <3>1 DEF Places, Listed
    <3> QED BY <3>2, <3>3 DEF Surjection
  <2> HIDE DEF P, f
  <2>3. IsFiniteSet(T) /\ Cardinality(T) <= Cardinality(P)
    BY <2>1, <2>2, FS_Surjection
  <2>4. Cardinality(T) \in Nat
    BY <2>3, FS_CardinalityType
  <2> QED BY <2>1, <2>3, <2>4
<1>2. HubSpec => []Counted
  BY InitCounted, NextCounted, Inductive, PTL DEF HubSpec
<1> QED BY <1>1, <1>2, Inductive, PTL
=============================================================================
