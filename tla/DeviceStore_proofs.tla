------------------------ MODULE DeviceStore_proofs ------------------------
(***************************************************************************)
(* What TLAPS proves of DeviceStore, for every set of processes, devices   *)
(* and sessions and every assignment of passwords to processes: its type   *)
(* invariant, that the file keeps DeviceRegistry's promise, that a swept   *)
(* creator pairs nothing, and that a device once found gone stays gone.    *)
(***************************************************************************)
EXTENDS DeviceStore, TLAPS

-----------------------------------------------------------------------------
(* The inductive invariant.                                                *)

Paired == {d \in Devices : by[d] # None}
Makers == Sessions \cup {Password}

\* From the read of the file to its read back a process holds devices.lock.
LockHeld == \A p \in Procs : step[p] \in Locked => flock = p

\* A process that makes a change has no lookup reading the file meanwhile.
MuHeld == \A p \in loading : step[p] \notin {"read", "written"}

\* A process that does not run makes no change and remembers nothing.
DownIsEmpty ==
    \A p \in Procs \ up :
        step[p] = "idle" /\ mem[p] = {} /\ lost[p] = {} /\ p \notin loading

\* What a change was asked to do.
AddAsked(p) ==
    LET j == job[p]
    IN  /\ j.id \in Devices /\ j.by \in Creators
        /\ step[p] # "written" => by[j.id] = None
        /\ j.by \in Sessions => Home[j.by] = p
        /\ j.by \in Devices => by[j.by] \in Makers /\ gen[j.by] = Gen[p]

JobAsked ==
    \A p \in Procs : step[p] # "idle" =>
        /\ job[p] \in Changes
        /\ job[p].kind = "add" => AddAsked(p)
        /\ job[p].kind \in {"revoke", "cascade"} => job[p].id \in Devices
        /\ job[p].kind = "sweep" =>
             job[p].by \in Sessions /\ (job[p].out => job[p].by \notin live)

NoJob == \A p \in Procs : step[p] = "idle" => job[p] = None

\* Two changes never add the same device.
AddsDiffer ==
    \A p, q \in Procs :
        /\ p # q /\ step[p] # "idle" /\ step[q] # "idle"
        /\ job[p].kind = "add" /\ job[q].kind = "add"
        => job[p].id # job[q].id

\* What was once in the file has a creator, of its own password, and a device
\* that paired another was itself paired by a person.
Lineage ==
    /\ file \subseteq Paired
    /\ \A p \in Procs : mem[p] \cup seen[p] \cup lost[p] \subseteq Paired
    /\ \A d \in Paired :
         /\ by[d] \in Sessions => gen[d] = Gen[Home[by[d]]]
         /\ by[d] \in Devices => by[by[d]] \in Makers /\ gen[d] = gen[by[d]]

\* Between its read and its write a change holds what it would compute now.
ReadHolds(p) ==
    step[p] = "read" =>
        /\ next[p] = Outcome(p, job[p], file)
        /\ job[p].kind = "add" =>
             /\ job[p].by \in Devices => job[p].by \in file
             /\ job[p].by \notin swept
             /\ HasRoom(p, file)
        /\ job[p].kind \in {"revoke", "cascade"} => job[p].id \in LiveIn(p, file)
ReadIsFile == \A p \in Procs : ReadHolds(p)

\* Between its write and its return the file is what it wrote, without the
\* ones it sweeps.
WrittenHolds(p) ==
    step[p] = "written" =>
        /\ file = next[p].keep
        /\ SweptBy(p) \subseteq Sessions \cup Paired
        /\ SweptBy(p) \cap file = {}
        /\ \A d \in file : by[d] \notin SweptBy(p)
WrittenIsFile == \A p \in Procs : WrittenHolds(p)

\* Who was swept is gone, and so are the devices it paired.
SweptIsGone ==
    /\ swept \subseteq Sessions \cup Paired
    /\ swept \cap live = {} /\ swept \cap file = {}
    /\ \A d \in file : by[d] \notin swept

\* A device found gone is neither in the file nor in what a lookup has read;
\* what a lookup will find gone has left the file for good.
LostIsGone ==
    \A p \in Procs :
        /\ lost[p] \cap file = {} /\ lost[p] \cap mem[p] = {}
        /\ p \in loading => lost[p] \cap seen[p] = {} /\ (mem[p] \ seen[p]) \cap file = {}

IInv ==
    /\ TypeOK
    /\ LockHeld
    /\ MuHeld
    /\ DownIsEmpty
    /\ JobAsked
    /\ NoJob
    /\ AddsDiffer
    /\ Lineage
    /\ ReadIsFile
    /\ WrittenIsFile
    /\ SweptIsGone
    /\ LostIsGone

-----------------------------------------------------------------------------
(* Lemmas about the operations.                                            *)

(* A change that is asked for is well typed, and says what was asked. *)
LEMMA AskedTyped ==
    ASSUME NEW kind \in Kinds, NEW d \in Devices \cup {None}, NEW c \in Creators \cup {None}
    PROVE  /\ Asked(kind, d, c) \in Changes
           /\ Asked(kind, d, c).kind = kind /\ Asked(kind, d, c).id = d /\ Asked(kind, d, c).by = c
  BY DEF Asked, Changes

(* The change a sweep asks for is well formed. *)
LEMMA SweepTyped ==
    ASSUME NEW s \in Sessions, NEW out \in BOOLEAN
    PROVE  LET j == [Asked("sweep", None, s) EXCEPT !.out = out]
           IN  j \in Changes /\ j.kind = "sweep" /\ j.by = s /\ j.out = out
  BY DEF Asked, Changes, Kinds, Creators

(* A change that did nothing has a well-formed outcome. *)
LEMMA NoOutcomeTyped == NoOutcome \in Outcomes
  BY DEF NoOutcome, Outcomes

(* What a change reports is well formed. *)
LEMMA OutcomeTyped ==
    ASSUME NEW p \in Procs, NEW S \in SUBSET Devices, NEW j \in Changes,
           j.kind = "add" => j.id \in Devices
    PROVE  Outcome(p, j, S) \in Outcomes
<1>1. Removed(p, j, S) \in SUBSET Devices
  BY DEF Removed
<1>2. (S \ Removed(p, j, S)) \cup (IF j.kind = "add" THEN {j.id} ELSE {}) \in SUBSET Devices
  OBVIOUS
<1> QED BY <1>1, <1>2 DEF Outcome, Outcomes

(* Recording uses keeps every device. *)
LEMMA FlushOutcome ==
    ASSUME NEW p \in Procs, NEW S \in SUBSET Devices
    PROVE  [keep |-> S, gone |-> {}] = Outcome(p, Asked("flush", None, None), S)
<1>1. Asked("flush", None, None).kind = "flush"
  BY DEF Asked
<1>2. Removed(p, Asked("flush", None, None), S) = {}
  BY <1>1 DEF Removed
<1> QED BY <1>1, <1>2 DEF Outcome

(* What a change computes is the same while the file and the change are. *)
LEMMA SameOutcome ==
    ASSUME UNCHANGED fileVars, NEW p \in Procs, job'[p] = job[p], next'[p] = next[p]
    PROVE  /\ Outcome(p, job[p], file)' = Outcome(p, job[p], file)
           /\ LiveIn(p, file)' = LiveIn(p, file)
           /\ HasRoom(p, file)' = HasRoom(p, file)
           /\ SweptBy(p)' = SweptBy(p)
<1>1. LiveIn(p, file)' = LiveIn(p, file)
  BY DEF LiveIn, fileVars
<1>2. SweptBy(p)' = SweptBy(p)
  BY DEF SweptBy, fileVars
<1>3. (Removed(p, job[p], file))' = Removed(p, job[p], file)
  BY DEF Removed, LiveIn, PairedBy, MadeBySession, fileVars
<1>4. Outcome(p, job[p], file)' = Outcome(p, job[p], file)
  BY <1>3 DEF Outcome, fileVars
<1>5. HasRoom(p, file)' = HasRoom(p, file)
  BY <1>1 DEF HasRoom
<1> QED BY <1>1, <1>2, <1>4, <1>5

(* A process that a step leaves where it was, or takes out of its change,
   holds what it held. *)
LEMMA ProcHolds ==
    ASSUME ReadIsFile, WrittenIsFile, UNCHANGED fileVars, swept' \subseteq swept,
           NEW q \in Procs,
           step'[q] \in {"read", "written"} =>
               step'[q] = step[q] /\ job'[q] = job[q] /\ next'[q] = next[q]
    PROVE  ReadHolds(q)' /\ WrittenHolds(q)'
<1>1. ASSUME step'[q] = "read" PROVE ReadHolds(q)'
  <2>1. step[q] = "read" /\ job'[q] = job[q] /\ next'[q] = next[q]
    BY <1>1
  <2>2. /\ Outcome(q, job[q], file)' = Outcome(q, job[q], file)
        /\ LiveIn(q, file)' = LiveIn(q, file)
        /\ HasRoom(q, file)' = HasRoom(q, file)
    BY <2>1, SameOutcome
  <2> QED BY <2>1, <2>2 DEF ReadIsFile, ReadHolds, fileVars
<1>2. ASSUME step'[q] = "written" PROVE WrittenHolds(q)'
  <2>1. step[q] = "written" /\ job'[q] = job[q] /\ next'[q] = next[q]
    BY <1>2
  <2>2. SweptBy(q)' = SweptBy(q) /\ Paired' = Paired
    BY <2>1, SameOutcome DEF Paired, fileVars
  <2> QED BY <2>1, <2>2 DEF WrittenIsFile, WrittenHolds, fileVars
<1> QED BY <1>1, <1>2 DEF ReadHolds, WrittenHolds

(* While the file stays, a process that took no step still holds the text
   it read and wrote. *)
LEMMA OthersHold ==
    ASSUME ReadIsFile, WrittenIsFile, UNCHANGED fileVars, swept' \subseteq swept,
           \A q \in Procs : step'[q] \in {"read", "written"} =>
               step'[q] = step[q] /\ job'[q] = job[q] /\ next'[q] = next[q]
    PROVE  ReadIsFile' /\ WrittenIsFile'
  BY ProcHolds DEF ReadIsFile, WrittenIsFile

(* While a process is between its read and its read back no other is. *)
LEMMA Alone ==
    ASSUME LockHeld, NEW p \in Procs, step[p] \in Locked, NEW q \in Procs, q # p
    PROVE  step[q] \notin Locked
  BY DEF LockHeld

(* What p remembers once it keeps S. *)
LEMMA Kept ==
    ASSUME TypeOK, NEW p \in Procs, NEW S \in SUBSET Devices, Keep(p, S)
    PROVE  /\ mem' \in [Procs -> SUBSET Devices] /\ lost' \in [Procs -> SUBSET Devices]
           /\ mem'[p] = S
           /\ \A d \in lost'[p] : d \in lost[p] \/ (d \in mem[p] /\ d \notin S)
           /\ \A q \in Procs : q # p => mem'[q] = mem[q] /\ lost'[q] = lost[q]
  BY DEF Keep, LiveIn, TypeOK

(* What a process that revoked the devices of a creator keeps has none of
   them, and none of the swept ones. *)
LEMMA SweepIsWhole ==
    ASSUME IInv, NEW p \in Procs, step[p] = "read"
    PROVE  /\ SweptBy(p) \subseteq Sessions \cup Paired
           /\ SweptBy(p) \cap next[p].keep = {}
           /\ \A d \in next[p].keep : d \in file => by[d] \notin SweptBy(p)
<1> DEFINE j == job[p]
<1>1. /\ next[p].keep = (file \ Removed(p, j, file)) \cup (IF j.kind = "add" THEN {j.id} ELSE {})
      /\ next[p].gone = Removed(p, j, file)
  <2>1. next[p] = Outcome(p, j, file)
    BY DEF IInv, ReadIsFile, ReadHolds
  <2> QED BY <2>1 DEF Outcome
<1>2. \A d \in file : /\ d \in Devices /\ by[d] # None
                      /\ by[d] \in Sessions => gen[d] = Gen[Home[by[d]]]
                      /\ by[d] \in Devices => gen[d] = gen[by[d]]
  BY DEF IInv, Lineage, Paired
<1>3. CASE j.kind = "cascade"
  <2>1. SweptBy(p) \subseteq {j.id} /\ j.id \in file /\ gen[j.id] = Gen[p]
    BY <1>3 DEF SweptBy, IInv, ReadIsFile, ReadHolds, LiveIn
  <2>2. next[p].keep = file \ Removed(p, j, file)
    BY <1>1, <1>3
  <2>3. \A d \in file : d = j.id \/ by[d] = j.id => d \in Removed(p, j, file)
    BY <1>2, <1>3, <2>1 DEF Removed, PairedBy, LiveIn
  <2> QED BY <1>2, <2>1, <2>2, <2>3 DEF Paired
<1>4. CASE j.kind = "sweep"
  <2>1. j.by \in Sessions /\ j.by \notin Devices
    BY <1>4, StoreAssumption DEF IInv, JobAsked
  <2>2. next[p].keep = file \ Removed(p, j, file)
    BY <1>1, <1>4
  <2>3. \A d \in Removed(p, j, file) : d \in file /\ gen[d] = Gen[p]
    BY <1>4 DEF Removed, PairedBy, MadeBySession, LiveIn
  <2>4. \A d \in file : by[d] = j.by /\ gen[d] = Gen[p] => d \in Removed(p, j, file)
    BY <1>4 DEF Removed, MadeBySession, PairedBy, LiveIn
  <2>5. \A c, d \in file : by[c] = j.by /\ gen[c] = Gen[p] /\ by[d] = c => d \in Removed(p, j, file)
    BY <1>2, <1>4 DEF Removed, MadeBySession, PairedBy, LiveIn
  <2>6. ASSUME NEW c \in SweptBy(p)
        PROVE  \/ c = j.by /\ Gen[Home[c]] = Gen[p]
               \/ c \in Removed(p, j, file) /\ by[c] = j.by
    BY <1>1, <1>4 DEF SweptBy
  <2>7. ASSUME NEW c \in SweptBy(p)
        PROVE  /\ c \in Sessions \cup Paired
               /\ c \notin next[p].keep
               /\ \A d \in next[p].keep : by[d] # c
    <3>1. CASE c = j.by /\ Gen[Home[c]] = Gen[p]
      BY <1>2, <2>1, <2>2, <2>4, <3>1
    <3>2. CASE c \in Removed(p, j, file) /\ by[c] = j.by
      BY <1>2, <2>2, <2>3, <2>5, <3>2 DEF Paired
    <3> QED BY <2>6, <2>7, <3>1, <3>2
  <2> QED BY <2>7
<1>5. CASE j.kind \notin {"cascade", "sweep"}
  BY <1>5 DEF SweptBy
<1> QED BY <1>3, <1>4, <1>5

(* What a write does: it adds one device nobody had, or takes devices out. *)
LEMMA WriteEffect ==
    ASSUME IInv, NEW p \in Procs, Write(p)
    PROVE  /\ job[p].kind = "add" =>
                /\ file' = file \cup {job[p].id}
                /\ job[p].id \in Devices /\ by[job[p].id] = None
                /\ job[p].by \in Creators
           /\ job[p].kind # "add" =>
                /\ file' = file \ Removed(p, job[p], file)
                /\ Removed(p, job[p], file) \subseteq file /\ file' \subseteq file
                /\ by' = by /\ gen' = gen
           /\ next[p].keep \in SUBSET Devices /\ file' = next[p].keep
<1>1. /\ file' = (file \ Removed(p, job[p], file))
                     \cup (IF job[p].kind = "add" THEN {job[p].id} ELSE {})
      /\ file' = next[p].keep
  <2>1. next[p] = Outcome(p, job[p], file) /\ file' = next[p].keep
    BY DEF Write, IInv, ReadIsFile, ReadHolds
  <2> QED BY <2>1 DEF Outcome
<1>2. next[p].keep \in SUBSET Devices
  BY DEF IInv, TypeOK, Outcomes
<1>3. CASE job[p].kind = "add"
  <2>1. Removed(p, job[p], file) = {}
    BY <1>3 DEF Removed
  <2> QED BY <1>1, <1>2, <1>3, <2>1 DEF Write, IInv, JobAsked, AddAsked
<1>4. CASE job[p].kind # "add"
  <2>1. Removed(p, job[p], file) \subseteq file
    BY DEF Removed
  <2>2. by' = by /\ gen' = gen
    BY <1>4 DEF Write
  <2> QED BY <1>1, <1>2, <1>4, <2>1, <2>2
<1> QED BY <1>3, <1>4

-----------------------------------------------------------------------------
(* Every step keeps the invariant.                                         *)

(* StartAdd keeps the invariant. *)
LEMMA StartAddKeeps ==
    ASSUME IInv, NEW p \in Procs, NEW d \in Devices, NEW c \in Creators, StartAdd(p, d, c)
    PROVE  IInv'
<1> USE StoreAssumption DEF IInv, StartAdd, Start, BeingAdded, fileVars, memVars, jobVars, readVars
<1>0. /\ Asked("add", d, c) \in Changes /\ job' = [job EXCEPT ![p] = Asked("add", d, c)]
      /\ Asked("add", d, c).kind = "add" /\ Asked("add", d, c).id = d /\ Asked("add", d, c).by = c
  BY AskedTyped DEF Kinds
<1>1. TypeOK'
  BY AskedTyped DEF TypeOK, Steps, Kinds
<1>2. LockHeld' /\ MuHeld' /\ DownIsEmpty' /\ NoJob'
  BY DEF LockHeld, MuHeld, DownIsEmpty, NoJob, TypeOK, Locked
<1>3. JobAsked' /\ AddsDiffer'
  <2>1. JobAsked'
    <3> SUFFICES ASSUME NEW q \in Procs, step'[q] # "idle"
                 PROVE  /\ job'[q] \in Changes
                        /\ job'[q].kind = "add" => AddAsked(q)'
                        /\ job'[q].kind \in {"revoke", "cascade"} => job'[q].id \in Devices
                        /\ job'[q].kind = "sweep" =>
                             job'[q].by \in Sessions /\ (job'[q].out => job'[q].by \notin live')
      BY DEF JobAsked
    <3>1. CASE q = p
      BY <1>0, <3>1 DEF AddAsked, Makers, TypeOK
    <3>2. CASE q # p
      BY <3>2 DEF JobAsked, AddAsked, TypeOK
    <3> QED BY <3>1, <3>2
  <2>2. AddsDiffer'
    <3>1. \A q \in Procs : step[q] # "idle" => job[q] # None
      BY DEF JobAsked
    <3> QED BY <1>0, <3>1 DEF AddsDiffer, TypeOK
  <2> QED BY <2>1, <2>2
<1>4. Lineage'
  BY DEF Lineage, Paired, TypeOK
<1>5. ReadIsFile' /\ WrittenIsFile'
  BY OthersHold DEF TypeOK
<1>6. SweptIsGone'
  BY DEF SweptIsGone, Paired, TypeOK
<1>7. LostIsGone'
  BY DEF LostIsGone, TypeOK
<1> QED BY <1>1, <1>2, <1>3, <1>4, <1>5, <1>6, <1>7

(* StartRevoke keeps the invariant. *)
LEMMA StartRevokeKeeps ==
    ASSUME IInv, NEW p \in Procs, NEW d \in Devices, NEW kind \in {"revoke", "cascade"}, StartRevoke(p, d, kind)
    PROVE  IInv'
<1> USE StoreAssumption DEF IInv, StartRevoke, Start, fileVars, memVars, jobVars, readVars
<1>1. TypeOK'
  BY AskedTyped DEF TypeOK, Steps, Kinds
<1>2. LockHeld' /\ MuHeld' /\ DownIsEmpty' /\ NoJob'
  BY DEF LockHeld, MuHeld, DownIsEmpty, NoJob, TypeOK, Locked
<1>3. JobAsked' /\ AddsDiffer'
  BY AskedTyped DEF JobAsked, AddAsked, AddsDiffer, Makers, TypeOK, Kinds
<1>4. Lineage'
  BY DEF Lineage, Paired, TypeOK
<1>5. ReadIsFile' /\ WrittenIsFile'
  BY OthersHold DEF TypeOK
<1>6. SweptIsGone'
  BY DEF SweptIsGone, Paired, TypeOK
<1>7. LostIsGone'
  BY DEF LostIsGone, TypeOK
<1> QED BY <1>1, <1>2, <1>3, <1>4, <1>5, <1>6, <1>7

(* StartSweep keeps the invariant. *)
LEMMA StartSweepKeeps ==
    ASSUME IInv, NEW p \in Procs, NEW s \in Sessions, StartSweep(p, s)
    PROVE  IInv'
<1> USE StoreAssumption DEF IInv, StartSweep, Start, fileVars, memVars, jobVars, readVars
<1> DEFINE j == [Asked("sweep", None, s) EXCEPT !.out = s \notin live']
<1>0. j \in Changes /\ j.kind = "sweep" /\ j.by = s /\ j.out = (s \notin live') /\ job' = [job EXCEPT ![p] = j]
  BY SweepTyped
<1> HIDE DEF j
<1>1. TypeOK'
  BY <1>0 DEF TypeOK, Steps
<1>2. LockHeld' /\ MuHeld' /\ DownIsEmpty' /\ NoJob'
  BY DEF LockHeld, MuHeld, DownIsEmpty, NoJob, TypeOK, Locked
<1>3. JobAsked' /\ AddsDiffer'
  <2>1. live' \subseteq live
    OBVIOUS
  <2>2. JobAsked'
    <3> SUFFICES ASSUME NEW q \in Procs, step'[q] # "idle"
                 PROVE  /\ job'[q] \in Changes
                        /\ job'[q].kind = "add" => AddAsked(q)'
                        /\ job'[q].kind \in {"revoke", "cascade"} => job'[q].id \in Devices
                        /\ job'[q].kind = "sweep" =>
                             job'[q].by \in Sessions /\ (job'[q].out => job'[q].by \notin live')
      BY DEF JobAsked
    <3>1. CASE q = p
      BY <1>0, <3>1 DEF TypeOK
    <3>2. CASE q # p
      BY <1>0, <2>1, <3>2 DEF JobAsked, AddAsked, TypeOK
    <3> QED BY <3>1, <3>2
  <2>3. AddsDiffer'
    <3>1. \A q \in Procs : q # p => step'[q] = step[q] /\ job'[q] = job[q]
      BY <1>0 DEF TypeOK
    <3>2. job'[p].kind # "add"
      BY <1>0 DEF TypeOK
    <3> QED BY <3>1, <3>2 DEF AddsDiffer
  <2> QED BY <2>2, <2>3
<1>4. Lineage'
  BY DEF Lineage, Paired, TypeOK
<1>5. ReadIsFile' /\ WrittenIsFile'
  BY OthersHold DEF TypeOK
<1>6. SweptIsGone'
  BY DEF SweptIsGone, Paired, TypeOK
<1>7. LostIsGone'
  BY DEF LostIsGone, TypeOK
<1> QED BY <1>1, <1>2, <1>3, <1>4, <1>5, <1>6, <1>7

(* StartPrune keeps the invariant. *)
LEMMA StartPruneKeeps ==
    ASSUME IInv, NEW p \in Procs, StartPrune(p)
    PROVE  IInv'
<1> USE StoreAssumption DEF IInv, StartPrune, Start, fileVars, memVars, jobVars, readVars
<1> DEFINE j == Asked("prune", None, None)
<1>0. j \in Changes /\ j.kind = "prune" /\ job' = [job EXCEPT ![p] = j]
  BY AskedTyped DEF Kinds
<1> HIDE DEF j
<1>1. TypeOK'
  BY <1>0 DEF TypeOK, Steps
<1>2. LockHeld' /\ MuHeld' /\ DownIsEmpty' /\ NoJob'
  BY DEF LockHeld, MuHeld, DownIsEmpty, NoJob, TypeOK, Locked
<1>3. JobAsked' /\ AddsDiffer'
  BY <1>0 DEF JobAsked, AddAsked, AddsDiffer, TypeOK
<1>4. Lineage'
  BY DEF Lineage, Paired, TypeOK
<1>5. ReadIsFile' /\ WrittenIsFile'
  BY OthersHold DEF TypeOK
<1>6. SweptIsGone'
  BY DEF SweptIsGone, Paired, TypeOK
<1>7. LostIsGone'
  BY DEF LostIsGone, TypeOK
<1> QED BY <1>1, <1>2, <1>3, <1>4, <1>5, <1>6, <1>7

(* TakeLock keeps the invariant. *)
LEMMA TakeLockKeeps ==
    ASSUME IInv, NEW p \in Procs, TakeLock(p)
    PROVE  IInv'
<1> USE StoreAssumption DEF IInv, TakeLock, fileVars, memVars, jobVars, readVars
<1>1. TypeOK'
  BY NoOutcomeTyped DEF TypeOK, Steps
<1>2. LockHeld' /\ MuHeld' /\ DownIsEmpty' /\ NoJob'
  BY DEF LockHeld, MuHeld, DownIsEmpty, NoJob, TypeOK, Locked
<1>3. JobAsked' /\ AddsDiffer'
  BY DEF JobAsked, AddAsked, AddsDiffer, Makers, TypeOK
<1>4. Lineage'
  BY DEF Lineage, Paired, TypeOK
<1>5. ReadIsFile' /\ WrittenIsFile'
  BY OthersHold DEF TypeOK
<1>6. SweptIsGone'
  BY DEF SweptIsGone, Paired, TypeOK
<1>7. LostIsGone'
  BY DEF LostIsGone, TypeOK
<1> QED BY <1>1, <1>2, <1>3, <1>4, <1>5, <1>6, <1>7

(* LockTimeout keeps the invariant. *)
LEMMA LockTimeoutKeeps ==
    ASSUME IInv, NEW p \in Procs, LockTimeout(p)
    PROVE  IInv'
<1> USE StoreAssumption DEF IInv, LockTimeout, Finish, fileVars, memVars, jobVars, readVars
<1>1. TypeOK'
  BY NoOutcomeTyped DEF TypeOK, Steps
<1>2. LockHeld' /\ MuHeld' /\ DownIsEmpty' /\ NoJob'
  BY DEF LockHeld, MuHeld, DownIsEmpty, NoJob, TypeOK, Locked
<1>3. JobAsked' /\ AddsDiffer'
  BY DEF JobAsked, AddAsked, AddsDiffer, Makers, TypeOK
<1>4. Lineage'
  BY DEF Lineage, Paired, TypeOK
<1>5. ReadIsFile' /\ WrittenIsFile'
  BY OthersHold DEF TypeOK
<1>6. SweptIsGone'
  BY DEF SweptIsGone, Paired, TypeOK
<1>7. LostIsGone'
  BY DEF LostIsGone, TypeOK
<1> QED BY <1>1, <1>2, <1>3, <1>4, <1>5, <1>6, <1>7

(* Read keeps the invariant. *)
LEMMA ReadKeeps ==
    ASSUME IInv, NEW p \in Procs, Read(p)
    PROVE  IInv'
<1> USE StoreAssumption DEF IInv, Read, MuFree, fileVars, memVars, jobVars, readVars
<1>0. /\ job[p] \in Changes /\ Outcome(p, job[p], file) \in Outcomes
      /\ step[p] = "locked"
  BY OutcomeTyped DEF JobAsked, AddAsked, TypeOK
<1>1. TypeOK'
  BY <1>0 DEF TypeOK, Steps
<1>2. LockHeld' /\ MuHeld' /\ DownIsEmpty' /\ NoJob'
  BY DEF LockHeld, MuHeld, DownIsEmpty, NoJob, TypeOK, Locked
<1>3. JobAsked' /\ AddsDiffer'
  BY DEF JobAsked, AddAsked, AddsDiffer, Makers, TypeOK
<1>4. Lineage'
  BY DEF Lineage, Paired, TypeOK
<1>5. ReadIsFile' /\ WrittenIsFile'
  <2>1. ASSUME NEW q \in Procs, q # p PROVE ReadHolds(q)' /\ WrittenHolds(q)'
    BY <2>1, ProcHolds DEF TypeOK
  <2>2. /\ next'[p] = Outcome(p, job[p], file) /\ job'[p] = job[p] /\ step'[p] = "read"
        /\ Outcome(p, job[p], file)' = Outcome(p, job[p], file)
        /\ LiveIn(p, file)' = LiveIn(p, file)
        /\ HasRoom(p, file)' = HasRoom(p, file)
    <3>1. Outcome(p, job[p], file)' = Outcome(p, job[p], file) /\ LiveIn(p, file)' = LiveIn(p, file)
      BY DEF Outcome, Removed, LiveIn, PairedBy, MadeBySession
    <3>2. HasRoom(p, file)' = HasRoom(p, file)
      BY <3>1 DEF HasRoom
    <3> QED BY <3>1, <3>2 DEF TypeOK
  <2>3. job[p].kind = "add" =>
             /\ job[p].by \in Devices => job[p].by \in file
             /\ job[p].by \notin swept
             /\ HasRoom(p, file)
    <3>1. job[p].kind = "add" => job[p].by \in Creators /\ CreatorStands(p, job[p].by, file)
      BY DEF Accepts, JobAsked, AddAsked
    <3>2. LiveIn(p, file) \subseteq file
      BY DEF LiveIn
    <3>3. job[p].kind = "add" => job[p].by \notin Sessions \cup Devices \/ job[p].by \in live \/ job[p].by \in file
      BY <3>1, <3>2 DEF CreatorStands
    <3>4. job[p].kind = "add" /\ job[p].by \in Devices => job[p].by \in file
      BY <3>1, <3>2 DEF CreatorStands
    <3>5. job[p].kind = "add" => HasRoom(p, file)
      BY DEF Accepts
    <3> QED BY <3>3, <3>4, <3>5 DEF SweptIsGone, Paired
  <2>4. ReadHolds(p)' /\ WrittenHolds(p)'
    BY <2>2, <2>3 DEF ReadHolds, WrittenHolds, Accepts
  <2> QED BY <2>1, <2>4 DEF ReadIsFile, WrittenIsFile
<1>6. SweptIsGone'
  BY DEF SweptIsGone, Paired, TypeOK
<1>7. LostIsGone'
  BY DEF LostIsGone, TypeOK
<1> QED BY <1>1, <1>2, <1>3, <1>4, <1>5, <1>6, <1>7

(* Fail keeps the invariant. *)
LEMMA FailKeeps ==
    ASSUME IInv, NEW p \in Procs, Fail(p)
    PROVE  IInv'
<1> USE StoreAssumption DEF IInv, Fail, Finish, fileVars, memVars, jobVars, readVars
<1>1. TypeOK'
  BY NoOutcomeTyped DEF TypeOK, Steps
<1>2. LockHeld' /\ MuHeld' /\ DownIsEmpty' /\ NoJob'
  BY DEF LockHeld, MuHeld, DownIsEmpty, NoJob, TypeOK, Locked
<1>3. JobAsked' /\ AddsDiffer'
  BY DEF JobAsked, AddAsked, AddsDiffer, Makers, TypeOK
<1>4. Lineage'
  BY DEF Lineage, Paired, TypeOK
<1>5. ReadIsFile' /\ WrittenIsFile'
  BY OthersHold DEF TypeOK
<1>6. SweptIsGone'
  BY DEF SweptIsGone, Paired, TypeOK
<1>7. LostIsGone'
  BY DEF LostIsGone, TypeOK
<1> QED BY <1>1, <1>2, <1>3, <1>4, <1>5, <1>6, <1>7

(* Write keeps the invariant. *)
LEMMA WriteKeeps ==
    ASSUME IInv, NEW p \in Procs, Write(p)
    PROVE  IInv'
<1> USE StoreAssumption DEF IInv, Write, fileVars, memVars, jobVars, readVars
<1> DEFINE j == job[p]
<1>0. /\ \A q \in Procs : q # p => step[q] \notin Locked
      /\ j \in Changes /\ step'[p] = "written"
  BY Alone DEF Locked, JobAsked, TypeOK
<1>1. TypeOK'
  <2>1. file' \subseteq Devices
    BY WriteEffect
  <2>2. /\ by' \in [Devices -> Creators \cup {None}] /\ gen' \in [Devices -> Gens \cup {None}]
        /\ \A d \in Devices : by'[d] # None => gen'[d] \in Gens
    <3>1. CASE j.kind = "add"
      <4>1. by' = [by EXCEPT ![j.id] = j.by] /\ gen' = [gen EXCEPT ![j.id] = Gen[p]]
        BY <3>1
      <4>2. j.id \in Devices /\ j.by \in Creators /\ Gen[p] \in Gens
        BY <3>1, WriteEffect DEF Gens
      <4> QED BY <4>1, <4>2 DEF TypeOK
    <3>2. CASE j.kind # "add"
      BY <3>2, WriteEffect DEF TypeOK
    <3> QED BY <3>1, <3>2
  <2>3. stamp' \in 0..MaxWrites
    BY DEF TypeOK
  <2> QED BY <2>1, <2>2, <2>3 DEF TypeOK, Steps
<1>2. LockHeld' /\ MuHeld' /\ DownIsEmpty' /\ NoJob'
  BY DEF LockHeld, MuHeld, DownIsEmpty, NoJob, TypeOK, Locked
<1>3. JobAsked' /\ AddsDiffer'
  <2>1. CASE j.kind = "add"
    <3>1. ASSUME NEW q \in Procs, q # p, step[q] # "idle", job[q].kind = "add"
          PROVE  AddAsked(q)'
      <4>1. job[q].id # j.id /\ AddAsked(q)
        BY <1>0, <2>1, <3>1 DEF AddsDiffer, JobAsked
      <4>2. \A c \in Devices : by[c] \in Makers => c # j.id
        BY <2>1, WriteEffect DEF Makers, Creators
      <4>3. \A d \in Devices : d # j.id => by'[d] = by[d] /\ gen'[d] = gen[d]
        BY <2>1 DEF TypeOK
      <4> QED BY <3>1, <4>1, <4>2, <4>3 DEF AddAsked, TypeOK
    <3>2. AddAsked(p)'
      <4>1. AddAsked(p)
        BY <2>1 DEF JobAsked
      <4>2. \A c \in Devices : by[c] \in Makers => by'[c] = by[c] /\ gen'[c] = gen[c]
        <5>1. \A c \in Devices : by[c] \in Makers => c # j.id
          BY <2>1, WriteEffect DEF Makers, Creators
        <5> QED BY <2>1, <5>1 DEF TypeOK
      <4> QED BY <1>0, <4>1, <4>2 DEF AddAsked
    <3> QED BY <1>0, <3>1, <3>2 DEF JobAsked, AddsDiffer, TypeOK
  <2>2. CASE j.kind # "add"
    BY <2>2, WriteEffect DEF JobAsked, AddAsked, AddsDiffer, TypeOK
  <2> QED BY <2>1, <2>2
<1>4. Lineage'
  <2>1. CASE j.kind = "add"
    <3>1. /\ j.id \in Devices /\ by[j.id] = None /\ j.by \in Creators /\ file' = file \cup {j.id}
          /\ AddAsked(p)
      BY <2>1, WriteEffect DEF JobAsked
    <3>2. /\ by'[j.id] = j.by /\ gen'[j.id] = Gen[p]
          /\ \A d \in Devices : d # j.id => by'[d] = by[d] /\ gen'[d] = gen[d]
      BY <2>1, <3>1 DEF TypeOK
    <3>3. None \notin Makers /\ None \notin Creators
      BY DEF Makers, Creators
    <3>4. Paired' = Paired \cup {j.id}
      BY <3>1, <3>2, <3>3 DEF Paired
    <3>5. file' \subseteq Paired' /\ \A q \in Procs : mem'[q] \cup seen'[q] \cup lost'[q] \subseteq Paired'
      BY <3>1, <3>4 DEF Lineage
    <3>6. ASSUME NEW d \in Paired'
          PROVE  /\ by'[d] \in Sessions => gen'[d] = Gen[Home[by'[d]]]
                 /\ by'[d] \in Devices => by'[by'[d]] \in Makers /\ gen'[d] = gen'[by'[d]]
      <4>1. CASE d = j.id
        BY <3>1, <3>2, <3>3, <4>1 DEF AddAsked
      <4>2. CASE d # j.id
        <5>1. d \in Paired /\ d \in Devices
          BY <3>4, <4>2 DEF Paired
        <5>2. by[d] \in Devices => by[d] # j.id
          BY <3>1, <3>3, <5>1 DEF Lineage
        <5> QED BY <3>2, <4>2, <5>1, <5>2 DEF Lineage
      <4> QED BY <4>1, <4>2
    <3> QED BY <3>5, <3>6 DEF Lineage
  <2>2. CASE j.kind # "add"
    <3>1. file' \subseteq file /\ by' = by /\ gen' = gen
      BY <2>2, WriteEffect
    <3>2. Paired' = Paired
      BY <3>1 DEF Paired
    <3> QED BY <3>1, <3>2 DEF Lineage
  <2> QED BY <2>1, <2>2
<1>5. ReadIsFile' /\ WrittenIsFile'
  <2>1. \A q \in Procs : step'[q] \notin {"read", "written"} \/ (q = p /\ step'[q] = "written")
    BY <1>0 DEF TypeOK, Locked
  <2>2. file' = next[p].keep /\ next' = next /\ job' = job
    BY WriteEffect
  <2>3. CASE j.kind \in {"cascade", "sweep"}
    <3>1. by' = by /\ file' \subseteq file
      BY <2>3, WriteEffect
    <3>2. SweptBy(p)' = SweptBy(p) /\ Paired' = Paired
      BY <2>2, <3>1 DEF SweptBy, Paired
    <3> QED BY <2>1, <2>2, <3>1, <3>2, SweepIsWhole DEF ReadIsFile, ReadHolds, WrittenIsFile, WrittenHolds
  <2>4. CASE j.kind \notin {"cascade", "sweep"}
    <3>1. SweptBy(p)' = {}
      BY <2>2, <2>4 DEF SweptBy
    <3> QED BY <2>1, <2>2, <3>1 DEF ReadIsFile, ReadHolds, WrittenIsFile, WrittenHolds
  <2> QED BY <2>3, <2>4
<1>6. SweptIsGone'
  <2>1. CASE j.kind = "add"
    <3>1. /\ j.id \in Devices /\ by[j.id] = None /\ j.by \in Creators /\ file' = file \cup {j.id}
          /\ j.by \notin swept
      BY <2>1, WriteEffect DEF ReadIsFile, ReadHolds
    <3>2. /\ by'[j.id] = j.by
          /\ \A d \in Devices : d # j.id => by'[d] = by[d]
      BY <2>1, <3>1 DEF TypeOK
    <3>3. j.id \notin swept /\ Paired \subseteq Paired'
      BY <3>1, <3>2 DEF Paired, SweptIsGone
    <3>4. \A d \in file' : by'[d] \notin swept
      BY <3>1, <3>2 DEF SweptIsGone, TypeOK
    <3> QED BY <3>1, <3>3, <3>4 DEF SweptIsGone
  <2>2. CASE j.kind # "add"
    <3>1. file' \subseteq file /\ by' = by
      BY <2>2, WriteEffect
    <3>2. Paired' = Paired
      BY <3>1 DEF Paired
    <3> QED BY <3>1, <3>2 DEF SweptIsGone
  <2> QED BY <2>1, <2>2
<1>7. LostIsGone'
  <2>1. CASE j.kind = "add"
    <3>1. file' = file \cup {j.id} /\ j.id \notin Paired
      BY <2>1, WriteEffect DEF Paired
    <3>2. \A q \in Procs : j.id \notin lost[q] /\ j.id \notin mem[q]
      BY <3>1 DEF Lineage
    <3> QED BY <3>1, <3>2 DEF LostIsGone
  <2>2. CASE j.kind # "add"
    BY <2>2, WriteEffect DEF LostIsGone
  <2> QED BY <2>1, <2>2
<1> QED BY <1>1, <1>2, <1>3, <1>4, <1>5, <1>6, <1>7

(* Return keeps the invariant. *)
LEMMA ReturnKeeps ==
    ASSUME IInv, NEW p \in Procs, Return(p)
    PROVE  IInv'
<1> USE StoreAssumption DEF IInv, Return, Finish, fileVars, memVars, jobVars, readVars
<1>0. /\ \A q \in Procs : q # p => step[q] \notin Locked
      /\ Keep(p, file) /\ step'[p] = "idle"
      /\ memStamp' \in [Procs -> 0..MaxWrites]
      /\ file \in SUBSET Devices
  BY Alone DEF Locked, WrittenIsFile, WrittenHolds, TypeOK
<1>1. TypeOK'
  <2>1. handed' \in [Procs -> SUBSET Devices]
    BY DEF TypeOK, Outcomes
  <2>2. swept' \subseteq Creators
    BY DEF TypeOK, SweptBy, Creators
  <2> QED BY <1>0, <2>1, <2>2, Kept, NoOutcomeTyped DEF TypeOK, Steps
<1>2. LockHeld' /\ MuHeld' /\ DownIsEmpty' /\ NoJob'
  <2>1. \A q \in Procs : q # p => mem'[q] = mem[q] /\ lost'[q] = lost[q]
    BY <1>0, Kept
  <2>2. p \in up
    BY DEF DownIsEmpty
  <2> QED BY <2>1, <2>2 DEF LockHeld, MuHeld, DownIsEmpty, NoJob, TypeOK, Locked
<1>3. JobAsked' /\ AddsDiffer'
  BY DEF JobAsked, AddAsked, AddsDiffer, Makers, TypeOK
<1>4. Lineage'
  BY <1>0, Kept DEF Lineage, Paired
<1>5. ReadIsFile' /\ WrittenIsFile'
  <2>1. \A q \in Procs : step'[q] \notin {"read", "written"}
    BY <1>0 DEF TypeOK, Locked
  <2> QED BY <2>1 DEF ReadIsFile, ReadHolds, WrittenIsFile, WrittenHolds
<1>6. SweptIsGone'
  <2>1. /\ SweptBy(p) \subseteq Sessions \cup Paired
        /\ SweptBy(p) \cap file = {}
        /\ \A d \in file : by[d] \notin SweptBy(p)
    BY DEF WrittenIsFile, WrittenHolds
  <2>2. \A c \in SweptBy(p) : c \notin live
    <3>1. \A c \in SweptBy(p) : c \in Devices \/ (c = job[p].by /\ job[p].kind = "sweep" /\ job[p].out)
      BY DEF SweptBy, TypeOK, JobAsked, Outcomes
    <3>2. job[p].kind = "sweep" /\ job[p].out => job[p].by \notin live
      BY DEF JobAsked
    <3> QED BY <3>1, <3>2 DEF TypeOK
  <2>3. Paired' = Paired
    BY DEF Paired
  <2> QED BY <2>1, <2>2, <2>3 DEF SweptIsGone
<1>7. LostIsGone'
  <2>1. p \notin loading
    BY DEF MuHeld
  <2>2. \A q \in Procs : q # p => mem'[q] = mem[q] /\ lost'[q] = lost[q]
    BY <1>0, Kept
  <2>3. lost'[p] \cap file' = {} /\ lost'[p] \cap mem'[p] = {}
    BY <1>0, Kept DEF LostIsGone
  <2> QED BY <2>1, <2>2, <2>3 DEF LostIsGone
<1> QED BY <1>1, <1>2, <1>3, <1>4, <1>5, <1>6, <1>7

(* FlushUses keeps the invariant. *)
LEMMA FlushUsesKeeps ==
    ASSUME IInv, NEW p \in Procs, FlushUses(p)
    PROVE  IInv'
<1> USE StoreAssumption DEF IInv, FlushUses, fileVars, memVars, jobVars, readVars
<1> DEFINE j == Asked("flush", None, None)
<1>0. /\ j \in Changes /\ j.kind = "flush" /\ job' = [job EXCEPT ![p] = j]
      /\ next' = [next EXCEPT ![p] = Outcome(p, j, file)] /\ Outcome(p, j, file) \in Outcomes
  <2>1. j \in Changes /\ j.kind = "flush"
    BY AskedTyped DEF Kinds
  <2>2. file \in SUBSET Devices
    BY DEF TypeOK
  <2>3. [keep |-> file, gone |-> {}] = Outcome(p, j, file)
    BY <2>2, FlushOutcome
  <2> QED BY <2>1, <2>2, <2>3, OutcomeTyped
<1> HIDE DEF j
<1>1. TypeOK'
  <2>1. job' \in [Procs -> Changes \cup {None}] /\ next' \in [Procs -> Outcomes]
    <3>1. job \in [Procs -> Changes \cup {None}] /\ next \in [Procs -> Outcomes]
      BY DEF TypeOK
    <3>2. [job EXCEPT ![p] = j] \in [Procs -> Changes \cup {None}]
      BY <1>0, <3>1
    <3>3. [next EXCEPT ![p] = Outcome(p, j, file)] \in [Procs -> Outcomes]
      BY <1>0, <3>1
    <3> QED BY <1>0, <3>2, <3>3
  <2>2. step' \in [Procs -> Steps] /\ flock' \in Procs \cup {None}
    BY DEF TypeOK, Steps
  <2> QED BY <2>1, <2>2 DEF TypeOK
<1>2. LockHeld' /\ MuHeld' /\ DownIsEmpty' /\ NoJob'
  BY DEF LockHeld, MuHeld, DownIsEmpty, NoJob, TypeOK, Locked
<1>3. JobAsked' /\ AddsDiffer'
  BY <1>0 DEF JobAsked, AddAsked, AddsDiffer, TypeOK
<1>4. Lineage'
  BY DEF Lineage, Paired, TypeOK
<1>5. ReadIsFile' /\ WrittenIsFile'
  <2>1. ASSUME NEW q \in Procs, q # p PROVE ReadHolds(q)' /\ WrittenHolds(q)'
    BY <2>1, ProcHolds DEF TypeOK
  <2>2. /\ next'[p] = Outcome(p, j, file) /\ job'[p] = j /\ step'[p] = "read"
    BY <1>0 DEF TypeOK
  <2>3. Outcome(p, j, file)' = Outcome(p, j, file)
    BY <1>0 DEF Outcome, Removed, LiveIn, PairedBy, MadeBySession
  <2>4. ReadHolds(p)' /\ WrittenHolds(p)'
    BY <1>0, <2>2, <2>3 DEF ReadHolds, WrittenHolds, j
  <2> QED BY <2>1, <2>4 DEF ReadIsFile, WrittenIsFile
<1>6. SweptIsGone'
  BY DEF SweptIsGone, Paired, TypeOK
<1>7. LostIsGone'
  BY DEF LostIsGone, TypeOK
<1> QED BY <1>1, <1>2, <1>3, <1>4, <1>5, <1>6, <1>7

(* Reload keeps the invariant. *)
LEMMA ReloadKeeps ==
    ASSUME IInv, NEW p \in Procs, Reload(p)
    PROVE  IInv'
<1> USE StoreAssumption DEF IInv, Reload, MuFree, fileVars, memVars, jobVars, readVars
<1>1. TypeOK'
  BY NoOutcomeTyped DEF TypeOK, Steps
<1>2. LockHeld' /\ MuHeld' /\ DownIsEmpty' /\ NoJob'
  BY DEF LockHeld, MuHeld, DownIsEmpty, NoJob, TypeOK, Locked
<1>3. JobAsked' /\ AddsDiffer'
  BY DEF JobAsked, AddAsked, AddsDiffer, Makers, TypeOK
<1>4. Lineage'
  BY DEF Lineage, Paired, TypeOK
<1>5. ReadIsFile' /\ WrittenIsFile'
  BY OthersHold DEF TypeOK
<1>6. SweptIsGone'
  BY DEF SweptIsGone, Paired, TypeOK
<1>7. LostIsGone'
  BY DEF LostIsGone, TypeOK
<1> QED BY <1>1, <1>2, <1>3, <1>4, <1>5, <1>6, <1>7

(* Reloaded keeps the invariant. *)
LEMMA ReloadedKeeps ==
    ASSUME IInv, NEW p \in Procs, Reloaded(p)
    PROVE  IInv'
<1> USE StoreAssumption DEF IInv, Reloaded, fileVars, memVars, jobVars, readVars
<1>0. seen[p] \in SUBSET Devices /\ Keep(p, seen[p]) /\ p \in Procs
  BY DEF TypeOK
<1>1. TypeOK'
  <2>1. handed' \in [Procs -> SUBSET Devices]
    BY DEF TypeOK, LiveIn
  <2> QED BY <1>0, <2>1, Kept DEF TypeOK
<1>2. LockHeld' /\ MuHeld' /\ DownIsEmpty' /\ NoJob'
  <2>1. \A q \in Procs : q # p => mem'[q] = mem[q] /\ lost'[q] = lost[q]
    BY <1>0, Kept
  <2>2. p \in up
    BY DEF DownIsEmpty
  <2> QED BY <2>1, <2>2 DEF LockHeld, MuHeld, DownIsEmpty, NoJob, TypeOK, Locked
<1>3. JobAsked' /\ AddsDiffer'
  BY DEF JobAsked, AddAsked, AddsDiffer, Makers, TypeOK
<1>4. Lineage'
  BY <1>0, Kept DEF Lineage, Paired, TypeOK
<1>5. ReadIsFile' /\ WrittenIsFile'
  BY OthersHold DEF TypeOK
<1>6. SweptIsGone'
  BY DEF SweptIsGone, Paired, TypeOK
<1>7. LostIsGone'
  <2>1. \A q \in Procs : q # p => mem'[q] = mem[q] /\ lost'[q] = lost[q]
    BY <1>0, Kept
  <2>2. lost'[p] \cap file' = {} /\ lost'[p] \cap mem'[p] = {}
    BY <1>0, Kept DEF LostIsGone
  <2>3. p \notin loading' /\ \A q \in Procs : q # p => seen'[q] = seen[q]
    BY DEF TypeOK
  <2> QED BY <2>1, <2>2, <2>3 DEF LostIsGone
<1> QED BY <1>1, <1>2, <1>3, <1>4, <1>5, <1>6, <1>7

(* Boot keeps the invariant. *)
LEMMA BootKeeps ==
    ASSUME IInv, NEW p \in Procs, Boot(p)
    PROVE  IInv'
<1> USE StoreAssumption DEF IInv, Boot, fileVars, memVars, jobVars, readVars
<1>1. TypeOK'
  BY NoOutcomeTyped DEF TypeOK, Steps
<1>2. LockHeld' /\ MuHeld' /\ DownIsEmpty' /\ NoJob'
  BY DEF LockHeld, MuHeld, DownIsEmpty, NoJob, TypeOK, Locked
<1>3. JobAsked' /\ AddsDiffer'
  BY DEF JobAsked, AddAsked, AddsDiffer, Makers, TypeOK
<1>4. Lineage'
  BY DEF Lineage, Paired, TypeOK
<1>5. ReadIsFile' /\ WrittenIsFile'
  BY OthersHold DEF TypeOK
<1>6. SweptIsGone'
  BY DEF SweptIsGone, Paired, TypeOK
<1>7. LostIsGone'
  BY DEF LostIsGone, TypeOK
<1> QED BY <1>1, <1>2, <1>3, <1>4, <1>5, <1>6, <1>7

(* Crash keeps the invariant. *)
LEMMA CrashKeeps ==
    ASSUME IInv, NEW p \in Procs, Crash(p)
    PROVE  IInv'
<1> USE StoreAssumption DEF IInv, Crash, Finish, fileVars, memVars, jobVars, readVars
<1>1. TypeOK'
  BY NoOutcomeTyped DEF TypeOK, Steps
<1>2. LockHeld' /\ MuHeld' /\ DownIsEmpty' /\ NoJob'
  BY DEF LockHeld, MuHeld, DownIsEmpty, NoJob, TypeOK, Locked
<1>3. JobAsked' /\ AddsDiffer'
  BY DEF JobAsked, AddAsked, AddsDiffer, Makers, TypeOK
<1>4. Lineage'
  BY DEF Lineage, Paired, TypeOK
<1>5. ReadIsFile' /\ WrittenIsFile'
  BY OthersHold DEF TypeOK
<1>6. SweptIsGone'
  BY DEF SweptIsGone, Paired, TypeOK
<1>7. LostIsGone'
  BY DEF LostIsGone, TypeOK
<1> QED BY <1>1, <1>2, <1>3, <1>4, <1>5, <1>6, <1>7

(* SessionEnds keeps the invariant. *)
LEMMA SessionEndsKeeps ==
    ASSUME IInv, NEW s \in Sessions, SessionEnds(s)
    PROVE  IInv'
<1> USE DEF IInv, SessionEnds, fileVars, memVars, jobVars, readVars
<1>1. TypeOK'
  BY DEF TypeOK
<1>2. LockHeld' /\ MuHeld' /\ DownIsEmpty' /\ NoJob'
  BY DEF LockHeld, MuHeld, DownIsEmpty, NoJob
<1>3. JobAsked' /\ AddsDiffer'
  BY DEF JobAsked, AddAsked, AddsDiffer
<1>4. Lineage'
  BY DEF Lineage, Paired
<1>5. ReadIsFile' /\ WrittenIsFile'
  BY OthersHold
<1>6. SweptIsGone'
  BY DEF SweptIsGone, Paired
<1>7. LostIsGone'
  BY DEF LostIsGone
<1> QED BY <1>1, <1>2, <1>3, <1>4, <1>5, <1>6, <1>7

(* A step that changes nothing keeps the invariant. *)
LEMMA StutterKeeps ==
    ASSUME IInv, UNCHANGED vars
    PROVE  IInv'
<1> USE DEF IInv, vars, fileVars, memVars, jobVars, readVars
<1>1. TypeOK'
  BY DEF TypeOK
<1>2. LockHeld' /\ MuHeld' /\ DownIsEmpty' /\ NoJob'
  BY DEF LockHeld, MuHeld, DownIsEmpty, NoJob
<1>3. JobAsked' /\ AddsDiffer'
  BY DEF JobAsked, AddAsked, AddsDiffer
<1>4. Lineage'
  BY DEF Lineage, Paired
<1>5. ReadIsFile' /\ WrittenIsFile'
  BY OthersHold
<1>6. SweptIsGone'
  BY DEF SweptIsGone, Paired
<1>7. LostIsGone'
  BY DEF LostIsGone
<1> QED BY <1>1, <1>2, <1>3, <1>4, <1>5, <1>6, <1>7

-----------------------------------------------------------------------------
(* The theorems.                                                           *)

(* A state directory starts without devices, and no process runs. *)
THEOREM InitIInv == Init => IInv
<1> SUFFICES ASSUME Init PROVE IInv
  OBVIOUS
<1> USE StoreAssumption DEF Init
<1>1. TypeOK
  BY NoOutcomeTyped DEF TypeOK, Steps
<1>2. LockHeld /\ MuHeld /\ DownIsEmpty /\ JobAsked /\ NoJob /\ AddsDiffer
  BY DEF LockHeld, Locked, MuHeld, DownIsEmpty, JobAsked, NoJob, AddsDiffer
<1>3. Lineage /\ SweptIsGone /\ LostIsGone
  BY DEF Lineage, Paired, SweptIsGone, LostIsGone
<1>4. ReadIsFile /\ WrittenIsFile
  BY DEF ReadIsFile, ReadHolds, WrittenIsFile, WrittenHolds
<1> QED BY <1>1, <1>2, <1>3, <1>4 DEF IInv

(* Every step of a process, of a session and of time keeps the invariant. *)
THEOREM NextIInv == IInv /\ [Next]_vars => IInv'
<1> SUFFICES ASSUME IInv, [Next]_vars PROVE IInv'
  OBVIOUS
<1>1. ASSUME NEW p \in Procs, Ask(p) PROVE IInv'
  BY <1>1, StartAddKeeps, StartRevokeKeeps, StartSweepKeeps, StartPruneKeeps DEF Ask
<1>2. ASSUME NEW p \in Procs, Change(p) PROVE IInv'
  BY <1>2, TakeLockKeeps, LockTimeoutKeeps, ReadKeeps, FailKeeps, WriteKeeps, ReturnKeeps DEF Change
<1>3. ASSUME NEW p \in Procs, Lookup(p) PROVE IInv'
  BY <1>3, ReloadKeeps, ReloadedKeeps, FlushUsesKeeps DEF Lookup
<1>4. ASSUME NEW p \in Procs, Boot(p) \/ Crash(p) PROVE IInv'
  BY <1>4, BootKeeps, CrashKeeps
<1>5. ASSUME NEW s \in Sessions, SessionEnds(s) PROVE IInv'
  BY <1>5, SessionEndsKeeps
<1>6. CASE UNCHANGED vars
  BY <1>6, StutterKeeps
<1> QED BY <1>1, <1>2, <1>3, <1>4, <1>5, <1>6 DEF Next

(* The inductive invariant holds in every state the devices file and its
   processes reach. *)
THEOREM Inductive == Spec => []IInv
<1>1. Init => IInv
  BY InitIInv
<1>2. IInv /\ [Next]_vars => IInv'
  BY NextIInv
<1> QED BY <1>1, <1>2, PTL DEF Spec

(* Every variable keeps its type. *)
THEOREM TypeCorrect == Spec => []TypeOK
<1>1. IInv => TypeOK
  BY DEF IInv
<1> QED BY <1>1, Inductive, PTL

(* A creator that was swept has no device, whatever was being paired in its
   name meanwhile: add asks for it under the lock its revoke takes too. *)
THEOREM SweptForGood == Spec => []SweptPairNothing
<1>1. IInv => SweptPairNothing
  BY DEF IInv, SweptIsGone, SweptPairNothing
<1> QED BY <1>1, Inductive, PTL

(* No process finds alive a device it once found gone, though lookups read
   the file without its lock: what a revoked stream's pings rely on. *)
THEOREM GoneForGood == Spec => []GoneStaysGone
<1>1. IInv => GoneStaysGone
  BY DEF IInv, LostIsGone, GoneStaysGone
<1> QED BY <1>1, Inductive, PTL

(* A write is one step of the registry: it pairs the device that was asked
   for, under a creator that is in the file it replaces, or takes devices
   away, or leaves them all. *)
LEMMA WriteImplements ==
    ASSUME IInv, NEW p \in Procs, Write(p)
    PROVE  Registry!Next \/ UNCHANGED <<file, by, gen>>
<1> USE StoreAssumption
<1>1. CASE job[p].kind = "add"
  <2> DEFINE d == job[p].id
             c == job[p].by
             g == Gen[p]
  <2>1. /\ d \in Devices /\ by[d] = None /\ c \in Creators /\ file' = file \cup {d}
    BY <1>1, WriteEffect
  <2>2. g \in Gens
    BY DEF Gens
  <2>3. Registry!LiveOf(g) = LiveIn(p, file)
    BY DEF Registry!LiveOf, LiveIn
  <2>4. c \in Devices => c \in file /\ gen[c] = g
    BY <1>1 DEF IInv, ReadIsFile, ReadHolds, Write, JobAsked, AddAsked
  <2>5. c \in Devices => c \in Registry!LiveOf(g)
    BY <2>4 DEF Registry!LiveOf
  <2>6. Cardinality(Registry!LiveOf(g)) < MaxDevices
    BY <1>1, <2>3 DEF IInv, ReadIsFile, ReadHolds, Write, HasRoom
  <2>7. by' = [by EXCEPT ![d] = c] /\ gen' = [gen EXCEPT ![d] = g]
    BY <1>1 DEF Write
  <2> HIDE DEF d, c, g
  <2>8. Registry!Pair(d, c, g)
    BY <2>1, <2>5, <2>6, <2>7 DEF Registry!Pair, Registry!Cardinality, Cardinality
  <2> QED BY <2>1, <2>2, <2>8 DEF Registry!Next
<1>2. CASE job[p].kind # "add"
  <2> DEFINE S == Removed(p, job[p], file)
  <2>1. file' = file \ S /\ S \subseteq file
    BY <1>2, WriteEffect
  <2>2. UNCHANGED <<by, gen>>
    BY <1>2 DEF Write
  <2> HIDE DEF S
  <2>3. CASE S = {}
    BY <2>1, <2>2, <2>3
  <2>4. CASE S # {}
    <3>1. Registry!Leave(S)
      BY <2>1, <2>2, <2>4 DEF Registry!Leave
    <3> QED BY <2>1, <3>1 DEF Registry!Next
  <2> QED BY <2>3, <2>4
<1> QED BY <1>1, <1>2

(* The processes that share devices.json, with their locks, their slow
   lookups and their crashes, are one registry: each change is one step of
   it, a device is paired at most once and never comes back, its creator is
   paired under the same password in the file it is written into, and no
   password's devices pass the limit. *)
THEOREM Refines == Spec => Implements
<1>1. Init => Registry!Init
  BY DEF Init, Registry!Init
<1>2. IInv /\ [Next]_vars => [Registry!Next]_<<file, by, gen>>
  <2> SUFFICES ASSUME IInv, [Next]_vars
               PROVE  Registry!Next \/ UNCHANGED <<file, by, gen>>
    OBVIOUS
  <2>1. ASSUME NEW p \in Procs, Write(p)
        PROVE  Registry!Next \/ UNCHANGED <<file, by, gen>>
    BY <2>1, WriteImplements
  <2>2. ASSUME UNCHANGED fileVars PROVE UNCHANGED <<file, by, gen>>
    BY <2>2 DEF fileVars
  <2>3. ASSUME NEW p \in Procs, Ask(p) PROVE UNCHANGED fileVars
    BY <2>3 DEF Ask, Start, StartAdd, StartRevoke, StartSweep, StartPrune
  <2>4. ASSUME NEW p \in Procs, Change(p) PROVE Write(p) \/ UNCHANGED fileVars
    BY <2>4 DEF Change, TakeLock, LockTimeout, Read, Fail, Return
  <2>5. ASSUME NEW p \in Procs, Lookup(p) \/ Boot(p) \/ Crash(p) PROVE UNCHANGED fileVars
    BY <2>5 DEF Lookup, Reload, Reloaded, FlushUses, Boot, Crash
  <2>6. ASSUME NEW s \in Sessions, SessionEnds(s) PROVE UNCHANGED fileVars
    BY <2>6 DEF SessionEnds
  <2>7. CASE UNCHANGED vars
    BY <2>7, <2>2 DEF vars
  <2> QED BY <2>1, <2>2, <2>3, <2>4, <2>5, <2>6, <2>7 DEF Next
<1> QED BY <1>1, <1>2, Inductive, PTL DEF Spec, Implements, Registry!Spec

(* A write of one process takes no device of another password with it. *)
THEOREM OthersAreKept == Spec => OthersKept
<1>1. IInv /\ [Next]_vars =>
        \A p \in Procs :
          step[p] = "read" /\ step'[p] = "written" /\ job[p].kind # "prune"
            => \A d \in file : gen[d] # Gen[p] => d \in file'
  <2> SUFFICES ASSUME IInv, [Next]_vars, NEW p \in Procs,
                      step[p] = "read", step'[p] = "written", job[p].kind # "prune",
                      NEW d \in file, gen[d] # Gen[p]
               PROVE  d \in file'
    OBVIOUS
  <2>1. Write(p)
    <3>1. step \in [Procs -> Steps]
      BY DEF IInv, TypeOK
    <3>2. ASSUME NEW q \in Procs, Ask(q) PROVE FALSE
      BY <3>1, <3>2 DEF Ask, Start, StartAdd, StartRevoke, StartSweep, StartPrune
    <3>3. ASSUME NEW q \in Procs, Change(q) PROVE Write(p)
      BY <3>1, <3>3 DEF Change, TakeLock, LockTimeout, Read, Fail, Write, Return, Finish, jobVars
    <3>4. ASSUME NEW q \in Procs, Lookup(q) \/ Boot(q) \/ Crash(q) PROVE FALSE
      BY <3>1, <3>4 DEF Lookup, Reload, Reloaded, FlushUses, Boot, Crash, Finish, jobVars
    <3>5. ASSUME NEW s \in Sessions, SessionEnds(s) PROVE FALSE
      BY <3>5 DEF SessionEnds, jobVars
    <3>6. ASSUME UNCHANGED vars PROVE FALSE
      BY <3>6 DEF vars, jobVars
    <3> QED BY <3>2, <3>3, <3>4, <3>5, <3>6 DEF Next
  <2>2. CASE job[p].kind = "add"
    BY <2>1, <2>2, WriteEffect
  <2>3. CASE job[p].kind # "add"
    <3>1. d \notin Removed(p, job[p], file)
      BY DEF Removed, PairedBy, MadeBySession, LiveIn, IInv, ReadIsFile, ReadHolds
    <3> QED BY <2>1, <2>3, <3>1, WriteEffect
  <2> QED BY <2>2, <2>3
<1> QED BY <1>1, Inductive, PTL DEF Spec, OthersKept
=============================================================================
