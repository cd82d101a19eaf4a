-------------------------- MODULE DeviceAuth_proofs -------------------------
(***************************************************************************)
(* What TLAPS proves of DeviceAuth, for any devices, sessions, codes,      *)
(* endpoints, routines and limits: its type invariant, that no code        *)
(* outlives its maker, that limits nest, that no limit is forgotten, and   *)
(* that only stray subscriptions stay.                                     *)
(***************************************************************************)
EXTENDS DeviceAuth, WellFoundedInduction, TLAPS

-----------------------------------------------------------------------------
(* The inductive invariant.                                                *)

\* What a routine has in hand fits the step it is at.
JobFits(j) ==
    /\ j.step \in {"asking", "asked"} => j.who \in Creators
    /\ j.step = "subscribing" => j.who \in Devices \cup {Password} /\ j.other \in Endpoints
    /\ j.todo \subseteq IF j.step = "signedOut" THEN Sessions ELSE Devices
    /\ j.step \notin {"ending", "codes", "push", "signedOut"} => j.todo = {}
    /\ j.rearm => j.step \in {"fired", "ending", "codes", "push"}

JobsFit == \A g \in Routines : JobFits(job[g])

\* Who asked for the creator holds codes.mu.
LockHeld == \A g \in Routines : job[g].step = "asked" => codeLock = g

\* A creator that was there when asked for, and is gone since, is being dropped.
AskedStands ==
    \A g \in Routines :
        job[g].step = "asked" /\ Gone(job[g].who) => Dropping(job[g].who)

\* Ids are not given out twice, and a maker was given one before.
IdsKept ==
    /\ paired \subseteq used
    /\ \A d \in Devices : maker[d] \in Devices => maker[d] \in used

IInv ==
    /\ TypeOK
    /\ JobsFit
    /\ LockHeld
    /\ AskedStands
    /\ NoCodeOutlivesItsMaker
    /\ IdsKept
    /\ LimitsNest
    /\ NoLimitForgotten
    /\ OnlyStraysStay

-----------------------------------------------------------------------------
(* The timer.                                                              *)

(* Any limits that are there have an earliest one. *)
LEMMA LeastLimit ==
    ASSUME NEW T \in SUBSET Nat, T # {}
    PROVE  \E t \in T : \A u \in T : t <= u
<1> DEFINE R == {p \in Nat \X Nat : p[1] < p[2]}
<1>1. IsWellFoundedOn(OpToRel(<, Nat), Nat)
  BY NatLessThanWellFounded
<1>2. IsWellFoundedOn(R, Nat)
  BY <1>1 DEF OpToRel
<1>3. PICK t \in T : \A u \in T : ~(<<u, t>> \in R)
  <2> HIDE DEF R
  <2> QED BY <1>2, WFMin
<1>4. ASSUME NEW u \in T PROVE t <= u
  <2>1. <<u, t>> \notin R /\ u \in Nat /\ t \in Nat
    BY <1>3
  <2>2. <<u, t>> \in Nat \X Nat
    BY <2>1
  <2>3. ~(u < t)
    BY <2>1, <2>2
  <2> QED BY <2>1, <2>3
<1> QED BY <1>4

(* arm sets the timer no later than any limit that has not passed. *)
LEMMA ArmSets ==
    ASSUME NEW P \in SUBSET Devices, NEW f \in [Devices -> Nat], now \in Nat, Arm(P, f)
    PROVE  /\ timer' \in Nat
           /\ \A d \in P : now < f[d] => timer' \in 1..f[d]
<1> DEFINE T == {f[d] : d \in P} \ 0..now
<1>1. T \in SUBSET Nat /\ \A t \in T : t > now
  OBVIOUS
<1>2. timer' = Earliest(T)
  BY DEF Arm
<1>3. \A d \in P : now < f[d] => f[d] \in T
  OBVIOUS
<1> HIDE DEF T
<1>4. CASE T = {}
  <2>1. timer' = 0
    BY <1>2, <1>4 DEF Earliest
  <2> QED BY <2>1, <1>3, <1>4
<1>5. CASE T # {}
  <2>1. \E t \in T : \A u \in T : t <= u
    BY <1>1, <1>5, LeastLimit
  <2>2. timer' \in T /\ \A u \in T : timer' <= u
    BY <2>1, <1>2, <1>5, Zenon DEF Earliest
  <2>3. timer' \in Nat /\ timer' > now
    BY <2>2, <1>1
  <2>4. ASSUME NEW d \in P, now < f[d] PROVE timer' \in 1..f[d]
    BY <2>2, <2>3, <2>4, <1>3
  <2> QED BY <2>3, <2>4
<1> QED BY <1>4, <1>5

-----------------------------------------------------------------------------
(* Jobs.                                                                   *)

(* A routine at rest is a well-formed job. *)
LEMMA NoJobFits == NoJob \in Jobs /\ JobFits(NoJob)
BY AuthAssumption DEF NoJob, Jobs, Steps, Roles, JobFits

(* The job that ends S has all of it still to do, and not as an expiry. *)
LEMMA EndAllFits ==
    ASSUME NEW S \in SUBSET Devices
    PROVE  /\ EndAll(S) \in Jobs /\ JobFits(EndAll(S))
           /\ EndAll(S).todo = S /\ ~EndAll(S).expiry
           /\ EndAll(S).step \in {"idle", "ending"} /\ ~EndAll(S).rearm
BY DEF EndAll, NoJob, Jobs, Steps, Roles, JobFits

(* A job goes on with what it still has to do. *)
LEMMA ContinueFits ==
    ASSUME NEW j \in Jobs, j.step \in {"fired", "ending", "codes", "push"}, j.todo \subseteq Devices
    PROVE  /\ Continue(j) \in Jobs /\ JobFits(Continue(j))
           /\ Continue(j).todo = j.todo
           /\ j.todo # {} => Continue(j).expiry = j.expiry
           /\ j.rearm => Continue(j).rearm \/ Continue(j).step = "rearm"
           /\ Continue(j).step \in {"idle", "ending", "rearm"}
<1>1. CASE j.todo # {}
  BY <1>1 DEF Continue, Jobs, Steps, JobFits
<1>2. CASE j.todo = {} /\ j.rearm
  BY <1>2 DEF Continue, NoJob, Jobs, Steps, Roles, JobFits
<1>3. CASE j.todo = {} /\ ~j.rearm
  BY <1>3 DEF Continue, NoJob, Jobs, Steps, Roles, JobFits
<1> QED BY <1>1, <1>2, <1>3 DEF Jobs

(* Do(g, j) gives j to g and leaves every other routine's job alone. *)
LEMMA DoIs ==
    ASSUME job \in [Routines -> Jobs], NEW g \in Routines, NEW j, Do(g, j)
    PROVE  job'[g] = j /\ \A h \in Routines : h # g => job'[h] = job[h]
BY DEF Do

(* A routine that takes up a fitting job leaves the others' alone. *)
LEMMA DoFits ==
    ASSUME job \in [Routines -> Jobs], JobsFit,
           NEW g \in Routines, NEW j \in Jobs, JobFits(j), Do(g, j)
    PROVE  /\ job' \in [Routines -> Jobs] /\ JobsFit'
           /\ job'[g] = j
           /\ \A h \in Routines : h # g => job'[h] = job[h]
BY DEF Do, JobsFit, JobFits

-----------------------------------------------------------------------------
(* The store.                                                              *)

StoreTypeOK ==
    /\ paired \subseteq Devices
    /\ used \subseteq Devices
    /\ maker \in [Devices -> Creators \cup {None}]
    /\ full \subseteq Devices
    /\ until \in [Devices -> Nat]

\* The timer is due before any limit that has not passed.
TimerSet == \A d \in paired : now < until[d] => timer \in 1..until[d]

(* Records go: the limits left still nest, and the timer is set for them. *)
LEMMA UnpairKeeps ==
    ASSUME TypeOK, IdsKept, LimitsNest, NEW S \in SUBSET Devices, Unpair(S), now' = now
    PROVE  /\ StoreTypeOK' /\ timer' \in Nat
           /\ IdsKept' /\ LimitsNest' /\ TimerSet'
           /\ paired' = paired \ S
<1>1. StoreTypeOK' /\ paired' = paired \ S
  BY DEF Unpair, TypeOK, StoreTypeOK
<1>2. Arm(paired \ S, until) /\ paired \ S \in SUBSET Devices
      /\ until \in [Devices -> Nat] /\ now \in Nat
  BY DEF Unpair, TypeOK
<1>3. timer' \in Nat /\ \A d \in paired \ S : now < until[d] => timer' \in 1..until[d]
  BY <1>2, ArmSets
<1>4. TimerSet'
  BY <1>2, <1>3 DEF Unpair, TimerSet
<1>5. IdsKept'
  BY AuthAssumption DEF Unpair, IdsKept, Creators
<1>6. LimitsNest'
  <2> SUFFICES ASSUME NEW d \in Devices, maker'[d] \in Devices, until'[maker'[d]] # 0
               PROVE  until'[d] \in 1..until'[maker'[d]]
    BY DEF LimitsNest
  <2>1. d \notin S /\ maker'[d] = maker[d]
    BY AuthAssumption DEF Unpair, Creators
  <2>2. until'[d] = until[d] /\ until'[maker[d]] = until[maker[d]]
    BY <2>1 DEF Unpair
  <2> QED BY <2>1, <2>2 DEF LimitsNest
<1> QED BY <1>1, <1>3, <1>4, <1>5, <1>6

(* The limit of a new device is no later than its maker's. *)
LEMMA NewLimitNests ==
    ASSUME TypeOK, NEW j \in Jobs, MayPair(j)
    PROVE  /\ NewLimit(j) \in Nat
           /\ j.who \in Devices /\ until[j.who] # 0 => NewLimit(j) \in 1..until[j.who]
<1>1. j.at \in Nat /\ j.lasts \in Nat
  BY DEF Jobs
<1>2. CASE j.who \in Devices /\ until[j.who] # 0
  <2>1. until[j.who] \in Nat /\ j.at < until[j.who]
    BY <1>2 DEF MayPair, TypeOK
  <2> QED BY <1>1, <1>2, <2>1 DEF NewLimit
<1>3. CASE ~(j.who \in Devices /\ until[j.who] # 0)
  BY <1>1, <1>3 DEF NewLimit
<1> QED BY <1>2, <1>3

(* A device is added. *)
LEMMA PairKeeps ==
    ASSUME TypeOK, IdsKept, LimitsNest, NEW g \in Routines, NEW d \in Devices, Pair(g, d)
    PROVE  /\ StoreTypeOK' /\ timer' \in Nat
           /\ IdsKept' /\ LimitsNest' /\ TimerSet'
           /\ paired' = paired \cup {d}
<1> DEFINE j == job[g]
           f == [until EXCEPT ![d] = NewLimit(j)]
<1>1. j \in Jobs /\ MayPair(j) /\ d \notin used /\ now' = now
  BY DEF Pair, TypeOK
<1>2. NewLimit(j) \in Nat
      /\ (j.who \in Devices /\ until[j.who] # 0 => NewLimit(j) \in 1..until[j.who])
  BY <1>1, NewLimitNests
<1>3. j.who \in Creators \cup {None} /\ (j.who \in Devices => j.who \in paired)
  BY <1>1 DEF Jobs, MayPair
<1>4. /\ paired' = paired \cup {d} /\ used' = used \cup {d}
      /\ maker' = [maker EXCEPT ![d] = j.who]
      /\ full' \in {full, full \cup {d}}
      /\ until' = f
      /\ Arm(paired \cup {d}, f)
  BY DEF Pair
<1> HIDE DEF j
<1>5. f \in [Devices -> Nat]
  BY <1>2 DEF TypeOK
<1>6. StoreTypeOK'
  BY <1>3, <1>4, <1>5 DEF StoreTypeOK, TypeOK
<1>7. paired \cup {d} \in SUBSET Devices /\ now \in Nat
  BY DEF TypeOK
<1>8. timer' \in Nat /\ \A x \in paired \cup {d} : now < f[x] => timer' \in 1..f[x]
  <2> HIDE DEF f
  <2> QED BY <1>4, <1>5, <1>7, ArmSets
<1>9. TimerSet'
  BY <1>1, <1>4, <1>8 DEF TimerSet
<1>10. IdsKept'
  BY <1>3, <1>4 DEF IdsKept, TypeOK
<1>11. LimitsNest'
  <2> SUFFICES ASSUME NEW x \in Devices, maker'[x] \in Devices, until'[maker'[x]] # 0
               PROVE  until'[x] \in 1..until'[maker'[x]]
    BY DEF LimitsNest
  <2>1. CASE x = d
    <3>1. maker'[x] = j.who /\ j.who \in paired
      BY <1>3, <1>4, <2>1 DEF TypeOK
    <3>2. j.who # d
      BY <1>1, <3>1 DEF IdsKept
    <3> QED BY <1>2, <1>4, <2>1, <3>1, <3>2 DEF TypeOK
  <2>2. CASE x # d
    <3>1. maker'[x] = maker[x] /\ maker[x] \in Devices
      BY <1>4, <2>2 DEF TypeOK
    <3>2. maker[x] # d
      BY <1>1, <3>1 DEF IdsKept
    <3> QED BY <1>4, <2>2, <3>1, <3>2 DEF TypeOK, LimitsNest
  <2> QED BY <2>1, <2>2
<1> QED BY <1>4, <1>6, <1>8, <1>9, <1>10, <1>11

-----------------------------------------------------------------------------
(* Types.                                                                  *)

\* A routine takes up a job that fits.
TakesUp(g) == \E j \in Jobs : JobFits(j) /\ Do(g, j)

(* A step of a running routine takes up a job that fits, and no other
   routine moves. *)
LEMMA StepTakesUp ==
    ASSUME TypeOK, JobsFit, NEW g \in Routines, Step(g)
    PROVE  TakesUp(g)
<1> USE DEF TakesUp
<1>0. job[g] \in Jobs /\ JobFits(job[g]) /\ NoJob \in Jobs /\ JobFits(NoJob)
  BY NoJobFits DEF TypeOK, JobsFit
<1>1. CASE AskCreator(g) \/ MakeCode(g) \/ ChangeFails(g) \/ Rearm(g) \/ AddSub(g)
  <2>1. CASE Done(g)
    BY <1>0, <2>1 DEF Done
  <2>2. CASE AskCreator(g) /\ Do(g, [job[g] EXCEPT !.step = "asked"])
    <3>1. /\ [job[g] EXCEPT !.step = "asked"] \in Jobs
          /\ JobFits([job[g] EXCEPT !.step = "asked"])
      BY <1>0, <2>2 DEF AskCreator, Jobs, Steps, JobFits
    <3> QED BY <2>2, <3>1
  <2> QED BY <1>1, <2>1, <2>2 DEF AskCreator, MakeCode, ChangeFails, Rearm, AddSub
<1>2. ASSUME NEW d \in Devices, Pair(g, d) PROVE TakesUp(g)
  <2>1. CASE job[g].other = None
    BY <1>0, <1>2, <2>1 DEF Pair
  <2>2. CASE job[g].other # None
    <3> DEFINE j == [NoJob EXCEPT !.step = "repairing", !.other = job[g].other]
    <3>1. j \in Jobs /\ j.step = "repairing" /\ j.todo = {} /\ j.rearm = FALSE
      BY <1>0 DEF NoJob, Jobs, Steps
    <3>2. JobFits(j)
      <4> HIDE DEF j
      <4> QED BY <3>1 DEF JobFits
    <3>3. Do(g, j)
      BY <1>2, <2>2 DEF Pair
    <3> HIDE DEF j
    <3> QED BY <3>1, <3>2, <3>3
  <2> QED BY <2>1, <2>2
<1>3. CASE Repair(g)
  <2>1. {job[g].other} \in SUBSET Devices
    BY <1>3 DEF Repair, TypeOK
  <2> QED BY <1>3, <2>1, EndAllFits DEF Repair
<1>4. CASE Sweep(g)
  <2> DEFINE first == PairedBy(job[g].sweep)
             gone == first \cup PairedBy(first)
  <2>1. gone \in SUBSET Devices
    BY DEF PairedBy, TypeOK
  <2>2. Do(g, EndAll(gone))
    BY <1>4 DEF Sweep
  <2> HIDE DEF gone
  <2> QED BY <2>1, <2>2, EndAllFits
<1>5. CASE EndSession(g)
  <2>1. PICK s \in job[g].todo :
          Do(g, IF job[g].todo # {s} THEN [job[g] EXCEPT !.todo = @ \ {s}]
                ELSE IF job[g].sweep = {} THEN NoJob
                ELSE [NoJob EXCEPT !.step = "sweeping", !.sweep = job[g].sweep])
    BY <1>5 DEF EndSession
  <2>2. [job[g] EXCEPT !.todo = @ \ {s}] \in Jobs /\ JobFits([job[g] EXCEPT !.todo = @ \ {s}])
    BY <1>0, <1>5 DEF EndSession, Jobs, JobFits
  <2>3. /\ [NoJob EXCEPT !.step = "sweeping", !.sweep = job[g].sweep] \in Jobs
        /\ JobFits([NoJob EXCEPT !.step = "sweeping", !.sweep = job[g].sweep])
    <3> DEFINE j == [NoJob EXCEPT !.step = "sweeping", !.sweep = job[g].sweep]
    <3>1. j \in Jobs /\ j.step = "sweeping" /\ j.todo = {} /\ j.rearm = FALSE
      BY <1>0 DEF NoJob, Jobs, Steps
    <3>2. JobFits(j)
      <4> HIDE DEF j
      <4> QED BY <3>1 DEF JobFits
    <3> QED BY <3>1, <3>2
  <2> QED BY <1>0, <2>1, <2>2, <2>3
<1>6. CASE NextToEnd(g)
  <2>1. PICK d \in job[g].todo :
          \/ Do(g, Continue([job[g] EXCEPT !.todo = @ \ {d}]))
          \/ Do(g, [job[g] EXCEPT !.step = "codes", !.who = d, !.todo = @ \ {d}])
    BY <1>6 DEF NextToEnd
  <2>2. /\ [job[g] EXCEPT !.todo = @ \ {d}] \in Jobs
        /\ [job[g] EXCEPT !.todo = @ \ {d}].step = "ending"
        /\ [job[g] EXCEPT !.todo = @ \ {d}].todo \subseteq Devices
    BY <1>0, <1>6 DEF NextToEnd, Jobs, JobFits
  <2>3. /\ [job[g] EXCEPT !.step = "codes", !.who = d, !.todo = @ \ {d}] \in Jobs
        /\ JobFits([job[g] EXCEPT !.step = "codes", !.who = d, !.todo = @ \ {d}])
    <3>1. d \in Creators /\ job[g].todo \in SUBSET (Devices \cup Sessions)
      BY <1>0 DEF Jobs, Creators
    <3>2. job[g].step = "ending"
      BY <1>6 DEF NextToEnd
    <3> DEFINE j == [job[g] EXCEPT !.step = "codes", !.who = d, !.todo = @ \ {d}]
    <3>3. job[g].todo \subseteq Devices
      BY <1>0, <3>2 DEF JobFits
    <3>4. /\ j \in Jobs /\ j.step = "codes" /\ j.todo = job[g].todo \ {d}
      BY <1>0, <3>1 DEF Jobs, Steps
    <3>5. JobFits(j)
      <4> HIDE DEF j
      <4> QED BY <3>3, <3>4 DEF JobFits
    <3> QED BY <3>4, <3>5
  <2>4. /\ Continue([job[g] EXCEPT !.todo = @ \ {d}]) \in Jobs
        /\ JobFits(Continue([job[g] EXCEPT !.todo = @ \ {d}]))
    BY <2>2, ContinueFits
  <2> QED BY <2>1, <2>3, <2>4
<1>7. CASE EndCodes(g)
  <2>1. /\ [job[g] EXCEPT !.step = "push"] \in Jobs
        /\ JobFits([job[g] EXCEPT !.step = "push"])
    BY <1>0, <1>7 DEF EndCodes, Jobs, Steps, JobFits
  <2> QED BY <1>7, <2>1 DEF EndCodes
<1>8. CASE EndPush(g)
  <2>1. job[g].step = "push" /\ job[g].todo \subseteq Devices /\ Do(g, Continue(job[g]))
    BY <1>0, <1>8 DEF EndPush, JobFits
  <2> QED BY <1>0, <2>1, ContinueFits
<1>9. CASE ListExpired(g)
  <2> DEFINE j == [job[g] EXCEPT !.todo = {d \in paired : Expired(d)}]
  <2>1. j \in Jobs /\ j.step = "fired" /\ j.todo \subseteq Devices
    BY <1>0, <1>9 DEF ListExpired, Jobs, TypeOK
  <2>2. Do(g, Continue(j))
    BY <1>9 DEF ListExpired
  <2> HIDE DEF j
  <2> QED BY <2>1, <2>2, ContinueFits
<1> QED BY <1>1, <1>2, <1>3, <1>4, <1>5, <1>6, <1>7, <1>8, <1>9 DEF Step

(* So does the start of a request or the firing of a timer, unless no
   routine starts. *)
LEMMA BeginTakesUp ==
    ASSUME TypeOK, JobsFit, NEW g \in Routines, Begin(g) \/ Fire(g)
    PROVE  TakesUp(g) \/ UNCHANGED job
<1> USE DEF TakesUp
<1>0. NoJob \in Jobs /\ JobFits(NoJob)
  BY NoJobFits
<1>1. ASSUME NEW m \in Creators, NEW r \in Roles, NEW want \in Limits, AskCode(g, m, r, want)
      PROVE  TakesUp(g)
  <2> DEFINE limited == m \in Devices /\ until[m] # 0
             lasts == IF limited /\ until[m] - now < want THEN until[m] - now ELSE want
             j == [NoJob EXCEPT !.step = "asking", !.who = m, !.role = r, !.lasts = lasts]
  <2>1. now \in Nat /\ want \in Nat /\ (m \in Devices => until[m] \in Nat)
    BY AuthAssumption DEF TypeOK
  <2>2. limited => now < until[m]
    BY <1>1, <2>1, AuthAssumption DEF AskCode, Alive, Expired
  <2>3. lasts \in Nat
    BY <2>1, <2>2
  <2>4. Do(g, j)
    BY <1>1 DEF AskCode
  <2> HIDE DEF lasts
  <2>5. j \in Jobs /\ JobFits(j)
    BY <1>0, <2>3 DEF NoJob, Jobs, Steps, JobFits
  <2> QED BY <2>4, <2>5
<1>2. ASSUME NEW c \in Codes, NEW prev \in Devices \cup {None}, Redeem(g, c, prev)
      PROVE  TakesUp(g)
  <2> DEFINE j == [NoJob EXCEPT !.step = "pairing", !.who = codes[c].by, !.role = codes[c].role,
                     !.lasts = codes[c].lasts, !.at = now, !.other = prev]
  <2>1. codes[c] \in Pending /\ now \in Nat
    BY <1>2 DEF Redeem, TypeOK
  <2>2. j \in Jobs /\ JobFits(j)
    BY <1>0, <2>1 DEF NoJob, Jobs, Steps, Pending, JobFits
  <2> QED BY <1>2, <2>2 DEF Redeem
<1>3. ASSUME NEW d \in Devices, NEW cascade \in BOOLEAN, RevokeDevice(g, d, cascade)
      PROVE  TakesUp(g)
  <2> DEFINE gone == {d} \cup IF cascade THEN PairedBy({d}) ELSE {}
  <2>1. gone \in SUBSET Devices
    BY DEF PairedBy, TypeOK
  <2>2. Do(g, EndAll(gone))
    BY <1>3 DEF RevokeDevice
  <2> HIDE DEF gone
  <2> QED BY <2>1, <2>2, EndAllFits
<1>4. ASSUME NEW S \in SUBSET paired, Reload(g, S)
      PROVE  TakesUp(g) \/ UNCHANGED job
  <2>1. S \in SUBSET Devices
    BY DEF TypeOK
  <2> QED BY <1>4, <2>1, EndAllFits DEF Reload
<1>5. ASSUME NEW S \in SUBSET Sessions, NEW revoke \in BOOLEAN, SignOut(g, S, revoke)
      PROVE  TakesUp(g)
  <2> DEFINE j == [NoJob EXCEPT !.step = "signedOut", !.todo = S, !.sweep = IF revoke THEN S ELSE {}]
  <2>1. j \in Jobs /\ JobFits(j)
    BY <1>0 DEF NoJob, Jobs, Steps, JobFits
  <2> QED BY <1>5, <2>1 DEF SignOut
<1>6. ASSUME NEW s \in Sessions, RevokeGone(g, s) PROVE TakesUp(g)
  <2> DEFINE j == [NoJob EXCEPT !.step = "sweeping", !.sweep = {s}]
  <2>1. j \in Jobs /\ JobFits(j)
    BY <1>0 DEF NoJob, Jobs, Steps, JobFits
  <2> QED BY <1>6, <2>1 DEF RevokeGone
<1>7. ASSUME NEW d \in Devices, Cookie(g, d) PROVE TakesUp(g)
  <2> DEFINE j == [EndAll({d}) EXCEPT !.expiry = TRUE]
  <2>1. EndAll({d}) \in Jobs /\ JobFits(EndAll({d}))
    BY EndAllFits
  <2>2. j \in Jobs /\ JobFits(j)
    BY <2>1 DEF Jobs, JobFits
  <2> QED BY <1>7, <2>2 DEF Cookie
<1>8. ASSUME NEW m \in Creators, NEW e \in Endpoints, Subscribe(g, m, e) PROVE TakesUp(g)
  <2> DEFINE who == IF m \in Devices THEN m ELSE Password
             j == [NoJob EXCEPT !.step = "subscribing", !.who = who, !.other = e]
  <2>1. who \in Devices \cup {Password}
    OBVIOUS
  <2>2. Do(g, j)
    BY <1>8 DEF Subscribe
  <2> HIDE DEF who
  <2>3. j \in Jobs /\ JobFits(j)
    BY <1>0, <2>1 DEF NoJob, Jobs, Steps, JobFits, Creators
  <2> QED BY <2>2, <2>3
<1>9. CASE Fire(g)
  <2> DEFINE j == [NoJob EXCEPT !.step = "fired", !.expiry = TRUE, !.rearm = TRUE]
  <2>1. j \in Jobs /\ JobFits(j)
    BY <1>0 DEF NoJob, Jobs, Steps, JobFits
  <2> QED BY <1>9, <2>1 DEF Fire
<1> QED BY <1>1, <1>2, <1>3, <1>4, <1>5, <1>6, <1>7, <1>8, <1>9 DEF Begin

(* Every step leaves each routine with a job that fits. *)
LEMMA JobsStep ==
    ASSUME TypeOK, JobsFit, [Next]_vars
    PROVE  job' \in [Routines -> Jobs] /\ JobsFit'
<1>1. ASSUME NEW g \in Routines, TakesUp(g) PROVE job' \in [Routines -> Jobs] /\ JobsFit'
  BY <1>1, DoFits DEF TakesUp, TypeOK
<1>2. CASE UNCHANGED job
  BY <1>2 DEF TypeOK, JobsFit, JobFits
<1>3. CASE Restart
  BY <1>3, NoJobFits DEF Restart, JobsFit, JobFits
<1>4. ASSUME Next PROVE Restart \/ UNCHANGED job \/ \E g \in Routines : TakesUp(g)
  BY <1>4, StepTakesUp, BeginTakesUp DEF Next, Lapse, DropSub, SignIn, Tick
<1>5. CASE UNCHANGED vars
  BY <1>2, <1>5 DEF vars
<1> QED BY <1>1, <1>2, <1>3, <1>4, <1>5

\* A check under way sets the timer again.
Rearming == \E g \in Routines : job[g].rearm \/ job[g].step = "rearm"

(* Any step of a routine but the one that rearms its timer keeps the
   invariant of the timer being rearmed. *)
LEMMA RearmKept ==
    ASSUME TypeOK, JobsFit, NEW g \in Routines, Step(g) \/ Begin(g) \/ Fire(g), ~Rearm(g), Rearming
    PROVE  Rearming'
<1>0. job[g] \in Jobs /\ JobFits(job[g])
  BY DEF TypeOK, JobsFit
<1>1. TakesUp(g) \/ UNCHANGED job
  BY StepTakesUp, BeginTakesUp
<1>2. CASE UNCHANGED job
  BY <1>2 DEF Rearming
<1>3. ASSUME TakesUp(g) PROVE job' \in [Routines -> Jobs] /\ \A h \in Routines : h # g => job'[h] = job[h]
  BY <1>3, DoFits DEF TakesUp, TypeOK
<1>4. ASSUME TakesUp(g), ~job[g].rearm, job[g].step # "rearm" PROVE Rearming'
  BY <1>3, <1>4 DEF Rearming
<1>5. ASSUME TakesUp(g), job'[g].rearm \/ job'[g].step = "rearm" PROVE Rearming'
  BY <1>5 DEF Rearming
<1>6. CASE NextToEnd(g) /\ job[g].rearm
  <2>1. PICK d \in job[g].todo :
          \/ Do(g, Continue([job[g] EXCEPT !.todo = @ \ {d}]))
          \/ Do(g, [job[g] EXCEPT !.step = "codes", !.who = d, !.todo = @ \ {d}])
    BY <1>6 DEF NextToEnd
  <2> DEFINE j == [job[g] EXCEPT !.todo = @ \ {d}]
  <2>2. j \in Jobs /\ j.step = "ending" /\ j.rearm /\ j.todo \subseteq Devices
    BY <1>0, <1>6 DEF NextToEnd, Jobs, JobFits
  <2>3. Continue(j).rearm \/ Continue(j).step = "rearm"
    <3> HIDE DEF j
    <3> QED BY <2>2, ContinueFits
  <2>4. job'[g] = Continue(j) \/ job'[g].rearm
    BY <1>0, <1>6, <2>1 DEF Do, TypeOK, Jobs
  <2>5. TakesUp(g)
    BY <1>6, StepTakesUp DEF Step
  <2> QED BY <1>5, <2>3, <2>4, <2>5
<1>7. CASE EndCodes(g) /\ job[g].rearm
  <2>1. TakesUp(g)
    BY <1>7, StepTakesUp DEF Step
  <2>2. job'[g].rearm
    BY <1>0, <1>7 DEF EndCodes, Do, TypeOK, Jobs
  <2> QED BY <1>5, <2>1, <2>2
<1>8. CASE EndPush(g) /\ job[g].rearm
  <2>1. TakesUp(g)
    BY <1>8, StepTakesUp DEF Step
  <2>2. job'[g] = Continue(job[g])
    BY <1>8 DEF EndPush, Do, TypeOK
  <2>3. Continue(job[g]).rearm \/ Continue(job[g]).step = "rearm"
    <3>1. job[g].step = "push" /\ job[g].todo \subseteq Devices
      BY <1>0, <1>8 DEF EndPush, JobFits
    <3> QED BY <1>0, <1>8, <3>1, ContinueFits
  <2> QED BY <1>5, <2>1, <2>2, <2>3
<1>9. CASE ListExpired(g) /\ job[g].rearm
  <2> DEFINE j == [job[g] EXCEPT !.todo = {d \in paired : Expired(d)}]
  <2>1. TakesUp(g)
    BY <1>9, StepTakesUp DEF Step
  <2>2. job'[g] = Continue(j)
    BY <1>9 DEF ListExpired, Do, TypeOK
  <2>3. j \in Jobs /\ j.step = "fired" /\ j.rearm /\ j.todo \subseteq Devices
    BY <1>0, <1>9 DEF ListExpired, Jobs, TypeOK
  <2>4. Continue(j).rearm \/ Continue(j).step = "rearm"
    <3> HIDE DEF j
    <3> QED BY <2>3, ContinueFits
  <2> QED BY <1>5, <2>1, <2>2, <2>4
<1>10. ASSUME job' # job
       PROVE  job[g].step \notin {"rearm"}
  <2>1. CASE Step(g)
    BY <2>1 DEF Step, AskCreator, MakeCode, Pair, ChangeFails, Repair, Sweep,
       EndSession, NextToEnd, EndCodes, EndPush, ListExpired, AddSub
  <2>2. CASE Begin(g) \/ Fire(g)
    BY <1>10, <2>2 DEF Begin, AskCode, Redeem, RevokeDevice, Reload, SignOut, RevokeGone,
       Cookie, Subscribe, Fire
  <2> QED BY <2>1, <2>2
<1>11. ASSUME job' # job, ~NextToEnd(g), ~EndCodes(g), ~EndPush(g), ~ListExpired(g)
       PROVE  job[g].step \notin {"fired", "ending", "codes", "push"}
  <2>1. CASE Step(g)
    BY <1>11, <2>1 DEF Step, AskCreator, MakeCode, Pair, ChangeFails, Repair, Sweep,
       EndSession, AddSub, Rearm
  <2>2. CASE Begin(g) \/ Fire(g)
    BY <1>11, <2>2 DEF Begin, AskCode, Redeem, RevokeDevice, Reload, SignOut, RevokeGone,
       Cookie, Subscribe, Fire
  <2> QED BY <2>1, <2>2
<1>12. CASE job' # job /\ ~job[g].rearm
  BY <1>1, <1>4, <1>10, <1>12
<1>13. CASE job' # job /\ job[g].rearm
  BY <1>0, <1>6, <1>7, <1>8, <1>9, <1>11, <1>13 DEF JobFits
<1> QED BY <1>2, <1>12, <1>13

\* What a step does to the store, the clock and the timer.
Removes == \E S \in SUBSET Devices : Unpair(S) /\ now' = now
Adds == \E g \in Routines, d \in Devices : Pair(g, d)
Arms == Arm(paired, until) /\ UNCHANGED <<storeVars, now>>
Fires == timer' = 0 /\ UNCHANGED <<storeVars, now>> /\ Rearming'
Keeps == UNCHANGED <<storeVars, timer>> /\ now' \in Nat /\ now <= now' /\ (Rearming => Rearming')

(* What any step does to the timers: it removes, adds, arms or fires some,
   or keeps them all. *)
LEMMA TimerSteps ==
    ASSUME TypeOK, JobsFit, [Next]_vars
    PROVE  Removes \/ Adds \/ Arms \/ Fires \/ Keeps
<1>0. now \in Nat
  BY DEF TypeOK
<1>1. ASSUME NEW g \in Routines, Step(g) PROVE Removes \/ Adds \/ Arms \/ Keeps
  <2>1. CASE Repair(g)
    <3>1. {job[g].other} \in SUBSET Devices
      BY <2>1 DEF Repair, TypeOK
    <3> QED BY <2>1, <3>1 DEF Repair, Removes
  <2>2. CASE Sweep(g)
    <3> DEFINE first == PairedBy(job[g].sweep)
               gone == first \cup PairedBy(first)
    <3>1. gone \in SUBSET Devices
      BY DEF PairedBy, TypeOK
    <3>2. UNCHANGED <<storeVars, timer>> \/ Unpair(gone)
      BY <2>2 DEF Sweep
    <3>3. now' = now /\ ~Rearm(g)
      BY <2>2 DEF Sweep, Rearm
    <3>4. Rearming => Rearming'
      BY <1>1, <3>3, RearmKept
    <3> HIDE DEF gone
    <3> QED BY <1>0, <3>1, <3>2, <3>3, <3>4 DEF Removes, Keeps
  <2>3. CASE Rearm(g)
    BY <2>3 DEF Rearm, Arms
  <2>4. ASSUME NEW d \in Devices, Pair(g, d) PROVE Adds
    BY <2>4 DEF Adds
  <2>5. ASSUME ~Repair(g), ~Sweep(g), ~Rearm(g), \A d \in Devices : ~Pair(g, d) PROVE Keeps
    <3>1. Rearming => Rearming'
      BY <1>1, <2>5, RearmKept
    <3>2. UNCHANGED <<storeVars, timer, now>>
      BY <1>1, <2>5 DEF Step, AskCreator, MakeCode, ChangeFails, EndSession, NextToEnd, EndCodes,
                        EndPush, ListExpired, AddSub
    <3> QED BY <1>0, <3>1, <3>2 DEF Keeps
  <2> QED BY <2>1, <2>2, <2>3, <2>4, <2>5
<1>2. ASSUME NEW g \in Routines, Begin(g) PROVE Removes \/ Keeps
  <2>1. ASSUME NEW d \in Devices, NEW cascade \in BOOLEAN, RevokeDevice(g, d, cascade) PROVE Removes
    <3> DEFINE gone == {d} \cup IF cascade THEN PairedBy({d}) ELSE {}
    <3>1. gone \in SUBSET Devices
      BY DEF PairedBy, TypeOK
    <3>2. Unpair(gone) /\ now' = now
      BY <2>1 DEF RevokeDevice
    <3> HIDE DEF gone
    <3> QED BY <3>1, <3>2 DEF Removes
  <2>2. ASSUME NEW S \in SUBSET paired, Reload(g, S) PROVE Removes
    <3>1. S \in SUBSET Devices
      BY DEF TypeOK
    <3> QED BY <2>2, <3>1 DEF Reload, Removes
  <2>3. ASSUME job[g].step = "idle", UNCHANGED <<storeVars, timer, now>> PROVE Keeps
    <3>1. ~Rearm(g)
      BY <2>3 DEF Rearm
    <3> QED BY <1>0, <1>2, <2>3, <3>1, RearmKept DEF Keeps
  <2> QED BY <1>2, <2>1, <2>2, <2>3
          DEF Begin, AskCode, Redeem, SignOut, RevokeGone, Cookie, Subscribe
<1>3. ASSUME NEW g \in Routines, Fire(g) PROVE Fires
  <2>1. job'[g].rearm
    BY <1>3 DEF Fire, Do, TypeOK, NoJob
  <2> QED BY <1>3, <2>1 DEF Fire, Fires, Rearming
<1>4. CASE Restart
  BY <1>4 DEF Restart, Arms
<1>5. ASSUME UNCHANGED <<storeVars, timer, job>>, now' \in {now, now + 1} PROVE Keeps
  BY <1>0, <1>5 DEF Keeps, Rearming
<1>6. CASE Tick \/ UNCHANGED vars
  BY <1>5, <1>6 DEF Tick, vars
<1> QED BY <1>1, <1>2, <1>3, <1>4, <1>5, <1>6 DEF Next, Lapse, DropSub, SignIn

(* The store and the timer keep their types, and ids their order. *)
LEMMA StoreStep ==
    ASSUME TypeOK, JobsFit, IdsKept, LimitsNest, [Next]_vars
    PROVE  StoreTypeOK' /\ now' \in Nat /\ timer' \in Nat /\ IdsKept' /\ LimitsNest'
<1>0. now \in Nat /\ timer \in Nat /\ StoreTypeOK
  BY DEF TypeOK, StoreTypeOK
<1>1. ASSUME UNCHANGED storeVars PROVE StoreTypeOK' /\ IdsKept' /\ LimitsNest'
  BY <1>0, <1>1 DEF storeVars, StoreTypeOK, IdsKept, LimitsNest
<1>2. CASE Removes
  BY <1>0, <1>2, UnpairKeeps DEF Removes
<1>3. CASE Adds
  <2>1. now' = now
    BY <1>3 DEF Adds, Pair
  <2> QED BY <1>0, <1>3, <2>1, PairKeeps DEF Adds
<1>4. CASE Arms
  <2>1. paired \in SUBSET Devices /\ until \in [Devices -> Nat]
    BY DEF TypeOK
  <2>2. timer' \in Nat
    BY <1>0, <1>4, <2>1, ArmSets DEF Arms
  <2> QED BY <1>0, <1>1, <1>4, <2>2 DEF Arms
<1>5. CASE Fires
  BY <1>0, <1>1, <1>5 DEF Fires
<1>6. CASE Keeps
  BY <1>0, <1>1, <1>6 DEF Keeps
<1> QED BY <1>2, <1>3, <1>4, <1>5, <1>6, TimerSteps

(* No step forgets a limit. *)
LEMMA LimitStep ==
    ASSUME TypeOK, JobsFit, IdsKept, LimitsNest, NoLimitForgotten, [Next]_vars
    PROVE  NoLimitForgotten'
<1>1. ASSUME TimerSet' PROVE NoLimitForgotten'
  BY <1>1 DEF TimerSet, NoLimitForgotten
<1>2. ASSUME Rearming' PROVE NoLimitForgotten'
  BY <1>2 DEF Rearming, NoLimitForgotten
<1>3. CASE Removes
  BY <1>1, <1>3, UnpairKeeps DEF Removes
<1>4. CASE Adds
  BY <1>1, <1>4, PairKeeps DEF Adds
<1>5. CASE Arms
  <2>1. paired \in SUBSET Devices /\ until \in [Devices -> Nat] /\ now \in Nat
    BY DEF TypeOK
  <2>2. \A d \in paired : now < until[d] => timer' \in 1..until[d]
    BY <1>5, <2>1, ArmSets DEF Arms
  <2> QED BY <1>1, <1>5, <2>2 DEF Arms, storeVars, TimerSet
<1>6. CASE Fires
  BY <1>2, <1>6 DEF Fires
<1>7. CASE Keeps
  <2>1. CASE Rearming
    BY <1>2, <1>7, <2>1 DEF Keeps
  <2>2. CASE ~Rearming
    <3>1. TimerSet
      BY <2>2 DEF NoLimitForgotten, Rearming, TimerSet
    <3>2. now \in Nat /\ paired \in SUBSET Devices /\ until \in [Devices -> Nat]
      BY DEF TypeOK
    <3>3. TimerSet'
      BY <1>7, <3>1, <3>2 DEF Keeps, storeVars, TimerSet
    <3> QED BY <1>1, <3>3
  <2> QED BY <2>1, <2>2
<1> QED BY <1>3, <1>4, <1>5, <1>6, <1>7, TimerSteps

\* The rest of the state keeps its type.
RestTypeOK ==
    /\ session \in [Sessions -> {"new", "live", "gone"}]
    /\ codes \in [Codes -> Pending \cup {None}]
    /\ codeLock \in Routines \cup {None}
    /\ ended \subseteq Devices
    /\ subs \in [Endpoints -> Devices \cup {Password, None}]
    /\ stray \subseteq Endpoints

(* Every step keeps the types of what is neither a timer, a stream nor a
   job. *)
LEMMA RestStep ==
    ASSUME TypeOK, JobsFit, [Next]_vars
    PROVE  RestTypeOK'
<1> DEFINE Rest == <<session, codes, codeLock, ended, subs, stray>>
<1>0. RestTypeOK
  BY DEF TypeOK, RestTypeOK
<1>1. ASSUME UNCHANGED Rest PROVE RestTypeOK'
  BY <1>0, <1>1 DEF RestTypeOK
<1>2. ASSUME NEW m, DropCreator(m), UNCHANGED <<session, ended, subs, stray>>, UNCHANGED codeLock
      PROVE  RestTypeOK'
  BY <1>0, <1>2 DEF DropCreator, RestTypeOK
<1>3. ASSUME NEW S, RemoveDevices(S), session' \in [Sessions -> {"new", "live", "gone"}],
             codes' \in [Codes -> Pending \cup {None}], codeLock' \in Routines \cup {None},
             ended' \subseteq Devices
      PROVE  RestTypeOK'
  BY <1>0, <1>3 DEF RemoveDevices, RestTypeOK
<1>4. ASSUME NEW g \in Routines, Step(g) PROVE RestTypeOK'
  <2>0. job[g] \in Jobs /\ JobFits(job[g])
    BY DEF TypeOK, JobsFit
  <2>1. CASE AskCreator(g)
    BY <1>0, <2>1 DEF AskCreator, RestTypeOK
  <2>2. CASE MakeCode(g)
    <3>1. [by |-> job[g].who, role |-> job[g].role, lasts |-> job[g].lasts] \in Pending
      BY <2>0, <2>2 DEF MakeCode, Jobs, JobFits, Pending
    <3> QED BY <1>0, <2>2, <3>1 DEF MakeCode, RestTypeOK
  <2>3. CASE EndSession(g)
    BY <1>2, <2>3 DEF EndSession
  <2>4. CASE NextToEnd(g)
    <3>1. PICK d \in job[g].todo :
            ended' \in {ended, ended \cup {d}} /\ (ended' # ended => job[g].expiry)
      BY <2>4 DEF NextToEnd
    <3>2. UNCHANGED <<session, codes, codeLock, subs, stray>>
      BY <2>4 DEF NextToEnd
    <3>3. ended' \subseteq Devices
      BY <1>0, <2>0, <2>4, <3>1 DEF NextToEnd, JobFits, RestTypeOK
    <3> QED BY <1>0, <3>2, <3>3 DEF RestTypeOK
  <2>5. CASE EndCodes(g)
    BY <1>2, <2>5 DEF EndCodes
  <2>6. CASE EndPush(g)
    BY <1>0, <1>3, <2>6 DEF EndPush, RestTypeOK
  <2>7. CASE AddSub(g)
    BY <1>0, <2>0, <2>7 DEF AddSub, JobFits, RestTypeOK
  <2>8. ASSUME NEW d \in Devices, Pair(g, d) PROVE RestTypeOK'
    BY <1>1, <2>8 DEF Pair
  <2>9. CASE ChangeFails(g) \/ Repair(g) \/ Sweep(g) \/ ListExpired(g) \/ Rearm(g)
    BY <1>1, <2>9 DEF ChangeFails, Repair, Sweep, ListExpired, Rearm
  <2> QED BY <1>4, <2>1, <2>2, <2>3, <2>4, <2>5, <2>6, <2>7, <2>8, <2>9 DEF Step
<1>5. ASSUME NEW g \in Routines, Begin(g) \/ Fire(g) PROVE RestTypeOK'
  <2>1. ASSUME NEW c \in Codes, NEW prev \in Devices \cup {None}, Redeem(g, c, prev) PROVE RestTypeOK'
    BY <1>0, <2>1 DEF Redeem, RestTypeOK
  <2>2. ASSUME NEW S \in SUBSET Sessions, NEW revoke \in BOOLEAN, SignOut(g, S, revoke) PROVE RestTypeOK'
    BY <1>0, <2>2 DEF SignOut, RestTypeOK
  <2> QED BY <1>1, <1>5, <2>1, <2>2 DEF Begin, AskCode, RevokeDevice, Reload, RevokeGone, Cookie,
                                        Subscribe, Fire
<1>6. CASE Restart
  <2>1. /\ session' \in [Sessions -> {"new", "live", "gone"}]
        /\ codes' \in [Codes -> Pending \cup {None}]
        /\ codeLock' \in Routines \cup {None}
        /\ ended' \subseteq Devices
    BY <1>6 DEF Restart
  <2> QED BY <1>3, <1>6, <2>1 DEF Restart
<1>7. ASSUME NEW c \in Codes, Lapse(c) PROVE RestTypeOK'
  BY <1>0, <1>7 DEF Lapse, RestTypeOK
<1>8. ASSUME NEW e \in Endpoints, DropSub(e) PROVE RestTypeOK'
  BY <1>0, <1>8 DEF DropSub, RestTypeOK
<1>9. ASSUME NEW s \in Sessions, SignIn(s) PROVE RestTypeOK'
  BY <1>0, <1>9 DEF SignIn, RestTypeOK
<1>10. CASE Tick \/ UNCHANGED vars
  BY <1>1, <1>10 DEF Tick, vars
<1> QED BY <1>4, <1>5, <1>6, <1>7, <1>8, <1>9, <1>10 DEF Next

-----------------------------------------------------------------------------
(* Codes.                                                                  *)

(* Only AskCreator leaves a routine with the creator asked for. *)
LEMMA NotAsked ==
    ASSUME TypeOK, JobsFit, NEW g \in Routines, Step(g) \/ Begin(g) \/ Fire(g), ~AskCreator(g)
    PROVE  job'[g].step # "asked" \/ UNCHANGED job
<1>0. job[g] \in Jobs /\ NoJob.step = "idle" /\ job \in [Routines -> Jobs]
  BY DEF TypeOK, NoJob
<1>1. CASE Step(g)
  <2>1. CASE MakeCode(g) \/ ChangeFails(g) \/ Rearm(g) \/ AddSub(g)
    BY <1>0, <2>1, DoIs DEF MakeCode, ChangeFails, Rearm, AddSub, Done
  <2>2. ASSUME NEW d \in Devices, Pair(g, d) PROVE job'[g].step # "asked"
    BY <1>0, <2>2 DEF Pair, Do, NoJob
  <2>3. CASE Repair(g) \/ Sweep(g)
    <3>1. \A S : EndAll(S).step # "asked"
      BY DEF EndAll, NoJob
    <3>2. \E S : Do(g, EndAll(S))
      BY <2>3 DEF Repair, Sweep
    <3> QED BY <1>0, <3>1, <3>2, DoIs
  <2>4. CASE EndSession(g)
    BY <1>0, <2>4 DEF EndSession, Do, NoJob, Jobs
  <2>5. CASE NextToEnd(g) \/ EndCodes(g) \/ EndPush(g) \/ ListExpired(g)
    <3>1. job[g].step \in {"ending", "codes", "push", "fired"}
      BY <2>5 DEF NextToEnd, EndCodes, EndPush, ListExpired
    <3>2. ASSUME NEW T PROVE Continue([job[g] EXCEPT !.todo = T]).step # "asked"
      BY <1>0, <3>1 DEF Continue, NoJob, Jobs
    <3>3. Continue(job[g]).step # "asked"
      BY <1>0, <3>1 DEF Continue, NoJob, Jobs
    <3>4. [job[g] EXCEPT !.step = "push"].step # "asked"
      BY <1>0 DEF Jobs
    <3>5. ASSUME NEW d, NEW T
          PROVE  [job[g] EXCEPT !.step = "codes", !.who = d, !.todo = T].step # "asked"
      BY <1>0 DEF Jobs
    <3>6. CASE NextToEnd(g)
      <4>1. PICK d \in job[g].todo :
              \/ Do(g, Continue([job[g] EXCEPT !.todo = job[g].todo \ {d}]))
              \/ Do(g, [job[g] EXCEPT !.step = "codes", !.who = d, !.todo = job[g].todo \ {d}])
        BY <3>6 DEF NextToEnd
      <4> DEFINE T == job[g].todo \ {d}
      <4>2. CASE Do(g, Continue([job[g] EXCEPT !.todo = T]))
        <5>1. Continue([job[g] EXCEPT !.todo = T]).step # "asked"
          BY <3>2
        <5> QED BY <1>0, <4>2, <5>1, DoIs
      <4>3. CASE Do(g, [job[g] EXCEPT !.step = "codes", !.who = d, !.todo = T])
        <5>1. [job[g] EXCEPT !.step = "codes", !.who = d, !.todo = T].step # "asked"
          BY <3>5
        <5> HIDE DEF T
        <5>2. job'[g] = [job[g] EXCEPT !.step = "codes", !.who = d, !.todo = T]
          BY <1>0, <4>3 DEF Do
        <5> QED BY <5>1, <5>2
      <4> QED BY <4>1, <4>2, <4>3
    <3>7. CASE ListExpired(g)
      <4>1. Do(g, Continue([job[g] EXCEPT !.todo = {d \in paired : Expired(d)}]))
        BY <3>7 DEF ListExpired
      <4> QED BY <1>0, <3>2, <4>1, DoIs
    <3>8. CASE EndCodes(g) \/ EndPush(g)
      BY <1>0, <3>3, <3>4, <3>8, DoIs DEF EndCodes, EndPush
    <3> QED BY <2>5, <3>6, <3>7, <3>8
  <2> QED BY <1>1, <2>1, <2>2, <2>3, <2>4, <2>5 DEF Step
<1>2. CASE Begin(g) \/ Fire(g)
    <2>1. \A S : EndAll(S).step # "asked" /\ [EndAll(S) EXCEPT !.expiry = TRUE].step # "asked"
      BY DEF EndAll, NoJob
    <2>2. ASSUME NEW S \in SUBSET paired, Reload(g, S) PROVE job'[g].step # "asked" \/ UNCHANGED job
      BY <2>1, <2>2 DEF Reload, Do, TypeOK
    <2>3. ASSUME NEW d \in Devices, Cookie(g, d) PROVE job'[g].step # "asked"
      BY <2>1, <2>3, DoIs DEF Cookie, TypeOK
    <2>5. ASSUME NEW d \in Devices, NEW cascade \in BOOLEAN, RevokeDevice(g, d, cascade)
          PROVE  job'[g].step # "asked"
      <3>1. \E S : Do(g, EndAll(S))
        BY <2>5 DEF RevokeDevice
      <3> QED BY <2>1, <3>1, DoIs DEF TypeOK
    <2>6. ASSUME NEW c \in Codes, NEW prev \in Devices \cup {None}, Redeem(g, c, prev)
          PROVE  job'[g].step # "asked"
      BY <2>6 DEF Redeem, Do, TypeOK, NoJob
    <2>7. ASSUME NEW S \in SUBSET Sessions, NEW revoke \in BOOLEAN, SignOut(g, S, revoke)
          PROVE  job'[g].step # "asked"
      BY <2>7 DEF SignOut, Do, TypeOK, NoJob
    <2>8. ASSUME NEW m \in Creators, NEW e \in Endpoints, Subscribe(g, m, e)
          PROVE  job'[g].step # "asked"
      BY <2>8 DEF Subscribe, Do, TypeOK, NoJob
    <2>9. CASE Fire(g) \/ \E s \in Sessions : RevokeGone(g, s)
      BY <2>9 DEF Fire, RevokeGone, Do, TypeOK, NoJob
    <2>4. ASSUME NEW m \in Creators, NEW r \in Roles, NEW want \in Limits, AskCode(g, m, r, want)
          PROVE  job'[g].step # "asked"
      BY <2>4 DEF AskCode, Do, TypeOK, NoJob
  <2> QED BY <1>2, <2>2, <2>3, <2>4, <2>5, <2>6, <2>7, <2>8, <2>9 DEF Begin
<1> QED BY <1>1, <1>2

(* codes.mu is only let go by who holds it, and taken while free. *)
LEMMA LockStep ==
    ASSUME TypeOK, JobsFit, LockHeld, [Next]_vars
    PROVE  LockHeld'
<1>0. None \notin Routines /\ NoJob.step = "idle" /\ job \in [Routines -> Jobs]
  BY AuthAssumption DEF NoJob, TypeOK
<1>1. ASSUME UNCHANGED <<job, codeLock>> PROVE LockHeld'
  BY <1>1 DEF LockHeld
<1>2. ASSUME NEW g \in Routines, AskCreator(g) PROVE LockHeld'
  <2>1. codeLock = None
    BY <1>2 DEF AskCreator
  <2>2. \A h \in Routines : job[h].step # "asked"
    BY <1>0, <2>1 DEF LockHeld
  <2>3. \A h \in Routines : h # g => job'[h] = job[h]
    BY <1>0, <1>2, DoIs DEF AskCreator, Done
  <2>4. codeLock' = g \/ job'[g] = NoJob
    BY <1>0, <1>2, DoIs DEF AskCreator, Done
  <2> QED BY <1>0, <2>2, <2>3, <2>4 DEF LockHeld
<1>3. ASSUME NEW g \in Routines, Step(g) \/ Begin(g) \/ Fire(g), ~AskCreator(g) PROVE LockHeld'
  <2>1. job'[g].step # "asked" \/ UNCHANGED job
    BY <1>3, NotAsked
  <2>2. \A h \in Routines : h # g => job'[h] = job[h]
    BY <1>3, StepTakesUp, BeginTakesUp, DoFits DEF TakesUp, TypeOK
  <2>3. CASE MakeCode(g)
    <3>1. \A h \in Routines : h # g => job[h].step # "asked"
      BY <2>3 DEF MakeCode, LockHeld
    <3>2. job'[g] = NoJob
      BY <1>0, <2>3, DoIs DEF MakeCode, Done
    <3> QED BY <1>0, <2>2, <3>1, <3>2 DEF LockHeld
  <2>4. CASE ~MakeCode(g)
    <3>1. codeLock' = codeLock
      BY <1>3, <2>4 DEF Step, Pair, ChangeFails, Repair, Sweep, EndSession, NextToEnd, EndCodes,
         EndPush, ListExpired, Rearm, AddSub, Begin, AskCode, Redeem, RevokeDevice, Reload,
         SignOut, RevokeGone, Cookie, Subscribe, Fire
    <3> QED BY <1>1, <2>1, <2>2, <3>1 DEF LockHeld
  <2> QED BY <2>3, <2>4
<1>4. CASE Restart
  BY <1>0, <1>4 DEF Restart, LockHeld
<1>5. CASE Tick \/ UNCHANGED vars
  BY <1>1, <1>5 DEF Tick, vars
<1> QED BY <1>1, <1>2, <1>3, <1>4, <1>5 DEF Next, Lapse, DropSub, SignIn

\* The routine with job j is to drop the codes of m; to drop its subscriptions.
Drops(j, m) == (m \in j.todo /\ ~j.expiry) \/ (m = j.who /\ j.step = "codes")
Unsubscribes(j, m) == Drops(j, m) \/ (m = j.who /\ j.step = "push")

(* What a routine has to do stays to do until EndCodes, EndSession or EndPush does it. *)
LEMMA DropsKept ==
    ASSUME TypeOK, JobsFit, NEW g \in Routines, Step(g) \/ Begin(g) \/ Fire(g), NEW m
    PROVE  /\ ~EndCodes(g) /\ ~EndSession(g) /\ Drops(job[g], m) => Drops(job'[g], m)
           /\ m \in Devices /\ ~(EndPush(g) /\ m = job[g].who) /\ Unsubscribes(job[g], m)
                => Unsubscribes(job'[g], m)
<1>0. job[g] \in Jobs /\ JobFits(job[g]) /\ job \in [Routines -> Jobs]
  BY DEF TypeOK, JobsFit
<1>1. CASE NextToEnd(g)
  <2>1. PICK d \in job[g].todo :
          \/ Do(g, Continue([job[g] EXCEPT !.todo = job[g].todo \ {d}])) /\ job[g].expiry
          \/ Do(g, [job[g] EXCEPT !.step = "codes", !.who = d, !.todo = job[g].todo \ {d}])
    BY <1>1 DEF NextToEnd
  <2> DEFINE j1 == [job[g] EXCEPT !.todo = job[g].todo \ {d}]
             j2 == [job[g] EXCEPT !.step = "codes", !.who = d, !.todo = job[g].todo \ {d}]
  <2>2. job[g].step = "ending"
    BY <1>1 DEF NextToEnd
  <2>3. CASE Do(g, Continue(j1)) /\ job[g].expiry
    BY <2>2, <2>3 DEF Drops, Unsubscribes
  <2>4. CASE Do(g, j2)
    <3>1. job'[g] = j2
      BY <1>0, <2>4, DoIs
    <3>2. /\ j2.step = "codes" /\ j2.who = d
          /\ j2.todo = job[g].todo \ {d} /\ j2.expiry = job[g].expiry
      BY <1>0 DEF Jobs
    <3> HIDE DEF j2
    <3> QED BY <2>2, <3>1, <3>2 DEF Drops, Unsubscribes
  <2> QED BY <2>1, <2>3, <2>4
<1>2. CASE EndPush(g)
  <2>1. job[g].step = "push" /\ job[g].todo \subseteq Devices /\ job'[g] = Continue(job[g])
    BY <1>0, <1>2, DoIs DEF EndPush, JobFits
  <2>2. /\ Continue(job[g]).todo = job[g].todo
        /\ job[g].todo # {} => Continue(job[g]).expiry = job[g].expiry
    BY <1>0, <2>1, ContinueFits
  <2> QED BY <1>2, <2>1, <2>2 DEF Drops, Unsubscribes
<1>3. CASE EndCodes(g)
  <2>1. job[g].step = "codes" /\ job'[g] = [job[g] EXCEPT !.step = "push"]
    BY <1>0, <1>3, DoIs DEF EndCodes
  <2>2. /\ job'[g].step = "push" /\ job'[g].who = job[g].who
        /\ job'[g].todo = job[g].todo /\ job'[g].expiry = job[g].expiry
    BY <1>0, <2>1 DEF Jobs
  <2> QED BY <1>3, <2>1, <2>2 DEF Drops, Unsubscribes
<1>4. CASE EndSession(g)
  <2>1. job[g].step = "signedOut" /\ job[g].todo \subseteq Sessions
    BY <1>0, <1>4 DEF EndSession, JobFits
  <2> QED BY <1>4, <2>1, AuthAssumption DEF Drops, Unsubscribes
<1>5. ASSUME ~NextToEnd(g), ~EndPush(g), ~EndCodes(g), ~EndSession(g), job' # job
      PROVE  job[g].step \notin {"ending", "codes", "push", "signedOut"}
  <2>1. CASE Step(g)
    BY <1>5, <2>1 DEF Step, AskCreator, MakeCode, Pair, ChangeFails, Repair, Sweep, ListExpired,
       Rearm, AddSub
  <2>2. CASE Begin(g) \/ Fire(g)
    BY <1>5, <2>2 DEF Begin, AskCode, Redeem, RevokeDevice, Reload, SignOut, RevokeGone,
       Cookie, Subscribe, Fire
  <2> QED BY <2>1, <2>2
<1>6. ASSUME job[g].step \notin {"ending", "codes", "push", "signedOut"}
      PROVE  ~Unsubscribes(job[g], m) /\ ~Drops(job[g], m)
  BY <1>0, <1>6 DEF JobFits, Drops, Unsubscribes
<1> QED BY <1>1, <1>2, <1>3, <1>4, <1>5, <1>6

(* The same of all routines. *)
LEMMA DroppingKept ==
    ASSUME TypeOK, JobsFit, NEW g \in Routines, Step(g) \/ Begin(g) \/ Fire(g), NEW m
    PROVE  /\ ~EndCodes(g) /\ ~EndSession(g) /\ Dropping(m) => Dropping(m)'
           /\ m \in Devices /\ ~(EndPush(g) /\ m = job[g].who) /\ Removing(m) => Removing(m)'
<1>1. \A h \in Routines : h # g => job'[h] = job[h]
  BY StepTakesUp, BeginTakesUp, DoFits DEF TakesUp, TypeOK
<1>2. /\ Dropping(m) <=> \E h \in Routines : Drops(job[h], m)
      /\ Dropping(m)' <=> \E h \in Routines : Drops(job'[h], m)
      /\ Removing(m) <=> \E h \in Routines : Unsubscribes(job[h], m)
      /\ Removing(m)' <=> \E h \in Routines : Unsubscribes(job'[h], m)
  BY DEF Dropping, Removing, Drops, Unsubscribes
<1>3. /\ ~EndCodes(g) /\ ~EndSession(g) /\ Drops(job[g], m) => Drops(job'[g], m)
      /\ m \in Devices /\ ~(EndPush(g) /\ m = job[g].who) /\ Unsubscribes(job[g], m)
            => Unsubscribes(job'[g], m)
  BY DropsKept
<1>4. ASSUME NEW h \in Routines PROVE h # g => (Drops(job[h], m) => Drops(job'[h], m))
                                            /\ (Unsubscribes(job[h], m) => Unsubscribes(job'[h], m))
  BY <1>1
<1> QED BY <1>2, <1>3, <1>4, Zenon

(* Who goes is on the way to be dropped. *)
LEMMA GoneIsDropped ==
    ASSUME TypeOK, JobsFit, NEW g \in Routines, Step(g) \/ Begin(g) \/ Fire(g),
           NEW m, Gone(m)', ~Gone(m)
    PROVE  Dropping(m)'
<1>0. job \in [Routines -> Jobs]
  BY DEF TypeOK
<1>1. ASSUME NEW S \in SUBSET Devices, Do(g, EndAll(S)), paired' = paired \ S,
             UNCHANGED session
      PROVE  Dropping(m)'
  <2>1. m \in S
    BY <1>1 DEF Gone
  <2>2. job'[g] = EndAll(S) /\ EndAll(S).todo = S /\ ~EndAll(S).expiry
    BY <1>0, <1>1, DoIs, EndAllFits
  <2> QED BY <2>1, <2>2 DEF Dropping
<1>2. ASSUME UNCHANGED <<paired, session>> PROVE FALSE
  BY <1>2 DEF Gone
<1>3. CASE Step(g)
  <2>1. CASE Repair(g)
    <3>1. {job[g].other} \in SUBSET Devices
      BY <2>1 DEF Repair, TypeOK
    <3> QED BY <1>1, <2>1, <3>1 DEF Repair, Unpair
  <2>2. CASE Sweep(g)
    <3> DEFINE first == PairedBy(job[g].sweep)
               gone == first \cup PairedBy(first)
    <3>1. gone \in SUBSET Devices
      BY DEF PairedBy, TypeOK
    <3>2. UNCHANGED paired \/ paired' = paired \ gone
      BY <2>2 DEF Sweep, Unpair, storeVars
    <3>3. Do(g, EndAll(gone)) /\ UNCHANGED session
      BY <2>2 DEF Sweep
    <3> HIDE DEF gone
    <3> QED BY <1>1, <1>2, <3>1, <3>2, <3>3
  <2>3. ASSUME NEW d \in Devices, Pair(g, d) PROVE FALSE
    BY <2>3 DEF Pair, Gone
  <2> QED BY <1>2, <1>3, <2>1, <2>2, <2>3 DEF Step, AskCreator, MakeCode, ChangeFails, EndSession,
          NextToEnd, EndCodes, EndPush, ListExpired, Rearm, AddSub, storeVars
<1>4. CASE Begin(g) \/ Fire(g)
  <2>1. ASSUME NEW d \in Devices, NEW cascade \in BOOLEAN, RevokeDevice(g, d, cascade) PROVE Dropping(m)'
    <3> DEFINE gone == {d} \cup IF cascade THEN PairedBy({d}) ELSE {}
    <3>1. gone \in SUBSET Devices
      BY DEF PairedBy, TypeOK
    <3>2. paired' = paired \ gone /\ Do(g, EndAll(gone)) /\ UNCHANGED session
      BY <2>1 DEF RevokeDevice, Unpair
    <3> HIDE DEF gone
    <3> QED BY <1>1, <3>1, <3>2
  <2>2. ASSUME NEW S \in SUBSET paired, Reload(g, S) PROVE Dropping(m)'
    <3>1. S \in SUBSET Devices
      BY DEF TypeOK
    <3>2. S # {}
      BY <1>2, <2>2 DEF Reload, Unpair
    <3> QED BY <1>1, <2>2, <3>1, <3>2 DEF Reload, Unpair
  <2>3. ASSUME NEW S \in SUBSET Sessions, NEW revoke \in BOOLEAN, SignOut(g, S, revoke) PROVE Dropping(m)'
    <3>1. m \in S
      BY <2>3 DEF SignOut, Gone, storeVars
    <3>2. job'[g].todo = S /\ ~job'[g].expiry
      BY <1>0, <2>3 DEF SignOut, Do, NoJob
    <3> QED BY <3>1, <3>2 DEF Dropping
  <2> QED BY <1>2, <1>4, <2>1, <2>2, <2>3 DEF Begin, AskCode, Redeem, RevokeGone, Cookie,
          Subscribe, Fire, storeVars
<1> QED BY <1>3, <1>4

(* Who was there when asked for is not gone. *)
LEMMA AliveIsNotGone ==
    ASSUME NEW m, Alive(m)
    PROVE  ~Gone(m)
BY AuthAssumption DEF Alive, Gone

(* A routine that drops the codes of one identity leaves the others to do. *)
LEMMA DropsButOne ==
    ASSUME TypeOK, JobsFit, NEW g \in Routines, EndCodes(g) \/ EndSession(g)
    PROVE  \E s : DropCreator(s) /\ \A m : m # s /\ Drops(job[g], m) => Drops(job'[g], m)
<1>0. job[g] \in Jobs /\ JobFits(job[g]) /\ job \in [Routines -> Jobs]
  BY DEF TypeOK, JobsFit
<1>1. CASE EndCodes(g)
  <2>1. job[g].step = "codes" /\ job'[g] = [job[g] EXCEPT !.step = "push"]
    BY <1>0, <1>1, DoIs DEF EndCodes
  <2>2. job'[g].todo = job[g].todo /\ job'[g].expiry = job[g].expiry
    BY <1>0, <2>1 DEF Jobs
  <2>3. \A m : m # job[g].who /\ Drops(job[g], m) => Drops(job'[g], m)
    BY <2>2 DEF Drops
  <2> QED BY <1>1, <2>3 DEF EndCodes
<1>2. CASE EndSession(g)
  <2>1. job[g].step = "signedOut"
    BY <1>2 DEF EndSession
  <2>2. PICK s \in job[g].todo :
          /\ DropCreator(s)
          /\ Do(g, IF job[g].todo # {s} THEN [job[g] EXCEPT !.todo = job[g].todo \ {s}]
                   ELSE IF job[g].sweep = {} THEN NoJob
                   ELSE [NoJob EXCEPT !.step = "sweeping", !.sweep = job[g].sweep])
    BY <1>2 DEF EndSession
  <2>3. ASSUME NEW m, m # s, Drops(job[g], m) PROVE Drops(job'[g], m)
    <3>1. m \in job[g].todo /\ ~job[g].expiry
      BY <2>1, <2>3 DEF Drops
    <3>2. Do(g, [job[g] EXCEPT !.todo = job[g].todo \ {s}])
      BY <2>2, <2>3, <3>1
    <3>3. job'[g] = [job[g] EXCEPT !.todo = job[g].todo \ {s}]
      BY <1>0, <3>2, DoIs
    <3>4. job'[g].todo = job[g].todo \ {s} /\ job'[g].expiry = job[g].expiry
      BY <1>0, <3>3 DEF Jobs
    <3> QED BY <2>3, <3>1, <3>4 DEF Drops
  <2> QED BY <2>2, <2>3
<1> QED BY <1>1, <1>2

(* No step leaves a code whose maker nobody is dropping. *)
LEMMA CodeStep ==
    ASSUME TypeOK, JobsFit, LockHeld, AskedStands, NoCodeOutlivesItsMaker, [Next]_vars
    PROVE  AskedStands' /\ NoCodeOutlivesItsMaker'
<1>0. job \in [Routines -> Jobs] /\ NoJob.step = "idle" /\ None \notin Routines
  BY AuthAssumption DEF TypeOK, NoJob
<1>1. CASE Restart
  BY <1>0, <1>1 DEF Restart, AskedStands, NoCodeOutlivesItsMaker
<1>2. ASSUME NEW g \in Routines, Step(g) \/ Begin(g) \/ Fire(g)
      PROVE  \A h \in Routines : h # g => job'[h] = job[h]
  BY <1>2, StepTakesUp, BeginTakesUp, DoFits DEF TakesUp, TypeOK
<1>3. ASSUME NEW g \in Routines, EndCodes(g) \/ EndSession(g)
      PROVE  AskedStands' /\ NoCodeOutlivesItsMaker'
  <2>0. Step(g) /\ ~AskCreator(g)
    BY <1>3 DEF Step, AskCreator, EndCodes, EndSession
  <2>1. \A h \in Routines : job[h].step # "asked"
    BY <1>0, <1>3 DEF EndCodes, EndSession, DropCreator, LockHeld
  <2>2. \A h \in Routines : job'[h].step # "asked"
    BY <1>2, <2>0, <2>1, NotAsked
  <2>3. PICK s : DropCreator(s) /\ \A m : m # s /\ Drops(job[g], m) => Drops(job'[g], m)
    BY <1>3, DropsButOne
  <2>4. \A m : Gone(m)' <=> Gone(m)
    BY <1>3 DEF EndCodes, EndSession, Gone, storeVars
  <2>5. ASSUME NEW m, m # s, Dropping(m) PROVE Dropping(m)'
    <3>1. PICK h \in Routines : Drops(job[h], m)
      BY <2>5 DEF Dropping, Drops
    <3>2. Drops(job'[h], m)
      BY <1>2, <2>0, <2>3, <2>5, <3>1
    <3> QED BY <3>2 DEF Dropping, Drops
  <2>6. \A c \in Codes : codes'[c] # None => codes'[c] = codes[c] /\ codes[c].by # s
    BY <2>3 DEF DropCreator
  <2> QED BY <2>2, <2>4, <2>5, <2>6 DEF AskedStands, NoCodeOutlivesItsMaker
<1>4. ASSUME NEW g \in Routines, MakeCode(g)
      PROVE  AskedStands' /\ NoCodeOutlivesItsMaker'
  <2>0. Step(g) /\ ~EndCodes(g) /\ ~EndSession(g)
    BY <1>4 DEF Step, MakeCode, EndCodes, EndSession
  <2>1. \A m : Gone(m)' <=> Gone(m)
    BY <1>4 DEF MakeCode, Gone, storeVars
  <2>2. ASSUME NEW m, Dropping(m) PROVE Dropping(m)'
    BY <2>0, <2>2, DroppingKept
  <2>3. job'[g] = NoJob
    BY <1>0, <1>4, DoIs DEF MakeCode, Done
  <2>4. AskedStands'
    BY <1>0, <1>2, <2>0, <2>1, <2>2, <2>3 DEF AskedStands
  <2>5. Gone(job[g].who) => Dropping(job[g].who)
    BY <1>4 DEF MakeCode, AskedStands
  <2>6. ASSUME NEW c \in Codes, codes'[c] # None
        PROVE  (codes[c] # None /\ codes'[c] = codes[c]) \/ codes'[c].by = job[g].who
    BY <1>4, <2>6 DEF MakeCode, TypeOK
  <2>7. NoCodeOutlivesItsMaker'
    BY <2>1, <2>2, <2>5, <2>6 DEF NoCodeOutlivesItsMaker
  <2> QED BY <2>4, <2>7
<1>5. ASSUME \A c \in Codes : codes'[c] \in {None, codes[c]},
             \A h \in Routines : job'[h].step = "asked" => job'[h] = job[h] \/ ~Gone(job[h].who)',
             \A m : Gone(m) /\ Dropping(m) => Dropping(m)',
             \A m : Gone(m)' /\ ~Gone(m) => Dropping(m)'
      PROVE  AskedStands' /\ NoCodeOutlivesItsMaker'
  <2>1. AskedStands'
    <3> SUFFICES ASSUME NEW h \in Routines, job'[h].step = "asked", Gone(job[h].who)'
                 PROVE  Dropping(job[h].who)'
      BY DEF AskedStands
    <3>1. job'[h] = job[h]
      BY <1>5
    <3>2. CASE Gone(job[h].who)
      BY <1>5, <3>1, <3>2 DEF AskedStands
    <3>3. CASE ~Gone(job[h].who)
      BY <1>5, <3>1, <3>3
    <3> QED BY <3>2, <3>3
  <2>2. NoCodeOutlivesItsMaker'
    BY <1>5 DEF NoCodeOutlivesItsMaker
  <2> QED BY <2>1, <2>2
<1>7. ASSUME NEW g \in Routines, Step(g) \/ Begin(g) \/ Fire(g),
             ~EndCodes(g), ~EndSession(g), ~MakeCode(g)
      PROVE  AskedStands' /\ NoCodeOutlivesItsMaker'
  <2>1. \A c \in Codes : codes'[c] \in {None, codes[c]}
    <3>1. ASSUME NEW c \in Codes, NEW prev \in Devices \cup {None}, Redeem(g, c, prev)
          PROVE  \A x \in Codes : codes'[x] \in {None, codes[x]}
      BY <3>1 DEF Redeem, TypeOK
    <3> QED BY <1>7, <3>1 DEF Step, AskCreator, Pair, ChangeFails, Repair, Sweep, NextToEnd, EndPush,
            ListExpired, Rearm, AddSub, Begin, AskCode, RevokeDevice, Reload, SignOut, RevokeGone,
            Cookie, Subscribe, Fire
  <2>2. ASSUME NEW h \in Routines, job'[h].step = "asked"
        PROVE  job'[h] = job[h] \/ ~Gone(job[h].who)'
    <3>1. CASE h # g
      BY <1>2, <1>7, <3>1
    <3>2. CASE h = g /\ ~AskCreator(g)
      BY <1>7, <2>2, <3>2, NotAsked
    <3>3. CASE h = g /\ AskCreator(g)
      <4>1. CASE Alive(job[g].who)
        <5>1. job'[g] = [job[g] EXCEPT !.step = "asked"] /\ job[g] \in Jobs
          BY <1>0, <3>3, <4>1, DoIs DEF AskCreator
        <5>2. job'[g].who = job[g].who
          BY <5>1 DEF Jobs
        <5>3. ~Gone(job[g].who)
          BY <4>1, AliveIsNotGone
        <5>4. UNCHANGED <<paired, session>>
          BY <3>3 DEF AskCreator, storeVars
        <5> QED BY <3>3, <5>2, <5>3, <5>4 DEF Gone
      <4>2. CASE ~Alive(job[g].who)
        BY <1>0, <2>2, <3>3, <4>2, DoIs DEF AskCreator, Done
      <4> QED BY <4>1, <4>2
    <3> QED BY <3>1, <3>2, <3>3
  <2>3. ASSUME NEW m, Dropping(m) PROVE Dropping(m)'
    BY <1>7, <2>3, DroppingKept
  <2>4. ASSUME NEW m, Gone(m)', ~Gone(m) PROVE Dropping(m)'
    BY <1>7, <2>4, GoneIsDropped
  <2> QED BY <1>5, <2>1, <2>2, <2>3, <2>4
<1>8. CASE (\E c \in Codes : Lapse(c)) \/ (\E e \in Endpoints : DropSub(e))
           \/ (\E s \in Sessions : SignIn(s)) \/ Tick \/ UNCHANGED vars
  <2>1. UNCHANGED job /\ \A m : Dropping(m)' <=> Dropping(m)
    BY <1>8 DEF Lapse, DropSub, SignIn, Tick, vars, Dropping
  <2>2. \A c \in Codes : codes'[c] \in {None, codes[c]}
    BY <1>8 DEF Lapse, DropSub, SignIn, Tick, vars, TypeOK
  <2>3. \A m : Gone(m)' => Gone(m)
    BY <1>8 DEF Lapse, DropSub, SignIn, Tick, vars, storeVars, Gone, TypeOK
  <2> QED BY <1>5, <2>1, <2>2, <2>3
<1> QED BY <1>1, <1>3, <1>4, <1>7, <1>8 DEF Next

-----------------------------------------------------------------------------
(* Push subscriptions.                                                     *)

(* After a removal, the subscriptions left of the identities S are strays. *)
LEMMA RemoveLeavesStrays ==
    ASSUME TypeOK, NEW S, RemoveDevices(S), NEW e \in Endpoints, subs'[e] \in Devices
    PROVE  /\ subs'[e] = subs[e]
           /\ subs[e] \in S \/ e \in stray => e \in stray'
<1>1. None \notin Devices
  BY AuthAssumption DEF Creators
<1> QED BY <1>1 DEF RemoveDevices, TypeOK

(* No step leaves a subscription of a revoked device but a stray. *)
LEMMA SubStep ==
    ASSUME TypeOK, JobsFit, OnlyStraysStay, [Next]_vars
    PROVE  OnlyStraysStay'
<1>0. None \notin Devices /\ Password \notin Devices
  BY AuthAssumption DEF Creators
<1>1. ASSUME NEW g \in Routines, Step(g) \/ Begin(g) \/ Fire(g), NEW e \in Endpoints,
             NEW d \in Devices, subs[e] = d, d \notin paired', ~(EndPush(g) /\ d = job[g].who)
      PROVE  e \in stray \/ Removing(d)'
  <2>1. CASE d \in paired
    <3>1. Gone(d)' /\ ~Gone(d)
      BY <1>1, <2>1, AuthAssumption DEF Gone
    <3>2. Dropping(d)'
      BY <1>1, <3>1, GoneIsDropped
    <3> QED BY <3>2 DEF Removing
  <2>2. CASE d \notin paired
    <3>1. e \in stray \/ Removing(d)
      BY <1>1, <2>2 DEF OnlyStraysStay
    <3> QED BY <1>1, <3>1, DroppingKept
  <2> QED BY <2>1, <2>2
<1>2. ASSUME NEW e \in Endpoints, NEW d \in Devices, subs'[e] = d, Removing(d)'
      PROVE  Removing(subs[e])'
  BY <1>2 DEF Removing, Dropping
<1>3. ASSUME NEW g \in Routines, Step(g) \/ Begin(g) \/ Fire(g), ~EndPush(g),
             UNCHANGED <<subs, stray>>
      PROVE  OnlyStraysStay'
  BY <1>1, <1>2, <1>3 DEF OnlyStraysStay
<1>4. ASSUME NEW g \in Routines, EndPush(g) PROVE OnlyStraysStay'
  <2> SUFFICES ASSUME NEW e \in Endpoints, subs'[e] \in Devices \ paired'
               PROVE  e \in stray' \/ Removing(subs[e])'
    BY DEF OnlyStraysStay
  <2>1. RemoveDevices({job[g].who}) /\ Step(g)
    BY <1>4 DEF EndPush, Step
  <2>2. /\ subs'[e] = subs[e]
        /\ subs[e] = job[g].who \/ e \in stray => e \in stray'
    BY <2>1, RemoveLeavesStrays
  <2>3. CASE subs[e] # job[g].who
    BY <1>1, <1>2, <2>1, <2>2, <2>3
  <2> QED BY <2>2, <2>3
<1>5. ASSUME NEW g \in Routines, AddSub(g) PROVE OnlyStraysStay'
  <2> SUFFICES ASSUME NEW e \in Endpoints, subs'[e] \in Devices \ paired'
               PROVE  e \in stray' \/ Removing(subs[e])'
    BY DEF OnlyStraysStay
  <2>1. Step(g) /\ ~EndPush(g) /\ paired' = paired
    BY <1>5 DEF Step, AddSub, EndPush, storeVars
  <2>2. CASE e = job[g].other /\ subs' = [subs EXCEPT ![e] = job[g].who]
               /\ stray' = IF job[g].who \in Devices \ paired THEN stray \cup {e} ELSE stray \ {e}
    BY <2>1, <2>2 DEF TypeOK
  <2>3. CASE subs'[e] = subs[e] /\ (e \in stray => e \in stray')
    BY <1>1, <1>2, <2>1, <2>3
  <2> QED BY <1>5, <2>2, <2>3 DEF AddSub, TypeOK
<1>6. CASE Restart
  <2> SUFFICES ASSUME NEW e \in Endpoints, subs'[e] \in Devices \ paired'
               PROVE  e \in stray'
    BY DEF OnlyStraysStay
  <2> DEFINE S == {d \in Devices : ~Alive(d)}
  <2>1. RemoveDevices(S) /\ paired' = paired
    BY <1>6 DEF Restart, storeVars
  <2>2. subs'[e] \in S
    BY <2>1, AuthAssumption DEF Alive
  <2> HIDE DEF S
  <2> QED BY <2>1, <2>2, RemoveLeavesStrays
<1>7. ASSUME UNCHANGED <<paired, job>>,
             \A e \in Endpoints : subs'[e] = None \/ (subs'[e] = subs[e] /\ (e \in stray => e \in stray'))
      PROVE  OnlyStraysStay'
  BY <1>0, <1>7 DEF OnlyStraysStay, Removing, Dropping
<1>8. CASE (\E c \in Codes : Lapse(c)) \/ (\E s \in Sessions : SignIn(s)) \/ Tick \/ UNCHANGED vars
  <2>1. UNCHANGED <<paired, job, subs, stray>>
    BY <1>8 DEF Lapse, SignIn, Tick, vars, storeVars
  <2> QED BY <1>7, <2>1
<1>10. ASSUME NEW e \in Endpoints, DropSub(e) PROVE OnlyStraysStay'
  <2>1. UNCHANGED <<paired, job>>
    BY <1>10 DEF DropSub, storeVars
  <2>2. subs' = [subs EXCEPT ![e] = None] /\ stray' = stray \ {e}
    BY <1>10 DEF DropSub
  <2>3. ASSUME NEW x \in Endpoints
        PROVE  subs'[x] = None \/ (subs'[x] = subs[x] /\ (x \in stray => x \in stray'))
    BY <2>2 DEF TypeOK
  <2> QED BY <1>7, <2>1, <2>3
<1>9. ASSUME NEW g \in Routines, Step(g) \/ Begin(g) \/ Fire(g), ~EndPush(g), ~AddSub(g)
      PROVE  UNCHANGED <<subs, stray>>
  BY <1>9 DEF Step, AskCreator, MakeCode, Pair, ChangeFails, Repair, Sweep, EndSession, NextToEnd,
     EndCodes, ListExpired, Rearm, Begin, AskCode, Redeem, RevokeDevice, Reload, SignOut,
     RevokeGone, Cookie, Subscribe, Fire
<1> QED BY <1>3, <1>4, <1>5, <1>6, <1>8, <1>9, <1>10 DEF Next

-----------------------------------------------------------------------------
(* The theorems.                                                           *)

(* The server starts within the invariant. *)
LEMMA Initially == Init => IInv
<1> SUFFICES ASSUME Init PROVE IInv
  OBVIOUS
<1>0. NoJob \in Jobs /\ JobFits(NoJob) /\ NoJob.step = "idle" /\ None \notin Devices
  BY NoJobFits, AuthAssumption DEF NoJob, Creators
<1>1. TypeOK /\ JobsFit
  BY <1>0 DEF Init, TypeOK, JobsFit
<1>2. LockHeld /\ AskedStands /\ NoCodeOutlivesItsMaker
  BY <1>0 DEF Init, LockHeld, AskedStands, NoCodeOutlivesItsMaker
<1>3. IdsKept /\ LimitsNest /\ NoLimitForgotten
  BY <1>0 DEF Init, IdsKept, LimitsNest, NoLimitForgotten
<1>4. OnlyStraysStay
  BY <1>0 DEF Init, OnlyStraysStay
<1> QED BY <1>1, <1>2, <1>3, <1>4 DEF IInv

(* No step leaves the invariant. *)
LEMMA Inductive == IInv /\ [Next]_vars => IInv'
<1> SUFFICES ASSUME IInv, [Next]_vars PROVE IInv'
  OBVIOUS
<1> USE DEF IInv
<1>1. job' \in [Routines -> Jobs] /\ JobsFit'
  BY JobsStep
<1>2. StoreTypeOK' /\ now' \in Nat /\ timer' \in Nat /\ IdsKept' /\ LimitsNest'
  BY StoreStep
<1>3. RestTypeOK'
  BY RestStep
<1>4. TypeOK'
  BY <1>1, <1>2, <1>3 DEF TypeOK, StoreTypeOK, RestTypeOK
<1>5. LockHeld'
  BY LockStep
<1>6. AskedStands' /\ NoCodeOutlivesItsMaker'
  BY CodeStep
<1>7. NoLimitForgotten'
  BY LimitStep
<1>8. OnlyStraysStay'
  BY SubStep
<1> QED BY <1>1, <1>2, <1>4, <1>5, <1>6, <1>7, <1>8

(* The invariant always holds. *)
LEMMA Holds == Spec => []IInv
BY Initially, Inductive, PTL DEF Spec

(* Every variable keeps its type: what the handlers keep in memory and on  *)
(* disk.                                                                   *)
THEOREM TypeCorrect == Spec => []TypeOK
BY Holds, PTL DEF IInv

(* create asks for the maker under codes.mu, and a revoke marks the maker  *)
(* gone before dropCreator takes it: whatever the order, a code made while *)
(* its maker goes is refused or dropped.                                   *)
THEOREM CodesDie == Spec => []NoCodeOutlivesItsMaker
BY Holds, PTL DEF IInv

(* pairValidity and add cut the limit of a device to its maker's, which is *)
(* read again in the change that adds it: no device outlasts its maker.    *)
THEOREM LimitsNested == Spec => []LimitsNest
BY Holds, PTL DEF IInv

(* However changes, reloads and the timer's own check set the timer over   *)
(* each other, it is due no later than any limit that has not passed, or a *)
(* check is on its way to set it again.                                    *)
THEOREM LimitsKept == Spec => []NoLimitForgotten
BY Holds, PTL DEF IInv

(* end removes the subscriptions of a device that went: what stays was     *)
(* added by a request under way, or could not be saved.                    *)
THEOREM StraysOnly == Spec => []OnlyStraysStay
BY Holds, PTL DEF IInv

(* A limit stands until it passes, whoever sets the timer.                 *)
THEOREM LimitsStand == Spec => []LimitsHold
BY LimitsNested, LimitsKept, PTL DEF LimitsHold
=============================================================================
