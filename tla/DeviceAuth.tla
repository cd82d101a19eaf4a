----------------------------- MODULE DeviceAuth -----------------------------
(***************************************************************************)
(* What ends with an identity, in one server process: the pairing codes a  *)
(* device or a session made (device_pairing.go), the push subscriptions of *)
(* a device (push_store.go), and the timer that ends what a device holds   *)
(* when its time limit passes (device_routes.go).  Its stream tokens and   *)
(* streams end in the same calls: TokenStore and StreamHub have those.     *)
(*                                                                         *)
(* A routine is a goroutine: a request, a callback of the timer, or the    *)
(* one a reload starts.  The device store is taken as DeviceStore shows it *)
(* to this process: a change is one step, made or failed, and a reload      *)
(* notices what another process revoked (one that a change reads in passing *)
(* is noticed by nobody: GoneIsEnded of DeviceStore, left out here).       *)
(***************************************************************************)
EXTENDS Identities, Integers, FiniteSets

CONSTANTS
    Password,      \* who the CLI's codes and the password's subscriptions are of
    Endpoints,     \* push subscriptions, by endpoint
    Codes,         \* places for waiting codes (maxPairCodes)
    Routines,
    Limits,        \* the validFor a code may ask for, 0 for no limit
    MaxTime,       \* bound on the clock
    SaveFails      \* whether subscriptions.json may fail to be written

Creators == Devices \cup Sessions \cup {Password}

ASSUME AuthAssumption ==
    /\ Devices \cap Sessions = {}
    /\ Password \notin Devices \cup Sessions
    /\ None \notin Creators \cup Endpoints \cup Routines
    /\ Limits \subseteq Nat /\ MaxTime \in Nat
    /\ SaveFails \in BOOLEAN

VARIABLES
    now,       \* the wall clock
    paired,    \* the store's live records, past their limit or not
    used,      \* the ids given out
    maker,     \* pairedBy of each record
    full,      \* those of full devices
    until,     \* validUntil of each, 0 for none
    session,   \* [Sessions -> "new", "live" or "gone"]
    codes,     \* [Codes -> the pending pairing or None]
    codeLock,  \* who holds codes.mu while it asks for the creator
    timer,     \* when the expiry timer is due, 0 when none is set
    ended,     \* d.ended: the devices expire has seen
    subs,      \* [Endpoints -> the device, Password or None]
    job,       \* what each routine is doing
    stray      \* history: subscriptions added after their device's end, or not saved

storeVars == <<paired, used, maker, full, until>>
vars == <<now, storeVars, session, codes, codeLock, timer, ended, subs, job, stray>>

Roles == {"full", "view"}
Pending == [by : Creators, role : Roles, lasts : Nat]

\* who, role, lasts, at, other: the identity in hand, the role and the validFor
\* of a pairing, the time it began at, the device to revoke after it or the
\* endpoint to add.
\* todo, expiry, rearm: the identities still to end, through expire or not,
\* and whether the timer is set again afterwards.  sweep: the sessions whose
\* devices are to be revoked.
NoJob == [step |-> "idle", who |-> None, role |-> "view", lasts |-> 0, at |-> 0, other |-> None,
          todo |-> {}, expiry |-> FALSE, rearm |-> FALSE, sweep |-> {}]

Steps == {"idle", "asking", "asked", "pairing", "repairing", "subscribing",
          "fired", "ending", "codes", "push", "rearm", "signedOut", "sweeping"}

Jobs == [step : Steps, who : Creators \cup {None}, role : Roles, lasts : Nat, at : Nat,
         other : Devices \cup Endpoints \cup {None}, todo : SUBSET (Devices \cup Sessions),
         expiry : BOOLEAN, rearm : BOOLEAN, sweep : SUBSET Sessions]

TypeOK ==
    /\ now \in Nat
    /\ paired \subseteq Devices
    /\ used \subseteq Devices
    /\ maker \in [Devices -> Creators \cup {None}]
    /\ full \subseteq Devices
    /\ until \in [Devices -> Nat]
    /\ session \in [Sessions -> {"new", "live", "gone"}]
    /\ codes \in [Codes -> Pending \cup {None}]
    /\ codeLock \in Routines \cup {None}
    /\ timer \in Nat
    /\ ended \subseteq Devices
    /\ subs \in [Endpoints -> Devices \cup {Password, None}]
    /\ job \in [Routines -> Jobs]
    /\ stray \subseteq Endpoints

Init ==
    /\ now = 0
    /\ paired = {} /\ used = {}
    /\ maker = [d \in Devices |-> None]
    /\ full = {}
    /\ until = [d \in Devices |-> 0]
    /\ session = [s \in Sessions |-> "new"]
    /\ codes = [c \in Codes |-> None]
    /\ codeLock = None
    /\ timer = 0
    /\ ended = {}
    /\ subs = [e \in Endpoints |-> None]
    /\ job = [g \in Routines |-> NoJob]
    /\ stray = {}

-----------------------------------------------------------------------------
(* Helpers.                                                                *)

Expired(d) == until[d] # 0 /\ now >= until[d]

\* store.alive, creatorAlive: a live device within its limit, a session not
\* revoked, the password.
Alive(m) ==
    \/ m = Password
    \/ m \in Devices /\ m \in paired /\ ~Expired(m)
    \/ m \in Sessions /\ session[m] = "live"

\* A view-only client makes no codes and subscribes to nothing.
Full(m) == m \in Devices => m \in full

Earliest(T) == IF T = {} THEN 0 ELSE CHOOSE t \in T : \A u \in T : t <= u

\* changedLocked, nextExpiryLocked, arm: the timer is stopped and set to the
\* earliest limit of the records P that has not passed.
Arm(P, f) == timer' = Earliest({f[d] : d \in P} \ 0..now)

PairedBy(S) == {d \in paired : maker[d] \in S}

\* The records S are removed.
Unpair(S) ==
    /\ paired' = paired \ S
    /\ maker' = [d \in Devices |-> IF d \in S THEN None ELSE maker[d]]
    /\ full' = full \ S
    /\ until' = [d \in Devices |-> IF d \in S THEN 0 ELSE until[d]]
    /\ Arm(paired \ S, until)
    /\ UNCHANGED used

Do(g, j) == job' = [job EXCEPT ![g] = j]
Done(g) == Do(g, NoJob)
\* The routine ends the identities S, one after the other.
EndAll(S) == IF S = {} THEN NoJob ELSE [NoJob EXCEPT !.step = "ending", !.todo = S]
\* It is through with one of them.
Continue(j) ==
    IF j.todo # {} THEN [j EXCEPT !.step = "ending", !.who = None]
    ELSE IF j.rearm THEN [NoJob EXCEPT !.step = "rearm"]
    ELSE NoJob

-----------------------------------------------------------------------------
(* Pairing: a code is made, redeemed, and the device added.                *)

\* A request of m for a code; a device pairs only view-only ones, and
\* pairValidity cuts the limit it asks for to what is left of m.
AskCode(g, m, r, want) ==
    LET limited == m \in Devices /\ until[m] # 0
    IN  /\ job[g].step = "idle" /\ Alive(m) /\ Full(m)
        /\ m \in Devices => r = "view"
        /\ limited => want # 0
        /\ Do(g, [NoJob EXCEPT !.step = "asking", !.who = m, !.role = r,
                    !.lasts = IF limited /\ until[m] - now < want
                                THEN until[m] - now ELSE want])
        /\ UNCHANGED <<now, storeVars, session, codes, codeLock, timer, ended, subs, stray>>

\* Mutant of AskCreator: the creator is asked for before codes.mu is taken.
AskCreatorEarly(g) ==
    /\ job[g].step = "asking" /\ Alive(job[g].who)
    /\ Do(g, [job[g] EXCEPT !.step = "asked"])
    /\ UNCHANGED <<now, storeVars, session, codes, codeLock, timer, ended, subs, stray>>

\* create takes codes.mu and asks whether its maker is still there.
AskCreator(g) ==
    /\ job[g].step = "asking" /\ codeLock = None
    /\ IF Alive(job[g].who)
         THEN Do(g, [job[g] EXCEPT !.step = "asked"]) /\ codeLock' = g
         ELSE Done(g) /\ UNCHANGED codeLock
    /\ UNCHANGED <<now, storeVars, session, codes, timer, ended, subs, stray>>

\* Mutant of MakeCode: codes.mu is kept when too many wait.
MakeCodeKeepsLock(g) ==
    /\ job[g].step = "asked"
    /\ Done(g)
    /\ \/ \E c \in Codes :
            /\ codes[c] = None
            /\ codes' = [codes EXCEPT ![c] = [by |-> job[g].who, role |-> job[g].role,
                                               lasts |-> job[g].lasts]]
            /\ codeLock' = None
       \/ /\ \A c \in Codes : codes[c] # None
          /\ UNCHANGED <<codes, codeLock>>
    /\ UNCHANGED <<now, storeVars, session, timer, ended, subs, stray>>

\* It keeps the code, unless too many wait, and lets codes.mu go.
MakeCode(g) ==
    /\ job[g].step = "asked"
    /\ codeLock' = None
    /\ Done(g)
    /\ \/ \E c \in Codes :
            /\ codes[c] = None
            /\ codes' = [codes EXCEPT ![c] = [by |-> job[g].who, role |-> job[g].role,
                                               lasts |-> job[g].lasts]]
       \/ /\ \A c \in Codes : codes[c] # None
          /\ UNCHANGED codes
    /\ UNCHANGED <<now, storeVars, session, timer, ended, subs, stray>>

\* A code past its five minutes is not found.
Lapse(c) ==
    /\ codes[c] # None
    /\ codes' = [codes EXCEPT ![c] = None]
    /\ UNCHANGED <<now, storeVars, session, codeLock, timer, ended, subs, job, stray>>

\* A browser posts a code: it is gone whether or not the pairing succeeds.
\* The browser may be a view-only device, which the new one replaces.
Redeem(g, c, prev) ==
    /\ job[g].step = "idle" /\ codeLock = None /\ codes[c] # None
    /\ prev # None => Alive(prev) /\ ~Full(prev)
    /\ codes' = [codes EXCEPT ![c] = None]
    /\ Do(g, [NoJob EXCEPT !.step = "pairing", !.who = codes[c].by,
                !.role = codes[c].role, !.lasts = codes[c].lasts, !.at = now, !.other = prev])
    /\ UNCHANGED <<now, storeVars, session, codeLock, timer, ended, subs, stray>>

\* The maker is still there when the file is written; its limit counts from
\* when the pairing began.
MayPair(j) ==
    /\ j.who \in Sessions => session[j.who] = "live"
    /\ j.who \in Devices => j.who \in paired /\ (until[j.who] = 0 \/ j.at < until[j.who])

\* validUntil of the new device: no later than its maker's.
NewLimit(j) ==
    LET m == j.who
        limited == m \in Devices /\ until[m] # 0
    IN  IF limited /\ (j.lasts = 0 \/ until[m] - j.at < j.lasts) THEN until[m]
        ELSE IF j.lasts = 0 THEN 0
        ELSE j.at + j.lasts

\* add: the device is paired.
Pair(g, d) ==
    LET j == job[g]
    IN  /\ j.step = "pairing" /\ MayPair(j) /\ d \notin used
        /\ paired' = paired \cup {d} /\ used' = used \cup {d}
        /\ maker' = [maker EXCEPT ![d] = j.who]
        /\ full' = IF j.role = "full" THEN full \cup {d} ELSE full
        /\ until' = [until EXCEPT ![d] = NewLimit(j)]
        /\ Arm(paired \cup {d}, [until EXCEPT ![d] = NewLimit(j)])
        /\ Do(g, IF j.other = None THEN NoJob
                 ELSE [NoJob EXCEPT !.step = "repairing", !.other = j.other])
        /\ UNCHANGED <<now, session, codes, codeLock, ended, subs, stray>>

\* A change fails, or is refused.
ChangeFails(g) ==
    /\ job[g].step \in {"pairing", "repairing", "sweeping"}
    /\ Done(g)
    /\ UNCHANGED <<now, storeVars, session, codes, codeLock, timer, ended, subs, stray>>

\* The view-only device that paired again is revoked.
Repair(g) ==
    /\ job[g].step = "repairing" /\ job[g].other \in paired
    /\ Unpair({job[g].other})
    /\ Do(g, EndAll({job[g].other}))
    /\ UNCHANGED <<now, session, codes, codeLock, ended, subs, stray>>

-----------------------------------------------------------------------------
(* Revokes.                                                                *)

\* revoke (Log out) and revokeCascade (Settings, the CLI).
RevokeDevice(g, d, cascade) ==
    LET gone == {d} \cup IF cascade THEN PairedBy({d}) ELSE {}
    IN  /\ job[g].step = "idle" /\ d \in paired
        /\ ~cascade => Alive(d)
        /\ Unpair(gone)
        /\ Do(g, EndAll(gone))
        /\ UNCHANGED <<now, session, codes, codeLock, ended, subs, stray>>

\* The file changed: another process revoked the devices S, or nothing of this
\* store's (S empty: a use was recorded, another password's device paired).
Reload(g, S) ==
    /\ S # {} => job[g].step = "idle"
    /\ Unpair(S)
    /\ IF S = {} THEN UNCHANGED job ELSE Do(g, EndAll(S))
    /\ UNCHANGED <<now, session, codes, codeLock, ended, subs, stray>>

SignIn(s) ==
    /\ session[s] = "new"
    /\ session' = [session EXCEPT ![s] = "live"]
    /\ UNCHANGED <<now, storeVars, codes, codeLock, timer, ended, subs, job, stray>>

\* The sessions S leave their store: signed out, expired, pushed out, or
\* revoked, and then the devices they paired are to go too.
SignOut(g, S, revoke) ==
    /\ job[g].step = "idle" /\ S # {} /\ \A s \in S : session[s] = "live"
    /\ session' = [s \in Sessions |-> IF s \in S THEN "gone" ELSE session[s]]
    /\ Do(g, [NoJob EXCEPT !.step = "signedOut", !.todo = S, !.sweep = IF revoke THEN S ELSE {}])
    /\ UNCHANGED <<now, storeVars, codes, codeLock, timer, ended, subs, stray>>

\* A session gone already is revoked: only its devices are left to go.
RevokeGone(g, s) ==
    /\ job[g].step = "idle" /\ session[s] = "gone"
    /\ Do(g, [NoJob EXCEPT !.step = "sweeping", !.sweep = {s}])
    /\ UNCHANGED <<now, storeVars, session, codes, codeLock, timer, ended, subs, stray>>

\* dropCreator: the codes m made go.
DropCreator(m) ==
    /\ codeLock = None
    /\ codes' = [c \in Codes |-> IF codes[c] # None /\ codes[c].by = m THEN None ELSE codes[c]]

\* sessionAuth.end, onEnd: the codes of one of the sessions.
EndSession(g) ==
    LET j == job[g]
    IN  /\ j.step = "signedOut"
        /\ \E s \in j.todo :
             /\ DropCreator(s)
             /\ Do(g, IF j.todo # {s} THEN [j EXCEPT !.todo = @ \ {s}]
                      ELSE IF j.sweep = {} THEN NoJob
                      ELSE [NoJob EXCEPT !.step = "sweeping", !.sweep = j.sweep])
        /\ UNCHANGED <<now, storeVars, session, codeLock, timer, ended, subs, stray>>

\* revokePairedBy: what the sessions paired, and what that paired, in one
\* write; nothing matching writes nothing.
Sweep(g) ==
    LET first == PairedBy(job[g].sweep)
        gone == first \cup PairedBy(first)
    IN  /\ job[g].step = "sweeping"
        /\ IF gone = {} THEN UNCHANGED <<storeVars, timer>> ELSE Unpair(gone)
        /\ Do(g, EndAll(gone))
        /\ UNCHANGED <<now, session, codes, codeLock, ended, subs, stray>>

-----------------------------------------------------------------------------
(* The end of a device.                                                    *)

\* end begins with one of the devices; expire leaves out those it has seen.
NextToEnd(g) ==
    LET j == job[g]
    IN  /\ j.step = "ending"
        /\ \E d \in j.todo :
             IF j.expiry /\ d \in ended
               THEN Do(g, Continue([j EXCEPT !.todo = @ \ {d}])) /\ UNCHANGED ended
               ELSE /\ Do(g, [j EXCEPT !.step = "codes", !.who = d, !.todo = @ \ {d}])
                    /\ ended' = IF j.expiry THEN ended \cup {d} ELSE ended
        /\ UNCHANGED <<now, storeVars, session, codes, codeLock, timer, subs, stray>>

EndCodes(g) ==
    /\ job[g].step = "codes"
    /\ DropCreator(job[g].who)
    /\ Do(g, [job[g] EXCEPT !.step = "push"])
    /\ UNCHANGED <<now, storeVars, session, codeLock, timer, ended, subs, stray>>

\* removeDevices: the subscriptions of the devices S go, or stay when they
\* cannot be saved.
RemoveDevices(S) ==
    LET theirs == {e \in Endpoints : subs[e] \in S}
    IN  \/ /\ subs' = [e \in Endpoints |-> IF e \in theirs THEN None ELSE subs[e]]
           /\ stray' = stray \ theirs
        \/ /\ SaveFails /\ theirs # {}
           /\ stray' = stray \cup theirs
           /\ UNCHANGED subs

\* Mutant of EndPush: the subscriptions of an expired device only.
EndPushExpired(g) ==
    /\ job[g].step = "push"
    /\ IF job[g].expiry THEN RemoveDevices({job[g].who}) ELSE UNCHANGED <<subs, stray>>
    /\ Do(g, Continue(job[g]))
    /\ UNCHANGED <<now, storeVars, session, codes, codeLock, timer, ended>>

EndPush(g) ==
    /\ job[g].step = "push"
    /\ RemoveDevices({job[g].who})
    /\ Do(g, Continue(job[g]))
    /\ UNCHANGED <<now, storeVars, session, codes, codeLock, timer, ended>>

-----------------------------------------------------------------------------
(* Time limits.                                                            *)

\* The timer fires, late after the host slept.
Fire(g) ==
    /\ job[g].step = "idle" /\ timer # 0 /\ now >= timer
    /\ timer' = 0
    /\ Do(g, [NoJob EXCEPT !.step = "fired", !.expiry = TRUE, !.rearm = TRUE])
    /\ UNCHANGED <<now, storeVars, session, codes, codeLock, ended, subs, stray>>

\* checkExpiry asks the store who expired.
ListExpired(g) ==
    /\ job[g].step = "fired"
    /\ Do(g, Continue([job[g] EXCEPT !.todo = {d \in paired : Expired(d)}]))
    /\ UNCHANGED <<now, storeVars, session, codes, codeLock, timer, ended, subs, stray>>

\* Mutant of Rearm: the timer is left to the next change.
RearmNot(g) ==
    /\ job[g].step = "rearm"
    /\ Done(g)
    /\ UNCHANGED <<now, storeVars, session, codes, codeLock, timer, ended, subs, stray>>

\* And sets the timer to the next limit, which it reads under the same lock.
Rearm(g) ==
    /\ job[g].step = "rearm"
    /\ Arm(paired, until)
    /\ Done(g)
    /\ UNCHANGED <<now, storeVars, session, codes, codeLock, ended, subs, stray>>

\* A request with the cookie of an expired device.
Cookie(g, d) ==
    /\ job[g].step = "idle" /\ d \in paired /\ Expired(d) /\ d \notin ended
    /\ Do(g, [EndAll({d}) EXCEPT !.expiry = TRUE])
    /\ UNCHANGED <<now, storeVars, session, codes, codeLock, timer, ended, subs, stray>>

Tick ==
    /\ now < MaxTime
    /\ now' = now + 1
    /\ UNCHANGED <<storeVars, session, codes, codeLock, timer, ended, subs, job, stray>>

-----------------------------------------------------------------------------
(* Push subscriptions, and the process.                                    *)

\* A request of m, signed in, that subscribes e.
Subscribe(g, m, e) ==
    /\ job[g].step = "idle" /\ Alive(m) /\ Full(m)
    /\ Do(g, [NoJob EXCEPT !.step = "subscribing", !.who = IF m \in Devices THEN m ELSE Password,
                !.other = e])
    /\ UNCHANGED <<now, storeVars, session, codes, codeLock, timer, ended, subs, stray>>

AddSub(g) ==
    LET d == job[g].who
        e == job[g].other
    IN  /\ job[g].step = "subscribing"
        /\ \/ /\ subs' = [subs EXCEPT ![e] = d]
              /\ stray' = IF d \in Devices \ paired THEN stray \cup {e} ELSE stray \ {e}
           \/ SaveFails /\ UNCHANGED <<subs, stray>>
        /\ Done(g)
        /\ UNCHANGED <<now, storeVars, session, codes, codeLock, timer, ended>>

\* A page unsubscribes, or the push service no longer knows the endpoint.
DropSub(e) ==
    /\ subs[e] # None
    /\ subs' = [subs EXCEPT ![e] = None]
    /\ stray' = stray \ {e}
    /\ UNCHANGED <<now, storeVars, session, codes, codeLock, timer, ended, job>>

\* The server stops, in the middle of anything, and starts again: it keeps
\* the files, and drops the subscriptions of devices no longer alive.
Restart ==
    /\ job' = [g \in Routines |-> NoJob]
    /\ session' = [s \in Sessions |-> IF session[s] = "new" THEN "new" ELSE "gone"]
    /\ codes' = [c \in Codes |-> None]
    /\ codeLock' = None
    /\ ended' = {}
    /\ Arm(paired, until)
    /\ RemoveDevices({d \in Devices : ~Alive(d)})
    /\ UNCHANGED <<now, storeVars>>

-----------------------------------------------------------------------------
\* A routine goes on.
Step(g) ==
    \/ AskCreator(g) \/ MakeCode(g)
    \/ \E d \in Devices : Pair(g, d)
    \/ ChangeFails(g) \/ Repair(g) \/ Sweep(g)
    \/ EndSession(g) \/ NextToEnd(g) \/ EndCodes(g) \/ EndPush(g)
    \/ ListExpired(g) \/ Rearm(g) \/ AddSub(g)

\* One begins.
Begin(g) ==
    \/ \E m \in Creators, r \in Roles, want \in Limits : AskCode(g, m, r, want)
    \/ \E c \in Codes, prev \in Devices \cup {None} : Redeem(g, c, prev)
    \/ \E d \in Devices, cascade \in BOOLEAN : RevokeDevice(g, d, cascade)
    \/ \E S \in SUBSET paired : Reload(g, S)
    \/ \E S \in SUBSET Sessions, revoke \in BOOLEAN : SignOut(g, S, revoke)
    \/ \E s \in Sessions : RevokeGone(g, s)
    \/ \E d \in Devices : Cookie(g, d)
    \/ \E m \in Creators, e \in Endpoints : Subscribe(g, m, e)

Next ==
    \/ \E g \in Routines : Step(g) \/ Begin(g) \/ Fire(g)
    \/ \E c \in Codes : Lapse(c)
    \/ \E e \in Endpoints : DropSub(e)
    \/ \E s \in Sessions : SignIn(s)
    \/ Tick \/ Restart

Spec == Init /\ [][Next]_vars

\* A timer that is due fires (strongly: it does not wait for a routine to be
\* free); a routine goes on, and gets codes.mu in the end (a Go mutex is handed
\* to who waits for long).
FairSpec ==
    /\ Spec
    /\ SF_vars(\E g \in Routines : Fire(g))
    /\ \A g \in Routines :
         WF_vars(Step(g)) /\ SF_vars(EndCodes(g)) /\ SF_vars(EndSession(g))

-----------------------------------------------------------------------------
(* Properties.                                                             *)

\* Revoked, or signed out.
Gone(m) ==
    \/ m \in Devices \ paired
    \/ m \in Sessions /\ session[m] = "gone"

\* A routine is on its way to drop the codes, and the subscriptions, of m.
Dropping(m) ==
    \E g \in Routines : \/ m \in job[g].todo /\ ~job[g].expiry
                        \/ m = job[g].who /\ job[g].step = "codes"
Removing(d) == Dropping(d) \/ \E g \in Routines : d = job[g].who /\ job[g].step = "push"

\* A code made while its maker is revoked or signs out is refused or dropped:
\* none waits but the ones the revoke is about to drop.
NoCodeOutlivesItsMaker ==
    \A c \in Codes : codes[c] # None /\ Gone(codes[c].by) => Dropping(codes[c].by)

\* A device never outlasts its maker, however long the pairing took.
LimitsNest ==
    \A d \in Devices :
        maker[d] \in Devices /\ until[maker[d]] # 0 => until[d] \in 1..until[maker[d]]

\* A limit that has not passed is never forgotten: the timer is due by then, or
\* a check under way sets it again.
NoLimitForgotten ==
    \A d \in paired :
        now < until[d] => \/ timer \in 1..until[d]
                         \/ \E g \in Routines : job[g].rearm \/ job[g].step = "rearm"

\* A limit stands until it passes: it never goes beyond its maker's, and the
\* timer or a check under way has it in hand (NewLimit, arm, checkExpiry).
LimitsHold == LimitsNest /\ NoLimitForgotten

\* The only subscriptions that stay when their device is revoked are those a
\* request added that was under way, and those whose removal was not saved.
OnlyStraysStay ==
    \A e \in Endpoints :
        subs[e] \in Devices \ paired => e \in stray \/ Removing(subs[e])

\* A code whose maker was revoked or signed out goes.
GoneCodesGo ==
    \A c \in Codes, m \in Creators :
        (codes[c] # None /\ codes[c].by = m /\ Gone(m))
            ~> (codes[c] = None \/ codes[c].by # m)

\* The subscription of a device past its limit goes (expiry is an end).
ExpiredIsEnded ==
    \A d \in Devices, e \in Endpoints :
        (d \in paired /\ Expired(d) /\ subs[e] = d)
            ~> (d \in ended \/ d \notin paired \/ subs[e] # d)
=============================================================================
