----------------------------- MODULE TokenStore -----------------------------
(***************************************************************************)
(* The capped stores of tokens (server/serve.go): stream tokens, which are *)
(* used once and know two roles, sign-in links, and password sessions,     *)
(* which are used again and again and are pushed out least recently used   *)
(* first.  Each operation is one step: it runs under the store's mutex.    *)
(*                                                                         *)
(* The store keeps a map and, beside it, an order of its own, which still  *)
(* names tokens the map has lost: they are forgotten at the next put.      *)
(***************************************************************************)
EXTENDS Common, Integers, FiniteSets

CONSTANTS
    Tokens,        \* tokens; each is issued at most once (128 random bits)
    Devices, Sessions,   \* None where a token is of none
    Grants,        \* what tokens are issued to: [role, device, session]
    MaxTokens,     \* s.max: tokens kept
    PerDevice,     \* s.perDevice: those of a view-only device, 0 for no cap
    SingleUse      \* s.singleUse

ASSUME TokenAssumption ==
    /\ None \notin Tokens \cup Devices \cup Sessions \cup Grants
    /\ Grants \subseteq [role : {"full", "view"}, device : Devices \cup {None},
                         session : Sessions \cup {None}]
    \* The role of a device is that of its pairing.
    /\ \A g, h \in Grants : g.device = h.device /\ g.device # None => g.role = h.role
    /\ MaxTokens \in Nat \ {0} /\ PerDevice \in Nat
    /\ SingleUse \in BOOLEAN

VARIABLES
    held,      \* the tokens in the map
    info,      \* [Tokens -> its grant, None when it was never issued]
    order,     \* the tokens of s.order
    ahead,     \* [Tokens -> the ones before it in s.order]
    lapsed,    \* the held tokens whose exp the wall clock has passed
    lastPut,   \* what the last put did: for whom, what its caps took, refused
    since      \* [Tokens -> the tokens issued or used after its own last use]

vars == <<held, info, order, ahead, lapsed, lastPut, since>>

Puts == [to : Grants, took : SUBSET Tokens, refused : BOOLEAN]

TypeOK ==
    /\ held \subseteq Tokens
    /\ info \in [Tokens -> Grants \cup {None}]
    /\ \A t \in held : info[t] # None
    /\ order \subseteq Tokens
    /\ ahead \in [Tokens -> SUBSET Tokens]
    /\ lapsed \subseteq Tokens
    /\ lastPut \in Puts \cup {None}
    /\ since \in [Tokens -> SUBSET Tokens]

Init ==
    /\ held = {} /\ order = {} /\ lapsed = {}
    /\ info = [t \in Tokens |-> None]
    /\ ahead = [t \in Tokens |-> {}]
    /\ lastPut = None
    /\ since = [t \in Tokens |-> {}]

-----------------------------------------------------------------------------
(* Helpers.                                                                *)

Views(S) == {t \in S : info[t].role = "view"}
Of(S, d) == {t \in S : info[t].device = d}
\* The first of the tokens S in the order.
Oldest(S) == {t \in S : ahead[t] \cap S = {}}

\* The map holds S; what left it no longer lapses.
Hold(S) == held' = S /\ lapsed' = lapsed \cap S

\* The order becomes the tokens S, as they stand, and then T.
Reorder(S, T) ==
    /\ order' = S \cup T
    /\ ahead' = [k \in Tokens |->
                   IF k \in T THEN S ELSE IF k \in S THEN ahead[k] \cap S ELSE {}]

\* t was issued or used.
Touch(t) ==
    since' = [k \in Tokens |-> IF k = t THEN {} ELSE since[k] \cup {t}]

-----------------------------------------------------------------------------
(* put.                                                                    *)

\* What the cap of a view-only device takes first: its own oldest.
OwnOldest(live, g) ==
    IF /\ g.role = "view" /\ g.device # None /\ PerDevice > 0
       /\ Cardinality(Of(live, g.device)) >= PerDevice
      THEN Oldest(Of(live, g.device))
      ELSE {}

\* Mutant of PushedOut: room for one token more.
PushedOutLate(live, g) ==
    IF Cardinality(live) <= MaxTokens THEN {}
    ELSE IF Views(live) # {} THEN Oldest(Views(live))
    ELSE IF g.role = "full" THEN Oldest(live)
    ELSE {}

\* What the cap of the store then takes: the oldest view-only one, and only
\* for a full client a full one.  The order has at most MaxTokens, so the
\* loop makes room in one round.
PushedOut(live, g) ==
    IF Cardinality(live) < MaxTokens THEN {}
    ELSE IF Views(live) # {} THEN Oldest(Views(live))
    ELSE IF g.role = "full" THEN Oldest(live)
    ELSE {}

\* No room, and only full tokens, which a view-only client may not push out.
Busy(live, g) == Cardinality(live) >= MaxTokens /\ Views(live) = {} /\ g.role = "view"

\* Sweeps what expired, forgets what the map has lost, then makes room, or
\* refuses (errTokensBusy).
Put(t, g) ==
    LET live == (held \ lapsed) \cap order
        own == OwnOldest(live, g)
        out == PushedOut(live \ own, g)
        refused == Busy(live \ own, g)
    IN  /\ info[t] = None
        /\ lastPut' = [to |-> g, took |-> own \cup out, refused |-> refused]
        /\ IF refused
             THEN /\ Hold((held \ lapsed) \ own)
                  /\ Reorder(live \ own, {})
                  /\ UNCHANGED <<info, since>>
             ELSE /\ Hold(((held \ lapsed) \ (own \cup out)) \cup {t})
                  /\ Reorder(live \ (own \cup out), {t})
                  /\ info' = [info EXCEPT ![t] = g]
                  /\ Touch(t)

-----------------------------------------------------------------------------
(* check, and the ways a token ends before it expires.                     *)

\* Mutant of Check: a token in use keeps its place.
CheckInPlace(t) ==
    /\ t \in held /\ t \notin lapsed
    /\ IF SingleUse THEN Hold(held \ {t}) ELSE UNCHANGED <<held, lapsed>>
    /\ Touch(t)
    /\ UNCHANGED <<order, ahead, info, lastPut>>

\* A token is used: a single-use one is gone, any other moves to the end of
\* the order, if the order has it.
Check(t) ==
    /\ t \in held /\ t \notin lapsed
    /\ IF SingleUse
         THEN Hold(held \ {t}) /\ UNCHANGED <<order, ahead>>
         ELSE /\ UNCHANGED <<held, lapsed>>
              /\ IF t \in order
                   THEN Reorder(order \ {t}, {t})
                   ELSE UNCHANGED <<order, ahead>>
    /\ Touch(t)
    /\ UNCHANGED <<info, lastPut>>

\* Tokens leave the map, and the map only.
Delete(S) ==
    /\ S \cap held # {}
    /\ Hold(held \ S)
    /\ UNCHANGED <<info, order, ahead, lastPut, since>>

RevokeDevice(d) == Delete(Of(held, d))
RevokeSession(s) == Delete({t \in held : info[t].session = s})
\* revoke (one token), remove (the sessions signed out, or one that expires).
RemoveToken(S) == Delete(S)

\* The wall clock passes expiries, in any order: it may be set, back too.
Clock(S) ==
    /\ lapsed' = S
    /\ UNCHANGED <<held, info, order, ahead, lastPut, since>>

Next ==
    \/ \E t \in Tokens, g \in Grants : Put(t, g)
    \/ \E t \in Tokens : Check(t)
    \/ \E d \in Devices : RevokeDevice(d)
    \/ \E s \in Sessions : RevokeSession(s)
    \/ \E S \in SUBSET held : RemoveToken(S)
    \/ \E S \in SUBSET held : Clock(S)

Spec == Init /\ [][Next]_vars

-----------------------------------------------------------------------------
(* Properties.                                                             *)

\* Every token of the map is in the order: one that is not could never be
\* pushed out, and would not count.
HeldIsOrdered == held \subseteq order

\* The store and a view-only device stay within their caps, whatever is used,
\* revoked or expires meanwhile.
TokensBounded ==
    /\ Cardinality(held) <= MaxTokens
    /\ PerDevice > 0 =>
         \A d \in Devices : Cardinality(Of(Views(held), d)) <= PerDevice

\* The caps hold, and the order of the capped store counts every token held
\* (put, and everything else that takes tokens out of the map alone).
WithinCaps == HeldIsOrdered /\ TokensBounded

\* A view-only client's token never costs anyone a full one, and a device at
\* its own cap costs nobody else a token.
ViewTakesViews ==
    lastPut # None /\ lastPut.to.role = "view" =>
        /\ \A t \in lastPut.took : info[t].role = "view"
        /\ \A t, u \in lastPut.took : t = u

\* A put that is refused, if this step is one, ends nothing.
RefusalFree ==
    lastPut' # lastPut /\ lastPut'.refused =>
        /\ lastPut'.to.role = "view" /\ lastPut'.took = {}
        /\ Cardinality(held') = MaxTokens /\ \A t \in held' : info[t].role = "full"

\* Only a view-only client is refused, only in a store full of full tokens,
\* and it loses nothing by it.
RefusedTakesNothing == [][RefusalFree]_vars

\* A full token is pushed out when no view-only one is left, and then the one
\* that was not used for longest.
LeastRecentFirst ==
    lastPut # None =>
        \A t \in lastPut.took, u \in held :
            info[t].role = "full" => u \in since[t] /\ info[u].role = "full"

\* Who pays for a full store: a view-only client costs no full token, the
\* full token that goes is the least recently used, and a refusal is free.
PushedOutFairly == [][ViewTakesViews' /\ LeastRecentFirst' /\ RefusalFree]_vars

=============================================================================
