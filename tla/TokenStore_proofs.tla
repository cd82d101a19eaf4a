-------------------------- MODULE TokenStore_proofs --------------------------
(***************************************************************************)
(* What TLAPS proves of TokenStore, for any tokens, devices, grants and    *)
(* caps: its type invariant, that the order knows every token, that the    *)
(* caps hold, that a view-only client never costs anyone a full token, and *)
(* that full tokens are pushed out least recently used first.              *)
(***************************************************************************)
EXTENDS TokenStore, FiniteSetTheorems, WellFoundedInduction, TLAPS

-----------------------------------------------------------------------------
(* The inductive invariant.                                                *)

\* ahead is a strict total order of the tokens of the order.
Ranked ==
    /\ \A t \in order : ahead[t] \subseteq order /\ t \notin ahead[t]
    /\ \A t, u \in order : t # u => t \in ahead[u] \/ u \in ahead[t]
    /\ \A t, u, v \in order : t \in ahead[u] /\ u \in ahead[v] => t \in ahead[v]

\* The order has at most MaxTokens tokens, all of them issued: put makes room in one
\* round.
OrderBounded ==
    /\ IsFiniteSet(order) /\ Cardinality(order) <= MaxTokens
    /\ \A t \in order : info[t] # None

DeviceBounded ==
    PerDevice > 0 =>
        \A d \in Devices : Cardinality(Of(Views(held), d)) <= PerDevice

\* Who stands behind a held token in the order was used after it.
Recent == \A t \in held, u \in order : t \in ahead[u] => u \in since[t]

\* What the last put took is gone.
TookIsGone ==
    lastPut # None => lastPut.took \cap held = {} /\ \A t \in lastPut.took : info[t] # None

IInv ==
    /\ TypeOK
    /\ HeldIsOrdered
    /\ Ranked
    /\ OrderBounded
    /\ DeviceBounded
    /\ Recent
    /\ TookIsGone
    /\ ViewTakesViews
    /\ LeastRecentFirst

-----------------------------------------------------------------------------
(* The order.                                                              *)

(* Any tokens of the order have exactly one oldest. *)
LEMMA OneOldest ==
    ASSUME Ranked, IsFiniteSet(order), NEW S \in SUBSET order, S # {}
    PROVE  \E t \in S : Oldest(S) = {t}
<1> DEFINE Before(t) == ahead[t] \cap S
           T == {Before(t) : t \in S}
           R == StrictSubsetOrdering(order)
<1>1. IsWellFoundedOn(R, FiniteSubsetsOf(order))
  BY FS_StrictSubsetOrderingWellFounded
<1>2. T \subseteq FiniteSubsetsOf(order) /\ T # {}
  <2>1. \A t \in S : Before(t) \in SUBSET order
    OBVIOUS
  <2>2. \A t \in S : IsFiniteSet(Before(t))
    BY <2>1, FS_Subset
  <2> QED BY <2>1, <2>2 DEF FiniteSubsetsOf
<1>3. PICK B \in T : \A C \in T : ~(<<C, B>> \in R)
  <2> HIDE DEF T, R
  <2> QED BY <1>1, <1>2, WFMin
<1>4. PICK t \in S : B = Before(t)
  OBVIOUS
<1>5. Before(t) = {}
  <2> SUFFICES ASSUME NEW u \in Before(t) PROVE FALSE
    OBVIOUS
  <2>1. Before(u) \subseteq Before(t)
    BY DEF Ranked
  <2>2. u \notin Before(u)
    BY DEF Ranked
  <2>3. <<Before(u), Before(t)>> \in R
    BY <2>1, <2>2 DEF StrictSubsetOrdering
  <2>4. Before(u) \in T
    OBVIOUS
  <2> QED BY <1>3, <1>4, <2>3, <2>4
<1>6. \A u \in Oldest(S) : u = t
  BY <1>5 DEF Oldest, Ranked
<1> QED BY <1>5, <1>6 DEF Oldest

(* What is kept of the order, with tokens that are not in it behind, is
   ranked, and within a bound it is finite. *)
LEMMA ReorderRanks ==
    ASSUME Ranked, NEW S \in SUBSET order, NEW T \in SUBSET Tokens, T \cap S = {},
           order \subseteq Tokens, \A x, y \in T : x = y, Reorder(S, T)
    PROVE  Ranked'
<1>1. order' = S \cup T
  BY DEF Reorder
<1>2. \A k \in order' : ahead'[k] = IF k \in T THEN S ELSE ahead[k] \cap S
  BY DEF Reorder
<1> DEFINE o == order'  a == ahead'
<1>3. /\ o = S \cup T
      /\ \A k \in T : k \notin S /\ a[k] = S
      /\ \A k \in S : k \in order /\ a[k] = ahead[k] \cap S
  BY <1>1, <1>2
<1> HIDE DEF o, a
<1>4. ASSUME NEW t \in o PROVE a[t] \subseteq o /\ t \notin a[t]
  <2>1. CASE t \in T BY <1>3, <2>1
  <2>2. CASE t \in S BY <1>3, <2>2 DEF Ranked
  <2> QED BY <1>3, <2>1, <2>2
<1>5. ASSUME NEW t \in o, NEW u \in o, t # u PROVE t \in a[u] \/ u \in a[t]
  <2>1. CASE t \in T BY <1>3, <1>5, <2>1
  <2>2. CASE u \in T BY <1>3, <1>5, <2>2
  <2>3. CASE t \in S /\ u \in S BY <1>3, <1>5, <2>3 DEF Ranked
  <2> QED BY <1>3, <2>1, <2>2, <2>3
<1>6. ASSUME NEW t \in o, NEW u \in o, NEW v \in o, t \in a[u], u \in a[v]
      PROVE  t \in a[v]
  <2>1. u \in S
    <3>1. CASE v \in T BY <1>3, <1>6, <3>1
    <3>2. CASE v \in S BY <1>3, <1>6, <3>2
    <3> QED BY <1>3, <3>1, <3>2
  <2>2. t \in S /\ t \in ahead[u]
    BY <1>3, <1>6, <2>1
  <2>3. CASE v \in T BY <1>3, <2>2, <2>3
  <2>4. CASE v \in S
    <3>1. t \in order /\ u \in order /\ v \in order /\ u \in ahead[v]
      BY <1>3, <1>6, <2>1, <2>2, <2>4
    <3>2. t \in ahead[v]
      BY <2>2, <3>1 DEF Ranked
    <3> QED BY <1>3, <2>2, <2>4, <3>2
  <2> QED BY <1>3, <2>3, <2>4
<1>7. /\ \A t \in o : a[t] \subseteq o /\ t \notin a[t]
      /\ \A t, u \in o : t # u => t \in a[u] \/ u \in a[t]
      /\ \A t, u, v \in o : t \in a[u] /\ u \in a[v] => t \in a[v]
  BY <1>4, <1>5, <1>6
<1> QED BY <1>7 DEF Ranked, o, a

(* A subset of the order is finite and no larger; without one of its tokens it
   is smaller, with one more it is larger by one. *)
LEMMA Counting ==
    ASSUME NEW S, IsFiniteSet(S)
    PROVE  /\ Cardinality(S) \in Nat
           /\ \A R \in SUBSET S : IsFiniteSet(R) /\ Cardinality(R) <= Cardinality(S)
           /\ \A x \in S : IsFiniteSet(S \ {x}) /\ Cardinality(S \ {x}) = Cardinality(S) - 1
           /\ \A x : IsFiniteSet(S \cup {x}) /\ Cardinality(S \cup {x}) <= Cardinality(S) + 1
<1>1. Cardinality(S) \in Nat
  BY FS_CardinalityType
<1>2. \A R \in SUBSET S : IsFiniteSet(R) /\ Cardinality(R) <= Cardinality(S)
  BY FS_Subset
<1>3. \A x \in S : IsFiniteSet(S \ {x}) /\ Cardinality(S \ {x}) = Cardinality(S) - 1
  BY FS_RemoveElement
<1>4. \A x : IsFiniteSet(S \cup {x}) /\ Cardinality(S \cup {x}) <= Cardinality(S) + 1
  BY <1>1, FS_AddElement
<1> QED BY <1>1, <1>2, <1>3, <1>4

(* With fewer tokens every device is still within its cap. *)
LEMMA FewerBounded ==
    ASSUME IInv, held' \subseteq held, UNCHANGED info
    PROVE  DeviceBounded'
<1> SUFFICES ASSUME PerDevice > 0, NEW d \in Devices
             PROVE  Cardinality(Of(Views(held), d)') <= PerDevice
  BY DEF DeviceBounded
<1> DEFINE M == Of(Views(held), d)
           N == Of(Views(held), d)'
<1>1. N \in SUBSET M /\ M \in SUBSET order /\ IsFiniteSet(order)
  BY DEF Of, Views, IInv, HeldIsOrdered, OrderBounded
<1>2. Cardinality(M) <= PerDevice /\ PerDevice \in Nat
  BY TokenAssumption DEF IInv, DeviceBounded, TokenAssumption
<1> HIDE DEF M, N
<1>3. Cardinality(N) <= Cardinality(M) /\ Cardinality(M) \in Nat /\ Cardinality(N) \in Nat
  BY <1>1, FS_Subset, FS_CardinalityType
<1> QED BY <1>2, <1>3 DEF N

-----------------------------------------------------------------------------
(* put.                                                                    *)

(* What the cap of a view-only device takes: nothing, or one token of its. *)
LEMMA OwnTaken ==
    ASSUME IInv, NEW g \in Grants, NEW live \in SUBSET held
    PROVE  \/ /\ OwnOldest(live, g) = {}
              /\ g.role = "view" /\ g.device # None /\ PerDevice > 0
                 => Cardinality(Of(live, g.device)) < PerDevice
           \/ /\ g.role = "view" /\ g.device # None
              /\ \E u \in live :
                   /\ OwnOldest(live, g) = {u}
                   /\ info[u].device = g.device /\ info[u].role = "view"
<1> DEFINE mine == Of(live, g.device)
<1>1. mine \subseteq live /\ live \subseteq order /\ IsFiniteSet(mine) /\ Cardinality(mine) \in Nat
  BY Counting, FS_Subset DEF IInv, HeldIsOrdered, OrderBounded, Of
<1>2. CASE /\ g.role = "view" /\ g.device # None /\ PerDevice > 0
           /\ Cardinality(mine) >= PerDevice
  <2>1. mine # {}
    BY <1>1, <1>2, FS_EmptySet, TokenAssumption DEF TokenAssumption
  <2>2. PICK u \in mine : Oldest(mine) = {u}
    <3> HIDE DEF mine
    <3> QED BY <1>1, <2>1, OneOldest DEF IInv, OrderBounded
  <2>3. u \in live /\ info[u] \in Grants /\ info[u].device = g.device
    BY <2>2 DEF Of, IInv, TypeOK
  <2>4. info[u].role = "view"
    BY <1>2, <2>3, TokenAssumption DEF TokenAssumption
  <2>5. OwnOldest(live, g) = {u}
    BY <1>2, <2>2 DEF OwnOldest
  <2> QED BY <1>2, <2>3, <2>4, <2>5
<1>3. CASE ~(/\ g.role = "view" /\ g.device # None /\ PerDevice > 0
             /\ Cardinality(mine) >= PerDevice)
  <2>1. OwnOldest(live, g) = {}
    BY <1>3 DEF OwnOldest
  <2>2. g.role = "view" /\ g.device # None /\ PerDevice > 0 => Cardinality(mine) < PerDevice
    BY <1>1, <1>3, TokenAssumption DEF TokenAssumption
  <2> QED BY <2>1, <2>2
<1> QED BY <1>2, <1>3

(* What the cap of the store takes: nothing when there is room or the client
   is refused, else the oldest view-only token, and a full one only for a
   full client when there is no other. *)
LEMMA CapTaken ==
    ASSUME IInv, NEW g \in Grants, NEW rest \in SUBSET held
    PROVE  \/ PushedOut(rest, g) = {} /\ Cardinality(rest) < MaxTokens
           \/ PushedOut(rest, g) = {} /\ Busy(rest, g)
           \/ \E u \in rest :
                /\ ~Busy(rest, g) /\ PushedOut(rest, g) = {u} /\ Cardinality(rest) >= MaxTokens
                /\ \/ info[u].role = "view"
                   \/ g.role = "full" /\ Views(rest) = {} /\ Oldest(rest) = {u}
<1>1. rest \subseteq order /\ Views(rest) \subseteq order /\ Views(rest) \subseteq rest
  BY DEF IInv, HeldIsOrdered, Views
<1>2. /\ Ranked /\ IsFiniteSet(order) /\ MaxTokens \in Nat \ {0}
      /\ IsFiniteSet(rest) /\ Cardinality(rest) \in Nat
  BY <1>1, FS_Subset, FS_CardinalityType, TokenAssumption DEF IInv, OrderBounded, TokenAssumption
<1>3. g.role \in {"full", "view"}
  BY TokenAssumption DEF TokenAssumption
<1>4. CASE Cardinality(rest) < MaxTokens
  BY <1>4 DEF PushedOut
<1>5. CASE Cardinality(rest) >= MaxTokens /\ Views(rest) # {}
  <2>1. PICK u \in Views(rest) : Oldest(Views(rest)) = {u}
    BY <1>1, <1>2, <1>5, OneOldest
  <2>2. u \in rest /\ info[u].role = "view"
    BY <2>1 DEF Views
  <2>3. PushedOut(rest, g) = {u}
    BY <1>2, <1>5, <2>1 DEF PushedOut
  <2>4. ~Busy(rest, g)
    BY <1>5 DEF Busy
  <2> QED BY <1>5, <2>2, <2>3, <2>4
<1>6. CASE Cardinality(rest) >= MaxTokens /\ Views(rest) = {} /\ g.role = "full"
  <2>1. rest # {}
    BY <1>2, <1>6, FS_EmptySet
  <2>2. PICK u \in rest : Oldest(rest) = {u}
    BY <1>1, <1>2, <2>1, OneOldest
  <2>3. PushedOut(rest, g) = {u}
    BY <1>2, <1>6, <2>2 DEF PushedOut
  <2>4. ~Busy(rest, g)
    BY <1>6 DEF Busy
  <2> QED BY <1>6, <2>2, <2>3, <2>4
<1>7. CASE Cardinality(rest) >= MaxTokens /\ Views(rest) = {} /\ g.role = "view"
  BY <1>2, <1>7 DEF PushedOut, Busy
<1> QED BY <1>2, <1>3, <1>4, <1>5, <1>6, <1>7

\* What Put(t, g) does when own and out go of the live ones, and T is what
\* comes: {t}, or nothing when the store is busy.
Issued(t, g, live, own, out, T) ==
    /\ t \notin held /\ t \notin order
    /\ own = OwnOldest(live, g) /\ out = PushedOut(live \ own, g)
    /\ own \subseteq live /\ out \subseteq live
    /\ T = {} <=> Busy(live \ own, g)
    /\ held' = (live \ (own \cup out)) \cup T /\ lapsed' = lapsed \cap held'
    /\ Reorder(live \ (own \cup out), T)
    /\ lastPut' = [to |-> g, took |-> own \cup out, refused |-> Busy(live \ own, g)]
    /\ IF T = {} THEN UNCHANGED <<info, since>>
                 ELSE info' = [info EXCEPT ![t] = g] /\ Touch(t)

(* A put, in one shape: it keeps the live tokens the caps do not take, and
   adds its own unless it is refused. *)
LEMMA PutShape ==
    ASSUME IInv, NEW t \in Tokens, NEW g \in Grants, Put(t, g),
           NEW live, live = held \ lapsed
    PROVE  \E own, out \in SUBSET held, T \in SUBSET {t} : Issued(t, g, live, own, out, T)
<1> USE DEF Issued
<1> DEFINE own == OwnOldest(live, g)
           out == PushedOut(live \ own, g)
<1>1. (held \ lapsed) \cap order = live /\ live \in SUBSET held
  BY DEF IInv, HeldIsOrdered
<1>2. t \notin held /\ t \notin order
  BY DEF IInv, OrderBounded, TypeOK, Put
<1>3. own \in SUBSET live
  BY <1>1, OwnTaken
<1>4. out \in SUBSET (live \ own) /\ (Busy(live \ own, g) => out = {})
  <2> HIDE DEF own
  <2> DEFINE rest == live \ own
  <2>1. rest \in SUBSET held
    BY <1>1
  <2> HIDE DEF rest
  <2>2. /\ PushedOut(rest, g) \in SUBSET rest
        /\ Busy(rest, g) => PushedOut(rest, g) = {}
    BY <2>1, CapTaken
  <2> QED BY <2>2 DEF rest
<1>5. /\ lastPut' = [to |-> g, took |-> own \cup out, refused |-> Busy(live \ own, g)]
      /\ IF Busy(live \ own, g)
           THEN /\ Hold(live \ own)
                /\ Reorder(live \ own, {})
                /\ UNCHANGED <<info, since>>
           ELSE /\ Hold((live \ (own \cup out)) \cup {t})
                /\ Reorder(live \ (own \cup out), {t})
                /\ info' = [info EXCEPT ![t] = g]
                /\ Touch(t)
  BY <1>1 DEF Put
<1> HIDE DEF own, out
<1>6. own \in SUBSET held /\ out \in SUBSET held /\ own \subseteq live /\ out \subseteq live
  BY <1>1, <1>3, <1>4
<1>7. own = OwnOldest(live, g) /\ out = PushedOut(live \ own, g)
  BY DEF own, out
<1>8. CASE Busy(live \ own, g)
  <2>1. live \ (own \cup out) = live \ own
    BY <1>4, <1>8
  <2>2. /\ held' = (live \ (own \cup out)) \cup {} /\ lapsed' = lapsed \cap held'
        /\ Reorder(live \ (own \cup out), {}) /\ UNCHANGED <<info, since>>
    BY <1>5, <1>8, <2>1 DEF Hold
  <2> WITNESS own \in SUBSET held, out \in SUBSET held, {} \in SUBSET {t}
  <2> QED BY <1>2, <1>5, <1>6, <1>7, <1>8, <2>2
<1>9. CASE ~Busy(live \ own, g)
  <2>1. /\ held' = (live \ (own \cup out)) \cup {t} /\ lapsed' = lapsed \cap held'
        /\ Reorder(live \ (own \cup out), {t})
        /\ info' = [info EXCEPT ![t] = g] /\ Touch(t)
    BY <1>5, <1>9 DEF Hold
  <2> WITNESS own \in SUBSET held, out \in SUBSET held, {t} \in SUBSET {t}
  <2> QED BY <1>2, <1>5, <1>6, <1>7, <1>9, <2>1
<1> QED BY <1>8, <1>9

(* Issuing a token, with the evictions that make room for it, keeps the
   invariant. *)
LEMMA PutKeeps ==
    ASSUME IInv, NEW t \in Tokens, NEW g \in Grants, Put(t, g)
    PROVE  IInv'
<1> DEFINE live == held \ lapsed
<1>0. \E own, out \in SUBSET held, T \in SUBSET {t} : Issued(t, g, live, own, out, T)
  BY PutShape
<1>1. PICK own \in SUBSET held, out \in SUBSET held, T \in SUBSET {t} : Issued(t, g, live, own, out, T)
  BY <1>0
<1> USE DEF Issued
<1> DEFINE kept == live \ (own \cup out)
<1>2. /\ live \in SUBSET held /\ live \ own \in SUBSET held /\ kept \in SUBSET order
      /\ t \notin kept /\ T \cap kept = {} /\ \A x, y \in T : x = y
      /\ held' = kept \cup T /\ order' = kept \cup T
  BY <1>1 DEF IInv, HeldIsOrdered, Reorder
<1>3. /\ TypeOK /\ \A k \in kept : info[k] \in Grants /\ info'[k] = info[k]
      /\ T # {} => info'[t] = g
  BY <1>1, <1>2 DEF IInv, TypeOK
<1>4. \/ own = {}
      \/ g.role = "view" /\ \E u \in live : own = {u} /\ info[u].role = "view"
  <2> HIDE DEF live
  <2> QED BY <1>1, <1>2, OwnTaken
<1>5. \/ out = {} /\ Cardinality(live \ own) < MaxTokens
      \/ out = {} /\ Busy(live \ own, g)
      \/ \E u \in live \ own :
           /\ ~Busy(live \ own, g) /\ out = {u} /\ Cardinality(live \ own) >= MaxTokens
           /\ \/ info[u].role = "view"
              \/ g.role = "full" /\ Views(live \ own) = {} /\ Oldest(live \ own) = {u}
  <2> DEFINE rest == live \ own
  <2>1. rest \in SUBSET held /\ out = PushedOut(rest, g)
    BY <1>1, <1>2
  <2> HIDE DEF rest
  <2>2. \/ PushedOut(rest, g) = {} /\ Cardinality(rest) < MaxTokens
        \/ PushedOut(rest, g) = {} /\ Busy(rest, g)
        \/ \E u \in rest :
             /\ ~Busy(rest, g) /\ PushedOut(rest, g) = {u} /\ Cardinality(rest) >= MaxTokens
             /\ \/ info[u].role = "view"
                \/ g.role = "full" /\ Views(rest) = {} /\ Oldest(rest) = {u}
    BY <2>1, CapTaken
  <2> QED BY <2>1, <2>2 DEF rest
<1>6. /\ IsFiniteSet(live) /\ IsFiniteSet(live \ own) /\ IsFiniteSet(kept)
      /\ Cardinality(live) \in Nat /\ Cardinality(live \ own) \in Nat /\ Cardinality(kept) \in Nat
      /\ Cardinality(live) <= MaxTokens /\ MaxTokens \in Nat \ {0}
  <2>1. live \in SUBSET order /\ live \ own \in SUBSET order /\ IsFiniteSet(order) /\ Cardinality(order) <= MaxTokens
    BY <1>2 DEF IInv, HeldIsOrdered, OrderBounded
  <2>2. MaxTokens \in Nat \ {0} /\ Cardinality(order) \in Nat
    BY <2>1, FS_CardinalityType, TokenAssumption DEF TokenAssumption
  <2> HIDE DEF live
  <2>3. /\ IsFiniteSet(live) /\ Cardinality(live) <= Cardinality(order)
        /\ IsFiniteSet(live \ own) /\ IsFiniteSet(kept)
    BY <1>2, <2>1, FS_Subset
  <2> HIDE DEF kept
  <2> QED BY <2>1, <2>2, <2>3, FS_CardinalityType
<1>7. TypeOK'
  <2>1. held' \subseteq Tokens /\ order' \subseteq Tokens /\ lapsed' \subseteq Tokens
    BY <1>1, <1>2, <1>3 DEF TypeOK
  <2>2. info' \in [Tokens -> Grants \cup {None}] /\ since' \in [Tokens -> SUBSET Tokens]
    BY <1>1, <1>3 DEF TypeOK, Touch
  <2>3. \A k \in held' : info'[k] # None
    BY <1>2, <1>3, TokenAssumption DEF TokenAssumption
  <2>4. ahead' \in [Tokens -> SUBSET Tokens]
    BY <1>1, <1>2, <1>3 DEF TypeOK, Reorder
  <2>5. lastPut' \in Puts
    <3>1. Busy(live \ own, g) \in BOOLEAN
      BY DEF Busy
    <3>2. own \cup out \in SUBSET Tokens
      BY <1>3 DEF TypeOK
    <3> QED BY <1>1, <3>1, <3>2 DEF Puts
  <2> QED BY <2>1, <2>2, <2>3, <2>4, <2>5 DEF TypeOK
<1>8. HeldIsOrdered'
  BY <1>2 DEF HeldIsOrdered
<1>9. Ranked'
  <2>1. T \in SUBSET Tokens /\ order \subseteq Tokens
    BY <1>3 DEF TypeOK
  <2> HIDE DEF kept
  <2> QED BY <1>1, <1>2, <2>1, ReorderRanks DEF IInv, kept
<1>10. OrderBounded'
  <2>1. Cardinality(kept) <= MaxTokens /\ (T # {} => Cardinality(kept) <= MaxTokens - 1)
    <3>1. kept \in SUBSET live /\ kept \in SUBSET (live \ own)
      OBVIOUS
    <3>2. Cardinality(kept) <= Cardinality(live) /\ Cardinality(kept) <= Cardinality(live \ own)
          /\ Cardinality(live \ own) <= Cardinality(live)
      <4>1. live \ own \in SUBSET live
        OBVIOUS
      <4> HIDE DEF kept, live
      <4> QED BY <1>6, <3>1, <4>1, FS_Subset
    <3>3. ASSUME NEW u \in live \ own, out = {u}
          PROVE  Cardinality(kept) = Cardinality(live \ own) - 1
      <4>1. kept = (live \ own) \ {u}
        BY <3>3
      <4> DEFINE rest == live \ own
      <4>2. IsFiniteSet(rest) /\ u \in rest /\ kept = rest \ {u}
        BY <1>6, <4>1
      <4> HIDE DEF rest, kept
      <4>3. Cardinality(kept) = Cardinality(rest) - 1
        BY <4>2, FS_RemoveElement
      <4> QED BY <4>3 DEF rest
    <3>7. \/ Cardinality(live \ own) < MaxTokens
          \/ out = {} /\ Busy(live \ own, g)
          \/ \E u \in live \ own : out = {u}
      BY <1>5
    <3> HIDE DEF kept, live
    <3>4. CASE Cardinality(live \ own) < MaxTokens
      BY <1>6, <3>2, <3>4
    <3>5. CASE out = {} /\ Busy(live \ own, g)
      BY <1>1, <1>6, <3>2, <3>5
    <3>6. CASE \E u \in live \ own : out = {u}
      <4>1. PICK u \in live \ own : out = {u}
        BY <3>6
      <4>2. Cardinality(kept) = Cardinality(live \ own) - 1
        BY <3>3, <4>1
      <4> QED BY <1>6, <3>2, <4>2
    <3> QED BY <3>4, <3>5, <3>6, <3>7
  <2>2. IsFiniteSet(order') /\ Cardinality(order') <= MaxTokens
    <3> HIDE DEF kept
    <3>1. CASE T = {}
      BY <1>2, <1>6, <2>1, <3>1
    <3>2. CASE T = {t}
      <4>1. order' = kept \cup {t}
        BY <1>2, <3>2
      <4>2. IsFiniteSet(kept \cup {t}) /\ Cardinality(kept \cup {t}) = Cardinality(kept) + 1
        BY <1>2, <1>6, FS_AddElement
      <4> QED BY <1>6, <2>1, <3>2, <4>1, <4>2
    <3> QED BY <3>1, <3>2
  <2>3. \A k \in order' : info'[k] # None
    BY <1>2, <1>3, TokenAssumption DEF TokenAssumption
  <2> QED BY <2>2, <2>3 DEF OrderBounded
<1>11. DeviceBounded'
  <2> SUFFICES ASSUME PerDevice > 0, NEW d \in Devices
               PROVE  Cardinality(Of(Views(held), d)') <= PerDevice
    BY DEF DeviceBounded
  <2> DEFINE M == Of(Views(held), d)
             K == Of(Views(kept), d)
             N == Of(Views(held), d)'
  <2>1. /\ N = {k \in held' : info'[k].role = "view" /\ info'[k].device = d}
        /\ M = {k \in held : info[k].role = "view" /\ info[k].device = d}
        /\ K = {k \in kept : info[k].role = "view" /\ info[k].device = d}
    BY DEF Of, Views
  <2>2. /\ IsFiniteSet(M) /\ Cardinality(M) \in Nat /\ Cardinality(M) <= PerDevice
        /\ IsFiniteSet(K) /\ Cardinality(K) \in Nat /\ K \subseteq M
        /\ PerDevice \in Nat \ {0}
    <3>1. M \in SUBSET order /\ K \in SUBSET M /\ IsFiniteSet(order)
      BY <1>2, <2>1 DEF IInv, HeldIsOrdered, OrderBounded
    <3>2. Cardinality(M) <= PerDevice /\ PerDevice \in Nat \ {0}
      BY TokenAssumption DEF IInv, DeviceBounded, TokenAssumption
    <3> HIDE DEF M, K
    <3> QED BY <3>1, <3>2, FS_Subset, FS_CardinalityType
  <2>3. CASE T = {} \/ g.role # "view" \/ g.device # d
    <3>1. N \in SUBSET K
      BY <1>2, <1>3, <2>1, <2>3
    <3> HIDE DEF M, K, N
    <3>2. Cardinality(N) <= Cardinality(K) /\ Cardinality(K) <= Cardinality(M) /\ Cardinality(N) \in Nat
      BY <2>2, <3>1, FS_Subset, FS_CardinalityType
    <3> QED BY <2>2, <3>2 DEF N
  <2>4. CASE T = {t} /\ g.role = "view" /\ g.device = d
    <3>1. N = K \cup {t}
      BY <1>2, <1>3, <2>1, <2>4
    <3>2. Cardinality(K) < PerDevice
      <4>1. d # None
        BY TokenAssumption DEF TokenAssumption
      <4>2. \/ Cardinality(Of(live, d)) < PerDevice
            \/ \E u \in live : own = {u} /\ info[u].device = d /\ info[u].role = "view"
        <5> HIDE DEF live
        <5> QED BY <1>1, <1>2, <2>4, <4>1, OwnTaken
      <4>3. CASE Cardinality(Of(live, d)) < PerDevice
        <5>1. K \in SUBSET Of(live, d) /\ Of(live, d) \in SUBSET live
          BY <2>1 DEF Of
        <5> HIDE DEF K, live
        <5>2. Cardinality(K) <= Cardinality(Of(live, d)) /\ Cardinality(Of(live, d)) \in Nat
          BY <1>6, <5>1, FS_Subset, FS_CardinalityType
        <5> QED BY <2>2, <4>3, <5>2
      <4>4. CASE \E u \in live : own = {u} /\ info[u].device = d /\ info[u].role = "view"
        <5>1. PICK u \in live : own = {u} /\ info[u].device = d /\ info[u].role = "view"
          BY <4>4
        <5>2. u \in M /\ K \in SUBSET (M \ {u})
          BY <1>2, <2>1, <5>1
        <5> HIDE DEF K, M
        <5>3. /\ IsFiniteSet(M \ {u}) /\ Cardinality(M \ {u}) = Cardinality(M) - 1
              /\ Cardinality(K) <= Cardinality(M \ {u})
          BY <2>2, <5>2, FS_RemoveElement, FS_Subset
        <5> QED BY <2>2, <5>3
      <4> QED BY <4>2, <4>3, <4>4
    <3>3. t \notin K
      BY <1>2, <2>1
    <3> HIDE DEF M, K, N
    <3>4. Cardinality(N) = Cardinality(K) + 1
      BY <2>2, <3>1, <3>3, FS_AddElement
    <3> QED BY <2>2, <3>2, <3>4 DEF N
  <2> QED BY <2>3, <2>4
<1>12. Recent'
  <2> SUFFICES ASSUME NEW h \in held', NEW u \in order', h \in ahead'[u]
               PROVE  u \in since'[h]
    BY DEF Recent
  <2>1. \A k \in order' : ahead'[k] = IF k \in T THEN kept ELSE ahead[k] \cap kept
    <3>1. /\ kept \subseteq Tokens /\ T \subseteq Tokens /\ order' = kept \cup T
          /\ Reorder(kept, T)
      BY <1>1, <1>2, <1>3 DEF TypeOK
    <3> HIDE DEF kept
    <3> QED BY <3>1 DEF Reorder
  <2>2. h \in kept /\ h # t
    BY <1>2, <2>1
  <2>3. since'[h] = IF T = {} THEN since[h] ELSE since[h] \cup {t}
    <3>1. h \in Tokens /\ h # t
      BY <1>2, <1>3, <2>2 DEF TypeOK
    <3>2. IF T = {} THEN since' = since ELSE Touch(t)
      BY <1>1, <1>3
    <3> HIDE DEF live, kept
    <3>3. CASE T = {}
      BY <3>2, <3>3
    <3>4. CASE T # {}
      BY <3>1, <3>2, <3>4 DEF Touch
    <3> QED BY <3>3, <3>4
  <2>4. CASE u \in T
    BY <2>3, <2>4
  <2>5. CASE u \in kept /\ u \notin T
    <3>1. h \in held /\ u \in order /\ h \in ahead[u]
      BY <1>2, <2>1, <2>2, <2>5
    <3>2. u \in since[h]
      BY <3>1 DEF IInv, Recent
    <3> QED BY <2>3, <3>2
  <2> QED BY <1>2, <2>4, <2>5
<1>13. TookIsGone'
  <2>1. lastPut'.took = own \cup out
    BY <1>1
  <2>2. \A k \in own \cup out : k \in held /\ k # t /\ info'[k] = info[k] /\ info[k] # None
    BY <1>1, <1>3 DEF TypeOK
  <2>3. (own \cup out) \cap held' = {}
    BY <1>2, <2>2
  <2> QED BY <2>1, <2>2, <2>3 DEF TookIsGone
<1>14. /\ lastPut'.to = g /\ lastPut'.took = own \cup out
       /\ \A k \in own \cup out : info'[k] = info[k] /\ info[k].role \in {"view", "full"}
  <2>1. \A k \in own \cup out : k # t /\ info'[k] = info[k] /\ info[k] \in Grants
    BY <1>1, <1>3 DEF TypeOK
  <2> QED BY <1>1, <2>1, TokenAssumption DEF TokenAssumption
<1>15. ViewTakesViews'
  <2>1. ASSUME g.role = "view"
        PROVE  /\ \A k \in own \cup out : info[k].role = "view"
               /\ \A k, l \in own \cup out : k = l
    <3>1. \A k \in own \cup out : info[k].role = "view"
      BY <1>4, <1>5, <2>1
    <3>2. CASE own = {}
      BY <1>5, <3>1, <3>2
    <3>3. ASSUME NEW u \in live, own = {u}
          PROVE  out = {}
      <4>1. Cardinality(live \ own) = Cardinality(live) - 1
        <5> HIDE DEF live
        <5> QED BY <1>6, <3>3, FS_RemoveElement
      <4>2. Cardinality(live \ own) < MaxTokens
        <5> HIDE DEF live
        <5> QED BY <1>6, <4>1
      <4> QED BY <1>5, <1>6, <4>2
    <3>4. \A k, l \in own \cup out : k = l
      BY <1>4, <3>2, <3>3
    <3> QED BY <3>1, <3>4
  <2> QED BY <1>14, <2>1 DEF ViewTakesViews
<1>16. LeastRecentFirst'
  <2> SUFFICES ASSUME NEW k \in own \cup out, NEW u \in held', info[k].role = "full"
               PROVE  u \in since'[k] /\ info'[u].role = "full"
    BY <1>14 DEF LeastRecentFirst
  <2>1. /\ out = {k} /\ k \in live \ own /\ ~Busy(live \ own, g)
        /\ g.role = "full" /\ Views(live \ own) = {} /\ Oldest(live \ own) = {k}
    BY <1>4, <1>5
  <2>2. T = {t} /\ Touch(t) /\ k # t /\ k \in Tokens /\ k \in held /\ k \in order
    BY <1>1, <1>3, <2>1 DEF TypeOK, IInv, HeldIsOrdered
  <2>3. since'[k] = since[k] \cup {t}
    BY <1>3, <2>2 DEF Touch, TypeOK
  <2>4. CASE u = t
    BY <1>3, <2>1, <2>2, <2>3, <2>4
  <2>5. CASE u \in kept
    <3>1. u \in live \ own /\ u # k /\ u \in order
      BY <1>2, <2>1, <2>5
    <3>2. u \notin ahead[k]
      BY <2>1, <3>1 DEF Oldest
    <3>3. u \in since[k]
      BY <2>2, <3>1, <3>2 DEF IInv, Ranked, Recent
    <3>4. info[u].role = "full"
      BY <1>3, <2>1, <2>5, <3>1, TokenAssumption DEF Views, TokenAssumption
    <3> QED BY <1>3, <2>3, <2>5, <3>3, <3>4
  <2> QED BY <1>2, <2>2, <2>4, <2>5
<1> QED BY <1>7, <1>8, <1>9, <1>10, <1>11, <1>12, <1>13, <1>15, <1>16 DEF IInv

-----------------------------------------------------------------------------
(* The other operations.                                                   *)

(* So does checking one, which a single-use store takes out and another
   moves to the end of the order. *)
LEMMA CheckKeeps ==
    ASSUME IInv, NEW t \in Tokens, Check(t)
    PROVE  IInv'
<1>1. /\ held' \subseteq held /\ lapsed' \subseteq Tokens /\ t \in held /\ t \in order
      /\ UNCHANGED <<info, lastPut>> /\ Touch(t) /\ TypeOK
  BY DEF Check, Hold, IInv, TypeOK, HeldIsOrdered
<1>2. \/ SingleUse /\ held' = held \ {t} /\ UNCHANGED <<order, ahead>>
      \/ Reorder(order \ {t}, {t})
  BY <1>1 DEF Check, Hold
<1>3. order' = order
  BY <1>1, <1>2 DEF Reorder
<1>4. TypeOK'
  BY <1>1, <1>2, <1>3 DEF TypeOK, Touch, Reorder
<1>5. HeldIsOrdered'
  BY <1>1, <1>3 DEF IInv, HeldIsOrdered
<1>6. Ranked'
  <2>1. CASE UNCHANGED <<order, ahead>>
    BY <2>1 DEF IInv, Ranked
  <2>2. CASE Reorder(order \ {t}, {t})
    BY <1>1, <2>2, ReorderRanks DEF IInv, TypeOK
  <2> QED BY <1>2, <2>1, <2>2
<1>7. OrderBounded'
  BY <1>1, <1>3 DEF IInv, OrderBounded
<1>8. DeviceBounded'
  BY <1>1, FewerBounded
<1>9. Recent'
  <2> SUFFICES ASSUME NEW h \in held', NEW u \in order', h \in ahead'[u]
               PROVE  u \in since'[h]
    BY DEF Recent
  <2>1. h \in held /\ u \in order /\ h \in Tokens /\ u \in Tokens
    BY <1>1, <1>3 DEF TypeOK
  <2>2. since'[h] = IF h = t THEN {} ELSE since[h] \cup {t}
    BY <1>1, <2>1 DEF Touch
  <2>3. CASE SingleUse /\ held' = held \ {t} /\ UNCHANGED <<order, ahead>>
    BY <2>1, <2>2, <2>3 DEF IInv, Recent
  <2>4. CASE Reorder(order \ {t}, {t})
    <3>1. ahead'[u] = IF u = t THEN order \ {t} ELSE ahead[u] \cap (order \ {t})
      BY <1>1, <2>1, <2>4 DEF Reorder
    <3>2. h # t
      BY <3>1
    <3>3. CASE u = t
      BY <2>2, <3>2, <3>3
    <3>4. CASE u # t
      BY <2>1, <2>2, <3>1, <3>2, <3>4 DEF IInv, Recent
    <3> QED BY <3>3, <3>4
  <2> QED BY <1>2, <2>3, <2>4
<1>10. TookIsGone' /\ ViewTakesViews'
  BY <1>1 DEF IInv, TookIsGone, ViewTakesViews
<1>11. LeastRecentFirst'
  <2> SUFFICES ASSUME lastPut # None, NEW k \in lastPut.took, NEW u \in held',
                      info[k].role = "full"
               PROVE  u \in since'[k] /\ info[u].role = "full"
    BY <1>1 DEF LeastRecentFirst
  <2>1. u \in since[k] /\ info[u].role = "full"
    BY <1>1 DEF IInv, LeastRecentFirst
  <2>2. k # t /\ k \in Tokens
    BY <1>1 DEF IInv, TookIsGone, TypeOK, Puts
  <2>3. since'[k] = since[k] \cup {t}
    BY <1>1, <2>2 DEF Touch
  <2> QED BY <2>1, <2>3
<1> QED BY <1>4, <1>5, <1>6, <1>7, <1>8, <1>9, <1>10, <1>11 DEF IInv

(* Tokens leave the map, or lapse. *)
LEMMA DeleteKeeps ==
    ASSUME IInv, held' \subseteq held, lapsed' \subseteq Tokens,
           UNCHANGED <<info, order, ahead, lastPut, since>>
    PROVE  IInv'
<1>1. TypeOK' /\ HeldIsOrdered'
  BY DEF IInv, TypeOK, HeldIsOrdered
<1>2. Ranked' /\ OrderBounded' /\ Recent'
  BY DEF IInv, Ranked, OrderBounded, Recent
<1>3. DeviceBounded'
  BY FewerBounded
<1>4. TookIsGone' /\ ViewTakesViews' /\ LeastRecentFirst'
  BY DEF IInv, TookIsGone, ViewTakesViews, LeastRecentFirst
<1> QED BY <1>1, <1>2, <1>3, <1>4 DEF IInv

-----------------------------------------------------------------------------
(* The theorems.                                                           *)

(* The store starts empty, within the invariant. *)
LEMMA InitHolds == Init => IInv
<1> SUFFICES ASSUME Init PROVE IInv
  OBVIOUS
<1>1. TypeOK
  BY DEF Init, TypeOK
<1>2. HeldIsOrdered /\ Ranked /\ Recent /\ TookIsGone /\ ViewTakesViews /\ LeastRecentFirst
  BY DEF Init, HeldIsOrdered, Ranked, Recent, TookIsGone, ViewTakesViews, LeastRecentFirst
<1>3. OrderBounded
  BY FS_EmptySet, TokenAssumption DEF Init, OrderBounded, TokenAssumption
<1>4. DeviceBounded
  <2>1. \A d \in Devices : Of(Views(held), d) = {}
    BY DEF Init, Of, Views
  <2> QED BY <2>1, FS_EmptySet, TokenAssumption DEF DeviceBounded, TokenAssumption
<1> QED BY <1>1, <1>2, <1>3, <1>4 DEF IInv

(* No step leaves the invariant. *)
LEMMA NextHolds == IInv /\ [Next]_vars => IInv'
<1> SUFFICES ASSUME IInv, [Next]_vars PROVE IInv'
  OBVIOUS
<1>1. ASSUME NEW t \in Tokens, NEW g \in Grants, Put(t, g) PROVE IInv'
  BY <1>1, PutKeeps
<1>2. ASSUME NEW t \in Tokens, Check(t) PROVE IInv'
  BY <1>2, CheckKeeps
<1>3. ASSUME NEW S, Delete(S) PROVE IInv'
  BY <1>3, DeleteKeeps DEF Delete, Hold, IInv, TypeOK
<1>4. ASSUME NEW S \in SUBSET held, Clock(S) PROVE IInv'
  BY <1>4, DeleteKeeps DEF Clock, IInv, TypeOK
<1>5. CASE UNCHANGED vars
  BY <1>5, DeleteKeeps DEF vars, IInv, TypeOK
<1> QED BY <1>1, <1>2, <1>3, <1>4, <1>5 DEF Next, RevokeDevice, RevokeSession, RemoveToken

(* The invariant always holds. *)
LEMMA Holds == Spec => []IInv
  BY InitHolds, NextHolds, PTL DEF Spec

(* The state of a token store is well typed, and no token of the map lacks its
   grant. *)
THEOREM TypeCorrect == Spec => []TypeOK
<1>1. IInv => TypeOK
  BY DEF IInv
<1> QED BY <1>1, Holds, PTL

(* A token that can be used can be pushed out: the order knows it. *)
THEOREM OrderKnowsAll == Spec => []HeldIsOrdered
<1>1. IInv => HeldIsOrdered
  BY DEF IInv
<1> QED BY <1>1, Holds, PTL

(* The caps hold, of the store and of each view-only device. *)
THEOREM CapsHold == Spec => []TokensBounded
<1>1. IInv => TokensBounded
  <2> SUFFICES ASSUME IInv PROVE TokensBounded
    OBVIOUS
  <2>1. held \in SUBSET order /\ IsFiniteSet(order) /\ Cardinality(order) <= MaxTokens
    BY DEF IInv, HeldIsOrdered, OrderBounded
  <2>2. IsFiniteSet(held) /\ Cardinality(held) <= Cardinality(order)
    BY <2>1, FS_Subset
  <2>3. Cardinality(held) <= MaxTokens
    BY <2>1, <2>2, FS_CardinalityType, TokenAssumption DEF TokenAssumption
  <2> QED BY <2>3 DEF TokensBounded, IInv, DeviceBounded
<1> QED BY <1>1, Holds, PTL

(* A view-only client's token never costs anyone a full one, nor two. *)
THEOREM ViewHarmless == Spec => []ViewTakesViews
<1>1. IInv => ViewTakesViews
  BY DEF IInv
<1> QED BY <1>1, Holds, PTL

(* A full token is pushed out only when every token left is full and was used
   after it. *)
THEOREM LeastRecentGoes == Spec => []LeastRecentFirst
<1>1. IInv => LeastRecentFirst
  BY DEF IInv
<1> QED BY <1>1, Holds, PTL

(* Only a view-only client is refused, in a store full of full tokens, and no
   token goes for it. *)
THEOREM RefusalIsFree == Spec => RefusedTakesNothing
<1>1. ASSUME IInv, NEW t \in Tokens, NEW g \in Grants, Put(t, g), lastPut'.refused
      PROVE  RefusalFree
  <2> DEFINE live == held \ lapsed
  <2>0. \E own, out \in SUBSET held, T \in SUBSET {t} : Issued(t, g, live, own, out, T)
    BY <1>1, PutShape
  <2>1. PICK own, out \in SUBSET held, T \in SUBSET {t} : Issued(t, g, live, own, out, T)
    BY <2>0
  <2> USE DEF Issued
  <2>2. /\ T = {} /\ Busy(live \ own, g) /\ g.role = "view"
        /\ Cardinality(live \ own) >= MaxTokens /\ Views(live \ own) = {}
    BY <1>1, <2>1 DEF Busy
  <2>3. /\ live \in SUBSET order /\ live \in SUBSET held /\ IsFiniteSet(live)
        /\ Cardinality(live) \in Nat /\ Cardinality(live) <= MaxTokens /\ MaxTokens \in Nat
    <3>1. /\ live \in SUBSET order /\ live \in SUBSET held /\ IsFiniteSet(order)
          /\ Cardinality(order) <= MaxTokens /\ MaxTokens \in Nat
      BY <1>1, TokenAssumption DEF IInv, HeldIsOrdered, OrderBounded, TokenAssumption
    <3> HIDE DEF live
    <3>2. IsFiniteSet(live) /\ Cardinality(live) <= Cardinality(order) /\ Cardinality(order) \in Nat
      BY <3>1, FS_Subset, FS_CardinalityType
    <3>3. Cardinality(live) \in Nat
      BY <3>2, FS_CardinalityType
    <3> QED BY <3>1, <3>2, <3>3
  <2>4. own = {}
    <3>1. own = {} \/ \E u \in live : own = {u}
      <4> HIDE DEF live
      <4> QED BY <1>1, <2>1, <2>3, OwnTaken
    <3>2. ASSUME NEW u \in live, own = {u} PROVE FALSE
      <4> HIDE DEF live
      <4>1. Cardinality(live \ {u}) = Cardinality(live) - 1
        BY <2>3, FS_RemoveElement
      <4> QED BY <2>2, <2>3, <3>2, <4>1
    <3> QED BY <3>1, <3>2
  <2>5. out = {}
    BY <1>1, <2>1, <2>2, TokenAssumption DEF PushedOut, TokenAssumption
  <2>6. held' = live /\ lastPut'.to = g /\ lastPut'.took = {} /\ Cardinality(held') = MaxTokens
    <3>1. live \ own = live /\ held' = live
      BY <2>1, <2>2, <2>4, <2>5
    <3> HIDE DEF live
    <3> QED BY <2>1, <2>2, <2>3, <2>4, <2>5, <3>1
  <2>7. \A k \in held' : info[k].role = "full"
    <3>1. \A k \in live : info[k].role \in {"full", "view"}
      BY <1>1, TokenAssumption DEF IInv, TypeOK, TokenAssumption
    <3>2. Views(live) = {}
      BY <2>2, <2>4
    <3> QED BY <2>6, <3>1, <3>2 DEF Views
  <2> QED BY <2>2, <2>6, <2>7 DEF RefusalFree
<1>2. IInv /\ [Next]_vars => RefusalFree
  <2> SUFFICES ASSUME IInv, [Next]_vars PROVE RefusalFree
    OBVIOUS
  <2>1. ASSUME NEW t \in Tokens, NEW g \in Grants, Put(t, g) PROVE RefusalFree
    <3>1. CASE lastPut'.refused
      BY <1>1, <2>1, <3>1
    <3>2. CASE ~lastPut'.refused
      BY <3>2 DEF RefusalFree
    <3> QED BY <3>1, <3>2
  <2>2. CASE lastPut' = lastPut
    BY <2>2 DEF RefusalFree
  <2>3. ASSUME NEW S, Delete(S) \/ Clock(S) PROVE lastPut' = lastPut
    BY <2>3 DEF Delete, Clock
  <2>4. ASSUME NEW t \in Tokens, Check(t) PROVE lastPut' = lastPut
    BY <2>4 DEF Check
  <2>5. CASE UNCHANGED vars
    BY <2>2, <2>5 DEF vars
  <2>6. ASSUME Next PROVE \/ \E k \in Tokens, g \in Grants : Put(k, g)
                          \/ \E k \in Tokens : Check(k)
                          \/ \E S : Delete(S) \/ Clock(S)
    BY <2>6 DEF Next, RevokeDevice, RevokeSession, RemoveToken
  <2> QED BY <2>1, <2>2, <2>3, <2>4, <2>5, <2>6
<1> QED BY <1>2, Holds, PTL DEF Spec, RefusedTakesNothing

(* The caps hold over tokens that the order all knows.                     *)
THEOREM CapsAreKept == Spec => []WithinCaps
BY OrderKnowsAll, CapsHold, PTL DEF WithinCaps

(* A full store is paid for by the right client.                           *)
THEOREM PaysFairly == Spec => PushedOutFairly
BY ViewHarmless, LeastRecentGoes, RefusalIsFree, PTL
   DEF PushedOutFairly, RefusedTakesNothing
=============================================================================
