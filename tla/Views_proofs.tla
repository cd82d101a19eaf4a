---------------------------- MODULE Views_proofs ----------------------------
(***************************************************************************)
(* What TLAPS proves of what the page shows of the server's tabs and files. *)
(*                                                                         *)
(* Drafts (FileDrafts), for any pages, files and texts: the type           *)
(* invariant, that a page which does not ask loses nothing, that no old    *)
(* text is stored, that a sign-out is final for what was kept, that no     *)
(* sensitive text is stored, and that the storage keeps the promise of     *)
(* DraftStore.                                                             *)
(*                                                                         *)
(* Uploads (FileUploads), for any files, names and roots: the type         *)
(* invariant, that what the user is told is true, and that a Cancel stops  *)
(* the files it was meant for.                                             *)
(*                                                                         *)
(* The view (FilesStore), for any roots, paths and numbers of tabs: the    *)
(* type invariant, that what is shown is of one root, and that no changes  *)
(* go but by the user.                                                     *)
(*                                                                         *)
(* The session list (SessionPick), for any tabs, groups and requests under *)
(* way: the type invariant, and that no late reply undoes what was done.   *)
(***************************************************************************)
EXTENDS FileDrafts, Views, SliceLemmas, FiniteSetTheorems, TLAPS

-----------------------------------------------------------------------------
(* Drafts: the inductive invariant.                                        *)

\* A draft that may be kept is of a file that is not sensitive, under the
\* names it had.
DraftsOpenly ==
    \A p \in Pages, f \in Files :
        IsDirty(draft[p][f]) /\ ~draft[p][f].reveal
            => f \notin Secret /\ draft[p][f].text # Hidden

\* What a page takes for stored is stored as it is, or an event says else.
KeptIsStored ==
    \A p \in opened : \A f \in kept[p] \ wiped[p] :
        disk[f].text = draft[p][f].text \/ Told(p, f)

\* What is stored has a text.
StoredHasText == \A f \in Files : disk[f] # NoRecord => disk[f].text # None

\* Events name files, or the sign-out.
EventsTyped == coming \in [Pages -> Seq(Files \cup {None})]

DraftsIInv ==
    /\ DraftsTypeOK
    /\ latest \in [Files -> Texts \cup {None, Hidden}]
    /\ EventsTyped
    /\ StoredHasText
    /\ NoOldText
    /\ NothingBack
    /\ SecretNotStored
    /\ DraftsOpenly
    /\ KeptIsStored

(* A page that has not opened has no draft and owes no event: the invariant
   holds. *)
LEMMA DraftsInitIInv == DraftsInit => DraftsIInv
  BY DraftsAssumption
  DEF DraftsInit, DraftsIInv, DraftsTypeOK, EventsTyped, NoOldText, NothingBack,
      SecretNotStored, DraftsOpenly, KeptIsStored, StoredHasText, NoDraft, NoRecord,
      Dirty, IsDirty

-----------------------------------------------------------------------------
(* Drafts: events.                                                         *)

\* A finite set as a sequence has every element of it, and no other.
LEMMA SetAsSeq ==
    ASSUME NEW S, IsFiniteSet(S)
    PROVE  /\ SetToSeq(S) \in Seq(S)
           /\ \A x \in S : \E i \in 1..Len(SetToSeq(S)) : SetToSeq(S)[i] = x
<1>1. SetToSeq(S) \in Injection(1..Cardinality(S), S)
  BY FS_CardinalityType DEF SetToSeq, ExistsBijection, Bijection, Injection
<1>2. SetToSeq(S) \in Surjection(1..Cardinality(S), S)
  <2>1. Cardinality(S) \in Nat
    BY FS_CardinalityType
  <2>2. /\ IsFiniteSet(1..Cardinality(S))
        /\ Cardinality(1..Cardinality(S)) = Cardinality(S)
    BY <2>1, FS_Interval
  <2> QED BY <1>1, <2>2, FS_Injection
<1>3. Cardinality(S) \in Nat
  BY FS_CardinalityType
<1> QED BY <1>1, <1>2, <1>3 DEF Injection, Surjection

\* What is removed is told, file by file.
LEMMA RemovalsTold ==
    ASSUME NEW fs \in SUBSET Files
    PROVE  /\ Removals(fs) \in Seq(Files)
           /\ \A f \in fs : disk[f] # NoRecord =>
                  \E i \in 1..Len(Removals(fs)) : Removals(fs)[i] = f
<1>1. IsFiniteSet(fs \cap Stored)
  BY DraftsAssumption, FS_Subset DEF Stored
<1>2. Removals(fs) \in Seq(fs \cap Stored)
  BY <1>1, SetAsSeq DEF Removals
<1>3. \A x \in fs \cap Stored : \E i \in 1..Len(Removals(fs)) : Removals(fs)[i] = x
  BY <1>1, SetAsSeq DEF Removals
<1>4. fs \cap Stored \subseteq Files
  OBVIOUS
<1> QED BY <1>2, <1>3, <1>4 DEF Stored

\* What the other pages are sent.
SentTo(p, news) ==
    \A q \in opened \ {p} : coming'[q] = coming[q] \o news

\* An event sent loses none that was on its way.
LEMMA SendKeeps ==
    ASSUME DraftsIInv, NEW p, NEW news \in Seq(Files \cup {None}), SentTo(p, news),
           NEW q \in opened \ {p}, NEW f,
           \/ Told(q, f)
           \/ \E i \in 1..Len(news) : news[i] = f
    PROVE  Told(q, f)'
<1>1. /\ coming'[q] = coming[q] \o news
      /\ coming[q] \in Seq(Files \cup {None})
  BY DEF DraftsIInv, EventsTyped, DraftsTypeOK, SentTo
<1>2. CASE Told(q, f)
  <2>1. PICK i \in 1..Len(coming[q]) : coming[q][i] = f
    BY <1>2 DEF Told
  <2>2. i \in 1..Len(coming'[q]) /\ coming'[q][i] = f
    BY <1>1, <2>1
  <2> QED BY <2>2 DEF Told
<1>3. CASE \E i \in 1..Len(news) : news[i] = f
  <2>1. PICK i \in 1..Len(news) : news[i] = f
    BY <1>3
  <2>2. /\ Len(coming[q]) + i \in 1..Len(coming'[q])
        /\ coming'[q][Len(coming[q]) + i] = f
    BY <1>1, <2>1
  <2> QED BY <2>2 DEF Told
<1> QED BY <1>2, <1>3

(* Telling the other pages appends the news to what each open one is to
   hear. *)
LEMMA TellSends ==
    ASSUME DraftsIInv, NEW p \in Pages, NEW news \in Seq(Files \cup {None}), Tell(p, news)
    PROVE  /\ SentTo(p, news)
           /\ EventsTyped'
           /\ \A q \in Pages \ (opened \ {p}) : coming'[q] = coming[q]
  BY DEF DraftsIInv, EventsTyped, DraftsTypeOK, Tell, SentTo

-----------------------------------------------------------------------------
(* Drafts: those of one page.                                              *)

DraftRecords == [text : Texts \cup {None, Hidden}, reveal : BOOLEAN]

\* Drafts a page may hold: typed, and sensitive where the file is.
OpenDrafts ==
    {d \in [Files -> DraftRecords] :
        \A f \in Files : IsDirty(d[f]) /\ ~d[f].reveal
            => f \notin Secret /\ d[f].text # Hidden}

DirtyIn(d) == {f \in Files : IsDirty(d[f])}

(* Every draft is one an open file may have. *)
LEMMA DraftsAreOpen ==
    DraftsIInv => \A p \in Pages : draft[p] \in OpenDrafts
  BY DEF DraftsIInv, DraftsTypeOK, DraftsOpenly, OpenDrafts, DraftRecords

\* The part of the type invariant that is about what pages hold.
HoldingOK ==
    /\ draft \in [Pages -> [Files -> DraftRecords]]
    /\ kept \in [Pages -> SUBSET Files]
    /\ asks \subseteq opened
    /\ \A p \in Pages \ opened : Dirty(p) = {} /\ kept[p] = {}
    /\ \A p \in opened :
        /\ kept[p] \subseteq Dirty(p)
        /\ p \in asks <=> ~(Dirty(p) \subseteq kept[p])
    /\ DraftsOpenly

\* Once a page holds d, and of it keeps k, its guard is as it should be.
LEMMA HoldsKeeps ==
    ASSUME DraftsIInv, NEW p \in opened, NEW d \in OpenDrafts,
           NEW k \in SUBSET DirtyIn(d), Holds(p, d, k), opened' = opened
    PROVE  /\ HoldingOK'
           /\ draft'[p] = d /\ kept'[p] = k
           /\ \A q \in Pages \ {p} : draft'[q] = draft[q] /\ kept'[q] = kept[q]
<1>1. /\ draft \in [Pages -> [Files -> DraftRecords]]
      /\ kept \in [Pages -> SUBSET Files]
      /\ p \in Pages /\ opened \subseteq Pages
      /\ d \in [Files -> DraftRecords]
  BY DEF DraftsIInv, DraftsTypeOK, OpenDrafts, DraftRecords
<1>2. /\ draft'[p] = d /\ kept'[p] = k
      /\ \A q \in Pages \ {p} : draft'[q] = draft[q] /\ kept'[q] = kept[q]
  BY <1>1 DEF Holds
<1>3. /\ draft' \in [Pages -> [Files -> DraftRecords]]
      /\ kept' \in [Pages -> SUBSET Files]
  BY <1>1 DEF Holds, DirtyIn
<1>4. Dirty(p)' = DirtyIn(d) /\ \A q \in Pages \ {p} : Dirty(q)' = Dirty(q)
  BY <1>1, <1>2 DEF Dirty, DirtyIn
<1>5. asks' \subseteq opened' /\ \A q \in Pages \ {p} : q \in asks' <=> q \in asks
  BY <1>1 DEF Holds, Guard, DraftsIInv, DraftsTypeOK
<1>6. p \in asks' <=> ~(DirtyIn(d) \subseteq k)
  BY DEF Holds, Guard, DirtyIn
<1>7. DraftsOpenly'
  BY <1>1, <1>2 DEF DraftsIInv, DraftsOpenly, OpenDrafts
<1>8. \A q \in opened' : /\ kept'[q] \subseteq Dirty(q)'
                         /\ q \in asks' <=> ~(Dirty(q)' \subseteq kept'[q])
  BY <1>1, <1>2, <1>4, <1>5, <1>6 DEF DraftsIInv, DraftsTypeOK
<1>9. \A q \in Pages \ opened' : Dirty(q)' = {} /\ kept'[q] = {}
  BY <1>1, <1>2, <1>4 DEF DraftsIInv, DraftsTypeOK
<1> QED BY <1>2, <1>3, <1>5, <1>7, <1>8, <1>9 DEF HoldingOK

\* What the rest of the invariant needs after a step of page p: the other
\* pages are told of each file whose stored text changed.
DiskRecords == [text : Texts \cup {None, Hidden}, mark : 0..MaxOuts]

OthersTold(p) ==
    \A q \in opened \ {p} : \A f \in Files :
        disk'[f].text = disk[f].text \/ Told(q, f)'

(* The other pages' kept drafts stay stored or have news on the way, when
   their own state and what they were told stay. *)
LEMMA OthersKept ==
    ASSUME DraftsIInv, NEW p \in Pages, OthersTold(p), opened' = opened,
           \A q \in Pages \ {p} :
               draft'[q] = draft[q] /\ kept'[q] = kept[q] /\ wiped'[q] = wiped[q],
           \A q \in opened \ {p}, f \in Files : Told(q, f) => Told(q, f)'
    PROVE  \A q \in opened' \ {p} : \A f \in kept'[q] \ wiped'[q] :
               disk'[f].text = draft'[q][f].text \/ Told(q, f)'
<1> SUFFICES ASSUME NEW q \in opened \ {p}, NEW f \in kept[q] \ wiped[q]
             PROVE  disk'[f].text = draft'[q][f].text \/ Told(q, f)'
  BY DEF DraftsIInv, DraftsTypeOK
<1>1. q \in Pages /\ f \in Files
  BY DEF DraftsIInv, DraftsTypeOK
<1>2. disk[f].text = draft[q][f].text \/ Told(q, f)
  BY DEF DraftsIInv, KeptIsStored
<1> QED BY <1>1, <1>2 DEF OthersTold

\* The pages are told of what a page removed, and of what it names beside.
LEMMA RemovingSends ==
    ASSUME DraftsIInv, NEW p \in Pages, NEW gone \in SUBSET Files,
           NEW more \in Seq(Files \cup {None}),
           SentTo(p, Removals(gone) \o more),
           \A f \in Files : \/ disk'[f] = disk[f]
                            \/ f \in gone /\ disk'[f] = NoRecord
                            \/ \E i \in 1..Len(more) : more[i] = f
    PROVE  /\ OthersTold(p)
           /\ \A q \in opened \ {p}, f \in Files : Told(q, f) => Told(q, f)'
<1> DEFINE news == Removals(gone) \o more
<1>1. Removals(gone) \in Seq(Files)
  BY RemovalsTold
<1>2. news \in Seq(Files \cup {None})
  <2>1. Removals(gone) \in Seq(Files \cup {None})
    BY <1>1
  <2> QED BY <2>1
<1>3. SentTo(p, news)
  OBVIOUS
<1>4. ASSUME NEW f \in Files
      PROVE  \/ disk'[f].text = disk[f].text
             \/ \E i \in 1..Len(news) : news[i] = f
  <2>1. CASE disk'[f] = disk[f]
    BY <2>1
  <2>2. CASE f \in gone /\ disk'[f] = NoRecord /\ disk[f] # NoRecord
    <3>1. PICK i \in 1..Len(Removals(gone)) : Removals(gone)[i] = f
      BY <2>2, RemovalsTold
    <3>2. i \in 1..Len(news) /\ news[i] = f
      BY <1>1, <3>1
    <3> QED BY <3>2
  <2>3. CASE \E i \in 1..Len(more) : more[i] = f
    <3>1. PICK i \in 1..Len(more) : more[i] = f
      BY <2>3
    <3>2. /\ Len(Removals(gone)) + i \in 1..Len(news)
          /\ news[Len(Removals(gone)) + i] = f
      BY <1>1, <3>1
    <3> QED BY <3>2
  <2> QED BY <1>4, <2>1, <2>2, <2>3
<1> HIDE DEF news
<1> QED BY <1>2, <1>3, <1>4, SendKeeps DEF OthersTold

(* A page that removes drafts from the store tells every other page of
   each. *)
LEMMA RemovingTells ==
    ASSUME DraftsIInv, NEW p \in Pages, NEW gone \in SUBSET Files,
           NEW more \in Seq(Files \cup {None}),
           Tell(p, Removals(gone) \o more), opened' = opened,
           \A f \in Files : \/ disk'[f] = disk[f]
                            \/ f \in gone /\ disk'[f] = NoRecord
                            \/ \E i \in 1..Len(more) : more[i] = f
    PROVE  /\ OthersTold(p)
           /\ EventsTyped'
           /\ \A q \in Pages \ (opened \ {p}) : coming'[q] = coming[q]
           /\ \A q \in opened \ {p}, f \in Files : Told(q, f) => Told(q, f)'
<1> DEFINE news == Removals(gone) \o more
<1>1. Removals(gone) \in Seq(Files \cup {None})
  <2>1. Removals(gone) \in Seq(Files)
    BY RemovalsTold
  <2> QED BY <2>1
<1>2. news \in Seq(Files \cup {None})
  BY <1>1
<1>3. /\ SentTo(p, news) /\ EventsTyped'
      /\ \A q \in Pages \ (opened \ {p}) : coming'[q] = coming[q]
  BY <1>2, TellSends
<1> QED BY <1>3, RemovingSends

\* The text a draft stored has is the one last stored; what was not removed is
\* as it was.
DiskOK ==
    /\ disk \in [Files -> DiskRecords]
    /\ NoOldText /\ NothingBack /\ SecretNotStored /\ StoredHasText
    /\ latest \in [Files -> Texts \cup {None, Hidden}]

(* What is stored is well formed. *)
LEMMA DiskIsOK == DraftsIInv => DiskOK
  BY DEF DraftsIInv, DraftsTypeOK, DiskOK, DiskRecords

\* Removing leaves nothing of what is removed, and the rest as it is.
LEMMA RemovingKeepsDisk ==
    ASSUME DraftsIInv, NEW gone \in SUBSET Files, disk' = Without(gone),
           mark' = mark \/ gone = Files,
           latest' \in [Files -> Texts \cup {None, Hidden}],
           \A f \in Files \ gone : latest'[f] = latest[f]
    PROVE  DiskOK'
<1>1. NoRecord \in DiskRecords /\ disk \in [Files -> DiskRecords]
  BY DraftsAssumption DEF NoRecord, DiskRecords, DraftsIInv, DraftsTypeOK
<1>2. disk' \in [Files -> DiskRecords]
  BY <1>1 DEF Without
<1>3. \A f \in Files : disk'[f] = IF f \in gone THEN NoRecord ELSE disk[f]
  BY DEF Without
<1>4. NoOldText'
  BY <1>3 DEF DraftsIInv, NoOldText, NoRecord
<1>5. NothingBack' /\ SecretNotStored' /\ StoredHasText'
  BY <1>3 DEF DraftsIInv, NothingBack, SecretNotStored, StoredHasText
<1> QED BY <1>2, <1>4, <1>5 DEF DiskOK

\* The parts of the invariant put together after a step of an open page.
LEMMA Together ==
    ASSUME DraftsIInv, NEW p \in opened, opened' = opened,
           HoldingOK', DiskOK', EventsTyped',
           \A q \in Pages \ opened : coming'[q] = coming[q],
           markOf' = markOf, mark' \in 0..MaxOuts,
           may' \subseteq Pages, hydrated' \cup disabled' \subseteq opened,
           wiped' \in [Pages -> SUBSET Files],
           OthersTold(p),
           \A q \in opened \ {p}, f \in Files : Told(q, f) => Told(q, f)',
           \A q \in Pages \ {p} :
               draft'[q] = draft[q] /\ kept'[q] = kept[q] /\ wiped'[q] = wiped[q],
           \A f \in kept'[p] \ wiped'[p] :
               disk'[f].text = draft'[p][f].text \/ Told(p, f)'
    PROVE  DraftsIInv'
<1>1. p \in Pages
  BY DEF DraftsIInv, DraftsTypeOK
<1>2. KeptIsStored'
  BY <1>1, OthersKept DEF KeptIsStored
<1>3. DraftsTypeOK'
  BY DEF HoldingOK, DiskOK, DraftRecords, DiskRecords, DraftsIInv, DraftsTypeOK
<1> QED BY <1>2, <1>3 DEF DraftsIInv, HoldingOK, DiskOK

-----------------------------------------------------------------------------
(* Drafts: every step keeps the invariant.                                 *)

\* keepDraft: whatever becomes of the write, what the page takes for stored
\* is stored, and the other pages are told.
LEMMA KeepDraftKeeps ==
    ASSUME DraftsIInv, NEW p \in opened, NEW d \in OpenDrafts,
           NEW from \in SUBSET Files, NEW f \in Files \ from,
           \A g \in Files \ (from \cup {f}) : d[g] = draft[p][g],
           KeepDraft(p, d, from, f)
    PROVE  DraftsIInv'
<1> DEFINE rest == kept[p] \ (from \cup {f})
<1>1. /\ p \in Pages /\ opened \subseteq Pages /\ opened' = opened
      /\ markOf' = markOf /\ mark' = mark /\ mark \in 0..MaxOuts
      /\ may' = may /\ may \subseteq Pages
      /\ hydrated' = hydrated /\ hydrated \cup disabled \subseteq opened
      /\ wiped' = [wiped EXCEPT ![p] = @ \ (from \cup {f})]
      /\ wiped \in [Pages -> SUBSET Files]
      /\ latest \in [Files -> Texts \cup {None, Hidden}]
  BY DEF DraftsIInv, DraftsTypeOK, KeepDraft
<1>2. wiped' \in [Pages -> SUBSET Files] /\ \A q \in Pages \ {p} : wiped'[q] = wiped[q]
  BY <1>1
<1>3. rest \in SUBSET DirtyIn(d) /\ \A g \in rest : g \in Files /\ d[g] = draft[p][g]
  BY <1>1 DEF DraftsIInv, DraftsTypeOK, Dirty, DirtyIn
<1>4. d[f].text \in Texts \cup {None, Hidden}
  BY DEF OpenDrafts, DraftRecords
\* What was stored and is not touched is stored still.
<1>5. ASSUME coming'[p] = coming[p], NEW g \in rest \ wiped'[p], disk'[g] = disk[g]
      PROVE  disk'[g].text = d[g].text \/ Told(p, g)'
  <2>1. g \in kept[p] \ wiped[p] /\ d[g] = draft[p][g]
    BY <1>1, <1>3
  <2> QED BY <1>5, <2>1 DEF DraftsIInv, KeptIsStored, Told
<1>6. CASE Writes(p, d, from, f)
  <2>1. /\ Keeps(p, d[f]) /\ markOf[p] = mark
        /\ disk' = [Without(from) EXCEPT ![f] = [text |-> d[f].text, mark |-> markOf[p]]]
        /\ Holds(p, d, rest \cup {f})
        /\ Tell(p, Removals(from) \o <<f>>)
        /\ latest' = [g \in Files |-> IF g = f THEN d[f].text
                                      ELSE IF g \in from THEN None ELSE latest[g]]
        /\ disabled' = disabled
    BY <1>1, <1>6 DEF Writes, SignedIn
  <2>2. rest \cup {f} \in SUBSET DirtyIn(d)
    BY <1>3, <2>1 DEF Keeps, DirtyIn
  <2>3. /\ HoldingOK'
        /\ draft'[p] = d /\ kept'[p] = rest \cup {f}
        /\ \A q \in Pages \ {p} : draft'[q] = draft[q] /\ kept'[q] = kept[q]
    BY <1>1, <2>1, <2>2, HoldsKeeps
  <2>4. \A g \in Files : disk'[g] = IF g = f THEN [text |-> d[f].text, mark |-> mark]
                                    ELSE IF g \in from THEN NoRecord ELSE disk[g]
    BY <2>1 DEF Without
  <2>5. DiskOK'
    <3>1. disk' \in [Files -> DiskRecords]
      BY <1>1, <1>4, <2>1, DiskIsOK, DraftsAssumption
      DEF DiskOK, DiskRecords, Without, NoRecord
    <3>2. latest' \in [Files -> Texts \cup {None, Hidden}]
      BY <1>1, <1>4, <2>1
    <3>3. NoOldText'
      BY <2>1, <2>4 DEF DraftsIInv, NoOldText, NoRecord
    <3>4. NothingBack'
      BY <1>1, <2>4 DEF DraftsIInv, NothingBack
    <3>5. SecretNotStored'
      <4>1. f \notin Secret /\ d[f].text # Hidden
        BY <2>1 DEF Keeps, OpenDrafts
      <4> QED BY <2>4, <4>1 DEF DraftsIInv, SecretNotStored
    <3>6. StoredHasText'
      BY <2>1, <2>4 DEF DraftsIInv, StoredHasText, Keeps, IsDirty
    <3> QED BY <3>1, <3>2, <3>3, <3>4, <3>5, <3>6 DEF DiskOK
  <2>6. /\ OthersTold(p) /\ EventsTyped'
        /\ \A q \in Pages \ (opened \ {p}) : coming'[q] = coming[q]
        /\ \A q \in opened \ {p}, g \in Files : Told(q, g) => Told(q, g)'
    <3> DEFINE more == <<f>>
    <3>1. /\ more \in Seq(Files \cup {None}) /\ \E i \in 1..Len(more) : more[i] = f
          /\ Tell(p, Removals(from) \o more)
      BY <2>1
    <3> HIDE DEF more
    <3>2. \A g \in Files : \/ disk'[g] = disk[g]
                           \/ g \in from /\ disk'[g] = NoRecord
                           \/ \E i \in 1..Len(more) : more[i] = g
      BY <2>4, <3>1
    <3> QED BY <1>1, <3>1, <3>2, RemovingTells
  <2>7. \A g \in kept'[p] \ wiped'[p] : disk'[g].text = draft'[p][g].text \/ Told(p, g)'
    BY <1>1, <1>3, <1>5, <2>3, <2>4, <2>6
  <2> HIDE DEF rest
  <2> QED BY <1>1, <1>2, <2>1, <2>3, <2>5, <2>6, <2>7, Together
<1>7. CASE Drops(p, d, from, f) \/ Refuses(p, d, from, f)
  <2>1. PICK gone \in {from, from \cup {f}} :
           /\ disk' = Without(gone)
           /\ Holds(p, d, rest)
           /\ Tell(p, Removals(gone))
           /\ latest' \in [Files -> Texts \cup {None, Hidden}]
           /\ \A g \in Files \ gone : latest'[g] = latest[g]
           /\ disabled' = disabled
    <3>1. CASE Drops(p, d, from, f)
      BY <1>1, <1>4, <3>1 DEF Drops
    <3>2. CASE Refuses(p, d, from, f)
      BY <1>1, <3>2 DEF Refuses
    <3> QED BY <1>7, <3>1, <3>2
  <2>2. gone \in SUBSET Files /\ gone \cap rest = {}
    BY <2>1
  <2>3. /\ HoldingOK'
        /\ draft'[p] = d /\ kept'[p] = rest
        /\ \A q \in Pages \ {p} : draft'[q] = draft[q] /\ kept'[q] = kept[q]
    BY <1>1, <1>3, <2>1, HoldsKeeps
  <2>4. \A g \in Files : disk'[g] = IF g \in gone THEN NoRecord ELSE disk[g]
    BY <2>1 DEF Without
  <2>5. DiskOK'
    BY <1>1, <2>1, <2>2, RemovingKeepsDisk
  <2>6. /\ OthersTold(p) /\ EventsTyped'
        /\ \A q \in Pages \ (opened \ {p}) : coming'[q] = coming[q]
        /\ \A q \in opened \ {p}, g \in Files : Told(q, g) => Told(q, g)'
    <3>1. Removals(gone) \o <<>> = Removals(gone) /\ <<>> \in Seq(Files \cup {None})
      BY <2>2, RemovalsTold
    <3>2. Tell(p, Removals(gone) \o <<>>)
      BY <2>1, <3>1
    <3>3. \A g \in Files : disk'[g] = disk[g] \/ (g \in gone /\ disk'[g] = NoRecord)
      BY <2>4
    <3> QED BY <1>1, <2>2, <3>1, <3>2, <3>3, RemovingTells
  <2>7. \A g \in kept'[p] \ wiped'[p] : disk'[g].text = draft'[p][g].text \/ Told(p, g)'
    BY <1>1, <1>3, <1>5, <2>2, <2>3, <2>4, <2>6
  <2> HIDE DEF rest
  <2> QED BY <1>1, <1>2, <2>1, <2>3, <2>5, <2>6, <2>7, Together
<1>8. CASE FindsOut(p, d, from, f)
  <2> DEFINE none == [g \in Files |-> NoDraft]
  <2>1. /\ disk' = Without(Files) /\ disabled' = disabled \cup {p}
        /\ Holds(p, none, {}) /\ Tell(p, Removals(Files)) /\ latest' = latest
    BY <1>8 DEF FindsOut, Forget
  <2>2. none \in OpenDrafts
    BY DEF OpenDrafts, DraftRecords, NoDraft, IsDirty
  <2>3. /\ HoldingOK'
        /\ draft'[p] = none /\ kept'[p] = {}
        /\ \A q \in Pages \ {p} : draft'[q] = draft[q] /\ kept'[q] = kept[q]
    BY <1>1, <2>1, <2>2, HoldsKeeps
  <2>4. DiskOK'
    BY <1>1, <2>1, RemovingKeepsDisk
  <2>5. \A g \in Files : disk'[g] = NoRecord
    BY <2>1 DEF Without
  <2>6. /\ OthersTold(p) /\ EventsTyped'
        /\ \A q \in Pages \ (opened \ {p}) : coming'[q] = coming[q]
        /\ \A q \in opened \ {p}, g \in Files : Told(q, g) => Told(q, g)'
    <3>1. Removals(Files) \o <<>> = Removals(Files) /\ <<>> \in Seq(Files \cup {None})
      BY RemovalsTold
    <3>2. Tell(p, Removals(Files) \o <<>>)
      BY <2>1, <3>1
    <3> QED BY <1>1, <2>5, <3>1, <3>2, RemovingTells
  <2> HIDE DEF none
  <2> QED BY <1>1, <1>2, <2>1, <2>3, <2>4, <2>6, Together
<1> QED BY <1>6, <1>7, <1>8 DEF KeepDraft

\* A page opens.
LEMMA OpenKeeps ==
    ASSUME DraftsIInv, NEW p \in Pages, OpenPage(p)
    PROVE  DraftsIInv'
<1>1. /\ p \notin opened /\ opened' = opened \cup {p}
      /\ markOf' = [markOf EXCEPT ![p] = mark]
      /\ UNCHANGED <<draft, kept, asks, may, hydrated, disabled, disk, mark,
                     coming, latest, wiped>>
  BY DEF OpenPage
<1>2. DraftsTypeOK'
  <2>1. markOf' \in [Pages -> 0..MaxOuts]
    BY <1>1 DEF DraftsIInv, DraftsTypeOK
  <2>2. \A q \in Pages : Dirty(q)' = Dirty(q)
    BY <1>1 DEF Dirty
  <2>3. opened' \subseteq Pages /\ asks' \cup hydrated' \cup disabled' \subseteq opened'
    BY <1>1 DEF DraftsIInv, DraftsTypeOK
  <2>4. \A q \in opened' : /\ kept'[q] \subseteq Dirty(q)'
                           /\ q \in asks' <=> ~(Dirty(q)' \subseteq kept'[q])
    BY <1>1, <2>2 DEF DraftsIInv, DraftsTypeOK
  <2>5. \A q \in Pages \ opened' : Dirty(q)' = {} /\ kept'[q] = {} /\ coming'[q] = <<>>
    BY <1>1, <2>2 DEF DraftsIInv, DraftsTypeOK
  <2> QED BY <1>1, <2>1, <2>3, <2>4, <2>5 DEF DraftsIInv, DraftsTypeOK
<1>3. KeptIsStored'
  <2> SUFFICES ASSUME NEW q \in opened', NEW f \in kept[q] \ wiped[q]
               PROVE  disk[f].text = draft[q][f].text \/ Told(q, f)
    BY <1>1 DEF KeptIsStored, Told
  <2>1. q \in opened
    BY <1>1 DEF DraftsIInv, DraftsTypeOK
  <2> QED BY <2>1 DEF DraftsIInv, KeptIsStored
<1>4. /\ latest' \in [Files -> Texts \cup {None, Hidden}]
      /\ EventsTyped' /\ StoredHasText' /\ NoOldText' /\ NothingBack'
      /\ SecretNotStored' /\ DraftsOpenly'
  BY <1>1 DEF DraftsIInv, EventsTyped, StoredHasText, NoOldText, NothingBack,
              SecretNotStored, DraftsOpenly
<1> QED BY <1>2, <1>3, <1>4 DEF DraftsIInv

\* It is left.
LEMMA LeaveKeeps ==
    ASSUME DraftsIInv, NEW p \in Pages, LeavePage(p)
    PROVE  DraftsIInv'
<1>1. /\ p \in opened /\ opened' = opened \ {p}
      /\ draft' = [draft EXCEPT ![p] = [f \in Files |-> NoDraft]]
      /\ kept' = [kept EXCEPT ![p] = {}]
      /\ asks' = asks \ {p}
      /\ hydrated' = hydrated \ {p} /\ disabled' = disabled \ {p}
      /\ markOf' = [markOf EXCEPT ![p] = 0]
      /\ coming' = [coming EXCEPT ![p] = <<>>]
      /\ wiped' = [wiped EXCEPT ![p] = {}]
      /\ may' = may \cup {p}
      /\ UNCHANGED <<disk, mark, latest>>
  BY DEF LeavePage
<1>2. /\ \A f \in Files : draft'[p][f] = NoDraft
      /\ kept'[p] = {} /\ coming'[p] = <<>>
      /\ \A q \in Pages \ {p} : /\ draft'[q] = draft[q] /\ kept'[q] = kept[q]
                                /\ coming'[q] = coming[q] /\ wiped'[q] = wiped[q]
  BY <1>1 DEF DraftsIInv, DraftsTypeOK, EventsTyped
<1>3. DraftsTypeOK'
  <2>1. /\ draft' \in [Pages -> [Files -> DraftRecords]]
        /\ kept' \in [Pages -> SUBSET Files] /\ wiped' \in [Pages -> SUBSET Files]
        /\ markOf' \in [Pages -> 0..MaxOuts]
    BY <1>1, DraftsAssumption
    DEF DraftsIInv, DraftsTypeOK, DraftRecords, NoDraft
  <2>2. Dirty(p)' = {} /\ \A q \in Pages \ {p} : Dirty(q)' = Dirty(q)
    BY <1>2 DEF Dirty, IsDirty, NoDraft
  <2>3. /\ opened' \subseteq Pages /\ may' \subseteq Pages
        /\ asks' \cup hydrated' \cup disabled' \subseteq opened'
    BY <1>1 DEF DraftsIInv, DraftsTypeOK
  <2>4. \A q \in opened' : /\ kept'[q] \subseteq Dirty(q)'
                           /\ q \in asks' <=> ~(Dirty(q)' \subseteq kept'[q])
    BY <1>1, <1>2, <2>2 DEF DraftsIInv, DraftsTypeOK
  <2>5. \A q \in Pages \ opened' : Dirty(q)' = {} /\ kept'[q] = {} /\ coming'[q] = <<>>
    BY <1>1, <1>2, <2>2 DEF DraftsIInv, DraftsTypeOK
  <2> QED BY <1>1, <2>1, <2>3, <2>4, <2>5 DEF DraftsIInv, DraftsTypeOK, DraftRecords
<1>4. KeptIsStored'
  <2> SUFFICES ASSUME NEW q \in opened', NEW f \in kept'[q] \ wiped'[q]
               PROVE  disk'[f].text = draft'[q][f].text \/ Told(q, f)'
    BY DEF KeptIsStored
  <2>1. q \in opened /\ q \in Pages \ {p}
    BY <1>1 DEF DraftsIInv, DraftsTypeOK
  <2>2. f \in kept[q] \ wiped[q] /\ coming'[q] = coming[q]
    BY <1>2, <2>1
  <2>3. disk[f].text = draft[q][f].text \/ Told(q, f)
    BY <2>1, <2>2 DEF DraftsIInv, KeptIsStored
  <2> QED BY <1>1, <1>2, <2>1, <2>2, <2>3 DEF Told
<1>5. DraftsOpenly'
  BY <1>2 DEF DraftsIInv, DraftsOpenly, IsDirty, NoDraft
<1>6. /\ latest' \in [Files -> Texts \cup {None, Hidden}]
      /\ EventsTyped' /\ StoredHasText' /\ NoOldText' /\ NothingBack' /\ SecretNotStored'
  BY <1>1 DEF DraftsIInv, EventsTyped, StoredHasText, NoOldText, NothingBack, SecretNotStored
<1> QED BY <1>3, <1>4, <1>5, <1>6 DEF DraftsIInv

\* p keeps the draft of f among d; those of from are moved away, and the others
\* are as they were.
Redraws(p, d, from, f) ==
    /\ p \in opened /\ f \notin from /\ KeepDraft(p, d, from, f)
    /\ \A g \in Files \ (from \cup {f}) : d[g] = draft[p][g]

\* The editor sets a draft, or a rename moves one.
LEMMA EditIs ==
    ASSUME DraftsIInv, NEW p \in Pages, NEW f \in Files,
           \/ SettleFile(p, f)
           \/ \E t \in Texts \cup {Hidden} : EditFile(p, f, t)
           \/ \E g \in Files : MoveDrafts(p, f, g)
    PROVE  \E d \in OpenDrafts, from \in SUBSET Files, g \in Files : Redraws(p, d, from, g)
<1>1. draft[p] \in OpenDrafts
  BY DraftsAreOpen
<1>2. ASSUME NEW next \in DraftRecords, SetDraft(p, f, next),
             IsDirty(next) /\ ~next.reveal => f \notin Secret /\ next.text # Hidden
      PROVE  \E d \in OpenDrafts, from \in SUBSET Files, g \in Files : Redraws(p, d, from, g)
  <2> DEFINE d == [draft[p] EXCEPT ![f] = next]
  <2>1. d \in OpenDrafts
    BY <1>1, <1>2 DEF OpenDrafts
  <2>2. \A g \in Files \ ({} \cup {f}) : d[g] = draft[p][g]
    BY <1>1 DEF OpenDrafts
  <2>3. p \in opened /\ KeepDraft(p, d, {}, f)
    BY <1>2 DEF SetDraft
  <2> HIDE DEF d
  <2>4. Redraws(p, d, {}, f)
    BY <2>2, <2>3 DEF Redraws
  <2> QED BY <2>1, <2>4
<1>3. CASE SettleFile(p, f)
  <2>1. NoDraft \in DraftRecords /\ ~IsDirty(NoDraft)
    BY DEF NoDraft, DraftRecords, IsDirty
  <2> QED BY <1>2, <1>3, <2>1 DEF SettleFile
<1>4. ASSUME NEW t \in Texts \cup {Hidden}, EditFile(p, f, t)
      PROVE  \E d \in OpenDrafts, from \in SUBSET Files, g \in Files : Redraws(p, d, from, g)
  <2> DEFINE reveal == draft[p][f].reveal \/ f \in Secret
             next == [text |-> t, reveal |-> reveal]
  <2>1. SetDraft(p, f, next) /\ t \in IF reveal THEN {Hidden} ELSE Texts
    BY <1>4 DEF EditFile
  <2>2. next \in DraftRecords
    BY DEF DraftRecords
  <2>3. ~next.reveal => f \notin Secret /\ next.text # Hidden
    BY <2>1, DraftsAssumption
  <2> HIDE DEF next
  <2> QED BY <1>2, <2>1, <2>2, <2>3
<1>5. ASSUME NEW g \in Files, MoveDrafts(p, f, g)
      PROVE  \E d \in OpenDrafts, from \in SUBSET Files, h \in Files : Redraws(p, d, from, h)
  <2> DEFINE next == [draft[p][f] EXCEPT !.reveal = RevealAfter(draft[p][f], g)]
             d == [draft[p] EXCEPT ![f] = NoDraft, ![g] = next]
  <2>1. p \in opened /\ f # g /\ KeepDraft(p, d, {f}, g)
    BY <1>5 DEF MoveDrafts
  <2>2. /\ next \in DraftRecords
        /\ IsDirty(next) /\ ~next.reveal => g \notin Secret /\ next.text # Hidden
    <3>1. /\ draft[p][f] \in DraftRecords
          /\ IsDirty(draft[p][f]) /\ ~draft[p][f].reveal => draft[p][f].text # Hidden
      BY <1>1 DEF OpenDrafts
    <3>2. next.text = draft[p][f].text /\ next.reveal = (draft[p][f].reveal \/ g \in Secret)
      BY <3>1 DEF RevealAfter, DraftRecords
    <3>3. next \in DraftRecords
      BY <3>1 DEF RevealAfter, DraftRecords
    <3> QED BY <3>1, <3>2, <3>3 DEF IsDirty
  <2> HIDE DEF next
  <2>3. NoDraft \in DraftRecords /\ ~IsDirty(NoDraft)
    BY DEF NoDraft, DraftRecords, IsDirty
  <2>4. d \in OpenDrafts
    BY <1>1, <2>1, <2>2, <2>3 DEF OpenDrafts
  <2>5. \A h \in Files \ ({f} \cup {g}) : d[h] = draft[p][h]
    BY <1>1 DEF OpenDrafts
  <2> HIDE DEF d
  <2>6. Redraws(p, d, {f}, g)
    BY <2>1, <2>5 DEF Redraws
  <2> QED BY <2>4, <2>6
<1> QED BY <1>3, <1>4, <1>5

(* Both keep the invariant. *)
LEMMA EditKeeps ==
    ASSUME DraftsIInv, NEW p \in Pages, NEW f \in Files,
           \/ SettleFile(p, f)
           \/ \E t \in Texts \cup {Hidden} : EditFile(p, f, t)
           \/ \E g \in Files : MoveDrafts(p, f, g)
    PROVE  DraftsIInv'
<1>1. PICK d \in OpenDrafts, from \in SUBSET Files, g \in Files : Redraws(p, d, from, g)
  BY EditIs
<1>2. /\ p \in opened /\ g \in Files \ from /\ KeepDraft(p, d, from, g)
      /\ \A h \in Files \ (from \cup {g}) : d[h] = draft[p][h]
  BY <1>1 DEF Redraws
<1> QED BY <1>2, KeepDraftKeeps

\* A snapshot makes the page keep drafts, and reads back what is stored.
LEMMA HydrateKeeps ==
    ASSUME DraftsIInv, NEW p \in Pages, HydrateFull(p)
    PROVE  DraftsIInv'
<1> DEFINE back == IF p \in hydrated \cup disabled THEN {}
                   ELSE {f \in Stored : draft[p][f] = NoDraft}
           d == [f \in Files |-> IF f \in back THEN [text |-> disk[f].text, reveal |-> FALSE]
                                 ELSE draft[p][f]]
<1>1. /\ p \in opened /\ may' = may \cup {p} /\ hydrated' = hydrated \cup {p}
      /\ UNCHANGED <<opened, disabled, markOf, disk, mark, coming, latest, wiped>>
      /\ IF back = {} THEN UNCHANGED <<draft, kept, asks>> ELSE Holds(p, d, kept[p] \cup back)
  BY DEF HydrateFull
<1>2. back \subseteq Stored
  OBVIOUS
<1>3. d \in OpenDrafts
  <2>1. draft[p] \in OpenDrafts
    BY DraftsAreOpen
  <2>2. \A f \in back : f \in Files /\ f \notin Secret /\ disk[f].text # Hidden
                        /\ disk[f].text \in Texts \cup {None, Hidden}
    BY <1>2 DEF Stored, DraftsIInv, SecretNotStored, DraftsTypeOK
  <2> HIDE DEF back
  <2> QED BY <2>1, <2>2 DEF OpenDrafts, DraftRecords
<1>4. kept[p] \cup back \in SUBSET DirtyIn(d)
  <2>1. \A f \in back : f \in Files /\ disk[f].text # None
    BY <1>2 DEF Stored, DraftsIInv, StoredHasText
  <2>2. \A f \in kept[p] : f \in Files /\ IsDirty(draft[p][f])
    BY <1>1 DEF DraftsIInv, DraftsTypeOK, Dirty
  <2> HIDE DEF back
  <2> QED BY <2>1, <2>2 DEF DirtyIn, IsDirty
<1>5. /\ HoldingOK'
      /\ \A q \in Pages \ {p} : draft'[q] = draft[q] /\ kept'[q] = kept[q]
      /\ \A f \in kept'[p] : \/ f \in back /\ draft'[p][f].text = disk[f].text
                             \/ f \in kept[p] /\ draft'[p][f] = draft[p][f]
  <2>1. CASE back = {}
    <3>1. UNCHANGED <<draft, kept, asks, opened>>
      BY <1>1, <2>1
    <3> HIDE DEF back, d
    <3>2. \A q \in Pages : Dirty(q)' = Dirty(q)
      BY <3>1 DEF Dirty
    <3> QED BY <3>1, <3>2 DEF HoldingOK, DraftsIInv, DraftsTypeOK, DraftRecords, DraftsOpenly
  <2>2. CASE back # {}
    <3>1. Holds(p, d, kept[p] \cup back)
      BY <1>1, <2>2
    <3>2. \A f \in Files : d[f].text = disk[f].text \/ (f \notin back /\ d[f] = draft[p][f])
      OBVIOUS
    <3>3. \A f \in Files \ back : d[f] = draft[p][f]
      OBVIOUS
    <3>4. \A f \in back : d[f].text = disk[f].text
      BY DEF Stored
    <3>5. kept[p] \cup back \subseteq Files
      BY <1>4 DEF DirtyIn
    <3> HIDE DEF back, d
    <3> QED BY <1>1, <1>3, <1>4, <3>1, <3>3, <3>4, <3>5, HoldsKeeps
  <2> QED BY <2>1, <2>2
<1>6. \A f \in kept'[p] \ wiped'[p] :
          disk'[f].text = draft'[p][f].text \/ Told(p, f)'
  BY <1>1, <1>5 DEF DraftsIInv, KeptIsStored, Told
<1> HIDE DEF back, d
<1>7. OthersTold(p) /\ \A q \in opened \ {p}, f \in Files : Told(q, f) => Told(q, f)'
  BY <1>1 DEF OthersTold, Told
<1>8. DiskOK' /\ EventsTyped'
  BY <1>1, DiskIsOK
  DEF DiskOK, DraftsIInv, EventsTyped, NoOldText, NothingBack, SecretNotStored, StoredHasText
<1> QED BY <1>1, <1>5, <1>6, <1>7, <1>8, Together DEF DraftsIInv, DraftsTypeOK

\* A snapshot makes the page view-only: what is stored is removed.
LEMMA ViewKeeps ==
    ASSUME DraftsIInv, NEW p \in Pages, HydrateView(p)
    PROVE  DraftsIInv'
<1>1. /\ p \in opened /\ may' = may \ {p}
      /\ disk' = Without(Files) /\ Tell(p, Removals(Files))
      /\ wiped' = [wiped EXCEPT ![p] = @ \cup kept[p]]
      /\ UNCHANGED <<opened, draft, kept, asks, hydrated, disabled, markOf, mark, latest>>
  BY DEF HydrateView
<1>2. /\ wiped' \in [Pages -> SUBSET Files] /\ kept[p] \subseteq wiped'[p]
      /\ \A q \in Pages \ {p} : wiped'[q] = wiped[q]
  BY <1>1 DEF DraftsIInv, DraftsTypeOK
<1>3. HoldingOK'
  <2>1. \A q \in Pages : Dirty(q)' = Dirty(q)
    BY <1>1 DEF Dirty
  <2> QED BY <1>1, <2>1 DEF HoldingOK, DraftsIInv, DraftsTypeOK, DraftRecords, DraftsOpenly
<1>4. DiskOK' /\ \A f \in Files : disk'[f] = NoRecord
  BY <1>1, RemovingKeepsDisk DEF DraftsIInv, Without
<1>5. /\ OthersTold(p) /\ EventsTyped'
      /\ \A q \in Pages \ (opened \ {p}) : coming'[q] = coming[q]
      /\ \A q \in opened \ {p}, f \in Files : Told(q, f) => Told(q, f)'
  <2>1. Removals(Files) \o <<>> = Removals(Files) /\ <<>> \in Seq(Files \cup {None})
    BY RemovalsTold
  <2>2. Tell(p, Removals(Files) \o <<>>)
    BY <1>1, <2>1
  <2> QED BY <1>1, <1>4, <2>1, <2>2, RemovingTells
<1>6. \A f \in kept'[p] \ wiped'[p] : disk'[f].text = draft'[p][f].text \/ Told(p, f)'
  BY <1>1, <1>2
<1> QED BY <1>1, <1>2, <1>3, <1>4, <1>5, <1>6, Together DEF DraftsIInv, DraftsTypeOK

\* A page signs out: the mark is new, and nothing is stored.
LEMMA SignOutKeeps ==
    ASSUME DraftsIInv, NEW p \in Pages, SignOut(p)
    PROVE  DraftsIInv'
<1>1. /\ p \in opened /\ mark < MaxOuts /\ mark' = mark + 1
      /\ disabled' = disabled \cup {p}
      /\ disk' = Without(Files) /\ Holds(p, draft[p], {})
      /\ Tell(p, Removals(Files) \o <<None>>)
      /\ UNCHANGED <<opened, may, hydrated, markOf, latest, wiped>>
  BY DEF SignOut
<1>2. /\ HoldingOK' /\ kept'[p] = {}
      /\ \A q \in Pages \ {p} : draft'[q] = draft[q] /\ kept'[q] = kept[q]
  BY <1>1, DraftsAreOpen, HoldsKeeps
<1>3. DiskOK' /\ \A f \in Files : disk'[f] = NoRecord
  BY <1>1, RemovingKeepsDisk DEF DraftsIInv, Without
<1>4. mark' \in 0..MaxOuts
  BY <1>1, DraftsAssumption DEF DraftsIInv, DraftsTypeOK
<1>5. /\ OthersTold(p) /\ EventsTyped'
      /\ \A q \in Pages \ (opened \ {p}) : coming'[q] = coming[q]
      /\ \A q \in opened \ {p}, f \in Files : Told(q, f) => Told(q, f)'
  <2> DEFINE more == <<None>>
  <2>1. more \in Seq(Files \cup {None}) /\ Tell(p, Removals(Files) \o more)
    BY <1>1
  <2> HIDE DEF more
  <2> QED BY <1>1, <1>3, <2>1, RemovingTells
<1> QED BY <1>1, <1>2, <1>3, <1>4, <1>5, Together DEF DraftsIInv, DraftsTypeOK

\* A storage event reaches a page.
LEMMA EventKeeps ==
    ASSUME DraftsIInv, NEW p \in Pages, StorageEvent(p)
    PROVE  DraftsIInv'
<1> DEFINE e == Head(coming[p])
           after == IF e = None THEN Removals(Files) ELSE <<>>
<1>1. /\ coming[p] # <<>>
      /\ coming' = [q \in Pages |->
                      IF q \in opened \ {p} THEN [coming EXCEPT ![p] = Tail(@)][q] \o after
                      ELSE [coming EXCEPT ![p] = Tail(@)][q]]
      /\ IF e = None THEN Forget(p)
         ELSE Holds(p, draft[p], UnkeepDraft(p, e)) /\ UNCHANGED <<disk, disabled>>
      /\ UNCHANGED <<opened, may, hydrated, markOf, mark, latest, wiped>>
  BY DEF StorageEvent
<1>2. /\ p \in opened
      /\ coming \in [Pages -> Seq(Files \cup {None})]
      /\ opened \subseteq Pages
  BY <1>1 DEF DraftsIInv, DraftsTypeOK, EventsTyped
<1>3. e \in Files \cup {None} /\ Tail(coming[p]) \in Seq(Files \cup {None})
  BY <1>1, <1>2
<1>4. after \in Seq(Files) /\ after \in Seq(Files \cup {None})
  <2>1. Removals(Files) \in Seq(Files)
    BY RemovalsTold
  <2>2. after \in Seq(Files)
    BY <2>1
  <2> QED BY <2>2
<1>5. /\ \A q \in opened \ {p} : coming'[q] = coming[q] \o after
      /\ coming'[p] = Tail(coming[p])
      /\ \A q \in Pages \ opened : coming'[q] = coming[q]
  BY <1>1, <1>2
<1>6. EventsTyped'
  <2>1. \A q \in Pages : coming'[q] \in Seq(Files \cup {None})
    <3> SUFFICES ASSUME NEW q \in Pages PROVE coming'[q] \in Seq(Files \cup {None})
      OBVIOUS
    <3> HIDE DEF after
    <3>1. CASE q \in opened \ {p}
      <4>1. coming[q] \in Seq(Files \cup {None}) /\ coming'[q] = coming[q] \o after
        BY <1>2, <1>5, <3>1
      <4>2. after \in Seq(Files \cup {None})
        BY <1>4
      <4> QED BY <4>1, <4>2
    <3>2. CASE q \notin opened \ {p}
      BY <1>2, <1>3, <1>5, <3>2
    <3> QED BY <3>1, <3>2
  <2> QED BY <1>1, <2>1 DEF EventsTyped
<1>7. CASE e = None
  <2> DEFINE none == [g \in Files |-> NoDraft]
  <2>1. /\ disk' = Without(Files) /\ disabled' = disabled \cup {p} /\ Holds(p, none, {})
    BY <1>1, <1>7 DEF Forget
  <2>2. none \in OpenDrafts
    BY DEF OpenDrafts, DraftRecords, NoDraft, IsDirty
  <2>3. /\ HoldingOK' /\ kept'[p] = {}
        /\ \A q \in Pages \ {p} : draft'[q] = draft[q] /\ kept'[q] = kept[q]
    BY <1>1, <1>2, <2>1, <2>2, HoldsKeeps
  <2>4. DiskOK' /\ \A g \in Files : disk'[g] = NoRecord
    BY <1>1, <2>1, RemovingKeepsDisk DEF DraftsIInv, Without
  <2>5. SentTo(p, Removals(Files) \o <<>>) /\ <<>> \in Seq(Files \cup {None})
    <3>1. after = Removals(Files)
      BY <1>7
    <3>2. Removals(Files) \o <<>> = after
      BY <3>1, RemovalsTold
    <3> HIDE DEF after, e
    <3>3. \A q \in opened \ {p} : coming'[q] = coming[q] \o (Removals(Files) \o <<>>)
      BY <1>5, <3>2
    <3> QED BY <3>3 DEF SentTo
  <2>6. OthersTold(p) /\ \A q \in opened \ {p}, f \in Files : Told(q, f) => Told(q, f)'
    BY <2>4, <2>5, RemovingSends
  <2> HIDE DEF none, e, after
  <2>7. /\ markOf' = markOf /\ mark' \in 0..MaxOuts /\ may' \subseteq Pages
        /\ hydrated' \cup disabled' \subseteq opened
        /\ wiped' \in [Pages -> SUBSET Files] /\ wiped' = wiped
    BY <1>1, <2>1 DEF DraftsIInv, DraftsTypeOK
  <2>8. \A f \in kept'[p] \ wiped'[p] :
            disk'[f].text = draft'[p][f].text \/ Told(p, f)'
    BY <2>3
  <2> QED BY <1>1, <1>2, <1>5, <1>6, <2>3, <2>4, <2>6, <2>7, <2>8, Together
<1>8. CASE e # None
  <2>1. Holds(p, draft[p], kept[p] \ {e}) /\ UNCHANGED <<disk, disabled>>
    BY <1>1, <1>8 DEF UnkeepDraft
  <2>2. kept[p] \ {e} \in SUBSET DirtyIn(draft[p])
    BY <1>2 DEF DraftsIInv, DraftsTypeOK, Dirty, DirtyIn
  <2>3. /\ HoldingOK' /\ draft'[p] = draft[p] /\ kept'[p] = kept[p] \ {e}
        /\ \A q \in Pages \ {p} : draft'[q] = draft[q] /\ kept'[q] = kept[q]
    BY <1>1, <1>2, <2>1, <2>2, DraftsAreOpen, HoldsKeeps
  <2>4. DiskOK'
    BY <1>1, <2>1, DiskIsOK
    DEF DiskOK, NoOldText, NothingBack, SecretNotStored, StoredHasText
  <2>5. \A q \in opened \ {p}, f \in Files : Told(q, f) => Told(q, f)'
    <3>1. SentTo(p, after)
      BY <1>5 DEF SentTo
    <3> HIDE DEF after
    <3> QED BY <1>4, <3>1, SendKeeps
  <2>6. OthersTold(p)
    BY <2>1 DEF OthersTold
  <2>7. \A f \in kept'[p] \ wiped'[p] : disk'[f].text = draft'[p][f].text \/ Told(p, f)'
    <3> SUFFICES ASSUME NEW f \in kept[p] \ wiped[p], f # e
                 PROVE  disk[f].text = draft[p][f].text \/ Told(p, f)'
      BY <1>1, <2>1, <2>3
    <3>1. CASE Told(p, f)
      <4>1. PICK i \in 1..Len(coming[p]) : coming[p][i] = f
        BY <3>1 DEF Told
      <4>2. i - 1 \in 1..Len(Tail(coming[p])) /\ Tail(coming[p])[i - 1] = f
        BY <1>1, <1>2, <4>1
      <4> HIDE DEF e
      <4> QED BY <1>5, <4>2 DEF Told
    <3> QED BY <1>2, <3>1 DEF DraftsIInv, KeptIsStored
  <2> HIDE DEF e, after
  <2> QED BY <1>1, <1>2, <1>5, <1>6, <2>1, <2>3, <2>4, <2>5, <2>6, <2>7, Together
          DEF DraftsIInv, DraftsTypeOK
<1> HIDE DEF e
<1> QED BY <1>7, <1>8

(* No step of a page, of its storage or of an event leaves the invariant of
   the drafts. *)
LEMMA DraftsNextIInv == DraftsIInv /\ [DraftsNext]_draftsVars => DraftsIInv'
<1> SUFFICES ASSUME DraftsIInv, [DraftsNext]_draftsVars
             PROVE  DraftsIInv'
  OBVIOUS
<1>1. ASSUME NEW p \in Pages, OpenPage(p) \/ LeavePage(p)
      PROVE  DraftsIInv'
  BY <1>1, OpenKeeps, LeaveKeeps
<1>2. ASSUME NEW p \in Pages, HydrateFull(p) \/ HydrateView(p) \/ SignOut(p) \/ StorageEvent(p)
      PROVE  DraftsIInv'
  BY <1>2, HydrateKeeps, ViewKeeps, SignOutKeeps, EventKeeps
<1>3. ASSUME NEW p \in Pages, NEW f \in Files,
             \/ SettleFile(p, f)
             \/ \E t \in Texts \cup {Hidden} : EditFile(p, f, t)
             \/ \E g \in Files : MoveDrafts(p, f, g)
      PROVE  DraftsIInv'
  BY <1>3, EditKeeps
<1>4. CASE UNCHANGED draftsVars
  <2>1. UNCHANGED <<opened, draft, kept, asks, may, hydrated, disabled, markOf,
                    disk, mark, coming, latest, wiped>>
    BY <1>4 DEF draftsVars
  <2>2. DraftsTypeOK'
    BY <2>1 DEF DraftsIInv, DraftsTypeOK, Dirty
  <2>3. KeptIsStored'
    BY <2>1 DEF DraftsIInv, KeptIsStored, Told
  <2> QED BY <2>1, <2>2, <2>3
          DEF DraftsIInv, EventsTyped, StoredHasText, NoOldText, NothingBack,
              SecretNotStored, DraftsOpenly
<1> QED BY <1>1, <1>2, <1>3, <1>4 DEF DraftsNext

(* The invariant of the drafts holds in every state the pages and their
   shared storage reach. *)
THEOREM DraftsInductive == DraftsSpec => []DraftsIInv
  BY DraftsInitIInv, DraftsNextIInv, PTL DEF DraftsSpec

-----------------------------------------------------------------------------
(* Drafts: the theorems.                                                   *)

\* Every variable keeps to what pages and the storage can hold; a page asks
\* exactly when a draft of it is not taken for stored.
THEOREM DraftsTypeCorrect == DraftsSpec => []DraftsTypeOK
<1>1. DraftsIInv => DraftsTypeOK
  BY DEF DraftsIInv
<1> QED BY <1>1, DraftsInductive, PTL

\* Leaving a page that does not ask loses no draft.
THEOREM LeavingIsSafe == DraftsSpec => []LeavingLosesNothing
<1>1. DraftsIInv => LeavingLosesNothing
  <2> SUFFICES ASSUME DraftsIInv, NEW p \in opened \ asks, NEW f \in Dirty(p) \ wiped[p]
               PROVE  disk[f].text = draft[p][f].text \/ Told(p, f)
    BY DEF LeavingLosesNothing
  <2>1. f \in kept[p]
    BY DEF DraftsIInv, DraftsTypeOK
  <2> QED BY <2>1 DEF DraftsIInv, KeptIsStored
<1> QED BY <1>1, DraftsInductive, PTL

\* No older text of a draft stays stored once it was changed.
THEOREM StoredIsLatest == DraftsSpec => []NoOldText
<1>1. DraftsIInv => NoOldText
  BY DEF DraftsIInv
<1> QED BY <1>1, DraftsInductive, PTL

\* Nothing of before a sign-out is stored after it.
THEOREM SignedOutForGood == DraftsSpec => []NothingBack
<1>1. DraftsIInv => NothingBack
  BY DEF DraftsIInv
<1> QED BY <1>1, DraftsInductive, PTL

\* No sensitive text is stored, nor a draft under a sensitive name.
THEOREM SecretsStayHere == DraftsSpec => []SecretNotStored
<1>1. DraftsIInv => SecretNotStored
  BY DEF DraftsIInv
<1> QED BY <1>1, DraftsInductive, PTL

\* The storage holds what it should: the latest texts, of this sign-in, of no
\* sensitive file.
THEOREM StorageIsRight == DraftsSpec => []StoredIsRight
BY StoredIsLatest, SignedOutForGood, SecretsStayHere, PTL DEF StoredIsRight

-----------------------------------------------------------------------------
(* Drafts: the promise of the storage.                                     *)

\* A page's mark is one it found, and none is ahead.
MarksFit == \A p \in Pages : markOf[p] <= mark

\* What the abstract store sees.
StoredTexts == [f \in Files |-> disk[f].text]
Writers == {p \in opened : markOf[p] = mark}

\* A step the promise allows.
StoreAllows == Store!Next \/ UNCHANGED <<StoredTexts, latest, opened, Writers>>

\* No page has a mark that is to come.
LEMMA MarksKept ==
    ASSUME DraftsIInv, MarksFit, [DraftsNext]_draftsVars
    PROVE  MarksFit'
<1>1. /\ markOf \in [Pages -> 0..MaxOuts] /\ mark \in 0..MaxOuts /\ MaxOuts \in Nat
      /\ \A q \in Pages : markOf[q] \in Nat /\ markOf[q] <= mark
  BY DraftsAssumption DEF DraftsIInv, DraftsTypeOK, MarksFit
<1>2. ASSUME NEW p \in Pages, OpenPage(p) PROVE MarksFit'
  BY <1>1, <1>2 DEF OpenPage, MarksFit
<1>3. ASSUME NEW p \in Pages, LeavePage(p) PROVE MarksFit'
  BY <1>1, <1>3 DEF LeavePage, MarksFit
<1>4. ASSUME NEW p \in Pages, SignOut(p) PROVE MarksFit'
  BY <1>1, <1>4 DEF SignOut, MarksFit
<1>5. ASSUME NEW p \in Pages, HydrateFull(p) \/ HydrateView(p) \/ StorageEvent(p)
      PROVE  MarksFit'
  <2>1. markOf' = markOf /\ mark' = mark
    BY <1>5 DEF HydrateFull, HydrateView, StorageEvent
  <2> QED BY <2>1 DEF MarksFit
<1>6. ASSUME NEW p \in Pages, NEW f \in Files,
             \/ SettleFile(p, f)
             \/ \E t \in Texts \cup {Hidden} : EditFile(p, f, t)
             \/ \E g \in Files : MoveDrafts(p, f, g)
      PROVE  MarksFit'
  <2>1. markOf' = markOf /\ mark' = mark
    BY <1>6 DEF SettleFile, EditFile, MoveDrafts, SetDraft, KeepDraft
  <2> QED BY <2>1 DEF MarksFit
<1>7. CASE UNCHANGED draftsVars
  BY <1>7 DEF draftsVars, MarksFit
<1> QED BY <1>2, <1>3, <1>4, <1>5, <1>6, <1>7 DEF DraftsNext

\* A step in which page p makes drafts anew, those of fs, and storage takes the
\* ones of keeps and holds nothing of the others.
Makes(p, fs, made, keeps) ==
    /\ fs \in SUBSET Files /\ keeps \in SUBSET fs
    /\ made \in [fs -> Texts \cup {Hidden, None}]
    /\ keeps # {} => markOf[p] = mark
    /\ \A g \in keeps : g \notin Secret /\ made[g] \in Texts
    /\ latest' \in [Files -> Texts \cup {Hidden, None}]
    /\ \A g \in Files : latest'[g] = IF g \in fs THEN made[g] ELSE latest[g]
    /\ \A g \in Files : disk'[g].text = IF g \in keeps THEN made[g]
                                        ELSE IF g \in fs THEN None ELSE disk[g].text
    /\ UNCHANGED <<opened, markOf, mark>>

\* Such a step is the store's.
LEMMA MakeAllowed ==
    ASSUME DraftsIInv, NEW p \in opened, NEW fs, NEW made, NEW keeps,
           Makes(p, fs, made, keeps)
    PROVE  StoreAllows
<1>1. p \in Pages /\ fs \in SUBSET Files
  BY DEF DraftsIInv, DraftsTypeOK, Makes
<1>2. StoredTexts \in [Files -> Texts \cup {None}]
  <2>1. ASSUME NEW g \in Files PROVE disk[g].text \in Texts \cup {None}
    <3>1. disk[g].text \in Texts \cup {None, Hidden}
      BY DiskIsOK DEF DraftsIInv, DiskOK, DiskRecords
    <3>2. CASE disk[g] = NoRecord
      BY <3>2 DEF NoRecord
    <3>3. CASE disk[g] # NoRecord
      BY <3>1, <3>3 DEF DraftsIInv, SecretNotStored
    <3> QED BY <3>2, <3>3
  <2> QED BY <2>1 DEF StoredTexts
<1>3. /\ StoredTexts' = [g \in Files |-> IF g \in keeps THEN made[g]
                                         ELSE IF g \in fs THEN None ELSE StoredTexts[g]]
      /\ \A g \in keeps : g \notin Secret /\ made[g] \in Texts
      /\ keeps \in SUBSET fs
  BY DEF StoredTexts, Makes
<1>4. /\ StoredTexts' \in [Files -> Texts \cup {None}]
      /\ \A g \in Files \ fs : StoredTexts'[g] = StoredTexts[g]
      /\ \A g \in fs : StoredTexts'[g] # None =>
            StoredTexts'[g] = made[g] /\ g \in keeps /\ g \notin Secret
  BY <1>1, <1>2, <1>3
<1>5. /\ latest' \in [Files -> Texts \cup {Hidden, None}]
      /\ \A g \in Files \ fs : latest'[g] = latest[g]
      /\ \A g \in fs : latest'[g] = made[g]
      /\ opened' = opened /\ Writers' = Writers /\ (keeps # {} => p \in Writers)
  BY <1>1 DEF Writers, Makes
<1>6. Store!Make(p, fs)
  BY <1>1, <1>4, <1>5 DEF Store!Make, StoredTexts, Writers
<1> QED BY <1>1, <1>6 DEF StoreAllows, Store!Next

\* Nothing is stored any more, and the same pages write.
LEMMA ForgetAllowed ==
    ASSUME disk' = Without(Files), UNCHANGED <<opened, markOf, mark, latest>>
    PROVE  StoreAllows
<1>1. StoredTexts' = [f \in Files |-> None] /\ UNCHANGED <<Writers, latest, opened>>
  BY DEF StoredTexts, Writers, Without, NoRecord
<1>2. Store!ForgetAll
  BY <1>1 DEF Store!ForgetAll, StoredTexts, Writers
<1> QED BY <1>2 DEF StoreAllows, Store!Next

\* keepDraft: whatever becomes of the write.
LEMMA KeepDraftAllowed ==
    ASSUME DraftsIInv, NEW p \in opened, NEW d \in OpenDrafts,
           NEW from \in SUBSET Files, NEW f \in Files \ from,
           KeepDraft(p, d, from, f)
    PROVE  StoreAllows
<1> DEFINE both == from \cup {f}
           made == [g \in both |-> IF g = f THEN d[f].text ELSE None]
           gone == [g \in from |-> None]
<1>1. /\ opened' = opened /\ markOf' = markOf /\ mark' = mark
      /\ latest \in [Files -> Texts \cup {Hidden, None}]
      /\ d[f].text \in Texts \cup {Hidden, None}
      /\ \A g \in Files : disk[g] \in DiskRecords
  BY DiskIsOK DEF DraftsIInv, KeepDraft, OpenDrafts, DraftRecords, DiskOK
<1>2. /\ both \in SUBSET Files /\ made \in [both -> Texts \cup {Hidden, None}]
      /\ made[f] = d[f].text /\ \A g \in from : made[g] = None
  BY <1>1
<1>3. gone \in [from -> Texts \cup {Hidden, None}] /\ \A g \in from : gone[g] = None
  OBVIOUS
<1>4. NoRecord.text = None
  BY DEF NoRecord
<1> HIDE DEF made, gone
<1>5. CASE Writes(p, d, from, f)
  <2>1. /\ f \notin Secret /\ d[f].text \in Texts /\ markOf[p] = mark
        /\ disk' = [Without(from) EXCEPT ![f] = [text |-> d[f].text, mark |-> markOf[p]]]
        /\ latest' = [g \in Files |-> IF g = f THEN d[f].text
                                      ELSE IF g \in from THEN None ELSE latest[g]]
    BY <1>1, <1>5 DEF Writes, SignedIn, Keeps, OpenDrafts, IsDirty
  <2>2. \A g \in Files : disk'[g] = IF g = f THEN [text |-> d[f].text, mark |-> markOf[p]]
                                    ELSE IF g \in from THEN NoRecord ELSE disk[g]
    BY <2>1 DEF Without
  <2>3. \A g \in Files : disk'[g].text = IF g \in {f} THEN made[g]
                                         ELSE IF g \in both THEN None ELSE disk[g].text
    BY <1>2, <1>4, <2>2
  <2>4. /\ latest' \in [Files -> Texts \cup {Hidden, None}]
        /\ \A g \in Files : latest'[g] = IF g \in both THEN made[g] ELSE latest[g]
    BY <1>1, <1>2, <2>1
  <2>5. {f} \in SUBSET both /\ \A g \in {f} : g \notin Secret /\ made[g] \in Texts
    BY <1>2, <2>1
  <2>6. Makes(p, both, made, {f})
    BY <1>1, <1>2, <2>1, <2>3, <2>4, <2>5 DEF Makes
  <2> HIDE DEF both
  <2> QED BY <2>6, MakeAllowed
<1>6. CASE Drops(p, d, from, f)
  <2>1. /\ disk' = Without(both)
        /\ latest' = [g \in Files |-> IF g = f THEN d[f].text
                                      ELSE IF g \in from THEN None ELSE latest[g]]
    BY <1>6 DEF Drops
  <2>2. \A g \in Files : disk'[g].text = IF g \in {} THEN made[g]
                                         ELSE IF g \in both THEN None ELSE disk[g].text
    BY <1>4, <2>1 DEF Without
  <2>3. /\ latest' \in [Files -> Texts \cup {Hidden, None}]
        /\ \A g \in Files : latest'[g] = IF g \in both THEN made[g] ELSE latest[g]
    BY <1>1, <1>2, <2>1
  <2>4. {} \in SUBSET both /\ \A g \in {} : g \notin Secret /\ made[g] \in Texts
    OBVIOUS
  <2>5. Makes(p, both, made, {})
    BY <1>1, <1>2, <2>2, <2>3, <2>4 DEF Makes
  <2> HIDE DEF both
  <2> QED BY <2>5, MakeAllowed
<1>7. CASE Refuses(p, d, from, f)
  <2>1. /\ disk' = Without(from)
        /\ latest' = [g \in Files |-> IF g \in from THEN None ELSE latest[g]]
    BY <1>7 DEF Refuses
  <2>2. \A g \in Files : disk'[g].text = IF g \in {} THEN gone[g]
                                         ELSE IF g \in from THEN None ELSE disk[g].text
    BY <1>4, <2>1 DEF Without
  <2>3. /\ latest' \in [Files -> Texts \cup {Hidden, None}]
        /\ \A g \in Files : latest'[g] = IF g \in from THEN gone[g] ELSE latest[g]
    BY <1>1, <1>3, <2>1
  <2>4. {} \in SUBSET from /\ \A g \in {} : g \notin Secret /\ gone[g] \in Texts
    OBVIOUS
  <2>5. Makes(p, from, gone, {})
    BY <1>1, <1>3, <2>2, <2>3, <2>4 DEF Makes
  <2> QED BY <2>5, MakeAllowed
<1>8. CASE FindsOut(p, d, from, f)
  <2>1. disk' = Without(Files) /\ latest' = latest
    BY <1>8 DEF FindsOut, Forget
  <2> QED BY <1>1, <2>1, ForgetAllowed
<1> QED BY <1>5, <1>6, <1>7, <1>8 DEF KeepDraft

\* The editor sets a draft, or a rename moves one.
LEMMA EditAllowed ==
    ASSUME DraftsIInv, NEW p \in Pages, NEW f \in Files,
           \/ SettleFile(p, f)
           \/ \E t \in Texts \cup {Hidden} : EditFile(p, f, t)
           \/ \E g \in Files : MoveDrafts(p, f, g)
    PROVE  StoreAllows
<1>1. PICK d \in OpenDrafts, from \in SUBSET Files, g \in Files : Redraws(p, d, from, g)
  BY EditIs
<1>2. p \in opened /\ g \in Files \ from /\ KeepDraft(p, d, from, g)
  BY <1>1 DEF Redraws
<1> QED BY <1>2, KeepDraftAllowed

(* Every step of a page, of its storage or of an event is one of the store. *)
LEMMA DraftsStepAllowed ==
    ASSUME DraftsIInv, MarksFit, [DraftsNext]_draftsVars
    PROVE  StoreAllows
<1>1. ASSUME NEW p \in Pages, OpenPage(p) PROVE StoreAllows
  <2>1. StoredTexts' = StoredTexts /\ latest' = latest
    BY <1>1 DEF OpenPage, StoredTexts
  <2>2. /\ p \notin opened
        /\ opened' = opened \cup {p} /\ Writers' = Writers \cup {p}
    <3>1. markOf'[p] = mark /\ \A q \in Pages \ {p} : markOf'[q] = markOf[q]
      BY <1>1 DEF OpenPage, DraftsIInv, DraftsTypeOK
    <3>2. opened' = opened \cup {p} /\ mark' = mark /\ opened \subseteq Pages \ {p}
      BY <1>1 DEF OpenPage, DraftsIInv, DraftsTypeOK
    <3> QED BY <3>1, <3>2 DEF Writers
  <2>3. Store!Come(p)
    BY <2>1, <2>2 DEF Store!Come, StoredTexts, Writers
  <2> QED BY <2>3 DEF StoreAllows, Store!Next
<1>2. ASSUME NEW p \in Pages, LeavePage(p) PROVE StoreAllows
  <2>1. StoredTexts' = StoredTexts /\ latest' = latest
    BY <1>2 DEF LeavePage, StoredTexts
  <2>2. /\ p \in opened
        /\ opened' = opened \ {p} /\ Writers' = Writers \ {p}
    <3>1. \A q \in Pages \ {p} : markOf'[q] = markOf[q]
      BY <1>2 DEF LeavePage, DraftsIInv, DraftsTypeOK
    <3>2. /\ p \in opened /\ opened \subseteq Pages
          /\ opened' = opened \ {p} /\ mark' = mark
      BY <1>2 DEF LeavePage, DraftsIInv, DraftsTypeOK
    <3> QED BY <3>1, <3>2 DEF Writers
  <2>3. Store!Go(p)
    BY <2>1, <2>2 DEF Store!Go, StoredTexts, Writers
  <2> QED BY <2>3 DEF StoreAllows, Store!Next
<1>3. ASSUME NEW p \in Pages, SignOut(p) PROVE StoreAllows
  <2>1. StoredTexts' = [f \in Files |-> None] /\ latest' = latest
    BY <1>3 DEF SignOut, StoredTexts, Without, NoRecord
  <2>2. Writers' = {} /\ opened' = opened
    <3>1. /\ opened' = opened /\ markOf' = markOf /\ mark' = mark + 1
          /\ opened \subseteq Pages /\ mark \in Nat
          /\ \A q \in Pages : markOf[q] \in Nat /\ markOf[q] <= mark
      BY <1>3, DraftsAssumption DEF SignOut, DraftsIInv, DraftsTypeOK, MarksFit
    <3> QED BY <3>1 DEF Writers
  <2>3. Store!SignOut
    BY <2>1, <2>2 DEF Store!SignOut, StoredTexts, Writers
  <2> QED BY <2>3 DEF StoreAllows, Store!Next
<1>4. ASSUME NEW p \in Pages, HydrateFull(p) PROVE StoreAllows
  <2>1. UNCHANGED <<disk, latest, opened, markOf, mark>>
    BY <1>4 DEF HydrateFull
  <2> QED BY <2>1 DEF StoreAllows, StoredTexts, Writers
<1>5. ASSUME NEW p \in Pages, HydrateView(p) PROVE StoreAllows
  <2>1. disk' = Without(Files) /\ UNCHANGED <<opened, markOf, mark, latest>>
    BY <1>5 DEF HydrateView
  <2> QED BY <2>1, ForgetAllowed
<1>6. ASSUME NEW p \in Pages, StorageEvent(p) PROVE StoreAllows
  <2>1. (disk' = Without(Files) \/ disk' = disk) /\ UNCHANGED <<opened, markOf, mark, latest>>
    BY <1>6 DEF StorageEvent, Forget
  <2>2. CASE disk' = disk
    BY <2>1, <2>2 DEF StoreAllows, StoredTexts, Writers
  <2> QED BY <2>1, <2>2, ForgetAllowed
<1>7. ASSUME NEW p \in Pages, NEW f \in Files,
             \/ SettleFile(p, f)
             \/ \E t \in Texts \cup {Hidden} : EditFile(p, f, t)
             \/ \E g \in Files : MoveDrafts(p, f, g)
      PROVE  StoreAllows
  BY <1>7, EditAllowed
<1>8. CASE UNCHANGED draftsVars
  BY <1>8 DEF draftsVars, StoreAllows, StoredTexts, Writers
<1> QED BY <1>1, <1>2, <1>3, <1>4, <1>5, <1>6, <1>7, <1>8 DEF DraftsNext

(* To the pages together the storage is one map of texts: a file has the text
   its draft was last made or none, whatever write failed, and after a
   sign-out only pages opened since it write. *)
THEOREM StorageKeepsItsPromise == DraftsSpec => StoredAsPromised
<1>1. DraftsInit => Store!Init /\ MarksFit
  <2> SUFFICES ASSUME DraftsInit PROVE Store!Init /\ MarksFit
    OBVIOUS
  <2>1. opened = {} /\ latest = [f \in Files |-> None] /\ mark = 0
        /\ disk = [f \in Files |-> NoRecord] /\ markOf = [p \in Pages |-> 0]
    BY DEF DraftsInit
  <2>2. StoredTexts = [f \in Files |-> None] /\ Writers = {}
    BY <2>1 DEF StoredTexts, Writers, NoRecord
  <2>3. MarksFit
    BY <2>1 DEF MarksFit
  <2> QED BY <2>1, <2>2, <2>3 DEF Store!Init, StoredTexts, Writers
<1>2. DraftsIInv /\ MarksFit /\ [DraftsNext]_draftsVars =>
        MarksFit' /\ [Store!Next]_<<[f \in Files |-> disk[f].text], latest, opened,
                                   {p \in opened : markOf[p] = mark}>>
  BY MarksKept, DraftsStepAllowed DEF StoreAllows, StoredTexts, Writers
<1> QED BY <1>1, <1>2, DraftsInductive, PTL
        DEF DraftsSpec, StoredAsPromised, Store!Spec

-----------------------------------------------------------------------------
(* Uploads: the inductive invariant.                                       *)

UploadRecords == [at : {"none", "out", "slot", "answered"}, whole : BOOLEAN,
                  res : {"none", "ok", "upload_busy", "root_changed",
                         "unauthorized", "failed"}]
Fate == {"new", "queued", "saved", "failed", "unsure", "skipped", "aborted", "dropped"}

Distinct(q) == \A i, j \in 1..Len(q) : q[i] = q[j] => i = j

\* The files that wait their turn: none twice, not the one in hand, each
\* counted; a run that is over left none.
QueueFits ==
    /\ queue \in Seq(Picked) /\ Distinct(queue)
    /\ inHand \notin Items(queue)
    /\ doing = "idle" => queue = <<>>
    /\ Len(queue) <= queued

\* What the run awaits says what it may still do to the file in hand.
HandFits ==
    /\ doing = "told" => fate[inHand] = "saved"
    /\ doing \in {"send", "look", "again"} => foundAt \in UploadPaths
    /\ went => ~canCancel
    /\ doing = "look" => went
    /\ doing = "told" => ~canCancel
    /\ doing = "send" => upload[inHand].at # "none"
    /\ aborted => doing \in {"check", "again"}

\* A file has a request only while the page sends it, or once it does not hear
\* of it any more; what it was answered is so; where secrets may be it goes
\* only after a yes.
SiteFits ==
    \A f \in Picked :
        /\ \/ f = inHand /\ doing \in {"send", "look"}
           \/ fate[f] \in {"saved", "unsure", "aborted"}
           \/ upload[f].at = "none" /\ ~OnDisk(f)
        /\ upload[f].at \in {"out", "slot"} => ~OnDisk(f)
        /\ upload[f].at = "answered" =>
              /\ f = inHand /\ doing = "send"
              /\ (upload[f].res = "ok") <=> OnDisk(f)
              /\ upload[f].res = "ok" => upload[f].whole
        /\ f \in Guarded /\ upload[f].at # "none" => batchOf[f] \in revealed
        /\ fate[f] = "new" => batchOf[f] = 0

\* A Cancel the file in hand has not met yet is still to come.
StoppedFits ==
    /\ \A f \in stopped : fate[f] \in {"aborted", "dropped", "failed"} \/ (f = inHand /\ aborted)

UploadsIInv ==
    /\ UploadsTypeOK /\ stopped \subseteq Picked
    /\ QueueFits /\ HandFits /\ SiteFits /\ StoppedFits
    /\ ToldIsTrue /\ CancelIsExact

\* Nothing is queued, sent or told.
LEMMA UploadsInitIInv == UploadsInit => UploadsIInv
<1> SUFFICES ASSUME UploadsInit PROVE UploadsIInv
  OBVIOUS
<1>1. IsFiniteSet(Picked) /\ Cardinality(Picked) \in Nat /\ None \notin Picked
  BY UploadsAssumption, FS_CardinalityType
<1>2. \A f \in Picked : ~OnDisk(f)
  BY <1>1 DEF UploadsInit, OnDisk
<1>3. Items(queue) = {} /\ Len(queue) = 0 /\ queue \in Seq(Picked)
  BY DEF UploadsInit, Items
<1>4. UploadsTypeOK
  <2>1. /\ upload \in [Picked -> UploadRecords]
        /\ batchOf \in [Picked -> 0..Cardinality(Picked)]
        /\ fate \in [Picked -> Fate] /\ savedAs \in [Picked -> UploadPaths \cup {None}]
        /\ folder \in [UploadPaths -> Picked \cup {Other, None}]
    BY <1>1 DEF UploadsInit, UploadRecords, Fate, NoUpload
  <2>2. (doing = "idle") = (inHand = None)
    BY DEF UploadsInit
  <2>3. waits \in 0..MaxWaits
    BY UploadsAssumption DEF UploadsInit
  <2> QED BY <1>1, <1>3, <2>1, <2>2, <2>3 DEF UploadsInit, UploadsTypeOK, UploadRecords, Fate
<1>5. {f \in Picked : fate[f] # "new"} = {} /\ totals + queued = 0
  BY DEF UploadsInit
<1>6. ToldIsTrue
  BY <1>1, <1>2, <1>3 DEF UploadsInit, ToldIsTrue
<1>7. CancelIsExact
  <2>1. totals + queued = Cardinality({f \in Picked : fate[f] # "new"})
    BY <1>5, FS_EmptySet
  <2> QED BY <2>1 DEF UploadsInit, CancelIsExact
<1>8. QueueFits /\ HandFits /\ StoppedFits
  BY <1>3 DEF UploadsInit, QueueFits, HandFits, StoppedFits, Distinct
<1>9. SiteFits
  BY <1>2 DEF UploadsInit, SiteFits, NoUpload
<1> QED BY <1>4, <1>6, <1>7, <1>8, <1>9 DEF UploadsIInv, UploadsInit

\* A file without a request.
LEMMA NoUploadIs == NoUpload \in UploadRecords /\ NoUpload.at = "none" /\ ~NoUpload.whole
  BY DEF NoUpload, UploadRecords

-----------------------------------------------------------------------------
(* Uploads: how a run goes on.                                             *)

\* The first of some files, and the others.
LEMMA FirstAndRest ==
    ASSUME NEW q \in Seq(Picked), q # <<>>, Distinct(q)
    PROVE  /\ Head(q) \in Items(q) /\ Items(q) \subseteq Picked
           /\ Tail(q) \in Seq(Picked) /\ Distinct(Tail(q))
           /\ Items(Tail(q)) = Items(q) \ {Head(q)}
           /\ Len(Tail(q)) = Len(q) - 1 /\ Len(q) \in Nat
<1>1. /\ Len(q) \in Nat /\ Len(q) > 0 /\ DOMAIN q = 1..Len(q)
      /\ \A i \in 1..Len(q) : q[i] \in Picked
      /\ Head(q) = q[1]
      /\ Tail(q) \in Seq(Picked) /\ Len(Tail(q)) = Len(q) - 1
      /\ DOMAIN Tail(q) = 1..Len(Tail(q))
      /\ \A i \in 1..Len(Tail(q)) : Tail(q)[i] = q[i + 1]
  BY EmptySeq, HeadTailProperties, LenProperties, ElementOfSeq
<1>2. \A i \in 1..Len(Tail(q)) : i + 1 \in 1..Len(q) /\ i + 1 # 1 /\ i \in Nat
  BY <1>1
<1>3. Distinct(Tail(q))
  <2> SUFFICES ASSUME NEW i \in 1..Len(Tail(q)), NEW j \in 1..Len(Tail(q)), Tail(q)[i] = Tail(q)[j]
               PROVE  i = j
    BY DEF Distinct
  <2>1. q[i + 1] = q[j + 1] /\ i + 1 \in 1..Len(q) /\ j + 1 \in 1..Len(q)
    BY <1>1, <1>2
  <2>2. i + 1 = j + 1
    BY <2>1 DEF Distinct
  <2> QED BY <1>2, <2>2
<1>4. ASSUME NEW f \in Items(Tail(q)) PROVE f \in Items(q) \ {Head(q)}
  <2>1. PICK i \in 1..Len(Tail(q)) : f = Tail(q)[i]
    BY <1>1 DEF Items
  <2>2. i + 1 \in 1..Len(q) /\ 1 \in 1..Len(q) /\ q[i + 1] = f /\ i + 1 # 1
    BY <1>1, <1>2, <2>1
  <2> QED BY <1>1, <2>2 DEF Items, Distinct
<1>5. ASSUME NEW f \in Items(q) \ {Head(q)} PROVE f \in Items(Tail(q))
  <2>1. PICK i \in 1..Len(q) : f = q[i]
    BY <1>1 DEF Items
  <2>2. i - 1 \in 1..Len(Tail(q)) /\ Tail(q)[i - 1] = q[i]
    <3>1. i # 1 /\ i - 1 \in 1..Len(Tail(q)) /\ (i - 1) + 1 = i
      BY <1>1, <1>5, <2>1
    <3> QED BY <1>1, <3>1
  <2> QED BY <1>1, <2>1, <2>2 DEF Items
<1>6. Head(q) \in Items(q) /\ Items(q) \subseteq Picked
  BY <1>1 DEF Items
<1> QED BY <1>1, <1>3, <1>4, <1>5, <1>6

\* The run goes on with the first of q, or rests; what it was counted for
\* stays so.
LEMMA ContinueDoes ==
    ASSUME UploadsTypeOK, NEW q \in Seq(Picked), Distinct(q), Len(q) <= queued,
           NEW stops \in BOOLEAN, Continue(q, stops)
    PROVE  /\ queue' \in Seq(Picked) /\ Distinct(queue') /\ Len(queue') <= queued'
           /\ Items(queue') = Items(q) \ {inHand'}
           /\ IF q = <<>>
                THEN doing' = "idle" /\ inHand' = None /\ queue' = <<>> /\ ~aborted'
                ELSE doing' = "check" /\ inHand' \in Items(q)
           /\ ~went' /\ waits' = 0 /\ foundAt' = None /\ canCancel' \in BOOLEAN
           /\ aborted' \in BOOLEAN /\ (aborted' => aborted /\ ~stops)
           /\ queued' \in Nat /\ totals' \in Nat /\ totals' + queued' = totals + queued
           /\ went' \in BOOLEAN
<1>1. Len(q) \in Nat /\ queued \in Nat /\ totals \in Nat /\ aborted \in BOOLEAN
  BY LenProperties DEF UploadsTypeOK
<1>2. CASE q = <<>>
  <2>1. Rests /\ queued' = Len(q) /\ totals' = totals + (queued - Len(q)) /\ aborted' = FALSE
    BY <1>2, Zenon DEF Continue, RunEnds
  <2>2. queued' = 0 /\ totals' = totals + queued
    BY <1>1, <1>2, <2>1
  <2>3. /\ queue' = <<>> /\ inHand' = None /\ doing' = "idle" /\ canCancel' = FALSE
        /\ went' = FALSE /\ waits' = 0 /\ foundAt' = None
    BY <2>1 DEF Rests
  <2>4. /\ queue' \in Seq(Picked) /\ Distinct(queue') /\ Len(queue') <= queued'
        /\ Items(queue') = Items(q) \ {inHand'}
    BY <1>2, <2>2, <2>3 DEF Distinct, Items
  <2>5. /\ ~aborted' /\ aborted' \in BOOLEAN /\ (aborted' => aborted /\ ~stops)
        /\ ~went' /\ went' \in BOOLEAN /\ canCancel' \in BOOLEAN
    BY <2>1, <2>3, Zenon
  <2>6. queued' \in Nat /\ totals' \in Nat /\ totals' + queued' = totals + queued
    BY <1>1, <2>2
  <2> QED BY <1>2, <2>3, <2>4, <2>5, <2>6, Zenon
<1>3. CASE q # <<>>
  <2>1. /\ Head(q) \in Items(q)
        /\ Tail(q) \in Seq(Picked) /\ Distinct(Tail(q))
        /\ Items(Tail(q)) = Items(q) \ {Head(q)}
        /\ Len(Tail(q)) = Len(q) - 1
    BY <1>3, FirstAndRest
  <2>2. TakesNext(q)
    BY <1>3 DEF Continue, RunEnds
  <2>3. \/ aborted' = aborted /\ queued' = queued /\ totals' = totals /\ ~stops
        \/ totals' = totals + (queued - Len(q)) /\ queued' = Len(q) /\ aborted' = FALSE
    BY <1>3 DEF Continue, RunEnds
  <2>4. aborted' \in BOOLEAN /\ (aborted' => aborted /\ ~stops)
    <3>1. CASE aborted' = aborted /\ ~stops
      BY <1>1, <3>1, Zenon
    <3>2. CASE aborted' = FALSE
      BY <3>2, Zenon
    <3> QED BY <2>3, <3>1, <3>2, Zenon
  <2>5. /\ queued' \in Nat /\ totals' \in Nat /\ totals' + queued' = totals + queued
        /\ Len(q) <= queued'
    BY <1>1, <2>3
  <2>6. /\ queue' = Tail(q) /\ inHand' = Head(q) /\ doing' = "check" /\ canCancel' = TRUE
        /\ went' = FALSE /\ waits' = 0 /\ foundAt' = None
    BY <2>2 DEF TakesNext
  <2>7. Distinct(queue') /\ Items(queue') = Items(q) \ {inHand'} /\ queue' \in Seq(Picked)
    BY <2>1, <2>6
  <2>8. Len(queue') <= queued'
    BY <1>1, <2>1, <2>5, <2>6
  <2> QED BY <1>3, <2>1, <2>4, <2>5, <2>6, <2>7, <2>8
<1> QED BY <1>2, <1>3
\* The one the run has in hand is told of, or a Cancel ends it, and some of
\* those that wait are given up: the others wait on.
LEMMA RunStep ==
    ASSUME UploadsIInv, doing # "idle",
           NEW q \in Seq(Picked), Distinct(q), Len(q) <= queued, Items(q) \subseteq Items(queue),
           NEW stops \in BOOLEAN, Continue(q, stops),
           fate' \in [Picked -> Fate],
           \A f \in Picked \ ({inHand} \cup Items(queue)) : fate'[f] = fate[f],
           \A f \in Items(q) : fate'[f] = "queued",
           \A f \in Items(queue) \ Items(q) : fate'[f] \in {"failed", "dropped"},
           fate'[inHand] \notin {"new", "queued"},
           fate'[inHand] = "saved" => fate[inHand] = "saved",
           fate'[inHand] \in {"saved", "unsure", "aborted"} \/ (upload'[inHand].at = "none" /\ ~OnDisk(inHand)),
           upload' \in [Picked -> UploadRecords],
           \A f \in Picked \ {inHand} : upload'[f] = upload[f],
           upload'[inHand].at \in {"none", upload[inHand].at} \ {"answered"},
           slot' \in Picked \cup {Other, None},
           folder' = folder, savedAs' = savedAs, batchOf' = batchOf, revealed \subseteq revealed'
    PROVE  /\ UploadsTypeOK' /\ QueueFits' /\ HandFits' /\ SiteFits' /\ ToldIsTrue'
           /\ (totals + queued)' = totals + queued
           /\ {f \in Picked : fate[f] # "new"}' = {f \in Picked : fate[f] # "new"}
           /\ aborted' => aborted /\ ~stops /\ inHand' \in Items(q)
<1> DEFINE rest == Items(queue)
<1>0. /\ inHand \in Picked /\ None \notin Picked
      /\ Items(q) \subseteq Picked /\ rest \subseteq Picked /\ inHand \notin rest
      /\ \A f \in rest : fate[f] = "queued"
      /\ fate[inHand] # "new"
  <2>1. inHand \in Picked /\ None \notin Picked /\ rest \subseteq Picked /\ inHand \notin rest
    BY UploadsAssumption DEF UploadsIInv, UploadsTypeOK, QueueFits
  <2>2. /\ \A f \in rest : fate[f] = "queued"
        /\ doing # "told" => fate[inHand] = "queued"
    BY <2>1 DEF UploadsIInv, ToldIsTrue
  <2>3. doing = "told" => fate[inHand] = "saved"
    BY DEF UploadsIInv, HandFits
  <2> QED BY <2>1, <2>2, <2>3
<1>1. /\ queue' \in Seq(Picked) /\ Distinct(queue') /\ Len(queue') <= queued'
      /\ Items(queue') = Items(q) \ {inHand'}
      /\ IF q = <<>>
           THEN doing' = "idle" /\ inHand' = None /\ queue' = <<>> /\ ~aborted'
           ELSE doing' = "check" /\ inHand' \in Items(q)
      /\ ~went' /\ waits' = 0 /\ foundAt' = None /\ canCancel' \in BOOLEAN
      /\ aborted' \in BOOLEAN /\ (aborted' => aborted /\ ~stops)
      /\ queued' \in Nat /\ totals' \in Nat /\ totals' + queued' = totals + queued
      /\ went' \in BOOLEAN
  BY ContinueDoes DEF UploadsIInv
<1>2. \A f \in Picked : OnDisk(f)' <=> OnDisk(f)
  BY DEF OnDisk
<1>3. UploadsTypeOK'
  <2>1. inHand' \in Picked \cup {None} /\ (doing' = "idle") = (inHand' = None)
        /\ doing' \in {"idle", "check"} /\ Items(queue') \subseteq Picked
    BY <1>0, <1>1
  <2>2. waits' \in 0..MaxWaits /\ foundAt' \in UploadPaths \cup {None}
    BY <1>1, UploadsAssumption
  <2>3. /\ batchOf' \in [Picked -> 0..Cardinality(Picked)]
        /\ savedAs' \in [Picked -> UploadPaths \cup {None}]
        /\ folder' \in [UploadPaths -> Picked \cup {Other, None}]
    BY DEF UploadsIInv, UploadsTypeOK
  <2> QED BY <1>1, <2>1, <2>2, <2>3 DEF UploadsTypeOK, UploadRecords, Fate
<1>4. QueueFits'
  BY <1>1 DEF QueueFits
<1>5. HandFits'
  BY <1>1 DEF HandFits
<1>6. SiteFits'
  <2> SUFFICES ASSUME NEW f \in Picked
               PROVE  /\ \/ fate'[f] \in {"saved", "unsure", "aborted"}
                         \/ upload'[f].at = "none" /\ ~OnDisk(f)
                      /\ upload'[f].at \in {"out", "slot"} => ~OnDisk(f)
                      /\ upload'[f].at # "answered"
                      /\ f \in Guarded /\ upload'[f].at # "none" => batchOf[f] \in revealed
                      /\ fate'[f] = "new" => batchOf[f] = 0
    BY <1>2 DEF SiteFits
  <2>1. /\ \/ f = inHand /\ doing \in {"send", "look"}
           \/ fate[f] \in {"saved", "unsure", "aborted"}
           \/ upload[f].at = "none" /\ ~OnDisk(f)
        /\ upload[f].at \in {"out", "slot"} => ~OnDisk(f)
        /\ upload[f].at = "answered" => f = inHand
        /\ f \in Guarded /\ upload[f].at # "none" => batchOf[f] \in revealed
        /\ fate[f] = "new" => batchOf[f] = 0
    BY DEF UploadsIInv, SiteFits
  <2>2. CASE f = inHand
    BY <1>0, <2>1, <2>2
  <2>3. CASE f # inHand /\ f \in rest
    BY <1>0, <2>1, <2>3
  <2>4. CASE f # inHand /\ f \notin rest
    BY <1>0, <2>1, <2>4
  <2> QED BY <2>2, <2>3, <2>4
<1>7. \A f \in Picked : fate'[f] = "queued" <=> f \in Items(q)
  <2> SUFFICES ASSUME NEW f \in Picked, f \notin Items(q) PROVE fate'[f] # "queued"
    OBVIOUS
  <2>1. fate[f] = "queued" => f \in rest \/ f = inHand
    BY DEF UploadsIInv, ToldIsTrue
  <2> QED BY <1>0, <2>1
<1>8. \A f \in Picked : f \in Items(q) <=> f \in Items(queue') \/ (f = inHand' /\ doing' # "told")
  <2>1. q = <<>> => Items(q) = {}
    BY DEF Items
  <2> QED BY <1>0, <1>1, <2>1
<1>9. ToldIsTrue'
  <2> SUFFICES ASSUME NEW f \in Picked
               PROVE  /\ fate'[f] = "saved" => savedAs[f] # None /\ folder[savedAs[f]] = f
                      /\ fate'[f] \in {"new", "failed", "skipped", "dropped"} => ~OnDisk(f)
                      /\ \A m, n \in UploadPaths : folder[m] = f /\ folder[n] = f => m = n
                      /\ f \in Guarded /\ OnDisk(f) => batchOf[f] \in revealed
    BY <1>2, <1>7, <1>8 DEF ToldIsTrue
  <2>1. /\ fate[f] = "saved" => savedAs[f] # None /\ folder[savedAs[f]] = f
        /\ \A m, n \in UploadPaths : folder[m] = f /\ folder[n] = f => m = n
        /\ f \in Guarded /\ OnDisk(f) => batchOf[f] \in revealed
    BY DEF UploadsIInv, ToldIsTrue
  <2>2. fate'[f] = "saved" => fate[f] = "saved"
    BY <1>0
  <2>3. fate'[f] \in {"new", "failed", "skipped", "dropped"} => ~OnDisk(f)
    BY <1>1, <1>2, <1>6 DEF SiteFits
  <2> QED BY <2>1, <2>2, <2>3
<1>10. {f \in Picked : fate[f] # "new"}' = {f \in Picked : fate[f] # "new"}
  BY <1>0
<1>11. aborted' => aborted /\ ~stops /\ inHand' \in Items(q)
  BY <1>1
<1> QED BY <1>1, <1>3, <1>4, <1>5, <1>6, <1>9, <1>10, <1>11
\* What the user is told of a file that ended as r.
ToldAs(r) == IF r \in {"aborted", "skipped", "unsure"} THEN r ELSE "failed"

\* A result that is no success: the file in hand and those it takes with it
\* are told of, the others go on.
LEMMA EndsAsDoes ==
    ASSUME UploadsIInv, NEW r, EndsAs(r)
    PROVE  \E q \in Seq(Picked), stops \in BOOLEAN, lost \in SUBSET Items(queue) :
             /\ Distinct(q) /\ Len(q) <= queued /\ Items(q) = Items(queue) \ lost
             /\ fate' = Fates({inHand} \cup lost, ToldAs(r))
             /\ lost # {} => ToldAs(r) = "failed"
             /\ Continue(q, stops)
             /\ r = "aborted" => stops
             /\ savedAs' = savedAs /\ stopped' = stopped
<1> DEFINE sameRoot == {f \in Items(queue) : RootOf[f] = RootOf[inHand]}
           q == Remaining(queue, sameRoot)
           Goes(p, stops, lost) ==
             /\ Distinct(p) /\ Len(p) <= queued /\ Items(p) = Items(queue) \ lost
             /\ fate' = Fates({inHand} \cup lost, ToldAs(r))
             /\ lost # {} => ToldAs(r) = "failed"
             /\ Continue(p, stops)
             /\ r = "aborted" => stops
             /\ savedAs' = savedAs /\ stopped' = stopped
<1>0. /\ queue \in Seq(Picked) /\ Distinct(queue) /\ Len(queue) <= queued /\ queued \in Nat
      /\ Len(queue) \in Nat /\ Items(queue) = {queue[i] : i \in 1..Len(queue)}
      /\ <<>> \in Seq(Picked) /\ Distinct(<<>>) /\ Len(<<>>) = 0 /\ Items(<<>>) = {}
      /\ savedAs' = savedAs /\ stopped' = stopped
  <2>1. /\ queue \in Seq(Picked) /\ Distinct(queue) /\ Len(queue) <= queued /\ queued \in Nat
    BY DEF UploadsIInv, QueueFits, UploadsTypeOK
  <2>2. Len(queue) \in Nat /\ Items(queue) = {queue[i] : i \in 1..Len(queue)}
    BY <2>1, LenProperties DEF Items
  <2>3. <<>> \in Seq(Picked) /\ Distinct(<<>>) /\ Len(<<>>) = 0 /\ Items(<<>>) = {}
    BY DEF Items, Distinct
  <2>4. savedAs' = savedAs /\ stopped' = stopped
    BY DEF EndsAs
  <2> QED BY <2>1, <2>2, <2>3, <2>4
<1>1. q \in Seq(Picked) /\ Distinct(q) /\ Len(q) <= queued /\ Items(q) = Items(queue) \ sameRoot
  <2> HIDE DEF sameRoot
  <2>1. /\ q \in Seq(Picked) /\ Len(q) <= Len(queue)
        /\ \A i \in 1..Len(q) : q[i] \notin sameRoot /\ \E k \in 1..Len(queue) : queue[k] = q[i]
        /\ \A k \in 1..Len(queue) : queue[k] \notin sameRoot =>
              \E i \in 1..Len(q) : q[i] = queue[k]
        /\ \A i, j \in 1..Len(q) : q[i] = q[j] => i = j
    BY <1>0, RemainingIs DEF Distinct
  <2> HIDE DEF q
  <2>2. Len(q) \in Nat /\ Items(q) = {q[i] : i \in 1..Len(q)}
    BY <2>1, LenProperties DEF Items
  <2>3. Items(q) \subseteq Items(queue) \ sameRoot
    BY <1>0, <2>1, <2>2
  <2>4. Items(queue) \ sameRoot \subseteq Items(q)
    BY <1>0, <2>1, <2>2
  <2>5. Distinct(q) /\ Len(q) <= queued
    BY <1>0, <2>1, <2>2 DEF Distinct
  <2> QED BY <2>1, <2>3, <2>4, <2>5
<1> HIDE DEF q
<1>2. \E p \in Seq(Picked), stops \in BOOLEAN, lost \in SUBSET Items(queue) : Goes(p, stops, lost)
  <2>1. CASE r \in {"aborted", "skipped", "unsure"}
    <3>1. fate' = Fates({inHand}, r) /\ Continue(queue, r = "aborted") /\ (r = "aborted") \in BOOLEAN
      BY <2>1 DEF EndsAs
    <3>2. Goes(queue, r = "aborted", {})
      BY <1>0, <2>1, <3>1 DEF ToldAs
    <3> QED BY <1>0, <3>1, <3>2
  <2>2. CASE r \in {"unauthorized", "upload_busy"}
    <3>1. /\ fate' = Fates({inHand} \cup Items(queue), "failed")
          /\ Continue(<<>>, r = "unauthorized") /\ (r = "unauthorized") \in BOOLEAN
      BY <2>2 DEF EndsAs
    <3>2. Goes(<<>>, r = "unauthorized", Items(queue))
      BY <1>0, <2>2, <3>1 DEF ToldAs
    <3> QED BY <1>0, <3>1, <3>2
  <2>3. CASE r = "root_changed"
    <3>1. fate' = Fates({inHand} \cup sameRoot, "failed") /\ Continue(q, FALSE)
      BY <2>3 DEF EndsAs, q
    <3>2. Goes(q, FALSE, sameRoot) /\ sameRoot \in SUBSET Items(queue)
      BY <1>0, <1>1, <2>3, <3>1 DEF ToldAs
    <3> QED BY <1>1, <3>2
  <2>4. CASE r \notin {"aborted", "skipped", "unsure", "unauthorized", "upload_busy", "root_changed"}
    <3>1. fate' = Fates({inHand}, "failed") /\ Continue(queue, FALSE)
      BY <2>4 DEF EndsAs
    <3>2. Goes(queue, FALSE, {})
      BY <1>0, <2>4, <3>1 DEF ToldAs
    <3> QED BY <1>0, <3>2
  <2> QED BY <2>1, <2>2, <2>3, <2>4
<1> QED BY <1>2

\* Such a step keeps the invariant, whatever it does to the request that
\* ended, if nothing of the file stays unless the user is told it may have.
LEMMA EndStep ==
    ASSUME UploadsIInv, doing \notin {"idle", "told"}, NEW r, EndsAs(r),
           aborted => r \in {"aborted", "failed", "unauthorized"},
           r \in {"unsure", "aborted"} \/ (upload'[inHand].at = "none" /\ ~OnDisk(inHand)),
           \/ upload' = upload /\ doing # "send"
           \/ upload' = [upload EXCEPT ![inHand] = NoUpload],
           slot' = slot, folder' = folder, batchOf' = batchOf, revealed \subseteq revealed'
    PROVE  UploadsIInv'
<1>1. PICK q \in Seq(Picked), stops \in BOOLEAN, lost \in SUBSET Items(queue) :
             /\ Distinct(q) /\ Len(q) <= queued /\ Items(q) = Items(queue) \ lost
             /\ fate' = Fates({inHand} \cup lost, ToldAs(r))
             /\ lost # {} => ToldAs(r) = "failed"
             /\ Continue(q, stops)
             /\ r = "aborted" => stops
             /\ savedAs' = savedAs /\ stopped' = stopped
  BY EndsAsDoes
<1>2. /\ inHand \in Picked /\ inHand \notin Items(queue) /\ Items(queue) \subseteq Picked
      /\ fate \in [Picked -> Fate] /\ upload \in [Picked -> UploadRecords]
      /\ slot \in Picked \cup {Other, None} /\ stopped \subseteq Picked
      /\ \A f \in Items(queue) : fate[f] = "queued"
      /\ fate[inHand] = "queued"
      /\ upload[inHand].at = "answered" => doing = "send"
  <2>1. /\ inHand \in Picked /\ inHand \notin Items(queue) /\ Items(queue) \subseteq Picked
    BY DEF UploadsIInv, UploadsTypeOK, QueueFits
  <2>2. (\A f \in Items(queue) : fate[f] = "queued") /\ fate[inHand] = "queued"
    BY <2>1 DEF UploadsIInv, ToldIsTrue
  <2> QED BY <2>1, <2>2 DEF UploadsIInv, UploadsTypeOK, SiteFits, Fate, UploadRecords
<1>3. ToldAs(r) \in {"aborted", "skipped", "unsure", "failed"}
  BY DEF ToldAs
<1>4. /\ fate' \in [Picked -> Fate]
      /\ \A f \in Picked \ ({inHand} \cup lost) : fate'[f] = fate[f]
      /\ fate'[inHand] = ToldAs(r)
      /\ \A f \in lost : fate'[f] = "failed"
  BY <1>1, <1>2, <1>3 DEF Fates, Fate
<1>5. /\ upload' \in [Picked -> UploadRecords]
      /\ \A f \in Picked \ {inHand} : upload'[f] = upload[f]
      /\ upload'[inHand].at \in {"none", upload[inHand].at} \ {"answered"}
  <2>1. CASE upload' = upload /\ doing # "send"
    BY <1>2, <2>1
  <2>2. CASE upload' = [upload EXCEPT ![inHand] = NoUpload]
    BY <1>2, <2>2, NoUploadIs
  <2> QED BY <2>1, <2>2
<1>6. /\ UploadsTypeOK' /\ QueueFits' /\ HandFits' /\ SiteFits' /\ ToldIsTrue'
      /\ (totals + queued)' = totals + queued
      /\ {f \in Picked : fate[f] # "new"}' = {f \in Picked : fate[f] # "new"}
      /\ aborted' => aborted /\ ~stops /\ inHand' \in Items(q)
  <2>1. \A f \in Picked \ ({inHand} \cup Items(queue)) : fate'[f] = fate[f]
    BY <1>1, <1>4
  <2>2. \A f \in Items(q) : fate'[f] = "queued"
    BY <1>1, <1>2, <1>4
  <2>3. \A f \in Items(queue) \ Items(q) : fate'[f] \in {"failed", "dropped"}
    BY <1>1, <1>4
  <2>4. fate'[inHand] \notin {"new", "queued", "saved"} /\ doing # "idle"
    BY <1>3, <1>4
  <2>5. fate'[inHand] \in {"saved", "unsure", "aborted"} \/ (upload'[inHand].at = "none" /\ ~OnDisk(inHand))
    BY <1>4 DEF ToldAs
  <2>6. Items(q) \subseteq Items(queue) /\ slot' \in Picked \cup {Other, None}
    BY <1>1, <1>2
  <2>7. fate'[inHand] \notin {"new", "queued"} /\ (fate'[inHand] = "saved" => fate[inHand] = "saved")
    BY <2>4
  <2>8. UploadsIInv /\ doing # "idle" /\ q \in Seq(Picked) /\ Distinct(q) /\ Len(q) <= queued
        /\ stops \in BOOLEAN /\ Continue(q, stops)
        /\ folder' = folder /\ savedAs' = savedAs /\ batchOf' = batchOf
        /\ revealed \subseteq revealed'
    BY <1>1, <2>4
  <2> QED BY <1>4, <1>5, <2>1, <2>2, <2>3, <2>5, <2>6, <2>7, <2>8, RunStep
<1>7. /\ \A f \in stopped : fate[f] \in {"aborted", "dropped", "failed"} \/ (f = inHand /\ aborted)
      /\ \A f \in Picked \ stopped : fate[f] # "dropped"
      /\ totals + queued = Cardinality({f \in Picked : fate[f] # "new"})
  BY DEF UploadsIInv, StoppedFits, CancelIsExact
<1>8. \A f \in stopped : f \in Picked /\ (fate[f] = "failed" => fate'[f] = "failed")
  BY <1>2, <1>4
<1>9. \A f \in stopped : fate'[f] \in {"aborted", "dropped", "failed"}
  <2> SUFFICES ASSUME NEW f \in stopped PROVE fate'[f] \in {"aborted", "dropped", "failed"}
    OBVIOUS
  <2>1. CASE f = inHand
    <3>1. aborted
      BY <1>2, <1>7, <2>1
    <3> QED BY <1>4, <2>1, <3>1 DEF ToldAs
  <2>2. CASE f # inHand
    BY <1>2, <1>4, <1>7, <2>2
  <2> QED BY <2>1, <2>2
<1>11. \A f \in Picked \ stopped : fate'[f] # "dropped"
  <2> SUFFICES ASSUME NEW f \in Picked \ stopped
               PROVE  fate'[f] # "dropped"
    OBVIOUS
  <2>1. CASE f = inHand
    BY <1>4, <2>1 DEF ToldAs
  <2>2. CASE f # inHand
    BY <1>4, <1>7, <1>8, <2>2
  <2> QED BY <2>1, <2>2
<1>12. StoppedFits'
  BY <1>1, <1>9 DEF StoppedFits
<1>13. CancelIsExact'
  BY <1>1, <1>6, <1>7, <1>9, <1>11 DEF CancelIsExact
<1> QED BY <1>1, <1>2, <1>6, <1>12, <1>13 DEF UploadsIInv
\* The file in hand stays in hand: nothing is told, nothing leaves the queue.
LEMMA HandStep ==
    ASSUME UploadsIInv, doing \notin {"idle", "told"}, HandFits',
           doing' \in {"check", "ask", "wait", "send", "look", "again"},
           UNCHANGED <<inHand, queue, queued, aborted, fateVars, folder, batchOf>>,
           revealed \subseteq revealed',
           went' \in BOOLEAN, canCancel' \in BOOLEAN, waits' \in 0..MaxWaits,
           foundAt' \in UploadPaths \cup {None}, slot' \in Picked \cup {Other, None},
           upload' \in [Picked -> UploadRecords],
           \A f \in Picked \ {inHand} : upload'[f] = upload[f],
           \/ doing' \in {"send", "look"}
           \/ upload'[inHand].at = "none" /\ ~OnDisk(inHand),
           upload'[inHand].at \in {"out", "slot"} => ~OnDisk(inHand),
           upload'[inHand].at = "answered" =>
             /\ doing' = "send"
             /\ (upload'[inHand].res = "ok") <=> OnDisk(inHand)
             /\ upload'[inHand].res = "ok" => upload'[inHand].whole,
           inHand \in Guarded /\ upload'[inHand].at # "none" => batchOf[inHand] \in revealed'
    PROVE  UploadsIInv'
<1>1. /\ inHand \in Picked /\ inHand' = inHand /\ queue' = queue /\ queued' = queued /\ aborted' = aborted
      /\ fate' = fate /\ savedAs' = savedAs /\ stopped' = stopped /\ totals' = totals
      /\ folder' = folder /\ batchOf' = batchOf
  BY DEF UploadsIInv, UploadsTypeOK, fateVars
<1>2. \A f \in Picked : OnDisk(f)' <=> OnDisk(f)
  BY <1>1 DEF OnDisk
<1>3. UploadsTypeOK'
  <2>1. (doing' = "idle") = (inHand' = None)
    BY <1>1, UploadsAssumption
  <2>2. doing' \in {"idle", "check", "ask", "wait", "send", "look", "again", "told"}
    OBVIOUS
  <2>3. /\ Items(queue') \subseteq Picked /\ queued' \in Nat /\ totals' \in Nat
        /\ inHand' \in Picked \cup {None}
        /\ aborted' \in BOOLEAN
        /\ batchOf' \in [Picked -> 0..Cardinality(Picked)]
        /\ folder' \in [UploadPaths -> Picked \cup {Other, None}]
        /\ fate' \in [Picked -> Fate] /\ savedAs' \in [Picked -> UploadPaths \cup {None}]
    BY <1>1 DEF UploadsIInv, UploadsTypeOK, Fate
  <2> QED BY <2>1, <2>2, <2>3 DEF UploadsTypeOK, UploadRecords, Fate
<1>4. QueueFits'
  BY <1>1 DEF UploadsIInv, QueueFits
<1>5. SiteFits'
  <2> SUFFICES ASSUME NEW f \in Picked
               PROVE  /\ \/ f = inHand /\ doing' \in {"send", "look"}
                         \/ fate[f] \in {"saved", "unsure", "aborted"}
                         \/ upload'[f].at = "none" /\ ~OnDisk(f)
                      /\ upload'[f].at \in {"out", "slot"} => ~OnDisk(f)
                      /\ upload'[f].at = "answered" =>
                            /\ f = inHand /\ doing' = "send"
                            /\ (upload'[f].res = "ok") <=> OnDisk(f)
                            /\ upload'[f].res = "ok" => upload'[f].whole
                      /\ f \in Guarded /\ upload'[f].at # "none" => batchOf[f] \in revealed'
                      /\ fate[f] = "new" => batchOf[f] = 0
    BY <1>1, <1>2 DEF SiteFits
  <2>1. /\ \/ f = inHand /\ doing \in {"send", "look"}
           \/ fate[f] \in {"saved", "unsure", "aborted"}
           \/ upload[f].at = "none" /\ ~OnDisk(f)
        /\ upload[f].at \in {"out", "slot"} => ~OnDisk(f)
        /\ upload[f].at = "answered" => f = inHand
        /\ f \in Guarded /\ upload[f].at # "none" => batchOf[f] \in revealed
        /\ fate[f] = "new" => batchOf[f] = 0
    BY DEF UploadsIInv, SiteFits
  <2>2. CASE f = inHand
    BY <2>1, <2>2
  <2>3. CASE f # inHand
    <3>1. upload'[f] = upload[f]
      BY <2>3
    <3> QED BY <2>1, <2>3, <3>1
  <2> QED BY <2>2, <2>3
<1>6. ToldIsTrue'
  <2> SUFFICES ASSUME NEW f \in Picked
               PROVE  /\ fate[f] = "saved" => savedAs[f] # None /\ folder[savedAs[f]] = f
                      /\ fate[f] \in {"new", "failed", "skipped", "dropped"} => ~OnDisk(f)
                      /\ \A p, q \in UploadPaths : folder[p] = f /\ folder[q] = f => p = q
                      /\ f \in Guarded /\ OnDisk(f) => batchOf[f] \in revealed'
                      /\ fate[f] = "queued" <=> \/ f \in Items(queue)
                                                \/ f = inHand /\ doing' # "told"
    BY <1>1, <1>2 DEF ToldIsTrue
  <2> QED BY DEF UploadsIInv, ToldIsTrue
<1>7. StoppedFits' /\ CancelIsExact'
  BY <1>1 DEF UploadsIInv, StoppedFits, CancelIsExact
<1> QED BY <1>1, <1>3, <1>4, <1>5, <1>6, <1>7 DEF UploadsIInv

\* The slot is another upload's, and nothing of the file is at the server.
LEMMA SlotTakenStep ==
    ASSUME UploadsIInv, doing \in {"check", "again", "send"}, ~aborted, SlotTaken,
           ~OnDisk(inHand), upload'[inHand].at = "none",
           \/ upload' = upload /\ doing # "send"
           \/ upload' = [upload EXCEPT ![inHand] = NoUpload],
           UNCHANGED <<slot, folder, batchOf, revealed>>
    PROVE  UploadsIInv'
<1>1. CASE EndsAs("upload_busy")
  BY <1>1, EndStep
<1>2. CASE waits < MaxWaits /\ Awaits("wait") /\ waits' = waits + 1 /\ UNCHANGED <<went, foundAt>>
  <2>1. /\ inHand' = inHand /\ queue' = queue /\ queued' = queued /\ aborted' = aborted
        /\ doing' = "wait" /\ canCancel' = canCancel /\ went' = went /\ foundAt' = foundAt
        /\ waits' = waits + 1 /\ UNCHANGED fateVars
    BY <1>2 DEF Awaits
  <2>2. /\ went' \in BOOLEAN /\ canCancel' \in BOOLEAN /\ foundAt' \in UploadPaths \cup {None}
        /\ slot' \in Picked \cup {Other, None} /\ upload \in [Picked -> UploadRecords]
        /\ inHand \in Picked
    BY <2>1 DEF UploadsIInv, UploadsTypeOK, UploadRecords
  <2>3. waits' \in 0..MaxWaits
    BY <1>2, UploadsAssumption DEF UploadsIInv, UploadsTypeOK
  <2>4. upload' \in [Picked -> UploadRecords] /\ \A f \in Picked \ {inHand} : upload'[f] = upload[f]
    BY <2>2, NoUploadIs
  <2>5. HandFits'
    BY <2>1 DEF UploadsIInv, HandFits
  <2> QED BY <2>1, <2>2, <2>3, <2>4, <2>5, HandStep
<1> QED BY <1>1, <1>2, UploadsAssumption DEF SlotTaken, UploadsIInv, UploadsTypeOK
\* What is known of the file in hand while nothing of it is sent.
LEMMA NothingSent ==
    ASSUME UploadsIInv, doing \in {"check", "ask", "wait", "again"}
    PROVE  /\ inHand \in Picked /\ fate[inHand] = "queued"
           /\ upload[inHand].at = "none" /\ ~OnDisk(inHand)
<1>1. inHand \in Picked
  BY DEF UploadsIInv, UploadsTypeOK
<1>2. fate[inHand] = "queued"
  BY <1>1 DEF UploadsIInv, ToldIsTrue
<1> QED BY <1>1, <1>2 DEF UploadsIInv, SiteFits

\* A name is free when the check says so, and the first of them is the place.
LEMMA FreePathIs ==
    ASSUME UploadsTypeOK, NEW f \in Picked, FreeNames(f) # {}
    PROVE  FreePath(f) \in UploadPaths /\ folder[FreePath(f)] = None
<1>1. FreeNames(f) \in SUBSET Nat
  BY UploadsAssumption DEF FreeNames
<1>2. PICK n \in FreeNames(f) : \A m \in FreeNames(f) : ~(m < n)
  BY <1>1, LeastOf
<1>3. \A m \in FreeNames(f) : n <= m
  BY <1>1, <1>2
<1> DEFINE least == CHOOSE k \in FreeNames(f) : \A m \in FreeNames(f) : k <= m
<1>4. least \in FreeNames(f)
  BY <1>2, <1>3
<1>5. FreePath(f) = <<NameOf[f], least>>
  BY DEF FreePath
<1> HIDE DEF least
<1> QED BY <1>4, <1>5 DEF FreeNames, UploadPaths

\* The bytes go: the check found a free name, and a yes where one is needed.
LEMMA SendsStep ==
    ASSUME UploadsIInv, doing = "check", ~aborted, "ok" \in CheckAnswers(inHand), Sends
    PROVE  UploadsIInv'
<1>1. /\ inHand \in Picked /\ upload[inHand].at = "none" /\ ~OnDisk(inHand)
  BY NothingSent
<1>2. FreeNames(inHand) # {} /\ (inHand \in Guarded => batchOf[inHand] \in revealed)
  BY DEF CheckAnswers
<1>3. FreePath(inHand) \in UploadPaths
  BY <1>1, <1>2, FreePathIs DEF UploadsIInv
<1>4. /\ inHand' = inHand /\ queue' = queue /\ queued' = queued /\ aborted' = aborted
      /\ doing' = "send" /\ canCancel' = canCancel /\ went' = FALSE /\ foundAt' = FreePath(inHand)
      /\ waits' = waits /\ UNCHANGED <<fateVars, folder, batchOf, revealed, slot>>
      /\ upload' = [upload EXCEPT ![inHand] = [NoUpload EXCEPT !.at = "out"]]
  BY DEF Sends, Awaits, batchVars
<1>5. /\ canCancel' \in BOOLEAN /\ waits' \in 0..MaxWaits
      /\ slot' \in Picked \cup {Other, None} /\ upload \in [Picked -> UploadRecords]
  BY <1>4 DEF UploadsIInv, UploadsTypeOK, UploadRecords
<1>6. [NoUpload EXCEPT !.at = "out"] \in UploadRecords /\ [NoUpload EXCEPT !.at = "out"].at = "out"
  BY DEF NoUpload, UploadRecords
<1>7. /\ upload' \in [Picked -> UploadRecords] /\ upload'[inHand].at = "out"
      /\ \A f \in Picked \ {inHand} : upload'[f] = upload[f]
  BY <1>1, <1>4, <1>5, <1>6
<1>8. HandFits'
  BY <1>3, <1>4, <1>7 DEF UploadsIInv, HandFits
<1> QED BY <1>1, <1>2, <1>3, <1>4, <1>5, <1>7, <1>8, HandStep

\* The page awaits something else: nothing of the file is at the server.
LEMMA AwaitStep ==
    ASSUME UploadsIInv, doing \in {"check", "ask", "wait"}, ~aborted,
           NEW what \in {"check", "ask", "wait"}, Awaits(what),
           UNCHANGED <<went, waits, foundAt, batchOf, siteVars>>, revealed \subseteq revealed'
    PROVE  UploadsIInv'
<1>1. /\ inHand \in Picked /\ upload[inHand].at = "none" /\ ~OnDisk(inHand)
  BY NothingSent
<1>2. /\ inHand' = inHand /\ queue' = queue /\ queued' = queued /\ aborted' = aborted
      /\ doing' = what /\ canCancel' = canCancel /\ went' = went /\ foundAt' = foundAt
      /\ waits' = waits /\ upload' = upload /\ slot' = slot
      /\ UNCHANGED <<fateVars, folder, batchOf>>
  BY DEF Awaits, siteVars
<1>3. /\ went' \in BOOLEAN /\ canCancel' \in BOOLEAN /\ waits' \in 0..MaxWaits
      /\ foundAt' \in UploadPaths \cup {None}
      /\ slot' \in Picked \cup {Other, None} /\ upload' \in [Picked -> UploadRecords]
  BY <1>2 DEF UploadsIInv, UploadsTypeOK, UploadRecords
<1>4. HandFits'
  BY <1>2 DEF UploadsIInv, HandFits
<1> QED BY <1>1, <1>2, <1>3, <1>4, HandStep

\* Before the bytes: the answer of a check, or a Cancel met.
LEMMA CheckedStep ==
    ASSUME UploadsIInv, Checked
    PROVE  UploadsIInv'
<1>1. /\ inHand \in Picked /\ upload[inHand].at = "none" /\ ~OnDisk(inHand) /\ doing = "check"
  BY NothingSent DEF Checked
<1>2. ASSUME NEW r, EndsAs(r), UNCHANGED <<batchVars, siteVars>>,
             r = "aborted" => aborted, aborted => r \in {"aborted", "failed"}
      PROVE  UploadsIInv'
  <2>1. upload' = upload /\ slot' = slot /\ folder' = folder /\ batchOf' = batchOf /\ revealed' = revealed
    BY <1>2 DEF batchVars, siteVars
  <2> QED BY <1>1, <1>2, <2>1, EndStep
<1>3. CASE aborted
  BY <1>2, <1>3 DEF Checked
<1>4. CASE ~aborted
  <2>1. PICK r \in CheckAnswers(inHand) :
          IF r = "ok" THEN Sends
          ELSE /\ CASE r = "upload_busy" -> SlotTaken
                    [] r = "sensitive" ->
                         IF batchOf[inHand] \in declined THEN EndsAs("skipped")
                         ELSE Awaits("ask") /\ UNCHANGED <<went, waits, foundAt>>
                    [] OTHER -> EndsAs(r)
               /\ UNCHANGED <<batchVars, siteVars>>
    BY <1>4 DEF Checked
  <2>2. r # "aborted"
    BY DEF CheckAnswers
  <2>3. CASE r = "ok"
    BY <1>1, <1>4, <2>1, <2>3, SendsStep
  <2>4. CASE r = "upload_busy"
    <3>1. SlotTaken /\ upload' = upload /\ UNCHANGED <<slot, folder, batchOf, revealed>>
      BY <2>1, <2>4 DEF batchVars, siteVars
    <3> QED BY <1>1, <1>4, <3>1, SlotTakenStep
  <2>5. CASE r = "sensitive"
    <3>1. CASE EndsAs("skipped")
      BY <1>2, <1>4, <2>1, <2>5, <3>1
    <3>2. CASE Awaits("ask") /\ UNCHANGED <<went, waits, foundAt>>
      <4>1. UNCHANGED <<went, waits, foundAt, batchOf, siteVars>> /\ revealed' = revealed
        BY <2>1, <2>5, <3>2 DEF batchVars
      <4> QED BY <1>1, <1>4, <3>2, <4>1, AwaitStep
    <3> QED BY <2>1, <2>5, <3>1, <3>2
  <2>6. CASE r \notin {"ok", "upload_busy", "sensitive"}
    BY <1>2, <1>4, <2>1, <2>2, <2>6
  <2> QED BY <2>3, <2>4, <2>5, <2>6
<1> QED BY <1>3, <1>4
\* A yes lets the check be tried again; a no skips the file.
LEMMA AnswerAskStep ==
    ASSUME UploadsIInv, NEW yes \in BOOLEAN, AnswerAsk(yes)
    PROVE  UploadsIInv'
<1>1. doing = "ask" /\ ~aborted /\ batchOf' = batchOf /\ UNCHANGED siteVars
  BY DEF UploadsIInv, HandFits, AnswerAsk
<1>2. CASE yes
  <2>1. /\ Awaits("check") /\ UNCHANGED <<went, waits, foundAt, batchOf, siteVars>>
        /\ revealed \subseteq revealed'
    BY <1>2 DEF AnswerAsk
  <2> QED BY <1>1, <2>1, AwaitStep
<1>3. CASE ~yes
  <2>1. EndsAs("skipped") /\ revealed' = revealed
    BY <1>3 DEF AnswerAsk
  <2>2. upload' = upload /\ slot' = slot /\ folder' = folder
    BY <1>1 DEF siteVars
  <2>3. upload[inHand].at = "none" /\ ~OnDisk(inHand)
    BY <1>1, NothingSent
  <2> QED BY <1>1, <2>1, <2>2, <2>3, EndStep
<1> QED BY <1>2, <1>3

\* The slot is asked for again.
LEMMA WaitOverStep ==
    ASSUME UploadsIInv, WaitOver
    PROVE  UploadsIInv'
<1>1. /\ doing = "wait" /\ ~aborted /\ Awaits("check")
      /\ UNCHANGED <<went, waits, foundAt, batchOf, siteVars>> /\ revealed' = revealed
  BY DEF UploadsIInv, HandFits, WaitOver, batchVars
<1> QED BY <1>1, AwaitStep

\* What is known of the file in hand while its bytes are sent or looked for.
LEMMA BeingSent ==
    ASSUME UploadsIInv, doing \in {"send", "look"}
    PROVE  /\ inHand \in Picked /\ fate[inHand] = "queued" /\ ~aborted
           /\ doing = "send" => upload[inHand].at # "none"
           /\ upload[inHand].at \in {"out", "slot"} => ~OnDisk(inHand)
           /\ upload[inHand].at = "answered" =>
                /\ doing = "send"
                /\ (upload[inHand].res = "ok") <=> OnDisk(inHand)
                /\ upload[inHand].res = "ok" => upload[inHand].whole
           /\ inHand \in Guarded /\ upload[inHand].at # "none" => batchOf[inHand] \in revealed
           /\ foundAt \in UploadPaths
           /\ upload \in [Picked -> UploadRecords] /\ slot \in Picked \cup {Other, None}
<1>1. inHand \in Picked
  BY DEF UploadsIInv, UploadsTypeOK
<1>2. fate[inHand] = "queued"
  BY <1>1 DEF UploadsIInv, ToldIsTrue
<1>3. upload \in [Picked -> UploadRecords] /\ slot \in Picked \cup {Other, None}
  BY DEF UploadsIInv, UploadsTypeOK, UploadRecords
<1>4. ~aborted /\ foundAt \in UploadPaths /\ (doing = "send" => upload[inHand].at # "none")
  BY DEF UploadsIInv, HandFits
<1> QED BY <1>1, <1>2, <1>3, <1>4 DEF UploadsIInv, SiteFits

\* Every byte went: a Cancel is out of reach.
LEMMA SentStep ==
    ASSUME UploadsIInv, Sent
    PROVE  UploadsIInv'
<1>1. /\ doing = "send" /\ doing' = "send" /\ went' = TRUE /\ canCancel' = FALSE
      /\ UNCHANGED <<inHand, queue, queued, aborted, fateVars, folder, batchOf>>
      /\ waits' = waits /\ foundAt' = foundAt /\ upload' = upload /\ slot' = slot
      /\ revealed' = revealed
  BY DEF Sent, batchVars, siteVars
<1>2. /\ inHand \in Picked /\ fate[inHand] = "queued" /\ ~aborted
      /\ upload[inHand].at # "none"
      /\ upload[inHand].at \in {"out", "slot"} => ~OnDisk(inHand)
      /\ upload[inHand].at = "answered" =>
           /\ (upload[inHand].res = "ok") <=> OnDisk(inHand)
           /\ upload[inHand].res = "ok" => upload[inHand].whole
      /\ inHand \in Guarded /\ upload[inHand].at # "none" => batchOf[inHand] \in revealed
      /\ foundAt \in UploadPaths
      /\ upload \in [Picked -> UploadRecords] /\ slot \in Picked \cup {Other, None}
  BY <1>1, BeingSent
<1>3. HandFits'
  BY <1>1, <1>2 DEF HandFits
<1>4. went' \in BOOLEAN /\ canCancel' \in BOOLEAN /\ waits' \in 0..MaxWaits
  BY <1>1 DEF UploadsIInv, UploadsTypeOK
<1> QED BY <1>1, <1>2, <1>3, <1>4, HandStep

\* A file found at p is told saved there.
LEMMA SavedStep ==
    ASSUME UploadsIInv, doing \in {"send", "look"}, went, NEW p \in UploadPaths,
           folder[p] = inHand, SavedAt(p),
           upload' \in [Picked -> UploadRecords],
           \A f \in Picked \ {inHand} : upload'[f] = upload[f],
           upload'[inHand].at \notin {"answered", "out", "slot"},
           UNCHANGED <<slot, folder, batchOf, revealed>>
    PROVE  UploadsIInv'
<1>1. inHand \in Picked /\ fate[inHand] = "queued" /\ ~aborted
  BY BeingSent
<1>2. /\ fate' = Fates({inHand}, "saved") /\ savedAs' = [savedAs EXCEPT ![inHand] = p]
      /\ doing' = "told" /\ inHand' = inHand /\ queue' = queue /\ queued' = queued
      /\ went' = went /\ canCancel' = canCancel /\ aborted' = aborted /\ waits' = waits
      /\ foundAt' = foundAt /\ stopped' = stopped /\ totals' = totals
  BY DEF SavedAt
<1>3. /\ fate' \in [Picked -> Fate] /\ fate'[inHand] = "saved"
      /\ \A f \in Picked \ {inHand} : fate'[f] = fate[f]
      /\ savedAs' \in [Picked -> UploadPaths \cup {None}] /\ savedAs'[inHand] = p
      /\ \A f \in Picked \ {inHand} : savedAs'[f] = savedAs[f]
  <2>1. fate \in [Picked -> Fate] /\ savedAs \in [Picked -> UploadPaths \cup {None}]
    BY DEF UploadsIInv, UploadsTypeOK, Fate
  <2>2. fate' \in [Picked -> Fate] /\ fate'[inHand] = "saved"
        /\ \A f \in Picked \ {inHand} : fate'[f] = fate[f]
    BY <1>1, <1>2, <2>1 DEF Fates, Fate
  <2>3. /\ savedAs' \in [Picked -> UploadPaths \cup {None}] /\ savedAs'[inHand] = p
        /\ \A f \in Picked \ {inHand} : savedAs'[f] = savedAs[f]
    BY <1>1, <1>2, <2>1
  <2> QED BY <2>2, <2>3
<1>4. /\ folder' = folder /\ batchOf' = batchOf /\ revealed' = revealed /\ slot' = slot
      /\ \A f \in Picked : OnDisk(f)' <=> OnDisk(f)
  BY DEF OnDisk
<1>5. p # None
  BY UploadsAssumption
<1>6. UploadsTypeOK'
  <2>1. (doing' = "idle") = (inHand' = None)
    BY <1>1, <1>2, UploadsAssumption
  <2>2. /\ Items(queue') \subseteq Picked /\ queued' \in Nat /\ totals' \in Nat
        /\ inHand' \in Picked \cup {None} /\ went' \in BOOLEAN /\ canCancel' \in BOOLEAN
        /\ aborted' \in BOOLEAN /\ waits' \in 0..MaxWaits /\ foundAt' \in UploadPaths \cup {None}
        /\ batchOf' \in [Picked -> 0..Cardinality(Picked)]
        /\ folder' \in [UploadPaths -> Picked \cup {Other, None}]
        /\ slot' \in Picked \cup {Other, None}
    BY <1>2, <1>4 DEF UploadsIInv, UploadsTypeOK
  <2> QED BY <1>2, <1>3, <2>1, <2>2 DEF UploadsTypeOK, UploadRecords, Fate
<1>7. QueueFits' /\ HandFits'
  BY <1>1, <1>2, <1>3 DEF UploadsIInv, QueueFits, HandFits
<1>8. SiteFits'
  <2> SUFFICES ASSUME NEW f \in Picked
               PROVE  /\ \/ fate'[f] \in {"saved", "unsure", "aborted"}
                         \/ upload'[f].at = "none" /\ ~OnDisk(f)
                      /\ upload'[f].at \in {"out", "slot"} => ~OnDisk(f)
                      /\ upload'[f].at # "answered"
                      /\ f \in Guarded /\ upload'[f].at # "none" => batchOf[f] \in revealed
                      /\ fate'[f] = "new" => batchOf[f] = 0
    BY <1>4 DEF SiteFits
  <2>1. /\ f # inHand => upload'[f] = upload[f] /\ fate'[f] = fate[f]
        /\ \/ f = inHand /\ doing \in {"send", "look"}
           \/ fate[f] \in {"saved", "unsure", "aborted"}
           \/ upload[f].at = "none" /\ ~OnDisk(f)
        /\ upload[f].at \in {"out", "slot"} => ~OnDisk(f)
        /\ upload[f].at = "answered" => f = inHand
        /\ f \in Guarded /\ upload[f].at # "none" => batchOf[f] \in revealed
        /\ fate[f] = "new" => batchOf[f] = 0
    BY <1>3 DEF UploadsIInv, SiteFits
  <2>2. upload'[inHand].at = "none"
    BY <1>1 DEF UploadRecords
  <2> QED BY <1>3, <2>1, <2>2
<1>9. ToldIsTrue'
  <2> SUFFICES ASSUME NEW f \in Picked
               PROVE  /\ fate'[f] = "saved" => savedAs'[f] # None /\ folder[savedAs'[f]] = f
                      /\ fate'[f] \in {"new", "failed", "skipped", "dropped"} => ~OnDisk(f)
                      /\ \A m, n \in UploadPaths : folder[m] = f /\ folder[n] = f => m = n
                      /\ f \in Guarded /\ OnDisk(f) => batchOf[f] \in revealed
                      /\ fate'[f] = "queued" <=> f \in Items(queue)
    BY <1>2, <1>4 DEF ToldIsTrue
  <2>1. /\ fate[f] = "saved" => savedAs[f] # None /\ folder[savedAs[f]] = f
        /\ fate[f] \in {"new", "failed", "skipped", "dropped"} => ~OnDisk(f)
        /\ \A m, n \in UploadPaths : folder[m] = f /\ folder[n] = f => m = n
        /\ f \in Guarded /\ OnDisk(f) => batchOf[f] \in revealed
        /\ fate[f] = "queued" <=> f \in Items(queue) \/ f = inHand
    BY DEF UploadsIInv, ToldIsTrue
  <2>2. inHand \notin Items(queue)
    BY DEF UploadsIInv, QueueFits
  <2>3. CASE f = inHand
    BY <1>3, <1>5, <2>1, <2>2, <2>3
  <2>4. CASE f # inHand
    <3>1. fate'[f] = fate[f] /\ savedAs'[f] = savedAs[f]
      BY <1>3, <2>4
    <3> QED BY <2>1, <2>4, <3>1
  <2> QED BY <2>3, <2>4
<1>10. /\ \A f \in stopped : fate[f] \in {"aborted", "dropped", "failed"} /\ f # inHand
       /\ \A f \in Picked \ stopped : fate[f] # "dropped"
       /\ totals + queued = Cardinality({f \in Picked : fate[f] # "new"})
       /\ stopped \subseteq Picked
  BY <1>1 DEF UploadsIInv, StoppedFits, CancelIsExact
<1>11. {f \in Picked : fate[f] # "new"}' = {f \in Picked : fate[f] # "new"}
  BY <1>1, <1>3
<1>12. \A f \in stopped : fate'[f] = fate[f]
  BY <1>3, <1>10
<1>13. StoppedFits' /\ CancelIsExact'
  <2>1. StoppedFits'
    BY <1>1, <1>2, <1>10, <1>12 DEF StoppedFits
  <2>2. \A f \in Picked \ stopped : fate'[f] # "dropped"
    BY <1>3, <1>10, <1>12
  <2> QED BY <1>2, <1>10, <1>11, <1>12, <2>1, <2>2 DEF CancelIsExact
<1> QED BY <1>2, <1>6, <1>7, <1>8, <1>9, <1>10, <1>13 DEF UploadsIInv
\* The answer is told as it is, for it is true of the folder.
LEMMA RepliedStep ==
    ASSUME UploadsIInv, Replied
    PROVE  UploadsIInv'
<1> DEFINE r == upload[inHand].res
<1>1. /\ doing = "send" /\ (upload[inHand].whole => went) /\ upload[inHand].at = "answered"
      /\ CASE r = "ok" -> SavedAt(CHOOSE p \in UploadPaths : folder[p] = inHand)
           [] r = "upload_busy" -> SlotTaken
           [] OTHER -> EndsAs(r)
      /\ upload' = [upload EXCEPT ![inHand] = NoUpload]
      /\ UNCHANGED <<slot, folder, batchOf, revealed>>
  BY DEF Replied, InOrder, batchVars
<1>2. /\ inHand \in Picked /\ ~aborted
      /\ (r = "ok") <=> OnDisk(inHand)
      /\ r = "ok" => upload[inHand].whole
      /\ upload \in [Picked -> UploadRecords]
  BY <1>1, BeingSent
<1>3. /\ upload' \in [Picked -> UploadRecords] /\ upload'[inHand].at = "none"
      /\ \A f \in Picked \ {inHand} : upload'[f] = upload[f]
  BY <1>1, <1>2, NoUploadIs
<1>4. r # "aborted"
  BY <1>2 DEF UploadRecords
<1> HIDE DEF r
<1>5. CASE r = "ok"
  <2> DEFINE p == CHOOSE p \in UploadPaths : folder[p] = inHand
  <2>1. p \in UploadPaths /\ folder[p] = inHand
    BY <1>2, <1>5 DEF OnDisk
  <2>2. SavedAt(p)
    BY <1>1, <1>5
  <2> HIDE DEF p
  <2> QED BY <1>1, <1>2, <1>3, <1>5, <2>1, <2>2, SavedStep
<1>6. CASE r = "upload_busy"
  <2>1. SlotTaken /\ ~OnDisk(inHand)
    BY <1>1, <1>2, <1>6
  <2> QED BY <1>1, <1>2, <1>3, <2>1, SlotTakenStep
<1>7. CASE r \notin {"ok", "upload_busy"}
  <2>1. EndsAs(r) /\ ~OnDisk(inHand)
    BY <1>1, <1>2, <1>7
  <2> QED BY <1>1, <1>2, <1>3, <1>4, <2>1, EndStep
<1> QED BY <1>5, <1>6, <1>7

\* A connection lost after every byte leaves a request nobody hears of;
\* before that it leaves none, and no file.
LEMMA LostStep ==
    ASSUME UploadsIInv, Lost
    PROVE  UploadsIInv'
<1>1. /\ doing = "send" /\ (upload[inHand].whole => went)
      /\ doing' = (IF went THEN "look" ELSE "again")
      /\ UNCHANGED <<inHand, queue, queued, aborted, fateVars, folder, batchOf>>
      /\ went' = went /\ waits' = waits /\ foundAt' = foundAt /\ canCancel' = canCancel
      /\ revealed' = revealed
      /\ IF went THEN Unheard(inHand) ELSE Forgets(inHand)
  BY DEF Lost, InOrder, Awaits, batchVars, Unheard, Forgets
<1>2. /\ inHand \in Picked /\ fate[inHand] = "queued" /\ ~aborted
      /\ upload[inHand].at # "none"
      /\ upload[inHand].at \in {"out", "slot"} => ~OnDisk(inHand)
      /\ upload[inHand].at = "answered" =>
           /\ (upload[inHand].res = "ok") <=> OnDisk(inHand)
           /\ upload[inHand].res = "ok" => upload[inHand].whole
      /\ inHand \in Guarded /\ upload[inHand].at # "none" => batchOf[inHand] \in revealed
      /\ foundAt \in UploadPaths
      /\ upload \in [Picked -> UploadRecords] /\ slot \in Picked \cup {Other, None}
  BY <1>1, BeingSent
<1>3. /\ went' \in BOOLEAN /\ canCancel' \in BOOLEAN /\ waits' \in 0..MaxWaits
      /\ went \in BOOLEAN
  BY <1>1 DEF UploadsIInv, UploadsTypeOK
<1>4. /\ slot' \in Picked \cup {Other, None}
      /\ \/ ~went /\ upload' = [upload EXCEPT ![inHand] = NoUpload]
         \/ went /\ upload[inHand].at = "answered" /\ upload' = [upload EXCEPT ![inHand] = NoUpload]
         \/ went /\ upload[inHand].at # "answered" /\ upload' = upload
  BY <1>1, <1>2, <1>3 DEF Unheard, Forgets
<1>5. /\ upload' \in [Picked -> UploadRecords]
      /\ \A f \in Picked \ {inHand} : upload'[f] = upload[f]
  BY <1>2, <1>4, NoUploadIs
<1>6. upload[inHand].at \in {"none", "out", "slot", "answered"}
  BY <1>2 DEF UploadRecords
<1>7. /\ upload'[inHand].at \in {"none", "out", "slot"}
      /\ upload'[inHand].at # "none" => went /\ upload'[inHand] = upload[inHand]
  BY <1>2, <1>4, <1>6, NoUploadIs
<1>8. ~went => upload'[inHand].at = "none" /\ ~OnDisk(inHand)
  BY <1>1, <1>2, <1>6, <1>7
<1>9. HandFits'
  <2>1. went' => ~canCancel'
    BY <1>1 DEF UploadsIInv, HandFits
  <2> QED BY <1>1, <1>2, <2>1 DEF HandFits
<1>10. /\ doing' \in {"look", "again"} /\ foundAt' \in UploadPaths \cup {None}
       /\ upload'[inHand].at \in {"out", "slot"} => ~OnDisk(inHand)
       /\ inHand \in Guarded /\ upload'[inHand].at # "none" => batchOf[inHand] \in revealed
  BY <1>1, <1>2, <1>7
<1> QED BY <1>1, <1>2, <1>3, <1>4, <1>5, <1>7, <1>8, <1>9, <1>10, HandStep

\* The file is told saved only where it was found.
LEMMA LookedStep ==
    ASSUME UploadsIInv, Looked
    PROVE  UploadsIInv'
<1>1. /\ doing = "look" /\ went /\ upload' = upload
      /\ UNCHANGED <<slot, folder, batchOf, revealed>>
  BY DEF Looked, UploadsIInv, HandFits, batchVars, siteVars
<1>2. /\ inHand \in Picked /\ ~aborted /\ foundAt \in UploadPaths
      /\ upload[inHand].at \in {"out", "slot"} => ~OnDisk(inHand)
      /\ upload[inHand].at # "answered"
      /\ upload \in [Picked -> UploadRecords]
  BY <1>1, BeingSent
<1>3. CASE folder[foundAt] = inHand /\ SavedAt(foundAt)
  <2>1. OnDisk(inHand)
    BY <1>2, <1>3 DEF OnDisk
  <2>2. upload'[inHand].at \notin {"answered", "out", "slot"}
    BY <1>1, <1>2, <2>1
  <2> QED BY <1>1, <1>2, <1>3, <2>2, SavedStep
<1>4. CASE EndsAs("unsure")
  BY <1>1, <1>2, <1>4, EndStep
<1> QED BY <1>3, <1>4 DEF Looked

\* A file lost before its last byte is nowhere, whatever the check says.
LEMMA CheckedAgainStep ==
    ASSUME UploadsIInv, CheckedAgain
    PROVE  UploadsIInv'
<1>1. /\ inHand \in Picked /\ upload[inHand].at = "none" /\ ~OnDisk(inHand) /\ doing = "again"
      /\ upload' = upload /\ UNCHANGED <<slot, folder, batchOf, revealed>>
  BY NothingSent DEF CheckedAgain, batchVars, siteVars
<1>2. CASE aborted
  <2>1. PICK r \in {"aborted", "failed", "unauthorized"} : EndsAs(r)
    BY <1>2 DEF CheckedAgain
  <2> QED BY <1>1, <1>2, <2>1, EndStep
<1>3. CASE ~aborted
  <2>1. PICK r \in CheckAnswers(inHand) :
              CASE r = "upload_busy" -> SlotTaken
                [] r = "ok" -> EndsAs("network")
                [] OTHER -> EndsAs(r)
    BY <1>3 DEF CheckedAgain
  <2>2. r # "aborted"
    BY DEF CheckAnswers
  <2>3. CASE r = "upload_busy"
    <3>1. SlotTaken
      BY <2>1, <2>3
    <3> QED BY <1>1, <1>3, <3>1, SlotTakenStep
  <2>4. CASE r = "ok"
    <3>1. EndsAs("network")
      BY <2>1, <2>4
    <3> QED BY <1>1, <1>3, <3>1, EndStep
  <2>5. CASE r \notin {"ok", "upload_busy"}
    <3>1. EndsAs(r)
      BY <2>1, <2>5
    <3> QED BY <1>1, <1>3, <2>2, <3>1, EndStep
  <2> QED BY <2>3, <2>4, <2>5
<1> QED BY <1>2, <1>3
\* The file is told of; the next one is taken.
LEMMA AfterSaveStep ==
    ASSUME UploadsIInv, AfterSave
    PROVE  UploadsIInv'
<1>1. /\ doing = "told" /\ Continue(queue, FALSE) /\ fate' = fate /\ savedAs' = savedAs
      /\ stopped' = stopped /\ upload' = upload /\ UNCHANGED <<slot, folder, batchOf, revealed>>
  BY DEF AfterSave, batchVars, siteVars
<1>2. /\ queue \in Seq(Picked) /\ Distinct(queue) /\ Len(queue) <= queued
      /\ fate \in [Picked -> Fate] /\ upload \in [Picked -> UploadRecords]
      /\ slot \in Picked \cup {Other, None} /\ inHand \in Picked
      /\ Items(queue) \subseteq Picked
  BY <1>1 DEF UploadsIInv, UploadsTypeOK, QueueFits, Fate, UploadRecords
<1>3. fate[inHand] = "saved" /\ ~aborted
  BY <1>1 DEF UploadsIInv, HandFits
<1>4. (\A f \in Items(queue) : fate[f] = "queued") /\ upload[inHand].at # "answered"
  BY <1>1, <1>2 DEF UploadsIInv, ToldIsTrue, SiteFits
<1>5. /\ UploadsTypeOK' /\ QueueFits' /\ HandFits' /\ SiteFits' /\ ToldIsTrue'
      /\ (totals + queued)' = totals + queued
      /\ aborted' => aborted
  <2>1. fate' \in [Picked -> Fate] /\ fate'[inHand] = "saved" /\ \A f \in Items(queue) : fate'[f] = "queued"
    BY <1>1, <1>2, <1>3, <1>4
  <2>2. /\ upload' \in [Picked -> UploadRecords] /\ slot' \in Picked \cup {Other, None}
        /\ upload'[inHand].at \in {"none", upload[inHand].at} \ {"answered"}
        /\ \A f \in Picked \ {inHand} : upload'[f] = upload[f]
    BY <1>1, <1>2, <1>4
  <2> QED BY <1>1, <1>2, <1>3, <2>1, <2>2, RunStep
<1>6. StoppedFits' /\ CancelIsExact'
  BY <1>1, <1>3, <1>5 DEF UploadsIInv, StoppedFits, CancelIsExact
<1> QED BY <1>1, <1>5, <1>6 DEF UploadsIInv

\* A Cancel drops the files that wait; the one in hand it ends at once, or,
\* while a check is under way, with that check.
LEMMA CancelStep ==
    ASSUME UploadsIInv, Cancel
    PROVE  UploadsIInv'
<1> DEFINE rest == Items(queue)
<1>1. /\ doing # "idle" /\ canCancel /\ ~aborted
      /\ stopped' = stopped \cup {inHand} \cup rest
      /\ UNCHANGED <<batchOf, revealed, savedAs>>
      /\ CancelKeeps(queue) = <<>> /\ Items(<<>>) = {}
      /\ IF doing \in {"check", "again"}
             THEN /\ fate' = Fates(rest, "dropped") /\ queue' = <<>>
                  /\ aborted' = TRUE
                  /\ UNCHANGED <<inHand, doing, went, canCancel, waits, foundAt, queued,
                                 totals, declined, siteVars>>
             ELSE /\ fate' = [Fates(rest, "dropped") EXCEPT ![inHand] = "aborted"]
                  /\ Continue(<<>>, TRUE)
                  /\ CASE doing # "send" -> UNCHANGED siteVars
                       [] upload[inHand].whole -> Unheard(inHand)
                       [] OTHER -> Forgets(inHand)
  <2>1. CancelKeeps(queue) = <<>> /\ Items(<<>>) = {}
    BY DEF CancelKeeps, Items
  <2>2. Items(queue) \ Items(CancelKeeps(queue)) = rest
    BY <2>1
  <2> QED BY <2>1, <2>2 DEF Cancel
<1>2. /\ inHand \in Picked /\ inHand \notin rest /\ rest \subseteq Picked
      /\ fate \in [Picked -> Fate] /\ upload \in [Picked -> UploadRecords]
      /\ slot \in Picked \cup {Other, None} /\ queued \in Nat /\ stopped \subseteq Picked
  BY <1>1 DEF UploadsIInv, UploadsTypeOK, QueueFits, Fate, UploadRecords
<1>3. /\ \A f \in rest : fate[f] = "queued"
      /\ fate[inHand] = "queued"
  <2>1. doing # "told"
    BY <1>1 DEF UploadsIInv, HandFits
  <2> QED BY <1>2, <2>1 DEF UploadsIInv, ToldIsTrue
<1>4. /\ fate' \in [Picked -> Fate]
      /\ \A f \in Picked \ ({inHand} \cup rest) : fate'[f] = fate[f]
      /\ \A f \in rest : fate'[f] = "dropped"
      /\ fate'[inHand] = IF doing \in {"check", "again"} THEN "queued" ELSE "aborted"
  <2>1. /\ Fates(rest, "dropped") \in [Picked -> Fate]
        /\ \A f \in rest : Fates(rest, "dropped")[f] = "dropped"
        /\ \A f \in Picked \ rest : Fates(rest, "dropped")[f] = fate[f]
    BY <1>2 DEF Fates, Fate
  <2> HIDE DEF rest
  <2> QED BY <1>1, <1>2, <1>3, <2>1 DEF Fate
<1>5. /\ \A f \in stopped : fate[f] \in {"aborted", "dropped", "failed"} /\ f \notin {inHand} \cup rest
      /\ \A f \in Picked \ stopped : fate[f] # "dropped"
      /\ totals + queued = Cardinality({f \in Picked : fate[f] # "new"})
  BY <1>1, <1>3 DEF UploadsIInv, StoppedFits, CancelIsExact
<1>6. /\ \A f \in stopped : fate'[f] = fate[f]
      /\ stopped' \subseteq Picked
      /\ \A f \in Picked \ stopped' : fate'[f] # "dropped"
  <2>1. \A f \in stopped : fate'[f] = fate[f]
    BY <1>2, <1>4, <1>5
  <2>2. \A f \in Picked \ stopped' : f \in Picked \ stopped /\ fate'[f] = fate[f]
    BY <1>1, <1>4
  <2>3. stopped \subseteq stopped' /\ stopped' \subseteq Picked
    BY <1>1, <1>2
  <2> HIDE DEF rest
  <2> QED BY <1>5, <2>1, <2>2, <2>3
<1>7. CASE doing \in {"check", "again"}
  <2>1. /\ queue' = <<>> /\ aborted' = TRUE /\ inHand' = inHand /\ doing' = doing /\ went' = went
        /\ canCancel' = canCancel /\ waits' = waits /\ foundAt' = foundAt /\ queued' = queued
        /\ totals' = totals /\ upload' = upload /\ slot' = slot /\ folder' = folder
        /\ batchOf' = batchOf /\ revealed' = revealed /\ savedAs' = savedAs
        /\ fate'[inHand] = "queued"
    BY <1>1, <1>4, <1>7 DEF siteVars
  <2>2. Items(queue') = {} /\ queue' \in Seq(Picked) /\ Len(queue') = 0
    BY <1>1, <2>1
  <2>3. UploadsTypeOK'
    <3>1. aborted' \in BOOLEAN
      BY <2>1
    <3>2. /\ (doing' = "idle") = (inHand' = None)
          /\ doing' \in {"idle", "check", "ask", "wait", "send", "look", "again", "told"}
          /\ queued' \in Nat /\ totals' \in Nat
          /\ inHand' \in Picked \cup {None} /\ went' \in BOOLEAN /\ canCancel' \in BOOLEAN
          /\ waits' \in 0..MaxWaits /\ foundAt' \in UploadPaths \cup {None}
          /\ batchOf' \in [Picked -> 0..Cardinality(Picked)]
          /\ folder' \in [UploadPaths -> Picked \cup {Other, None}]
          /\ slot' \in Picked \cup {Other, None}
          /\ upload' \in [Picked -> UploadRecords]
          /\ savedAs' \in [Picked -> UploadPaths \cup {None}]
      BY <2>1 DEF UploadsIInv, UploadsTypeOK, UploadRecords
    <3> QED BY <1>4, <2>2, <3>1, <3>2 DEF UploadsTypeOK, UploadRecords, Fate
  <2>4. QueueFits'
    BY <1>2, <2>1, <2>2 DEF QueueFits, Distinct
  <2>5. HandFits'
    BY <1>7, <2>1 DEF UploadsIInv, HandFits
  <2>6. \A f \in Picked : /\ OnDisk(f)' <=> OnDisk(f)
                          /\ upload[f].at # "answered"
                          /\ f \in {inHand} \cup rest => upload[f].at = "none" /\ ~OnDisk(f)
    BY <1>3, <1>7, <2>1 DEF UploadsIInv, SiteFits, OnDisk
  <2>7. SiteFits'
    <3> SUFFICES ASSUME NEW f \in Picked
                 PROVE  /\ \/ fate'[f] \in {"saved", "unsure", "aborted"}
                           \/ upload[f].at = "none" /\ ~OnDisk(f)
                        /\ upload[f].at \in {"out", "slot"} => ~OnDisk(f)
                        /\ upload[f].at # "answered"
                        /\ f \in Guarded /\ upload[f].at # "none" => batchOf[f] \in revealed
                        /\ fate'[f] = "new" => batchOf[f] = 0
      BY <2>1, <2>6 DEF SiteFits
    <3>1. /\ \/ fate[f] \in {"saved", "unsure", "aborted"}
             \/ upload[f].at = "none" /\ ~OnDisk(f)
          /\ upload[f].at \in {"out", "slot"} => ~OnDisk(f)
          /\ f \in Guarded /\ upload[f].at # "none" => batchOf[f] \in revealed
          /\ fate[f] = "new" => batchOf[f] = 0
      BY <1>7 DEF UploadsIInv, SiteFits
    <3> HIDE DEF rest
    <3> QED BY <1>4, <2>1, <2>6, <3>1
  <2>8. ToldIsTrue'
    <3> SUFFICES ASSUME NEW f \in Picked
                 PROVE  /\ fate'[f] = "saved" => savedAs[f] # None /\ folder[savedAs[f]] = f
                        /\ fate'[f] \in {"new", "failed", "skipped", "dropped"} => ~OnDisk(f)
                        /\ \A p, q \in UploadPaths : folder[p] = f /\ folder[q] = f => p = q
                        /\ f \in Guarded /\ OnDisk(f) => batchOf[f] \in revealed
                        /\ fate'[f] = "queued" <=> f = inHand
      BY <1>7, <2>1, <2>2, <2>6 DEF ToldIsTrue
    <3>1. /\ fate[f] = "saved" => savedAs[f] # None /\ folder[savedAs[f]] = f
          /\ fate[f] \in {"new", "failed", "skipped", "dropped"} => ~OnDisk(f)
          /\ \A p, q \in UploadPaths : folder[p] = f /\ folder[q] = f => p = q
          /\ f \in Guarded /\ OnDisk(f) => batchOf[f] \in revealed
          /\ fate[f] = "queued" <=> f \in rest \/ f = inHand
      BY <1>7 DEF UploadsIInv, ToldIsTrue
    <3> HIDE DEF rest
    <3> QED BY <1>4, <2>1, <2>6, <3>1
  <2>9. {f \in Picked : fate[f] # "new"}' = {f \in Picked : fate[f] # "new"}
    <3> HIDE DEF rest
    <3> QED BY <1>3, <1>4, <2>1
  <2>10. StoppedFits' /\ CancelIsExact'
    <3>1. \A f \in stopped' : fate'[f] \in {"aborted", "dropped", "failed"} \/ f = inHand
      <4> HIDE DEF rest
      <4> QED BY <1>1, <1>4, <1>5, <1>6
    <3>2. inHand \in stopped'
      BY <1>1
    <3> QED BY <1>5, <1>6, <2>1, <2>9, <3>1, <3>2 DEF StoppedFits, CancelIsExact
  <2> QED BY <1>6, <2>3, <2>4, <2>5, <2>7, <2>8, <2>10 DEF UploadsIInv
<1>8. CASE doing \notin {"check", "again"}
  <2>1. /\ Continue(<<>>, TRUE) /\ folder' = folder
        /\ CASE doing # "send" -> UNCHANGED siteVars
             [] upload[inHand].whole -> Unheard(inHand)
             [] OTHER -> Forgets(inHand)
    BY <1>1, <1>8 DEF siteVars, Unheard, Forgets
  <2>2. /\ slot' \in Picked \cup {Other, None}
        /\ \/ upload' = upload /\ upload[inHand].at # "answered"
           \/ upload' = [upload EXCEPT ![inHand] = NoUpload]
    <3>1. doing # "send" => upload[inHand].at # "answered"
      BY <1>2 DEF UploadsIInv, SiteFits
    <3> QED BY <1>2, <2>1, <3>1 DEF siteVars, Unheard, Forgets
  <2>3. /\ upload' \in [Picked -> UploadRecords]
        /\ \A f \in Picked \ {inHand} : upload'[f] = upload[f]
        /\ upload'[inHand].at \in {"none", upload[inHand].at} \ {"answered"}
    BY <1>2, <2>2, NoUploadIs
  <2>4. /\ UploadsTypeOK' /\ QueueFits' /\ HandFits' /\ SiteFits' /\ ToldIsTrue'
        /\ (totals + queued)' = totals + queued
        /\ {f \in Picked : fate[f] # "new"}' = {f \in Picked : fate[f] # "new"}
        /\ ~aborted'
    <3>1. <<>> \in Seq(Picked) /\ Distinct(<<>>) /\ Len(<<>>) <= queued
      BY <1>2 DEF Distinct
    <3>2. /\ fate'[inHand] = "aborted" /\ Items(<<>>) \subseteq rest
          /\ \A f \in rest \ Items(<<>>) : fate'[f] \in {"failed", "dropped"}
          /\ \A f \in Items(<<>>) : fate'[f] = "queued"
      BY <1>1, <1>4, <1>8
    <3> QED BY <1>1, <1>4, <2>1, <2>2, <2>3, <3>1, <3>2, RunStep
  <2>5. StoppedFits' /\ CancelIsExact'
    <3>1. \A f \in stopped' : fate'[f] \in {"aborted", "dropped", "failed"}
      <4> HIDE DEF rest
      <4> QED BY <1>1, <1>4, <1>5, <1>6, <1>8
    <3> QED BY <1>5, <1>6, <2>4, <3>1 DEF StoppedFits, CancelIsExact
  <2> QED BY <1>6, <2>4, <2>5 DEF UploadsIInv
<1> QED BY <1>7, <1>8
\* There are no more starts than files: one that has new files is not the
\* start of any yet.
LEMMA StartsBounded ==
    ASSUME UploadsIInv, NEW new \in Picked, fate[new] = "new"
    PROVE  1 + Cardinality({batchOf[f] : f \in Picked} \ {0}) \in 1..Cardinality(Picked)
<1> DEFINE others == Picked \ {new}
           starts == {batchOf[f] : f \in others}
           b == [f \in others |-> batchOf[f]]
<1>1. batchOf[new] = 0
  BY DEF UploadsIInv, SiteFits
<1>2. /\ IsFiniteSet(Picked) /\ Cardinality(Picked) \in Nat
      /\ IsFiniteSet(others) /\ Cardinality(others) = Cardinality(Picked) - 1
  BY UploadsAssumption, FS_CardinalityType, FS_RemoveElement
<1>3. b \in Surjection(others, starts)
  BY DEF Surjection
<1>4. IsFiniteSet(starts) /\ Cardinality(starts) <= Cardinality(others)
  <2> HIDE DEF b, others, starts
  <2> QED BY <1>2, <1>3, FS_Surjection
<1>5. {batchOf[f] : f \in Picked} \ {0} \in SUBSET starts
  BY <1>1
<1> DEFINE B == {batchOf[f] : f \in Picked} \ {0}
<1>6. Cardinality(starts) \in Nat
  BY <1>4, FS_CardinalityType
<1>7. IsFiniteSet(B) /\ Cardinality(B) <= Cardinality(starts)
  <2>0. B \in SUBSET starts
    BY <1>5
  <2> HIDE DEF B, starts
  <2> QED BY <1>4, <2>0, FS_Subset
<1>8. Cardinality(B) \in Nat
  <2> HIDE DEF B
  <2> QED BY <1>7, FS_CardinalityType
<1> HIDE DEF starts, others
<1>9. 1 + Cardinality(B) \in 1..Cardinality(Picked)
  <2> HIDE DEF B
  <2> QED BY <1>2, <1>4, <1>6, <1>7, <1>8
<1> QED BY <1>9

\* Some queued files and others, joined.
LEMMA Joined ==
    ASSUME NEW p \in Seq(Picked), Distinct(p), NEW q \in Seq(Picked), Distinct(q),
           Items(p) \cap Items(q) = {}
    PROVE  /\ p \o q \in Seq(Picked) /\ Distinct(p \o q)
           /\ Items(p \o q) = Items(p) \cup Items(q)
           /\ Len(p \o q) = Len(p) + Len(q) /\ Len(p) \in Nat /\ Len(q) \in Nat
<1> DEFINE r == p \o q
           m == Len(p)
           n == Len(q)
<1>1. /\ r \in Seq(Picked) /\ Len(r) = m + n /\ m \in Nat /\ n \in Nat
      /\ \A i \in 1..m + n : r[i] = IF i <= m THEN p[i] ELSE q[i - m]
      /\ DOMAIN r = 1..m + n /\ DOMAIN p = 1..m /\ DOMAIN q = 1..n
  BY ConcatProperties, LenProperties
<1>2. /\ Items(p) = {p[i] : i \in 1..m} /\ Items(q) = {q[i] : i \in 1..n}
      /\ Items(r) = {r[i] : i \in 1..m + n}
  BY <1>1 DEF Items
<1> HIDE DEF r, m, n
<1>3. \A i \in 1..m + n :
        \/ i \in 1..m /\ r[i] = p[i] /\ r[i] \in Items(p)
        \/ i - m \in 1..n /\ i > m /\ r[i] = q[i - m] /\ r[i] \in Items(q)
  BY <1>1, <1>2
<1>4. Distinct(p) /\ Distinct(q) => Distinct(r)
  <2> SUFFICES ASSUME \A i, j \in 1..m : p[i] = p[j] => i = j,
                      \A i, j \in 1..n : q[i] = q[j] => i = j,
                      NEW i \in 1..m + n, NEW j \in 1..m + n, r[i] = r[j]
               PROVE  i = j
    BY <1>1 DEF Distinct, m, n
  <2>1. CASE i \in 1..m /\ r[i] = p[i] /\ r[i] \in Items(p)
    BY <1>3, <2>1
  <2>2. CASE i - m \in 1..n /\ i > m /\ r[i] = q[i - m] /\ r[i] \in Items(q)
    <3>1. j - m \in 1..n /\ r[j] = q[j - m]
      BY <1>3, <2>2
    <3>2. i - m = j - m
      BY <2>2, <3>1
    <3> QED BY <1>1, <3>2
  <2> QED BY <1>3, <2>1, <2>2
<1>5. Items(r) = Items(p) \cup Items(q)
  <2>1. Items(r) \subseteq Items(p) \cup Items(q)
    BY <1>2, <1>3
  <2>2. \A i \in 1..m : i \in 1..m + n /\ r[i] = p[i]
    BY <1>1
  <2>3. \A i \in 1..n : i + m \in 1..m + n /\ r[i + m] = q[i]
    BY <1>1
  <2> QED BY <1>2, <2>1, <2>2, <2>3
<1> QED BY <1>1, <1>4, <1>5 DEF r, m, n

\* Files of one start are queued behind those that wait, or begin a run.
LEMMA StartStep ==
    ASSUME UploadsIInv, NEW files \in Seq(Picked), files # <<>>, Distinct(files),
           IsFiniteSet(Items(files)), Cardinality(Items(files)) = Len(files),
           StartUploads(files)
    PROVE  UploadsIInv'
<1> DEFINE new == Items(files)
           batch == 1 + Cardinality({batchOf[f] : f \in Picked} \ {0})
<1>1. /\ \A f \in new : fate[f] = "new"
      /\ fate' = Fates(new, "queued")
      /\ batchOf' = [f \in Picked |-> IF f \in new THEN batch ELSE batchOf[f]]
      /\ queued' = queued + Len(files)
      /\ IF doing = "idle"
           THEN TakesNext(files) /\ aborted' = FALSE
           ELSE /\ queue' = queue \o files
                /\ UNCHANGED <<inHand, doing, went, canCancel, aborted, waits, foundAt>>
      /\ revealed' = revealed /\ upload' = upload /\ slot' = slot /\ folder' = folder
      /\ savedAs' = savedAs /\ stopped' = stopped /\ totals' = totals
  BY DEF StartUploads, siteVars
<1>2. /\ Head(files) \in new /\ new \subseteq Picked
      /\ Tail(files) \in Seq(Picked) /\ Distinct(Tail(files))
      /\ Items(Tail(files)) = new \ {Head(files)}
      /\ Len(Tail(files)) = Len(files) - 1 /\ Len(files) \in Nat
  BY FirstAndRest
<1>3. batch \in 1..Cardinality(Picked)
  BY <1>1, <1>2, StartsBounded
<1> HIDE DEF new, batch
<1>4. /\ fate \in [Picked -> Fate] /\ batchOf \in [Picked -> 0..Cardinality(Picked)]
      /\ upload \in [Picked -> UploadRecords] /\ queued \in Nat /\ totals \in Nat
      /\ aborted \in BOOLEAN /\ inHand \in Picked \cup {None}
      /\ (doing = "idle") = (inHand = None) /\ None \notin Picked
      /\ queue \in Seq(Picked) /\ Distinct(queue) /\ inHand \notin Items(queue)
      /\ Items(queue) \subseteq Picked /\ Len(queue) <= queued
      /\ doing = "idle" => queue = <<>>
  BY UploadsAssumption DEF UploadsIInv, UploadsTypeOK, QueueFits, Fate, UploadRecords
<1>5. /\ fate' \in [Picked -> Fate]
      /\ \A f \in new : fate'[f] = "queued"
      /\ \A f \in Picked \ new : fate'[f] = fate[f]
  BY <1>1, <1>2, <1>4 DEF Fates, Fate
<1>6. /\ batchOf' \in [Picked -> 0..Cardinality(Picked)]
      /\ \A f \in Picked \ new : batchOf'[f] = batchOf[f]
  BY <1>1, <1>3, <1>4
<1>7. \A f \in Picked : fate[f] = "queued" <=> f \in Items(queue) \/ (f = inHand /\ doing # "told")
  BY DEF UploadsIInv, ToldIsTrue
<1>8. /\ new \cap Items(queue) = {} /\ inHand \notin new
  <2>1. doing = "told" => fate[inHand] = "saved"
    BY DEF UploadsIInv, HandFits
  <2> QED BY <1>1, <1>2, <1>4, <1>7, <2>1
<1>9. \A f \in Picked : OnDisk(f)' <=> OnDisk(f)
  BY <1>1 DEF OnDisk
<1>10. /\ queue' \in Seq(Picked) /\ Distinct(queue') /\ Len(queue') <= queued'
       /\ inHand' \notin Items(queue') /\ Items(queue') \subseteq Picked
       /\ inHand' \in Picked \cup {None} /\ doing' # "idle" /\ inHand' # None
       /\ \A f \in Picked : (f \in Items(queue') \/ (f = inHand' /\ doing' # "told")) <=>
             (f \in new \/ f \in Items(queue) \/ (f = inHand /\ doing # "told"))
  <2>1. CASE doing = "idle"
    <3>1. queue' = Tail(files) /\ inHand' = Head(files) /\ doing' = "check" /\ Items(queue) = {}
      BY <1>1, <1>4, <2>1 DEF TakesNext, Items
    <3>2. Len(queue') <= queued'
      BY <1>1, <1>2, <1>4, <3>1
    <3> QED BY <1>2, <1>4, <2>1, <3>1, <3>2
  <2>2. CASE doing # "idle"
    <3>1. queue' = queue \o files /\ inHand' = inHand /\ doing' = doing
      BY <1>1, <2>2
    <3>2. /\ queue' \in Seq(Picked) /\ Distinct(queue')
          /\ Items(queue') = Items(queue) \cup new
          /\ Len(queue') = Len(queue) + Len(files) /\ Len(queue) \in Nat
      BY <1>4, <1>8, <3>1, Joined DEF new
    <3>3. Len(queue') <= queued'
      BY <1>1, <1>2, <1>4, <3>2
    <3> QED BY <1>2, <1>4, <1>8, <2>2, <3>1, <3>2, <3>3
  <2> QED BY <2>1, <2>2
<1>11. /\ went' \in BOOLEAN /\ canCancel' \in BOOLEAN /\ aborted' \in BOOLEAN
       /\ waits' \in 0..MaxWaits /\ foundAt' \in UploadPaths \cup {None}
       /\ doing' \in {"idle", "check", "ask", "wait", "send", "look", "again", "told"}
  <2>1. CASE doing = "idle"
    <3>1. doing' = "check" /\ canCancel' = TRUE /\ went' = FALSE /\ waits' = 0 /\ foundAt' = None
          /\ aborted' = FALSE
      BY <1>1, <2>1 DEF TakesNext
    <3>2. went' \in BOOLEAN /\ canCancel' \in BOOLEAN /\ aborted' \in BOOLEAN
      BY <3>1, Zenon
    <3>3. waits' \in 0..MaxWaits
      BY <3>1, UploadsAssumption
    <3> QED BY <3>1, <3>2, <3>3
  <2>2. CASE doing # "idle"
    BY <1>1, <2>2 DEF UploadsIInv, UploadsTypeOK
  <2> QED BY <2>1, <2>2
<1>12. UploadsTypeOK'
  <2>1. /\ queued' \in Nat /\ totals' \in Nat /\ (doing' = "idle") = (inHand' = None)
    BY <1>1, <1>2, <1>4, <1>10
  <2>2. /\ folder' \in [UploadPaths -> Picked \cup {Other, None}]
        /\ slot' \in Picked \cup {Other, None} /\ upload' \in [Picked -> UploadRecords]
        /\ savedAs' \in [Picked -> UploadPaths \cup {None}]
    BY <1>1 DEF UploadsIInv, UploadsTypeOK, UploadRecords
  <2> QED BY <1>5, <1>6, <1>10, <1>11, <2>1, <2>2 DEF UploadsTypeOK, UploadRecords, Fate
<1>13. QueueFits'
  BY <1>10 DEF QueueFits
<1>14. HandFits'
  <2>1. CASE doing = "idle"
    <3>1. doing' = "check" /\ went' = FALSE /\ aborted' = FALSE
      BY <1>1, <2>1 DEF TakesNext
    <3> QED BY <3>1 DEF HandFits
  <2>2. CASE doing # "idle"
    <3>1. inHand' = inHand /\ doing' = doing /\ went' = went /\ canCancel' = canCancel
          /\ aborted' = aborted /\ foundAt' = foundAt /\ upload' = upload /\ inHand \in Picked
      BY <1>1, <1>4, <2>2
    <3>2. fate'[inHand] = fate[inHand]
      BY <1>5, <1>8, <3>1
    <3> QED BY <3>1, <3>2 DEF UploadsIInv, HandFits
  <2> QED BY <2>1, <2>2
<1>15. SiteFits'
  <2> SUFFICES ASSUME NEW f \in Picked
               PROVE  /\ \/ f = inHand' /\ doing' \in {"send", "look"}
                         \/ fate'[f] \in {"saved", "unsure", "aborted"}
                         \/ upload[f].at = "none" /\ ~OnDisk(f)
                      /\ upload[f].at \in {"out", "slot"} => ~OnDisk(f)
                      /\ upload[f].at = "answered" =>
                            /\ f = inHand' /\ doing' = "send"
                            /\ (upload[f].res = "ok") <=> OnDisk(f)
                            /\ upload[f].res = "ok" => upload[f].whole
                      /\ f \in Guarded /\ upload[f].at # "none" => batchOf'[f] \in revealed
                      /\ fate'[f] = "new" => batchOf'[f] = 0
    BY <1>1, <1>9 DEF SiteFits
  <2>1. /\ \/ f = inHand /\ doing \in {"send", "look"}
           \/ fate[f] \in {"saved", "unsure", "aborted"}
           \/ upload[f].at = "none" /\ ~OnDisk(f)
        /\ upload[f].at \in {"out", "slot"} => ~OnDisk(f)
        /\ upload[f].at = "answered" =>
              /\ f = inHand /\ doing = "send"
              /\ (upload[f].res = "ok") <=> OnDisk(f)
              /\ upload[f].res = "ok" => upload[f].whole
        /\ f \in Guarded /\ upload[f].at # "none" => batchOf[f] \in revealed
        /\ fate[f] = "new" => batchOf[f] = 0
    BY DEF UploadsIInv, SiteFits
  <2>2. doing \in {"send", "look"} => inHand' = inHand /\ doing' = doing
    BY <1>1
  <2>3. CASE f \in new
    BY <1>1, <1>5, <1>8, <2>1, <2>3
  <2>4. CASE f \notin new
    <3>1. fate'[f] = fate[f] /\ batchOf'[f] = batchOf[f]
      BY <1>5, <1>6, <2>4
    <3> QED BY <2>1, <2>2, <3>1
  <2> QED BY <2>3, <2>4
<1>16. ToldIsTrue'
  <2> SUFFICES ASSUME NEW f \in Picked
               PROVE  /\ fate'[f] = "saved" => savedAs[f] # None /\ folder[savedAs[f]] = f
                      /\ fate'[f] \in {"new", "failed", "skipped", "dropped"} => ~OnDisk(f)
                      /\ \A p, q \in UploadPaths : folder[p] = f /\ folder[q] = f => p = q
                      /\ f \in Guarded /\ OnDisk(f) => batchOf'[f] \in revealed
                      /\ fate'[f] = "queued" <=> f \in new \/ fate[f] = "queued"
    BY <1>1, <1>7, <1>9, <1>10 DEF ToldIsTrue
  <2>1. /\ fate[f] = "saved" => savedAs[f] # None /\ folder[savedAs[f]] = f
        /\ fate[f] \in {"new", "failed", "skipped", "dropped"} => ~OnDisk(f)
        /\ \A p, q \in UploadPaths : folder[p] = f /\ folder[q] = f => p = q
        /\ f \in Guarded /\ OnDisk(f) => batchOf[f] \in revealed
    BY DEF UploadsIInv, ToldIsTrue
  <2>2. CASE f \in new
    BY <1>1, <1>5, <2>1, <2>2
  <2>3. CASE f \notin new
    <3>1. fate'[f] = fate[f] /\ batchOf'[f] = batchOf[f]
      BY <1>5, <1>6, <2>3
    <3> QED BY <2>1, <2>3, <3>1
  <2> QED BY <2>2, <2>3
<1>17. (totals + queued = Cardinality({f \in Picked : fate[f] # "new"}))'
  <2> DEFINE old == {f \in Picked : fate[f] # "new"}
  <2>1. {f \in Picked : fate[f] # "new"}' = old \cup new /\ old \cap new = {}
    BY <1>1, <1>2, <1>5
  <2>2. totals + queued = Cardinality(old)
    BY DEF UploadsIInv, CancelIsExact
  <2>3. IsFiniteSet(old)
    <3>1. old \in SUBSET Picked
      OBVIOUS
    <3> HIDE DEF old
    <3> QED BY <3>1, UploadsAssumption, FS_Subset
  <2>4. IsFiniteSet(new) /\ Cardinality(new) = Len(files)
    BY DEF new
  <2> HIDE DEF old
  <2>5. Cardinality(old \cup new) = Cardinality(old) + Cardinality(new)
    <3>1. Cardinality(old) \in Nat /\ Cardinality(new) \in Nat /\ Cardinality(old \cap new) = 0
      BY <2>1, <2>3, <2>4, FS_CardinalityType, FS_EmptySet
    <3>2. Cardinality(old \cup new) =
            Cardinality(old) + Cardinality(new) - Cardinality(old \cap new)
      BY <2>3, <2>4, FS_Union
    <3> QED BY <3>1, <3>2
  <2>6. totals' + queued' = Cardinality(old) + Len(files)
    BY <1>1, <1>2, <1>4, <2>2
  <2> QED BY <2>1, <2>4, <2>5, <2>6
<1>18. \A f \in stopped : f \in Picked /\ fate'[f] = fate[f]
  <2>1. \A f \in stopped : f \in Picked /\
           (fate[f] \in {"aborted", "dropped", "failed"} \/ f = inHand)
    BY DEF UploadsIInv, StoppedFits
  <2> QED BY <1>1, <1>5, <1>8, <2>1
<1>19. StoppedFits' /\ CancelIsExact'
  <2>1. /\ \A f \in stopped : fate[f] \in {"aborted", "dropped", "failed"} \/ (f = inHand /\ aborted)
        /\ \A f \in Picked \ stopped : fate[f] # "dropped"
    BY DEF UploadsIInv, StoppedFits, CancelIsExact
  <2>2. aborted => doing # "idle"
    BY DEF UploadsIInv, HandFits
  <2>3. \/ aborted' = aborted /\ inHand' = inHand
        \/ ~aborted' /\ ~aborted
    BY <1>1, <2>2
  <2>4. StoppedFits'
    BY <1>1, <1>18, <2>1, <2>3 DEF StoppedFits
  <2>5. \A f \in stopped : fate'[f] \in {"aborted", "dropped", "failed"} \/ f = inHand'
    BY <1>18, <2>1, <2>3
  <2>6. \A f \in Picked \ stopped : fate'[f] # "dropped"
    BY <1>5, <1>18, <2>1
  <2> QED BY <1>1, <1>17, <2>4, <2>5, <2>6 DEF CancelIsExact
<1> QED BY <1>1, <1>12, <1>13, <1>14, <1>15, <1>16, <1>19 DEF UploadsIInv
\* What goes on at the server: what is in the folder stays, and a file comes
\* there only by its request.
LEMMA SiteStep ==
    ASSUME UploadsIInv, UNCHANGED <<runVars, batchVars, fateVars>>,
           upload' \in [Picked -> UploadRecords], slot' \in Picked \cup {Other, None},
           folder' \in [UploadPaths -> Picked \cup {Other, None}],
           \A p \in UploadPaths : folder[p] # None => folder'[p] = folder[p],
           \A f \in Picked :
             /\ upload'[f].at # "none" => upload[f].at # "none"
             /\ upload[f].at # "none" /\ f = inHand /\ doing = "send" => upload'[f].at # "none"
             /\ upload'[f].at \in {"out", "slot"} => ~OnDisk(f)'
             /\ upload'[f].at = "answered" =>
                  /\ f = inHand /\ doing = "send"
                  /\ (upload'[f].res = "ok") <=> OnDisk(f)'
                  /\ upload'[f].res = "ok" => upload'[f].whole
             /\ OnDisk(f)' => OnDisk(f) \/ upload[f].at # "none"
             /\ \A p, q \in UploadPaths : folder'[p] = f /\ folder'[q] = f => p = q
    PROVE  UploadsIInv'
<1>1. /\ queue' = queue /\ inHand' = inHand /\ doing' = doing /\ went' = went
      /\ canCancel' = canCancel /\ aborted' = aborted /\ waits' = waits /\ foundAt' = foundAt
      /\ queued' = queued /\ batchOf' = batchOf /\ revealed' = revealed
      /\ fate' = fate /\ savedAs' = savedAs /\ stopped' = stopped /\ totals' = totals
  BY DEF runVars, batchVars, fateVars
<1>2. UploadsTypeOK'
  <2>1. /\ Items(queue') \subseteq Picked /\ queued' \in Nat /\ totals' \in Nat
        /\ inHand' \in Picked \cup {None}
        /\ doing' \in {"idle", "check", "ask", "wait", "send", "look", "again", "told"}
        /\ (doing' = "idle") = (inHand' = None)
        /\ went' \in BOOLEAN /\ canCancel' \in BOOLEAN /\ aborted' \in BOOLEAN
        /\ waits' \in 0..MaxWaits /\ foundAt' \in UploadPaths \cup {None}
        /\ batchOf' \in [Picked -> 0..Cardinality(Picked)]
        /\ fate' \in [Picked -> Fate] /\ savedAs' \in [Picked -> UploadPaths \cup {None}]
    BY <1>1 DEF UploadsIInv, UploadsTypeOK, Fate
  <2> QED BY <2>1 DEF UploadsTypeOK, UploadRecords, Fate
<1>3. QueueFits'
  BY <1>1 DEF UploadsIInv, QueueFits
<1>4. HandFits'
  <2>1. doing = "send" => inHand \in Picked
    BY UploadsAssumption DEF UploadsIInv, UploadsTypeOK
  <2> QED BY <1>1, <2>1 DEF UploadsIInv, HandFits
<1>5. \A f \in Picked :
        /\ \/ f = inHand /\ doing \in {"send", "look"}
           \/ fate[f] \in {"saved", "unsure", "aborted"}
           \/ upload[f].at = "none" /\ ~OnDisk(f)
        /\ f \in Guarded /\ upload[f].at # "none" => batchOf[f] \in revealed
        /\ fate[f] = "new" => batchOf[f] = 0
  BY DEF UploadsIInv, SiteFits
<1>6. SiteFits'
  <2> SUFFICES ASSUME NEW f \in Picked
               PROVE  /\ \/ f = inHand /\ doing \in {"send", "look"}
                         \/ fate[f] \in {"saved", "unsure", "aborted"}
                         \/ upload'[f].at = "none" /\ ~OnDisk(f)'
                      /\ upload'[f].at \in {"out", "slot"} => ~OnDisk(f)'
                      /\ upload'[f].at = "answered" =>
                            /\ f = inHand /\ doing = "send"
                            /\ (upload'[f].res = "ok") <=> OnDisk(f)'
                            /\ upload'[f].res = "ok" => upload'[f].whole
                      /\ f \in Guarded /\ upload'[f].at # "none" => batchOf[f] \in revealed
                      /\ fate[f] = "new" => batchOf[f] = 0
    BY <1>1 DEF SiteFits
  <2> QED BY <1>5
<1>7. ToldIsTrue'
  <2> SUFFICES ASSUME NEW f \in Picked
               PROVE  /\ fate[f] = "saved" => savedAs[f] # None /\ folder'[savedAs[f]] = f
                      /\ fate[f] \in {"new", "failed", "skipped", "dropped"} => ~OnDisk(f)'
                      /\ \A p, q \in UploadPaths : folder'[p] = f /\ folder'[q] = f => p = q
                      /\ f \in Guarded /\ OnDisk(f)' => batchOf[f] \in revealed
                      /\ fate[f] = "queued" <=> \/ f \in Items(queue)
                                                \/ f = inHand /\ doing # "told"
    BY <1>1 DEF ToldIsTrue
  <2>1. /\ fate[f] = "saved" => savedAs[f] # None /\ folder[savedAs[f]] = f
        /\ f \in Guarded /\ OnDisk(f) => batchOf[f] \in revealed
        /\ fate[f] = "queued" <=> \/ f \in Items(queue)
                                  \/ f = inHand /\ doing # "told"
    BY DEF UploadsIInv, ToldIsTrue
  <2>2. savedAs[f] \in UploadPaths \cup {None} /\ f # None
    BY UploadsAssumption DEF UploadsIInv, UploadsTypeOK
  <2>3. fate[f] = "saved" => folder'[savedAs[f]] = f
    BY <2>1, <2>2
  <2>4. fate[f] \in {"new", "failed", "skipped", "dropped"} => ~OnDisk(f)'
    BY <1>5, <2>1
  <2>5. f \in Guarded /\ OnDisk(f)' => batchOf[f] \in revealed
    BY <1>5, <2>1
  <2> QED BY <2>1, <2>3, <2>4, <2>5
<1>8. StoppedFits' /\ CancelIsExact'
  BY <1>1 DEF UploadsIInv, StoppedFits, CancelIsExact
<1> QED BY <1>1, <1>2, <1>3, <1>4, <1>6, <1>7, <1>8 DEF UploadsIInv

\* What an answer leaves of a request.
LEMMA AnswersDoes ==
    ASSUME UploadsIInv, NEW f \in Picked, upload[f].at # "none",
           NEW r \in {"ok", "upload_busy", "root_changed", "unauthorized", "failed"}, Answers(f, r)
    PROVE  /\ upload' \in [Picked -> UploadRecords]
           /\ \A g \in Picked \ {f} : upload'[g] = upload[g]
           /\ IF f = inHand /\ doing = "send"
                THEN /\ upload'[f].at = "answered" /\ upload'[f].res = r
                     /\ upload'[f].whole = upload[f].whole
                ELSE upload'[f].at = "none"
<1>1. upload \in [Picked -> UploadRecords]
  BY DEF UploadsIInv, UploadsTypeOK, UploadRecords
<1>2. CASE f = inHand /\ doing = "send"
  <2> DEFINE a == [upload[f] EXCEPT !.at = "answered", !.res = r]
  <2>1. upload' = [upload EXCEPT ![f] = a]
    BY <1>1, <1>2 DEF Answers
  <2>2. a \in UploadRecords /\ a.at = "answered" /\ a.res = r /\ a.whole = upload[f].whole
    BY <1>1 DEF UploadRecords
  <2> HIDE DEF a
  <2> QED BY <1>1, <1>2, <2>1, <2>2
<1>3. CASE ~(f = inHand /\ doing = "send")
  BY <1>1, <1>3, NoUploadIs DEF Answers
<1> QED BY <1>2, <1>3

\* What the invariant says of one request.
LEMMA RequestIs ==
    ASSUME UploadsIInv, NEW f \in Picked
    PROVE  /\ upload[f].at \in {"out", "slot"} => ~OnDisk(f)
           /\ upload[f].at = "answered" =>
                 /\ f = inHand /\ doing = "send"
                 /\ (upload[f].res = "ok") <=> OnDisk(f)
                 /\ upload[f].res = "ok" => upload[f].whole
           /\ \A p, q \in UploadPaths : folder[p] = f /\ folder[q] = f => p = q
  BY DEF UploadsIInv, SiteFits, ToldIsTrue

\* The folder stays as it is.
LEMMA FolderStays ==
    ASSUME UploadsIInv, UNCHANGED <<runVars, batchVars, folder, fateVars>>,
           upload' \in [Picked -> UploadRecords], slot' \in Picked \cup {Other, None},
           \A f \in Picked :
             \/ upload'[f] = upload[f]
             \/ upload[f].at # "none" /\ upload'[f].at = "slot" /\ ~OnDisk(f)
             \/ upload[f].at # "none" /\ ~OnDisk(f) /\ upload'[f].at = "answered"
                  /\ upload'[f].res # "ok" /\ f = inHand /\ doing = "send"
             \/ upload'[f].at = "none" /\ ~(f = inHand /\ doing = "send")
             \/ /\ upload'[f].at = upload[f].at /\ upload'[f].res = upload[f].res
                /\ upload'[f].whole
    PROVE  UploadsIInv'
<1>1. folder \in [UploadPaths -> Picked \cup {Other, None}]
  BY DEF UploadsIInv, UploadsTypeOK
<1>2. \A f \in Picked : OnDisk(f)' <=> OnDisk(f)
  BY DEF OnDisk
<1>3. \A f \in Picked :
             /\ upload'[f].at # "none" => upload[f].at # "none"
             /\ upload[f].at # "none" /\ f = inHand /\ doing = "send" => upload'[f].at # "none"
             /\ upload'[f].at \in {"out", "slot"} => ~OnDisk(f)
             /\ upload'[f].at = "answered" =>
                  /\ f = inHand /\ doing = "send"
                  /\ (upload'[f].res = "ok") <=> OnDisk(f)
                  /\ upload'[f].res = "ok" => upload'[f].whole
  <2> SUFFICES ASSUME NEW f \in Picked
               PROVE
             /\ upload'[f].at # "none" => upload[f].at # "none"
             /\ upload[f].at # "none" /\ f = inHand /\ doing = "send" => upload'[f].at # "none"
             /\ upload'[f].at \in {"out", "slot"} => ~OnDisk(f)
             /\ upload'[f].at = "answered" =>
                  /\ f = inHand /\ doing = "send"
                  /\ (upload'[f].res = "ok") <=> OnDisk(f)
                  /\ upload'[f].res = "ok" => upload'[f].whole
    OBVIOUS
  <2> QED BY RequestIs
<1> QED BY <1>1, <1>2, <1>3, RequestIs, SiteStep
\* A request is refused, or takes the slot.
LEMMA ReceivedStep ==
    ASSUME UploadsIInv, NEW f \in Picked, Received(f)
    PROVE  UploadsIInv'
<1>1. /\ upload[f].at = "out" /\ UNCHANGED <<runVars, batchVars, folder, moved, fateVars>>
      /\ ~OnDisk(f) /\ upload \in [Picked -> UploadRecords] /\ slot \in Picked \cup {Other, None}
  BY RequestIs DEF Received, UploadsIInv, UploadsTypeOK, UploadRecords
<1>2. ASSUME NEW r \in {"upload_busy", "root_changed", "unauthorized", "failed"},
             Answers(f, r), slot' = slot
      PROVE  UploadsIInv'
  <2>1. /\ upload' \in [Picked -> UploadRecords]
        /\ \A g \in Picked \ {f} : upload'[g] = upload[g]
        /\ IF f = inHand /\ doing = "send"
             THEN upload'[f].at = "answered" /\ upload'[f].res = r
             ELSE upload'[f].at = "none"
    BY <1>1, <1>2, AnswersDoes
  <2> QED BY <1>1, <1>2, <2>1, FolderStays
<1>3. CASE slot' = f /\ upload' = [upload EXCEPT ![f].at = "slot"]
  <2>1. /\ upload' \in [Picked -> UploadRecords] /\ upload'[f].at = "slot"
        /\ \A g \in Picked \ {f} : upload'[g] = upload[g]
    BY <1>1, <1>3 DEF UploadRecords
  <2> QED BY <1>1, <1>3, <2>1, FolderStays
<1> QED BY <1>2, <1>3 DEF Received

\* The whole body is on its way.
LEMMA BytesGoStep ==
    ASSUME UploadsIInv, BytesGo
    PROVE  UploadsIInv'
<1>1. /\ doing = "send" /\ UNCHANGED <<runVars, batchVars, slot, folder, fateVars>>
      /\ upload' = [upload EXCEPT ![inHand].whole = TRUE]
  BY DEF BytesGo
<1>2. /\ inHand \in Picked /\ upload \in [Picked -> UploadRecords]
      /\ slot \in Picked \cup {Other, None}
  BY <1>1, BeingSent
<1> DEFINE a == [upload[inHand] EXCEPT !.whole = TRUE]
<1>3. upload' = [upload EXCEPT ![inHand] = a]
  BY <1>1, <1>2
<1>4. /\ a \in UploadRecords /\ a.at = upload[inHand].at /\ a.res = upload[inHand].res
      /\ a.whole = TRUE
  BY <1>2 DEF UploadRecords
<1> HIDE DEF a
<1>5. /\ upload' \in [Picked -> UploadRecords]
      /\ \A g \in Picked \ {inHand} : upload'[g] = upload[g]
      /\ upload'[inHand].at = upload[inHand].at /\ upload'[inHand].res = upload[inHand].res
      /\ upload'[inHand].whole
  BY <1>2, <1>3, <1>4
<1> QED BY <1>1, <1>2, <1>5, FolderStays

\* Nothing of the file stays.
LEMMA NotPlacedStep ==
    ASSUME UploadsIInv, NEW f \in Picked, NotPlaced(f)
    PROVE  UploadsIInv'
<1>1. /\ upload[f].at = "slot" /\ slot' = None /\ Answers(f, "failed")
      /\ UNCHANGED <<runVars, batchVars, folder, moved, fateVars>> /\ ~OnDisk(f)
  BY RequestIs DEF NotPlaced
<1>2. /\ upload' \in [Picked -> UploadRecords]
      /\ \A g \in Picked \ {f} : upload'[g] = upload[g]
      /\ IF f = inHand /\ doing = "send"
           THEN upload'[f].at = "answered" /\ upload'[f].res = "failed"
           ELSE upload'[f].at = "none"
  BY <1>1, AnswersDoes
<1> QED BY <1>1, <1>2, FolderStays

\* The file comes into the folder, at a name that was free; it was nowhere.
LEMMA PlacedStep ==
    ASSUME UploadsIInv, NEW f \in Picked, Placed(f)
    PROVE  UploadsIInv'
<1> DEFINE spot == FreePath(f)
<1>1. /\ upload[f].at = "slot" /\ upload[f].whole /\ ~OnDisk(f)
      /\ folder' = [folder EXCEPT ![spot] = f] /\ slot' = None /\ Answers(f, "ok")
      /\ UNCHANGED <<runVars, batchVars, fateVars>>
      /\ spot \in UploadPaths /\ folder[spot] = None
  BY RequestIs, FreePathIs DEF Placed, UploadsIInv
<1> HIDE DEF spot
<1>2. /\ folder \in [UploadPaths -> Picked \cup {Other, None}] /\ None \notin Picked
  BY UploadsAssumption DEF UploadsIInv, UploadsTypeOK
<1>3. /\ folder' \in [UploadPaths -> Picked \cup {Other, None}]
      /\ folder'[spot] = f
      /\ \A p \in UploadPaths : p # spot => folder'[p] = folder[p]
  BY <1>1, <1>2
<1>4. /\ upload' \in [Picked -> UploadRecords]
      /\ \A g \in Picked \ {f} : upload'[g] = upload[g]
      /\ IF f = inHand /\ doing = "send"
           THEN upload'[f].at = "answered" /\ upload'[f].res = "ok" /\ upload'[f].whole
           ELSE upload'[f].at = "none"
  BY <1>1, AnswersDoes
<1>5. /\ OnDisk(f)'
      /\ \A g \in Picked \ {f} : OnDisk(g)' <=> OnDisk(g)
  BY <1>1, <1>2, <1>3 DEF OnDisk
<1>6. \A g \in Picked :
             /\ upload'[g].at # "none" => upload[g].at # "none"
             /\ upload[g].at # "none" /\ g = inHand /\ doing = "send" => upload'[g].at # "none"
             /\ upload'[g].at \in {"out", "slot"} => ~OnDisk(g)'
             /\ upload'[g].at = "answered" =>
                  /\ g = inHand /\ doing = "send"
                  /\ (upload'[g].res = "ok") <=> OnDisk(g)'
                  /\ upload'[g].res = "ok" => upload'[g].whole
             /\ OnDisk(g)' => OnDisk(g) \/ upload[g].at # "none"
  <2> SUFFICES ASSUME NEW g \in Picked
               PROVE
             /\ upload'[g].at # "none" => upload[g].at # "none"
             /\ upload[g].at # "none" /\ g = inHand /\ doing = "send" => upload'[g].at # "none"
             /\ upload'[g].at \in {"out", "slot"} => ~OnDisk(g)'
             /\ upload'[g].at = "answered" =>
                  /\ g = inHand /\ doing = "send"
                  /\ (upload'[g].res = "ok") <=> OnDisk(g)'
                  /\ upload'[g].res = "ok" => upload'[g].whole
             /\ OnDisk(g)' => OnDisk(g) \/ upload[g].at # "none"
    OBVIOUS
  <2>1. CASE g = f
    BY <1>1, <1>4, <1>5, <2>1
  <2>2. CASE g # f
    BY <1>4, <1>5, <2>2, RequestIs
  <2> QED BY <2>1, <2>2
<1>7. \A g \in Picked, p, q \in UploadPaths : folder'[p] = g /\ folder'[q] = g => p = q
  <2> SUFFICES ASSUME NEW g \in Picked, NEW p \in UploadPaths, NEW q \in UploadPaths,
                      folder'[p] = g, folder'[q] = g
               PROVE  p = q
    OBVIOUS
  <2>1. CASE g = f
    BY <1>1, <1>3, <2>1 DEF OnDisk
  <2>2. CASE g # f
    <3>1. p # spot /\ q # spot
      BY <1>3, <2>2
    <3> QED BY <1>3, <3>1, RequestIs
  <2> QED BY <2>1, <2>2
<1> QED BY <1>1, <1>2, <1>3, <1>4, <1>6, <1>7, SiteStep

\* The slot, the free names and the roots change under the page.
LEMMA OtherUploadsStep ==
    ASSUME UploadsIInv, OtherUploads
    PROVE  UploadsIInv'
<1>1. /\ UNCHANGED <<runVars, batchVars, fateVars>> /\ upload' = upload
      /\ upload \in [Picked -> UploadRecords] /\ slot \in Picked \cup {Other, None}
      /\ folder \in [UploadPaths -> Picked \cup {Other, None}]
      /\ None \notin Picked /\ Other \notin Picked
  BY UploadsAssumption DEF OtherUploads, UploadsIInv, UploadsTypeOK, UploadRecords
<1>2. CASE folder' = folder /\ slot' \in {slot, Other, None}
  BY <1>1, <1>2, FolderStays
<1>3. ASSUME NEW p \in UploadPaths, folder[p] = None, folder' = [folder EXCEPT ![p] = Other],
             slot' = slot
      PROVE  UploadsIInv'
  <2>1. /\ folder' \in [UploadPaths -> Picked \cup {Other, None}]
        /\ \A q \in UploadPaths : q # p => folder'[q] = folder[q]
        /\ folder'[p] = Other
    BY <1>1, <1>3
  <2>2. \A f \in Picked, q \in UploadPaths : folder'[q] = f <=> folder[q] = f
    BY <1>1, <1>3, <2>1
  <2>3. \A f \in Picked : OnDisk(f)' <=> OnDisk(f)
    BY <2>2 DEF OnDisk
  <2>4. \A q \in UploadPaths : folder[q] # None => folder'[q] = folder[q]
    BY <1>3, <2>1
  <2>5. \A f \in Picked, q, m \in UploadPaths : folder'[q] = f /\ folder'[m] = f => q = m
    BY <2>2, RequestIs
  <2>6. upload' \in [Picked -> UploadRecords] /\ slot' \in Picked \cup {Other, None}
    BY <1>1, <1>3
  <2>7. \A f \in Picked :
             /\ upload'[f].at # "none" => upload[f].at # "none"
             /\ upload[f].at # "none" /\ f = inHand /\ doing = "send" => upload'[f].at # "none"
             /\ upload'[f].at \in {"out", "slot"} => ~OnDisk(f)'
             /\ upload'[f].at = "answered" =>
                  /\ f = inHand /\ doing = "send"
                  /\ (upload'[f].res = "ok") <=> OnDisk(f)'
                  /\ upload'[f].res = "ok" => upload'[f].whole
             /\ OnDisk(f)' => OnDisk(f) \/ upload[f].at # "none"
    BY <1>1, <2>3, RequestIs
  <2> QED BY <1>1, <2>1, <2>4, <2>5, <2>6, <2>7, SiteStep
<1> QED BY <1>2, <1>3 DEF OtherUploads

\* The files of one start: one, or two that differ.
LEMMA PickedPair ==
    ASSUME NEW f \in Picked, NEW g \in Picked, NEW files,
           files = IF f = g THEN <<f>> ELSE <<f, g>>
    PROVE  /\ files \in Seq(Picked) /\ files # <<>> /\ Distinct(files)
           /\ IsFiniteSet(Items(files)) /\ Cardinality(Items(files)) = Len(files)
<1>1. CASE f = g
  <2>1. files = <<f>> /\ Len(files) = 1 /\ DOMAIN files = {1} /\ files[1] = f
    BY <1>1
  <2>2. Items(files) = {f}
    BY <2>1 DEF Items
  <2>3. files \in Seq(Picked) /\ files # <<>> /\ Distinct(files)
    BY <2>1 DEF Distinct
  <2>4. IsFiniteSet({f}) /\ Cardinality({f}) = 1
    BY FS_Singleton
  <2> QED BY <2>1, <2>2, <2>3, <2>4
<1>2. CASE f # g
  <2>1. /\ files = <<f, g>> /\ Len(files) = 2 /\ DOMAIN files = {1, 2}
        /\ files[1] = f /\ files[2] = g
    BY <1>2
  <2>2. Items(files) = {f} \cup {g}
    BY <2>1 DEF Items
  <2>3. files \in Seq(Picked) /\ files # <<>> /\ Distinct(files)
    BY <1>2, <2>1 DEF Distinct
  <2>4. IsFiniteSet({f}) /\ Cardinality({f}) = 1
    BY FS_Singleton
  <2>5. IsFiniteSet({f} \cup {g}) /\ Cardinality({f} \cup {g}) = 2
    BY <1>2, <2>4, FS_AddElement
  <2> QED BY <2>1, <2>2, <2>3, <2>5
<1> QED BY <1>1, <1>2

\* Every step of the page, the server and the others keeps it.
LEMMA UploadsNextIInv == UploadsIInv /\ [UploadsNext]_uploadsVars => UploadsIInv'
<1> SUFFICES ASSUME UploadsIInv, [UploadsNext]_uploadsVars PROVE UploadsIInv'
  OBVIOUS
<1>1. CASE UNCHANGED uploadsVars
  <2>1. UNCHANGED <<runVars, batchVars, folder, fateVars>> /\ upload' = upload /\ slot' = slot
    BY <1>1 DEF uploadsVars, siteVars
  <2>2. upload' \in [Picked -> UploadRecords] /\ slot' \in Picked \cup {Other, None}
    BY <2>1 DEF UploadsIInv, UploadsTypeOK, UploadRecords
  <2> QED BY <2>1, <2>2, FolderStays
<1>2. CASE PageGoesOn
  BY <1>2, CheckedStep, CheckedAgainStep, WaitOverStep, SentStep, RepliedStep, LookedStep,
     AfterSaveStep, AnswerAskStep DEF PageGoesOn
<1>3. CASE ServerGoesOn
  BY <1>3, ReceivedStep, PlacedStep, NotPlacedStep DEF ServerGoesOn
<1>4. ASSUME NEW f \in Picked, NEW g \in Picked,
             StartUploads(IF f = g THEN <<f>> ELSE <<f, g>>)
      PROVE  UploadsIInv'
  <2> DEFINE files == IF f = g THEN <<f>> ELSE <<f, g>>
  <2>1. /\ files \in Seq(Picked) /\ files # <<>> /\ Distinct(files)
        /\ IsFiniteSet(Items(files)) /\ Cardinality(Items(files)) = Len(files)
    BY PickedPair
  <2>2. StartUploads(files)
    BY <1>4
  <2> HIDE DEF files
  <2> QED BY <2>1, <2>2, StartStep
<1>5. CASE Cancel \/ Lost \/ BytesGo \/ OtherUploads
  BY <1>5, CancelStep, LostStep, BytesGoStep, OtherUploadsStep
<1> QED BY <1>1, <1>2, <1>3, <1>4, <1>5 DEF UploadsNext

-----------------------------------------------------------------------------
(* Uploads: the theorems.                                                  *)

\* The inductive invariant holds throughout, for any files, names, roots,
\* suffixes and waits.
THEOREM UploadsInductive == UploadsSpec => []UploadsIInv
<1>1. UploadsInit => UploadsIInv
  BY UploadsInitIInv
<1>2. UploadsIInv /\ [UploadsNext]_uploadsVars => UploadsIInv'
  BY UploadsNextIInv
<1> QED BY <1>1, <1>2, PTL DEF UploadsSpec

\* The variables of the uploads keep their types.
THEOREM UploadsTypeCorrect == UploadsSpec => []UploadsTypeOK
<1>1. UploadsIInv => UploadsTypeOK
  BY DEF UploadsIInv
<1> QED BY <1>1, UploadsInductive, PTL

\* What the user is told of a file is true and stays true, whatever is lost,
\* canceled, busy or refused between the page and the server (one, runQueue,
\* landed, writeUpload).
THEOREM UserIsToldTruly == UploadsSpec => []ToldIsTrue
<1>1. UploadsIInv => ToldIsTrue
  BY DEF UploadsIInv
<1> QED BY <1>1, UploadsInductive, PTL

\* A Cancel stops the files it was meant for, drops none that came after it,
\* and the runs tell of every file once (cancelUploads, runQueue).
THEOREM CancelsExactly == UploadsSpec => []CancelIsExact
<1>1. UploadsIInv => CancelIsExact
  BY DEF UploadsIInv
<1> QED BY <1>1, UploadsInductive, PTL

-----------------------------------------------------------------------------
(* Tabs: the inductive invariant.                                          *)

IdsIn(q) == {t.id : t \in ToSet(q)}
IdsDiffer(q) == \A i, j \in 1..Len(q) : q[i].id = q[j].id => i = j

\* The tabs and what goes with them, as the operations pass them on.
View == [tabs : Seq(Tab), active : Ids \cup {None}, dirty : SUBSET File,
         kept : SUBSET Ids]
ViewFits(v) ==
    v \in View /\ IdsDiffer(v.tabs) /\ v.active \in IdsIn(v.tabs) \cup {None}

\* w is v with a file of root r opened: the tabs are of v, in their roots, or
\* of r and with an id no tab had; no changes go.
OpenedFrom(w, v, r) ==
    /\ ViewFits(w) /\ w.dirty = v.dirty
    /\ \A t \in ToSet(w.tabs) :
          \/ /\ \E u \in ToSet(v.tabs) : u.id = t.id /\ u.root = t.root
             /\ t.id \in v.kept => t.id \in w.kept
          \/ t.id \notin TabIds /\ t.root = r

\* The user is asked about the tabs of other roots, and about none where two
\* roots may have been shown before a move of the root was noticed.
AskedRight == IF movedEarly THEN asked = {} ELSE AskedTabs

TabsInv ==
    /\ openTabs \in Seq(Tab) /\ IdsDiffer(openTabs)
    /\ active \in TabIds \cup {None}
    /\ asked \subseteq TabIds /\ keptOpen \subseteq TabIds
    /\ dirty \subseteq File
    /\ AskedRight

-----------------------------------------------------------------------------
(* Tabs: the operations.                                                   *)

\* The elements of a sequence, by their positions.
LEMMA ElementsOf ==
    ASSUME NEW S, NEW q \in Seq(S)
    PROVE  /\ Len(q) \in Nat /\ DOMAIN q = 1..Len(q)
           /\ ToSet(q) \subseteq S
           /\ \A i \in 1..Len(q) : q[i] \in S /\ q[i] \in ToSet(q)
           /\ \A x \in ToSet(q) : \E i \in 1..Len(q) : x = q[i]
  BY LenProperties, ElementOfSeq DEF ToSet

\* A tab has an id, a root, a path; two with one id are one.
LEMMA TabsOf ==
    ASSUME NEW q \in Seq(Tab), IdsDiffer(q)
    PROVE  /\ IdsIn(q) \subseteq Ids
           /\ \A t \in ToSet(q) : t \in Tab /\ t.id \in IdsIn(q) /\ FileOf(t) \in File
           /\ \A t, u \in ToSet(q) : t.id = u.id => t = u
<1>1. /\ ToSet(q) \subseteq Tab
      /\ \A x \in ToSet(q) : \E i \in 1..Len(q) : x = q[i]
  BY ElementsOf
<1>2. \A t \in Tab : t.id \in Ids /\ FileOf(t) \in File
  BY DEF Tab, FileOf, File
<1>3. \A t, u \in ToSet(q) : t.id = u.id => t = u
  BY <1>1 DEF IdsDiffer
<1> QED BY <1>1, <1>2, <1>3 DEF IdsIn

\* The least and the greatest of some positions are among them.
LEMMA EndsAreOf ==
    ASSUME NEW n \in Nat, NEW T \in SUBSET (1..n), T # {}
    PROVE  Min(T) \in T /\ Max(T) \in T
<1>1. \E x \in T : \A y \in T : x =< y
  <2>1. T \in SUBSET Nat
    OBVIOUS
  <2>2. PICK t \in T : \A u \in T : ~(u < t)
    BY <2>1, LeastOf
  <2> QED BY <2>2
<1>2. \E x \in T : \A y \in T : x >= y
  <2> DEFINE U == {n - y : y \in T}
  <2>1. U \in SUBSET Nat /\ U # {}
    <3>1. \A y \in T : n - y \in Nat
      OBVIOUS
    <3> QED BY <3>1
  <2>2. PICK u \in U : \A w \in U : ~(w < u)
    <3> HIDE DEF U
    <3> QED BY <2>1, LeastOf
  <2>3. PICK x \in T : u = n - x
    BY <2>2
  <2>4. ASSUME NEW y \in T PROVE x >= y
    <3>1. n - y \in U
      OBVIOUS
    <3>2. ~(n - y < n - x)
      BY <2>2, <2>3, <3>1
    <3> QED BY <3>2
  <2> QED BY <2>4
<1> QED BY <1>1, <1>2 DEF Min, Max

\* Closing leaves the other tabs, the one shown being one of them, and takes
\* no changes but those of the tabs closed.
LEMMA ClosedTabs ==
    ASSUME NEW v, ViewFits(v), NEW gone
    PROVE  LET w == Closed(v, gone) IN
           /\ ViewFits(w)
           /\ \A t \in ToSet(w.tabs) : t \in ToSet(v.tabs) /\ t.id \notin gone
           /\ \A t \in ToSet(v.tabs) : t.id \notin gone => t \in ToSet(w.tabs)
           /\ w.kept = v.kept \ gone
           /\ (\A t \in ToSet(v.tabs) : t.id \in gone => FileOf(t) \notin v.dirty)
                 => w.dirty = v.dirty
<1> DEFINE w == Closed(v, gone)
           ts == {t \in ToSet(v.tabs) : t.id \in gone}
           r == Remaining(v.tabs, ts)
<1>1. /\ v.tabs \in Seq(Tab) /\ v.dirty \subseteq File /\ v.kept \subseteq Ids
      /\ v.active \in Ids \cup {None} /\ v.active \in IdsIn(v.tabs) \cup {None}
      /\ IdsDiffer(v.tabs)
  BY DEF ViewFits, View
<1>2. /\ Len(v.tabs) \in Nat
      /\ \A i \in 1..Len(v.tabs) : v.tabs[i] \in ToSet(v.tabs)
      /\ \A x \in ToSet(v.tabs) : \E i \in 1..Len(v.tabs) : x = v.tabs[i]
  BY <1>1, ElementsOf
<1>3. /\ IdsIn(v.tabs) \subseteq Ids
      /\ \A t, u \in ToSet(v.tabs) : t.id = u.id => t = u
  BY <1>1, TabsOf
<1>4. /\ w.tabs = r /\ w.active = ShownAfter(v, gone) /\ w.kept = v.kept \ gone
      /\ w.dirty = v.dirty \ {FileOf(t) : t \in ts}
      /\ w = [tabs |-> r, active |-> ShownAfter(v, gone),
              dirty |-> v.dirty \ {FileOf(t) : t \in ts}, kept |-> v.kept \ gone]
  BY DEF Closed
<1>5. /\ r \in Seq(Tab)
      /\ \A i \in 1..Len(r) : r[i] \notin ts /\ \E k \in 1..Len(v.tabs) : v.tabs[k] = r[i]
      /\ \A k \in 1..Len(v.tabs) : v.tabs[k] \notin ts => \E i \in 1..Len(r) : r[i] = v.tabs[k]
      /\ (\A k, l \in 1..Len(v.tabs) : v.tabs[k] = v.tabs[l] => k = l) =>
            \A i, j \in 1..Len(r) : r[i] = r[j] => i = j
  <2>1. ASSUME NEW q \in Seq(Tab), NEW g
        PROVE  /\ Remaining(q, g) \in Seq(Tab)
               /\ \A i \in 1..Len(Remaining(q, g)) :
                    /\ Remaining(q, g)[i] \notin g
                    /\ \E k \in 1..Len(q) : q[k] = Remaining(q, g)[i]
               /\ \A k \in 1..Len(q) : q[k] \notin g =>
                    \E i \in 1..Len(Remaining(q, g)) : Remaining(q, g)[i] = q[k]
               /\ (\A k, l \in 1..Len(q) : q[k] = q[l] => k = l) =>
                    \A i, j \in 1..Len(Remaining(q, g)) :
                        Remaining(q, g)[i] = Remaining(q, g)[j] => i = j
    BY RemainingIs
  <2> HIDE DEF ts
  <2> QED BY <1>1, <2>1, Zenon
<1> HIDE DEF w, r
<1>6. /\ Len(r) \in Nat
      /\ \A i \in 1..Len(r) : r[i] \in ToSet(r)
      /\ \A x \in ToSet(r) : \E i \in 1..Len(r) : x = r[i]
  BY <1>5, ElementsOf
<1>7. \A t \in ToSet(r) : t \in ToSet(v.tabs) /\ t.id \notin gone
  <2> SUFFICES ASSUME NEW t \in ToSet(r) PROVE t \in ToSet(v.tabs) /\ t.id \notin gone
    OBVIOUS
  <2>1. PICK i \in 1..Len(r) : t = r[i]
    BY <1>6
  <2>2. r[i] \notin ts
    BY <1>5
  <2>3. \E k \in 1..Len(v.tabs) : v.tabs[k] = r[i]
    BY <1>5
  <2>4. t \in ToSet(v.tabs)
    BY <1>2, <2>1, <2>3
  <2> QED BY <2>1, <2>2, <2>4
<1>8. \A t \in ToSet(v.tabs) : t.id \notin gone => t \in ToSet(r)
  <2> SUFFICES ASSUME NEW t \in ToSet(v.tabs), t.id \notin gone PROVE t \in ToSet(r)
    OBVIOUS
  <2>1. PICK k \in 1..Len(v.tabs) : t = v.tabs[k]
    BY <1>2
  <2>2. PICK i \in 1..Len(r) : r[i] = v.tabs[k]
    BY <2>1, <1>5
  <2> QED BY <1>6, <2>1, <2>2
<1>9. IdsDiffer(r)
  <2>1. \A k, l \in 1..Len(v.tabs) : v.tabs[k] = v.tabs[l] => k = l
    BY <1>1 DEF IdsDiffer
  <2>2. \A i, j \in 1..Len(r) : r[i].id = r[j].id => r[i] = r[j]
    BY <1>3, <1>6, <1>7
  <2> QED BY <1>5, <2>1, <2>2 DEF IdsDiffer
<1>10. ShownAfter(v, gone) \in IdsIn(r) \cup {None}
  <2> DEFINE at == CHOOSE i \in DOMAIN v.tabs : v.tabs[i].id = v.active
             rest == {i \in DOMAIN v.tabs : v.tabs[i].id \notin gone}
             right == {i \in rest : i > at}
  <2>1. CASE v.active \notin gone
    <3>1. ShownAfter(v, gone) = v.active
      BY <2>1 DEF ShownAfter
    <3>2. CASE v.active # None
      <4>1. PICK t \in ToSet(v.tabs) : v.active = t.id
        BY <1>1, <3>2 DEF IdsIn
      <4> QED BY <1>8, <2>1, <3>1, <4>1 DEF IdsIn
    <3> QED BY <3>1, <3>2
  <2>2. CASE v.active \in gone
    <3>1. ShownAfter(v, gone) = IF right # {} THEN v.tabs[Min(right)].id
             ELSE IF rest # {} THEN v.tabs[Max(rest)].id ELSE None
      BY <2>2 DEF ShownAfter
    <3>2. DOMAIN v.tabs = 1..Len(v.tabs)
      BY <1>1, LenProperties
    <3>3. rest \in SUBSET (1..Len(v.tabs)) /\ right \in SUBSET (1..Len(v.tabs))
      BY <3>2
    <3>4. right # {} => Min(right) \in rest
      <4>1. right \subseteq rest
        OBVIOUS
      <4> HIDE DEF rest, right
      <4> QED BY <1>2, <3>3, <4>1, EndsAreOf
    <3>5. rest # {} => Max(rest) \in rest
      <4> HIDE DEF rest, right
      <4> QED BY <1>2, <3>3, EndsAreOf
    <3>6. \A i \in rest : v.tabs[i].id \in IdsIn(r)
      BY <1>2, <1>8, <3>2 DEF IdsIn
    <3> HIDE DEF rest, right
    <3> QED BY <3>1, <3>4, <3>5, <3>6
  <2> QED BY <2>1, <2>2
<1>11. IdsIn(r) \subseteq Ids
  BY <1>5, <1>9, TabsOf
<1>12. w \in View
  BY <1>1, <1>4, <1>5, <1>10, <1>11 DEF View
<1>13. (\A t \in ToSet(v.tabs) : t.id \in gone => FileOf(t) \notin v.dirty)
          => w.dirty = v.dirty
  BY <1>4
<1> QED BY <1>4, <1>7, <1>8, <1>9, <1>10, <1>12, <1>13 DEF ViewFits, w

\* The tabs that make room have no changes: none go.
LEMMA CappedTabs ==
    ASSUME NEW v, ViewFits(v), NEW w \in Capped(v)
    PROVE  /\ ViewFits(w) /\ w.dirty = v.dirty
           /\ \A t \in ToSet(w.tabs) :
                 t \in ToSet(v.tabs) /\ (t.id \in v.kept => t.id \in w.kept)
<1> DEFINE clean == {t.id : t \in {u \in ToSet(v.tabs) : MayClose(v, u)}}
           over == Len(v.tabs) - MaxTabs
<1>1. w = v \/ \E gone \in SUBSET clean : w = Closed(v, gone)
  BY DEF Capped
<1>2. CASE w = v
  BY <1>2
<1>3. CASE \E gone \in SUBSET clean : w = Closed(v, gone)
  <2>1. PICK gone \in SUBSET clean : w = Closed(v, gone)
    BY <1>3
  <2>2. \A t, u \in ToSet(v.tabs) : t.id = u.id => t = u
    BY TabsOf DEF ViewFits, View
  <2>3. \A t \in ToSet(v.tabs) : t.id \in gone => FileOf(t) \notin v.dirty
    <3> SUFFICES ASSUME NEW t \in ToSet(v.tabs), t.id \in clean
                 PROVE  FileOf(t) \notin v.dirty
      OBVIOUS
    <3>1. PICK u \in ToSet(v.tabs) : MayClose(v, u) /\ u.id = t.id
      OBVIOUS
    <3> QED BY <2>2, <3>1 DEF MayClose
  <2> HIDE DEF clean
  <2>4. /\ ViewFits(w) /\ w.kept = v.kept \ gone
        /\ \A t \in ToSet(w.tabs) : t \in ToSet(v.tabs) /\ t.id \notin gone
        /\ w.dirty = v.dirty
    BY <2>1, <2>3, ClosedTabs
  <2> QED BY <2>4
<1> QED BY <1>1, <1>2, <1>3

\* r is q with e at position i.
IsInserted(r, q, i, e) ==
    /\ Len(r) = Len(q) + 1
    /\ \A k \in 1..Len(q) + 1 : r[k] = IF k < i THEN q[k] ELSE IF k = i THEN e ELSE q[k - 1]

\* The positions before i stay, e comes at i, the others move up.
LEMMA InsertAtMoves ==
    ASSUME NEW S, NEW q \in Seq(S), NEW i \in 1..Len(q) + 1, NEW e \in S
    PROVE  InsertAt(q, i, e) \in Seq(S) /\ IsInserted(InsertAt(q, i, e), q, i, e)
<1> DEFINE a == SubSeq(q, 1, i - 1)
           b == SubSeq(q, i, Len(q))
           ae == a \o <<e>>
<1>1. Len(q) \in Nat /\ \A k \in 1..Len(q) : q[k] \in S
  BY LenProperties, ElementOfSeq
<1>2. /\ a \in Seq(S) /\ Len(a) = i - 1
      /\ \A k \in 1..(i - 1) : a[k] = q[k]
  <2>1. \A k \in 1..(i - 1) : q[k] \in S
    BY <1>1
  <2>2. /\ a \in Seq(S)
        /\ Len(a) = IF 1 <= i - 1 THEN (i - 1) - 1 + 1 ELSE 0
        /\ \A k \in 1..((i - 1) - 1 + 1) : a[k] = q[1 + k - 1]
    BY <2>1, SubSeqProperties, <1>1
  <2> HIDE DEF a
  <2> QED BY <2>2, <1>1
<1>3. /\ b \in Seq(S) /\ Len(b) = Len(q) - i + 1
      /\ \A k \in 1..(Len(q) - i + 1) : b[k] = q[k + i - 1]
  <2>1. \A k \in i..Len(q) : q[k] \in S
    BY <1>1
  <2>2. /\ b \in Seq(S)
        /\ Len(b) = IF i <= Len(q) THEN Len(q) - i + 1 ELSE 0
        /\ \A k \in 1..(Len(q) - i + 1) : b[k] = q[i + k - 1]
    BY <2>1, SubSeqProperties, <1>1
  <2> HIDE DEF b
  <2> QED BY <2>2, <1>1
<1>4. InsertAt(q, i, e) = ae \o b
  BY DEF InsertAt
<1> HIDE DEF a, b
<1>5. /\ ae \in Seq(S) /\ Len(ae) = i
      /\ \A k \in 1..i : ae[k] = IF k < i THEN q[k] ELSE e
  <2>1. <<e>> \in Seq(S) /\ Len(<<e>>) = 1 /\ <<e>>[1] = e
    OBVIOUS
  <2>2. /\ ae \in Seq(S) /\ Len(ae) = Len(a) + 1
        /\ \A k \in 1..(Len(a) + 1) : ae[k] = IF k <= Len(a) THEN a[k] ELSE <<e>>[k - Len(a)]
    BY <1>2, <2>1, ConcatProperties
  <2> HIDE DEF ae
  <2> QED BY <1>1, <1>2, <2>1, <2>2
<1> HIDE DEF ae
<1>6. /\ ae \o b \in Seq(S) /\ Len(ae \o b) = Len(ae) + Len(b)
      /\ \A k \in 1..(Len(ae) + Len(b)) :
           (ae \o b)[k] = IF k <= Len(ae) THEN ae[k] ELSE b[k - Len(ae)]
  BY <1>3, <1>5, ConcatProperties
<1>7. /\ Len(ae \o b) = Len(q) + 1
      /\ \A k \in 1..Len(q) + 1 :
           (ae \o b)[k] = IF k < i THEN q[k] ELSE IF k = i THEN e ELSE q[k - 1]
  BY <1>1, <1>3, <1>5, <1>6
<1> QED BY <1>4, <1>6, <1>7 DEF IsInserted

\* A tab with a new id put among the others leaves them their ids and roots.
LEMMA BesideTabs ==
    ASSUME NEW v, ViewFits(v), NEW t \in Tab, t.id \notin IdsIn(v.tabs),
           NEW pin \in BOOLEAN
    PROVE  LET q == Beside(v, t, pin) IN
           /\ q \in Seq(Tab) /\ IdsDiffer(q) /\ t \in ToSet(q)
           /\ \A x \in ToSet(q) :
                 x = t \/ \E u \in ToSet(v.tabs) : u.id = x.id /\ u.root = x.root
<1> DEFINE q == Beside(v, t, pin)
           n == Len(v.tabs)
           before == {i \in DOMAIN v.tabs : v.tabs[i].id = v.active}
           ts == [i \in DOMAIN v.tabs |-> [v.tabs[i] EXCEPT !.pinned = @ \/ ~pin]]
           at == 1 + (IF before = {} THEN Len(ts) ELSE Max(before))
<1>1. v.tabs \in Seq(Tab) /\ IdsDiffer(v.tabs)
  BY DEF ViewFits, View
<1>2. /\ n \in Nat /\ DOMAIN v.tabs = 1..n
      /\ \A i \in 1..n : v.tabs[i] \in Tab /\ v.tabs[i] \in ToSet(v.tabs)
  BY <1>1, ElementsOf
<1>3. \A x \in Tab, b \in BOOLEAN :
         /\ [x EXCEPT !.pinned = b] \in Tab
         /\ [x EXCEPT !.pinned = b].id = x.id /\ [x EXCEPT !.pinned = b].root = x.root
  BY DEF Tab
<1>4. \A x \in Tab : (x.pinned \/ ~pin) \in BOOLEAN
  OBVIOUS
<1> HIDE DEF n
<1>5. /\ ts \in [1..n -> Tab]
      /\ \A i \in 1..n : ts[i].id = v.tabs[i].id /\ ts[i].root = v.tabs[i].root
  <2>1. \A i \in 1..n : /\ ts[i] \in Tab
                        /\ ts[i].id = v.tabs[i].id /\ ts[i].root = v.tabs[i].root
    BY <1>2, <1>3, <1>4
  <2>2. DOMAIN ts = 1..n /\ ts = [i \in DOMAIN ts |-> ts[i]]
    BY <1>2
  <2> HIDE DEF ts
  <2> QED BY <2>1, <2>2
<1>6. ts \in Seq(Tab) /\ Len(ts) = n
  <2>1. DOMAIN ts = 1..n
    BY <1>2
  <2> HIDE DEF ts
  <2>2. ts \in Seq(Tab)
    BY <1>2, <1>5, SeqDef
  <2> QED BY <1>2, <2>1, <2>2, LenProperties
<1>7. at \in 1..(n + 1)
  <2>1. before \in SUBSET (1..n)
    BY <1>2
  <2>2. before # {} => Max(before) \in 1..n
    <3> HIDE DEF before
    <3> QED BY <1>2, <2>1, EndsAreOf
  <2> HIDE DEF before, ts
  <2> QED BY <1>2, <1>6, <2>2
<1>8. q = InsertAt(ts, at, t)
  BY DEF Beside
<1> HIDE DEF q, ts, at, before
<1>9. /\ q \in Seq(Tab) /\ Len(q) = n + 1
      /\ \A k \in 1..(n + 1) : q[k] = IF k < at THEN ts[k] ELSE IF k = at THEN t ELSE ts[k - 1]
  <2>1. at \in 1..Len(ts) + 1
    BY <1>6, <1>7
  <2>2. ts \in Seq(Tab) /\ t \in Tab
    BY <1>6
  <2>3. InsertAt(ts, at, t) \in Seq(Tab) /\ IsInserted(InsertAt(ts, at, t), ts, at, t)
    BY <2>1, <2>2, InsertAtMoves
  <2> QED BY <1>6, <1>8, <2>3 DEF IsInserted
<1>10. \A i \in 1..n : ts[i].id # t.id
  BY <1>2, <1>5 DEF IdsIn
<1>11. \A i, j \in 1..n : ts[i].id = ts[j].id => i = j
  BY <1>1, <1>5 DEF IdsDiffer, n
<1>12. IdsDiffer(q)
  <2> SUFFICES ASSUME NEW i \in 1..(n + 1), NEW j \in 1..(n + 1), q[i].id = q[j].id
               PROVE  i = j
    BY <1>9 DEF IdsDiffer
  <2>0. \A k \in 1..(n + 1) : k # at => q[k].id # t.id
    <3> SUFFICES ASSUME NEW k \in 1..(n + 1), k # at PROVE q[k].id # t.id
      OBVIOUS
    <3>1. CASE k < at
      <4>1. q[k] = ts[k] /\ k \in 1..n
        BY <1>2, <1>7, <1>9, <3>1
      <4> QED BY <1>10, <4>1
    <3>2. CASE ~(k < at)
      <4>1. q[k] = ts[k - 1] /\ k - 1 \in 1..n
        BY <1>2, <1>7, <1>9, <3>2
      <4> QED BY <1>10, <4>1
    <3> QED BY <3>1, <3>2
  <2>1. CASE i = at \/ j = at
    <3>1. q[at].id = t.id
      BY <1>2, <1>7, <1>9
    <3> QED BY <2>0, <2>1, <3>1
  <2>2. CASE i # at /\ j # at
    BY <1>2, <1>7, <1>9, <1>11, <2>2
  <2> QED BY <2>1, <2>2
<1>13. t \in ToSet(q)
  <2>1. q[at] = t
    BY <1>2, <1>7, <1>9
  <2> QED BY <1>2, <1>7, <1>9, <2>1, ElementsOf
<1>14. ASSUME NEW x \in ToSet(q)
       PROVE  x = t \/ \E u \in ToSet(v.tabs) : u.id = x.id /\ u.root = x.root
  <2>1. PICK k \in 1..(n + 1) : x = q[k]
    BY <1>9, ElementsOf
  <2>2. x = t \/ \E i \in 1..n : x = ts[i]
    BY <1>2, <1>7, <1>9, <2>1
  <2> QED BY <1>2, <1>5, <2>2
<1> QED BY <1>9, <1>12, <1>13, <1>14 DEF q

\* A tab with a new id in the place of another.
LEMMA ReplacedTabs ==
    ASSUME NEW v, ViewFits(v), NEW t \in Tab, t.id \notin IdsIn(v.tabs),
           NEW m \in 1..Len(v.tabs)
    PROVE  LET q == [v.tabs EXCEPT ![m] = t] IN
           /\ q \in Seq(Tab) /\ IdsDiffer(q) /\ t \in ToSet(q)
           /\ \A x \in ToSet(q) :
                 x = t \/ \E u \in ToSet(v.tabs) : u.id = x.id /\ u.root = x.root
<1> DEFINE q == [v.tabs EXCEPT ![m] = t]
<1>1. v.tabs \in Seq(Tab) /\ IdsDiffer(v.tabs)
  BY DEF ViewFits, View
<1>2. \A i \in 1..Len(v.tabs) : v.tabs[i] \in ToSet(v.tabs) /\ v.tabs[i].id # t.id
  BY <1>1, ElementsOf DEF IdsIn
<1>3. /\ q \in Seq(Tab) /\ Len(q) = Len(v.tabs)
      /\ \A i \in 1..Len(v.tabs) : q[i] = IF i = m THEN t ELSE v.tabs[i]
  BY <1>1, ExceptSeq
<1> HIDE DEF q
<1>4. IdsDiffer(q)
  BY <1>1, <1>2, <1>3 DEF IdsDiffer
<1>5. t \in ToSet(q)
  BY <1>3, ElementsOf
<1>6. ASSUME NEW x \in ToSet(q)
      PROVE  x = t \/ \E u \in ToSet(v.tabs) : u.id = x.id /\ u.root = x.root
  BY <1>2, <1>3, ElementsOf
<1> QED BY <1>3, <1>4, <1>5, <1>6 DEF q

\* Opening a file shows it in a tab of its root, and no changes go.
LEMMA OpenedTabs ==
    ASSUME NEW v, ViewFits(v), IdsIn(v.tabs) \subseteq TabIds,
           NEW r \in Roots, NEW p \in Paths, NEW pin \in BOOLEAN,
           NEW w \in Opened(v, r, p, pin)
    PROVE  OpenedFrom(w, v, r)
<1> DEFINE n == Len(v.tabs)
           found == {i \in DOMAIN v.tabs : FileOf(v.tabs[i]) = [root |-> r, path |-> p]}
           t == [id |-> FreshId, root |-> r, path |-> p, pinned |-> pin, back |-> <<>>]
           ps == Previews(v, pin)
           put == IF ps = {} THEN Beside(v, t, pin) ELSE [v.tabs EXCEPT ![Min(ps)] = t]
<1>1. v \in View /\ v.tabs \in Seq(Tab) /\ IdsDiffer(v.tabs)
  BY DEF ViewFits, View
<1>2. /\ n \in Nat /\ DOMAIN v.tabs = 1..n
      /\ \A i \in 1..n : v.tabs[i] \in Tab /\ v.tabs[i] \in ToSet(v.tabs)
      /\ \A x \in ToSet(v.tabs) : \E i \in 1..n : x = v.tabs[i]
  BY <1>1, ElementsOf
<1>3. IdsIn(v.tabs) \subseteq Ids
  BY <1>1, TabsOf
<1>4. CASE found # {}
  <2> DEFINE m == Min(found)
             tab == [v.tabs[m] EXCEPT !.pinned = @ \/ pin]
             q == [v.tabs EXCEPT ![m] = tab]
  <2>1. m \in 1..n
    <3>1. found \in SUBSET (1..n)
      BY <1>2
    <3> HIDE DEF found, n
    <3> QED BY <1>2, <1>4, <3>1, EndsAreOf
  <2>2. w = [v EXCEPT !.tabs = q, !.active = v.tabs[m].id]
    <3>1. w = [v EXCEPT !.tabs[m].pinned = @ \/ pin, !.active = v.tabs[m].id]
      BY <1>4 DEF Opened
    <3> QED BY <3>1
  <2>3. tab \in Tab /\ tab.id = v.tabs[m].id /\ tab.root = v.tabs[m].root
    <3>1. v.tabs[m] \in Tab
      BY <1>2, <2>1
    <3>2. (v.tabs[m].pinned \/ pin) \in BOOLEAN
      OBVIOUS
    <3> HIDE DEF m
    <3> QED BY <3>1, <3>2 DEF Tab
  <2> HIDE DEF m, tab
  <2>4. /\ q \in Seq(Tab) /\ Len(q) = n
        /\ \A i \in 1..n : q[i] = IF i = m THEN tab ELSE v.tabs[i]
    BY <1>1, <2>1, <2>3, ExceptSeq
  <2> HIDE DEF q, n
  <2>5. /\ w.tabs = q /\ w.active = v.tabs[m].id /\ w.dirty = v.dirty /\ w.kept = v.kept
        /\ w.active \in Ids => w \in View
    BY <1>1, <2>2, <2>4 DEF View
  <2>6. \A i \in 1..n : q[i].id = v.tabs[i].id /\ q[i].root = v.tabs[i].root
    BY <2>3, <2>4
  <2>7. IdsDiffer(q)
    BY <1>1, <2>4, <2>6 DEF IdsDiffer, n
  <2>8. w.active \in IdsIn(q) /\ w.active \in Ids
    <3>1. q[m] \in ToSet(q) /\ q[m] \in Tab
      BY <2>1, <2>4, ElementsOf
    <3> QED BY <2>1, <2>5, <2>6, <3>1 DEF IdsIn, Tab
  <2>9. \A x \in ToSet(q) : \E u \in ToSet(v.tabs) : u.id = x.id /\ u.root = x.root
    <3> SUFFICES ASSUME NEW x \in ToSet(q)
                 PROVE  \E u \in ToSet(v.tabs) : u.id = x.id /\ u.root = x.root
      OBVIOUS
    <3>1. PICK i \in 1..n : x = q[i]
      BY <2>4, ElementsOf
    <3> QED BY <1>2, <2>6, <3>1
  <2> QED BY <2>5, <2>7, <2>8, <2>9 DEF OpenedFrom, ViewFits
<1>5. CASE found = {}
  <2> DEFINE x == [v EXCEPT !.tabs = put, !.active = t.id]
  <2>1. FreeIds # {} /\ w \in Capped(x)
    <3>1. w \in IF Len(v.tabs) = MaxOpen \/ FreeIds = {} THEN {}
                ELSE Capped([v EXCEPT
                       !.tabs = IF ps = {} THEN Beside(v, t, pin)
                                ELSE [@ EXCEPT ![Min(ps)] = t],
                       !.active = t.id])
      BY <1>5 DEF Opened
    <3> QED BY <3>1
  <2>2. FreshId \in Ids /\ FreshId \notin TabIds
    <3>1. FreshId \in FreeIds
      BY <2>1 DEF FreshId
    <3> QED BY <3>1 DEF FreeIds
  <2>3. t \in Tab /\ t.id \notin IdsIn(v.tabs)
    <3>1. <<>> \in Seq(Paths)
      BY EmptySeq
    <3> QED BY <2>2, <3>1 DEF Tab
  <2>4. t.id = FreshId /\ t.root = r
    OBVIOUS
  <2> HIDE DEF t
  <2>5. /\ put \in Seq(Tab) /\ IdsDiffer(put) /\ t \in ToSet(put)
        /\ \A y \in ToSet(put) :
              y = t \/ \E u \in ToSet(v.tabs) : u.id = y.id /\ u.root = y.root
    <3>1. CASE ps = {}
      BY <2>3, <3>1, BesideTabs
    <3>2. CASE ps # {}
      <4>1. Min(ps) \in 1..n
        <5>1. ps \in SUBSET (1..n)
          BY <1>2 DEF Previews
        <5> HIDE DEF ps, n
        <5> QED BY <1>2, <3>2, <5>1, EndsAreOf
      <4> QED BY <2>3, <3>2, <4>1, ReplacedTabs
    <3> QED BY <3>1, <3>2
  <2> HIDE DEF put
  <2>6. /\ x.tabs = put /\ x.active = t.id /\ x.dirty = v.dirty /\ x.kept = v.kept
        /\ x \in View
    BY <1>1, <2>2, <2>4, <2>5 DEF View
  <2> HIDE DEF x
  <2>7. ViewFits(x)
    BY <2>5, <2>6 DEF ViewFits, IdsIn
  <2>8. /\ ViewFits(w) /\ w.dirty = x.dirty
        /\ \A y \in ToSet(w.tabs) :
              y \in ToSet(x.tabs) /\ (y.id \in x.kept => y.id \in w.kept)
    BY <2>1, <2>7, CappedTabs
  <2> QED BY <2>2, <2>4, <2>5, <2>6, <2>8 DEF OpenedFrom
<1> QED BY <1>4, <1>5

-----------------------------------------------------------------------------
(* Tabs: the state.                                                        *)

\* The state's tabs as a value.
LEMMA FileTabsFit ==
    ASSUME TabsInv
    PROVE  /\ ViewFits(FileTabs) /\ IdsIn(openTabs) = TabIds
           /\ FileTabs.tabs = openTabs /\ FileTabs.active = active
           /\ FileTabs.dirty = dirty /\ FileTabs.kept = keptOpen
           /\ TabIds \subseteq Ids
           /\ \A t, u \in ToSet(openTabs) : t.id = u.id => t = u
           /\ \A t \in ToSet(openTabs) : t \in Tab /\ t.id \in TabIds /\ FileOf(t) \in File
<1>1. IdsIn(openTabs) = TabIds
  BY DEF IdsIn, TabIds
<1>2. /\ TabIds \subseteq Ids
      /\ \A t, u \in ToSet(openTabs) : t.id = u.id => t = u
      /\ \A t \in ToSet(openTabs) : t \in Tab /\ t.id \in TabIds /\ FileOf(t) \in File
  BY <1>1, TabsOf DEF TabsInv
<1>3. /\ FileTabs.tabs = openTabs /\ FileTabs.active = active
      /\ FileTabs.dirty = dirty /\ FileTabs.kept = keptOpen
  BY DEF FileTabs
<1>4. FileTabs \in View
  BY <1>2 DEF FileTabs, View, TabsInv
<1> QED BY <1>1, <1>2, <1>3, <1>4 DEF ViewFits, TabsInv

\* What the state becomes is right when the tabs asked about are.
LEMMA BecomeKeeps ==
    ASSUME NEW w, ViewFits(w), Become(w), asked' \subseteq IdsIn(w.tabs),
           movedEarly' => asked' = {},
           ~movedEarly' => \A t \in ToSet(w.tabs) :
              IF t.root = root' THEN t.id \notin asked' ELSE t.id \in asked' \cup w.kept
    PROVE  TabsInv' /\ dirty' = w.dirty
<1>1. /\ openTabs' = w.tabs /\ active' = w.active /\ dirty' = w.dirty
      /\ keptOpen' = w.kept \cap IdsIn(w.tabs)
  BY DEF Become, IdsIn
<1>2. /\ w.tabs \in Seq(Tab) /\ IdsDiffer(w.tabs) /\ w.dirty \subseteq File
      /\ w.active \in IdsIn(w.tabs) \cup {None}
  BY DEF ViewFits, View
<1>3. TabIds' = IdsIn(w.tabs)
  BY <1>1 DEF TabIds, IdsIn
<1>4. AskedRight'
  <2> SUFFICES ASSUME ~movedEarly', NEW t \in ToSet(w.tabs)
               PROVE  IF t.root = root' THEN t.id \notin asked'
                      ELSE t.id \in asked' \cup keptOpen'
    BY <1>1 DEF AskedRight, AskedTabs, Here
  <2>1. t.id \in IdsIn(w.tabs)
    BY DEF IdsIn
  <2> QED BY <1>1, <2>1
<1>5. (openTabs \in Seq(Tab) /\ IdsDiffer(openTabs))'
  BY <1>1, <1>2 DEF IdsDiffer
<1> QED BY <1>1, <1>2, <1>3, <1>4, <1>5 DEF TabsInv

\* A file of the root shown opens.
LEMMA OpensKeep ==
    ASSUME TabsInv, root' \in Roots, root' = root \/ openTabs = <<>> \/ movedEarly,
           movedEarly' = movedEarly, NEW p \in Paths, NEW pin \in BOOLEAN,
           NEW w \in Opened(FileTabs, root', p, pin), Become(w), StillAsked(asked)
    PROVE  TabsInv' /\ dirty' = dirty
<1>1. /\ ViewFits(FileTabs) /\ IdsIn(openTabs) = TabIds /\ FileTabs.tabs = openTabs
      /\ FileTabs.dirty = dirty /\ FileTabs.kept = keptOpen
  BY FileTabsFit
<1>2. OpenedFrom(w, FileTabs, root')
  BY <1>1, OpenedTabs
<1>3. /\ ViewFits(w) /\ w.dirty = dirty
      /\ \A t \in ToSet(w.tabs) :
            \/ /\ \E u \in ToSet(openTabs) : u.id = t.id /\ u.root = t.root
               /\ t.id \in keptOpen => t.id \in w.kept
            \/ t.id \notin TabIds /\ t.root = root'
  BY <1>1, <1>2 DEF OpenedFrom
<1>4. asked' = asked \cap IdsIn(w.tabs)
  BY DEF StillAsked, Become, IdsIn
<1>5. ASSUME ~movedEarly, NEW t \in ToSet(w.tabs)
      PROVE  IF t.root = root' THEN t.id \notin asked' ELSE t.id \in asked' \cup w.kept
  <2>1. t.id \in IdsIn(w.tabs)
    BY DEF IdsIn
  <2>2. CASE t.id \notin TabIds /\ t.root = root'
    BY <1>4, <2>2 DEF TabsInv
  <2>3. CASE /\ \E u \in ToSet(openTabs) : u.id = t.id /\ u.root = t.root
             /\ t.id \in keptOpen => t.id \in w.kept
    <3>1. PICK u \in ToSet(openTabs) : u.id = t.id /\ u.root = t.root
      BY <2>3
    <3>2. root' = root
      <4>1. ToSet(<<>>) = {}
        BY DEF ToSet
      <4> QED BY <1>5, <3>1, <4>1
    <3>3. IF u.root = root THEN u.id \notin asked ELSE u.id \in asked \cup keptOpen
      BY <1>5 DEF TabsInv, AskedRight, AskedTabs, Here
    <3> QED BY <1>4, <2>1, <2>3, <3>1, <3>2, <3>3
  <2> QED BY <1>3, <2>2, <2>3
<1>6. movedEarly' => asked' = {}
  BY <1>4 DEF TabsInv, AskedRight
<1> QED BY <1>3, <1>4, <1>5, <1>6, BecomeKeeps

\* The root moves: the tabs left are asked about, those of the new root are
\* not, and those that close have no changes.
LEMMA RootChangedTabs ==
    ASSUME TabsInv, NEW r \in Roots, root' = r, ~movedEarly', NEW file \in Paths \cup {None},
           LET v == [Closed(FileTabs, Moved(r)) EXCEPT !.kept = {}]
           IN  IF file = None THEN Become(v)
               ELSE \E w \in Opened(v, r, file, FALSE) : Become(w),
           StillAsked(Asked(r))
    PROVE  TabsInv' /\ dirty' = dirty
<1> DEFINE c == Closed(FileTabs, Moved(r))
           v == [c EXCEPT !.kept = {}]
<1>1. /\ ViewFits(FileTabs) /\ FileTabs.tabs = openTabs
      /\ FileTabs.dirty = dirty
      /\ \A t, u \in ToSet(openTabs) : t.id = u.id => t = u
      /\ \A t \in ToSet(openTabs) : t.id \in TabIds
  BY FileTabsFit
<1>2. \A t \in ToSet(openTabs) : t.id \in Moved(r) => FileOf(t) \notin dirty
  BY <1>1 DEF Moved, HasChanges
<1>3. /\ ViewFits(c) /\ c.dirty = dirty
      /\ \A t \in ToSet(c.tabs) : t \in ToSet(openTabs)
  <2> HIDE DEF c
  <2> QED BY <1>1, <1>2, ClosedTabs DEF c
<1> HIDE DEF c
<1>4. v.tabs = c.tabs /\ v.dirty = dirty /\ v.active = c.active /\ v \in View
  BY <1>3 DEF ViewFits, View
<1> HIDE DEF v
<1>5. ViewFits(v) /\ IdsIn(v.tabs) \subseteq TabIds
  <2>1. ViewFits(v)
    BY <1>3, <1>4 DEF ViewFits
  <2>2. IdsIn(v.tabs) \subseteq TabIds
    BY <1>1, <1>3, <1>4 DEF IdsIn
  <2> QED BY <2>1, <2>2
<1>6. PICK w : Become(w) /\ OpenedFrom(w, v, r)
  <2>1. CASE file = None
    <3>1. Become(v)
      BY <2>1 DEF v, c
    <3>2. OpenedFrom(v, v, r)
      BY <1>5 DEF OpenedFrom
    <3> QED BY <3>1, <3>2
  <2>2. CASE file # None
    <3>1. PICK w \in Opened(v, r, file, FALSE) : Become(w)
      BY <2>2 DEF v, c
    <3>2. OpenedFrom(w, v, r)
      BY <1>5, <2>2, OpenedTabs
    <3> QED BY <3>1, <3>2
  <2> QED BY <2>1, <2>2
<1>7. /\ ViewFits(w) /\ w.dirty = dirty
      /\ \A t \in ToSet(w.tabs) :
            \/ \E u \in ToSet(openTabs) : u.id = t.id /\ u.root = t.root
            \/ t.id \notin TabIds /\ t.root = r
  BY <1>3, <1>4, <1>6 DEF OpenedFrom
<1>8. asked' = Asked(r) \cap IdsIn(w.tabs)
  BY <1>6 DEF StillAsked, Become, IdsIn
<1>9. ASSUME NEW t \in ToSet(w.tabs)
      PROVE  IF t.root = root' THEN t.id \notin asked' ELSE t.id \in asked' \cup w.kept
  <2>1. t.id \in IdsIn(w.tabs)
    BY DEF IdsIn
  <2>2. CASE t.id \notin TabIds /\ t.root = r
    <3>1. Asked(r) \subseteq TabIds
      BY <1>1 DEF Asked
    <3> QED BY <1>8, <2>2, <3>1
  <2>3. CASE \E u \in ToSet(openTabs) : u.id = t.id /\ u.root = t.root
    <3>1. PICK u \in ToSet(openTabs) : u.id = t.id /\ u.root = t.root
      BY <2>3
    <3>2. u.root # r => u.id \in Asked(r)
      BY DEF Asked
    <3>3. u.root = r => u.id \notin Asked(r)
      <4> SUFFICES ASSUME u.root = r, u.id \in Asked(r) PROVE FALSE
        OBVIOUS
      <4>1. PICK x \in ToSet(openTabs) : x.root # r /\ x.id = u.id
        BY DEF Asked
      <4> QED BY <1>1, <4>1
    <3> QED BY <1>8, <2>1, <3>1, <3>2, <3>3
  <2> QED BY <1>7, <2>2, <2>3
<1> QED BY <1>6, <1>7, <1>8, <1>9, BecomeKeeps

\* Tabs close; those asked about are no others than before, or all answered.
LEMMA ClosesKeep ==
    ASSUME TabsInv, root' = root, movedEarly' = movedEarly, NEW gone, Become(Closed(FileTabs, gone)),
           StillAsked(asked) \/ (asked \subseteq gone /\ asked' = {})
    PROVE  TabsInv'
<1> DEFINE c == Closed(FileTabs, gone)
<1>1. /\ ViewFits(FileTabs) /\ FileTabs.tabs = openTabs /\ FileTabs.kept = keptOpen
  BY FileTabsFit
<1>2. /\ ViewFits(c) /\ c.kept = keptOpen \ gone
      /\ \A t \in ToSet(c.tabs) : t \in ToSet(openTabs) /\ t.id \notin gone
  <2> HIDE DEF c
  <2> QED BY <1>1, ClosedTabs DEF c
<1> HIDE DEF c
<1>3. Become(c)
  BY DEF c
<1>4. \/ asked' = asked \cap IdsIn(c.tabs)
      \/ asked \subseteq gone /\ asked' = {}
  BY <1>3 DEF StillAsked, Become, IdsIn
<1>5. ASSUME ~movedEarly, NEW t \in ToSet(c.tabs)
      PROVE  IF t.root = root' THEN t.id \notin asked' ELSE t.id \in asked' \cup c.kept
  <2>1. t.id \in IdsIn(c.tabs)
    BY DEF IdsIn
  <2>2. IF t.root = root THEN t.id \notin asked ELSE t.id \in asked \cup keptOpen
    BY <1>2, <1>5 DEF TabsInv, AskedRight, AskedTabs, Here
  <2> QED BY <1>2, <1>4, <2>1, <2>2
<1>6. movedEarly' => asked' = {}
  BY <1>4 DEF TabsInv, AskedRight
<1> QED BY <1>2, <1>3, <1>4, <1>5, <1>6, BecomeKeeps

\* Tabs that keep their ids and roots, and are asked about or kept as before.
LEMMA RetaggedKeep ==
    ASSUME TabsInv, root' = root, movedEarly' = movedEarly,
           openTabs' \in Seq(Tab), Len(openTabs') = Len(openTabs),
           \A i \in 1..Len(openTabs) :
              openTabs'[i].id = openTabs[i].id /\ openTabs'[i].root = openTabs[i].root,
           active' \in TabIds \cup {None}, keptOpen' \subseteq TabIds,
           asked' \subseteq asked, asked \cup keptOpen \subseteq asked' \cup keptOpen',
           dirty' \subseteq File
    PROVE  TabsInv'
<1>1. openTabs \in Seq(Tab) /\ IdsDiffer(openTabs) /\ asked \subseteq TabIds
  BY DEF TabsInv
<1>2. /\ \A i \in 1..Len(openTabs) :
            openTabs[i] \in ToSet(openTabs) /\ openTabs'[i] \in ToSet(openTabs')
      /\ \A x \in ToSet(openTabs) : \E i \in 1..Len(openTabs) : x = openTabs[i]
      /\ \A x \in ToSet(openTabs') : \E i \in 1..Len(openTabs) : x = openTabs'[i]
  BY <1>1, ElementsOf
<1>3. TabIds \subseteq TabIds'
  <2> SUFFICES ASSUME NEW x \in ToSet(openTabs)
               PROVE  \E y \in ToSet(openTabs') : y.id = x.id
    BY DEF TabIds
  <2>1. PICK i \in 1..Len(openTabs) : x = openTabs[i]
    BY <1>2
  <2> QED BY <1>2, <2>1
<1>4. IdsDiffer(openTabs)'
  BY <1>1 DEF IdsDiffer
<1>5. AskedRight'
  <2> SUFFICES ASSUME ~movedEarly, NEW y \in ToSet(openTabs')
               PROVE  IF y.root = root THEN y.id \notin asked'
                      ELSE y.id \in asked' \cup keptOpen'
    BY DEF AskedRight, AskedTabs, Here, TabsInv
  <2>1. PICK i \in 1..Len(openTabs) : y = openTabs'[i]
    BY <1>2
  <2>2. openTabs[i] \in ToSet(openTabs)
    BY <1>2
  <2>3. IF openTabs[i].root = root THEN openTabs[i].id \notin asked
        ELSE openTabs[i].id \in asked \cup keptOpen
    BY <2>2 DEF TabsInv, AskedRight, AskedTabs, Here
  <2> QED BY <2>1, <2>3
<1> QED BY <1>1, <1>3, <1>4, <1>5 DEF TabsInv

\* The tab shown is one of the tabs, at one position.
LEMMA ActiveIs ==
    ASSUME TabsInv, active # None
    PROVE  /\ Active \in ToSet(openTabs) /\ Active.id = active
           /\ Active \in Tab /\ FileOf(Active) \in File
           /\ \E i \in 1..Len(openTabs) : openTabs[i].id = active
<1>1. \E t \in ToSet(openTabs) : t.id = active
  BY DEF TabsInv, TabIds
<1>2. Active \in ToSet(openTabs) /\ Active.id = active
  BY <1>1 DEF Active
<1>3. Active \in Tab /\ FileOf(Active) \in File
  BY <1>2, FileTabsFit
<1>4. openTabs \in Seq(Tab)
  BY DEF TabsInv
<1>5. \E i \in 1..Len(openTabs) : openTabs[i].id = active
  BY <1>2, <1>4, ElementsOf
<1> QED BY <1>2, <1>3, <1>5

\* Tabs one of which has another path, links behind it, or a pin.
LEMMA EditedTabs ==
    ASSUME openTabs \in Seq(Tab), NEW g \in [1..Len(openTabs) -> Tab],
           \A i \in 1..Len(openTabs) :
              g[i].id = openTabs[i].id /\ g[i].root = openTabs[i].root
    PROVE  /\ g \in Seq(Tab) /\ Len(g) = Len(openTabs)
<1>1. Len(openTabs) \in Nat
  BY LenProperties
<1>2. g \in Seq(Tab) /\ DOMAIN g = 1..Len(openTabs)
  BY <1>1, SeqDef
<1> QED BY <1>1, <1>2, LenProperties

\* What follows a read: the file opens, if it does, under the root now shown.
LEMMA FollowsKeep ==
    ASSUME TabsInv, root' \in Roots, root' = root \/ openTabs = <<>> \/ movedEarly,
           movedEarly' = movedEarly, NEW then, then.kind # "none" => then.path \in Paths,
           Follows(then)
    PROVE  TabsInv' /\ dirty' = dirty /\ asked' \subseteq asked
<1>0. openTabs = <<>> => ToSet(openTabs) = {}
  BY DEF ToSet
<1>1. ASSUME UNCHANGED tabState PROVE TabsInv' /\ dirty' = dirty
  <2>1. /\ openTabs' = openTabs /\ active' = active /\ asked' = asked
        /\ keptOpen' = keptOpen /\ dirty' = dirty
    BY <1>1 DEF tabState
  <2>2. TabIds' = TabIds /\ IdsDiffer(openTabs)'
    BY <2>1 DEF TabIds, IdsDiffer, TabsInv
  <2>3. AskedRight'
    BY <1>0, <2>1 DEF AskedRight, AskedTabs, Here, TabsInv
  <2> QED BY <2>1, <2>2, <2>3 DEF TabsInv
<1>2. ASSUME then.kind # "none", StillAsked(asked), NEW v, Become(v),
             NEW pin \in BOOLEAN, v \in Opened(FileTabs, root', then.path, pin)
      PROVE  TabsInv' /\ dirty' = dirty
  BY <1>2, OpensKeep
<1>3. ASSUME then.kind # "none", StillAsked(asked), active # None,
             openTabs' = [i \in DOMAIN openTabs |->
                            IF openTabs[i].id # active \/ openTabs[i].path = then.path
                              THEN openTabs[i]
                            ELSE [openTabs[i] EXCEPT !.path = then.path,
                                                     !.back = Append(@, openTabs[i].path)]],
             UNCHANGED <<active, keptOpen, dirty>>
      PROVE  TabsInv' /\ dirty' = dirty
  <2>1. openTabs \in Seq(Tab) /\ Len(openTabs) \in Nat /\ DOMAIN openTabs = 1..Len(openTabs)
    BY LenProperties DEF TabsInv
  <2>2. \A i \in 1..Len(openTabs) : openTabs[i] \in Tab /\ openTabs[i] \in ToSet(openTabs)
    BY <2>1, ElementsOf
  <2>3. \A t \in Tab, q \in Seq(Paths) :
           LET u == [t EXCEPT !.path = then.path, !.back = q]
           IN  u \in Tab /\ u.id = t.id /\ u.root = t.root
    BY <1>3 DEF Tab
  <2>4. \A t \in Tab : Append(t.back, t.path) \in Seq(Paths)
    BY AppendProperties DEF Tab
  <2>5. \A i \in 1..Len(openTabs) :
           /\ openTabs'[i] \in Tab
           /\ openTabs'[i].id = openTabs[i].id /\ openTabs'[i].root = openTabs[i].root
    BY <1>3, <2>1, <2>2, <2>3, <2>4
  <2>6. openTabs' \in [1..Len(openTabs) -> Tab]
    BY <1>3, <2>1, <2>5
  <2>7. openTabs' \in Seq(Tab) /\ Len(openTabs') = Len(openTabs)
    BY <2>1, <2>5, <2>6, EditedTabs
  <2>8. root' = root \/ movedEarly
    <3>1. openTabs # <<>>
      BY <1>0, <1>3 DEF TabsInv, TabIds
    <3> QED BY <3>1
  <2>9. TabIds \subseteq TabIds'
    <3> SUFFICES ASSUME NEW x \in ToSet(openTabs)
                 PROVE  \E y \in ToSet(openTabs') : y.id = x.id
      BY DEF TabIds
    <3>1. PICK i \in 1..Len(openTabs) : x = openTabs[i]
      BY <2>1, ElementsOf
    <3>2. openTabs'[i] \in ToSet(openTabs')
      BY <2>7, ElementsOf
    <3> QED BY <2>5, <3>1, <3>2
  <2>10. asked' = asked
    BY <1>3, <2>9 DEF StillAsked, TabIds, TabsInv
  <2>11. TabsInv'
    <3>1. /\ active' \in TabIds \cup {None} /\ keptOpen' \subseteq TabIds
          /\ asked' \subseteq asked /\ asked \cup keptOpen \subseteq asked' \cup keptOpen'
          /\ dirty' \subseteq File
      BY <1>3, <2>10 DEF TabsInv
    <3>2. CASE root' = root
      BY <2>5, <2>7, <3>1, <3>2, RetaggedKeep
    <3>3. CASE movedEarly
      <4>1. IdsDiffer(openTabs)'
        BY <2>1, <2>5, <2>7 DEF IdsDiffer, TabsInv
      <4>2. AskedRight'
        BY <2>10, <3>3 DEF AskedRight, TabsInv
      <4> QED BY <2>7, <2>9, <2>10, <3>1, <4>1, <4>2 DEF TabsInv
    <3> QED BY <2>8, <3>2, <3>3
  <2> QED BY <1>3, <2>11
<1>4. ASSUME
           /\ then.kind # "none" /\ (then.kind = "reveal" \/ Spot = then.at)
           /\ \E newTab, fresh \in BOOLEAN :
                LET other == {t \in ToSet(openTabs) :
                                t.path = then.path /\ t.root = root' /\ t.id # active}
                IN  IF then.kind # "follow" \/ newTab \/ fresh \/ other # {} \/ active = None
                      THEN \E v \in Opened(FileTabs, root', then.path,
                                           IF then.kind = "follow" THEN newTab
                                           ELSE then.kind = "created") : Become(v)
                      ELSE /\ Len(Active.back) < MaxTrail
                           /\ openTabs' = [i \in DOMAIN openTabs |->
                                IF openTabs[i].id # active \/ openTabs[i].path = then.path
                                  THEN openTabs[i]
                                ELSE [openTabs[i] EXCEPT !.path = then.path,
                                                         !.back = Append(@, openTabs[i].path)]]
                           /\ UNCHANGED <<active, keptOpen, dirty>>
           /\ StillAsked(asked)
      PROVE  TabsInv' /\ dirty' = dirty
  <2>1. PICK newTab \in BOOLEAN, fresh \in BOOLEAN :
           LET other == {t \in ToSet(openTabs) :
                           t.path = then.path /\ t.root = root' /\ t.id # active}
           IN  IF then.kind # "follow" \/ newTab \/ fresh \/ other # {} \/ active = None
                 THEN \E v \in Opened(FileTabs, root', then.path,
                                      IF then.kind = "follow" THEN newTab
                                      ELSE then.kind = "created") : Become(v)
                 ELSE /\ Len(Active.back) < MaxTrail
                      /\ openTabs' = [i \in DOMAIN openTabs |->
                           IF openTabs[i].id # active \/ openTabs[i].path = then.path
                             THEN openTabs[i]
                           ELSE [openTabs[i] EXCEPT !.path = then.path,
                                                    !.back = Append(@, openTabs[i].path)]]
                      /\ UNCHANGED <<active, keptOpen, dirty>>
    BY <1>4
  <2>2. CASE \E pin \in BOOLEAN :
               \E v \in Opened(FileTabs, root', then.path, pin) : Become(v)
    BY <1>2, <1>4, <2>2
  <2>3. CASE ~\E pin \in BOOLEAN :
               \E v \in Opened(FileTabs, root', then.path, pin) : Become(v)
    <3>1. (IF then.kind = "follow" THEN newTab ELSE then.kind = "created") \in BOOLEAN
      OBVIOUS
    <3>2. /\ active # None
          /\ openTabs' = [i \in DOMAIN openTabs |->
               IF openTabs[i].id # active \/ openTabs[i].path = then.path
                 THEN openTabs[i]
               ELSE [openTabs[i] EXCEPT !.path = then.path,
                                        !.back = Append(@, openTabs[i].path)]]
          /\ UNCHANGED <<active, keptOpen, dirty>>
      BY <2>1, <2>3, <3>1
    <3> QED BY <1>3, <1>4, <3>2
  <2> QED BY <2>2, <2>3
<1>5. asked' \subseteq asked
  BY DEF Follows, StillAsked, tabState
<1> QED BY <1>1, <1>4, <1>5 DEF Follows

-----------------------------------------------------------------------------
(* Reads: the inductive invariant.                                         *)

Dirs == {"top", "sub"}
Thens == [kind : {"none", "follow", "created", "reveal"}, path : Paths \cup {None},
          at : (Ids \cup {None}) \X (Paths \cup {None}), again : BOOLEAN]
Read == [fresh : BOOLEAN, dir : Dirs, root : Roots \cup {None}, place : {None, Place},
         may : SUBSET Roots, then : Thens]

\* The root of source pl on the server.
SourceRoot(pl) == IF pl = None THEN paneRoot ELSE PlaceRoot

\* A read has an answer; a file to open has a path; and while no other tree
\* was asked for, it was sent to pl.
ReadIs(r, pl) ==
    /\ r \in Read /\ r.may # {}
    /\ r.then.kind # "none" => r.then.path \in Paths
    /\ r.fresh => r.place = pl
ReadsAre(q, pl) == q \in Seq(Read) /\ \A i \in 1..Len(q) : ReadIs(q[i], pl)

\* While no other tree was asked for, a read was sent from root rt, or it was
\* sent from none and will bring src, which is what rt is once there is one.
RootsAgree(q, rt, src) ==
    \A i \in 1..Len(q) : q[i].fresh =>
        /\ q[i].root \in {None, rt}
        /\ q[i].root = None => q[i].may = {src} /\ rt \in {None, src}

\* Reads just sent, from rt to the source whose root is src; and sent from rt.
AllSent(q, rt, src) ==
    \A i \in 1..Len(q) : q[i].fresh => q[i].root = rt /\ q[i].may = {src}
AllFrom(q, rt) == \A i \in 1..Len(q) : q[i].fresh => q[i].root = rt

\* A read whose answer names the root is under way, one of the directory shown
\* first, and any of that directory.
RootlessIn(q) == \E i \in 1..Len(q) : Rootless(q[i])
RootlessTop(q) == \E i \in 1..Len(q) : Rootless(q[i]) /\ q[i].dir = "top"
TopIsRead(q) == \E i \in 1..Len(q) : q[i].fresh /\ q[i].dir = "top"

\* The read of a source just picked is under way, and no conflict ends it: its
\* answer names the root, or every read was sent from the one shown.
PickIsRead(q, rt) == RootlessTop(q) \/ (TopIsRead(q) /\ AllFrom(q, rt))

\* Before the first answer there is nothing to open a file from.
NothingYet == root = None => openTabs = <<>> /\ asked = {}

StoreFields ==
    /\ paneRoot \in Roots /\ offered \in BOOLEAN
    /\ root \in Roots \cup {None} /\ place \in {None, Place}
    /\ listing \in [Dirs -> Roots \cup {None}]
    /\ switching \in BOOLEAN /\ movedEarly \in BOOLEAN

\* The reads under way.  Nothing was asked of the user while one was sent
\* before any root was known: the first move noticed is what asks.
ReadsInv ==
    /\ ReadsAre(treeReads, place)
    /\ ~movedEarly => RootsAgree(treeReads, root, SourceRoot(place))
    /\ RootlessIn(treeReads) => asked = {}
    /\ switching => PickIsRead(treeReads, root)

StoreInv ==
    /\ StoreFields
    /\ TabsInv
    /\ ReadsInv
    /\ NothingYet
    /\ ~movedEarly => ListingOfRoot

-----------------------------------------------------------------------------
(* Reads: the operations.                                                  *)

\* What a load does with its answer, and what a file asked for does.
LEMMA ThensAre ==
    /\ Plain \in Thens /\ Plain.kind = "none"
    /\ TabsInv => \A kind \in {"follow", "created", "reveal"}, p \in Paths :
                     Then(kind, p) \in Thens /\ Then(kind, p).path \in Paths
<1>1. Plain \in Thens /\ Plain.kind = "none"
  BY DEF Plain, Thens
<1>2. ASSUME TabsInv PROVE Spot \in (Ids \cup {None}) \X (Paths \cup {None})
  <2>1. active # None => Active.path \in Paths
    BY <1>2, ActiveIs DEF Tab
  <2>2. active \in Ids \cup {None}
    BY <1>2, FileTabsFit DEF TabsInv
  <2> QED BY <2>1, <2>2 DEF Spot
<1>3. ASSUME TabsInv, NEW kind \in {"follow", "created", "reveal"}, NEW p \in Paths
      PROVE  Then(kind, p) \in Thens /\ Then(kind, p).path \in Paths
  BY <1>2, <1>3 DEF Then, Thens
<1> QED BY <1>1, <1>3

\* A read just sent.
LEMMA NewReadIs ==
    ASSUME StoreFields, NEW dir \in Dirs, NEW rt \in Roots \cup {None},
           NEW pl \in {None, Place}, NEW then \in Thens,
           then.kind # "none" => then.path \in Paths
    PROVE  LET r == NewTreeRead(dir, rt, pl, then)
           IN  /\ ReadIs(r, pl) /\ r.fresh /\ r.dir = dir /\ r.then = then
               /\ r.root = rt /\ r.may = {SourceRoot(pl)}
<1>1. SourceRoot(pl) \in Roots
  BY FilesAssumption DEF StoreFields, SourceRoot
<1>2. NewTreeRead(dir, rt, pl, then) =
         [fresh |-> TRUE, dir |-> dir, root |-> rt, place |-> pl,
          may |-> {SourceRoot(pl)}, then |-> then]
  BY DEF NewTreeRead, SourceRoot
<1> QED BY <1>1, <1>2 DEF ReadIs, Read

\* One read as a sequence, and none.
LEMMA OneRead ==
    ASSUME NEW r, NEW pl, ReadIs(r, pl)
    PROVE  /\ ReadsAre(<<r>>, pl) /\ Len(<<r>>) = 1 /\ <<r>>[1] = r
           /\ ReadsAre(<<>>, pl) /\ Len(<<>>) = 0
<1>1. r \in Read
  BY DEF ReadIs
<1>2. <<r>> \in Seq(Read) /\ Len(<<r>>) = 1 /\ <<r>>[1] = r
  BY <1>1
<1>3. <<>> \in Seq(Read) /\ Len(<<>>) = 0
  BY EmptySeq
<1> QED BY <1>2, <1>3 DEF ReadsAre

\* Reads of an older tree may be of any source.
LEMMA OutdatedAre ==
    ASSUME NEW q, NEW old, NEW pl, ReadsAre(q, old)
    PROVE  /\ ReadsAre(Outdated(q), pl) /\ Len(Outdated(q)) = Len(q)
           /\ \A i \in 1..Len(q) : ~Outdated(q)[i].fresh
<1>1. q \in Seq(Read) /\ Len(q) \in Nat /\ DOMAIN q = 1..Len(q)
  BY LenProperties DEF ReadsAre
<1>2. \A i \in 1..Len(q) : q[i] \in Read
  BY <1>1, ElementOfSeq
<1>3. \A x \in Read :
         LET y == [x EXCEPT !.fresh = FALSE]
         IN  /\ y \in Read /\ ~y.fresh /\ y.then = x.then /\ y.may = x.may
  BY DEF Read
<1> DEFINE o == Outdated(q)
<1>4. /\ o = [i \in 1..Len(q) |-> o[i]]
      /\ \A i \in 1..Len(q) : o[i] = [q[i] EXCEPT !.fresh = FALSE]
  BY <1>1 DEF Outdated
<1> HIDE DEF o
<1>5. \A i \in 1..Len(q) :
         o[i] \in Read /\ ~o[i].fresh /\ o[i].then = q[i].then /\ o[i].may = q[i].may
  BY <1>2, <1>3, <1>4
<1>6. o \in Seq(Read) /\ Len(o) = Len(q)
  <2>1. o \in [1..Len(q) -> Read]
    BY <1>4, <1>5
  <2>2. o \in Seq(Read) /\ DOMAIN o = 1..Len(q)
    BY <1>1, <2>1, SeqDef
  <2> QED BY <1>1, <2>2, LenProperties
<1>7. \A i \in 1..Len(q) : ReadIs(o[i], pl)
  BY <1>5 DEF ReadsAre, ReadIs
<1> QED BY <1>5, <1>6, <1>7 DEF ReadsAre, o

\* The members of s are those of p and those of q.
Joins(s, p, q) ==
    /\ \A i \in 1..Len(s) : \/ \E j \in 1..Len(p) : s[i] = p[j]
                            \/ \E j \in 1..Len(q) : s[i] = q[j]
    /\ \A j \in 1..Len(p) : \E i \in 1..Len(s) : s[i] = p[j]
    /\ \A j \in 1..Len(q) : \E i \in 1..Len(s) : s[i] = q[j]

\* Two lists of reads as one: each is of one of the two.
LEMMA ReadsJoined ==
    ASSUME NEW pl, NEW p, ReadsAre(p, pl), NEW q, ReadsAre(q, pl)
    PROVE  ReadsAre(p \o q, pl) /\ Joins(p \o q, p, q)
<1>1. p \in Seq(Read) /\ q \in Seq(Read) /\ Len(p) \in Nat /\ Len(q) \in Nat
  BY LenProperties DEF ReadsAre
<1>2. /\ p \o q \in Seq(Read) /\ Len(p \o q) = Len(p) + Len(q)
      /\ \A i \in 1..(Len(p) + Len(q)) :
            (p \o q)[i] = IF i <= Len(p) THEN p[i] ELSE q[i - Len(p)]
  BY <1>1, ConcatProperties
<1> DEFINE pq == p \o q
<1> HIDE DEF pq
<1>3. ASSUME NEW i \in 1..Len(pq)
      PROVE  \/ \E j \in 1..Len(p) : pq[i] = p[j]
             \/ \E j \in 1..Len(q) : pq[i] = q[j]
  <2>1. CASE i <= Len(p)
    BY <1>1, <1>2, <2>1 DEF pq
  <2>2. CASE ~(i <= Len(p))
    <3>1. i - Len(p) \in 1..Len(q) /\ pq[i] = q[i - Len(p)]
      BY <1>1, <1>2, <2>2 DEF pq
    <3> QED BY <3>1
  <2> QED BY <2>1, <2>2
<1>4. ASSUME NEW j \in 1..Len(p) PROVE \E i \in 1..Len(pq) : pq[i] = p[j]
  <2>1. j \in 1..Len(pq) /\ pq[j] = p[j]
    BY <1>1, <1>2 DEF pq
  <2> QED BY <2>1
<1>5. ASSUME NEW j \in 1..Len(q) PROVE \E i \in 1..Len(pq) : pq[i] = q[j]
  <2>1. j + Len(p) \in 1..Len(pq) /\ pq[j + Len(p)] = q[j]
    BY <1>1, <1>2 DEF pq
  <2> QED BY <2>1
<1>6. \A i \in 1..Len(pq) : ReadIs(pq[i], pl)
  BY <1>3 DEF ReadsAre
<1>7. Joins(pq, p, q)
  BY <1>3, <1>4, <1>5 DEF Joins
<1> QED BY <1>1, <1>2, <1>6, <1>7 DEF ReadsAre, pq

\* The reads but one: each is another one of the reads, and they are all there.
LEMMA ReadsButOne ==
    ASSUME NEW pl, NEW q, ReadsAre(q, pl), NEW i \in DOMAIN q
    PROVE  LET r == RemoveAt(q, i) IN
           /\ ReadsAre(r, pl) /\ i \in 1..Len(q) /\ ReadIs(q[i], pl)
           /\ \A k \in 1..Len(r) : \E j \in 1..Len(q) : r[k] = q[j]
           /\ \A j \in 1..Len(q) : j # i => \E k \in 1..Len(r) : r[k] = q[j]
<1> DEFINE r == RemoveAt(q, i)
<1>1. q \in Seq(Read) /\ Len(q) \in Nat /\ i \in 1..Len(q)
  BY LenProperties DEF ReadsAre
<1>2. r \in Seq(Read)
  BY <1>1, RemoveAtMoves
<1>3. /\ \A j \in 1..Len(q) : j # i => \E k \in 1..Len(r) : r[k] = q[j]
      /\ \A k \in 1..Len(r) : \E j \in 1..Len(q) : j # i /\ r[k] = q[j]
  BY <1>1, RemoveAtKeeps
<1> HIDE DEF r
<1>4. ReadsAre(r, pl)
  BY <1>2, <1>3 DEF ReadsAre
<1> QED BY <1>1, <1>3, <1>4 DEF ReadsAre, r

\* A read sent once more, if it is.
LEMMA RetryIs ==
    ASSUME StoreFields, NEW r, NEW old, ReadIs(r, old), NEW rt \in Roots \cup {None},
           NEW pl \in {None, Place}
    PROVE  /\ ReadsAre(Retry(r, rt, pl), pl)
           /\ AllSent(Retry(r, rt, pl), rt, SourceRoot(pl))
<1> DEFINE t == [r.then EXCEPT !.again = TRUE]
           n == NewTreeRead(r.dir, rt, pl, t)
<1>1. /\ t \in Thens /\ t.kind = r.then.kind /\ t.path = r.then.path
      /\ r.dir \in Dirs
  BY DEF ReadIs, Read, Thens
<1> HIDE DEF t
<1>2. ReadIs(n, pl) /\ n.root = rt /\ n.may = {SourceRoot(pl)}
  <2>1. t.kind # "none" => t.path \in Paths
    BY <1>1 DEF ReadIs
  <2>2. ASSUME NEW dir \in Dirs, NEW th \in Thens, th.kind # "none" => th.path \in Paths
        PROVE  LET x == NewTreeRead(dir, rt, pl, th)
               IN  ReadIs(x, pl) /\ x.root = rt /\ x.may = {SourceRoot(pl)}
    BY <2>2, NewReadIs
  <2> QED BY <1>1, <2>1, <2>2
<1> HIDE DEF n
<1>3. /\ ReadsAre(<<n>>, pl) /\ Len(<<n>>) = 1 /\ <<n>>[1] = n
      /\ ReadsAre(<<>>, pl) /\ Len(<<>>) = 0
  BY <1>2, OneRead
<1>4. Retry(r, rt, pl) = <<n>> \/ Retry(r, rt, pl) = <<>>
  BY DEF Retry, n, t
<1>5. CASE Retry(r, rt, pl) = <<n>>
  <2>1. \A i \in 1..Len(<<n>>) : <<n>>[i] = n
    BY <1>3
  <2> QED BY <1>2, <1>3, <1>5, <2>1 DEF AllSent
<1>6. CASE Retry(r, rt, pl) = <<>>
  BY <1>3, <1>6 DEF AllSent
<1> QED BY <1>4, <1>5, <1>6

\* The tree starts again from root r: the reads under way are of an older one.
LEMMA RestartedReads ==
    ASSUME StoreFields, NEW r \in Roots \cup {None}, NEW pl \in {None, Place},
           NEW old, NEW rs, ReadsAre(rs, old),
           NEW next, ReadsAre(next, pl), AllSent(next, r, SourceRoot(pl))
    PROVE  LET q == Outdated(rs) \o <<NewTreeRead("top", r, pl, Plain)>> \o next
           IN  /\ ReadsAre(q, pl) /\ TopIsRead(q)
               /\ AllSent(q, r, SourceRoot(pl)) /\ AllFrom(q, r)
<1> DEFINE o == Outdated(rs)
           n == NewTreeRead("top", r, pl, Plain)
           one == <<n>>
           on == o \o one
           q == on \o next
           src == SourceRoot(pl)
<1>1. ReadsAre(o, pl) /\ \A i \in 1..Len(o) : ~o[i].fresh
  BY OutdatedAre
<1>2. ReadIs(n, pl) /\ n.fresh /\ n.dir = "top" /\ n.root = r /\ n.may = {src}
  BY NewReadIs, ThensAre DEF Dirs
<1> HIDE DEF o, n
<1>3. ReadsAre(one, pl) /\ Len(one) = 1 /\ one[1] = n
  BY <1>2, OneRead
<1> HIDE DEF one, src
<1>4. \A i \in 1..Len(one) : one[i] = n
  BY <1>3
<1>5. ReadsAre(on, pl) /\ Joins(on, o, one)
  BY <1>1, <1>3, ReadsJoined
<1>6. /\ \A i \in 1..Len(on) : on[i].fresh => on[i] = n
      /\ \E i \in 1..Len(on) : on[i] = n
  BY <1>1, <1>3, <1>4, <1>5 DEF Joins
<1> HIDE DEF on
<1>7. ReadsAre(q, pl) /\ Joins(q, on, next)
  BY <1>5, ReadsJoined
<1> HIDE DEF q
<1>8. AllSent(q, r, src)
  <2>1. AllSent(next, r, src)
    BY DEF src
  <2>2. \A i \in 1..Len(on) : on[i].fresh => on[i].root = r /\ on[i].may = {src}
    BY <1>2, <1>6
  <2>3. \A i \in 1..Len(q) : \/ \E j \in 1..Len(on) : q[i] = on[j]
                             \/ \E j \in 1..Len(next) : q[i] = next[j]
    BY <1>7 DEF Joins
  <2> QED BY <2>1, <2>2, <2>3 DEF AllSent
<1>9. TopIsRead(q)
  BY <1>2, <1>6, <1>7 DEF Joins, TopIsRead
<1>10. AllFrom(q, r)
  BY <1>8 DEF AllSent, AllFrom
<1> QED BY <1>7, <1>8, <1>9, <1>10 DEF q, on, one, o, n, src

\* Reads just sent agree with where they were sent from.
LEMMA SentAgree ==
    ASSUME NEW q, NEW rt, NEW src, AllSent(q, rt, src)
    PROVE  RootsAgree(q, rt, src) /\ (RootlessIn(q) => rt = None)
  BY DEF AllSent, RootsAgree, RootlessIn, Rootless

-----------------------------------------------------------------------------
(* The root and the answers.                                               *)

\* The tabs are as they were.
LEMMA TabsStay ==
    ASSUME TabsInv, root' = root, UNCHANGED tabState,
           movedEarly => movedEarly', movedEarly' => movedEarly \/ asked = {}
    PROVE  TabsInv' /\ dirty' = dirty /\ openTabs' = openTabs /\ asked' = asked
<1>1. /\ openTabs' = openTabs /\ active' = active /\ asked' = asked
      /\ keptOpen' = keptOpen /\ dirty' = dirty
  BY DEF tabState
<1>2. TabIds' = TabIds /\ IdsDiffer(openTabs)' /\ AskedRight'
  BY <1>1 DEF TabIds, IdsDiffer, TabsInv, AskedRight, AskedTabs, Here
<1> QED BY <1>1, <1>2 DEF TabsInv

\* Nothing of the tree is listed, and so nothing of another root.
LEMMA UnlistedIs == Unlisted \in [Dirs -> Roots \cup {None}] /\ \A d \in Dirs : Unlisted[d] = None
  BY DEF Unlisted, Dirs

(* RootChanged keeps the invariant of the files view. *)
LEMMA RootChangedKeeps ==
    ASSUME StoreInv, NEW r \in Roots, NEW pl \in {None, Place}, place' = pl,
           UNCHANGED serverFiles, NEW old, NEW rs, ReadsAre(rs, old),
           NEW next, ReadsAre(next, pl), AllSent(next, r, SourceRoot(pl)),
           NEW file \in Paths \cup {None}, RootChanged(r, pl, rs, next, file)
    PROVE  StoreInv' /\ dirty' = dirty
<1>1. /\ root' = r /\ ~switching' /\ switching' \in BOOLEAN /\ listing' = Unlisted
      /\ ~movedEarly' /\ movedEarly' \in BOOLEAN
      /\ treeReads' = Outdated(rs) \o <<NewTreeRead("top", r, pl, Plain)>> \o next
      /\ paneRoot' = paneRoot /\ offered' = offered
  BY DEF RootChanged, serverFiles
<1>2. StoreFields'
  BY <1>1, UnlistedIs DEF StoreFields, StoreInv
<1>3. TabsInv' /\ dirty' = dirty
  BY <1>1, RootChangedTabs DEF RootChanged, StoreInv
<1>4. ReadsAre(treeReads', pl) /\ AllSent(treeReads', r, SourceRoot(pl))
  BY <1>1, RestartedReads DEF StoreInv
<1>5. r # None
  BY FilesAssumption
<1>6. RootsAgree(treeReads', r, SourceRoot(pl)) /\ ~RootlessIn(treeReads')
  BY <1>4, <1>5, SentAgree
<1>7. ReadsInv'
  <2>1. /\ ReadsAre(treeReads, place)' /\ ~RootlessIn(treeReads)'
        /\ RootsAgree(treeReads, root, SourceRoot(place))'
    BY <1>1, <1>4, <1>6 DEF ReadsAre, ReadIs, RootsAgree, RootlessIn, Rootless, SourceRoot
  <2> QED BY <1>1, <2>1 DEF ReadsInv
<1>8. ListingOfRoot'
  <2>1. DOMAIN Unlisted = Dirs
    BY DEF Unlisted, Dirs
  <2> QED BY <1>1, <2>1, UnlistedIs DEF ListingOfRoot
<1> QED BY <1>1, <1>2, <1>3, <1>5, <1>7, <1>8 DEF StoreInv, NothingYet

(* SwitchTo keeps the invariant of the files view. *)
LEMMA SwitchToKeeps ==
    ASSUME StoreInv, NEW r \in Roots \cup {None}, NEW pl \in {None, Place},
           UNCHANGED serverFiles, NEW old, NEW rs, ReadsAre(rs, old),
           NEW next, ReadsAre(next, pl),
           AllSent(next, IF r \notin {None, root} THEN r ELSE root, SourceRoot(pl)),
           NEW file \in Paths \cup {None}, SwitchTo(pl, r, rs, next, file)
    PROVE  StoreInv' /\ dirty' = dirty
<1>1. CASE r \notin {None, root}
  <2>1. /\ place' = pl /\ RootChanged(r, pl, rs, next, file) /\ r \in Roots
        /\ AllSent(next, r, SourceRoot(pl))
    BY <1>1 DEF SwitchTo
  <2> QED BY <2>1, RootChangedKeeps
<1>2. CASE r \in {None, root}
  <2>1. /\ place' = pl /\ switching' = TRUE /\ listing' = Unlisted
        /\ treeReads' = Outdated(rs) \o <<NewTreeRead("top", root, pl, Plain)>> \o next
        /\ UNCHANGED tabState /\ root' = root /\ movedEarly' = movedEarly
        /\ AllSent(next, root, SourceRoot(pl))
        /\ paneRoot' = paneRoot /\ offered' = offered
    BY <1>2 DEF SwitchTo, serverFiles
  <2>2. StoreFields'
    BY <2>1, UnlistedIs DEF StoreFields, StoreInv
  <2>3. TabsInv' /\ dirty' = dirty /\ openTabs' = openTabs /\ asked' = asked
    BY <2>1, TabsStay DEF StoreInv
  <2>4. root \in Roots \cup {None} /\ StoreFields
    BY DEF StoreInv, StoreFields
  <2>5. /\ ReadsAre(treeReads', pl) /\ TopIsRead(treeReads')
        /\ AllSent(treeReads', root, SourceRoot(pl)) /\ AllFrom(treeReads', root)
    BY <2>1, <2>4, RestartedReads
  <2>6. RootsAgree(treeReads', root, SourceRoot(pl)) /\ (RootlessIn(treeReads') => root = None)
    BY <2>5, SentAgree
  <2>7. ReadsInv'
    <3>1. /\ ReadsAre(treeReads, place)' /\ RootsAgree(treeReads, root, SourceRoot(place))'
          /\ RootlessIn(treeReads)' => root = None
      BY <2>1, <2>5, <2>6 DEF ReadsAre, ReadIs, RootsAgree, RootlessIn, Rootless, SourceRoot
    <3>2. PickIsRead(treeReads, root)'
      BY <2>1, <2>5 DEF PickIsRead, TopIsRead, AllFrom, RootlessTop, Rootless
    <3>3. root = None => asked = {}
      BY DEF StoreInv, NothingYet
    <3> QED BY <2>3, <3>1, <3>2, <3>3 DEF ReadsInv
  <2>8. NothingYet'
    BY <2>1, <2>3 DEF NothingYet, StoreInv
  <2>9. ListingOfRoot'
    <3>1. DOMAIN Unlisted = Dirs
      BY DEF Unlisted, Dirs
    <3> QED BY <2>1, <3>1, UnlistedIs DEF ListingOfRoot
  <2> QED BY <2>2, <2>3, <2>7, <2>8, <2>9 DEF StoreInv
<1> QED BY <1>1, <1>2

\* A read under way, and what is left without it.
LEMMA AnsweredRead ==
    ASSUME StoreInv, NEW i \in DOMAIN treeReads
    PROVE  LET r == treeReads[i]
               rest == RemoveAt(treeReads, i)
           IN  /\ ReadIs(r, place) /\ r \in Read /\ ReadsAre(rest, place)
               /\ ~movedEarly /\ r.fresh =>
                     /\ r.root \in {None, root}
                     /\ r.root = None =>
                           r.may = {SourceRoot(place)} /\ root \in {None, SourceRoot(place)}
               /\ ~movedEarly => RootsAgree(rest, root, SourceRoot(place))
               /\ RootlessIn(rest) => asked = {}
               /\ switching => \/ r.fresh /\ r.dir = "top" /\ r.root \in {None, root}
                               \/ RootlessTop(rest)
                               \/ /\ TopIsRead(rest) /\ AllFrom(rest, root)
                                  /\ r.fresh => r.root = root
<1> DEFINE r == treeReads[i]
           rest == RemoveAt(treeReads, i)
           src == SourceRoot(place)
<1>1. /\ ReadsAre(treeReads, place) /\ (~movedEarly => RootsAgree(treeReads, root, src))
      /\ RootlessIn(treeReads) => asked = {}
      /\ switching => PickIsRead(treeReads, root)
  BY DEF StoreInv, ReadsInv
<1>2. /\ ReadsAre(rest, place) /\ i \in 1..Len(treeReads) /\ ReadIs(r, place)
      /\ \A k \in 1..Len(rest) : \E j \in 1..Len(treeReads) : rest[k] = treeReads[j]
      /\ \A j \in 1..Len(treeReads) : j # i => \E k \in 1..Len(rest) : rest[k] = treeReads[j]
  BY <1>1, ReadsButOne
<1> HIDE DEF rest, src
<1>3. r \in Read
  BY <1>2 DEF ReadIs
<1>4. ~movedEarly /\ r.fresh =>
         r.root \in {None, root} /\ (r.root = None => r.may = {src} /\ root \in {None, src})
  BY <1>1, <1>2 DEF RootsAgree
<1>5. ~movedEarly => RootsAgree(rest, root, src)
  BY <1>1, <1>2 DEF RootsAgree
<1>6. RootlessIn(rest) => asked = {}
  BY <1>1, <1>2 DEF RootlessIn
<1>7. ASSUME switching
      PROVE  \/ r.fresh /\ r.dir = "top" /\ r.root \in {None, root}
             \/ RootlessTop(rest)
             \/ TopIsRead(rest) /\ AllFrom(rest, root) /\ (r.fresh => r.root = root)
  <2>1. CASE RootlessTop(treeReads)
    BY <1>2, <2>1 DEF RootlessTop, Rootless
  <2>2. CASE TopIsRead(treeReads) /\ AllFrom(treeReads, root)
    <3>1. AllFrom(rest, root) /\ (r.fresh => r.root = root)
      BY <1>2, <2>2 DEF AllFrom
    <3>2. TopIsRead(rest) \/ (r.fresh /\ r.dir = "top")
      BY <1>2, <2>2 DEF TopIsRead
    <3> QED BY <3>1, <3>2
  <2> QED BY <1>1, <1>7, <2>1, <2>2 DEF PickIsRead
<1> QED BY <1>2, <1>3, <1>4, <1>5, <1>6, <1>7 DEF rest, src

(* Listed keeps the invariant of the files view. *)
LEMMA ListedKeeps ==
    ASSUME StoreInv, UNCHANGED serverFiles, NEW i \in DOMAIN treeReads,
           NEW rt \in treeReads[i].may, Listed(i, rt)
    PROVE  StoreInv' /\ dirty' = dirty
<1> DEFINE r == treeReads[i]
           rest == RemoveAt(treeReads, i)
           src == SourceRoot(place)
<1>1. /\ ReadIs(r, place) /\ r \in Read /\ ReadsAre(rest, place)
      /\ ~movedEarly /\ r.fresh =>
            r.root \in {None, root} /\ (r.root = None => r.may = {src} /\ root \in {None, src})
      /\ ~movedEarly => RootsAgree(rest, root, src)
      /\ RootlessIn(rest) => asked = {}
      /\ switching => \/ r.fresh /\ r.dir = "top" /\ r.root \in {None, root}
                      \/ RootlessTop(rest)
                      \/ TopIsRead(rest) /\ AllFrom(rest, root) /\ (r.fresh => r.root = root)
  BY AnsweredRead
<1>2. /\ r.fresh /\ r.root \in {None, rt} /\ rt \in r.may
      /\ treeReads' = rest /\ root' = rt
      /\ listing' = [listing EXCEPT ![r.dir] = rt]
      /\ switching' = (switching /\ r.dir # "top")
      /\ Follows(r.then) /\ place' = place /\ movedEarly' = movedEarly
      /\ paneRoot' = paneRoot /\ offered' = offered
  BY DEF Listed, serverFiles
<1>3. rt \in Roots /\ r.dir \in Dirs /\ rt # None
  <2>1. rt \in Roots /\ r.dir \in Dirs
    BY <1>1, <1>2 DEF Read
  <2> QED BY <2>1, FilesAssumption
<1>4. \/ movedEarly
      \/ root = rt
      \/ root = None /\ openTabs = <<>> /\ rt = src
  <2>1. root = None => openTabs = <<>>
    BY DEF StoreInv, NothingYet
  <2> QED BY <1>1, <1>2, <1>3, <2>1
<1> HIDE DEF rest, src
<1>5. TabsInv' /\ dirty' = dirty /\ asked' \subseteq asked
  <2>1. r.then.kind # "none" => r.then.path \in Paths
    BY <1>1 DEF ReadIs
  <2>2. root' \in Roots /\ (root' = root \/ openTabs = <<>> \/ movedEarly)
    BY <1>2, <1>3, <1>4
  <2> HIDE DEF r
  <2> QED BY <1>2, <2>1, <2>2, FollowsKeep DEF StoreInv
<1>6. StoreFields'
  <2>1. switching' \in BOOLEAN
    BY <1>2
  <2>2. listing' \in [Dirs -> Roots \cup {None}]
    BY <1>2, <1>3 DEF StoreInv, StoreFields
  <2> QED BY <1>2, <1>3, <2>1, <2>2 DEF StoreFields, StoreInv
<1>7. ~movedEarly => RootsAgree(rest, rt, src)
  <2> SUFFICES ASSUME ~movedEarly, NEW k \in 1..Len(rest), rest[k].fresh
               PROVE  /\ rest[k].root \in {None, rt}
                      /\ rest[k].root = None => rest[k].may = {src} /\ rt \in {None, src}
    BY DEF RootsAgree
  <2>1. /\ rest[k].root \in {None, root}
        /\ rest[k].root = None => rest[k].may = {src} /\ root \in {None, src}
    BY <1>1 DEF RootsAgree
  <2> QED BY <1>3, <1>4, <2>1
<1>8. switching' => PickIsRead(rest, rt)
  <2> SUFFICES ASSUME switching, r.dir # "top" PROVE PickIsRead(rest, rt)
    BY <1>2
  <2>1. CASE RootlessTop(rest)
    BY <2>1 DEF PickIsRead
  <2>2. CASE TopIsRead(rest) /\ AllFrom(rest, root) /\ r.root = root
    <3>1. CASE root = rt
      BY <2>2, <3>1 DEF PickIsRead
    <3>2. CASE root = None
      BY <2>2, <3>2 DEF PickIsRead, TopIsRead, AllFrom, RootlessTop, Rootless
    <3> QED BY <1>2, <2>2, <3>1, <3>2
  <2> QED BY <1>1, <1>2, <2>1, <2>2
<1>9. ReadsInv'
  <2>1. /\ ReadsAre(treeReads, place)'
        /\ ~movedEarly' => RootsAgree(treeReads, root, SourceRoot(place))'
        /\ (switching => PickIsRead(treeReads, root))'
        /\ RootlessIn(treeReads)' => asked = {}
    BY <1>1, <1>2, <1>7, <1>8 DEF ReadsAre, ReadIs, RootsAgree, PickIsRead, TopIsRead,
       AllFrom, RootlessTop, RootlessIn, Rootless, SourceRoot, src
  <2> QED BY <1>5, <2>1 DEF ReadsInv
<1>10. NothingYet'
  BY <1>2, <1>3 DEF NothingYet
<1>11. ~movedEarly' => ListingOfRoot'
  <2> SUFFICES ASSUME ~movedEarly PROVE ListingOfRoot'
    BY <1>2
  <2>1. listing \in [Dirs -> Roots \cup {None}] /\ \A d \in Dirs : listing[d] \in {None, root}
    BY DEF StoreInv, StoreFields, ListingOfRoot
  <2>2. root # rt => \A d \in Dirs : listing[d] = None
    BY <1>4, <2>1
  <2> QED BY <1>2, <1>3, <2>1, <2>2 DEF ListingOfRoot
<1> QED BY <1>5, <1>6, <1>9, <1>10, <1>11 DEF StoreInv

\* A step of the reads alone.
LEMMA ReadsStep ==
    ASSUME StoreInv, UNCHANGED tabState, root' = root, place' = place,
           paneRoot' \in Roots, offered' \in BOOLEAN,
           movedEarly' \in BOOLEAN, movedEarly => movedEarly',
           movedEarly' => movedEarly \/ asked = {},
           listing' \in [Dirs -> Roots \cup {None}],
           ~movedEarly => \A d \in Dirs : listing'[d] \in {None, root},
           switching' \in BOOLEAN, switching' => PickIsRead(treeReads', root),
           ReadsAre(treeReads', place),
           ~movedEarly' => RootsAgree(treeReads', root, SourceRoot(place)'),
           RootlessIn(treeReads') => asked = {}
    PROVE  StoreInv' /\ dirty' = dirty
<1>1. TabsInv' /\ dirty' = dirty /\ openTabs' = openTabs /\ asked' = asked
  BY TabsStay DEF StoreInv
<1>2. StoreFields'
  BY DEF StoreFields, StoreInv
<1>3. ReadsInv'
  <2>1. /\ ReadsAre(treeReads, place)'
        /\ ~movedEarly' => RootsAgree(treeReads, root, SourceRoot(place))'
        /\ (switching => PickIsRead(treeReads, root))'
        /\ RootlessIn(treeReads)' => asked = {}
    BY DEF ReadsAre, ReadIs, RootsAgree, PickIsRead, TopIsRead, AllFrom, RootlessTop,
       RootlessIn, Rootless
  <2> QED BY <1>1, <2>1 DEF ReadsInv
<1>4. NothingYet'
  BY <1>1 DEF NothingYet, StoreInv
<1>5. ~movedEarly' => ListingOfRoot'
  BY DEF ListingOfRoot
<1> QED BY <1>1, <1>2, <1>3, <1>4, <1>5 DEF StoreInv

\* What is shown is of the root shown, and so it is with one thing less.
LEMMA ListingIs ==
    ASSUME StoreInv
    PROVE  /\ listing \in [Dirs -> Roots \cup {None}]
           /\ ~movedEarly => \A d \in Dirs : listing[d] \in {None, root}
           /\ \A d \in Dirs :
                 /\ [listing EXCEPT ![d] = None] \in [Dirs -> Roots \cup {None}]
                 /\ ~movedEarly =>
                       \A e \in Dirs : [listing EXCEPT ![d] = None][e] \in {None, root}
<1>1. /\ listing \in [Dirs -> Roots \cup {None}]
      /\ ~movedEarly => \A d \in Dirs : listing[d] \in {None, root}
  BY DEF StoreInv, StoreFields, ListingOfRoot
<1> QED BY <1>1

(* Conflict keeps the invariant of the files view. *)
LEMMA ConflictKeeps ==
    ASSUME StoreInv, UNCHANGED serverFiles, NEW i \in DOMAIN treeReads,
           NEW rt \in treeReads[i].may, Conflict(i, rt)
    PROVE  StoreInv' /\ dirty' = dirty
<1> DEFINE r == treeReads[i]
           rest == RemoveAt(treeReads, i)
           src == SourceRoot(place)
<1>1. /\ ReadIs(r, place) /\ r \in Read /\ ReadsAre(rest, place)
      /\ ~movedEarly => RootsAgree(rest, root, src)
      /\ RootlessIn(rest) => asked = {}
      /\ switching => \/ r.fresh /\ r.dir = "top" /\ r.root \in {None, root}
                      \/ RootlessTop(rest)
                      \/ TopIsRead(rest) /\ AllFrom(rest, root) /\ (r.fresh => r.root = root)
  BY AnsweredRead
<1>2. r.fresh /\ r.root \notin {None, rt} /\ place' = place
  BY DEF Conflict
<1>3. rt \in Roots /\ place \in {None, Place} /\ StoreFields
  <2>1. rt \in Roots
    BY <1>1 DEF Read
  <2> QED BY <2>1 DEF StoreInv, StoreFields
<1>4. CASE rt = root
  <2>1. /\ treeReads' = rest /\ root' = root /\ listing' = listing
        /\ switching' = switching /\ movedEarly' = movedEarly /\ UNCHANGED tabState
        /\ paneRoot' = paneRoot /\ offered' = offered
    BY <1>4 DEF Conflict, serverFiles
  <2>2. /\ paneRoot \in Roots /\ offered \in BOOLEAN /\ switching \in BOOLEAN
        /\ movedEarly \in BOOLEAN
    BY <1>3 DEF StoreFields
  <2> HIDE DEF rest, r
  <2>3. switching => PickIsRead(rest, root)
    BY <1>1, <1>2, <1>4 DEF PickIsRead
  <2>4. SourceRoot(place)' = src
    BY <1>2, <2>1 DEF SourceRoot
  <2> HIDE DEF src
  <2> QED BY <1>1, <1>2, <2>1, <2>2, <2>3, <2>4, ListingIs, ReadsStep
<1>5. CASE rt # root
  <2>1. RootChanged(rt, place, rest, Retry(r, rt, place), None)
    BY <1>5 DEF Conflict
  <2>2. /\ ReadsAre(Retry(r, rt, place), place)
        /\ AllSent(Retry(r, rt, place), rt, SourceRoot(place))
    <3> HIDE DEF r
    <3> QED BY <1>1, <1>3, RetryIs
  <2> HIDE DEF r, rest
  <2> QED BY <1>1, <1>2, <1>3, <2>1, <2>2, RootChangedKeeps
<1> QED BY <1>4, <1>5

(* PlaceLost keeps the invariant of the files view. *)
LEMMA PlaceLostKeeps ==
    ASSUME StoreInv, UNCHANGED serverFiles, NEW i \in DOMAIN treeReads, PlaceLost(i)
    PROVE  StoreInv' /\ dirty' = dirty
<1> DEFINE r == treeReads[i]
           rest == RemoveAt(treeReads, i)
           again == Retry(r, root, None)
<1>1. ReadIs(r, place) /\ ReadsAre(rest, place)
  BY AnsweredRead
<1>2. SwitchTo(None, None, rest, again, None)
  BY DEF PlaceLost
<1>3. StoreFields /\ root \in Roots \cup {None}
  BY DEF StoreInv, StoreFields
<1>4. ReadsAre(again, None) /\ AllSent(again, root, SourceRoot(None))
  <2> HIDE DEF r
  <2> QED BY <1>1, <1>3, RetryIs
<1> HIDE DEF rest, again, r
<1>5. AllSent(again, IF None \notin {None, root} THEN None ELSE root, SourceRoot(None))
  BY <1>4
<1> QED BY <1>1, <1>2, <1>4, <1>5, SwitchToKeeps

\* A step of the tabs alone.
LEMMA TabsStep ==
    ASSUME StoreInv, UNCHANGED <<noTabs, treeReads>>, TabsInv', asked' \subseteq asked,
           root = None => openTabs' = <<>>
    PROVE  StoreInv'
<1>1. /\ root' = root /\ place' = place /\ listing' = listing /\ switching' = switching
      /\ paneRoot' = paneRoot /\ offered' = offered /\ treeReads' = treeReads
      /\ movedEarly' = movedEarly
  BY DEF noTabs, serverFiles
<1>2. StoreFields'
  BY <1>1 DEF StoreFields, StoreInv
<1>3. ReadsInv'
  <2>1. /\ ReadsAre(treeReads, place)'
        /\ ~movedEarly' => RootsAgree(treeReads, root, SourceRoot(place))'
        /\ (switching => PickIsRead(treeReads, root))'
        /\ RootlessIn(treeReads)' => asked = {}
    BY <1>1 DEF ReadsAre, ReadIs, RootsAgree, PickIsRead, TopIsRead, AllFrom, RootlessTop,
       RootlessIn, Rootless, SourceRoot, StoreInv, ReadsInv
  <2> QED BY <2>1 DEF ReadsInv
<1>4. NothingYet' /\ (~movedEarly' => ListingOfRoot')
  BY <1>1 DEF NothingYet, ListingOfRoot, StoreInv
<1> QED BY <1>2, <1>3, <1>4 DEF StoreInv

(* ReadFailed keeps the invariant of the files view. *)
LEMMA ReadFailedKeeps ==
    ASSUME StoreInv, UNCHANGED serverFiles, NEW i \in DOMAIN treeReads, ReadFailed(i)
    PROVE  StoreInv' /\ dirty' = dirty
<1> DEFINE r == treeReads[i]
           rest == RemoveAt(treeReads, i)
           src == SourceRoot(place)
           l == [listing EXCEPT ![r.dir] = None]
<1>1. /\ r \in Read /\ ReadsAre(rest, place)
      /\ ~movedEarly => RootsAgree(rest, root, src)
      /\ RootlessIn(rest) => asked = {}
      /\ switching => \/ r.fresh /\ r.dir = "top" /\ r.root \in {None, root}
                      \/ RootlessTop(rest)
                      \/ TopIsRead(rest) /\ AllFrom(rest, root) /\ (r.fresh => r.root = root)
  BY AnsweredRead
<1>2. /\ treeReads' = rest /\ listing' = l
      /\ switching' = (switching /\ r.dir # "top")
      /\ UNCHANGED tabState /\ root' = root /\ place' = place /\ movedEarly' = movedEarly
      /\ paneRoot' = paneRoot /\ offered' = offered
  BY DEF ReadFailed, serverFiles
<1>3. paneRoot \in Roots /\ offered \in BOOLEAN /\ movedEarly \in BOOLEAN
  BY DEF StoreInv, StoreFields
<1>4. /\ l \in [Dirs -> Roots \cup {None}]
      /\ ~movedEarly => \A d \in Dirs : l[d] \in {None, root}
  <2>1. r.dir \in Dirs
    BY <1>1 DEF Read
  <2> QED BY <2>1, ListingIs
<1>5. switching' \in BOOLEAN /\ (switching' => switching /\ r.dir # "top")
  BY <1>2
<1>6. SourceRoot(place)' = src
  BY <1>2 DEF SourceRoot
<1> HIDE DEF rest, r, l, src
<1>7. switching' => PickIsRead(rest, root)
  BY <1>1, <1>5 DEF PickIsRead
<1> QED BY <1>1, <1>2, <1>3, <1>4, <1>5, <1>6, <1>7, ReadsStep

\* Reads that were under way, and more just sent from where the view is.
LEMMA MoreReads ==
    ASSUME StoreInv, NEW q, ReadsAre(q, place),
           ~movedEarly => RootsAgree(q, root, SourceRoot(place)),
           RootlessIn(q) => asked = {}, switching => PickIsRead(q, root),
           NEW more, ReadsAre(more, place), AllSent(more, root, SourceRoot(place))
    PROVE  /\ ReadsAre(q \o more, place)
           /\ ~movedEarly => RootsAgree(q \o more, root, SourceRoot(place))
           /\ RootlessIn(q \o more) => asked = {}
           /\ switching => PickIsRead(q \o more, root)
<1> DEFINE qm == q \o more
           src == SourceRoot(place)
<1>1. ReadsAre(qm, place) /\ Joins(qm, q, more)
  BY ReadsJoined
<1> HIDE DEF qm, src
<1>2. RootsAgree(more, root, src) /\ (RootlessIn(more) => root = None)
  BY SentAgree DEF src
<1>3. ~movedEarly => RootsAgree(qm, root, src)
  BY <1>1, <1>2 DEF Joins, RootsAgree, src
<1>4. RootlessIn(qm) => asked = {}
  <2>1. RootlessIn(qm) => RootlessIn(q) \/ RootlessIn(more)
    BY <1>1 DEF Joins, RootlessIn
  <2> QED BY <1>2, <2>1 DEF StoreInv, NothingYet
<1>5. switching => PickIsRead(qm, root)
  <2>1. RootlessTop(q) => RootlessTop(qm)
    BY <1>1 DEF Joins, RootlessTop
  <2>2. TopIsRead(q) => TopIsRead(qm)
    BY <1>1 DEF Joins, TopIsRead
  <2>3. AllFrom(q, root) => AllFrom(qm, root)
    <3>1. AllFrom(more, root)
      BY DEF AllSent, AllFrom
    <3>2. \A i \in 1..Len(qm) : \/ \E j \in 1..Len(q) : qm[i] = q[j]
                                \/ \E j \in 1..Len(more) : qm[i] = more[j]
      BY <1>1 DEF Joins
    <3> QED BY <3>1, <3>2 DEF AllFrom
  <2> QED BY <2>1, <2>2, <2>3 DEF PickIsRead
<1> QED BY <1>1, <1>3, <1>4, <1>5 DEF qm, src

(* Dropped keeps the invariant of the files view. *)
LEMMA DroppedKeeps ==
    ASSUME StoreInv, UNCHANGED serverFiles, NEW i \in DOMAIN treeReads, Dropped(i)
    PROVE  StoreInv' /\ dirty' = dirty
<1> DEFINE r == treeReads[i]
           rest == RemoveAt(treeReads, i)
           src == SourceRoot(place)
           again == Retry(r, root, place)
<1>1. /\ ReadIs(r, place) /\ ReadsAre(rest, place)
      /\ ~movedEarly => RootsAgree(rest, root, src)
      /\ RootlessIn(rest) => asked = {}
      /\ switching => \/ r.fresh /\ r.dir = "top" /\ r.root \in {None, root}
                      \/ RootlessTop(rest)
                      \/ TopIsRead(rest) /\ AllFrom(rest, root) /\ (r.fresh => r.root = root)
  BY AnsweredRead
<1>2. /\ ~r.fresh /\ treeReads' = rest \o again
      /\ UNCHANGED tabState /\ root' = root /\ place' = place
      /\ listing' = listing /\ switching' = switching /\ movedEarly' = movedEarly
      /\ paneRoot' = paneRoot /\ offered' = offered
  BY DEF Dropped, serverFiles
<1>3. /\ paneRoot \in Roots /\ offered \in BOOLEAN /\ switching \in BOOLEAN
      /\ root \in Roots \cup {None} /\ place \in {None, Place} /\ movedEarly \in BOOLEAN
      /\ StoreFields
  BY DEF StoreInv, StoreFields
<1>4. ReadsAre(again, place) /\ AllSent(again, root, src)
  <2> HIDE DEF r
  <2> QED BY <1>1, <1>3, RetryIs
<1>5. SourceRoot(place)' = src
  BY <1>2 DEF SourceRoot
<1> HIDE DEF rest, again, r
<1>6. switching => PickIsRead(rest, root)
  BY <1>1, <1>2 DEF PickIsRead
<1>7. /\ ReadsAre(rest \o again, place)
      /\ ~movedEarly => RootsAgree(rest \o again, root, src)
      /\ RootlessIn(rest \o again) => asked = {}
      /\ switching => PickIsRead(rest \o again, root)
  BY <1>1, <1>4, <1>6, MoreReads
<1> HIDE DEF src
<1> QED BY <1>2, <1>3, <1>5, <1>7, ListingIs, ReadsStep

(* TreeAnswer keeps the invariant of the files view. *)
LEMMA TreeAnswerKeeps ==
    ASSUME StoreInv, TreeAnswer
    PROVE  StoreInv' /\ dirty' = dirty
<1>1. UNCHANGED serverFiles
  BY DEF TreeAnswer
<1>2. PICK i \in DOMAIN treeReads :
         \/ \E rt \in treeReads[i].may :
               (treeReads[i].place = None \/ offered) /\ (Listed(i, rt) \/ Conflict(i, rt))
         \/ PlaceLost(i) \/ ReadFailed(i) \/ Dropped(i)
  BY DEF TreeAnswer
<1>3. CASE \E rt \in treeReads[i].may : Listed(i, rt)
  BY <1>1, <1>3, ListedKeeps
<1>4. CASE \E rt \in treeReads[i].may : Conflict(i, rt)
  BY <1>1, <1>4, ConflictKeeps
<1>5. CASE PlaceLost(i)
  BY <1>1, <1>5, PlaceLostKeeps
<1>6. CASE ReadFailed(i)
  BY <1>1, <1>6, ReadFailedKeeps
<1>7. CASE Dropped(i)
  BY <1>1, <1>7, DroppedKeeps
<1> QED BY <1>2, <1>3, <1>4, <1>5, <1>6, <1>7

-----------------------------------------------------------------------------
(* The server and the user.                                                *)

\* One more read, of the tree shown.
LEMMA TreeSendKeeps ==
    ASSUME StoreInv, NEW dir \in Dirs, NEW then \in Thens,
           then.kind # "none" => then.path \in Paths, Send(dir, then),
           UNCHANGED <<noTabs, tabState>>
    PROVE  StoreInv' /\ dirty' = dirty
<1> DEFINE n == NewTreeRead(dir, root, place, then)
           one == <<n>>
           src == SourceRoot(place)
<1>1. /\ treeReads' = Append(treeReads, n)
      /\ UNCHANGED tabState /\ root' = root /\ place' = place
      /\ listing' = listing /\ switching' = switching /\ movedEarly' = movedEarly
      /\ paneRoot' = paneRoot /\ offered' = offered
  BY DEF Send, noTabs, serverFiles
<1>2. /\ paneRoot \in Roots /\ offered \in BOOLEAN /\ switching \in BOOLEAN
      /\ root \in Roots \cup {None} /\ place \in {None, Place} /\ movedEarly \in BOOLEAN
      /\ StoreFields
  BY DEF StoreInv, StoreFields
<1>3. /\ ReadsAre(treeReads, place) /\ (~movedEarly => RootsAgree(treeReads, root, src))
      /\ RootlessIn(treeReads) => asked = {}
      /\ switching => PickIsRead(treeReads, root)
  BY DEF StoreInv, ReadsInv
<1>4. ReadIs(n, place) /\ n.root = root /\ n.may = {src}
  BY <1>2, NewReadIs
<1>5. SourceRoot(place)' = src
  BY <1>1 DEF SourceRoot
<1> HIDE DEF n
<1>6. ReadsAre(one, place) /\ Len(one) = 1 /\ one[1] = n
  BY <1>4, OneRead
<1>7. AllSent(one, root, src)
  <2>1. \A i \in 1..Len(one) : one[i] = n
    BY <1>6
  <2> QED BY <1>4, <2>1 DEF AllSent
<1>8. treeReads' = treeReads \o one
  <2>1. treeReads \in Seq(Read) /\ n \in Read
    BY <1>3, <1>4 DEF ReadsAre, ReadIs
  <2> QED BY <1>1, <2>1, AppendIsConcat
<1> HIDE DEF one
<1>9. /\ ReadsAre(treeReads \o one, place)
      /\ ~movedEarly => RootsAgree(treeReads \o one, root, src)
      /\ RootlessIn(treeReads \o one) => asked = {}
      /\ switching => PickIsRead(treeReads \o one, root)
  BY <1>3, <1>6, <1>7, MoreReads
<1> HIDE DEF src
<1> QED BY <1>1, <1>2, <1>5, <1>8, <1>9, ListingIs, ReadsStep

(* ReadDir keeps the invariant of the files view. *)
LEMMA ReadDirKeeps ==
    ASSUME StoreInv, ReadDir
    PROVE  StoreInv' /\ dirty' = dirty
<1>1. PICK d \in Dirs : Send(d, Plain)
  BY DEF ReadDir, Dirs
<1>2. UNCHANGED <<noTabs, tabState>>
  BY DEF ReadDir
<1> QED BY <1>1, <1>2, ThensAre, TreeSendKeeps

(* The start of a listing keeps the invariant of the files view, and no
   editor becomes dirty. *)
LEMMA StartKeeps ==
    ASSUME StoreInv, NEW kind \in {"follow", "created", "reveal"}, NEW p \in Paths,
           Start(kind, p)
    PROVE  StoreInv' /\ dirty' = dirty
<1>1. PICK d \in Dirs : Send(d, Then(kind, p))
  BY DEF Start, Dirs
<1>2. UNCHANGED <<noTabs, tabState>>
  BY DEF Start
<1>3. Then(kind, p) \in Thens /\ Then(kind, p).path \in Paths
  BY ThensAre DEF StoreInv
<1> QED BY <1>1, <1>2, <1>3, TreeSendKeeps

(* PaneMoves keeps the invariant of the files view. *)
LEMMA PaneMovesKeeps ==
    ASSUME StoreInv, PaneMoves
    PROVE  StoreInv' /\ dirty' = dirty
<1> DEFINE wider(x) == [x EXCEPT !.may = @ \cup {paneRoot'}]
<1>1. /\ paneRoot' \in Roots
      /\ treeReads' = [i \in DOMAIN treeReads |->
            IF treeReads[i].place # None THEN treeReads[i] ELSE wider(treeReads[i])]
      /\ UNCHANGED tabState /\ root' = root /\ place' = place
      /\ listing' = listing /\ switching' = switching /\ offered' = offered
      /\ movedEarly' = (movedEarly \/ \E r \in ToSet(treeReads) : Rootless(r) /\ r.place = None)
  BY DEF PaneMoves
<1>2. /\ offered \in BOOLEAN /\ switching \in BOOLEAN /\ place \in {None, Place}
      /\ movedEarly \in BOOLEAN
      /\ ReadsAre(treeReads, place) /\ (RootlessIn(treeReads) => asked = {})
      /\ ~movedEarly => RootsAgree(treeReads, root, SourceRoot(place))
      /\ switching => PickIsRead(treeReads, root)
  BY DEF StoreInv, StoreFields, ReadsInv
<1>3. /\ treeReads \in Seq(Read) /\ Len(treeReads) \in Nat
      /\ DOMAIN treeReads = 1..Len(treeReads)
      /\ \A i \in 1..Len(treeReads) : treeReads[i] \in Read /\ ReadIs(treeReads[i], place)
  BY <1>2, LenProperties DEF ReadsAre, ReadIs
<1>4. /\ \A i \in 1..Len(treeReads) : treeReads[i] \in ToSet(treeReads)
      /\ \A r \in ToSet(treeReads) : \E i \in 1..Len(treeReads) : r = treeReads[i]
  BY <1>3, ElementsOf
<1>5. \A x \in Read : /\ wider(x) \in Read /\ wider(x).fresh = x.fresh /\ wider(x).dir = x.dir
                      /\ wider(x).then = x.then /\ wider(x).root = x.root
                      /\ wider(x).place = x.place /\ wider(x).may # {}
  BY <1>1 DEF Read
<1> HIDE DEF wider
<1>6. \A i \in 1..Len(treeReads) :
         /\ treeReads'[i] \in Read /\ treeReads'[i].fresh = treeReads[i].fresh
         /\ treeReads'[i].dir = treeReads[i].dir /\ treeReads'[i].then = treeReads[i].then
         /\ treeReads'[i].root = treeReads[i].root /\ treeReads'[i].may # {}
         /\ treeReads'[i].place = treeReads[i].place
         /\ treeReads[i].place # None => treeReads'[i].may = treeReads[i].may
  BY <1>1, <1>3, <1>5 DEF ReadIs
<1>7. treeReads' \in Seq(Read) /\ Len(treeReads') = Len(treeReads)
  <2>1. treeReads' \in [1..Len(treeReads) -> Read]
    BY <1>1, <1>3, <1>6
  <2>2. treeReads' \in Seq(Read) /\ DOMAIN treeReads' = 1..Len(treeReads)
    BY <1>3, <2>1, SeqDef
  <2> QED BY <1>3, <2>2, LenProperties
<1>8. ReadsAre(treeReads', place)
  BY <1>3, <1>6, <1>7 DEF ReadsAre, ReadIs
<1>9. movedEarly' \in BOOLEAN /\ (movedEarly => movedEarly')
      /\ (movedEarly' => movedEarly \/ asked = {})
  BY <1>1, <1>2, <1>4 DEF RootlessIn
<1>10. ~movedEarly' => RootsAgree(treeReads', root, SourceRoot(place)')
  <2> SUFFICES ASSUME ~movedEarly', NEW i \in 1..Len(treeReads), treeReads[i].fresh
               PROVE  /\ treeReads[i].root \in {None, root}
                      /\ treeReads[i].root = None =>
                            /\ treeReads'[i].may = {SourceRoot(place)'}
                            /\ root \in {None, SourceRoot(place)'}
    BY <1>6, <1>7 DEF RootsAgree
  <2>1. ~movedEarly
    BY <1>1
  <2>2. /\ treeReads[i].root \in {None, root}
        /\ treeReads[i].root = None =>
              treeReads[i].may = {SourceRoot(place)} /\ root \in {None, SourceRoot(place)}
    BY <1>2, <2>1 DEF RootsAgree
  <2>3. ASSUME treeReads[i].root = None
        PROVE  treeReads[i].place # None /\ SourceRoot(place)' = SourceRoot(place)
    <3>1. treeReads[i].place # None
      BY <1>1, <1>4, <2>3 DEF Rootless
    <3>2. place # None
      BY <1>3, <3>1 DEF ReadIs
    <3> QED BY <1>1, <3>1, <3>2 DEF SourceRoot
  <2> QED BY <1>6, <2>2, <2>3
<1>11. /\ switching' => PickIsRead(treeReads', root)
       /\ RootlessIn(treeReads') => asked = {}
  <2>1. RootlessTop(treeReads) => RootlessTop(treeReads')
    BY <1>6, <1>7 DEF RootlessTop, Rootless
  <2>2. TopIsRead(treeReads) => TopIsRead(treeReads')
    BY <1>6, <1>7 DEF TopIsRead
  <2>3. AllFrom(treeReads, root) => AllFrom(treeReads', root)
    BY <1>6, <1>7 DEF AllFrom
  <2>4. RootlessIn(treeReads') => RootlessIn(treeReads)
    BY <1>6, <1>7 DEF RootlessIn, Rootless
  <2> QED BY <1>1, <1>2, <2>1, <2>2, <2>3, <2>4 DEF PickIsRead
<1>12. switching' \in BOOLEAN /\ offered' \in BOOLEAN
  BY <1>1, <1>2
<1> QED BY <1>1, <1>8, <1>9, <1>10, <1>11, <1>12, ListingIs, ReadsStep

(* PlaceGoes keeps the invariant of the files view. *)
LEMMA PlaceGoesKeeps ==
    ASSUME StoreInv, PlaceGoes
    PROVE  StoreInv' /\ dirty' = dirty
<1>1. /\ offered' = FALSE /\ UNCHANGED tabState /\ root' = root /\ place' = place
      /\ listing' = listing /\ switching' = switching /\ paneRoot' = paneRoot
      /\ treeReads' = treeReads /\ movedEarly' = movedEarly
  BY DEF PlaceGoes
<1>2. /\ paneRoot \in Roots /\ switching \in BOOLEAN /\ movedEarly \in BOOLEAN
      /\ ReadsAre(treeReads, place) /\ (RootlessIn(treeReads) => asked = {})
      /\ ~movedEarly => RootsAgree(treeReads, root, SourceRoot(place))
      /\ switching => PickIsRead(treeReads, root)
  BY DEF StoreInv, StoreFields, ReadsInv
<1>3. SourceRoot(place)' = SourceRoot(place)
  BY <1>1 DEF SourceRoot
<1> QED BY <1>1, <1>2, <1>3, ListingIs, ReadsStep

\* moveTo: every read is sent again, for one tree.
LEMMA MoveToKeeps ==
    ASSUME StoreInv, MoveTo
    PROVE  StoreInv' /\ dirty' = dirty
<1>1. PICK d \in {<<"top">>, <<"top", "sub">>} :
         treeReads' = Outdated(treeReads) \o
               [i \in DOMAIN d |-> NewTreeRead(d[i], root, place, Plain)]
  BY DEF MoveTo
<1>2. /\ UNCHANGED tabState /\ root' = root /\ place' = place
      /\ listing' = listing /\ switching' = switching /\ movedEarly' = movedEarly
      /\ paneRoot' = paneRoot /\ offered' = offered
  BY DEF MoveTo, noTabs, serverFiles
<1>3. /\ paneRoot \in Roots /\ offered \in BOOLEAN /\ switching \in BOOLEAN
      /\ root \in Roots \cup {None} /\ place \in {None, Place} /\ movedEarly \in BOOLEAN
      /\ StoreFields /\ ReadsAre(treeReads, place)
  BY DEF StoreInv, StoreFields, ReadsInv
<1> DEFINE o == Outdated(treeReads)
           sent == [i \in DOMAIN d |-> NewTreeRead(d[i], root, place, Plain)]
           m == Len(d)
           src == SourceRoot(place)
<1>4. m \in {1, 2} /\ DOMAIN d = 1..m /\ \A i \in 1..m : d[i] \in Dirs
      /\ d[1] = "top"
  <2>1. CASE d = <<"top">>
    <3>1. m = 1 /\ DOMAIN d = 1..1 /\ d[1] = "top"
      BY <2>1
    <3> QED BY <3>1 DEF Dirs
  <2>2. CASE d = <<"top", "sub">>
    <3>1. m = 2 /\ DOMAIN d = 1..2 /\ d[1] = "top" /\ d[2] = "sub"
      BY <2>2
    <3>2. \A i \in 1..2 : i = 1 \/ i = 2
      OBVIOUS
    <3> QED BY <3>1, <3>2 DEF Dirs
  <2> QED BY <1>1, <2>1, <2>2
<1> HIDE DEF m
<1>5. /\ sent = [i \in 1..m |-> sent[i]]
      /\ \A i \in 1..m : sent[i] = NewTreeRead(d[i], root, place, Plain)
  BY <1>4
<1>6. \A i \in 1..m : /\ ReadIs(sent[i], place) /\ sent[i].fresh /\ sent[i].dir = d[i]
                      /\ sent[i].root = root /\ sent[i].may = {src}
  <2> SUFFICES ASSUME NEW i \in 1..m
               PROVE  /\ ReadIs(sent[i], place) /\ sent[i].fresh /\ sent[i].dir = d[i]
                      /\ sent[i].root = root /\ sent[i].may = {src}
    OBVIOUS
  <2>1. sent[i] = NewTreeRead(d[i], root, place, Plain) /\ d[i] \in Dirs
    BY <1>4, <1>5
  <2>2. Plain \in Thens /\ Plain.kind = "none"
    BY ThensAre
  <2>3. ASSUME NEW dir \in Dirs
        PROVE  LET r == NewTreeRead(dir, root, place, Plain)
               IN  ReadIs(r, place) /\ r.fresh /\ r.dir = dir /\ r.root = root /\ r.may = {src}
    BY <1>3, <2>2, NewReadIs
  <2> HIDE DEF sent
  <2> QED BY <2>1, <2>2, <2>3
<1> HIDE DEF sent
<1>7. ReadsAre(sent, place) /\ Len(sent) = m
  <2>1. sent \in [1..m -> Read]
    BY <1>5, <1>6 DEF ReadIs
  <2>2. sent \in Seq(Read) /\ DOMAIN sent = 1..m
    BY <1>4, <2>1, SeqDef
  <2>3. Len(sent) = m
    BY <1>4, <2>2, LenProperties
  <2> QED BY <1>6, <2>2, <2>3 DEF ReadsAre
<1>8. \E i \in 1..Len(sent) : sent[i].fresh /\ sent[i].dir = "top"
  BY <1>4, <1>6, <1>7
<1>9. ReadsAre(o, place) /\ \A i \in 1..Len(o) : ~o[i].fresh
  BY <1>3, OutdatedAre
<1> DEFINE q == o \o sent
<1>10. treeReads' = q
  BY <1>1 DEF o, sent
<1> HIDE DEF o, src
<1>11. ReadsAre(q, place) /\ Joins(q, o, sent)
  BY <1>7, <1>9, ReadsJoined
<1> HIDE DEF q
<1>12. AllSent(q, root, src)
  <2>1. \A i \in 1..Len(sent) : sent[i].root = root /\ sent[i].may = {src}
    BY <1>6, <1>7
  <2>2. \A i \in 1..Len(q) : \/ \E j \in 1..Len(o) : q[i] = o[j]
                             \/ \E j \in 1..Len(sent) : q[i] = sent[j]
    BY <1>11 DEF Joins
  <2> QED BY <1>9, <2>1, <2>2 DEF AllSent
<1>13. RootsAgree(q, root, src) /\ (RootlessIn(q) => root = None)
  BY <1>12, SentAgree
<1>14. RootlessIn(q) => asked = {}
  BY <1>13 DEF StoreInv, NothingYet
<1>15. PickIsRead(q, root)
  BY <1>8, <1>11, <1>12 DEF Joins, PickIsRead, TopIsRead, AllFrom, AllSent
<1>16. SourceRoot(place)' = src
  BY <1>2 DEF SourceRoot, src
<1> QED BY <1>2, <1>3, <1>10, <1>11, <1>13, <1>14, <1>15, <1>16, ListingIs, ReadsStep

(* OpenByUser keeps the invariant of the files view. *)
LEMMA OpenByUserKeeps ==
    ASSUME StoreInv, NEW p \in Paths, NEW pin \in BOOLEAN, OpenByUser(p, pin)
    PROVE  StoreInv' /\ dirty' = dirty
<1>1. /\ root # None /\ StillAsked(asked) /\ UNCHANGED <<noTabs, treeReads>>
      /\ root' = root
      /\ movedEarly' = movedEarly /\ asked' \subseteq asked
  BY DEF OpenByUser, noTabs, StillAsked
<1>2. PICK w \in Opened(FileTabs, root, p, pin) : Become(w)
  BY DEF OpenByUser
<1>3. root' \in Roots /\ w \in Opened(FileTabs, root', p, pin)
  BY <1>1, <1>2 DEF StoreInv, StoreFields
<1>4. TabsInv' /\ dirty' = dirty
  BY <1>1, <1>2, <1>3, OpensKeep DEF StoreInv
<1> QED BY <1>1, <1>4, TabsStep

(* OpenFromFind keeps the invariant of the files view. *)
LEMMA OpenFromFindKeeps ==
    ASSUME StoreInv, NEW pl \in {None, Place}, NEW p \in Paths, OpenFromFind(pl, p)
    PROVE  StoreInv' /\ dirty' = dirty
<1> DEFINE r == IF pl = None THEN paneRoot ELSE PlaceRoot
<1>1. /\ root \notin {None, r} /\ SwitchTo(pl, r, treeReads, <<>>, p)
      /\ UNCHANGED serverFiles
  BY DEF OpenFromFind
<1>2. r \in Roots /\ ReadsAre(treeReads, place)
  BY FilesAssumption DEF StoreInv, StoreFields, ReadsInv
<1> HIDE DEF r
<1>3. /\ ReadsAre(<<>>, pl)
      /\ AllSent(<<>>, IF r \notin {None, root} THEN r ELSE root, SourceRoot(pl))
  BY EmptySeq DEF ReadsAre, AllSent
<1> QED BY <1>1, <1>2, <1>3, SwitchToKeeps

(* PickSource keeps the invariant of the files view. *)
LEMMA PickSourceKeeps ==
    ASSUME StoreInv, PickSource
    PROVE  StoreInv' /\ dirty' = dirty
<1> DEFINE pl == IF place = None THEN Place ELSE None
<1>1. SwitchTo(pl, None, treeReads, <<>>, None) /\ UNCHANGED serverFiles
  BY DEF PickSource
<1>2. pl \in {None, Place} /\ ReadsAre(treeReads, place)
  BY DEF StoreInv, ReadsInv
<1> HIDE DEF pl
<1>3. /\ ReadsAre(<<>>, pl)
      /\ AllSent(<<>>, IF None \notin {None, root} THEN None ELSE root, SourceRoot(pl))
  BY EmptySeq DEF ReadsAre, AllSent
<1> QED BY <1>1, <1>2, <1>3, SwitchToKeeps

\* The tabs as they are, another shown or other files with changes.
LEMMA ShownKeeps ==
    ASSUME StoreInv, UNCHANGED <<noTabs, openTabs, asked, keptOpen, treeReads>>,
           active' \in TabIds \cup {None}, dirty' \subseteq File
    PROVE  StoreInv'
<1>1. /\ root' = root /\ openTabs' = openTabs /\ asked' = asked /\ keptOpen' = keptOpen
      /\ UNCHANGED <<noTabs, treeReads>> /\ movedEarly' = movedEarly
  BY DEF noTabs
<1>2. TabsInv'
  BY <1>1, RetaggedKeep DEF StoreInv, TabsInv
<1> QED BY <1>1, <1>2, TabsStep DEF StoreInv, NothingYet

(* Activate keeps the invariant of the files view. *)
LEMMA ActivateKeeps ==
    ASSUME StoreInv, NEW id, Activate(id)
    PROVE  StoreInv' /\ dirty' = dirty
  BY ShownKeeps DEF Activate, StoreInv, TabsInv

(* EditElsewhere keeps the invariant of the files view. *)
LEMMA EditElsewhereKeeps ==
    ASSUME StoreInv, NEW f \in File, EditElsewhere(f)
    PROVE  StoreInv' /\ dirty \subseteq dirty'
  BY ShownKeeps DEF EditElsewhere, StoreInv, TabsInv

(* Settle keeps the invariant of the files view. *)
LEMMA SettleKeeps ==
    ASSUME StoreInv, NEW f \in File, Settle(f)
    PROVE  StoreInv'
  BY ShownKeeps DEF Settle, StoreInv, TabsInv

(* EditFile keeps the invariant of the files view. *)
LEMMA EditFileKeeps ==
    ASSUME StoreInv, Edit
    PROVE  StoreInv' /\ dirty \subseteq dirty'
<1>1. /\ active # None /\ dirty' = dirty \cup {FileOf(Active)}
      /\ openTabs' = [i \in DOMAIN openTabs |->
                        IF openTabs[i].id = active THEN [openTabs[i] EXCEPT !.pinned = TRUE]
                        ELSE openTabs[i]]
      /\ UNCHANGED <<noTabs, treeReads>> /\ root' = root /\ movedEarly' = movedEarly
      /\ active' = active /\ asked' = asked /\ keptOpen' = keptOpen
  BY DEF Edit, noTabs
<1>2. TabsInv /\ openTabs \in Seq(Tab) /\ Len(openTabs) \in Nat
      /\ DOMAIN openTabs = 1..Len(openTabs)
      /\ \A i \in 1..Len(openTabs) : openTabs[i] \in Tab
  BY LenProperties, ElementOfSeq DEF StoreInv, TabsInv
<1>3. \A t \in Tab : LET u == [t EXCEPT !.pinned = TRUE]
                     IN  u \in Tab /\ u.id = t.id /\ u.root = t.root
  BY DEF Tab
<1>4. \A i \in 1..Len(openTabs) :
         /\ openTabs'[i] \in Tab
         /\ openTabs'[i].id = openTabs[i].id /\ openTabs'[i].root = openTabs[i].root
  BY <1>1, <1>2, <1>3
<1>5. openTabs' \in [1..Len(openTabs) -> Tab]
  BY <1>1, <1>2, <1>4
<1>6. openTabs' \in Seq(Tab) /\ Len(openTabs') = Len(openTabs)
  BY <1>2, <1>4, <1>5, EditedTabs
<1>7. FileOf(Active) \in File
  BY <1>1, <1>2, ActiveIs
<1>8. TabsInv'
  <2>1. /\ active' \in TabIds \cup {None} /\ keptOpen' \subseteq TabIds
        /\ asked' \subseteq asked /\ asked \cup keptOpen \subseteq asked' \cup keptOpen'
        /\ dirty' \subseteq File
    BY <1>1, <1>2, <1>7 DEF TabsInv
  <2> QED BY <1>1, <1>2, <1>4, <1>6, <2>1, RetaggedKeep
<1>9. openTabs = <<>> => openTabs' = <<>>
  <2>1. Len(<<>>) = 0
    OBVIOUS
  <2> QED BY <1>6, <2>1, EmptySeq
<1>10. StoreInv'
  BY <1>1, <1>8, <1>9, TabsStep DEF StoreInv, NothingYet
<1> QED BY <1>1, <1>10

\* The file a link was followed from, and the links before it.
LEMMA BackIs ==
    ASSUME NEW b \in Seq(Paths), b # <<>>
    PROVE  Last(b) \in Paths /\ Front(b) \in Seq(Paths)
<1>1. Len(b) \in Nat /\ Len(b) # 0 /\ \A i \in 1..Len(b) : b[i] \in Paths
  BY EmptySeq, LenProperties, ElementOfSeq
<1>2. SubSeq(b, 1, Len(b) - 1) \in Seq(Paths)
  <2>1. \A i \in 1..(Len(b) - 1) : b[i] \in Paths
    BY <1>1
  <2> QED BY <1>1, <2>1, SubSeqProperties
<1> QED BY <1>1, <1>2 DEF Last, Front

(* GoBack keeps the invariant of the files view. *)
LEMMA GoBackKeeps ==
    ASSUME StoreInv, GoBack
    PROVE  StoreInv' /\ dirty' = dirty
<1> DEFINE i == CHOOSE i \in DOMAIN openTabs : openTabs[i].id = active
           b == openTabs[i].back
           other == {t \in ToSet(openTabs) : Here(t) /\ t.path = Last(b)}
<1>1. /\ active # None /\ UNCHANGED <<noTabs, treeReads>> /\ root' = root
      /\ movedEarly' = movedEarly /\ asked' = asked /\ keptOpen' = keptOpen /\ dirty' = dirty
  BY DEF GoBack, noTabs
<1>2. IF b = <<>>
        THEN active' = None /\ UNCHANGED openTabs
      ELSE IF other # {}
        THEN /\ openTabs' = [openTabs EXCEPT ![i].back = Front(@)]
             /\ \E t \in other : active' = t.id
      ELSE /\ openTabs' = [openTabs EXCEPT ![i].path = Last(b), ![i].back = Front(@)]
           /\ UNCHANGED active
  BY DEF GoBack
<1>3. TabsInv /\ openTabs \in Seq(Tab) /\ Len(openTabs) \in Nat
      /\ DOMAIN openTabs = 1..Len(openTabs)
      /\ \A k \in 1..Len(openTabs) : openTabs[k] \in Tab
  BY LenProperties, ElementOfSeq DEF StoreInv, TabsInv
<1>4. i \in 1..Len(openTabs)
  BY <1>1, <1>3, ActiveIs
<1>5. b \in Seq(Paths) /\ openTabs[i] \in Tab
  BY <1>3, <1>4 DEF Tab
<1>6. /\ active \in TabIds \cup {None}
      /\ \A t \in other : t.id \in TabIds
  BY <1>3 DEF TabsInv, TabIds
<1> HIDE DEF i, other
<1>7. CASE b = <<>>
  <2>1. UNCHANGED <<noTabs, openTabs, asked, keptOpen, treeReads>> /\ active' = None
    BY <1>1, <1>2, <1>7
  <2> QED BY <1>1, <1>3, <2>1, ShownKeeps DEF TabsInv
<1>8. ASSUME b # <<>>, NEW t \in Tab, t.id = openTabs[i].id, t.root = openTabs[i].root,
             openTabs' = [openTabs EXCEPT ![i] = t], active' \in TabIds \cup {None}
      PROVE  StoreInv' /\ dirty' = dirty
  <2>1. /\ openTabs' \in Seq(Tab) /\ Len(openTabs') = Len(openTabs)
        /\ \A k \in 1..Len(openTabs) :
              openTabs'[k] = IF k = i THEN t ELSE openTabs[k]
    BY <1>3, <1>4, <1>8, ExceptSeq
  <2>2. TabsInv'
    <3>1. /\ keptOpen' \subseteq TabIds /\ dirty' \subseteq File
          /\ asked' \subseteq asked /\ asked \cup keptOpen \subseteq asked' \cup keptOpen'
      BY <1>1, <1>3 DEF TabsInv
    <3> QED BY <1>1, <1>3, <1>8, <2>1, <3>1, RetaggedKeep
  <2>3. openTabs # <<>>
    BY <1>4, EmptySeq
  <2> QED BY <1>1, <2>2, <2>3, TabsStep DEF StoreInv, NothingYet
<1>9. CASE b # <<>> /\ other # {}
  <2> DEFINE t == [openTabs[i] EXCEPT !.back = Front(b)]
  <2>1. openTabs' = [openTabs EXCEPT ![i] = t] /\ active' \in TabIds
    BY <1>2, <1>3, <1>4, <1>6, <1>9
  <2>2. t \in Tab /\ t.id = openTabs[i].id /\ t.root = openTabs[i].root
    BY <1>5, <1>9, BackIs DEF Tab
  <2> HIDE DEF t
  <2> QED BY <1>8, <1>9, <2>1, <2>2
<1>10. CASE b # <<>> /\ other = {}
  <2> DEFINE t == [openTabs[i] EXCEPT !.path = Last(b), !.back = Front(b)]
  <2>1. openTabs' = [openTabs EXCEPT ![i] = t] /\ active' \in TabIds \cup {None}
    BY <1>2, <1>3, <1>4, <1>5, <1>6, <1>10 DEF Tab
  <2>2. t \in Tab /\ t.id = openTabs[i].id /\ t.root = openTabs[i].root
    BY <1>5, <1>10, BackIs DEF Tab
  <2> HIDE DEF t
  <2> QED BY <1>8, <1>10, <2>1, <2>2
<1> QED BY <1>7, <1>9, <1>10

(* Close keeps the invariant of the files view. *)
LEMMA CloseKeeps ==
    ASSUME StoreInv, NEW id, Close(id)
    PROVE  StoreInv'
<1>1. /\ id \in TabIds /\ Become(Closed(FileTabs, {id})) /\ StillAsked(asked)
      /\ UNCHANGED <<noTabs, treeReads>> /\ root' = root
      /\ movedEarly' = movedEarly /\ asked' \subseteq asked
  BY DEF Close, noTabs, StillAsked
<1>2. TabsInv'
  BY <1>1, ClosesKeep DEF StoreInv
<1>3. root # None
  <2>1. openTabs # <<>>
    BY <1>1 DEF TabIds, ToSet
  <2> QED BY <2>1 DEF StoreInv, NothingYet
<1> QED BY <1>1, <1>2, <1>3, TabsStep

(* Resolve keeps the invariant of the files view. *)
LEMMA ResolveKeeps ==
    ASSUME StoreInv, NEW closing \in BOOLEAN, ResolveRootClose(closing)
    PROVE  StoreInv' /\ (~closing => dirty' = dirty)
<1>1. /\ asked # {} /\ asked' = {} /\ UNCHANGED <<noTabs, treeReads>> /\ root' = root
      /\ movedEarly' = movedEarly
  BY DEF ResolveRootClose, noTabs
<1>2. root # None
  <2>1. openTabs # <<>>
    BY <1>1 DEF TabIds, ToSet, StoreInv, TabsInv
  <2> QED BY <2>1 DEF StoreInv, NothingYet
<1>3. CASE closing
  <2>1. Become(Closed(FileTabs, asked))
    BY <1>3 DEF ResolveRootClose
  <2>2. TabsInv'
    BY <1>1, <2>1, ClosesKeep DEF StoreInv
  <2> QED BY <1>1, <1>2, <1>3, <2>2, TabsStep
<1>4. CASE ~closing
  <2>1. /\ keptOpen' = keptOpen \cup asked /\ openTabs' = openTabs /\ active' = active
        /\ dirty' = dirty
    BY <1>4 DEF ResolveRootClose
  <2>2. TabsInv'
    BY <1>1, <2>1, RetaggedKeep DEF StoreInv, TabsInv
  <2> QED BY <1>1, <1>2, <2>1, <2>2, TabsStep
<1> QED BY <1>3, <1>4

\* A renaming moves the tabs of one file to another; a tab already on it goes,
\* and was not one the user is asked about.
LEMMA RenamedKeeps ==
    ASSUME StoreInv, NEW from \in Paths, NEW to \in Paths, Renamed(from, to)
    PROVE  StoreInv'
<1> DEFINE onIt == {u \in ToSet(openTabs) :
                      /\ Here(u) /\ u.path = to
                      /\ \E v \in ToSet(openTabs) : Here(v) /\ v.path = from}
           gone == {t.id : t \in onIt}
           ts == Remaining(openTabs, onIt)
<1>1. /\ root # None /\ from # to
      /\ openTabs' = [i \in DOMAIN ts |->
            IF ~Here(ts[i]) THEN ts[i]
            ELSE [ts[i] EXCEPT
                    !.path = IF @ = from THEN to ELSE @,
                    !.back = [j \in DOMAIN @ |-> IF @[j] = from THEN to ELSE @[j]]]]
      /\ active' = IF active \in gone
                     THEN (CHOOSE t \in ToSet(openTabs') : t.path = to /\ Here(t)).id
                     ELSE active
      /\ dirty' = {IF f = [root |-> root, path |-> from]
                     THEN [root |-> root, path |-> to] ELSE f : f \in dirty}
      /\ keptOpen' = keptOpen \ gone
      /\ UNCHANGED <<noTabs, treeReads>> /\ asked' = asked /\ root' = root
      /\ movedEarly' = movedEarly
  BY DEF Renamed, noTabs
<1>2. /\ TabsInv /\ openTabs \in Seq(Tab) /\ root \in Roots
      /\ \A t, u \in ToSet(openTabs) : t.id = u.id => t = u
      /\ \A t \in ToSet(openTabs) : t \in Tab /\ t.id \in TabIds
  BY <1>1, FileTabsFit DEF StoreInv, StoreFields, TabsInv
<1>3. /\ \A k \in 1..Len(openTabs) : openTabs[k] \in ToSet(openTabs)
      /\ \A x \in ToSet(openTabs) : \E k \in 1..Len(openTabs) : x = openTabs[k]
  BY <1>2, ElementsOf
<1>4. /\ ts \in Seq(Tab)
      /\ \A i \in 1..Len(ts) :
            ts[i] \notin onIt /\ \E k \in 1..Len(openTabs) : openTabs[k] = ts[i]
      /\ \A k \in 1..Len(openTabs) : openTabs[k] \notin onIt =>
            \E i \in 1..Len(ts) : ts[i] = openTabs[k]
      /\ (\A k, l \in 1..Len(openTabs) : openTabs[k] = openTabs[l] => k = l) =>
            \A i, j \in 1..Len(ts) : ts[i] = ts[j] => i = j
  <2> HIDE DEF onIt
  <2> QED BY <1>2, RemainingIs
<1> HIDE DEF ts
<1>5. /\ Len(ts) \in Nat /\ DOMAIN ts = 1..Len(ts)
      /\ \A i \in 1..Len(ts) : ts[i] \in Tab /\ ts[i] \in ToSet(openTabs) /\ ts[i] \notin onIt
  BY <1>3, <1>4, LenProperties, ElementOfSeq
<1>6. \A x \in ToSet(openTabs) : x \notin onIt => \E i \in 1..Len(ts) : ts[i] = x
  <2> SUFFICES ASSUME NEW x \in ToSet(openTabs), x \notin onIt
               PROVE  \E i \in 1..Len(ts) : ts[i] = x
    OBVIOUS
  <2>1. PICK k \in 1..Len(openTabs) : x = openTabs[k]
    BY <1>3
  <2> QED BY <1>4, <2>1
<1>7. \A i, j \in 1..Len(ts) : ts[i].id = ts[j].id => i = j
  <2>1. \A k, l \in 1..Len(openTabs) : openTabs[k] = openTabs[l] => k = l
    BY <1>2 DEF TabsInv, IdsDiffer
  <2>2. \A i, j \in 1..Len(ts) : ts[i].id = ts[j].id => ts[i] = ts[j]
    BY <1>2, <1>5
  <2> QED BY <1>4, <2>1, <2>2
<1> DEFINE renamed(q) == [j \in DOMAIN q |-> IF q[j] = from THEN to ELSE q[j]]
           shown(t) == IF ~Here(t) THEN t
                       ELSE [t EXCEPT !.path = IF @ = from THEN to ELSE @,
                                      !.back = renamed(@)]
<1>8. \A q \in Seq(Paths) : renamed(q) \in Seq(Paths)
  <2> SUFFICES ASSUME NEW q \in Seq(Paths) PROVE renamed(q) \in Seq(Paths)
    OBVIOUS
  <2>1. Len(q) \in Nat /\ DOMAIN q = 1..Len(q) /\ \A j \in 1..Len(q) : q[j] \in Paths
    BY LenProperties, ElementOfSeq
  <2>2. renamed(q) \in [1..Len(q) -> Paths]
    BY <2>1
  <2> HIDE DEF renamed
  <2> QED BY <2>1, <2>2, SeqDef
<1>9. \A t \in Tab : /\ shown(t) \in Tab /\ shown(t).id = t.id /\ shown(t).root = t.root
                     /\ Here(t) /\ t.path = from => shown(t).path = to
  <2> SUFFICES ASSUME NEW t \in Tab
               PROVE  /\ shown(t) \in Tab /\ shown(t).id = t.id /\ shown(t).root = t.root
                      /\ Here(t) /\ t.path = from => shown(t).path = to
    OBVIOUS
  <2>1. renamed(t.back) \in Seq(Paths)
    BY <1>8 DEF Tab
  <2> HIDE DEF renamed
  <2> QED BY <2>1 DEF Tab
<1>10. openTabs' = [i \in 1..Len(ts) |-> shown(ts[i])]
  BY <1>1, <1>5
<1> HIDE DEF shown
<1>11. \A i \in 1..Len(ts) :
          /\ openTabs'[i] = shown(ts[i]) /\ openTabs'[i] \in Tab
          /\ openTabs'[i].id = ts[i].id /\ openTabs'[i].root = ts[i].root
  BY <1>5, <1>9, <1>10
<1>12. openTabs' \in Seq(Tab) /\ Len(openTabs') = Len(ts)
  <2>1. openTabs' \in [1..Len(ts) -> Tab]
    BY <1>10, <1>11
  <2> QED BY <1>4, <2>1, <1>11, <1>5, SeqDef, LenProperties
<1>13. /\ \A i \in 1..Len(ts) : openTabs'[i] \in ToSet(openTabs')
       /\ \A x \in ToSet(openTabs') : \E i \in 1..Len(ts) : x = openTabs'[i]
  BY <1>12, ElementsOf
<1>14. IdsDiffer(openTabs)'
  BY <1>7, <1>11, <1>12 DEF IdsDiffer
<1>15. \A x \in ToSet(openTabs) : x \notin onIt => x.id \in TabIds'
  <2> SUFFICES ASSUME NEW x \in ToSet(openTabs), x \notin onIt PROVE x.id \in TabIds'
    OBVIOUS
  <2>1. PICK i \in 1..Len(ts) : ts[i] = x
    BY <1>6
  <2> QED BY <1>11, <1>13, <2>1 DEF TabIds
<1>16. \A x \in ToSet(openTabs) : x.id \in gone <=> x \in onIt
  <2> SUFFICES ASSUME NEW x \in ToSet(openTabs), x.id \in gone PROVE x \in onIt
    OBVIOUS
  <2>1. PICK u \in onIt : u.id = x.id
    OBVIOUS
  <2> QED BY <1>2, <2>1
<1>17. \A id \in TabIds : id \notin gone => id \in TabIds'
  <2> SUFFICES ASSUME NEW x \in ToSet(openTabs), x.id \notin gone PROVE x.id \in TabIds'
    BY DEF TabIds
  <2> QED BY <1>15, <1>16
<1>18. active' \in TabIds' \cup {None}
  <2>1. CASE active \in gone
    <3>1. PICK v \in ToSet(openTabs) : Here(v) /\ v.path = from
      BY <2>1
    <3>2. v \notin onIt
      BY <1>1, <3>1
    <3>3. PICK i \in 1..Len(ts) : ts[i] = v
      BY <1>6, <3>2
    <3>4. openTabs'[i].path = to /\ Here(openTabs'[i])
      BY <1>5, <1>9, <1>11, <3>1, <3>3 DEF Here
    <3>5. (CHOOSE t \in ToSet(openTabs') : t.path = to /\ Here(t)) \in ToSet(openTabs')
      BY <1>13, <3>4
    <3> QED BY <1>1, <2>1, <3>5 DEF TabIds
  <2>2. CASE active \notin gone
    BY <1>1, <1>2, <1>17, <2>2 DEF TabsInv
  <2> QED BY <2>1, <2>2
<1>19. asked' \subseteq TabIds'
  <2> SUFFICES ASSUME NEW id \in asked PROVE id \notin gone
    BY <1>1, <1>2, <1>17 DEF TabsInv
  <2>1. PICK x \in ToSet(openTabs) : x.id = id
    BY <1>2 DEF TabsInv, TabIds
  <2>2. ~Here(x)
    BY <1>2, <2>1 DEF TabsInv, AskedRight, AskedTabs
  <2> QED BY <1>16, <2>1, <2>2
<1>20. keptOpen' \subseteq TabIds'
  BY <1>1, <1>2, <1>17 DEF TabsInv
<1>21. dirty' \subseteq File
  <2>1. [root |-> root, path |-> to] \in File
    BY <1>2 DEF File
  <2>2. \A f \in dirty : f \in File
    BY <1>2 DEF TabsInv
  <2> QED BY <1>1, <2>1, <2>2
<1>22. AskedRight'
  <2> SUFFICES ASSUME ~movedEarly, NEW y \in ToSet(openTabs')
               PROVE  IF y.root = root THEN y.id \notin asked ELSE y.id \in asked \cup keptOpen'
    BY <1>1, <1>2 DEF AskedRight, AskedTabs, Here, TabsInv
  <2>1. PICK i \in 1..Len(ts) : y = openTabs'[i]
    BY <1>13
  <2>2. IF ts[i].root = root THEN ts[i].id \notin asked ELSE ts[i].id \in asked \cup keptOpen
    BY <1>2, <1>5 DEF TabsInv, AskedRight, AskedTabs, Here
  <2>3. ts[i].id \notin gone
    BY <1>5, <1>16
  <2>4. y.id = ts[i].id /\ y.root = ts[i].root
    BY <1>11, <2>1
  <2>5. ts[i].id \in keptOpen => ts[i].id \in keptOpen'
    BY <1>1, <2>3
  <2> HIDE DEF gone
  <2> QED BY <2>2, <2>4, <2>5
<1>23. TabsInv'
  BY <1>12, <1>14, <1>18, <1>19, <1>20, <1>21, <1>22 DEF TabsInv
<1> QED BY <1>1, <1>23, TabsStep

-----------------------------------------------------------------------------
(* The whole.                                                              *)

StoreIInv == StoreInv /\ toDo \in 0..MaxDone

(* The files view starts empty, within its invariant. *)
LEMMA FilesInitIInv == FilesInit => StoreIInv
<1> SUFFICES ASSUME FilesInit PROVE StoreIInv
  OBVIOUS
<1> DEFINE n == NewTreeRead("top", None, None, Plain)
           one == <<n>>
<1>1. /\ paneRoot \in Roots /\ offered = TRUE /\ toDo = MaxDone
      /\ root = None /\ place = None /\ listing = [d \in Dirs |-> None]
      /\ openTabs = <<>> /\ active = None /\ asked = {} /\ keptOpen = {}
      /\ dirty = {} /\ switching = FALSE /\ movedEarly = FALSE /\ treeReads = one
  BY DEF FilesInit, Dirs
<1>2. StoreFields
  BY <1>1 DEF StoreFields
<1>3. TabsInv
  <2>1. <<>> \in Seq(Tab) /\ Len(<<>>) = 0 /\ ToSet(<<>>) = {}
    BY EmptySeq DEF ToSet
  <2> QED BY <1>1, <2>1 DEF TabsInv, IdsDiffer, AskedRight, AskedTabs
<1>4. ReadIs(n, None) /\ n.root = None /\ n.may = {SourceRoot(None)}
  BY <1>2, NewReadIs, ThensAre DEF Dirs
<1> HIDE DEF n
<1>5. ReadsAre(one, None) /\ Len(one) = 1 /\ one[1] = n
  BY <1>4, OneRead
<1>6. AllSent(one, None, SourceRoot(None))
  <2>1. \A i \in 1..Len(one) : one[i] = n
    BY <1>5
  <2> QED BY <1>4, <2>1 DEF AllSent
<1> HIDE DEF one
<1>7. ReadsInv
  BY <1>1, <1>5, <1>6, SentAgree DEF ReadsInv
<1>8. ListingOfRoot
  BY <1>1 DEF ListingOfRoot
<1>9. toDo \in 0..MaxDone
  BY <1>1, FilesAssumption
<1> QED BY <1>1, <1>2, <1>3, <1>7, <1>8, <1>9 DEF StoreIInv, StoreInv, NothingYet

\* What the user says of changes: saved or discarded, their tab closed, or
\* their file renamed.
UserSays ==
    \/ \E f \in File : Settle(f)
    \/ \E id \in Ids : Close(id)
    \/ ResolveRootClose(TRUE)
    \/ \E p, q \in Paths : Renamed(p, q)

(* No action of the user leaves the invariant of the files view. *)
LEMMA FilesUserKeeps ==
    ASSUME StoreInv, FilesUser
    PROVE  StoreInv' /\ (dirty \subseteq dirty' \/ UserSays)
<1>1. CASE ReadDir
  BY <1>1, ReadDirKeeps
<1>2. CASE GoBack
  BY <1>2, GoBackKeeps
<1>3. CASE Edit
  BY <1>3, EditFileKeeps
<1>4. CASE PickSource
  BY <1>4, PickSourceKeeps
<1>5. CASE MoveTo
  BY <1>5, MoveToKeeps
<1>6. CASE \E p \in Paths, kind \in {"follow", "created", "reveal"} : Start(kind, p)
  BY <1>6, StartKeeps
<1>7. CASE \E p \in Paths, pin \in BOOLEAN : OpenByUser(p, pin)
  BY <1>7, OpenByUserKeeps
<1>8. CASE \E p \in Paths, pl \in {None, Place} : OpenFromFind(pl, p)
  BY <1>8, OpenFromFindKeeps
<1>9. CASE \E p, to \in Paths : Renamed(p, to)
  <2>1. StoreInv'
    BY <1>9, RenamedKeeps
  <2> QED BY <1>9, <2>1 DEF UserSays
<1>10. CASE \E id \in Ids \cup {None} : Activate(id)
  BY <1>10, ActivateKeeps
<1>11. CASE \E id \in Ids : Close(id)
  <2>1. StoreInv'
    BY <1>11, CloseKeeps
  <2> QED BY <1>11, <2>1 DEF UserSays
<1>12. CASE \E f \in File : EditElsewhere(f)
  BY <1>12, EditElsewhereKeeps
<1>13. CASE \E f \in File : Settle(f)
  <2>1. StoreInv'
    BY <1>13, SettleKeeps
  <2> QED BY <1>13, <2>1 DEF UserSays
<1>14. CASE \E closing \in BOOLEAN : ResolveRootClose(closing)
  <2>1. PICK closing \in BOOLEAN : ResolveRootClose(closing)
    BY <1>14
  <2>2. StoreInv' /\ (~closing => dirty' = dirty)
    BY <2>1, ResolveKeeps
  <2>3. CASE closing
    <3>1. ResolveRootClose(TRUE)
      BY <2>1, <2>3
    <3> QED BY <2>2, <3>1 DEF UserSays
  <2>4. CASE ~closing
    BY <2>2, <2>4
  <2> QED BY <2>3, <2>4
<1> QED BY <1>1, <1>2, <1>3, <1>4, <1>5, <1>6, <1>7, <1>8, <1>9, <1>10, <1>11,
           <1>12, <1>13, <1>14 DEF FilesUser

(* No step of the files view does. *)
LEMMA FilesNextIInv ==
    ASSUME StoreIInv, [FilesNext]_filesVars
    PROVE  StoreIInv' /\ (dirty \subseteq dirty' \/ UserSays)
<1>0. StoreInv /\ toDo \in 0..MaxDone /\ MaxDone \in Nat
  BY FilesAssumption DEF StoreIInv
<1>1. CASE TreeAnswer /\ UNCHANGED toDo
  BY <1>0, <1>1, TreeAnswerKeeps DEF StoreIInv
<1>2. CASE toDo > 0 /\ toDo' = toDo - 1 /\ (PaneMoves \/ PlaceGoes \/ FilesUser)
  <2>1. toDo' \in 0..MaxDone
    BY <1>0, <1>2
  <2>2. StoreInv' /\ (dirty \subseteq dirty' \/ UserSays)
    BY <1>0, <1>2, PaneMovesKeeps, PlaceGoesKeeps, FilesUserKeeps
  <2> QED BY <2>1, <2>2 DEF StoreIInv
<1>3. CASE UNCHANGED filesVars
  <2>1. /\ paneRoot' = paneRoot /\ offered' = offered /\ toDo' = toDo /\ root' = root
        /\ place' = place /\ listing' = listing /\ UNCHANGED tabState
        /\ switching' = switching /\ treeReads' = treeReads /\ movedEarly' = movedEarly
    BY <1>3 DEF filesVars, serverFiles
  <2>2. /\ paneRoot \in Roots /\ offered \in BOOLEAN /\ switching \in BOOLEAN
        /\ movedEarly \in BOOLEAN
        /\ ReadsAre(treeReads, place) /\ (RootlessIn(treeReads) => asked = {})
        /\ ~movedEarly => RootsAgree(treeReads, root, SourceRoot(place))
        /\ switching => PickIsRead(treeReads, root)
    BY <1>0 DEF StoreInv, StoreFields, ReadsInv
  <2>3. SourceRoot(place)' = SourceRoot(place)
    BY <2>1 DEF SourceRoot
  <2>4. StoreInv' /\ dirty' = dirty
    BY <1>0, <2>1, <2>2, <2>3, ListingIs, ReadsStep
  <2> QED BY <1>0, <2>1, <2>4 DEF StoreIInv
<1> QED BY <1>1, <1>2, <1>3 DEF FilesNext

\* As many ids as tabs.
LEMMA CountedTabs ==
    ASSUME NEW q \in Seq(Tab), IdsDiffer(q)
    PROVE  Cardinality(IdsIn(q)) = Len(q)
<1> DEFINE n == Len(q)
           f == [i \in 1..n |-> q[i].id]
<1>1. /\ n \in Nat /\ \A i \in 1..n : q[i] \in ToSet(q)
      /\ \A x \in ToSet(q) : \E i \in 1..n : x = q[i]
  BY ElementsOf
<1> HIDE DEF n
<1>2. f \in Bijection(1..n, IdsIn(q))
  <2>1. \A i \in 1..n : f[i] = q[i].id /\ f[i] \in IdsIn(q)
    BY <1>1 DEF IdsIn
  <2>2. f \in [1..n -> IdsIn(q)]
    BY <2>1
  <2> HIDE DEF f
  <2>3. \A i, j \in 1..n : f[i] = f[j] => i = j
    BY <2>1 DEF IdsDiffer, n
  <2>4. \A x \in IdsIn(q) : \E i \in 1..n : f[i] = x
    BY <1>1, <2>1 DEF IdsIn
  <2> QED BY <2>2, <2>3, <2>4 DEF Bijection, Injection, IsInjective, Surjection
<1> HIDE DEF f
<1>3. ExistsBijection(1..n, IdsIn(q))
  BY <1>2 DEF ExistsBijection
<1> QED BY <1>1, <1>3, FS_CountingElements DEF n

(* The invariant of the files view gives its types, and that all it shows
   is of one root. *)
LEMMA StoreIsTyped == StoreIInv => FilesTypeOK /\ OneRoot
<1> SUFFICES ASSUME StoreIInv PROVE FilesTypeOK /\ OneRoot
  OBVIOUS
<1>1. /\ StoreFields /\ TabsInv /\ ReadsAre(treeReads, place)
      /\ ~movedEarly => ListingOfRoot
      /\ toDo \in 0..MaxDone /\ (switching => PickIsRead(treeReads, root))
  BY DEF StoreIInv, StoreInv, ReadsInv
<1>2. /\ treeReads \in Seq(Read) /\ openTabs \in Seq(Tab) /\ IdsDiffer(openTabs)
  BY <1>1 DEF ReadsAre, TabsInv
<1>3. \A t \in ToSet(openTabs) :
         t.id \in Ids /\ FileOf(t) \in File /\ t.pinned \in BOOLEAN
         /\ ToSet(t.back) \subseteq Paths
  <2> SUFFICES ASSUME NEW t \in ToSet(openTabs)
               PROVE  t.id \in Ids /\ FileOf(t) \in File /\ t.pinned \in BOOLEAN
                      /\ ToSet(t.back) \subseteq Paths
    OBVIOUS
  <2>1. t \in Tab /\ FileOf(t) \in File
    BY <1>1, FileTabsFit
  <2>2. t.back \in Seq(Paths) /\ t.id \in Ids /\ t.pinned \in BOOLEAN
    BY <2>1 DEF Tab
  <2> QED BY <2>1, <2>2, ElementsOf
<1>4. Cardinality(TabIds) = Len(openTabs)
  <2>1. TabIds = IdsIn(openTabs)
    BY DEF TabIds, IdsIn
  <2> QED BY <1>2, <2>1, CountedTabs
<1>5. /\ \A i \in 1..Len(treeReads) : treeReads[i] \in ToSet(treeReads)
      /\ \A r \in ToSet(treeReads) : \E i \in 1..Len(treeReads) : r = treeReads[i]
  BY <1>2, ElementsOf
<1>6. \A r \in ToSet(treeReads) :
         /\ r.fresh \in BOOLEAN /\ r.dir \in {"top", "sub"}
         /\ r.may \subseteq Roots /\ r.may # {}
  <2> SUFFICES ASSUME NEW i \in 1..Len(treeReads)
               PROVE  /\ treeReads[i].fresh \in BOOLEAN /\ treeReads[i].dir \in {"top", "sub"}
                      /\ treeReads[i].may \subseteq Roots /\ treeReads[i].may # {}
    BY <1>5
  <2>1. treeReads[i] \in Read /\ treeReads[i].may # {}
    BY <1>1 DEF ReadsAre, ReadIs
  <2> QED BY <2>1 DEF Read, Dirs
<1>7. SwitchEnds
  BY <1>1, <1>5 DEF SwitchEnds, PickIsRead, RootlessTop, Rootless, TopIsRead
<1>8. ~movedEarly => AskedTabs
  BY <1>1 DEF TabsInv, AskedRight
<1>9. FilesTypeOK
  BY <1>1, <1>3, <1>4, <1>6 DEF FilesTypeOK, StoreFields, TabsInv, Dirs
<1> QED BY <1>1, <1>7, <1>8, <1>9 DEF OneRoot

\* The invariant holds in every state.
THEOREM StoreInductive == FilesSpec => []StoreIInv
<1>1. FilesInit => StoreIInv
  BY FilesInitIInv
<1>2. StoreIInv /\ [FilesNext]_filesVars => StoreIInv'
  BY FilesNextIInv
<1> QED BY <1>1, <1>2, PTL DEF FilesSpec

\* The variables keep their types, and no two tabs have one id.
THEOREM FilesTypeCorrect == FilesSpec => []FilesTypeOK
  BY StoreInductive, StoreIsTyped, PTL

\* The view is of one root: directories listed under another, tabs of another
\* that are not asked about, and moves that are never told do not occur.
THEOREM ViewIsOfOneRoot == FilesSpec => []OneRoot
  BY StoreInductive, StoreIsTyped, PTL

\* No open, move of the root, late answer or tab closed to make room drops
\* unsaved changes.
THEOREM ChangesAreKept == FilesSpec => NothingDropped
<1>1. ASSUME NEW p, NEW q, Renamed(p, q), dirty \ dirty' # {}
      PROVE  TakesChanges(p, q)
  BY <1>1 DEF Renamed, TakesChanges
<1>2. StoreIInv /\ [FilesNext]_filesVars =>
         [dirty \ dirty' # {} =>
             \/ \E f \in File : Settle(f)
             \/ \E id \in Ids : Close(id)
             \/ ResolveRootClose(TRUE)
             \/ \E p, q \in Paths : TakesChanges(p, q)]_filesVars
  BY <1>1, FilesNextIInv DEF UserSays
<1> QED BY <1>2, StoreInductive, PTL DEF FilesSpec, NothingDropped

-----------------------------------------------------------------------------
(* The pick: the inductive invariant.                                      *)

\* A group has a current tab when it has tabs, and it is one of them.
Consistent(ts, c) ==
    \A g \in Groups : /\ In(g, ts) = {} <=> c[g] = None
                      /\ c[g] # None => c[g] \in ts /\ GroupOf[c[g]] = g

SnapRead == [fresh : BOOLEAN, old : BOOLEAN, taken : BOOLEAN, after : SUBSET Tabs,
             snap : Snap]

\* What the reads under way bring: a tab closed before a read was sent is not
\* in its snapshot, unless a later read was applied.  cl are the tabs closed
\* with the read that follows applied, st those on the server.
SnapsFit(q, cl, st) ==
    /\ q \in Seq(SnapRead) /\ Len(q) <= MaxReads
    /\ \A i \in 1..Len(q) :
          /\ Consistent(q[i].snap.tabs, q[i].snap.current)
          /\ q[i].after \cap st = {}
    /\ \A i \in 1..Len(q) : ~q[i].old =>
          /\ q[i].snap.tabs \cap cl = {}
          /\ \A j \in 1..i : q[i].snap.tabs \cap q[j].after = {}

\* A tab asked for was never closed here, and one closed is gone.
OpFits ==
    /\ op \in [kind : OpKinds, tabs : SUBSET Tabs, done : BOOLEAN]
    /\ op.kind \in {"add", "group"} =>
          /\ op.tabs # {} /\ op.tabs \cap closed = {}
          /\ \A i \in 1..Len(reads) : op.tabs \cap reads[i].after = {}
    /\ op.kind \in Closing /\ op.done => op.tabs \cap serverTabs = {}

ChoiceOK(x) ==
    /\ x \in Selection \cup {None}
    /\ x # None => x.group # None /\ x.tab \in {None} \cup In(x.group, Tabs)

\* The last choice is what this device picked, or of its group.
ChosenIsPicked ==
    want # None => /\ sel # None /\ sel.group = want.group
                   /\ want.tab # None => sel.tab = want.tab

ServerFits ==
    /\ serverTabs \subseteq Tabs
    /\ current \in [Groups -> Tabs \cup {None}]
    /\ lag \in [group : Groups \cup {None}, left : 0 .. MaxLag]
    /\ Consistent(serverTabs, current)

ShownFits ==
    /\ listed \subseteq Tabs /\ closed \subseteq Tabs
    /\ tabShown \in Tabs \cup {None}
    /\ ChoiceOK(sel) /\ ChoiceOK(want)
    /\ pendingGroup \in [group : Groups \cup {None}, left : 0 .. 3]
    /\ ChosenIsPicked

PickInv ==
    /\ mode \in {"tmux", "own"} /\ events \in 0 .. MaxEvents
    /\ ServerFits
    /\ SnapsFit(reads, closed, serverTabs)
    /\ picks \in Seq([tab : Tabs, done : BOOLEAN])
    /\ OpFits
    /\ ShownFits
    /\ closed \cap serverTabs = {}
    /\ ClosedStaysGone

-----------------------------------------------------------------------------
(* The pick: the reads.                                                    *)

(* The group and the choice of a tab are well formed, and none of them is
   None. *)
LEMMA GroupsAre ==
    /\ \A t \in Tabs : GroupOf[t] \in Groups /\ GroupOf[t] # None
    /\ \A g \in Groups : g # None
    /\ \A t \in Tabs : t # None /\ ChoiceOK(Chosen(t)) /\ Chosen(t) # None
                       /\ Chosen(t).tab = t /\ Chosen(t).group = GroupOf[t]
<1>1. /\ \A t \in Tabs : GroupOf[t] \in Groups /\ GroupOf[t] # None /\ t # None
      /\ \A g \in Groups : g # None
  BY PickAssumption
<1>2. ASSUME NEW t \in Tabs
      PROVE  /\ Chosen(t).tab = t /\ Chosen(t).group = GroupOf[t]
             /\ Chosen(t) \in Selection
  BY <1>1 DEF Chosen, Selection
<1>3. ASSUME NEW t \in Tabs PROVE Chosen(t) # None /\ ChoiceOK(Chosen(t))
  BY <1>1, <1>2, PickAssumption DEF ChoiceOK, In
<1> QED BY <1>1, <1>2, <1>3

\* The tab picked becomes its group's, and each group has one.
LEMMA CurrentAmongIs ==
    ASSUME NEW ts \in SUBSET Tabs, NEW t, CurrentAmong(ts, t)
    PROVE  current' \in [Groups -> Tabs \cup {None}] /\ Consistent(ts, current')
<1>1. PICK c \in [Groups -> ts \cup {None}] :
         /\ \A g \in Groups : /\ In(g, ts) = {} <=> c[g] = None
                              /\ c[g] # None => GroupOf[c[g]] = g
         /\ current' = c
  BY DEF CurrentAmong
<1>2. c \in [Groups -> Tabs \cup {None}]
  BY <1>1
<1> QED BY <1>1, <1>2 DEF Consistent

\* A new read brings nothing yet.
LEMMA NewReadFits ==
    ASSUME NEW A \in SUBSET Tabs
    PROVE  LET r == [NewRead EXCEPT !.after = A] IN
           /\ r \in SnapRead /\ r.after = A /\ r.snap.tabs = {}
           /\ Consistent(r.snap.tabs, r.snap.current)
           /\ NewRead \in SnapRead /\ NewRead.after = {} /\ NewRead.snap.tabs = {}
           /\ Consistent(NewRead.snap.tabs, NewRead.snap.current)
<1>1. NoSnap \in Snap /\ NoSnap.tabs = {} /\ \A g \in Groups : NoSnap.current[g] = None
  BY DEF NoSnap, Snap
<1>2. Consistent(NoSnap.tabs, NoSnap.current)
  BY <1>1 DEF Consistent, In
<1>3. /\ NewRead \in SnapRead /\ NewRead.snap = NoSnap /\ NewRead.after = {}
      /\ [NewRead EXCEPT !.after = A] \in SnapRead
      /\ [NewRead EXCEPT !.after = A].snap = NoSnap
      /\ [NewRead EXCEPT !.after = A].after = A
  BY <1>1 DEF NewRead, SnapRead
<1> QED BY <1>1, <1>2, <1>3

(* Reads marked old still fit the tabs closed and under way. *)
LEMMA StaleFits ==
    ASSUME NEW q, NEW cl, NEW st, SnapsFit(q, cl, st)
    PROVE  /\ SnapsFit(Stale(q), cl, st) /\ Len(Stale(q)) = Len(q)
           /\ \A i \in 1..Len(q) : Stale(q)[i].after = q[i].after
<1>1. q \in Seq(SnapRead) /\ Len(q) \in Nat /\ DOMAIN q = 1..Len(q)
      /\ \A i \in 1..Len(q) : q[i] \in SnapRead
  BY LenProperties, ElementOfSeq DEF SnapsFit
<1>2. \A r \in SnapRead : LET x == [r EXCEPT !.fresh = FALSE] IN
         /\ x \in SnapRead /\ x.old = r.old /\ x.after = r.after /\ x.snap = r.snap
  BY DEF SnapRead
<1> DEFINE s == Stale(q)
<1>3. s = [i \in 1..Len(q) |-> [q[i] EXCEPT !.fresh = FALSE]]
  BY <1>1 DEF Stale
<1> HIDE DEF s
<1>4. \A i \in 1..Len(q) : /\ s[i] \in SnapRead /\ s[i].old = q[i].old
                           /\ s[i].after = q[i].after /\ s[i].snap = q[i].snap
  BY <1>1, <1>2, <1>3
<1>5. s \in Seq(SnapRead) /\ Len(s) = Len(q)
  <2>1. s \in [1..Len(q) -> SnapRead]
    BY <1>3, <1>4
  <2>2. s \in Seq(SnapRead) /\ DOMAIN s = 1..Len(q)
    BY <1>1, <2>1, SeqDef
  <2> QED BY <1>1, <2>2, LenProperties
<1>6. \A i \in 1..Len(q) : \A j \in 1..i : j \in 1..Len(q)
  BY <1>1
<1> QED BY <1>4, <1>5, <1>6 DEF SnapsFit, s

\* With r sent after them the reads fit, and r is the last.
SentFit(q, r, cl, st) ==
    /\ SnapsFit(Append(q, r), cl, st)
    /\ Len(Append(q, r)) = Len(q) + 1 /\ Append(q, r)[Len(q) + 1] = r
    /\ \A i \in 1..Len(q) : Append(q, r)[i] = q[i]

\* A read is sent.
LEMMA SentFits ==
    ASSUME NEW q, NEW cl, NEW st, SnapsFit(q, cl, st), Len(q) < MaxReads,
           NEW r \in SnapRead, r.snap.tabs = {},
           Consistent(r.snap.tabs, r.snap.current), r.after \cap st = {}
    PROVE  SentFit(q, r, cl, st)
<1>1. q \in Seq(SnapRead) /\ Len(q) \in Nat /\ MaxReads \in Nat
  BY LenProperties, PickAssumption DEF SnapsFit
<1> DEFINE a == Append(q, r)
<1>2. /\ a \in Seq(SnapRead) /\ Len(a) = Len(q) + 1 /\ a[Len(q) + 1] = r
      /\ \A i \in 1..Len(q) : a[i] = q[i]
  BY <1>1, AppendProperties
<1> HIDE DEF a
<1>3. \A i \in 1..(Len(q) + 1) : i \in 1..Len(q) \/ i = Len(q) + 1
  BY <1>1
<1>4. \A i \in 1..Len(q) : \A j \in 1..i : j \in 1..Len(q)
  BY <1>1
<1>5. Len(a) <= MaxReads
  BY <1>1, <1>2
<1>6. \A i \in 1..Len(a) :
         Consistent(a[i].snap.tabs, a[i].snap.current) /\ a[i].after \cap st = {}
  BY <1>2, <1>3 DEF SnapsFit
<1>7. \A i \in 1..Len(a) : ~a[i].old =>
         /\ a[i].snap.tabs \cap cl = {}
         /\ \A j \in 1..i : a[i].snap.tabs \cap a[j].after = {}
  BY <1>2, <1>3, <1>4 DEF SnapsFit
<1>8. SnapsFit(a, cl, st)
  BY <1>2, <1>5, <1>6, <1>7 DEF SnapsFit
<1> QED BY <1>2, <1>8 DEF SentFit, a

\* Without read i of q the reads fit, and none is new.
RemovedFit(q, i, cl, st) ==
    /\ SnapsFit(RemoveAt(q, i), cl, st)
    /\ \A k \in 1..Len(RemoveAt(q, i)) :
          \E j \in 1..Len(q) : RemoveAt(q, i)[k].after = q[j].after

\* A read is gone.
LEMMA RemovedFits ==
    ASSUME NEW q, NEW cl, NEW st, SnapsFit(q, cl, st), NEW i \in 1..Len(q)
    PROVE  RemovedFit(q, i, cl, st)
<1>1. q \in Seq(SnapRead) /\ Len(q) \in Nat /\ MaxReads \in Nat
  BY LenProperties, PickAssumption DEF SnapsFit
<1> DEFINE r == RemoveAt(q, i)
           up(k) == IF k < i THEN k ELSE k + 1
<1>2. /\ r \in Seq(SnapRead) /\ Len(r) = Len(q) - 1
      /\ \A k \in 1..(Len(q) - 1) : r[k] = IF k < i THEN q[k] ELSE q[k + 1]
  BY <1>1, RemoveAtMoves
<1> HIDE DEF r
<1>3. \A k \in 1..Len(r) : up(k) \in 1..Len(q) /\ r[k] = q[up(k)]
  BY <1>1, <1>2
<1>4. \A k \in 1..Len(r) : \A j \in 1..k : j \in 1..Len(r) /\ up(j) \in 1..up(k)
  BY <1>1, <1>2
<1>5. Len(r) <= MaxReads
  BY <1>1, <1>2 DEF SnapsFit
<1> HIDE DEF up
<1>6. \A k \in 1..Len(r) :
         Consistent(r[k].snap.tabs, r[k].snap.current) /\ r[k].after \cap st = {}
  BY <1>3 DEF SnapsFit
<1>7. \A k \in 1..Len(r) : ~r[k].old =>
         /\ r[k].snap.tabs \cap cl = {}
         /\ \A j \in 1..k : r[k].snap.tabs \cap r[j].after = {}
  BY <1>3, <1>4 DEF SnapsFit
<1>8. \A k \in 1..Len(r) : \E j \in 1..Len(q) : r[k].after = q[j].after
  BY <1>3
<1>9. SnapsFit(r, cl, st)
  BY <1>2, <1>5, <1>6, <1>7 DEF SnapsFit
<1> QED BY <1>8, <1>9 DEF RemovedFit, r

\* The reads left when read i of q is applied.
Applied(q, i) == [j \in 1 .. Len(q) - 1 |->
                    IF j < i THEN [q[j] EXCEPT !.old = TRUE] ELSE q[j + 1]]

\* They fit, even with what was closed since its read was sent.
AppliedFit(q, i, cl, st) ==
    LET r == Applied(q, i) IN
    /\ SnapsFit(r, cl, st) /\ SnapsFit(r, cl \cup q[i].after, st)
    /\ \A k \in 1..Len(r) : \E j \in 1..Len(q) : r[k].after = q[j].after

\* What was closed before a read was sent is known to the later ones: the ones
\* before it are old once it is applied, and its snapshot has none of it.
LEMMA AppliedFits ==
    ASSUME NEW q, NEW cl, NEW st, SnapsFit(q, cl, st), NEW i \in 1..Len(q)
    PROVE  AppliedFit(q, i, cl, st)
<1>1. q \in Seq(SnapRead) /\ Len(q) \in Nat /\ MaxReads \in Nat /\ Len(q) <= MaxReads
      /\ \A j \in 1..Len(q) : q[j] \in SnapRead
  BY LenProperties, ElementOfSeq, PickAssumption DEF SnapsFit
<1> DEFINE r == Applied(q, i)
           n == Len(q) - 1
           up(k) == IF k < i THEN k ELSE k + 1
<1>2. \A x \in SnapRead : LET y == [x EXCEPT !.old = TRUE] IN
         y \in SnapRead /\ y.old /\ y.after = x.after /\ y.snap = x.snap
  BY DEF SnapRead
<1>3. n \in Nat /\ n <= MaxReads
      /\ \A k \in 1..n : up(k) \in 1..Len(q)
                         /\ \A j \in 1..k : j \in 1..n /\ up(j) \in 1..up(k)
  BY <1>1
<1>4. \A k \in 1..n : /\ k < i => r[k] = [q[k] EXCEPT !.old = TRUE]
                      /\ ~(k < i) => r[k] = q[k + 1]
  BY DEF Applied
<1>5. \A k \in 1..n : /\ r[k] \in SnapRead /\ r[k].snap = q[up(k)].snap
                      /\ r[k].after = q[up(k)].after
                      /\ ~r[k].old => ~q[up(k)].old /\ i \in 1..up(k)
  <2> SUFFICES ASSUME NEW k \in 1..n
               PROVE  /\ r[k] \in SnapRead /\ r[k].snap = q[up(k)].snap
                      /\ r[k].after = q[up(k)].after
                      /\ ~r[k].old => ~q[up(k)].old /\ i \in 1..up(k)
    OBVIOUS
  <2> HIDE DEF r
  <2>1. CASE k < i
    <3>1. q[k] \in SnapRead
      BY <1>1, <1>3
    <3> QED BY <1>2, <1>4, <2>1, <3>1
  <2>2. CASE ~(k < i)
    <3>1. k + 1 \in 1..Len(q) /\ up(k) = k + 1 /\ i \in 1..(k + 1)
      BY <1>1, <2>2
    <3>2. r[k] = q[k + 1]
      BY <1>4, <2>2
    <3> HIDE DEF up
    <3> QED BY <1>1, <3>1, <3>2
  <2> QED BY <2>1, <2>2
<1>6. r \in Seq(SnapRead) /\ Len(r) = n
  <2>1. r \in [1..n -> SnapRead]
    <3>1. r = [j \in 1..n |-> r[j]]
      BY DEF Applied
    <3> HIDE DEF r, n, up
    <3> QED BY <1>5, <3>1
  <2> HIDE DEF r
  <2>2. r \in Seq(SnapRead) /\ DOMAIN r = 1..n
    BY <1>3, <2>1, SeqDef
  <2> QED BY <1>3, <2>2, LenProperties
<1> HIDE DEF r, up, n
<1>7. \A k \in 1..n : Consistent(r[k].snap.tabs, r[k].snap.current) /\ r[k].after \cap st = {}
  BY <1>3, <1>5 DEF SnapsFit
<1>8. \A k \in 1..n : ~r[k].old =>
         /\ r[k].snap.tabs \cap cl = {} /\ r[k].snap.tabs \cap q[i].after = {}
         /\ \A j \in 1..k : r[k].snap.tabs \cap r[j].after = {}
  BY <1>3, <1>5 DEF SnapsFit
<1>9. \A k \in 1..n : ~r[k].old => r[k].snap.tabs \cap (cl \cup q[i].after) = {}
  BY <1>8
<1>10. \A k \in 1..n : \E j \in 1..Len(q) : r[k].after = q[j].after
  BY <1>3, <1>5
<1>11. SnapsFit(r, cl, st) /\ SnapsFit(r, cl \cup q[i].after, st)
  BY <1>3, <1>6, <1>7, <1>8, <1>9 DEF SnapsFit
<1> QED BY <1>6, <1>10, <1>11 DEF r, AppliedFit

\* A snapshot taken now has no tab that was closed.
LEMMA TakenFits ==
    ASSUME NEW q, NEW cl, NEW st, SnapsFit(q, cl, st), cl \cap st = {},
           NEW i \in 1..Len(q), NEW s \in Snap, s.tabs \subseteq st,
           Consistent(s.tabs, s.current),
           NEW r \in Seq(SnapRead), Len(r) = Len(q),
           r[i].after = q[i].after, r[i].old = q[i].old, r[i].snap = s,
           \A k \in 1..Len(q) : k # i => r[k] = q[k]
    PROVE  /\ SnapsFit(r, cl, st)
           /\ \A k \in 1..Len(q) : r[k].after = q[k].after
<1>1. q \in Seq(SnapRead) /\ Len(q) \in Nat /\ DOMAIN q = 1..Len(q)
      /\ \A j \in 1..Len(q) : q[j] \in SnapRead
  BY LenProperties, ElementOfSeq DEF SnapsFit
<1>5. \A k \in 1..Len(q) : /\ r[k].after = q[k].after /\ r[k].old = q[k].old
                           /\ k = i => r[k].snap = s
                           /\ k # i => r[k].snap = q[k].snap
  OBVIOUS
<1>6. \A k \in 1..Len(q) : \A j \in 1..k : j \in 1..Len(q)
  BY <1>1
<1>7. \A k \in 1..Len(q) :
         Consistent(r[k].snap.tabs, r[k].snap.current) /\ r[k].after \cap st = {}
  BY <1>5 DEF SnapsFit
<1>8. \A k \in 1..Len(q) : q[k].after \cap s.tabs = {}
  BY DEF SnapsFit
<1>9. s.tabs \cap cl = {}
  OBVIOUS
<1>10. ASSUME NEW k \in 1..Len(q), ~r[k].old
       PROVE  /\ r[k].snap.tabs \cap cl = {}
              /\ \A j \in 1..k : r[k].snap.tabs \cap r[j].after = {}
  <2>1. CASE k = i
    BY <1>5, <1>6, <1>8, <1>9, <2>1
  <2>2. CASE k # i
    BY <1>5, <1>6, <1>10, <2>2 DEF SnapsFit
  <2> QED BY <2>1, <2>2
<1> QED BY <1>5, <1>7, <1>10 DEF SnapsFit

-----------------------------------------------------------------------------
(* The pick: the tab a snapshot shows.                                     *)

\* The first group listed that has a tab.
LEMMA FallbackIs ==
    ASSUME NEW s \in Snap, Consistent(s.tabs, s.current)
    PROVE  Fallback(s) \in Tabs \cup {None}
<1>1. /\ s.tabs \subseteq Tabs /\ s.current \in [Groups -> Tabs \cup {None}]
      /\ Len(GroupSeq) \in Nat /\ DOMAIN GroupSeq = 1..Len(GroupSeq)
  BY PickAssumption, LenProperties DEF Snap
<1>2. CASE s.tabs = {}
  BY <1>2 DEF Fallback
<1>3. CASE s.tabs # {}
  <2>1. PICK t \in s.tabs : t \in Tabs
    BY <1>1, <1>3
  <2>2. GroupOf[t] \in Groups /\ s.current[GroupOf[t]] # None
    BY <2>1, GroupsAre DEF Consistent, In
  <2> DEFINE D == {i \in 1..Len(GroupSeq) : s.current[GroupSeq[i]] # None}
  <2>3. PICK i \in 1..Len(GroupSeq) : GroupSeq[i] = GroupOf[t]
    BY <1>1, <2>2 DEF Groups, ToSet
  <2>4. D \subseteq Nat /\ D # {}
    BY <1>1, <2>2, <2>3
  <2>5. PICK m \in D : \A k \in D : m <= k
    <3> HIDE DEF D
    <3> QED BY <2>4, LeastOf
  <2>6. GroupSeq[m] \in Groups
    BY <1>1, <2>5 DEF Groups, ToSet
  <2>7. \A k, j \in DOMAIN GroupSeq :
           GroupSeq[k] = GroupSeq[m] /\ j < k => s.current[GroupSeq[j]] = None
    <3> SUFFICES ASSUME NEW k \in DOMAIN GroupSeq, NEW j \in DOMAIN GroupSeq,
                        GroupSeq[k] = GroupSeq[m], j < k,
                        s.current[GroupSeq[j]] # None
                 PROVE  FALSE
      OBVIOUS
    <3>1. k = m
      BY <1>1, <2>5, PickAssumption
    <3>2. j \in D
      BY <1>1
    <3> QED BY <1>1, <2>5, <3>1, <3>2
  <2> DEFINE P(g) == /\ s.current[g] # None
                     /\ \A k, j \in DOMAIN GroupSeq :
                          GroupSeq[k] = g /\ j < k => s.current[GroupSeq[j]] = None
             G == CHOOSE g \in Groups : P(g)
  <2>8. P(GroupSeq[m])
    BY <2>5, <2>7
  <2>9. Fallback(s) = s.current[G]
    BY <1>3 DEF Fallback
  <2> HIDE DEF P
  <2>10. G \in Groups
    BY <2>6, <2>8
  <2> HIDE DEF G
  <2> QED BY <1>1, <2>9, <2>10
<1> QED BY <1>2, <1>3

\* The tab of the group picked, while it has one, and this device's own while
\* it is there.
LEMMA PickIs ==
    ASSUME ChoiceOK(sel), NEW s \in Snap, Consistent(s.tabs, s.current)
    PROVE  /\ Pick(s) \in Tabs \cup {None}
           /\ sel # None /\ In(sel.group, s.tabs) # {} =>
                 Pick(s) \in Tabs /\ GroupOf[Pick(s)] = sel.group
           /\ mode = "own" /\ sel # None /\ sel.tab \in s.tabs => Pick(s) = sel.tab
<1>1. s.tabs \subseteq Tabs /\ s.current \in [Groups -> Tabs \cup {None}]
  BY DEF Snap
<1>2. Fallback(s) \in Tabs \cup {None}
  BY FallbackIs
<1>3. sel # None => /\ sel.group \in Groups /\ SelGroup = sel.group /\ sel.group # None
                    /\ sel.tab \in {None} \cup In(sel.group, Tabs)
  BY DEF ChoiceOK, Selection, SelGroup
<1>4. sel = None => SelGroup = None
  BY DEF SelGroup
<1>5. \A g \in Groups : /\ In(g, s.tabs) # {} => s.current[g] # None
                        /\ s.current[g] # None => s.current[g] \in Tabs /\ GroupOf[s.current[g]] = g
  BY <1>1 DEF Consistent
<1>6. \A g : \A t \in In(g, s.tabs) : t \in Tabs /\ GroupOf[t] = g
  BY <1>1 DEF In
<1>7. \A t \in Tabs : t # None
  BY GroupsAre
<1>8. CASE mode # "own"
  <2>1. Pick(s) = IF SelGroup # None /\ s.current[SelGroup] # None
                    THEN s.current[SelGroup] ELSE Fallback(s)
    BY <1>8 DEF Pick
  <2> QED BY <1>2, <1>3, <1>4, <1>5, <1>8, <2>1
<1>9. CASE mode = "own"
  <2> DEFINE other == CHOOSE t \in In(SelGroup, s.tabs) : TRUE
  <2>1. CASE sel # None /\ sel.tab \in s.tabs
    <3>1. Pick(s) = sel.tab
      BY <1>9, <2>1 DEF Pick
    <3>2. sel.tab \in Tabs /\ GroupOf[sel.tab] = sel.group
      BY <1>1, <1>3, <1>7, <2>1 DEF In
    <3> QED BY <3>1, <3>2
  <2>2. CASE ~(sel # None /\ sel.tab \in s.tabs) /\ SelGroup # None /\ In(SelGroup, s.tabs) # {}
    <3>1. Pick(s) = other
      BY <1>9, <2>2 DEF Pick
    <3>2. other \in In(SelGroup, s.tabs)
      BY <2>2
    <3> HIDE DEF other
    <3> QED BY <1>3, <1>4, <1>6, <2>2, <3>1, <3>2
  <2>3. CASE ~(sel # None /\ sel.tab \in s.tabs) /\ ~(SelGroup # None /\ In(SelGroup, s.tabs) # {})
    <3>1. Pick(s) = Fallback(s)
      BY <1>9, <2>3 DEF Pick
    <3> QED BY <1>2, <1>3, <2>3, <3>1
  <2> QED BY <2>1, <2>2, <2>3
<1> QED BY <1>8, <1>9

\* A snapshot shows the tab picked while it lists it, and forgets the user's
\* choice only when it lacks it.
LEMMA ShownBySnapshot ==
    ASSUME ShownFits, NEW s \in Snap, Consistent(s.tabs, s.current),
           NEW fresh \in BOOLEAN, NEW newer \in SUBSET Tabs,
           listed' = s.tabs, closed' = closed \cup newer,
           want' = Remembered(s, ~fresh \/ Waiting(s)),
           IF fresh THEN ShowPicked(s) ELSE UNCHANGED <<tabShown, sel, pendingGroup>>
    PROVE  ShownFits' /\ KeepsPick
<1>1. s.tabs \subseteq Tabs
  BY DEF Snap
<1>2. want' = want \/ want' = None
  BY DEF Remembered
<1>3. ChoiceOK(sel) /\ ChoiceOK(want) /\ ChosenIsPicked
      /\ pendingGroup \in [group : Groups \cup {None}, left : 0 .. 3]
      /\ tabShown \in Tabs \cup {None}
  BY DEF ShownFits
<1>4. ChoiceOK(None)
  BY DEF ChoiceOK
<1>5. CASE UNCHANGED <<tabShown, sel>>
  <2>1. pendingGroup' \in [group : Groups \cup {None}, left : 0 .. 3]
    <3>1. CASE pendingGroup' = pendingGroup
      BY <1>3, <3>1
    <3>2. CASE pendingGroup' = [group |-> None, left |-> 0]
      BY <3>2
    <3>3. CASE fresh /\ Waiting(s) /\ pendingGroup' = [pendingGroup EXCEPT !.left = @ - 1]
      <4>1. pendingGroup.left > 1 /\ pendingGroup.left \in 0..3
        BY <1>3, <3>3 DEF Waiting
      <4>2. pendingGroup.left - 1 \in 0..3
        BY <4>1
      <4> QED BY <1>3, <3>3, <4>2
    <3> QED BY <3>1, <3>2, <3>3 DEF ShowPicked
  <2>2. ChosenIsPicked'
    BY <1>2, <1>3, <1>5 DEF ChosenIsPicked
  <2>3. ShownFits'
    BY <1>1, <1>2, <1>3, <1>4, <1>5, <2>1, <2>2 DEF ShownFits, ChoiceOK
  <2> QED BY <1>5, <2>3 DEF KeepsPick
<1>6. CASE fresh /\ ~Waiting(s)
  <2>1. /\ pendingGroup' = [group |-> None, left |-> 0]
        /\ tabShown' = Pick(s)
        /\ sel' = IF Pick(s) = None \/ (mode # "own" /\ GroupOf[Pick(s)] = SelGroup)
                    THEN sel ELSE Chosen(Pick(s))
    BY <1>6 DEF ShowPicked
  <2>2. /\ Pick(s) \in Tabs \cup {None}
        /\ sel # None /\ In(sel.group, s.tabs) # {} =>
              Pick(s) \in Tabs /\ GroupOf[Pick(s)] = sel.group
        /\ mode = "own" /\ sel # None /\ sel.tab \in s.tabs => Pick(s) = sel.tab
    BY <1>3, PickIs
  <2> DEFINE t == Pick(s)
  <2>3. ChoiceOK(sel')
    <3> HIDE DEF t
    <3>1. CASE sel' = sel
      BY <1>3, <3>1
    <3>2. CASE t # None /\ sel' = Chosen(t)
      BY <2>2, <3>2, GroupsAre DEF t
    <3> QED BY <2>1, <3>1, <3>2 DEF t
  <2>4. sel # None => SelGroup = sel.group
    BY DEF SelGroup
  <2>5. ASSUME want' # None
        PROVE  /\ want' = want /\ sel # None /\ sel.group = want.group
               /\ want.tab # None => want.tab \in s.tabs
               /\ In(sel.group, s.tabs) # {}
    <3>1. want' = want /\ want # None
          /\ \/ want.tab = None /\ In(want.group, s.tabs) # {}
             \/ want.tab \in s.tabs
      BY <1>6, <2>5 DEF Remembered
    <3>2. sel # None /\ sel.group = want.group
      BY <1>3, <3>1 DEF ChosenIsPicked
    <3>3. CASE want.tab \in s.tabs
      <4>1. want.tab \in In(want.group, s.tabs)
        BY <1>1, <1>3, <3>1, <3>3, GroupsAre DEF ChoiceOK, In
      <4> QED BY <3>1, <3>2, <3>3, <4>1
    <3> QED BY <3>1, <3>2, <3>3
  <2>6. ChosenIsPicked'
    <3> SUFFICES ASSUME want' # None
                 PROVE  /\ sel' # None /\ sel'.group = want'.group
                        /\ want'.tab # None => sel'.tab = want'.tab
      BY DEF ChosenIsPicked
    <3>1. /\ want' = want /\ sel # None /\ sel.group = want.group
          /\ want.tab # None => want.tab \in s.tabs
          /\ In(sel.group, s.tabs) # {}
      BY <2>5
    <3>2. want.tab # None => sel.tab = want.tab
      BY <1>3, <3>1 DEF ChosenIsPicked
    <3>3. t \in Tabs /\ GroupOf[t] = sel.group
      BY <2>2, <3>1
    <3>4. CASE sel' = sel
      BY <3>1, <3>2, <3>4
    <3>5. CASE mode = "own" /\ sel' = Chosen(t)
      <4>1. want.tab # None => t = want.tab
        BY <2>2, <3>1, <3>2, <3>5
      <4> HIDE DEF t
      <4> QED BY <3>1, <3>3, <3>5, <4>1, GroupsAre
    <3>6. t # None
      BY <3>3, GroupsAre
    <3> QED BY <2>1, <2>4, <3>1, <3>3, <3>4, <3>5, <3>6
  <2>7. ShownFits'
    <3>1. ChoiceOK(want)' /\ ChoiceOK(sel)'
      BY <1>2, <1>3, <1>4, <2>3 DEF ChoiceOK
    <3>2. pendingGroup' \in [group : Groups \cup {None}, left : 0 .. 3]
      BY <2>1
    <3>3. listed' \subseteq Tabs /\ closed' \subseteq Tabs /\ tabShown' \in Tabs \cup {None}
      BY <1>1, <2>1, <2>2 DEF ShownFits
    <3> QED BY <2>6, <3>1, <3>2, <3>3 DEF ShownFits
  <2>8. KeepsPick
    <3> SUFFICES ASSUME want # None, want.tab # None, want' = want, want.tab \in s.tabs
                 PROVE  IF mode = "own" THEN tabShown' = want.tab
                        ELSE GroupOf[tabShown'] = want.group
      BY DEF KeepsPick
    <3>1. /\ sel # None /\ sel.group = want.group /\ sel.tab = want.tab
          /\ In(sel.group, s.tabs) # {}
      BY <1>3, <2>5 DEF ChosenIsPicked
    <3> QED BY <2>1, <2>2, <3>1
  <2> QED BY <2>7, <2>8
<1>7. CASE fresh /\ Waiting(s)
  BY <1>5, <1>7 DEF ShowPicked
<1> QED BY <1>5, <1>6, <1>7

-----------------------------------------------------------------------------
(* The pick: one lemma for every action.                                   *)

PicksTyped == picks \in Seq([tab : Tabs, done : BOOLEAN])

\* A step that shows nothing else keeps what the page shows.
LEMMA ViewStays ==
    ASSUME PickInv, UNCHANGED viewVars, mode' = mode, events' \in 0 .. MaxEvents,
           ServerFits', closed \cap serverTabs' = {},
           SnapsFit(reads', closed, serverTabs'), PicksTyped', OpFits'
    PROVE  PickInv' /\ KeepsPick
<1>1. ShownFits' /\ ClosedStaysGone'
  BY DEF PickInv, ShownFits, ChoiceOK, ChosenIsPicked, ClosedStaysGone, viewVars
<1>2. KeepsPick
  BY DEF KeepsPick, viewVars
<1>3. SnapsFit(reads, closed, serverTabs)' /\ (closed \cap serverTabs = {})'
  BY DEF viewVars
<1> QED BY <1>1, <1>2, <1>3 DEF PickInv, PicksTyped

\* The reads under way fit when nothing that was closed is on the server.
LEMMA ServerMoves ==
    ASSUME NEW q, NEW cl, NEW st, SnapsFit(q, cl, st), NEW ts,
           \A i \in 1..Len(q) : q[i].after \cap ts = {}
    PROVE  SnapsFit(q, cl, ts)
BY DEF SnapsFit

\* Another tab of the reads under way, or of this page, is not the operation's.
LEMMA OpStays ==
    ASSUME OpFits, UNCHANGED <<op, closed, serverTabs>>,
           \A k \in 1..Len(reads') : \E j \in 1..Len(reads) : reads'[k].after = reads[j].after
    PROVE  OpFits'
BY DEF OpFits

(* A tab that is not named was not closed, is no part of the operation
   under way, and no read was asked after it closed. *)
LEMMA NamedIs ==
    ASSUME PickInv, NEW t, t \notin Named
    PROVE  /\ t \notin closed /\ t \notin op.tabs
           /\ \A i \in 1..Len(reads) : t \notin reads[i].after
<1>1. DOMAIN reads = 1..Len(reads)
  BY LenProperties DEF PickInv, SnapsFit
<1> QED BY <1>1 DEF Named

(* Another client of the server choosing, adding or closing a tab keeps
   both. *)
LEMMA OtherClientKeeps ==
    ASSUME PickInv, OtherClient
    PROVE  PickInv' /\ KeepsPick
<1>1. PICK t \in Tabs :
         \/ t \in serverTabs /\ serverTabs' = serverTabs /\ CurrentAmong(serverTabs, t)
         \/ t \notin serverTabs \cup Named
            /\ serverTabs' = serverTabs \cup {t} /\ CurrentAmong(serverTabs', t)
         \/ /\ t \in serverTabs /\ Cardinality(serverTabs) > 1
            /\ serverTabs' = serverTabs \ {t}
            /\ \E u \in serverTabs' : CurrentAmong(serverTabs', u)
  BY DEF OtherClient
<1>2. serverTabs \subseteq Tabs /\ lag \in [group : Groups \cup {None}, left : 0 .. MaxLag]
      /\ OpFits /\ events \in 0..MaxEvents /\ closed \cap serverTabs = {}
      /\ SnapsFit(reads, closed, serverTabs) /\ PicksTyped
  BY DEF PickInv, ServerFits, PicksTyped
<1>3. events' \in 0..MaxEvents
  BY <1>2, PickAssumption DEF OtherClient, Event
<1>4. serverTabs' \subseteq Tabs /\ \E u : CurrentAmong(serverTabs', u)
  BY <1>1, <1>2
<1>5. ServerFits'
  <2>1. current' \in [Groups -> Tabs \cup {None}] /\ Consistent(serverTabs', current')
    BY <1>4, CurrentAmongIs
  <2> QED BY <1>2, <1>4, <2>1 DEF ServerFits, OtherClient, Consistent, In
<1>6. serverTabs' \subseteq serverTabs \cup {t} /\ (t \in serverTabs \/ t \notin Named \/ t \notin serverTabs')
  BY <1>1
<1>7. /\ closed \cap serverTabs' = {}
      /\ op.tabs \cap serverTabs = {} => op.tabs \cap serverTabs' = {}
      /\ \A i \in 1..Len(reads) : reads[i].after \cap serverTabs' = {}
  <2>1. \A i \in 1..Len(reads) : reads[i].after \cap serverTabs = {}
    BY <1>2 DEF SnapsFit
  <2>2. CASE t \notin serverTabs'
    BY <1>2, <1>6, <2>1, <2>2
  <2>3. CASE t \in serverTabs
    BY <1>2, <1>6, <2>1, <2>3
  <2>4. CASE t \notin Named
    BY <1>2, <1>6, <2>1, <2>4, NamedIs
  <2> QED BY <1>6, <2>2, <2>3, <2>4
<1>8. SnapsFit(reads', closed, serverTabs')
  <2>1. SnapsFit(reads, closed, serverTabs')
    BY <1>2, <1>7, ServerMoves
  <2> QED BY <2>1 DEF OtherClient
<1>9. OpFits'
  BY <1>2, <1>7 DEF OpFits, OtherClient, viewVars
<1>10. UNCHANGED viewVars /\ mode' = mode /\ PicksTyped'
  BY <1>2 DEF OtherClient, PicksTyped
<1> QED BY <1>3, <1>5, <1>7, <1>8, <1>9, <1>10, ViewStays

\* What holds of the reads, the picks and the server, for the lemmas below.
LEMMA PickParts ==
    ASSUME PickInv
    PROVE  /\ ServerFits /\ OpFits /\ ShownFits /\ PicksTyped
           /\ SnapsFit(reads, closed, serverTabs) /\ closed \cap serverTabs = {}
           /\ mode \in {"tmux", "own"} /\ events \in 0..MaxEvents
           /\ DOMAIN reads = 1..Len(reads) /\ Len(reads) \in Nat
           /\ DOMAIN picks = 1..Len(picks) /\ ClosedStaysGone
BY LenProperties DEF PickInv, PicksTyped, SnapsFit

\* What a read brings when it is sent: nothing.
LEMMA SentIs ==
    /\ NewRead \in SnapRead /\ NewRead.after = {} /\ NewRead.snap.tabs = {}
    /\ Consistent(NewRead.snap.tabs, NewRead.snap.current)
<1>1. {} \in SUBSET Tabs
  OBVIOUS
<1> QED BY <1>1, NewReadFits

(* The bounds are numbers, and a read is allowed. *)
LEMMA BoundsAre ==
    /\ MaxLag \in Nat /\ MaxEvents \in Nat /\ MaxReads \in Nat /\ MaxReads > 0
    /\ 0 \in 0..MaxLag
<1>1. MaxLag \in Nat /\ MaxEvents \in Nat /\ MaxReads \in Nat /\ MaxReads > 0
  BY PickAssumption
<1> QED BY <1>1

(* A step that leaves the server alone keeps what is known of it. *)
LEMMA ServerStays ==
    ASSUME ServerFits, UNCHANGED <<serverTabs, current, lag>> PROVE ServerFits'
BY DEF ServerFits, Consistent, In

(* The server answering a read with what it has then keeps the invariant,
   and the pick. *)
LEMMA TakeKeeps ==
    ASSUME PickInv, NEW i, Take(i)
    PROVE  PickInv' /\ KeepsPick
<1>0. /\ ServerFits /\ OpFits /\ PicksTyped
      /\ SnapsFit(reads, closed, serverTabs) /\ closed \cap serverTabs = {}
      /\ DOMAIN reads = 1..Len(reads) /\ events \in 0..MaxEvents
  BY PickParts
<1>1. i \in 1..Len(reads) /\ serverTabs' = serverTabs /\ current' = current
  BY <1>0 DEF Take
<1> DEFINE late == IF lag.left > 0 THEN In(lag.group, serverTabs) ELSE {}
           s == [tabs |-> serverTabs \ late,
                 current |-> [g \in Groups |->
                                IF current[g] \in late THEN None ELSE current[g]]]
<1>2. reads' = [reads EXCEPT ![i].taken = TRUE, ![i].snap = s]
  BY DEF Take
<1>3. serverTabs \subseteq Tabs /\ current \in [Groups -> Tabs \cup {None}]
      /\ Consistent(serverTabs, current)
      /\ lag \in [group : Groups \cup {None}, left : 0 .. MaxLag]
  BY <1>0 DEF ServerFits
<1>4. s \in Snap /\ s.tabs \subseteq serverTabs
  BY <1>3 DEF Snap
<1>5. Consistent(s.tabs, s.current)
  <2>1. CASE lag.left > 0
    <3>1. late = In(lag.group, serverTabs)
      BY <2>1
    <3> SUFFICES ASSUME NEW g \in Groups
                 PROVE  /\ In(g, s.tabs) = {} <=> s.current[g] = None
                        /\ s.current[g] # None =>
                              s.current[g] \in s.tabs /\ GroupOf[s.current[g]] = g
      BY DEF Consistent
    <3>2. /\ In(g, serverTabs) = {} <=> current[g] = None
          /\ current[g] # None => current[g] \in serverTabs /\ GroupOf[current[g]] = g
          /\ \A t \in Tabs : t # None
      BY <1>3, GroupsAre DEF Consistent
    <3>3. s.tabs = serverTabs \ late
          /\ s.current[g] = IF current[g] \in late THEN None ELSE current[g]
      OBVIOUS
    <3> HIDE DEF s, late
    <3>4. CASE g = lag.group
      <4>1. In(g, s.tabs) = {}
        BY <3>1, <3>3, <3>4 DEF In
      <4>2. s.current[g] = None
        BY <3>1, <3>2, <3>3, <3>4 DEF In
      <4> QED BY <4>1, <4>2
    <3>5. CASE g # lag.group
      <4>1. In(g, s.tabs) = In(g, serverTabs)
        BY <3>1, <3>3, <3>5 DEF In
      <4>2. s.current[g] = current[g]
        BY <1>3, <3>1, <3>2, <3>3, <3>5 DEF In
      <4>3. current[g] # None => current[g] \in s.tabs
        BY <3>1, <3>2, <3>3, <3>5 DEF In
      <4> QED BY <3>2, <4>1, <4>2, <4>3
    <3> QED BY <3>4, <3>5
  <2>2. CASE ~(lag.left > 0)
    <3>1. late = {}
      BY <2>2
    <3>2. s.tabs = serverTabs /\ \A g \in Groups : s.current[g] = current[g]
      BY <3>1
    <3> HIDE DEF s
    <3> QED BY <1>3, <3>2 DEF Consistent
  <2> QED BY <2>1, <2>2
<1> HIDE DEF s, late
<1>6. /\ SnapsFit(reads', closed, serverTabs) /\ Len(reads') = Len(reads)
      /\ \A k \in 1..Len(reads) : reads'[k].after = reads[k].after
  <2>1. reads' = [reads EXCEPT ![i] = [reads[i] EXCEPT !.taken = TRUE, !.snap = s]]
    BY <1>0, <1>1, <1>2
  <2>2. \A x \in SnapRead : LET y == [x EXCEPT !.taken = TRUE, !.snap = s] IN
           y \in SnapRead /\ y.old = x.old /\ y.after = x.after /\ y.snap = s
    BY <1>4 DEF SnapRead
  <2>3. reads[i] \in SnapRead
    BY <1>0, <1>1, ElementOfSeq DEF SnapsFit
  <2> DEFINE y == [reads[i] EXCEPT !.taken = TRUE, !.snap = s]
  <2>4. y \in SnapRead /\ y.old = reads[i].old /\ y.after = reads[i].after /\ y.snap = s
    BY <2>2, <2>3, Zenon
  <2> HIDE DEF y, s
  <2>5. reads' = [reads EXCEPT ![i] = y]
    BY <2>1 DEF y
  <2>6. reads \in Seq(SnapRead) /\ reads' = [reads EXCEPT ![i] = y]
    BY <1>0, <2>5 DEF SnapsFit
  <2>7. /\ reads' \in Seq(SnapRead) /\ Len(reads') = Len(reads) /\ reads'[i] = y
        /\ \A k \in 1..Len(reads) : k # i => reads'[k] = reads[k]
    <3>1. /\ [reads EXCEPT ![i] = y] \in Seq(SnapRead)
          /\ Len([reads EXCEPT ![i] = y]) = Len(reads)
          /\ \A k \in 1..Len(reads) :
               [reads EXCEPT ![i] = y][k] = IF k = i THEN y ELSE reads[k]
      BY <1>1, <2>4, <2>6, ExceptSeq
    <3> QED BY <1>1, <2>6, <3>1
  <2> QED BY <1>0, <1>1, <1>4, <1>5, <2>4, <2>7, TakenFits
<1>7. OpFits'
  BY <1>0, <1>6 DEF OpFits, Take, viewVars
<1>8. ServerFits'
  <2>1. lag' \in [group : Groups \cup {None}, left : 0 .. MaxLag]
    <3>1. CASE lag.left > 1
      <4>1. lag' = [lag EXCEPT !.left = @ - 1]
        BY <3>1 DEF Take
      <4>2. lag.left - 1 \in 0..MaxLag
        BY <1>3, <3>1, BoundsAre
      <4> QED BY <1>3, <4>1, <4>2
    <3>2. CASE ~(lag.left > 1)
      <4>1. lag' = [group |-> None, left |-> 0]
        BY <3>2 DEF Take
      <4>2. 0 \in 0..MaxLag
        BY BoundsAre
      <4> QED BY <4>1, <4>2
    <3> QED BY <3>1, <3>2
  <2> QED BY <1>1, <1>3, <2>1 DEF ServerFits, Consistent, In
<1>9. /\ UNCHANGED viewVars /\ mode' = mode /\ PicksTyped' /\ events' = events
      /\ closed \cap serverTabs' = {} /\ SnapsFit(reads', closed, serverTabs')
  BY <1>0, <1>1, <1>6 DEF Take, PicksTyped
<1> QED BY <1>0, <1>7, <1>8, <1>9, ViewStays

\* The picks under way: one marked done, or one removed.
LEMMA PicksMove ==
    ASSUME PicksTyped, NEW i \in 1..Len(picks)
    PROVE  /\ [picks EXCEPT ![i].done = TRUE] \in Seq([tab : Tabs, done : BOOLEAN])
           /\ RemoveAt(picks, i) \in Seq([tab : Tabs, done : BOOLEAN])
           /\ picks[i].tab \in Tabs
<1>1. picks \in Seq([tab : Tabs, done : BOOLEAN]) /\ DOMAIN picks = 1..Len(picks)
      /\ picks[i] \in [tab : Tabs, done : BOOLEAN]
  BY LenProperties, ElementOfSeq DEF PicksTyped
<1> DEFINE x == [picks[i] EXCEPT !.done = TRUE]
<1>2. x \in [tab : Tabs, done : BOOLEAN]
  BY <1>1
<1>3. [picks EXCEPT ![i].done = TRUE] = [picks EXCEPT ![i] = x]
  BY <1>1
<1> HIDE DEF x
<1>4. [picks EXCEPT ![i] = x] \in Seq([tab : Tabs, done : BOOLEAN])
  BY <1>1, <1>2, ExceptSeq
<1>5. RemoveAt(picks, i) \in Seq([tab : Tabs, done : BOOLEAN])
  BY <1>1, RemoveAtMoves
<1> QED BY <1>1, <1>3, <1>4, <1>5

(* The server acting on a pick, whose tab may be gone by then, keeps both. *)
LEMMA SwitchKeeps ==
    ASSUME PickInv, NEW i, Switch(i)
    PROVE  PickInv' /\ KeepsPick
<1>0. /\ ServerFits /\ OpFits /\ PicksTyped
      /\ SnapsFit(reads, closed, serverTabs) /\ closed \cap serverTabs = {}
      /\ DOMAIN picks = 1..Len(picks) /\ events \in 0..MaxEvents
  BY PickParts
<1>1. i \in 1..Len(picks) /\ picks' = [picks EXCEPT ![i].done = TRUE]
      /\ UNCHANGED <<mode, serverTabs, lag, reads, op, viewVars, events>>
      /\ (CurrentAmong(serverTabs, picks[i].tab) \/ UNCHANGED current)
  BY <1>0 DEF Switch
<1>2. PicksTyped'
  BY <1>0, <1>1, PicksMove DEF PicksTyped
<1>3. ServerFits'
  <2>1. CASE UNCHANGED current
    BY <1>0, <1>1, <2>1, ServerStays DEF serverVars
  <2>2. CASE CurrentAmong(serverTabs, picks[i].tab)
    <3>1. serverTabs \subseteq Tabs
      BY <1>0 DEF ServerFits
    <3>2. current' \in [Groups -> Tabs \cup {None}] /\ Consistent(serverTabs, current')
      BY <2>2, <3>1, CurrentAmongIs
    <3> QED BY <1>0, <1>1, <3>1, <3>2 DEF ServerFits, Consistent, In
  <2> QED BY <1>1, <2>1, <2>2
<1>4. OpFits' /\ closed \cap serverTabs' = {} /\ SnapsFit(reads', closed, serverTabs')
  BY <1>0, <1>1 DEF OpFits, viewVars
<1> QED BY <1>0, <1>1, <1>2, <1>3, <1>4, ViewStays

(* The server adding or closing what was asked keeps both. *)
LEMMA ServeKeeps ==
    ASSUME PickInv, Serve
    PROVE  PickInv' /\ KeepsPick
<1>0. /\ ServerFits /\ OpFits /\ PicksTyped
      /\ SnapsFit(reads, closed, serverTabs) /\ closed \cap serverTabs = {}
      /\ events \in 0..MaxEvents /\ MaxLag \in Nat
  BY PickParts, BoundsAre
<1>1. /\ op.kind # "none" /\ op' = [op EXCEPT !.done = TRUE]
      /\ serverTabs' = IF op.kind \in Closing THEN serverTabs \ op.tabs
                       ELSE serverTabs \cup op.tabs
      /\ UNCHANGED <<mode, reads, picks, viewVars, events>>
      /\ \E u : CurrentAmong(serverTabs', u)
  BY DEF Serve
<1>2. /\ op.tabs \subseteq Tabs /\ op.kind \in OpKinds
      /\ op' \in [kind : OpKinds, tabs : SUBSET Tabs, done : BOOLEAN]
      /\ op'.kind = op.kind /\ op'.tabs = op.tabs
  BY <1>0, <1>1 DEF OpFits
<1>3. /\ serverTabs' \subseteq Tabs
      /\ op.kind \in Closing => serverTabs' \subseteq serverTabs /\ op.tabs \cap serverTabs' = {}
      /\ op.kind \notin Closing => serverTabs' = serverTabs \cup op.tabs
                                  /\ op.kind \in {"add", "group"}
  BY <1>0, <1>1, <1>2 DEF ServerFits, OpKinds
<1>4. lag' \in [group : Groups \cup {None}, left : 0 .. MaxLag]
  <2>1. lag \in [group : Groups \cup {None}, left : 0 .. MaxLag]
    BY <1>0 DEF ServerFits
  <2>2. PICK n \in 0..MaxLag :
          lag' = IF op.kind = "group" /\ n > 0
                   THEN [group |-> GroupOf[CHOOSE t \in op.tabs : TRUE], left |-> n]
                   ELSE lag
    BY DEF Serve
  <2>3. CASE op.kind = "group" /\ n > 0
    <3> DEFINE t == CHOOSE t \in op.tabs : TRUE
    <3>1. op.tabs # {}
      BY <1>0, <2>3 DEF OpFits
    <3>2. t \in Tabs
      BY <1>2, <3>1
    <3> HIDE DEF t
    <3>3. GroupOf[t] \in Groups
      BY <3>2, GroupsAre
    <3>4. lag' = [group |-> GroupOf[t], left |-> n]
      BY <2>2, <2>3 DEF t
    <3> QED BY <3>3, <3>4
  <2> QED BY <2>1, <2>2, <2>3
<1>5. ServerFits'
  <2>1. current' \in [Groups -> Tabs \cup {None}] /\ Consistent(serverTabs', current')
    BY <1>1, <1>3, CurrentAmongIs
  <2> QED BY <1>3, <1>4, <2>1 DEF ServerFits, Consistent, In
<1>6. op.kind \notin Closing =>
         /\ op.tabs \cap closed = {}
         /\ \A i \in 1..Len(reads) : op.tabs \cap reads[i].after = {}
  BY <1>0, <1>3 DEF OpFits
<1>7. /\ closed \cap serverTabs' = {}
      /\ \A i \in 1..Len(reads) : reads[i].after \cap serverTabs' = {}
  <2>1. \A i \in 1..Len(reads) : reads[i].after \cap serverTabs = {}
    BY <1>0 DEF SnapsFit
  <2>2. CASE op.kind \in Closing
    BY <1>0, <1>3, <2>1, <2>2
  <2>3. CASE op.kind \notin Closing
    BY <1>0, <1>3, <1>6, <2>1, <2>3
  <2> QED BY <2>2, <2>3
<1>8. SnapsFit(reads', closed, serverTabs')
  <2>1. SnapsFit(reads, closed, serverTabs')
    BY <1>0, <1>7, ServerMoves
  <2> QED BY <1>1, <2>1
<1>9. OpFits'
  <2>1. closed' = closed /\ reads' = reads
    BY <1>1 DEF viewVars
  <2> QED BY <1>0, <1>2, <1>3, <2>1 DEF OpFits
<1>10. PicksTyped'
  BY <1>0, <1>1 DEF PicksTyped
<1> QED BY <1>0, <1>1, <1>5, <1>7, <1>8, <1>9, <1>10, ViewStays

\* A step of the page that leaves the server, the picks and what is shown.
LEMMA OnlyReads ==
    ASSUME PickInv, UNCHANGED <<mode, serverVars, picks, viewVars>>,
           events' \in 0..MaxEvents, OpFits', SnapsFit(reads', closed, serverTabs)
    PROVE  PickInv' /\ KeepsPick
<1>1. PicksTyped' /\ ServerFits' /\ closed \cap serverTabs' = {}
  BY PickParts, ServerStays DEF PicksTyped, serverVars
<1>2. SnapsFit(reads', closed, serverTabs')
  BY DEF serverVars
<1> QED BY <1>1, <1>2, ViewStays

(* A poll that starts a read keeps both. *)
LEMMA PollKeeps ==
    ASSUME PickInv, Poll
    PROVE  PickInv' /\ KeepsPick
<1>1. SnapsFit(reads, closed, serverTabs) /\ OpFits /\ Len(reads) = 0
      /\ events \in 0..MaxEvents
  BY PickParts DEF Poll
<1>2. SnapsFit(reads', closed, serverTabs) /\ Len(reads') = 1 /\ reads'[1] = NewRead
  <2>1. NewRead.after \cap serverTabs = {} /\ Len(reads) < MaxReads
    BY <1>1, SentIs, BoundsAre
  <2>2. /\ SnapsFit(Append(reads, NewRead), closed, serverTabs)
        /\ Len(Append(reads, NewRead)) = Len(reads) + 1
        /\ Append(reads, NewRead)[Len(reads) + 1] = NewRead
    <3>1. /\ NewRead \in SnapRead /\ NewRead.snap.tabs = {}
          /\ Consistent(NewRead.snap.tabs, NewRead.snap.current)
      BY SentIs
    <3>2. SnapsFit(reads, closed, serverTabs)
      BY <1>1
    <3>3. SentFit(reads, NewRead, closed, serverTabs)
      BY <2>1, <3>1, <3>2, SentFits
    <3> QED BY <3>3 DEF SentFit
  <2>3. reads' = Append(reads, NewRead)
    BY DEF Poll, RefreshSessions
  <2>4. Len(reads) + 1 = 1
    BY <1>1
  <2> QED BY <2>2, <2>3, <2>4
<1>3. OpFits'
  <2>1. \A i \in 1..Len(reads') : i = 1 /\ reads'[i].after = {}
    BY <1>2, SentIs
  <2> QED BY <1>1, <2>1 DEF OpFits, Poll, serverVars, viewVars
<1> QED BY <1>1, <1>2, <1>3, OnlyReads DEF Poll

(* A read that fails keeps both. *)
LEMMA ReadFailsKeeps ==
    ASSUME PickInv, NEW i, ReadFails(i)
    PROVE  PickInv' /\ KeepsPick
<1>1. SnapsFit(reads, closed, serverTabs) /\ OpFits /\ i \in 1..Len(reads)
      /\ events \in 0..MaxEvents /\ reads' = RemoveAt(reads, i)
  BY PickParts DEF ReadFails
<1>2. /\ SnapsFit(reads', closed, serverTabs)
      /\ \A k \in 1..Len(reads') : \E j \in 1..Len(reads) : reads'[k].after = reads[j].after
  <2>1. SnapsFit(reads, closed, serverTabs) /\ i \in 1..Len(reads)
    BY <1>1
  <2>2. RemovedFit(reads, i, closed, serverTabs)
    BY <2>1, RemovedFits
  <2> QED BY <1>1, <2>2 DEF RemovedFit
<1>3. OpFits'
  BY <1>1, <1>2, OpStays DEF ReadFails, serverVars, viewVars
<1> QED BY <1>1, <1>2, <1>3, OnlyReads DEF ReadFails

(* A read that arrives keeps both, in whatever order it does. *)
LEMMA ReadArrivesKeeps ==
    ASSUME PickInv, NEW i, ReadArrives(i)
    PROVE  PickInv' /\ KeepsPick
<1>1. /\ SnapsFit(reads, closed, serverTabs) /\ OpFits /\ i \in 1..Len(reads)
      /\ ShownFits /\ ServerFits /\ PicksTyped /\ ClosedStaysGone
      /\ closed \cap serverTabs = {} /\ closed \subseteq Tabs
      /\ mode \in {"tmux", "own"} /\ events \in 0..MaxEvents
  BY PickParts DEF ReadArrives, ShownFits
<1>2. UNCHANGED <<mode, serverVars, picks, op, events>> /\ ApplySnapshot(i)
  BY DEF ReadArrives
<1>3. /\ SnapsFit(reads', closed, serverTabs)
      /\ SnapsFit(reads', closed \cup reads[i].after, serverTabs)
      /\ \A k \in 1..Len(reads') : \E j \in 1..Len(reads) : reads'[k].after = reads[j].after
  <2>1. reads' = Applied(reads, i)
    BY <1>2 DEF ApplySnapshot, Applied
  <2>2. SnapsFit(reads, closed, serverTabs) /\ i \in 1..Len(reads)
    BY <1>1
  <2>3. AppliedFit(reads, i, closed, serverTabs)
    BY <2>2, AppliedFits
  <2> QED BY <2>1, <2>3 DEF AppliedFit
<1>4. CASE reads[i].old
  <2>1. UNCHANGED viewVars
    BY <1>2, <1>4 DEF ApplySnapshot
  <2>2. OpFits'
    BY <1>1, <1>2, <1>3, <2>1, OpStays DEF serverVars, viewVars
  <2> QED BY <1>1, <1>2, <1>3, <2>1, <2>2, OnlyReads
<1>5. CASE ~reads[i].old
  <2> DEFINE s == reads[i].snap
             f == reads[i].fresh
             n == reads[i].after
  <2>1. /\ listed' = s.tabs /\ closed' = closed \cup n
        /\ want' = Remembered(s, ~f \/ Waiting(s))
        /\ IF f THEN ShowPicked(s) ELSE UNCHANGED <<tabShown, sel, pendingGroup>>
    BY <1>2, <1>5 DEF ApplySnapshot
  <2>2. reads[i] \in SnapRead
    BY <1>1, ElementOfSeq DEF SnapsFit
  <2>3. s \in Snap /\ f \in BOOLEAN /\ n \in SUBSET Tabs
    BY <2>2 DEF SnapRead
  <2>4. /\ Consistent(s.tabs, s.current) /\ n \cap serverTabs = {}
        /\ s.tabs \cap closed = {} /\ s.tabs \cap n = {}
    <3>1. i \in 1..i
      BY <1>1
    <3> QED BY <1>1, <1>5, <3>1 DEF SnapsFit
  <2> HIDE DEF s, f
  <2>5. ShownFits' /\ KeepsPick
    BY <1>1, <2>1, <2>3, <2>4, ShownBySnapshot
  <2>6. ClosedStaysGone' /\ closed' \cap serverTabs' = {}
    BY <1>1, <1>2, <2>1, <2>4 DEF ClosedStaysGone, serverVars
  <2>7. OpFits'
    <3>1. /\ op.kind \in {"add", "group"} => op.tabs \cap closed' = {}
      BY <1>1, <2>1 DEF OpFits
    <3> QED BY <1>1, <1>2, <1>3, <3>1 DEF OpFits, serverVars
  <2>8. SnapsFit(reads', closed', serverTabs')
    BY <1>2, <1>3, <2>1 DEF serverVars
  <2>9. ServerFits' /\ PicksTyped'
    BY <1>1, <1>2, ServerStays DEF PicksTyped, serverVars
  <2> QED BY <1>1, <1>2, <2>5, <2>6, <2>7, <2>8, <2>9 DEF PickInv, PicksTyped
<1> QED BY <1>4, <1>5

\* A pick of tab t, here.
LEMMA ChooseFits ==
    ASSUME PickInv, NEW t \in Tabs, Choose(t)
    PROVE  /\ ShownFits' /\ KeepsPick /\ ClosedStaysGone'
           /\ closed' = closed
<1>1. /\ sel' = Chosen(t) /\ tabShown' = t /\ want' = Chosen(t)
      /\ listed' = listed /\ pendingGroup' = pendingGroup /\ closed' = closed
  BY DEF Choose
<1>2. ShownFits /\ ClosedStaysGone
  BY PickParts
<1>3. /\ ChoiceOK(Chosen(t)) /\ Chosen(t) # None /\ t # None
      /\ Chosen(t).tab = t /\ Chosen(t).group = GroupOf[t]
  BY GroupsAre
<1>4. ChosenIsPicked'
  BY <1>1, <1>3 DEF ChosenIsPicked
<1>5. ChoiceOK(sel)' /\ ChoiceOK(want)'
  BY <1>1, <1>3 DEF ChoiceOK
<1>6. ShownFits'
  BY <1>1, <1>2, <1>4, <1>5 DEF ShownFits
<1>7. KeepsPick
  BY <1>1, <1>3 DEF KeepsPick
<1> QED BY <1>1, <1>2, <1>6, <1>7 DEF ClosedStaysGone

\* No read under way is of this version any more.
LEMMA StaleKeeps ==
    ASSUME PickInv, UNCHANGED <<op, serverTabs>>, closed' = closed, reads' = Stale(reads)
    PROVE  SnapsFit(reads', closed, serverTabs) /\ OpFits'
<1>1. SnapsFit(reads, closed, serverTabs) /\ OpFits
  BY PickParts
<1>2. /\ SnapsFit(reads', closed, serverTabs) /\ Len(reads') = Len(reads)
      /\ \A k \in 1..Len(reads) : reads'[k].after = reads[k].after
  BY <1>1, StaleFits
<1>3. \A k \in 1..Len(reads') : \E j \in 1..Len(reads) : reads'[k].after = reads[j].after
  BY <1>2
<1> QED BY <1>1, <1>2, <1>3, OpStays

(* Choosing a tab keeps both where all clients share one choice, since it
   marks the reads under way as old. *)
LEMMA SwitchSharedKeeps ==
    ASSUME PickInv, NEW t \in Tabs, SwitchShared(t)
    PROVE  PickInv' /\ KeepsPick
<1>1. ShownFits' /\ KeepsPick /\ ClosedStaysGone' /\ closed' = closed
  BY ChooseFits DEF SwitchShared
<1>2. SnapsFit(reads', closed, serverTabs) /\ OpFits'
  BY <1>1, StaleKeeps DEF SwitchShared, serverVars
<1>3. PicksTyped /\ ServerFits /\ closed \cap serverTabs = {} /\ events \in 0..MaxEvents
      /\ mode \in {"tmux", "own"}
  BY PickParts
<1>4. PicksTyped'
  <2> DEFINE x == [tab |-> t, done |-> FALSE]
  <2>1. x \in [tab : Tabs, done : BOOLEAN] /\ picks' = Append(picks, x)
    BY DEF SwitchShared
  <2> HIDE DEF x
  <2>2. Append(picks, x) \in Seq([tab : Tabs, done : BOOLEAN])
    BY <1>3, <2>1, AppendProperties DEF PicksTyped
  <2> QED BY <2>1, <2>2 DEF PicksTyped
<1>5. ServerFits'
  BY <1>3, ServerStays DEF SwitchShared
<1>6. events' \in 0..MaxEvents /\ mode' = mode /\ serverTabs' = serverTabs
  BY <1>3, BoundsAre DEF SwitchShared, Event, serverVars
<1> QED BY <1>1, <1>2, <1>3, <1>4, <1>5, <1>6 DEF PickInv, PicksTyped

(* It keeps both where each client has its own. *)
LEMMA SwitchOwnKeeps ==
    ASSUME PickInv, NEW t \in Tabs, SwitchOwn(t)
    PROVE  PickInv' /\ KeepsPick
<1>1. ShownFits' /\ KeepsPick /\ ClosedStaysGone' /\ closed' = closed
  BY ChooseFits DEF SwitchOwn
<1>2. SnapsFit(reads', closed, serverTabs) /\ OpFits'
  BY <1>1, StaleKeeps DEF SwitchOwn, serverVars
<1>3. PicksTyped /\ ServerFits /\ closed \cap serverTabs = {} /\ events \in 0..MaxEvents
      /\ mode \in {"tmux", "own"}
  BY PickParts
<1>4. PicksTyped' /\ ServerFits'
  BY <1>3, ServerStays DEF SwitchOwn, PicksTyped, serverVars
<1>5. events' \in 0..MaxEvents /\ mode' = mode /\ serverTabs' = serverTabs
  BY <1>3, BoundsAre DEF SwitchOwn, Event, serverVars
<1> QED BY <1>1, <1>2, <1>3, <1>4, <1>5 DEF PickInv, PicksTyped

\* A pick is answered, or fails.
LEMMA PickGoneKeeps ==
    ASSUME PickInv, NEW i, PickEnds(i) \/ PickFails(i)
    PROVE  PickInv' /\ KeepsPick
<1>1. /\ UNCHANGED <<mode, serverTabs, current, lag, op, viewVars, events>>
      /\ reads' = Stale(reads) /\ picks' = RemoveAt(picks, i) /\ i \in 1..Len(picks)
  BY PickParts DEF PickEnds, PickFails, serverVars
<1>2. SnapsFit(reads', closed, serverTabs) /\ OpFits'
  BY <1>1, StaleKeeps DEF serverVars, viewVars
<1>3. PicksTyped /\ ServerFits /\ closed \cap serverTabs = {} /\ events \in 0..MaxEvents
  BY PickParts
<1>4. PicksTyped'
  BY <1>1, <1>3, PicksMove DEF PicksTyped
<1>5. ServerFits' /\ serverTabs' = serverTabs
  BY <1>1, <1>3, ServerStays DEF serverVars
<1> QED BY <1>1, <1>2, <1>3, <1>4, <1>5, ViewStays

\* An operation is asked for: tabs nothing closed, or tabs to close.
LEMMA AskKeeps ==
    ASSUME PickInv, NEW kind \in OpKinds \ {"none"}, NEW ts \in SUBSET Tabs,
           Ask(kind, ts),
           kind \notin Closing => /\ ts # {} /\ ts \cap closed = {}
                             /\ \A i \in 1..Len(reads) : ts \cap reads[i].after = {}
    PROVE  PickInv' /\ KeepsPick
<1>1. SnapsFit(reads, closed, serverTabs) /\ events \in 0..MaxEvents
  BY PickParts
<1>2. UNCHANGED <<mode, serverVars, picks, viewVars>> /\ reads' = reads
      /\ op' = [kind |-> kind, tabs |-> ts, done |-> FALSE]
  BY DEF Ask
<1>3. events' \in 0..MaxEvents
  BY <1>1, BoundsAre DEF Ask, Event
<1>4. OpFits'
  <2>1. op' \in [kind : OpKinds, tabs : SUBSET Tabs, done : BOOLEAN]
        /\ op'.kind = kind /\ op'.tabs = ts /\ op'.done = FALSE
    BY <1>2
  <2>2. kind \notin Closing <=> kind \in {"add", "group"}
    BY DEF OpKinds, Closing
  <2> QED BY <1>2, <2>1, <2>2 DEF OpFits, viewVars
<1> QED BY <1>1, <1>2, <1>3, <1>4, OnlyReads

(* Asking the server to add or close a tab or a group keeps both. *)
LEMMA AsksKeep ==
    ASSUME PickInv, \/ \E t \in Tabs : AskAdd(t) \/ AskGroup(t) \/ AskClose(t)
                    \/ \E g \in Groups : AskCloseGroup(g)
    PROVE  PickInv' /\ KeepsPick
<1>1. CASE \E t \in Tabs : AskAdd(t) \/ AskGroup(t)
  <2>1. PICK t \in Tabs : AskAdd(t) \/ AskGroup(t)
    BY <1>1
  <2>2. PICK kind \in {"add", "group"} : Ask(kind, {t}) /\ t \notin Named
    BY <2>1 DEF AskAdd, AskGroup
  <2>3. /\ {t} # {} /\ {t} \cap closed = {}
        /\ \A i \in 1..Len(reads) : {t} \cap reads[i].after = {}
    BY <2>2, NamedIs
  <2> QED BY <2>2, <2>3, AskKeeps DEF OpKinds, Closing
<1>2. CASE \/ \E t \in Tabs : AskClose(t)
           \/ \E g \in Groups : AskCloseGroup(g)
  <2>1. listed \subseteq Tabs
    BY PickParts DEF ShownFits
  <2>2. PICK kind \in Closing, ts \in SUBSET Tabs : Ask(kind, ts)
    BY <1>2, <2>1 DEF AskClose, AskCloseGroup, In, Closing
  <2> QED BY <2>2, AskKeeps DEF OpKinds, Closing
<1> QED BY <1>1, <1>2

\* No operation is under way.
LEMMA NoOpFits ==
    ASSUME op' = NoOp
    PROVE  OpFits'
BY DEF OpFits, NoOp, OpKinds, Closing

\* The operation ends with a read sent, and nothing else shown.
LEMMA EndsWithRead ==
    ASSUME PickInv, UNCHANGED <<mode, serverVars, picks, viewVars, events>>,
           op' = NoOp, Len(reads) < MaxReads,
           NEW r \in SnapRead, r.snap.tabs = {}, Consistent(r.snap.tabs, r.snap.current),
           r.after \cap serverTabs = {}, reads' = Append(reads, r)
    PROVE  PickInv' /\ KeepsPick
<1>1. SnapsFit(reads, closed, serverTabs) /\ events \in 0..MaxEvents
  BY PickParts
<1>2. SnapsFit(reads', closed, serverTabs)
  <2>1. SentFit(reads, r, closed, serverTabs)
    BY <1>1, SentFits
  <2> QED BY <2>1 DEF SentFit
<1> QED BY <1>1, <1>2, NoOpFits, OnlyReads

(* The read that follows an operation keeps both: it sees no tab closed
   before it. *)
LEMMA RefreshKeeps ==
    ASSUME PickInv, UNCHANGED <<mode, serverVars, picks, viewVars, events>>,
           op' = NoOp, Len(reads) < MaxReads, RefreshSessions(reads)
    PROVE  PickInv' /\ KeepsPick
<1>1. NewRead.after \cap serverTabs = {} /\ reads' = Append(reads, NewRead)
  BY SentIs DEF RefreshSessions
<1> QED BY <1>1, SentIs, EndsWithRead

\* What was made here is this device's choice, and is read again for.
LEMMA ShowNewKeeps ==
    ASSUME PickInv, UNCHANGED <<mode, serverVars, picks, events>>, op' = NoOp,
           Len(reads) < MaxReads, NEW x, ChoiceOK(x), x # None, ShowNew(x),
           pendingGroup' \in [group : Groups \cup {None}, left : 0 .. 3]
    PROVE  PickInv' /\ KeepsPick
<1>1. /\ sel' = x /\ want' = x /\ reads' = Append(Stale(reads), NewRead)
      /\ listed' = listed /\ tabShown' = tabShown /\ closed' = closed
  BY DEF ShowNew
<1>2. /\ ServerFits /\ ShownFits /\ PicksTyped /\ ClosedStaysGone
      /\ SnapsFit(reads, closed, serverTabs) /\ closed \cap serverTabs = {}
      /\ mode \in {"tmux", "own"} /\ events \in 0..MaxEvents
  BY PickParts
<1>3. ShownFits'
  <2>1. ChoiceOK(sel)' /\ ChoiceOK(want)' /\ ChosenIsPicked'
    BY <1>1 DEF ChoiceOK, ChosenIsPicked
  <2> QED BY <1>1, <1>2, <2>1 DEF ShownFits
<1>4. SnapsFit(reads', closed, serverTabs)
  <2>1. SnapsFit(Stale(reads), closed, serverTabs) /\ Len(Stale(reads)) < MaxReads
    BY <1>2, StaleFits
  <2>2. NewRead.after \cap serverTabs = {}
    BY SentIs
  <2>3. SentFit(Stale(reads), NewRead, closed, serverTabs)
    BY <2>1, <2>2, SentIs, SentFits
  <2> QED BY <1>1, <2>3 DEF SentFit
<1>5. KeepsPick
  BY <1>1 DEF KeepsPick
<1>6. ServerFits' /\ PicksTyped' /\ serverTabs' = serverTabs
  BY <1>2, ServerStays DEF PicksTyped, serverVars
<1> QED BY <1>1, <1>2, <1>3, <1>4, <1>5, <1>6, NoOpFits DEF PickInv, PicksTyped, ClosedStaysGone

(* The end of an operation keeps both. *)
LEMMA OpEndsKeeps ==
    ASSUME PickInv, Len(reads) < MaxReads, Added \/ GroupMade \/ TabsClosed \/ OpFails
    PROVE  PickInv' /\ KeepsPick
<1>0. OpFits /\ op.tabs \subseteq Tabs
      /\ pendingGroup \in [group : Groups \cup {None}, left : 0 .. 3]
  BY PickParts DEF OpFits, ShownFits
<1>1. CASE Added
  <2>1. UNCHANGED <<mode, serverVars, picks, events>> /\ op' = NoOp
    BY <1>1 DEF Added
  <2>2. CASE mode = "own"
    <3>1. PICK t \in op.tabs : ShowNew(Chosen(t)) /\ UNCHANGED pendingGroup
      BY <1>1, <2>2 DEF Added
    <3>2. ChoiceOK(Chosen(t)) /\ Chosen(t) # None
      BY <1>0, GroupsAre
    <3> QED BY <1>0, <2>1, <3>1, <3>2, ShowNewKeeps
  <2>3. CASE mode # "own"
    BY <1>1, <2>1, <2>3, RefreshKeeps DEF Added
  <2> QED BY <2>2, <2>3
<1>2. CASE GroupMade
  <2>1. UNCHANGED <<mode, serverVars, picks, events>> /\ op' = NoOp
    BY <1>2 DEF GroupMade
  <2>2. CASE RefreshSessions(reads) /\ UNCHANGED viewVars
    BY <2>1, <2>2, RefreshKeeps
  <2>3. CASE \E t \in op.tabs :
               /\ ShowNew([tab |-> None, group |-> GroupOf[t]])
               /\ pendingGroup' = [group |-> GroupOf[t], left |-> 3]
    <3>1. PICK t \in op.tabs :
               /\ ShowNew([tab |-> None, group |-> GroupOf[t]])
               /\ pendingGroup' = [group |-> GroupOf[t], left |-> 3]
      BY <2>3
    <3> DEFINE x == [tab |-> None, group |-> GroupOf[t]]
    <3>2. GroupOf[t] \in Groups /\ GroupOf[t] # None
      BY <1>0, GroupsAre
    <3>3. x \in Selection
      BY <3>2 DEF Selection
    <3>4. x # None
      BY <3>3, PickAssumption
    <3>5. ChoiceOK(x)
      BY <3>2, <3>3 DEF ChoiceOK
    <3>6. pendingGroup' \in [group : Groups \cup {None}, left : 0 .. 3]
      BY <3>1, <3>2
    <3>7. ShowNew(x)
      BY <3>1
    <3> HIDE DEF x
    <3> QED BY <2>1, <3>4, <3>5, <3>6, <3>7, ShowNewKeeps
  <2> QED BY <1>2, <2>2, <2>3 DEF GroupMade
<1>3. CASE TabsClosed
  <2>1. /\ op.kind \in Closing /\ op.done /\ op' = NoOp
        /\ reads' = Append(reads, [NewRead EXCEPT !.after = op.tabs])
        /\ UNCHANGED <<mode, serverVars, picks, viewVars, events>>
    BY <1>3 DEF TabsClosed
  <2> DEFINE r == [NewRead EXCEPT !.after = op.tabs]
  <2>2. r \in SnapRead /\ r.after = op.tabs /\ r.snap.tabs = {}
        /\ Consistent(r.snap.tabs, r.snap.current)
    BY <1>0, NewReadFits
  <2>3. op.tabs \cap serverTabs = {}
    BY <1>0, <2>1 DEF OpFits
  <2>4. reads' = Append(reads, r)
    BY <2>1
  <2> HIDE DEF r
  <2> QED BY <2>1, <2>2, <2>3, <2>4, EndsWithRead
<1>4. CASE OpFails
  <2>1. UNCHANGED <<mode, serverVars, picks, viewVars, events>> /\ op' = NoOp
        /\ (RefreshSessions(reads) \/ UNCHANGED reads)
    BY <1>4 DEF OpFails
  <2>2. CASE RefreshSessions(reads)
    BY <2>1, <2>2, RefreshKeeps
  <2>3. CASE UNCHANGED reads
    <3>1. SnapsFit(reads', closed, serverTabs) /\ events' \in 0..MaxEvents
      BY <2>1, <2>3, PickParts
    <3> QED BY <2>1, <3>1, NoOpFits, OnlyReads
  <2> QED BY <2>1, <2>2, <2>3
<1> QED BY <1>1, <1>2, <1>3, <1>4

-----------------------------------------------------------------------------
(* The pick: the theorems.                                                 *)

(* The session list starts empty, within its invariant. *)
LEMMA PickStarts == PickInit => PickInv
<1> SUFFICES ASSUME PickInit PROVE PickInv
  OBVIOUS
<1>1. PICK g \in Groups : serverTabs = {CHOOSE t \in Tabs : GroupOf[t] = g}
  BY DEF PickInit
<1> DEFINE u == CHOOSE t \in Tabs : GroupOf[t] = g
<1>2. u \in Tabs /\ GroupOf[u] = g
  <2>1. \E t \in Tabs : GroupOf[t] = g
    BY PickAssumption
  <2> QED BY <2>1
<1>3. serverTabs = {u} /\ serverTabs \subseteq Tabs
  BY <1>1, <1>2
<1> HIDE DEF u
<1>4. current \in [Groups -> Tabs \cup {None}] /\ Consistent(serverTabs, current)
  <2> DEFINE c(h) == IF In(h, serverTabs) = {} THEN None
                     ELSE CHOOSE t \in serverTabs : GroupOf[t] = h
  <2>1. current = [h \in Groups |-> c(h)]
    BY DEF PickInit
  <2>2. ASSUME NEW h \in Groups
        PROVE  /\ In(h, serverTabs) = {} <=> c(h) = None
               /\ c(h) # None => c(h) \in serverTabs /\ GroupOf[c(h)] = h
               /\ c(h) \in Tabs \cup {None}
    <3>1. CASE In(h, serverTabs) = {}
      BY <3>1
    <3>2. CASE In(h, serverTabs) # {}
      <4>1. \E t \in serverTabs : GroupOf[t] = h
        BY <3>2 DEF In
      <4>2. c(h) \in serverTabs /\ GroupOf[c(h)] = h
        BY <3>2, <4>1
      <4>3. c(h) # None /\ c(h) \in Tabs
        BY <1>3, <4>2, GroupsAre
      <4> HIDE DEF c
      <4> QED BY <3>2, <4>2, <4>3
    <3> QED BY <3>1, <3>2
  <2> HIDE DEF c
  <2> QED BY <2>1, <2>2 DEF Consistent
<1>5. ServerFits
  <2>1. lag = [group |-> None, left |-> 0]
    BY DEF PickInit
  <2>2. lag \in [group : Groups \cup {None}, left : 0 .. MaxLag]
    BY <2>1, BoundsAre
  <2> QED BY <1>3, <1>4, <2>2 DEF ServerFits
<1>6. SnapsFit(reads, closed, serverTabs)
  <2>1. reads = <<NewRead>> /\ MaxReads \in Nat /\ 1 <= MaxReads
    BY BoundsAre DEF PickInit
  <2>2. NewRead \in SnapRead /\ NewRead.after = {} /\ NewRead.snap.tabs = {}
        /\ Consistent(NewRead.snap.tabs, NewRead.snap.current)
    BY SentIs
  <2>3. /\ reads \in Seq(SnapRead) /\ Len(reads) = 1 /\ reads[1] = NewRead
        /\ \A i \in 1..Len(reads) : i = 1
    BY <2>1, <2>2
  <2> QED BY <2>1, <2>2, <2>3 DEF SnapsFit
<1>7. picks \in Seq([tab : Tabs, done : BOOLEAN])
  BY DEF PickInit
<1>8. OpFits
  BY DEF PickInit, OpFits, NoOp, OpKinds, Closing
<1>9. ShownFits /\ closed = {} /\ ClosedStaysGone
  <2>1. pendingGroup \in [group : Groups \cup {None}, left : 0 .. 3]
    BY DEF PickInit
  <2>2. ChoiceOK(sel) /\ ChoiceOK(want) /\ ChosenIsPicked
    BY DEF PickInit, ChoiceOK, ChosenIsPicked
  <2> QED BY <2>1, <2>2 DEF PickInit, ShownFits, ClosedStaysGone
<1>10. mode \in {"tmux", "own"} /\ events \in 0..MaxEvents
  BY BoundsAre DEF PickInit
<1> QED BY <1>5, <1>6, <1>7, <1>8, <1>9, <1>10 DEF PickInv

(* No step leaves the invariant, and each one that changes anything keeps
   the pick. *)
LEMMA PickStepKeeps ==
    ASSUME PickInv, [PickNext]_pickVars
    PROVE  PickInv' /\ (UNCHANGED pickVars \/ KeepsPick)
<1>1. CASE OtherClient
  BY <1>1, OtherClientKeeps
<1>2. CASE Serve
  BY <1>2, ServeKeeps
<1>3. CASE Poll
  BY <1>3, PollKeeps
<1>4. CASE \E i \in 1 .. MaxReads : ReadStep(i)
  BY <1>4, TakeKeeps, ReadArrivesKeeps, ReadFailsKeeps DEF ReadStep
<1>5. CASE \E i \in 1 .. MaxPicks : PickStep(i)
  BY <1>5, SwitchKeeps, PickGoneKeeps DEF PickStep
<1>6. CASE \E t \in Tabs : SwitchShared(t) \/ SwitchOwn(t)
  BY <1>6, SwitchSharedKeeps, SwitchOwnKeeps
<1>7. CASE \/ \E t \in Tabs : AskAdd(t) \/ AskGroup(t) \/ AskClose(t)
           \/ \E g \in Groups : AskCloseGroup(g)
  BY <1>7, AsksKeep
<1>8. CASE Len(reads) < MaxReads /\ (Added \/ GroupMade \/ TabsClosed \/ OpFails)
  BY <1>8, OpEndsKeeps
<1>9. CASE UNCHANGED pickVars
  <2>1. PickInv'
    <3>1. /\ mode' = mode /\ serverTabs' = serverTabs /\ current' = current /\ lag' = lag
          /\ reads' = reads /\ picks' = picks /\ op' = op /\ listed' = listed
          /\ tabShown' = tabShown /\ sel' = sel /\ pendingGroup' = pendingGroup
          /\ want' = want /\ closed' = closed /\ events' = events
      BY <1>9 DEF pickVars, serverVars, viewVars
    <3> QED BY <3>1 DEF PickInv, ServerFits, SnapsFit, OpFits, ShownFits, ChoiceOK,
                        ChosenIsPicked, ClosedStaysGone, Consistent, In
  <2> QED BY <1>9, <2>1
<1> QED BY <1>1, <1>2, <1>3, <1>4, <1>5, <1>6, <1>7, <1>8, <1>9 DEF PickNext

-----------------------------------------------------------------------------
(* The pick where sessions are shared: the tab the server switched to.      *)

PickMade == mode = "tmux" /\ want # None /\ want.tab # None /\ landed = "made"

\* A snapshot in which the tab chosen is the current one, if it lists it.
SnapKnows(s) == s.current[want.group] = want.tab \/ want.tab \notin s.tabs

ReadKnows(r) == r.fresh /\ r.taken => SnapKnows(r.snap)

\* While nobody switched away the tab chosen is the current one of its group;
\* and once no pick is under way, a reply that may show a tab knows it.
LandedInv ==
    /\ landed \in {"asked", "made", "moved"}
    /\ PickMade => current[want.group] = want.tab
    /\ PickMade /\ picks = <<>> => \A i \in 1..Len(reads) : ReadKnows(reads[i])

\* No read brings more than one that was under way.
NoneNew ==
    \A k \in 1..Len(reads') :
       reads'[k].fresh /\ reads'[k].taken =>
          \E j \in 1..Len(reads) : /\ reads[j].fresh /\ reads[j].taken
                                   /\ reads[j].snap = reads'[k].snap

\* A step that leaves the server and the choice alone, or forgets the choice.
LEMMA LandStays ==
    ASSUME LandedInv, NoneNew,
           UNCHANGED <<mode, landed, current, picks>>, PickMade' => want' = want
    PROVE  LandedInv'
<1>1. ASSUME PickMade' PROVE PickMade /\ want' = want
  BY <1>1 DEF PickMade
<1>2. ASSUME PickMade', picks' = <<>>, NEW k \in 1..Len(reads') PROVE ReadKnows(reads[k])'
  <2>1. \A j \in 1..Len(reads) : ReadKnows(reads[j])
    BY <1>1, <1>2 DEF LandedInv
  <2>2. \A s : SnapKnows(s)' <=> SnapKnows(s)
    BY <1>1, <1>2 DEF SnapKnows
  <2> QED BY <1>2, <2>1, <2>2 DEF NoneNew, ReadKnows, SnapKnows
<1> QED BY <1>1, <1>2 DEF LandedInv

\* The tabs of a server step: what the pick became is kept.
LEMMA LandMoves ==
    ASSUME LandedInv, Moves(current'), UNCHANGED <<mode, want, reads>>,
           picks' # <<>> \/ picks' = picks
    PROVE  LandedInv'
<1>1. PickMade' => PickMade /\ current'[want.group] = want.tab
  BY DEF Moves, PickMade
<1>2. landed' \in {"asked", "made", "moved"}
  BY DEF Moves, LandedInv
<1>3. \A s : SnapKnows(s)' <=> SnapKnows(s)
  BY DEF SnapKnows
<1> QED BY <1>1, <1>2, <1>3 DEF LandedInv, ReadKnows, SnapKnows, PickMade

\* No tab is chosen, or the server did not switch to it.
LEMMA LandNone ==
    ASSUME landed' \in {"asked", "made", "moved"}, ~PickMade'
    PROVE  LandedInv'
BY DEF LandedInv

\* The read that is sent brings nothing yet.
LEMMA SentIsNotNew ==
    ASSUME PickInv, NEW r \in SnapRead, ~r.taken, reads' = Append(reads, r)
    PROVE  NoneNew
<1>1. reads \in Seq(SnapRead) /\ Len(reads) \in Nat
  BY LenProperties DEF PickInv, SnapsFit
<1>2. /\ Len(reads') = Len(reads) + 1 /\ reads'[Len(reads) + 1] = r
      /\ \A k \in 1..Len(reads) : reads'[k] = reads[k]
  BY <1>1, AppendProperties
<1>3. \A k \in 1..Len(reads') : k \in 1..Len(reads) \/ k = Len(reads) + 1
  BY <1>1, <1>2
<1> QED BY <1>2, <1>3 DEF NoneNew

(* A read that is sent by an operation, or by the timer, is such a one. *)
LEMMA SentNew ==
    ASSUME NEW A \in SUBSET Tabs
    PROVE  /\ [NewRead EXCEPT !.after = A] \in SnapRead
           /\ ~[NewRead EXCEPT !.after = A].taken
           /\ NewRead \in SnapRead /\ ~NewRead.taken
<1>1. ~NewRead.taken /\ ~[NewRead EXCEPT !.after = A].taken
  BY DEF NewRead
<1> QED BY <1>1, NewReadFits

(* The reads left when one fails bring what they brought. *)
LEMMA FailedIsNotNew ==
    ASSUME PickInv, NEW i \in 1..Len(reads), reads' = RemoveAt(reads, i)
    PROVE  NoneNew
<1>1. reads \in Seq(SnapRead) /\ Len(reads) \in Nat
  BY LenProperties DEF PickInv, SnapsFit
<1>2. /\ Len(reads') = Len(reads) - 1
      /\ \A k \in 1..(Len(reads) - 1) :
            reads'[k] = IF k < i THEN reads[k] ELSE reads[k + 1]
  BY <1>1, RemoveAtMoves
<1>3. \A k \in 1..Len(reads') : \E j \in 1..Len(reads) : reads'[k] = reads[j]
  <2> SUFFICES ASSUME NEW k \in 1..Len(reads')
               PROVE  \E j \in 1..Len(reads) : reads'[k] = reads[j]
    OBVIOUS
  <2>1. k \in 1..Len(reads) /\ k + 1 \in 1..Len(reads)
    BY <1>1, <1>2
  <2> QED BY <1>2, <2>1
<1> QED BY <1>3 DEF NoneNew

(* So do those left when one arrives. *)
LEMMA ArrivedIsNotNew ==
    ASSUME PickInv, NEW i \in 1..Len(reads), reads' = Applied(reads, i)
    PROVE  NoneNew
<1>1. reads \in Seq(SnapRead) /\ Len(reads) \in Nat
      /\ \A j \in 1..Len(reads) : reads[j] \in SnapRead
  BY LenProperties, ElementOfSeq DEF PickInv, SnapsFit
<1>2. \A x \in SnapRead : LET y == [x EXCEPT !.old = TRUE] IN
         y.fresh = x.fresh /\ y.taken = x.taken /\ y.snap = x.snap
  BY DEF SnapRead
<1>3. Len(reads') = Len(reads) - 1
  <2>1. SnapsFit(reads, closed, serverTabs)
    BY DEF PickInv
  <2>2. AppliedFit(reads, i, closed, serverTabs)
    BY <2>1, AppliedFits
  <2>3. reads' \in Seq(SnapRead) /\ DOMAIN reads' = 1..(Len(reads) - 1)
    BY <2>2 DEF AppliedFit, SnapsFit, Applied
  <2>4. Len(reads) - 1 \in Nat
    BY <1>1
  <2> QED BY <2>3, <2>4, LenProperties
<1>4. \A k \in 1..Len(reads') :
         \E j \in 1..Len(reads) : /\ reads'[k].fresh = reads[j].fresh
                                  /\ reads'[k].taken = reads[j].taken
                                  /\ reads'[k].snap = reads[j].snap
  <2> SUFFICES ASSUME NEW k \in 1..(Len(reads) - 1)
               PROVE  \E j \in 1..Len(reads) : /\ reads'[k].fresh = reads[j].fresh
                                               /\ reads'[k].taken = reads[j].taken
                                               /\ reads'[k].snap = reads[j].snap
    BY <1>3
  <2>1. k \in 1..Len(reads) /\ k + 1 \in 1..Len(reads)
    BY <1>1
  <2>2. /\ k < i => reads'[k] = [reads[k] EXCEPT !.old = TRUE]
        /\ ~(k < i) => reads'[k] = reads[k + 1]
    BY DEF Applied
  <2>3. CASE k < i
    <3>1. reads[k] \in SnapRead
      BY <1>1, <2>1
    <3> QED BY <1>2, <2>1, <2>2, <2>3, <3>1
  <2>4. CASE ~(k < i)
    BY <2>1, <2>2, <2>4
  <2> QED BY <2>3, <2>4
<1> QED BY <1>4 DEF NoneNew

(* No read is of this version once it is bumped. *)
LEMMA BumpedIsStale ==
    ASSUME PickInv, reads' = Stale(reads)
    PROVE  \A k \in 1..Len(reads') : ~reads'[k].fresh
<1>1. reads \in Seq(SnapRead) /\ DOMAIN reads = 1..Len(reads)
      /\ \A j \in 1..Len(reads) : reads[j] \in SnapRead
  BY LenProperties, ElementOfSeq DEF PickInv, SnapsFit
<1>2. Len(reads') = Len(reads)
  <2>1. SnapsFit(reads, closed, serverTabs)
    BY DEF PickInv
  <2> QED BY <2>1, StaleFits
<1>3. \A x \in SnapRead : ~[x EXCEPT !.fresh = FALSE].fresh
  BY DEF SnapRead
<1>4. \A k \in 1..Len(reads') : reads'[k] = [reads[k] EXCEPT !.fresh = FALSE]
  BY <1>1, <1>2 DEF Stale
<1> QED BY <1>1, <1>2, <1>3, <1>4

-----------------------------------------------------------------------------
(* One lemma for the steps that say what became of the pick.                *)

(* The server answers a read: it lists the tab it switched to as the current
   one, or not at all while its group is late. *)
LEMMA TakeLands ==
    ASSUME PickInv, LandedInv, NEW i, Take(i)
    PROVE  LandedInv'
<1> DEFINE late == IF lag.left > 0 THEN In(lag.group, serverTabs) ELSE {}
           s == [tabs |-> serverTabs \ late,
                 current |-> [g \in Groups |->
                                IF current[g] \in late THEN None ELSE current[g]]]
<1>1. /\ i \in 1..Len(reads)
      /\ reads' = [reads EXCEPT ![i].taken = TRUE, ![i].snap = s]
      /\ UNCHANGED <<mode, current, landed, picks, want>>
  BY PickParts DEF Take, viewVars
<1>2. /\ reads \in Seq(SnapRead) /\ DOMAIN reads = 1..Len(reads)
      /\ \A k \in 1..Len(reads) : reads[k] \in SnapRead
      /\ DOMAIN reads' = 1..Len(reads)
  BY <1>1, LenProperties, ElementOfSeq DEF PickInv, SnapsFit
<1>3. Len(reads') = Len(reads)
  <2>1. SnapsFit(reads', closed, serverTabs') /\ closed' = closed
    BY TakeKeeps DEF PickInv, Take, viewVars
  <2>2. reads' \in Seq(SnapRead) /\ Len(reads) \in Nat
    BY <1>2, <2>1, LenProperties DEF SnapsFit
  <2> QED BY <1>2, <2>2, LenProperties
<1>4. ASSUME PickMade PROVE SnapKnows(s)
  <2>1. want.group \in Groups /\ want.tab # None /\ current[want.group] = want.tab
    BY <1>4, PickParts DEF ShownFits, ChoiceOK, Selection, LandedInv, PickMade
  <2>2. s.tabs = serverTabs \ late
        /\ s.current[want.group] = IF want.tab \in late THEN None ELSE want.tab
    BY <2>1
  <2> HIDE DEF s, late
  <2> QED BY <2>1, <2>2 DEF SnapKnows
<1>5. reads'[i].snap = s /\ \A k \in 1..Len(reads) : k # i => reads'[k] = reads[k]
  <2>1. reads[i] \in SnapRead /\ i \in DOMAIN reads
    BY <1>1, <1>2
  <2> HIDE DEF s
  <2>2. reads'[i] = [reads[i] EXCEPT !.taken = TRUE, !.snap = s]
    BY <1>1, <2>1
  <2>3. [reads[i] EXCEPT !.taken = TRUE, !.snap = s].snap = s
    BY <2>1 DEF SnapRead
  <2> QED BY <1>1, <1>2, <2>2, <2>3
<1> HIDE DEF s, late
<1>6. (PickMade' <=> PickMade) /\ \A x : SnapKnows(x)' <=> SnapKnows(x)
  BY <1>1 DEF PickMade, SnapKnows
<1>7. ASSUME PickMade', picks' = <<>>, NEW k \in 1..Len(reads') PROVE ReadKnows(reads[k])'
  <2>1. PickMade /\ picks = <<>>
    BY <1>1, <1>6, <1>7
  <2>2. CASE k = i
    <3>1. SnapKnows(s)
      BY <1>4, <2>1
    <3>2. reads'[k].snap = s
      BY <1>5, <2>2
    <3> QED BY <1>1, <3>1, <3>2 DEF ReadKnows, SnapKnows
  <2>3. CASE k # i
    <3>1. reads'[k] = reads[k] /\ ReadKnows(reads[k])
      BY <1>3, <1>5, <1>7, <2>1, <2>3 DEF LandedInv
    <3> QED BY <1>1, <3>1 DEF ReadKnows, SnapKnows
  <2> QED BY <2>2, <2>3
<1> QED BY <1>1, <1>6, <1>7 DEF LandedInv

(* The server switches to the tab of a pick, which is still under way then. *)
LEMMA SwitchLands ==
    ASSUME PickInv, LandedInv, NEW i, Switch(i)
    PROVE  LandedInv'
<1>1. /\ i \in 1..Len(picks) /\ picks' = [picks EXCEPT ![i].done = TRUE]
      /\ UNCHANGED <<mode, serverTabs, reads, viewVars>>
      /\ IF picks[i].tab \in serverTabs THEN CurrentAmong(serverTabs, picks[i].tab)
         ELSE UNCHANGED current
      /\ IF IsChosen(picks[i].tab)
           THEN landed' = IF picks[i].tab \in serverTabs THEN "made" ELSE "moved"
           ELSE Moves(current')
  BY PickParts DEF Switch
<1>2. want' = want
  BY <1>1 DEF viewVars
<1>3. picks' # <<>>
  <2>1. DOMAIN picks' = DOMAIN picks /\ i \in DOMAIN picks
    BY <1>1, PickParts
  <2> QED BY <2>1
<1>4. CASE ~IsChosen(picks[i].tab)
  BY <1>1, <1>2, <1>3, <1>4, LandMoves
<1>5. CASE IsChosen(picks[i].tab) /\ picks[i].tab \notin serverTabs
  <2>1. landed' = "moved"
    BY <1>1, <1>5
  <2> QED BY <2>1, LandNone DEF PickMade
<1>6. CASE IsChosen(picks[i].tab) /\ picks[i].tab \in serverTabs
  <2>1. /\ want # None /\ want.tab = picks[i].tab /\ want.tab \in serverTabs
        /\ want.tab \in Tabs /\ landed' = "made"
        /\ CurrentAmong(serverTabs, want.tab)
    BY <1>1, <1>6, PickParts DEF IsChosen, ServerFits
  <2>2. want.group \in Groups /\ GroupOf[want.tab] = want.group
    BY <2>1, GroupsAre, PickParts DEF ShownFits, ChoiceOK, Selection, In
  <2>3. current'[want.group] = want.tab
    BY <2>1, <2>2 DEF CurrentAmong
  <2> QED BY <1>2, <1>3, <2>1, <2>3 DEF LandedInv
<1> QED BY <1>4, <1>5, <1>6

(* A tab is chosen, or its pick ends. *)
LEMMA PickedLands ==
    ASSUME PickInv, LandedInv,
           \/ \E t \in Tabs : SwitchShared(t) \/ SwitchOwn(t)
           \/ \E i \in 1 .. MaxPicks : PickEnds(i) \/ PickFails(i)
    PROVE  LandedInv'
<1>1. CASE \E t \in Tabs : SwitchShared(t)
  <2>1. landed' = "asked"
    BY <1>1 DEF SwitchShared
  <2> QED BY <2>1, LandNone DEF PickMade
<1>2. CASE \E t \in Tabs : SwitchOwn(t)
  <2>1. mode' = "own" /\ landed' = landed
    BY <1>2 DEF SwitchOwn, serverVars
  <2> QED BY <2>1, LandNone DEF PickMade, LandedInv
<1>3. CASE \E i \in 1 .. MaxPicks : PickEnds(i) \/ PickFails(i)
  <2>1. /\ UNCHANGED <<mode, current, want>> /\ reads' = Stale(reads)
        /\ landed' \in {landed, "moved"}
    BY <1>3 DEF PickEnds, PickFails, serverVars, viewVars
  <2>2. \A k \in 1..Len(reads') : ~reads'[k].fresh
    BY <2>1, BumpedIsStale
  <2>3. PickMade' => PickMade
    BY <2>1 DEF PickMade
  <2> QED BY <2>1, <2>2, <2>3 DEF LandedInv, ReadKnows
<1> QED BY <1>1, <1>2, <1>3

(* An operation ends: what it made is this device's choice, or nothing is. *)
LEMMA OpEndsLands ==
    ASSUME PickInv, LandedInv, Added \/ GroupMade \/ TabsClosed \/ OpFails
    PROVE  LandedInv'
<1>0. op.tabs \subseteq Tabs
  BY PickParts DEF OpFits
<1>1. UNCHANGED <<mode, landed, current, picks>>
  BY DEF Added, GroupMade, TabsClosed, OpFails, serverVars
<1>2. CASE RefreshSessions(reads) /\ UNCHANGED viewVars
  <2>1. NoneNew
    BY <1>2, SentNew, SentIsNotNew DEF RefreshSessions
  <2> QED BY <1>1, <1>2, <2>1, LandStays DEF viewVars
<1>3. CASE UNCHANGED reads /\ UNCHANGED viewVars
  BY <1>1, <1>3, LandStays DEF viewVars, NoneNew
<1>4. CASE TabsClosed
  <2>1. NoneNew
    BY <1>0, <1>4, SentNew, SentIsNotNew DEF TabsClosed
  <2> QED BY <1>1, <1>4, <2>1, LandStays DEF TabsClosed, viewVars
<1>5. CASE Added /\ mode = "own"
  BY <1>1, <1>5, LandNone DEF PickMade, LandedInv
<1>6. CASE \E t \in op.tabs : ShowNew([tab |-> None, group |-> GroupOf[t]])
  <2>1. want' # None => want'.tab = None
    BY <1>6 DEF ShowNew
  <2> QED BY <1>1, <2>1, LandNone DEF PickMade, LandedInv
<1> QED BY <1>2, <1>3, <1>4, <1>5, <1>6 DEF Added, GroupMade, OpFails

(* No step leaves it. *)
LEMMA LandedKept ==
    ASSUME PickInv, LandedInv, [PickNext]_pickVars
    PROVE  LandedInv'
<1>1. CASE OtherClient
  BY <1>1, LandMoves DEF OtherClient, viewVars
<1>2. CASE Serve
  BY <1>2, LandMoves DEF Serve, viewVars
<1>3. CASE Poll
  <2>1. {} \in SUBSET Tabs
    OBVIOUS
  <2>2. NoneNew
    BY <1>3, <2>1, SentNew, SentIsNotNew DEF Poll, RefreshSessions
  <2> QED BY <1>3, <2>2, LandStays DEF Poll, serverVars, viewVars
<1>4. CASE \E i \in 1 .. MaxReads : ReadFails(i)
  <2>1. NoneNew
    BY <1>4, PickParts, FailedIsNotNew DEF ReadFails
  <2> QED BY <1>4, <2>1, LandStays DEF ReadFails, serverVars, viewVars
<1>5. CASE \E i \in 1 .. MaxReads : ReadArrives(i)
  <2>1. PICK i \in 1..Len(reads) : ApplySnapshot(i)
    BY <1>5, PickParts DEF ReadArrives
  <2>2. NoneNew
    BY <2>1, ArrivedIsNotNew DEF ApplySnapshot, Applied
  <2>3. want' \in {want, None}
    BY <2>1 DEF ApplySnapshot, Remembered, viewVars
  <2> QED BY <1>5, <2>2, <2>3, LandStays DEF ReadArrives, serverVars, PickMade
<1>6. CASE \/ \E i \in 1 .. MaxReads : Take(i)
           \/ \E i \in 1 .. MaxPicks : Switch(i)
  BY <1>6, TakeLands, SwitchLands
<1>7. CASE \/ \E t \in Tabs : SwitchShared(t) \/ SwitchOwn(t)
           \/ \E i \in 1 .. MaxPicks : PickEnds(i) \/ PickFails(i)
  BY <1>7, PickedLands
<1>8. CASE \/ \E t \in Tabs : AskAdd(t) \/ AskGroup(t) \/ AskClose(t)
           \/ \E g \in Groups : AskCloseGroup(g)
  <2>1. UNCHANGED <<mode, serverVars, reads, picks, viewVars>>
    BY <1>8 DEF AskAdd, AskGroup, AskClose, AskCloseGroup, Ask
  <2> QED BY <2>1, LandStays DEF serverVars, viewVars, NoneNew
<1>9. CASE Added \/ GroupMade \/ TabsClosed \/ OpFails
  BY <1>9, OpEndsLands
<1>10. CASE UNCHANGED pickVars
  BY <1>10, LandStays DEF pickVars, NoneNew
<1> QED BY <1>1, <1>2, <1>3, <1>4, <1>5, <1>6, <1>7, <1>8, <1>9, <1>10
        DEF PickNext, ReadStep, PickStep

(* While the tab chosen is shown and its pick is over, no step shows another
   tab of the session without somebody having switched. *)
LEMMA SharedTabKept ==
    ASSUME PickInv, LandedInv, [PickNext]_pickVars
    PROVE  KeepsSharedTab
<1> SUFFICES ASSUME PickMade, want' = want, tabShown = want.tab,
                    want.tab \in listed', picks = <<>>
             PROVE  tabShown' = want.tab
  BY DEF KeepsSharedTab, PickMade
<1>0. /\ mode = "tmux" /\ want # None /\ want.tab # None /\ ShownFits
      /\ want.group \in Groups /\ GroupOf[want.tab] = want.group
      /\ SelGroup = want.group /\ SelGroup # None
  <2>1. mode = "tmux" /\ want # None /\ want.tab # None /\ ShownFits
    BY PickParts DEF PickMade
  <2>2. want \in Selection /\ want.group # None /\ want.tab \in In(want.group, Tabs)
    BY <2>1 DEF ShownFits, ChoiceOK
  <2>3. want.group \in Groups /\ GroupOf[want.tab] = want.group
    BY <2>2 DEF Selection, In
  <2>4. sel # None /\ sel.group = want.group
    BY <2>1 DEF ShownFits, ChosenIsPicked
  <2>5. SelGroup = want.group
    BY <2>4 DEF SelGroup
  <2> QED BY <2>1, <2>2, <2>3, <2>5
<1>1. CASE \E i \in 1 .. MaxReads : ReadArrives(i)
  <2>1. PICK i \in 1..Len(reads) : ApplySnapshot(i) /\ reads[i].taken
    BY <1>1, PickParts DEF ReadArrives
  <2> DEFINE s == reads[i].snap
  <2>2. CASE tabShown' = tabShown
    BY <2>2
  <2>3. CASE tabShown' # tabShown
    <3>1. /\ reads[i].fresh /\ ~reads[i].old /\ listed' = s.tabs
          /\ ~Waiting(s) /\ tabShown' = Pick(s)
      BY <2>1, <2>3 DEF ApplySnapshot, ShowPicked, viewVars
    <3>2. SnapKnows(s)
      BY <2>1, <3>1 DEF LandedInv, ReadKnows
    <3> HIDE DEF s
    <3>3. s.current[want.group] = want.tab
      BY <3>1, <3>2 DEF SnapKnows
    <3>4. Pick(s) = want.tab
      BY <1>0, <3>3 DEF Pick
    <3> QED BY <3>1, <3>4
  <2> QED BY <2>2, <2>3
<1>2. CASE \E t \in Tabs : SwitchShared(t)
  <2>1. PICK t \in Tabs : want' = Chosen(t) /\ tabShown' = t
    BY <1>2 DEF SwitchShared, Choose
  <2>2. Chosen(t).tab = t
    BY DEF Chosen
  <2> QED BY <2>1, <2>2
<1>3. CASE \E t \in Tabs : SwitchOwn(t)
  BY <1>0, <1>3 DEF SwitchOwn
<1>4. CASE tabShown' = tabShown
  BY <1>4
<1>5. CASE \E i \in 1 .. MaxReads : Take(i) \/ ReadFails(i)
  BY <1>4, <1>5 DEF Take, ReadFails, viewVars
<1>6. CASE \E i \in 1 .. MaxPicks : PickStep(i)
  BY <1>4, <1>6 DEF PickStep, Switch, PickEnds, PickFails, viewVars
<1>7. CASE OtherClient \/ Serve \/ Poll
  BY <1>4, <1>7 DEF OtherClient, Serve, Poll, viewVars
<1>8. CASE \/ \E t \in Tabs : AskAdd(t) \/ AskGroup(t) \/ AskClose(t)
           \/ \E g \in Groups : AskCloseGroup(g)
  BY <1>4, <1>8 DEF AskAdd, AskGroup, AskClose, AskCloseGroup, Ask, viewVars
<1>9. CASE Added \/ GroupMade \/ TabsClosed \/ OpFails
  BY <1>4, <1>9 DEF Added, GroupMade, TabsClosed, OpFails, ShowNew, viewVars
<1>10. CASE UNCHANGED pickVars
  BY <1>4, <1>10 DEF pickVars
<1> QED BY <1>1, <1>2, <1>3, <1>5, <1>6, <1>7, <1>8, <1>9, <1>10
        DEF PickNext, ReadStep

(* No tab was chosen when the page starts. *)
LEMMA LandedStarts == PickInit => LandedInv
<1> SUFFICES ASSUME PickInit PROVE LandedInv
  OBVIOUS
<1>1. landed = "moved"
  BY DEF PickInit
<1> QED BY <1>1 DEF LandedInv, PickMade

-----------------------------------------------------------------------------
(* The pick: the theorems.                                                  *)

\* In every behaviour the reads under way know what was closed before they
\* were sent, and the choice is what was picked.
THEOREM PickInductive == PickSpec => []PickInv
<1>1. PickInit => PickInv
  BY PickStarts
<1>2. PickInv /\ [PickNext]_pickVars => PickInv'
  BY PickStepKeeps
<1> QED BY <1>1, <1>2, PTL DEF PickSpec

\* While nobody has switched away from the tab chosen, every reply that may
\* still show a tab once its pick is over lists it as the current one.
THEOREM LandedInductive == PickSpec => []LandedInv
<1>1. PickInv /\ LandedInv /\ [PickNext]_pickVars => LandedInv'
  BY LandedKept
<1> QED BY <1>1, LandedStarts, PickInductive, PTL DEF PickSpec

\* The lists, picks and replies of useLocalSessions are well-formed.
THEOREM PickTypeCorrect == PickSpec => []PickTypeOK
<1>1. PickInv /\ LandedInv => PickTypeOK
  <2> SUFFICES ASSUME PickInv, LandedInv PROVE PickTypeOK
    OBVIOUS
  <2>1. /\ ServerFits /\ OpFits /\ ShownFits /\ PicksTyped
        /\ SnapsFit(reads, closed, serverTabs)
        /\ mode \in {"tmux", "own"} /\ events \in 0..MaxEvents
        /\ DOMAIN reads = 1..Len(reads) /\ DOMAIN picks = 1..Len(picks)
    BY PickParts
  <2>2. \A i \in DOMAIN reads :
           reads[i] \in [fresh : BOOLEAN, old : BOOLEAN, taken : BOOLEAN,
                         after : SUBSET Tabs, snap : Snap]
    BY <2>1, ElementOfSeq DEF SnapsFit, SnapRead
  <2>3. \A i \in DOMAIN picks : picks[i] \in [tab : Tabs, done : BOOLEAN]
    BY <2>1, ElementOfSeq DEF PicksTyped
  <2>4. \A x \in {sel, want} \ {None} :
           x.group # None /\ x.tab \in {None} \cup In(x.group, Tabs)
    BY <2>1 DEF ShownFits, ChoiceOK
  <2>5. landed \in {"asked", "made", "moved"}
    BY DEF LandedInv
  <2> QED BY <2>1, <2>2, <2>3, <2>4, <2>5
          DEF PickTypeOK, ServerFits, SnapsFit, OpFits, ShownFits, ChoiceOK
<1> QED BY <1>1, PickInductive, LandedInductive, PTL

\* No reply that comes late brings back a tab closed here or takes back the
\* user's pick (applySnapshot), for any tabs, groups and reads under way: a
\* device's own pick, the session picked, and of a session all share the very
\* tab picked, once the server has switched to it, until somebody switches away.
THEOREM NothingUndone == PickSpec => RepliesUndoNothing
<1>1. PickInv /\ PickInv' /\ LandedInv /\ [PickNext]_pickVars
        => [ClosedStaysGone' /\ KeepsPick /\ KeepsSharedTab]_pickVars
  <2> SUFFICES ASSUME PickInv, PickInv', LandedInv, [PickNext]_pickVars
               PROVE  (ClosedStaysGone' /\ KeepsPick /\ KeepsSharedTab)
                      \/ UNCHANGED pickVars
    OBVIOUS
  <2>1. ClosedStaysGone'
    BY DEF PickInv
  <2>2. KeepsSharedTab
    BY SharedTabKept
  <2> QED BY <2>1, <2>2, PickStepKeeps
<1>2. PickSpec => [][PickNext]_pickVars
  BY PTL DEF PickSpec
<1> QED BY <1>1, <1>2, PickInductive, LandedInductive, PTL DEF RepliesUndoNothing

-----------------------------------------------------------------------------
(* The views together.                                                     *)

\* Every view keeps the types of its variables: the session list, the Files
\* view and the uploads.
THEOREM ViewsTypeCorrect == PickSpec /\ FilesSpec /\ UploadsSpec => []ViewsTyped
<1>1. PickTypeOK /\ FilesTypeOK /\ UploadsTypeOK => ViewsTyped
  BY DEF ViewsTyped
<1> QED BY <1>1, PickTypeCorrect, FilesTypeCorrect, UploadsTypeCorrect, PTL

=============================================================================
