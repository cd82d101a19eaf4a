----------------------------- MODULE FileDrafts -----------------------------
(***************************************************************************)
(* The unsaved changes of a pane's files: the drafts each page of the app  *)
(* holds (pwa/src/hooks/use-files.ts) and what it keeps of them in the     *)
(* storage every page of the browser shares (utils/files-persist.ts).      *)
(*                                                                         *)
(* A page runs one handler at a time, and a handler is one step; what a    *)
(* page wrote or removed reaches the others later, as storage events, in   *)
(* order.  A draft is its text; one without changes is as good as none,    *)
(* and is None here.                                                       *)
(*                                                                         *)
(* Left out: panes (their keys keep them apart: one is enough), what else  *)
(* is kept, expiry, and focus windows, which keep nothing.                 *)
(***************************************************************************)
EXTENDS Common, Integers, FiniteSets, Sequences, SequencesExt

CONSTANTS
    Pages,      \* the pages of the app the browser may have open
    Files,      \* paths under one root of a pane
    Secret,     \* those the server calls sensitive
    Texts,      \* texts with changes, of a file that is not sensitive
    Hidden,     \* the text with changes of a sensitive file
    MaxOuts,    \* how often a page signs out
    MaxUnread      \* storage events on their way to a page when it is written

ASSUME DraftsAssumption ==
    /\ None \notin Texts \cup {Hidden} /\ Hidden \notin Texts
    /\ Secret \subseteq Files /\ None \notin Files /\ IsFiniteSet(Files)
    /\ {MaxOuts, MaxUnread} \subseteq Nat

VARIABLES
    opened,     \* the pages that are open
    draft,      \* drafts: what each page holds of each file
    kept,       \* kept: the drafts the page takes for stored as they are
    asks,       \* pages that ask before they are left (beforeunload)
    may,        \* keepDrafts
    hydrated,   \* the drafts stored were read back
    disabled,   \* the page signed out, or saw another do
    markOf,     \* signedOutMark
    disk,       \* the storage: what is kept of each file
    mark,       \* SIGNED_OUT_KEY
    coming,     \* the storage events on their way to each page: the file
                \* whose draft changed, None for a sign-out
    latest,     \* history: what the last page to change a draft of each file
                \* made of it, but for edits that a signed-out page cannot store
    wiped       \* drafts a page held as kept when it became view-only

draftsVars == <<opened, draft, kept, asks, may, hydrated, disabled, markOf,
                disk, mark, coming, latest, wiped>>

NoDraft == [text |-> None, reveal |-> FALSE]
NoRecord == [text |-> None, mark |-> 0]

IsDirty(d) == d.text # None

Dirty(p) == {f \in Files : IsDirty(draft[p][f])}

DraftsTypeOK ==
    /\ opened \subseteq Pages
    /\ draft \in [Pages -> [Files -> [text : Texts \cup {None, Hidden},
                                      reveal : BOOLEAN]]]
    /\ kept \in [Pages -> SUBSET Files]
    /\ wiped \in [Pages -> SUBSET Files]
    /\ markOf \in [Pages -> 0..MaxOuts] /\ mark \in 0..MaxOuts
    /\ disk \in [Files -> [text : Texts \cup {None, Hidden}, mark : 0..MaxOuts]]
    /\ may \subseteq Pages
    /\ asks \cup hydrated \cup disabled \subseteq opened
    /\ \A p \in Pages \ opened : Dirty(p) = {} /\ kept[p] = {} /\ coming[p] = <<>>
    \* A draft taken for stored has changes, and a page asks exactly when
    \* one with changes is not
    /\ \A p \in opened :
        /\ kept[p] \subseteq Dirty(p)
        /\ p \in asks <=> ~(Dirty(p) \subseteq kept[p])

DraftsInit ==
    /\ opened = {}
    /\ draft = [p \in Pages |-> [f \in Files |-> NoDraft]]
    /\ kept = [p \in Pages |-> {}]
    /\ asks = {}
    /\ may = Pages
    /\ hydrated = {}
    /\ disabled = {}
    /\ markOf = [p \in Pages |-> 0]
    /\ disk = [f \in Files |-> NoRecord]
    /\ mark = 0
    /\ coming = [p \in Pages |-> <<>>]
    /\ latest = [f \in Files |-> None]
    /\ wiped = [p \in Pages |-> {}]

(***************************************************************************)
(* Storage: one page changes it, and the others are told.  Removing what   *)
(* is not there tells nothing; a write always does (its time is new).      *)
(***************************************************************************)
Stored == {f \in Files : disk[f] # NoRecord}

Without(fs) == [f \in Files |-> IF f \in fs THEN NoRecord ELSE disk[f]]

Tell(p, events) ==
    coming' = [q \in Pages |-> IF q \in opened \ {p} THEN coming[q] \o events
                                                     ELSE coming[q]]

Removals(fs) == SetToSeq(fs \cap Stored)

\* guardUnload, once p holds drafts d and takes those of k for stored
Guard(p, d, k) ==
    asks' = IF \E f \in Files : IsDirty(d[f]) /\ f \notin k
            THEN asks \cup {p} ELSE asks \ {p}

Holds(p, d, k) ==
    /\ draft' = [draft EXCEPT ![p] = d]
    /\ kept' = [kept EXCEPT ![p] = k]
    /\ Guard(p, d, k)

\* signedOutElsewhere and forgetAll
Forget(p) ==
    /\ disk' = Without(Files)
    /\ disabled' = disabled \cup {p}
    /\ Holds(p, [f \in Files |-> NoDraft], {})

(***************************************************************************)
(* A page opens: it measures what is stored and reads the mark.  It may be *)
(* left at any time, whatever it asked first.                              *)
(***************************************************************************)
OpenPage(p) ==
    /\ p \notin opened
    /\ opened' = opened \cup {p}
    /\ markOf' = [markOf EXCEPT ![p] = mark]
    /\ UNCHANGED <<draft, kept, asks, may, hydrated, disabled, disk, mark,
                   coming, latest, wiped>>

LeavePage(p) ==
    /\ p \in opened
    /\ opened' = opened \ {p}
    /\ draft' = [draft EXCEPT ![p] = [f \in Files |-> NoDraft]]
    /\ kept' = [kept EXCEPT ![p] = {}]
    /\ asks' = asks \ {p}
    /\ hydrated' = hydrated \ {p}
    /\ disabled' = disabled \ {p}
    /\ markOf' = [markOf EXCEPT ![p] = 0]
    /\ coming' = [coming EXCEPT ![p] = <<>>]
    /\ wiped' = [wiped EXCEPT ![p] = {}]
    /\ may' = may \cup {p}
    /\ UNCHANGED <<disk, mark, latest>>

(***************************************************************************)
(* keepDraft: the draft of f among p's drafts d is written at once, or     *)
(* what is kept of it removed.  The drafts of from were removed before.    *)
(***************************************************************************)
Keeps(p, d) == IsDirty(d) /\ ~d.reveal /\ p \in may

\* Mutant of SignedIn: a page that heard of no sign-out trusts itself.
TakesItself(p) == p \notin disabled

\* The mark is as the page found it
SignedIn(p) == markOf[p] = mark

Writes(p, d, from, f) ==
    /\ Keeps(p, d[f]) /\ p \notin disabled /\ SignedIn(p)
    /\ disk' = [Without(from) EXCEPT ![f] = [text |-> d[f].text,
                                             mark |-> markOf[p]]]
    /\ Holds(p, d, (kept[p] \ from) \cup {f})
    /\ Tell(p, Removals(from) \o <<f>>)
    /\ latest' = [g \in Files |-> IF g = f THEN d[f].text
                                  ELSE IF g \in from THEN None ELSE latest[g]]
    /\ UNCHANGED disabled

\* Nothing to keep; or too much, by what the page counts as kept; or the
\* storage refuses the write, which it may at any time
Drops(p, d, from, f) ==
    /\ Keeps(p, d[f]) => p \notin disabled
    /\ disk' = Without(from \cup {f})
    /\ Holds(p, d, kept[p] \ (from \cup {f}))
    /\ Tell(p, Removals(from \cup {f}))
    /\ latest' = [g \in Files |-> IF g = f THEN d[f].text
                                  ELSE IF g \in from THEN None ELSE latest[g]]
    /\ UNCHANGED disabled

\* A page that is signed out writes nothing.  What it makes of a draft is its
\* own: a page signed in since may hold another text of the file and has it
\* stored, which is what stays.
Refuses(p, d, from, f) ==
    /\ Keeps(p, d[f]) /\ p \in disabled
    /\ disk' = Without(from)
    /\ Holds(p, d, kept[p] \ (from \cup {f}))
    /\ Tell(p, Removals(from))
    /\ latest' = [g \in Files |-> IF g \in from THEN None ELSE latest[g]]
    /\ UNCHANGED disabled

\* The write finds that another page signed out: nothing is stored, and no page
\* that is signed in changed anything.
FindsOut(p, d, from, f) ==
    /\ Keeps(p, d[f]) /\ p \notin disabled /\ ~SignedIn(p)
    /\ Forget(p)
    /\ Tell(p, Removals(Files))
    /\ UNCHANGED latest

KeepDraft(p, d, from, f) ==
    /\ \A q \in opened : Len(coming[q]) <= MaxUnread
    /\ \/ Writes(p, d, from, f)
       \/ Drops(p, d, from, f)
       \/ Refuses(p, d, from, f)
       \/ FindsOut(p, d, from, f)
    /\ wiped' = [wiped EXCEPT ![p] = @ \ (from \cup {f})]
    /\ UNCHANGED <<opened, may, hydrated, markOf, mark>>

(***************************************************************************)
(* setDraftOf: the editor sets a draft, with changes or without (the file  *)
(* was read, saved, or its changes discarded).                             *)
(***************************************************************************)
SetDraft(p, f, next) ==
    p \in opened /\ KeepDraft(p, [draft[p] EXCEPT ![f] = next], {}, f)

EditFile(p, f, t) ==
    LET reveal == draft[p][f].reveal \/ f \in Secret
    IN /\ t # draft[p][f].text
       /\ t \in IF reveal THEN {Hidden} ELSE Texts
       /\ SetDraft(p, f, [text |-> t, reveal |-> reveal])

SettleFile(p, f) == SetDraft(p, f, NoDraft)

\* A file stays sensitive under its new name
RevealAfter(d, g) == d.reveal \/ g \in Secret

\* moveDrafts: f was renamed to g, which has no unsaved changes here
MoveDrafts(p, f, g) ==
    /\ p \in opened
    /\ f # g /\ f \in Dirty(p) /\ g \notin Dirty(p)
    /\ LET next == [draft[p][f] EXCEPT !.reveal = RevealAfter(draft[p][f], g)]
       IN KeepDraft(p, [draft[p] EXCEPT ![f] = NoDraft, ![g] = next], {f}, g)

(***************************************************************************)
(* hydrateDrafts: a snapshot names the pane, and what this client may do.  *)
(***************************************************************************)
HydrateFull(p) ==
    /\ p \in opened
    /\ may' = may \cup {p}
    /\ hydrated' = hydrated \cup {p}
    /\ LET back == IF p \in hydrated \cup disabled THEN {}
                   ELSE {f \in Stored : draft[p][f] = NoDraft}
           d == [f \in Files |-> IF f \in back
                                 THEN [text |-> disk[f].text, reveal |-> FALSE]
                                 ELSE draft[p][f]]
       IN IF back = {} THEN UNCHANGED <<draft, kept, asks>>
                       ELSE Holds(p, d, kept[p] \cup back)
    /\ UNCHANGED <<opened, disabled, markOf, disk, mark, coming,
                   latest, wiped>>

HydrateView(p) ==
    /\ p \in opened
    /\ \A q \in opened : Len(coming[q]) <= MaxUnread
    /\ may' = may \ {p}
    /\ disk' = Without(Files)
    /\ Tell(p, Removals(Files))
    /\ wiped' = [wiped EXCEPT ![p] = @ \cup kept[p]]
    /\ UNCHANGED <<opened, draft, kept, asks, hydrated, disabled, markOf, mark,
                   latest>>

(***************************************************************************)
(* signedOut: this page signs out.  It is left for the sign-in page then,  *)
(* having asked about every draft with changes.                            *)
(***************************************************************************)
SignOut(p) ==
    /\ p \in opened \ disabled
    /\ mark < MaxOuts
    /\ \A q \in opened : Len(coming[q]) <= MaxUnread
    /\ disabled' = disabled \cup {p}
    /\ disk' = Without(Files)
    /\ mark' = mark + 1
    /\ Holds(p, draft[p], {})
    /\ Tell(p, Removals(Files) \o <<None>>)
    /\ UNCHANGED <<opened, may, hydrated, markOf, latest, wiped>>

(***************************************************************************)
(* onStorage: the first event on its way to p arrives.                     *)
(***************************************************************************)
\* Mutant of UnkeepDraft: a draft another page changed is taken for stored.
Unkept(p, f) == kept[p]

\* unkeepDraft
UnkeepDraft(p, f) == kept[p] \ {f}

StorageEvent(p) ==
    /\ coming[p] # <<>>
    /\ LET e == Head(coming[p])
           rest == [coming EXCEPT ![p] = Tail(@)]
           after == IF e = None THEN Removals(Files) ELSE <<>>
       IN /\ e = None => \A q \in opened \ {p} : Len(coming[q]) <= MaxUnread
          /\ coming' = [q \in Pages |-> IF q \in opened \ {p}
                                        THEN rest[q] \o after ELSE rest[q]]
          /\ IF e = None THEN Forget(p)
             ELSE /\ Holds(p, draft[p], UnkeepDraft(p, e))
                  /\ UNCHANGED <<disk, disabled>>
    /\ UNCHANGED <<opened, may, hydrated, markOf, mark, latest, wiped>>

DraftsNext ==
    \E p \in Pages :
        \/ OpenPage(p) \/ LeavePage(p)
        \/ HydrateFull(p) \/ HydrateView(p)
        \/ SignOut(p) \/ StorageEvent(p)
        \/ \E f \in Files :
            \/ SettleFile(p, f)
            \/ \E t \in Texts \cup {Hidden} : EditFile(p, f, t)
            \/ \E g \in Files : MoveDrafts(p, f, g)

DraftsSpec == DraftsInit /\ [][DraftsNext]_draftsVars

(***************************************************************************)
(* Properties                                                              *)
(***************************************************************************)
Told(p, f) == \E i \in 1..Len(coming[p]) : coming[p][i] = f

\* A page that does not ask loses nothing when it is left: each of its
\* drafts with changes is stored with its text, unless another page changed
\* that since and the event is on its way (use-files.ts:1214: "Leaving the
\* page asks first while a file has unsaved changes the device does not
\* keep").  The drafts a page held when it was made view-only are left out:
\* they are removed and it does not ask.
LeavingLosesNothing ==
    \A p \in opened \ asks : \A f \in Dirty(p) \ wiped[p] :
        disk[f].text = draft[p][f].text \/ Told(p, f)

\* What is stored of a file is what the last page to change its draft made of
\* it (of those that may store it), never an older text: not after a write that failed, a save, a
\* discard or a rename (use-files.ts:1226-1230, files-persist.ts "The older
\* text is not kept either").
NoOldText ==
    \A f \in Files : disk[f].text \in {None, latest[f]}

\* Nothing kept before a page signed out is there after it, and nothing is
\* written back by a page that was open then, even before it is told
\* (write, files-persist.ts: "nothing is written back after its clear").
NothingBack ==
    \A f \in Files : disk[f] # NoRecord => disk[f].mark = mark

\* The text of a sensitive file is never stored, whatever the file is
\* renamed to, and no draft of a sensitive name is.
SecretNotStored ==
    \A f \in Files : disk[f] # NoRecord =>
        f \notin Secret /\ disk[f].text # Hidden

\* What is stored is the latest text of each draft (of a page that may store
\* it), from since the last sign-out, and of no sensitive file.
StoredIsRight == NoOldText /\ NothingBack /\ SecretNotStored

\* To the pages together the storage is one map of texts: whatever write
\* fails, however late a page hears of the others, a file has the text its
\* draft was last made (by a page not signed out), or none, and after a sign-out only pages opened since
\* it write (keepDraft, moveDrafts, hydrateDrafts, signedOut and onStorage
\* together).
Store ==
    INSTANCE DraftStore WITH
        stored <- [f \in Files |-> disk[f].text],
        writers <- {p \in opened : markOf[p] = mark}

StoredAsPromised == Store!Spec

=============================================================================
