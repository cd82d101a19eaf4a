----------------------------- MODULE FilesStore -----------------------------
(***************************************************************************)
(* The Files view of one pane: createStore of pwa/src/hooks/use-files.ts   *)
(* with the tab rules of pwa/src/utils/file-tabs.ts.                       *)
(*                                                                         *)
(* The page is one thread; reads of the tree are answered in any order,    *)
(* and meanwhile the pane changes directory, a Place goes, and the user    *)
(* opens, edits, follows, closes and switches.  A read carries what its    *)
(* caller does with it (`then'); `fresh' says generation was not bumped    *)
(* since it was sent.                                                      *)
(*                                                                         *)
(* Left out: what a directory holds (a read finds a path or does not), the *)
(* tree's open directories, scroll offsets, the files opened lately, and   *)
(* what is kept on the device (FileDrafts).                                *)
(***************************************************************************)
EXTENDS Common, Integers, FiniteSets, Sequences, SequencesExt

CONSTANTS
    Roots,
    Paths,      \* of files, under any root
    Place,      \* a Place the server offers beside the pane's folder
    PlaceRoot,  \* its root
    Ids,        \* ids of tabs, given again once nothing names them
    MaxTabs,    \* MAX_TABS
    MaxOpen,    \* tabs there may be at once (those with changes do not count)
    MaxTreeReads,
    MaxTrail,   \* links followed from one tab
    MaxDone     \* things done by the user and by others

ASSUME FilesAssumption ==
    /\ PlaceRoot \in Roots
    /\ None \notin Roots \cup Paths \cup {Place}
    /\ Ids \subseteq Nat /\ {MaxTabs, MaxTrail, MaxDone, MaxTreeReads} \subseteq Nat
    /\ MaxTabs > 0

VARIABLES
    paneRoot,   \* the pane's folder on the server
    offered,    \* the server offers the Place
    toDo,       \* what may still be done
    root,       \* state.root
    place,      \* state.place
    listing,    \* the root each directory shown was read under (top and sub)
    openTabs,   \* state.tabs
    active,     \* state.activeId
    asked,      \* state.pendingRootClose
    keptOpen,   \* tabs the user chose to keep since the root last moved
    dirty,      \* files with unsaved changes
    switching,
    treeReads,  \* reads under way
    movedEarly  \* history: the pane moved under a read sent before any root
                \* was known, and no move of the root was noticed since

serverFiles == <<paneRoot, offered>>
tabState == <<openTabs, active, asked, keptOpen, dirty>>
filesVars == <<serverFiles, toDo, root, place, listing, tabState, switching,
               treeReads, movedEarly>>

File == [root : Roots, path : Paths]
Tab == [id : Ids, root : Roots, path : Paths, pinned : BOOLEAN, back : Seq(Paths)]
FileOf(t) == [root |-> t.root, path |-> t.path]
TabIds == {t.id : t \in ToSet(openTabs)}
HasChanges(t) == FileOf(t) \in dirty
Here(t) == t.root = root
Active == CHOOSE t \in ToSet(openTabs) : t.id = active

\* place(): where the user is.
Spot == IF active = None THEN <<None, None>> ELSE <<active, Active.path>>

FilesTypeOK ==
    /\ paneRoot \in Roots /\ offered \in BOOLEAN /\ toDo \in 0 .. MaxDone
    /\ root \in Roots \cup {None} /\ place \in {None, Place}
    /\ listing \in [{"top", "sub"} -> Roots \cup {None}]
    /\ \A t \in ToSet(openTabs) :
          t.id \in Ids /\ FileOf(t) \in File /\ t.pinned \in BOOLEAN
          /\ ToSet(t.back) \subseteq Paths
    /\ Cardinality(TabIds) = Len(openTabs)
    /\ active \in TabIds \cup {None}
    /\ asked \subseteq TabIds /\ keptOpen \subseteq TabIds
    /\ dirty \subseteq File /\ {switching, movedEarly} \subseteq BOOLEAN
    /\ \A r \in ToSet(treeReads) :
          /\ r.fresh \in BOOLEAN /\ r.dir \in {"top", "sub"}
          /\ r.may \subseteq Roots /\ r.may # {}

------------------------------------------------------------------------------
(* Reads.                                                                  *)

Plain == [kind |-> "none", path |-> None, at |-> <<None, None>>, again |-> FALSE]
Then(kind, p) == [kind |-> kind, path |-> p, at |-> Spot, again |-> FALSE]

\* A read of dir sent with r in state.root and pl in state.place.
NewTreeRead(dir, r, pl, then) ==
    [fresh |-> TRUE, dir |-> dir, root |-> r, place |-> pl,
     may |-> {IF pl = None THEN paneRoot ELSE PlaceRoot}, then |-> then]

\* The view is shown, and loads the tree.
FilesInit ==
    /\ paneRoot \in Roots /\ offered = TRUE /\ toDo = MaxDone
    /\ root = None /\ place = None
    /\ listing = [d \in {"top", "sub"} |-> None]
    /\ openTabs = <<>> /\ active = None /\ asked = {} /\ keptOpen = {}
    /\ dirty = {} /\ switching = FALSE /\ movedEarly = FALSE
    /\ treeReads = <<NewTreeRead("top", None, None, Plain)>>

\* generation is bumped: what the reads under way bring is for another tree.
Outdated(rs) == [i \in DOMAIN rs |-> [rs[i] EXCEPT !.fresh = FALSE]]

Send(dir, then) ==
    /\ Len(treeReads) < MaxTreeReads
    /\ treeReads' = Append(treeReads, NewTreeRead(dir, root, place, then))

\* A read whose answer names the root: it was sent before any was known.
Rootless(r) == r.fresh /\ r.root = None

\* The pane changes directory.
PaneMoves ==
    /\ paneRoot' \in Roots \ {paneRoot}
    /\ movedEarly' = (movedEarly \/ \E r \in ToSet(treeReads) : Rootless(r) /\ r.place = None)
    /\ treeReads' = [i \in DOMAIN treeReads |->
          IF treeReads[i].place # None THEN treeReads[i]
          ELSE [treeReads[i] EXCEPT !.may = @ \cup {paneRoot'}]]
    /\ UNCHANGED <<offered, root, place, listing, tabState, switching>>

PlaceGoes ==
    /\ offered /\ offered' = FALSE
    /\ UNCHANGED <<paneRoot, root, place, listing, tabState, switching,
                   treeReads, movedEarly>>

------------------------------------------------------------------------------
(* Tabs.                                                                   *)

\* The tabs, the one shown, the files with changes and the tabs kept, as a
\* value that operations pass on.
FileTabs == [tabs |-> openTabs, active |-> active, dirty |-> dirty, kept |-> keptOpen]

Become(v) ==
    /\ openTabs' = v.tabs /\ active' = v.active
    /\ dirty' = v.dirty
    /\ keptOpen' = v.kept \cap {t.id : t \in ToSet(v.tabs)}

\* Mutant of ShownAfter: the tab shown is not looked at.
ShownStill(v, gone) == v.active

\* The tab shown once the tabs in gone are closed: to the right, else to the
\* left of the one that was.
ShownAfter(v, gone) ==
    IF v.active \notin gone THEN v.active
    ELSE LET at == CHOOSE i \in DOMAIN v.tabs : v.tabs[i].id = v.active
             rest == {i \in DOMAIN v.tabs : v.tabs[i].id \notin gone}
             right == {i \in rest : i > at}
         IN  IF right # {} THEN v.tabs[Min(right)].id
             ELSE IF rest # {} THEN v.tabs[Max(rest)].id
             ELSE None

\* closeTab, for each tab of gone: its changes go with it.
Closed(v, gone) ==
    LET ts == {t \in ToSet(v.tabs) : t.id \in gone}
    IN  [tabs |-> Remaining(v.tabs, ts),
         active |-> ShownAfter(v, gone),
         dirty |-> v.dirty \ {FileOf(t) : t \in ts},
         kept |-> v.kept \ gone]

\* Mutant of MayClose: a tab with changes makes room too.
MayCloseAny(v, t) == t.id # v.active

\* A tab that closes to make room: not the one shown, and without changes.
MayClose(v, t) == t.id # v.active /\ FileOf(t) \notin v.dirty

\* enforceCap: the least recently used go, whichever those are.
Capped(v) ==
    LET clean == {t.id : t \in {u \in ToSet(v.tabs) : MayClose(v, u)}}
        over == Len(v.tabs) - MaxTabs
    IN  IF over <= 0 THEN {v}
        ELSE {Closed(v, gone) : gone \in {g \in SUBSET clean :
                Cardinality(g) = Min({over, Cardinality(clean)})}}

\* The tab a file opened without pin takes the place of.
Previews(v, pin) ==
    {i \in DOMAIN v.tabs :
        ~pin /\ ~v.tabs[i].pinned /\ FileOf(v.tabs[i]) \notin v.dirty}

\* The tabs with t after the one shown; a preview tab is kept then.
Beside(v, t, pin) ==
    LET before == {i \in DOMAIN v.tabs : v.tabs[i].id = v.active}
        ts == [i \in DOMAIN v.tabs |-> [v.tabs[i] EXCEPT !.pinned = @ \/ ~pin]]
    IN  InsertAt(ts, 1 + (IF before = {} THEN Len(ts) ELSE Max(before)), t)

\* An id that no tab has, and no read under way was sent from.
FreeIds == Ids \ (TabIds \cup {r.then.at[1] : r \in ToSet(treeReads)})
FreshId == CHOOSE i \in FreeIds : TRUE

\* openFile and openTab: the file's own tab, in place of the preview tab, or a
\* new one.
Opened(v, r, p, pin) ==
    LET found == {i \in DOMAIN v.tabs : FileOf(v.tabs[i]) = [root |-> r, path |-> p]}
        t == [id |-> FreshId, root |-> r, path |-> p, pinned |-> pin, back |-> <<>>]
        ps == Previews(v, pin)
    IN  IF found # {}
          THEN {[v EXCEPT !.tabs[Min(found)].pinned = @ \/ pin,
                          !.active = v.tabs[Min(found)].id]}
        ELSE IF Len(v.tabs) = MaxOpen \/ FreeIds = {} THEN {}
        ELSE Capped([v EXCEPT
               !.tabs = IF ps = {} THEN Beside(v, t, pin) ELSE [@ EXCEPT ![Min(ps)] = t],
               !.active = t.id])

StillAsked(ids) == asked' = ids \cap {t.id : t \in ToSet(openTabs')}

------------------------------------------------------------------------------
(* The root moves.                                                         *)

\* The tabs that close when the root becomes r.
Moved(r) == {t.id : t \in {u \in ToSet(openTabs) : u.root # r /\ ~HasChanges(u)}}

\* Mutant of Asked: one asked about before stays asked about.
AskedMore(r) == asked \cup {t.id : t \in {u \in ToSet(openTabs) : u.root # r}}

\* Those the user is asked about then.
Asked(r) == {t.id : t \in {u \in ToSet(openTabs) : u.root # r}}

\* Nothing of the tree is listed.
Unlisted == [d \in {"top", "sub"} |-> None]

\* rootChanged: the tree starts again, the reads rs being under way; next are
\* those sent on.  From then on file, if one was asked for, opens.
RootChanged(r, pl, rs, next, file) ==
    LET v == [Closed(FileTabs, Moved(r)) EXCEPT !.kept = {}] IN
    /\ root' = r
    /\ switching' = FALSE /\ movedEarly' = FALSE
    /\ IF file = None THEN Become(v) ELSE \E w \in Opened(v, r, file, FALSE) : Become(w)
    /\ StillAsked(Asked(r))
    /\ listing' = Unlisted
    /\ treeReads' = Outdated(rs) \o <<NewTreeRead("top", r, pl, Plain)>> \o next

\* switchTo a source other than the one shown, whose root is r when known.
SwitchTo(pl, r, rs, next, file) ==
    /\ place' = pl
    /\ IF r \notin {None, root}
         THEN RootChanged(r, pl, rs, next, file)
         ELSE /\ switching' = TRUE
              /\ listing' = Unlisted
              /\ treeReads' = Outdated(rs) \o <<NewTreeRead("top", root, pl, Plain)>> \o next
              /\ UNCHANGED <<root, tabState, movedEarly>>

------------------------------------------------------------------------------
(* Answers.                                                                *)

\* What follows a read that brought its directory: a link opens its file in
\* the tab it is in or in one of its own, a file made or found opens pinned or
\* as picked.
Follows(then) ==
    \/ UNCHANGED tabState
    \/ /\ then.kind # "none" /\ (then.kind = "reveal" \/ Spot = then.at)
       /\ \E newTab, fresh \in BOOLEAN :
            LET other == {t \in ToSet(openTabs) :
                            t.path = then.path /\ t.root = root' /\ t.id # active}
            IN  IF then.kind # "follow" \/ newTab \/ fresh \/ other # {} \/ active = None
                  THEN \E v \in Opened(FileTabs, root', then.path,
                                       IF then.kind = "follow" THEN newTab
                                       ELSE then.kind = "created") : Become(v)
                  ELSE /\ Len(Active.back) < MaxTrail
                       /\ openTabs' = [i \in DOMAIN openTabs |->
                            IF openTabs[i].id # active \/ openTabs[i].path = then.path
                              THEN openTabs[i]
                            ELSE [openTabs[i] EXCEPT !.path = then.path,
                                                     !.back = Append(@, openTabs[i].path)]]
                       /\ UNCHANGED <<active, keptOpen, dirty>>
       /\ StillAsked(asked)

\* A link whose root moved under its read is tried once more.
Retry(r, rt, pl) ==
    IF r.then.kind = "follow" /\ ~r.then.again /\ Spot = r.then.at
      THEN <<NewTreeRead(r.dir, rt, pl, [r.then EXCEPT !.again = TRUE])>>
      ELSE <<>>

\* A directory of the tree shown arrives.
Listed(i, rt) ==
    LET r == treeReads[i] IN
    /\ r.fresh /\ r.root \in {None, rt}
    /\ treeReads' = RemoveAt(treeReads, i)
    /\ root' = rt
    /\ listing' = [listing EXCEPT ![r.dir] = rt]
    /\ switching' = (switching /\ r.dir # "top")
    /\ Follows(r.then)
    /\ UNCHANGED <<place, movedEarly>>

\* 409: the root is another one.
Conflict(i, rt) ==
    LET r == treeReads[i] IN
    /\ r.fresh /\ r.root \notin {None, rt}
    /\ IF rt = root
         THEN /\ treeReads' = RemoveAt(treeReads, i)
              /\ UNCHANGED <<root, listing, switching, tabState, movedEarly>>
         ELSE RootChanged(rt, place, RemoveAt(treeReads, i), Retry(r, rt, place), None)
    /\ UNCHANGED place

\* The Place is gone: back to the pane's folder.
PlaceLost(i) ==
    LET r == treeReads[i] IN
    /\ r.fresh /\ r.place # None /\ ~offered
    /\ SwitchTo(None, None, RemoveAt(treeReads, i), Retry(r, root, None), None)

\* Another failure.
ReadFailed(i) ==
    LET r == treeReads[i] IN
    /\ r.fresh
    /\ treeReads' = RemoveAt(treeReads, i)
    /\ listing' = [listing EXCEPT ![r.dir] = None]
    /\ switching' = (switching /\ r.dir # "top")
    /\ UNCHANGED <<root, place, tabState, movedEarly>>

\* The answer of a read sent for another tree is dropped.
Dropped(i) ==
    LET r == treeReads[i] IN
    /\ ~r.fresh
    /\ treeReads' = RemoveAt(treeReads, i) \o Retry(r, root, place)
    /\ UNCHANGED <<root, place, listing, tabState, switching, movedEarly>>

TreeAnswer ==
    /\ \E i \in DOMAIN treeReads :
          \/ \E rt \in treeReads[i].may :
                (treeReads[i].place = None \/ offered) /\ (Listed(i, rt) \/ Conflict(i, rt))
          \/ PlaceLost(i) \/ ReadFailed(i) \/ Dropped(i)
    /\ UNCHANGED serverFiles

------------------------------------------------------------------------------
(* The user.                                                               *)

noTabs == <<serverFiles, root, place, listing, switching, movedEarly>>

\* load, toggle and refresh: a directory is read.
ReadDir ==
    /\ \E d \in {"top", "sub"} :
          /\ root # None \/ d = "top"
          /\ Send(d, Plain)
    /\ UNCHANGED <<noTabs, tabState>>

\* A link of the file shown, a file made, or a search result.  A link from
\* another view is followed before any root is known too (followInFiles).
Start(kind, p) ==
    /\ root # None \/ kind = "follow"
    /\ \E d \in {"top", "sub"} :
          /\ kind # "follow" => d = "top"
          /\ Send(d, Then(kind, p))
    /\ UNCHANGED <<noTabs, tabState>>

\* A file of the tree is picked.
OpenByUser(p, pin) ==
    /\ root # None
    /\ \E v \in Opened(FileTabs, root, p, pin) : Become(v)
    /\ StillAsked(asked)
    /\ UNCHANGED <<noTabs, treeReads>>

\* openFromFind: a file of another root, whose source is shown first.
OpenFromFind(pl, p) ==
    LET r == IF pl = None THEN paneRoot ELSE PlaceRoot IN
    /\ root \notin {None, r} /\ Len(treeReads) < MaxTreeReads
    /\ SwitchTo(pl, r, treeReads, <<>>, p)
    /\ UNCHANGED serverFiles

Activate(id) ==
    /\ id \in TabIds \cup {None} /\ id # active
    /\ active' = id
    /\ UNCHANGED <<noTabs, openTabs, asked, keptOpen, dirty, treeReads>>

\* back: the file a link was followed from, or its own tab.
GoBack ==
    /\ active # None
    /\ LET i == CHOOSE i \in DOMAIN openTabs : openTabs[i].id = active
           b == openTabs[i].back
           other == {t \in ToSet(openTabs) : Here(t) /\ t.path = Last(b)}
       IN  IF b = <<>>
             THEN active' = None /\ UNCHANGED openTabs
           ELSE IF other # {}
             THEN /\ openTabs' = [openTabs EXCEPT ![i].back = Front(@)]
                  /\ \E t \in other : active' = t.id
           ELSE /\ openTabs' = [openTabs EXCEPT ![i].path = Last(b), ![i].back = Front(@)]
                /\ UNCHANGED active
    /\ UNCHANGED <<noTabs, asked, keptOpen, dirty, treeReads>>

\* The file shown is edited, which pins its tab; another view edits one.
Edit ==
    /\ active # None /\ (Here(Active) \/ HasChanges(Active))
    /\ dirty' = dirty \cup {FileOf(Active)}
    /\ openTabs' = [i \in DOMAIN openTabs |->
                      IF openTabs[i].id = active THEN [openTabs[i] EXCEPT !.pinned = TRUE]
                      ELSE openTabs[i]]
    /\ UNCHANGED <<noTabs, active, asked, keptOpen, treeReads>>

EditElsewhere(f) ==
    /\ f.root = root
    /\ dirty' = dirty \cup {f}
    /\ UNCHANGED <<noTabs, openTabs, active, asked, keptOpen, treeReads>>

\* Changes are saved or discarded.
Settle(f) ==
    /\ dirty' = dirty \ {f}
    /\ f \in dirty
    /\ UNCHANGED <<noTabs, openTabs, active, asked, keptOpen, treeReads>>

\* A tab is closed; the user was asked about its changes.  A file deleted
\* closes its tab the same way.
Close(id) ==
    /\ id \in TabIds
    /\ Become(Closed(FileTabs, {id})) /\ StillAsked(asked)
    /\ UNCHANGED <<noTabs, treeReads>>

\* The user's answer about the tabs of another root.
ResolveRootClose(closing) ==
    /\ asked # {} /\ asked' = {}
    /\ IF closing THEN Become(Closed(FileTabs, asked))
       ELSE keptOpen' = keptOpen \cup asked /\ UNCHANGED <<openTabs, active, dirty>>
    /\ UNCHANGED <<noTabs, treeReads>>

\* fileRenamed: the drafts and tabs of from show to; a tab already on it goes.
Renamed(from, to) ==
    LET onIt == {u \in ToSet(openTabs) :
                   /\ Here(u) /\ u.path = to
                   /\ \E v \in ToSet(openTabs) : Here(v) /\ v.path = from}
        gone == {t.id : t \in onIt}
        ts == Remaining(openTabs, onIt)
    IN  /\ root # None /\ from # to /\ [root |-> root, path |-> to] \notin dirty
        /\ openTabs' = [i \in DOMAIN ts |->
              IF ~Here(ts[i]) THEN ts[i]
              ELSE [ts[i] EXCEPT
                      !.path = IF @ = from THEN to ELSE @,
                      !.back = [j \in DOMAIN @ |-> IF @[j] = from THEN to ELSE @[j]]]]
        /\ active' = IF active \in gone
                       THEN (CHOOSE t \in ToSet(openTabs') : t.path = to /\ Here(t)).id
                       ELSE active
        /\ dirty' = {IF f = [root |-> root, path |-> from]
                       THEN [root |-> root, path |-> to] ELSE f : f \in dirty}
        /\ keptOpen' = keptOpen \ gone
        /\ UNCHANGED <<noTabs, asked, treeReads>>

\* The Place, or the pane's folder again.
PickSource ==
    /\ Len(treeReads) < MaxTreeReads
    /\ SwitchTo(IF place = None THEN Place ELSE None, None, treeReads, <<>>, None)
    /\ UNCHANGED serverFiles

\* moveTo: the pane has another id.
MoveTo ==
    /\ \E d \in {<<"top">>, <<"top", "sub">>} :
          /\ Len(treeReads) + Len(d) <= MaxTreeReads
          /\ treeReads' = Outdated(treeReads) \o
                [i \in DOMAIN d |-> NewTreeRead(d[i], root, place, Plain)]
    /\ UNCHANGED <<noTabs, tabState>>

FilesUser ==
    \/ ReadDir \/ GoBack \/ Edit \/ PickSource \/ MoveTo
    \/ \E p \in Paths :
          \/ \E kind \in {"follow", "created", "reveal"} : Start(kind, p)
          \/ \E pin \in BOOLEAN : OpenByUser(p, pin)
          \/ \E pl \in {None, Place} : OpenFromFind(pl, p)
          \/ \E to \in Paths : Renamed(p, to)
    \/ \E id \in Ids \cup {None} : Activate(id)
    \/ \E id \in Ids : Close(id)
    \/ \E f \in File : EditElsewhere(f) \/ Settle(f)
    \/ \E closing \in BOOLEAN : ResolveRootClose(closing)

FilesNext ==
    \/ TreeAnswer /\ UNCHANGED toDo
    \/ toDo > 0 /\ toDo' = toDo - 1 /\ (PaneMoves \/ PlaceGoes \/ FilesUser)

FilesSpec == FilesInit /\ [][FilesNext]_filesVars

------------------------------------------------------------------------------
(* Properties.                                                             *)

\* A rename takes the changes of the file to its new name (moveDrafts).
TakesChanges(p, q) ==
    /\ Renamed(p, q)
    /\ dirty \ dirty' = {[root |-> root, path |-> p]}
    /\ [root |-> root, path |-> q] \in dirty'

\* Unsaved changes go only when the user says so: no open, move of the root,
\* late answer or tab closed to make room drops them, and a rename only gives
\* those of one file its new name (enforceCap, openTab, rootChanged).
NothingDropped ==
    [][dirty \ dirty' # {} =>
          \/ \E f \in File : Settle(f)
          \/ \E id \in Ids : Close(id)
          \/ ResolveRootClose(TRUE)
          \/ \E p, q \in Paths : TakesChanges(p, q)]_filesVars

\* The user is asked about every tab left from another root, and about no tab
\* of this one: answering closes nothing else (rootChanged).
AskedTabs ==
    \A t \in ToSet(openTabs) :
       IF Here(t) THEN t.id \notin asked ELSE t.id \in asked \cup keptOpen

\* The directories shown are of the root shown: an answer for another root, a
\* Place left or a pane that was is dropped ("Bumped when the root moves: a
\* read sent for the old one is dropped", generation, use-files.ts:298).
\* The code does not keep this on its own: two reads sent before any root was
\* known, by a load and a refresh or a link, may each bring another root, and
\* none of them bumps generation (movedEarly).
ListingOfRoot == \A d \in DOMAIN listing : listing[d] \in {None, root}

\* The note that the user picked a source outlives no read of it: a later move
\* of the pane itself is told to the user (switching).
SwitchEnds == switching => \E r \in ToSet(treeReads) : r.fresh /\ r.dir = "top"

\* The view is of one root: the directories shown, the tabs not asked about,
\* and the moves that are told.  It is so from the first listing, unless the
\* pane moved under it (movedEarly), and again from the first move of the root that
\* is noticed.
OneRoot == (movedEarly \/ (ListingOfRoot /\ AskedTabs)) /\ SwitchEnds

==============================================================================
