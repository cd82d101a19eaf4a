----------------------------- MODULE SessionPick ----------------------------
(***************************************************************************)
(* Which tab the page shows: the snapshots read, the tab picked and the    *)
(* operations that read again, of useLocalSessions in                      *)
(* pwa/src/hooks/use-local-sessions.ts.                                    *)
(*                                                                         *)
(* The page is one thread.  Its requests are answered in any order, and    *)
(* the server may be changed by others between any two of them.  `reads'   *)
(* are the snapshot reads under way in the order they were sent, so that   *)
(* a read's number is its place: `old' says a later one was applied, and   *)
(* `fresh' that no pick was made since it was sent (its version is         *)
(* selectionVersionRef's).                                                 *)
(*                                                                         *)
(* Left out: the panes of a tab, what a tab looks like, the state kept by  *)
(* tab id, moves and renames, view-only devices, a pick stored by an       *)
(* earlier visit, and the tab made on a server that has none.              *)
(***************************************************************************)
EXTENDS Common, Naturals, FiniteSets, Sequences, SequencesExt

CONSTANTS
    Tabs,
    GroupSeq,    \* the groups in the order the server lists them
    GroupOf,     \* the group of each tab
    MaxReads,    \* reads under way at once
    MaxPicks,    \* picks the server is switching to at once
    MaxEvents,   \* things done by the user and by others
    MaxLag       \* snapshots that may lack a new group

Groups == ToSet(GroupSeq)
Selection == [tab : Tabs \cup {None}, group : Groups \cup {None}]

ASSUME PickAssumption ==
    /\ GroupOf \in [Tabs -> Groups] /\ Groups = {GroupOf[t] : t \in Tabs}
    /\ GroupSeq \in Seq(Groups)
    /\ \A i, j \in DOMAIN GroupSeq : GroupSeq[i] = GroupSeq[j] => i = j
    /\ None \notin Tabs \cup Groups \cup Selection
    /\ {MaxReads, MaxPicks, MaxEvents, MaxLag} \subseteq Nat
    /\ MaxReads > 0 /\ MaxLag < 3

VARIABLES
    mode,      \* "tmux": a session's current tab is shown; "own": this device's
    serverTabs, \* the tabs on the server
    current,   \* the current tab of each group there
    lag,       \* a group made there, and the snapshots that still lack it
    reads,     \* the snapshot reads under way
    picks,     \* the selectTab requests under way
    op,        \* the operation under way, its tabs, and whether it was done
    listed,    \* the tabs of the last snapshot applied
    tabShown,  \* activeSession
    sel,       \* selectionRef
    pendingGroup,  \* pendingGroupRef
    want,      \* the user's last choice, not yet gone
    closed,    \* tabs closed here, with the read that follows applied
    landed,    \* history: what became on the server of the last tab chosen
    events     \* what may still happen

pickVars == <<mode, serverTabs, current, lag, landed, reads, picks, op, listed,
              tabShown, sel, pendingGroup, want, closed, events>>

NoSnap == [tabs |-> {}, current |-> [g \in Groups |-> None]]
Snap == [tabs : SUBSET Tabs, current : [Groups -> Tabs \cup {None}]]

In(g, ts) == {t \in ts : GroupOf[t] = g}

\* One tab is closed (removeSession), or a group with all it has (closeGroup).
Closing == {"close", "closeGroup"}
OpKinds == {"none", "add", "group"} \cup Closing

PickTypeOK ==
    /\ mode \in {"tmux", "own"}
    /\ serverTabs \subseteq Tabs
    /\ current \in [Groups -> Tabs \cup {None}]
    /\ lag \in [group : Groups \cup {None}, left : 0 .. MaxLag]
    /\ \A i \in DOMAIN reads :
          reads[i] \in [fresh : BOOLEAN, old : BOOLEAN, taken : BOOLEAN,
                        after : SUBSET Tabs, snap : Snap]
    /\ Len(reads) <= MaxReads
    /\ \A i \in DOMAIN picks : picks[i] \in [tab : Tabs, done : BOOLEAN]
    /\ op \in [kind : OpKinds, tabs : SUBSET Tabs, done : BOOLEAN]
    /\ listed \subseteq Tabs
    /\ tabShown \in Tabs \cup {None}
    /\ sel \in Selection \cup {None}
    /\ pendingGroup \in [group : Groups \cup {None}, left : 0 .. 3]
    /\ want \in Selection \cup {None}
    \* A choice names a group, and its tab is one of it
    /\ \A x \in {sel, want} \ {None} :
          x.group # None /\ x.tab \in {None} \cup In(x.group, Tabs)
    /\ closed \subseteq Tabs
    /\ landed \in {"asked", "made", "moved"}
    /\ events \in 0 .. MaxEvents

NoOp == [kind |-> "none", tabs |-> {}, done |-> FALSE]

NewRead == [fresh |-> TRUE, old |-> FALSE, taken |-> FALSE, after |-> {},
            snap |-> NoSnap]

\* The server starts with one tab, and the page with a read of it.
PickInit ==
    /\ mode \in {"tmux", "own"}
    /\ \E g \in Groups : serverTabs = {CHOOSE t \in Tabs : GroupOf[t] = g}
    /\ current = [g \in Groups |->
                    IF In(g, serverTabs) = {} THEN None
                    ELSE CHOOSE t \in serverTabs : GroupOf[t] = g]
    /\ lag = [group |-> None, left |-> 0]
    /\ reads = <<NewRead>>
    /\ picks = <<>>
    /\ op = NoOp
    /\ listed = {} /\ tabShown = None /\ sel = None
    /\ pendingGroup = [group |-> None, left |-> 0]
    /\ want = None /\ closed = {} /\ landed = "moved"
    /\ events = MaxEvents

serverVars == <<serverTabs, current, lag, landed>>
viewVars == <<listed, tabShown, sel, pendingGroup, want, closed>>

------------------------------------------------------------------------------
(* The server.                                                             *)

Event == events > 0 /\ events' = events - 1

\* The current tab of each group once the tabs are ts and t is picked.
CurrentAmong(ts, t) ==
    \E c \in [Groups -> ts \cup {None}] :
       /\ \A g \in Groups :
             /\ In(g, ts) = {} <=> c[g] = None
             /\ c[g] # None => GroupOf[c[g]] = g
             /\ current[g] \in ts /\ GroupOf[t] # g => c[g] = current[g]
             /\ t \in ts /\ GroupOf[t] = g => c[g] = t
       /\ current' = c

\* What the server did with the tab chosen last: it is asked to switch to it
\* ("asked"), it switched ("made"), and it is no longer there, or never was
\* ("moved"): somebody switched, opened or closed, or the pick failed.
Moves(c) ==
    landed' = IF landed = "made" /\ want # None /\ c[want.group] # want.tab
                THEN "moved" ELSE landed

IsChosen(t) == want # None /\ want.tab = t

\* Tabs an operation made or closed: a tab is never made twice.
Named == closed \cup op.tabs \cup UNION {reads[i].after : i \in DOMAIN reads}

\* Another client picks, opens or closes a tab.
OtherClient ==
    /\ Event
    /\ \E t \in Tabs :
          \/ t \in serverTabs /\ serverTabs' = serverTabs /\ CurrentAmong(serverTabs, t)
          \/ t \notin serverTabs \cup Named
             /\ serverTabs' = serverTabs \cup {t} /\ CurrentAmong(serverTabs', t)
          \/ /\ t \in serverTabs /\ Cardinality(serverTabs) > 1
             /\ serverTabs' = serverTabs \ {t}
             /\ \E u \in serverTabs' : CurrentAmong(serverTabs', u)
    /\ Moves(current')
    /\ UNCHANGED <<mode, lag, reads, picks, op, viewVars>>

\* The server answers a read with what it lists then.
Take(i) ==
    /\ i \in DOMAIN reads /\ ~reads[i].taken
    /\ LET late == IF lag.left > 0 THEN In(lag.group, serverTabs) ELSE {}
           s == [tabs |-> serverTabs \ late,
                 current |-> [g \in Groups |->
                                IF current[g] \in late THEN None ELSE current[g]]]
       IN  reads' = [reads EXCEPT ![i].taken = TRUE, ![i].snap = s]
    /\ lag' = IF lag.left > 1 THEN [lag EXCEPT !.left = @ - 1]
              ELSE [group |-> None, left |-> 0]
    /\ UNCHANGED <<mode, serverTabs, current, landed, picks, op, viewVars, events>>

\* It switches to the tab of a pick, if the tab is still there.
Switch(i) ==
    /\ i \in DOMAIN picks /\ ~picks[i].done
    /\ picks' = [picks EXCEPT ![i].done = TRUE]
    /\ IF picks[i].tab \in serverTabs THEN CurrentAmong(serverTabs, picks[i].tab)
       ELSE UNCHANGED current
    /\ IF IsChosen(picks[i].tab)
         THEN landed' = IF picks[i].tab \in serverTabs THEN "made" ELSE "moved"
         ELSE Moves(current')
    /\ UNCHANGED <<mode, serverTabs, lag, reads, op, viewVars, events>>

\* It does the operation asked for.  A new group may be listed later, and the
\* last tab stays.
Serve ==
    /\ op.kind # "none" /\ ~op.done
    /\ op' = [op EXCEPT !.done = TRUE]
    /\ serverTabs' = IF op.kind \in Closing THEN serverTabs \ op.tabs ELSE serverTabs \cup op.tabs
    /\ serverTabs' # {}
    /\ \E u \in serverTabs' : CurrentAmong(serverTabs', u)
    /\ mode = "tmux" /\ op.kind \notin Closing => \A t \in op.tabs : current'[GroupOf[t]] = t
    /\ \E n \in 0 .. MaxLag :
          lag' = IF op.kind = "group" /\ n > 0
                   THEN [group |-> GroupOf[CHOOSE t \in op.tabs : TRUE], left |-> n]
                   ELSE lag
    /\ Moves(current')
    /\ UNCHANGED <<mode, reads, picks, viewVars, events>>

------------------------------------------------------------------------------
(* Reads.                                                                  *)

\* selectionVersionRef is bumped: no read under way is of this version.
Stale(rs) == [i \in DOMAIN rs |-> [rs[i] EXCEPT !.fresh = FALSE]]

\* refreshSessions, from an operation that waits for it.
RefreshSessions(rs) == reads' = Append(rs, NewRead)

\* The timer reads when no read is under way.
Poll ==
    /\ reads = <<>>
    /\ RefreshSessions(reads)
    /\ UNCHANGED <<mode, serverVars, picks, op, viewVars, events>>

\* A read fails.  The session that a first read that failed shows instead is on
\* no server: it can be neither picked nor closed, and the next snapshot takes
\* its place.  It is the tab None, in no list.
ReadFails(i) ==
    /\ i \in DOMAIN reads /\ reads[i].taken
    /\ reads' = RemoveAt(reads, i)
    /\ UNCHANGED <<mode, serverVars, picks, op, viewVars, events>>

\* The tab of the first group that has one.
Fallback(s) ==
    IF s.tabs = {} THEN None
    ELSE LET g == CHOOSE g \in Groups :
                     /\ s.current[g] # None
                     /\ \A i, j \in DOMAIN GroupSeq :
                           GroupSeq[i] = g /\ j < i => s.current[GroupSeq[j]] = None
         IN  s.current[g]

Chosen(t) == [tab |-> t, group |-> IF t = None THEN None ELSE GroupOf[t]]

SelGroup == IF sel = None THEN None ELSE sel.group

\* The tab a snapshot shows: the session's current one, or this device's own
\* pick while it is there, then another tab of its group.
Pick(s) ==
    IF mode # "own"
      THEN IF SelGroup # None /\ s.current[SelGroup] # None
             THEN s.current[SelGroup] ELSE Fallback(s)
    ELSE IF sel # None /\ sel.tab \in s.tabs THEN sel.tab
    ELSE IF SelGroup # None /\ In(SelGroup, s.tabs) # {}
      THEN CHOOSE t \in In(SelGroup, s.tabs) : TRUE
    ELSE Fallback(s)

\* The pending group is not listed, and was not waited for long enough.
Waiting(s) ==
    /\ pendingGroup.group # None
    /\ In(pendingGroup.group, s.tabs) = {}
    /\ pendingGroup.left > 1

\* Mutant of ShowPicked: a new group that is not listed yet is not waited for.
ShowNow(s) ==
    /\ pendingGroup' = [group |-> None, left |-> 0]
    /\ tabShown' = Pick(s)
    /\ sel' = IF Pick(s) = None THEN sel ELSE Chosen(Pick(s))

\* The part of applySnapshot that shows a tab.
ShowPicked(s) ==
    IF Waiting(s)
      THEN /\ pendingGroup' = [pendingGroup EXCEPT !.left = @ - 1]
           /\ UNCHANGED <<tabShown, sel>>
      ELSE /\ pendingGroup' = [group |-> None, left |-> 0]
           /\ tabShown' = Pick(s)
           /\ sel' = IF Pick(s) = None \/ (mode # "own" /\ GroupOf[Pick(s)] = SelGroup)
                       THEN sel ELSE Chosen(Pick(s))

\* The user's choice, until a snapshot applied lacks it.
Remembered(s, waits) ==
    IF want = None \/ waits THEN want
    ELSE IF want.tab = None /\ In(want.group, s.tabs) # {} THEN want
    ELSE IF want.tab \in s.tabs THEN want
    ELSE None

\* A snapshot arrives: dropped when a later read was applied, and showing
\* nothing else when the user has picked since it was asked for.
ApplySnapshot(i) ==
    LET s == reads[i].snap IN
    /\ reads' = [j \in 1 .. Len(reads) - 1 |->
                   IF j < i THEN [reads[j] EXCEPT !.old = TRUE] ELSE reads[j + 1]]
    /\ IF reads[i].old
         THEN UNCHANGED viewVars
         ELSE /\ listed' = s.tabs
              /\ closed' = closed \cup reads[i].after
              /\ want' = Remembered(s, ~reads[i].fresh \/ Waiting(s))
              /\ IF reads[i].fresh THEN ShowPicked(s)
                 ELSE UNCHANGED <<tabShown, sel, pendingGroup>>

ReadArrives(i) ==
    /\ i \in DOMAIN reads /\ reads[i].taken
    /\ ApplySnapshot(i)
    /\ UNCHANGED <<mode, serverVars, picks, op, events>>

------------------------------------------------------------------------------
(* The user.                                                               *)

\* What a pick of tab t stores and shows at once.
Choose(t) ==
    /\ sel' = Chosen(t) /\ tabShown' = t /\ want' = Chosen(t)
    /\ UNCHANGED <<listed, pendingGroup, closed>>

\* switchSession where every client shares a session's current tab: shown at
\* once, and the server is asked to switch.
SwitchShared(t) ==
    /\ mode = "tmux" /\ Event
    /\ t \in listed /\ t # tabShown /\ Len(picks) < MaxPicks
    /\ Choose(t)
    /\ picks' = Append(picks, [tab |-> t, done |-> FALSE])
    /\ landed' = "asked"
    /\ reads' = Stale(reads)
    /\ UNCHANGED <<mode, serverTabs, current, lag, op>>

\* Mutant of PickEnds: what was asked for while the server switched may still
\* show another tab.
PickEndsQuietly(i) ==
    /\ i \in DOMAIN picks /\ picks[i].done
    /\ picks' = RemoveAt(picks, i)
    /\ UNCHANGED <<mode, serverVars, reads, op, viewVars, events>>

\* The server has answered a pick.
PickEnds(i) ==
    /\ i \in DOMAIN picks /\ picks[i].done
    /\ picks' = RemoveAt(picks, i)
    /\ reads' = Stale(reads)
    /\ UNCHANGED <<mode, serverVars, op, viewVars, events>>

\* It cannot be reached.
PickFails(i) ==
    /\ i \in DOMAIN picks /\ ~picks[i].done
    /\ picks' = RemoveAt(picks, i)
    /\ landed' = IF landed = "asked" /\ IsChosen(picks[i].tab) THEN "moved" ELSE landed
    /\ reads' = Stale(reads)
    /\ UNCHANGED <<mode, serverTabs, current, lag, op, viewVars, events>>

\* switchSession where this device has its own pick.
SwitchOwn(t) ==
    /\ mode = "own" /\ Event
    /\ t \in listed /\ t # tabShown
    /\ Choose(t)
    /\ reads' = Stale(reads)
    /\ UNCHANGED <<mode, serverVars, picks, op>>

\* An operation is asked of the server: a tab in the group shown, a group, or
\* closing tabs (removeSession, closeGroup).
Ask(kind, ts) ==
    /\ Event
    /\ op = NoOp
    /\ op' = [kind |-> kind, tabs |-> ts, done |-> FALSE]
    /\ UNCHANGED <<mode, serverVars, reads, picks, viewVars>>

AskAdd(t) ==
    /\ t \notin serverTabs \cup Named
    /\ tabShown # None /\ GroupOf[t] = GroupOf[tabShown]
    /\ Ask("add", {t})

AskGroup(t) ==
    /\ t \notin Named /\ In(GroupOf[t], serverTabs \cup listed) = {}
    /\ Ask("group", {t})

AskClose(t) ==
    /\ t \in listed /\ Cardinality(listed) > 1
    /\ Ask("close", {t})

AskCloseGroup(g) ==
    /\ In(g, listed) # {} /\ listed # In(g, listed)
    /\ Ask("closeGroup", In(g, listed))

\* The new tab is this device's pick: a snapshot asked for before is stale.
ShowNew(selection) ==
    /\ sel' = selection /\ want' = selection
    /\ reads' = Append(Stale(reads), NewRead)
    /\ UNCHANGED <<listed, tabShown, closed>>

\* addSession, once the tab is made.
Added ==
    /\ op.kind = "add" /\ op.done /\ op' = NoOp
    /\ IF mode = "own"
         THEN \E t \in op.tabs : ShowNew(Chosen(t)) /\ UNCHANGED pendingGroup
         ELSE RefreshSessions(reads) /\ UNCHANGED viewVars
    /\ UNCHANGED <<mode, serverVars, picks, events>>

\* showNewGroup: the group is shown once a snapshot lists it, unless the
\* dialog was closed meanwhile.
GroupMade ==
    /\ op.kind = "group" /\ op.done /\ op' = NoOp
    /\ \/ /\ RefreshSessions(reads)
          /\ UNCHANGED viewVars
       \/ \E t \in op.tabs :
             /\ ShowNew([tab |-> None, group |-> GroupOf[t]])
             /\ pendingGroup' = [group |-> GroupOf[t], left |-> 3]
    /\ UNCHANGED <<mode, serverVars, picks, events>>

\* removeSession and closeGroup, once the tabs are closed.
TabsClosed ==
    /\ op.kind \in Closing /\ op.done /\ op' = NoOp
    /\ reads' = Append(reads, [NewRead EXCEPT !.after = op.tabs])
    /\ UNCHANGED <<mode, serverVars, picks, viewVars, events>>

\* The operation is refused or its answer lost: the list is read again after a
\* tab was asked for or closed, and not after a group was.
OpFails ==
    /\ op.kind # "none" /\ op' = NoOp
    /\ IF op.kind \in {"add", "close"} THEN RefreshSessions(reads) ELSE UNCHANGED reads
    /\ UNCHANGED <<mode, serverVars, picks, viewVars, events>>

------------------------------------------------------------------------------

ReadStep(i) == Take(i) \/ ReadArrives(i) \/ ReadFails(i)
PickStep(i) == Switch(i) \/ PickEnds(i) \/ PickFails(i)

PickNext ==
    \/ OtherClient \/ Serve \/ Poll
    \/ \E i \in 1 .. MaxReads : ReadStep(i)
    \/ \E i \in 1 .. MaxPicks : PickStep(i)
    \/ \E t \in Tabs : \/ SwitchShared(t) \/ SwitchOwn(t)
                       \/ AskAdd(t) \/ AskGroup(t) \/ AskClose(t)
    \/ \E g \in Groups : AskCloseGroup(g)
    \/ Len(reads) < MaxReads /\ (Added \/ GroupMade \/ TabsClosed \/ OpFails)

\* The timer fires, and requests are answered: a read asked for again and
\* again is not lost each time.
PickFairness ==
    /\ WF_pickVars(Poll)
    /\ WF_pickVars(Take(1))
    /\ SF_pickVars(ReadArrives(1))
    /\ WF_pickVars(\E i \in 1 .. MaxPicks : PickStep(i))
    /\ WF_pickVars(Added \/ GroupMade \/ TabsClosed \/ OpFails)

PickSpec == PickInit /\ [][PickNext]_pickVars /\ PickFairness

------------------------------------------------------------------------------
(* Properties.                                                             *)

\* A tab closed here does not come back: once the read that follows the
\* operation is applied, no reply asked for earlier lists it again (readSeqRef
\* and appliedSeqRef).
ClosedStaysGone == listed \cap closed = {}

\* What the user picked stays: while the tab chosen is shown and a snapshot
\* lists it, no reply in flight shows another one on a device with a pick of
\* its own, and none shows another session where sessions are shared.
KeepsPick ==
    (/\ want # None /\ want.tab # None /\ want' = want
     /\ tabShown # None /\ tabShown' # None /\ want.tab \in listed'
     /\ IF mode = "own" THEN tabShown = want.tab ELSE GroupOf[tabShown] = want.group)
    => IF mode = "own" THEN tabShown' = want.tab ELSE GroupOf[tabShown'] = want.group

\* Where sessions are shared, the tab chosen stays too, once the server has
\* switched to it and answered, until somebody switches away: no reply sent for
\* or answered before that shows the tab that was left (the version is bumped
\* again when selectTab ends).  Before its answer the comment says the same and
\* the code does not do it (PickStands).
KeepsSharedTab ==
    (/\ mode = "tmux" /\ want # None /\ want.tab # None /\ want' = want
     /\ tabShown = want.tab /\ want.tab \in listed'
     /\ picks = <<>> /\ landed = "made")
    => tabShown' = want.tab

\* An answer that comes late undoes nothing the user did: no closed tab comes
\* back, no pick is taken back, of one device or shared.
RepliesUndoNothing == [][ClosedStaysGone' /\ KeepsPick /\ KeepsSharedTab]_pickVars

\* "Show the tab right away: a snapshot requested before the pick, or while the
\* server switches window, must not undo it" (use-local-sessions.ts:622): the
\* tab chosen is shown until somebody switches away from it, from the moment it
\* is chosen.  Expected to fail.
PickStands ==
    mode = "tmux" /\ want # None /\ want.tab \in listed /\ landed # "moved"
        => tabShown = want.tab

\* The tab or the group the user chose or made here is shown in the end,
\* though replies under way do not know it and the first snapshots may lack a
\* new group (pendingGroupRef), unless something else is chosen or it is gone.
Meets == tabShown # None /\ GroupOf[tabShown] = want.group /\ want.tab \in {None, tabShown}
ChoiceShown ==
    (want # None /\ (mode = "own" \/ want.tab = None)) ~> (want = None \/ Meets)

\* When nothing more happens, the page shows what the server has: its tabs,
\* and of the session or the tab chosen the current one.  No pick, failure or
\* dropped reply leaves it behind.
CatchesUp ==
    <>[](/\ listed = serverTabs
         /\ tabShown \in serverTabs
         /\ mode = "tmux" => tabShown = current[GroupOf[tabShown]]
         /\ mode = "own" /\ want # None /\ want.tab \in serverTabs => tabShown = want.tab)

==============================================================================
