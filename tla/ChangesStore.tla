---------------------------- MODULE ChangesStore ----------------------------
(***************************************************************************)
(* The Changes view of one pane: createStore of                            *)
(* pwa/src/hooks/use-git-changes.ts, its poll of git status and the tabs   *)
(* of diffs and editors open over it.                                      *)
(*                                                                         *)
(* The page is one thread.  A poll is sent, read by the server, and        *)
(* answered in three steps; meanwhile the pane changes directory, others   *)
(* and the user change the files, and the user opens, edits and closes.    *)
(*                                                                         *)
(* Left out: which clean tab makes room for a new one and which shows once *)
(* one closes (FilesStore has the rules: here it may be any), scroll       *)
(* offsets, sensitive files, how long a poll waits, the tabs kept on the   *)
(* device, and a pane that moves before its first poll is answered.        *)
(***************************************************************************)
EXTENDS Common, Naturals, FiniteSets, Sequences

CONSTANTS
    Repos,      \* folders the pane may be in, each a repository
    Diffs,      \* the sides of changed files: a path, staged or not
    MaxChanges  \* things done by the user and by others

DiffTab == [repo : Repos, side : Diffs, editing : BOOLEAN]

\* Every changed file may be edited, as one with a side that is not staged.
ASSUME ChangesAssumption ==
    /\ Repos # {} /\ None \notin Repos \cup Diffs \cup DiffTab
    /\ \A s \in Diffs : /\ s = [path |-> s.path, staged |-> s.staged]
                        /\ s.staged \in BOOLEAN
                        /\ [s EXCEPT !.staged = FALSE] \in Diffs
    /\ MaxChanges \in Nat

VARIABLES
    repo,       \* the pane's folder on the server
    status,     \* the sides git lists in each
    left,       \* what may still be done
    acting,     \* the side a stage, unstage or discard is under way for
    own,        \* what the user's own actions, answered, took off the list
    shownRepo,  \* state.root
    entries,    \* state.entries, with the folder each was read in
    loaded,     \* state.loaded, and no error
    tabs,       \* state.tabs
    shown,      \* state.activeId
    askedTabs,  \* state.pendingRootClose
    keptTabs,   \* tabs the user chose to keep since the root last moved
    unsaved,    \* files with unsaved changes
    notice,     \* the sides the last poll told the user are gone
    expected,   \* expectGone's sides
    seenBy,     \* those the poll under way was sent after
    link,       \* the side of a link that waits for the list
    watched,    \* a component shows the changes
    inFront,    \* the page is visible
    timer,      \* a poll is scheduled
    poll,       \* the poll under way
    again       \* one more right after it

server == <<repo, status, acting>>
tabVars == <<tabs, shown, askedTabs, keptTabs, unsaved>>
listVars == <<shownRepo, entries, loaded, notice, expected, seenBy, link>>
pollVars == <<watched, inFront, timer, poll, again>>
changesVars == <<server, own, left, tabVars, listVars, pollVars>>

FileAt(t) == [repo |-> t.repo, path |-> t.side.path]
SourceFiles == {[repo |-> r, path |-> s.path] : r \in Repos, s \in Diffs}

\* isDirty: only an editor holds unsaved changes
Holding(t) == t.editing /\ FileAt(t) \in unsaved

NoPoll == [at |-> "none"]
Polls ==
    {NoPoll}
    \cup [at : {"sent"}, asked : Repos \cup {None}, fresh : BOOLEAN]
    \cup [at : {"answered"}, asked : Repos \cup {None}, fresh : BOOLEAN,
          repo : Repos \cup {None}, sides : SUBSET Diffs]

ChangesTypeOK ==
    /\ repo \in Repos /\ status \in [Repos -> SUBSET Diffs]
    /\ left \in 0..MaxChanges
    /\ acting \in Diffs \cup {None} /\ own \subseteq Repos \X Diffs
    /\ shownRepo \in Repos \cup {None}
    /\ entries \subseteq Repos \X Diffs
    /\ tabs \subseteq DiffTab
    /\ shown \in tabs \cup {None}
    /\ askedTabs \cup keptTabs \subseteq tabs
    /\ unsaved \subseteq SourceFiles
    /\ seenBy \subseteq expected /\ expected \subseteq Diffs
    /\ link \in Diffs \cup {None}
    /\ timer \in BOOLEAN /\ (timer => watched /\ inFront)
    /\ loaded \in BOOLEAN /\ again \in BOOLEAN /\ watched \in BOOLEAN /\ inFront \in BOOLEAN
    /\ poll \in Polls

ChangesInit ==
    /\ repo = (CHOOSE r \in Repos : TRUE)
    /\ status = [r \in Repos |-> Diffs] /\ left = MaxChanges
    /\ acting = None /\ own = {}
    /\ shownRepo = None /\ entries = {} /\ loaded = FALSE
    /\ tabs = {} /\ shown = None /\ askedTabs = {} /\ keptTabs = {} /\ unsaved = {}
    /\ notice = {} /\ expected = {} /\ seenBy = {} /\ link = None
    /\ watched = TRUE /\ inFront = TRUE
    /\ timer = TRUE /\ poll = NoPoll /\ again = FALSE

------------------------------------------------------------------------------
(* Tabs. A value of tabs, the one shown and the files with changes is      *)
(* passed on by the operations.                                            *)

Now == [tabs |-> tabs, shown |-> shown, unsaved |-> unsaved]

\* Mutant of Lasting: a file's changes go with the first tab that edits it.
LastingHere(v, gone) ==
    v.unsaved \ {FileAt(t) : t \in {u \in gone : u.editing}}

\* dropDraftOf: the changes of a file go with the last tab that edits it
Lasting(v, gone) ==
    v.unsaved \ {FileAt(t) : t \in {u \in gone : u.editing /\
        \A w \in v.tabs \ gone : ~(w.editing /\ FileAt(w) = FileAt(u))}}

\* close, for each tab of gone
Without(v, gone) ==
    LET rest == v.tabs \ gone
        next == IF v.shown \notin gone THEN {v.shown}
                ELSE IF rest = {} THEN {None} ELSE rest
    IN {[tabs |-> rest, shown |-> s, unsaved |-> Lasting(v, gone)] : s \in next}

Settled(v) ==
    /\ tabs' = v.tabs /\ shown' = v.shown /\ unsaved' = v.unsaved
    /\ keptTabs' = keptTabs \cap v.tabs

\* open under the root r: the tab of the side, whichever folder it is of, or
\* a new one that a clean tab may make room for
Opened(v, r, s) ==
    LET same == {t \in v.tabs : t.side = s}
        new == [repo |-> r, side |-> s, editing |-> FALSE]
        clean == {t \in v.tabs : ~(t.editing /\ FileAt(t) \in v.unsaved)}
    IN  IF same # {} THEN {[v EXCEPT !.shown = t] : t \in same}
        ELSE {[v EXCEPT !.tabs = (@ \ gone) \cup {new}, !.shown = new] :
                gone \in {{}} \cup {{t} : t \in clean}}

------------------------------------------------------------------------------
(* The poll.                                                               *)

Refresh ==
    IF poll # NoPoll THEN again' = TRUE /\ UNCHANGED timer
    ELSE timer' = (watched /\ inFront) /\ UNCHANGED again

SendPoll ==
    /\ timer
    /\ timer' = FALSE
    /\ IF poll # NoPoll THEN again' = TRUE /\ UNCHANGED <<poll, seenBy, notice>>
       ELSE /\ poll' = [at |-> "sent", asked |-> shownRepo, fresh |-> TRUE]
            /\ seenBy' = expected /\ notice' = {}
            /\ UNCHANGED again
    /\ UNCHANGED <<server, tabVars, shownRepo, entries, loaded, expected, link,
                   watched, inFront>>

\* The server reads the status or refuses a folder the pane has left; or the
\* request fails
ServerTells(r, sides) ==
    /\ poll.at = "sent"
    /\ poll' = [at |-> "answered", asked |-> poll.asked, fresh |-> poll.fresh,
                repo |-> r, sides |-> sides]
    /\ UNCHANGED <<server, tabVars, listVars, watched, inFront, timer, again>>

ServerReads ==
    ServerTells(repo, IF poll.asked \in {None, repo} THEN status[repo] ELSE {})

PollFails == ServerTells(None, {})

\* prune: tabs of diffs git no longer lists close
Pruned(v, list, r) ==
    {t \in v.tabs : ~t.editing /\ (t.repo # r \/ t.side \notin list)}

\* Mutant of TakeLink: a link's diff that is not listed is waited for.
TakeListed(list) == IF link \in list THEN None ELSE link

\* takeLink: the link is answered, listed or not
TakeLink(list) == None

\* Mutant of StillExpected: the poll that was under way ends the wait too.
ExpectedOnce(sides) == {}

\* The sides a poll sent before they were named may still bring
StillExpected(sides) == sides \ seenBy

\* What the user is told of the tabs that closed
News(gone, r) == {t.side : t \in {u \in gone : u.repo = r}} \ expected

\* apply: the list arrives, tabs close, a link's diff opens
Apply ==
    LET gone == Pruned(Now, poll.sides, poll.repo)
    IN /\ shownRepo' = poll.repo
       /\ entries' = {<<poll.repo, s>> : s \in poll.sides}
       /\ loaded' = TRUE
       /\ notice' = News(gone, poll.repo)
       /\ expected' = StillExpected(expected)
       /\ seenBy' = {}
       /\ link' = TakeLink(poll.sides)
       /\ \E v \in Without(Now, gone) :
            \E w \in IF link \in poll.sides THEN Opened(v, poll.repo, link) ELSE {v} :
                Settled(w)
       /\ askedTabs' = askedTabs \cap tabs'

\* The tabs that close when the root becomes r
MovedTabs(r) == {t \in tabs : t.repo # r /\ ~Holding(t)}

\* Mutant of AskedAbout: a tab asked about before stays asked about.
AskedBefore(v, r) == {t \in v.tabs : t.repo # r} \cup (askedTabs \cap v.tabs)

\* The tabs the user is asked about then
AskedAbout(v, r) == {t \in v.tabs : t.repo # r}

\* rootChanged: the list starts again; the user is asked about what is left
RootMoves(r) ==
    /\ shownRepo' = r /\ entries' = {} /\ loaded' = FALSE
    /\ \E v \in Without(Now, MovedTabs(r)) :
        /\ tabs' = v.tabs /\ shown' = v.shown /\ unsaved' = v.unsaved
        /\ askedTabs' = AskedAbout(v, r)
        /\ keptTabs' = {}
    /\ UNCHANGED <<notice, expected, seenBy, link>>

\* generation was not bumped since the poll was sent
Fresh == poll.fresh

Schedule == timer' = (watched /\ inFront)

PollEnds ==
    /\ poll.at = "answered"
    /\ poll' = NoPoll /\ again' = FALSE
    /\ Schedule
    /\ UNCHANGED <<server, watched, inFront>>

Moved == poll.asked \notin {None, poll.repo}

AnswerListed == PollEnds /\ Fresh /\ poll.repo # None /\ ~Moved /\ Apply

AnswerMoved ==
    /\ PollEnds /\ Fresh /\ poll.repo # None /\ Moved
    /\ IF poll.repo = shownRepo THEN UNCHANGED <<listVars, tabVars>>
                                ELSE RootMoves(poll.repo)

AnswerFailed ==
    /\ PollEnds /\ Fresh /\ poll.repo = None
    /\ loaded' = TRUE
    /\ UNCHANGED <<tabVars, shownRepo, entries, notice, expected, seenBy, link>>

AnswerDropped == PollEnds /\ ~Fresh /\ UNCHANGED <<listVars, tabVars>>

Answer == AnswerListed \/ AnswerMoved \/ AnswerFailed \/ AnswerDropped

PollStep == SendPoll \/ ServerReads \/ PollFails \/ Answer

------------------------------------------------------------------------------
(* The server and others.                                                  *)

notServer == <<tabVars, listVars, pollVars>>

PaneMoves ==
    /\ shownRepo # None \/ poll = NoPoll
    /\ repo' \in Repos \ {repo}
    /\ UNCHANGED <<status, acting, notServer>>

\* A side appears or goes without the user
OthersChange(s) ==
    /\ status' = [status EXCEPT ![repo] = IF s \in @ THEN @ \ {s} ELSE @ \cup {s}]
    /\ own' = own \ {<<repo, s>>}
    /\ UNCHANGED <<repo, acting, notServer>>

------------------------------------------------------------------------------
(* The user.                                                               *)

notTabs == <<server, listVars, pollVars>>

\* A stage, unstage or discard takes a side off the list
Act(s) ==
    /\ acting = None /\ <<shownRepo, s>> \in entries
    /\ shownRepo = repo /\ s \in status[repo]
    /\ acting' = s
    /\ status' = [status EXCEPT ![repo] = @ \ {s}]
    /\ UNCHANGED <<repo, notServer>>

\* It is answered: applied
Applied ==
    /\ acting # None
    /\ acting' = None
    /\ own' = own \cup IF acting \in status[shownRepo] THEN {} ELSE {<<shownRepo, acting>>}
    /\ expected' = expected \cup {acting} /\ seenBy' = seenBy \ {acting}
    /\ Refresh
    /\ UNCHANGED <<repo, status, tabVars, shownRepo, entries, loaded, notice,
                   link, watched, inFront, poll>>

OpenDiff(s) ==
    /\ <<shownRepo, s>> \in entries
    /\ \E v \in Opened(Now, shownRepo, s) : Settled(v)
    /\ askedTabs' = askedTabs \cap tabs'
    /\ UNCHANGED notTabs

Activate(t) ==
    /\ t # shown /\ shown' = t
    /\ UNCHANGED <<tabs, askedTabs, keptTabs, unsaved, notTabs>>

CloseTab(t) ==
    /\ \E v \in Without(Now, {t}) : Settled(v)
    /\ askedTabs' = askedTabs \ {t}
    /\ UNCHANGED notTabs

\* The tab t becomes u, and next shows
Becomes(t, u, next) ==
    LET Same(ts) == IF t \in ts THEN (ts \ {t}) \cup {u} ELSE ts
    IN /\ tabs' = Same(tabs) /\ shown' = next
       /\ askedTabs' = Same(askedTabs) /\ keptTabs' = Same(keptTabs)

\* A side whose tab was an editor is news again when it goes
Forgotten(path) == own' = {o \in own : o[2].path # path}

\* setEditing
StartEditing(t) ==
    /\ ~t.editing /\ t = shown
    /\ LET u == [t EXCEPT !.editing = TRUE] IN Becomes(t, u, u)
    /\ UNCHANGED <<unsaved, own, notTabs>>

\* Back to the diff, the changes discarded; a tab git no longer lists goes
StopEditing(t) ==
    /\ t.editing /\ t = shown
    /\ LET u == [t EXCEPT !.editing = FALSE]
           v == [tabs |-> (tabs \ {t}) \cup {u}, shown |-> u,
                 unsaved |-> unsaved \ {FileAt(t)}]
           listed == {e[2] : e \in entries}
           gone == IF loaded THEN Pruned(v, listed, shownRepo) ELSE {}
       IN \E w \in Without(v, gone) :
            /\ tabs' = w.tabs /\ shown' = w.shown /\ unsaved' = w.unsaved
            /\ askedTabs' = (askedTabs \cup {x \in {u} : t \in askedTabs}) \cap w.tabs
            /\ keptTabs' = (keptTabs \cup {x \in {u} : t \in keptTabs}) \cap w.tabs
            /\ notice' = News(gone, shownRepo)
    /\ Forgotten(t.side.path)
    /\ UNCHANGED <<server, pollVars, shownRepo, entries, loaded, expected, seenBy,
                   link>>

Edit(t) ==
    /\ t.editing /\ t = shown
    /\ unsaved' = unsaved \cup {FileAt(t)}
    /\ UNCHANGED <<tabs, shown, askedTabs, keptTabs, own, notTabs>>

\* saved: back to the diff of what is not staged
Saved(t) ==
    /\ Holding(t)
    /\ LET side == [t.side EXCEPT !.staged = FALSE]
           other == {u \in tabs \ {t} : u.side = side}
       IN IF other # {}
          THEN \E u \in other : Becomes(t, [t EXCEPT !.editing = FALSE], u)
          ELSE LET u == [t EXCEPT !.editing = FALSE, !.side = side]
               IN Becomes(t, u, IF shown = t THEN u ELSE shown)
    /\ unsaved' = unsaved \ {FileAt(t)}
    /\ Forgotten(t.side.path)
    /\ UNCHANGED notTabs

\* moved, after the file's drafts: its editors follow as an untracked file,
\* its other tabs close, and of two tabs of one side the one shown stays, or
\* the one shown last
Renamed(from, to) ==
    LET here == {t \in tabs : t.repo = shownRepo /\ t.side.path = from}
        u == [repo |-> shownRepo, side |-> [path |-> to, staged |-> FALSE],
              editing |-> TRUE]
        others == tabs \ here
        same == {t \in others : t.repo = shownRepo /\ t.side = u.side}
        follows == \E t \in here : t.editing
        f == [repo |-> shownRepo, path |-> from]
        g == [repo |-> shownRepo, path |-> to]
    IN  /\ shownRepo # None /\ from # to /\ g \notin unsaved
        /\ u.side \in Diffs
        /\ unsaved' = IF f \in unsaved THEN (unsaved \ {f}) \cup {g} ELSE unsaved
        /\ \E keep \in IF ~follows THEN {same}
                       ELSE IF shown \in same THEN {{shown}}
                       ELSE IF shown \in here /\ shown.editing THEN {{u}}
                       ELSE {{u}} \cup {{t} : t \in same} :
            /\ tabs' = (others \ same) \cup keep
            /\ shown' \in IF shown \notin here THEN {shown}
                          ELSE IF shown.editing THEN keep
                          ELSE IF tabs' = {} THEN {None} ELSE tabs'
        /\ askedTabs' = askedTabs \cap tabs' /\ keptTabs' = keptTabs \cap tabs'
        /\ Refresh
        /\ UNCHANGED <<server, listVars, watched, inFront, poll>>

\* Changes are made, saved or discarded in another view
Elsewhere(f) ==
    /\ unsaved' = IF f \in unsaved THEN unsaved \ {f} ELSE unsaved \cup {f}
    /\ UNCHANGED <<tabs, shown, askedTabs, keptTabs, notTabs>>

ResolveRootClose(closing) ==
    /\ askedTabs # {} /\ askedTabs' = {}
    /\ IF closing THEN \E v \in Without(Now, askedTabs) : Settled(v)
       ELSE /\ keptTabs' = keptTabs \cup askedTabs
            /\ UNCHANGED <<tabs, shown, unsaved>>
    /\ UNCHANGED notTabs

\* rootChanged, told by another request of the page, and moveTo
RootTold ==
    /\ shownRepo \notin {None, repo}
    /\ poll' = IF poll = NoPoll THEN poll ELSE [poll EXCEPT !.fresh = FALSE]
    /\ RootMoves(repo) /\ Refresh
    /\ UNCHANGED <<server, watched, inFront>>

MoveTo ==
    /\ poll' = IF poll = NoPoll THEN poll ELSE [poll EXCEPT !.fresh = FALSE]
    /\ Refresh
    /\ UNCHANGED <<server, tabVars, listVars, watched, inFront>>

\* openLink: a link that waited before is answered
OpenLink(s) ==
    /\ link' = IF loaded THEN None ELSE s
    /\ IF loaded /\ <<shownRepo, s>> \in entries
       THEN \E v \in Opened(Now, shownRepo, s) : Settled(v)
       ELSE UNCHANGED <<tabs, shown, unsaved, keptTabs>>
    /\ askedTabs' = askedTabs \cap tabs'
    /\ UNCHANGED <<server, shownRepo, entries, loaded, notice, expected, seenBy,
                   pollVars>>

Edits ==
    \E t \in tabs : StartEditing(t) \/ StopEditing(t) \/ Edit(t)

User ==
    \/ RootTold \/ MoveTo
    \/ \E s \in Diffs : Act(s) \/ OpenDiff(s) \/ OpenLink(s)
    \/ \E t \in tabs \cup {None} : Activate(t)
    \/ \E t \in tabs : CloseTab(t)
    \/ \E f \in SourceFiles : Elsewhere(f)
    \/ \E s, u \in Diffs : Renamed(s.path, u.path)
    \/ \E c \in BOOLEAN : ResolveRootClose(c)

\* A component mounts or unmounts; the page shows or hides
Looks ==
    /\ \/ watched' = ~watched /\ UNCHANGED inFront
       \/ inFront' = ~inFront /\ UNCHANGED watched
    /\ timer' = (watched' /\ inFront')
    /\ UNCHANGED <<server, tabVars, listVars, poll, again>>

ChangesNext ==
    \/ PollStep /\ UNCHANGED <<own, left>>
    \/ (Applied \/ Edits) /\ UNCHANGED left
    \/ /\ left > 0 /\ left' = left - 1
       /\ \/ (PaneMoves \/ User \/ Looks) /\ UNCHANGED own
          \/ \E s \in Diffs : OthersChange(s)
          \/ \E t \in tabs : Saved(t)

\* The timer fires, polls are answered, and a poll sent again and again is
\* read by the server.
ChangesFairness ==
    /\ WF_changesVars(SendPoll /\ UNCHANGED <<own, left>>)
    /\ SF_changesVars(ServerReads /\ UNCHANGED <<own, left>>)
    /\ WF_changesVars((ServerReads \/ PollFails \/ Answer) /\ UNCHANGED <<own, left>>)

ChangesSpec ==
    ChangesInit /\ [][ChangesNext]_changesVars /\ ChangesFairness

------------------------------------------------------------------------------
(* Properties.                                                             *)

\* A rename takes the changes of f to the new name (moveDrafts).
TakenAlong(f, from, to) ==
    /\ Renamed(from, to)
    /\ f = [repo |-> shownRepo, path |-> from]
    /\ [repo |-> shownRepo, path |-> to] \in unsaved'

\* The changes of a file go only when the user says so, and closing one tab
\* takes none that another still edits: a poll that no longer lists a side or
\* a move of the root drops nothing, and a rename only gives the changes of
\* the file renamed its new name (prune, rootChanged, dropDraftOf, moved).
NothingLost ==
    [][\A f \in unsaved \ unsaved' :
        \/ \E t \in tabs : FileAt(t) = f /\ (Saved(t) \/ StopEditing(t))
        \/ Elsewhere(f)
        \/ \E s, u \in Diffs : TakenAlong(f, s.path, u.path)
        \/ /\ (\E t \in tabs : CloseTab(t)) \/ ResolveRootClose(TRUE)
           /\ \A t \in tabs' : ~(t.editing /\ FileAt(t) = f)]_changesVars

\* An answer never takes the list back to a folder the pane left: a root
\* moves only by being told so, and the list starts again then (generation).
NeverFlipsBack ==
    [][shownRepo' # shownRepo /\ shownRepo # None => entries' = {} /\ ~loaded']_changesVars

\* Every tab left from another root is asked about or was kept by the user,
\* and no tab of this root is asked about: closing those asked about takes
\* nothing else (rootChanged, resolveRootClose).
LeftAreAsked ==
    \A t \in tabs :
        IF t.repo = shownRepo THEN t \notin askedTabs
        ELSE t \in askedTabs \cup keptTabs

\* No poll tells the user that a side is gone that an action of their own took
\* away, once the action was answered: not the poll under way then, nor the
\* next (expectGone, takeExpected).
QuietForOwn ==
    [][AnswerListed =>
        \A s \in notice' : <<shownRepo', s>> \notin own]_changesVars

\* The answer of a poll is of the folder shown, and is no news of the user's
\* own doing.
AnswersFit == NeverFlipsBack /\ QuietForOwn

Looking == <>[](watched /\ inFront)

\* While the view is watched the list catches up with the server: whatever
\* raced, a poll always follows (schedule, again, rootChanged).
ListCatchesUp ==
    Looking => <>[](loaded /\ entries = {<<repo, s>> : s \in status[repo]})

\* A link's diff is shown or refused in the end, and not kept waiting by a
\* list that does not have it (openLink, takeLink).
LinkTaken == Looking => <>[](link = None)
=============================================================================
