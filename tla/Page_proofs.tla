----------------------------- MODULE Page_proofs -----------------------------
(***************************************************************************)
(* What TLAPS proves of the page's components that keep a list or a        *)
(* stream.                                                                 *)
(*                                                                         *)
(* Of TermSocket, for every set of connects and panes: its type invariant, *)
(* that no socket is open but the attached one, that it is of the pane     *)
(* chosen and told whether it is seen, what a hidden page holds, which     *)
(* dead sockets are left, and who reopens an evicted stream.               *)
(*                                                                         *)
(* Of ChangesStore, for every set of folders and of changed files: its     *)
(* type invariant, which tabs the user is asked about, that unsaved        *)
(* changes are kept, and what an answer may say.                           *)
(*                                                                         *)
(* Fairness plays no part.                                                 *)
(***************************************************************************)
EXTENDS TermSocket, ChangesStore, TLAPS

-----------------------------------------------------------------------------
(* TermSocket: the inductive invariant.                                    *)

\* A connection that died is that of a socket.
LostAreSockets == lost \subseteq Sockets

\* A page that was shown since its socket died knows that the network went, and
\* it is not back yet.
DeadIsAway == ws \in lost /\ ~away => visible /\ ~online /\ wentOff

\* While the current connect waits for its token, nothing else opens one.
TokenAlone ==
    \A c \in Connects :
        c = cur /\ conn[c] = "token" => ws = None /\ ~retry /\ stop = "none"

\* Nor does anything while a socket is attached.
SocketAlone == ws # None => ~retry /\ stop = "none"

\* What was stopped or hidden is not retried.
RetryWanted == retry => stop = "none"

SocketIInv ==
    /\ SocketTypeOK
    /\ OneSocket
    /\ RightPane
    /\ VisibleTold
    /\ HiddenHoldsNothing
    /\ LostAreSockets
    /\ DeadIsAway
    /\ TokenAlone
    /\ SocketAlone
    /\ RetryWanted

\* A page starts without a socket.
LEMMA SocketInitially == SocketInit => SocketIInv
  BY SocketAssumption
  DEF SocketInit, SocketIInv, SocketTypeOK, Sockets, KeyNow, OneSocket, RightPane,
      VisibleTold, HiddenHoldsNothing, LostAreSockets, DeadIsAway, TokenAlone,
      SocketAlone, RetryWanted

-----------------------------------------------------------------------------
(* What opens and closes sockets.                                          *)

\* Leave keeps no socket: what is left are connects that wait for a token.
LEMMA ClosedHasNone ==
    ASSUME SocketIInv
    PROVE  /\ Closed \in [Connects -> {"idle", "token"}]
           /\ \A c \in Connects : Closed[c] = "token" => conn[c] = "token"
  BY SocketAssumption DEF SocketIInv, SocketTypeOK, OneSocket, Sockets, Closed

\* What Leave makes of the connects con and of stopRef.
LEMMA LeaveKeeps ==
    ASSUME SocketIInv, NEW con \in [Connects -> {"idle", "token"}], NEW st, Leave(con, st)
    PROVE  /\ Sockets' = {} /\ lost' = {} /\ ws' = None
           /\ conn' = con /\ stop' = st
           /\ ~silent' /\ ~exited' /\ ~away' /\ sent' = sent
           /\ of' \in [Connects -> Panes \cup {None}]
<1>1. Sockets' = {}
  BY DEF Sockets, Leave
<1>2. lost' = {}
  BY SocketAssumption
  DEF SocketIInv, OneSocket, LostAreSockets, Leave
<1>3. of' \in [Connects -> Panes \cup {None}]
  BY DEF Leave, SocketIInv, SocketTypeOK
<1> QED BY <1>1, <1>2, <1>3 DEF Leave

\* The types of the page's own variables.
PageTyped ==
    /\ pane \in Panes \cup {None}
    /\ key \in {KeyNow(p) : p \in Panes \cup {None}}
    /\ visible \in BOOLEAN /\ long \in BOOLEAN /\ hideTimer \in BOOLEAN
    /\ online \in BOOLEAN /\ wentOff \in BOOLEAN /\ onScreen \in BOOLEAN

\* After a step that leaves no socket the invariant holds, if what may open
\* one is as it should be.
LEMMA NoSocketLeft ==
    ASSUME SocketIInv, PageTyped',
           NEW con \in [Connects -> {"idle", "token"}],
           NEW st \in {"none", "hidden", "stopped"},
           Leave(con, st),
           cur' \in Connects \cup {None}, retry' \in BOOLEAN, exitedLast' \in BOOLEAN,
           retry' => st = "none",
           \A c \in Connects : c = cur' /\ con[c] = "token" => ~retry' /\ st = "none"
    PROVE  SocketIInv'
<1>1. /\ Sockets' = {} /\ lost' = {} /\ ws' = None
      /\ conn' = con /\ stop' = st
      /\ ~silent' /\ ~exited' /\ ~away' /\ sent' = sent
      /\ of' \in [Connects -> Panes \cup {None}]
  BY LeaveKeeps
<1>2. silent' = FALSE /\ exited' = FALSE /\ away' = FALSE
  BY DEF Leave
<1>3. SocketTypeOK'
  BY <1>1, <1>2 DEF SocketTypeOK, PageTyped, SocketIInv
<1>4. OneSocket' /\ RightPane' /\ VisibleTold' /\ LostAreSockets' /\ SocketAlone'
  BY <1>1 DEF OneSocket, RightPane, VisibleTold, LostAreSockets, SocketAlone
<1>5. HiddenHoldsNothing' /\ DeadIsAway' /\ TokenAlone' /\ RetryWanted'
  BY <1>1, SocketAssumption
  DEF HiddenHoldsNothing, DeadIsAway, TokenAlone, RetryWanted
<1> QED BY <1>3, <1>4, <1>5 DEF SocketIInv

\* teardown keeps the invariant.
LEMMA TeardownKeeps ==
    ASSUME SocketIInv, PageTyped', NEW st \in {"none", "hidden", "stopped"}, Teardown(st)
    PROVE  SocketIInv'
<1>1. Leave(Closed, st) /\ cur' = None /\ ~retry' /\ retry' = FALSE
      /\ exitedLast' = exitedLast
  BY DEF Teardown
<1>2. exitedLast' \in BOOLEAN
  BY <1>1 DEF SocketIInv, SocketTypeOK
<1> QED BY <1>1, <1>2, ClosedHasNone, NoSocketLeft, SocketAssumption

\* connect keeps it, for any pane.
LEMMA ConnectKeeps ==
    ASSUME SocketIInv, PageTyped', NEW p, Connect(p)
    PROVE  SocketIInv'
<1>1. CASE p = None
  BY <1>1, TeardownKeeps DEF Connect, SocketIInv, SocketTypeOK
<1>2. CASE p # None
  <2>1. PICK c \in Connects :
           /\ Leave([Closed EXCEPT ![c] = "token"], "none")
           /\ cur' = c /\ retry' = FALSE /\ exitedLast' = FALSE
    BY <1>2 DEF Connect
  <2>2. [Closed EXCEPT ![c] = "token"] \in [Connects -> {"idle", "token"}]
    BY ClosedHasNone
  <2> QED BY <2>1, <2>2, NoSocketLeft
<1> QED BY <1>1, <1>2

\* The page's variables keep their types when they are left alone.
LEMMA PageKept == SocketIInv /\ UNCHANGED pageVars => PageTyped'
  BY DEF SocketIInv, SocketTypeOK, PageTyped, pageVars, KeyNow

-----------------------------------------------------------------------------
(* Every step keeps the invariant.                                         *)

\* A token comes, or not: a socket opens for the current connect only.
LEMMA TokenKeeps ==
    ASSUME SocketIInv, NEW c \in Connects, TokenArrives(c) \/ TokenFails(c)
    PROVE  SocketIInv'
<1>1. ASSUME NoSocket(c), conn[c] = "token", retry' \in BOOLEAN,
             retry' => retry \/ c = cur
      PROVE  SocketIInv'
  <2>1. Sockets' = Sockets /\ ws # c
    BY <1>1, SocketAssumption DEF NoSocket, Sockets, SocketIInv, SocketTypeOK
  <2>2. SocketTypeOK'
    BY <1>1, <2>1 DEF NoSocket, SocketIInv, SocketTypeOK, pageVars
  <2>3. OneSocket' /\ RightPane' /\ VisibleTold' /\ LostAreSockets' /\ DeadIsAway'
    BY <1>1, <2>1
    DEF NoSocket, SocketIInv, SocketTypeOK, OneSocket, RightPane, VisibleTold,
        LostAreSockets, DeadIsAway, pageVars
  <2>4. HiddenHoldsNothing' /\ TokenAlone' /\ SocketAlone' /\ RetryWanted'
    BY <1>1, SocketAssumption
    DEF NoSocket, SocketIInv, SocketTypeOK, HiddenHoldsNothing, TokenAlone,
        SocketAlone, RetryWanted
  <2> QED BY <2>2, <2>3, <2>4 DEF SocketIInv
<1>2. CASE TokenFails(c)
  <2>1. retry' \in BOOLEAN
    BY <1>2 DEF TokenFails, SocketIInv, SocketTypeOK
  <2> QED BY <1>1, <1>2, <2>1 DEF TokenFails
<1>3. CASE TokenArrives(c) /\ (c # cur \/ pane = None)
  BY <1>1, <1>3 DEF TokenArrives, SocketIInv, SocketTypeOK
<1>4. CASE TokenArrives(c) /\ c = cur /\ pane # None
  <2>1. conn[c] = "token" /\ Attach(c) /\ pane \in Panes
    BY <1>4 DEF TokenArrives, SocketIInv, SocketTypeOK
  <2>2. ws = None /\ ~retry /\ stop = "none" /\ Sockets = {} /\ lost = {}
    BY <1>4, <2>1, SocketAssumption
    DEF SocketIInv, TokenAlone, OneSocket, Sockets, LostAreSockets
  <2>3. Sockets' = {c}
    BY <2>1, <2>2 DEF Attach, Sockets, SocketIInv, SocketTypeOK
  <2>4. SocketTypeOK'
    <3>1. PageTyped'
      BY <2>1, PageKept DEF Attach
    <3>2. /\ conn' \in [Connects -> {"idle", "token", "opening", "open"}]
          /\ of' \in [Connects -> Panes \cup {None}]
      BY <2>1 DEF Attach, SocketIInv, SocketTypeOK
    <3>3. UNCHANGED <<lost, cur, retry, stop, exitedLast>> /\ ws' = c
          /\ silent' = TRUE /\ exited' = FALSE /\ sent' = FALSE /\ away' = FALSE
      BY <2>1 DEF Attach
    <3> QED BY <2>3, <3>1, <3>2, <3>3, SocketAssumption
            DEF SocketIInv, SocketTypeOK, PageTyped
  <2>5. OneSocket' /\ LostAreSockets' /\ DeadIsAway'
    BY <2>1, <2>2, <2>3 DEF Attach, OneSocket, LostAreSockets, DeadIsAway
  <2>6. RightPane' /\ VisibleTold'
    BY <2>1 DEF Attach, RightPane, VisibleTold, pageVars, SocketIInv, SocketTypeOK, KeyNow
  <2>7. HiddenHoldsNothing' /\ TokenAlone' /\ SocketAlone' /\ RetryWanted'
    BY <1>4, <2>1, <2>2
    DEF Attach, SocketIInv, SocketTypeOK, HiddenHoldsNothing, TokenAlone, SocketAlone,
        RetryWanted
  <2> QED BY <2>4, <2>5, <2>6, <2>7 DEF SocketIInv
<1> QED BY <1>2, <1>3, <1>4

\* The socket opens, shows something or says that its terminal exited.
LEMMA FrameKeeps ==
    ASSUME SocketIInv, NEW c \in Connects, Opens(c) \/ Output(c) \/ ExitFrame(c)
    PROVE  SocketIInv'
<1>1. /\ c = ws /\ conn[c] \in {"opening", "open"}
      /\ conn' = [conn EXCEPT ![c] = "open"]
      /\ UNCHANGED <<of, lost, cur, ws, retry, stop, exitedLast, away, pageVars>>
      /\ silent' \in {silent, FALSE} /\ exited' \in {exited, TRUE}
      /\ sent' \in {sent, onScreen /\ visible}
      /\ conn[c] = "open" \/ sent' = (onScreen /\ visible)
  BY DEF Opens, Output, ExitFrame, Live, SocketIInv, SocketTypeOK
<1>2. Sockets' = Sockets
  BY <1>1 DEF Sockets, SocketIInv, SocketTypeOK
<1>3. SocketTypeOK'
  <2>1. PageTyped'
    BY <1>1, PageKept
  <2>2. conn' \in [Connects -> {"idle", "token", "opening", "open"}]
    BY <1>1 DEF SocketIInv, SocketTypeOK
  <2>3. silent' \in BOOLEAN /\ exited' \in BOOLEAN /\ sent' \in BOOLEAN
    BY <1>1 DEF SocketIInv, SocketTypeOK
  <2>4. ws' # None => ws' \in Sockets'
    BY <1>1, <1>2 DEF SocketIInv, SocketTypeOK
  <2>5. ws' # None
    BY <1>1, SocketAssumption
  <2> QED BY <1>1, <2>1, <2>2, <2>3, <2>4, <2>5 DEF SocketIInv, SocketTypeOK, PageTyped
<1>4. OneSocket' /\ RightPane' /\ LostAreSockets' /\ DeadIsAway'
  BY <1>1, <1>2
  DEF SocketIInv, OneSocket, RightPane, LostAreSockets, DeadIsAway, pageVars
<1>5. VisibleTold'
  BY <1>1 DEF SocketIInv, SocketTypeOK, VisibleTold, pageVars
<1>6. HiddenHoldsNothing' /\ TokenAlone' /\ SocketAlone' /\ RetryWanted'
  BY <1>1, SocketAssumption
  DEF SocketIInv, SocketTypeOK, HiddenHoldsNothing, TokenAlone, SocketAlone, RetryWanted
<1> QED BY <1>3, <1>4, <1>5, <1>6 DEF SocketIInv

\* The attached socket is closed by the server, the browser or the timer.
LEMMA CloseKeeps ==
    ASSUME SocketIInv,
           \/ StartTimeout
           \/ \E c \in Connects, e \in BOOLEAN : CloseEvent(c, e)
    PROVE  SocketIInv'
<1>1. ws # None
  <2>1. CASE StartTimeout
    BY <2>1 DEF StartTimeout, SocketIInv, SocketTypeOK
  <2>2. CASE \E c \in Connects, e \in BOOLEAN : CloseEvent(c, e)
    BY <2>2, SocketAssumption DEF CloseEvent
  <2> QED BY <2>1, <2>2
<1>2. stop = "none" /\ ~retry
  BY <1>1 DEF SocketIInv, SocketAlone
<1>3. CASE StartTimeout
  <2>1. /\ Leave(Closed, "none") /\ cur' = None /\ retry' = TRUE
        /\ exitedLast' = exitedLast /\ UNCHANGED pageVars
    BY <1>2, <1>3 DEF StartTimeout
  <2>2. PageTyped' /\ exitedLast' \in BOOLEAN
    BY <2>1, PageKept DEF SocketIInv, SocketTypeOK
  <2> QED BY <2>1, <2>2, ClosedHasNone, NoSocketLeft, SocketAssumption
<1>4. ASSUME NEW c \in Connects, NEW e \in BOOLEAN, CloseEvent(c, e)
      PROVE  SocketIInv'
  <2>1. c = ws /\ cur' = cur /\ UNCHANGED pageVars
    BY <1>4 DEF CloseEvent
  <2>2. PageTyped' /\ cur' \in Connects \cup {None}
    BY <2>1, PageKept DEF SocketIInv, SocketTypeOK
  <2>3. \A x \in Connects : ~(x = cur' /\ Closed[x] = "token")
    BY <1>1, <2>1, ClosedHasNone DEF SocketIInv, TokenAlone
  <2>4. CASE e \/ exited
    <3>1. /\ Leave(Closed, "stopped") /\ retry' = retry /\ exitedLast' = exited
      BY <1>4, <2>4 DEF CloseEvent
    <3>2. retry' \in BOOLEAN /\ exitedLast' \in BOOLEAN /\ ~retry'
      BY <1>2, <3>1 DEF SocketIInv, SocketTypeOK
    <3> QED BY <2>2, <2>3, <3>1, <3>2, ClosedHasNone, NoSocketLeft
  <2>5. CASE ~(e \/ exited)
    <3>1. /\ Leave(Closed, "none") /\ retry' = TRUE /\ exitedLast' = exitedLast
      BY <1>2, <1>4, <2>5 DEF CloseEvent
    <3>2. exitedLast' \in BOOLEAN
      BY <3>1 DEF SocketIInv, SocketTypeOK
    <3> QED BY <2>2, <2>3, <3>1, <3>2, ClosedHasNone, NoSocketLeft
  <2> QED BY <2>4, <2>5
<1> QED BY <1>3, <1>4

\* Steps that close no socket and open none: the page is shown elsewhere, its
\* network changes, or a timer finds nothing to do.
LEMMA PageKeeps ==
    ASSUME SocketIInv, PageTyped',
           UNCHANGED <<conn, of, cur, ws, silent, retry, stop, exited, exitedLast>>,
           away' \in BOOLEAN, sent' \in BOOLEAN,
           lost' \subseteq Sockets, RightPane', VisibleTold', DeadIsAway'
    PROVE  SocketIInv'
<1>1. Sockets' = Sockets
  BY DEF Sockets
<1>2. SocketTypeOK'
  BY <1>1 DEF SocketIInv, SocketTypeOK, PageTyped, Sockets
<1>3. OneSocket' /\ LostAreSockets'
  BY <1>1 DEF SocketIInv, OneSocket, LostAreSockets
<1>4. HiddenHoldsNothing' /\ TokenAlone' /\ SocketAlone' /\ RetryWanted'
  BY DEF SocketIInv, HiddenHoldsNothing, TokenAlone, SocketAlone, RetryWanted
<1> QED BY <1>2, <1>3, <1>4 DEF SocketIInv

\* What the server is told once the page or the pane came to be seen or not.
LEMMA TellsKeep ==
    ASSUME SocketIInv, UNCHANGED <<conn, ws>>, Tells(onScreen', visible')
    PROVE  sent' \in BOOLEAN /\ VisibleTold'
  BY DEF SocketIInv, SocketTypeOK, Tells, VisibleTold

\* Another pane is rendered, and its effects run.
LEMMA PaneKeeps ==
    ASSUME SocketIInv,
           KeyEffect \/ PaneSeen \/ Reconnect \/ RetryFires \/ \E p \in Panes \cup {None} : Render(p)
    PROVE  SocketIInv'
<1>1. CASE PaneSeen \/ Reconnect \/ RetryFires
  BY <1>1, PageKept, ConnectKeeps DEF PaneSeen, Reconnect, RetryFires
<1>2. CASE KeyEffect
  <2>1. PageTyped'
    BY <1>2 DEF KeyEffect, PageTyped, SocketIInv, SocketTypeOK
  <2> QED BY <1>2, <2>1, ConnectKeeps DEF KeyEffect
<1>3. ASSUME NEW p \in Panes \cup {None}, Render(p)
      PROVE  SocketIInv'
  <2>1. PageTyped'
    BY <1>3 DEF Render, PageTyped, SocketIInv, SocketTypeOK
  <2>2. UNCHANGED <<conn, of, lost, cur, ws, silent, retry, stop, exited,
                    exitedLast, sent, away, key, visible, online, onScreen>>
    BY <1>3 DEF Render, wsVars
  <2>3. RightPane' /\ VisibleTold' /\ DeadIsAway'
    BY <1>3, <2>2 DEF Render, SocketIInv, RightPane, VisibleTold, DeadIsAway
  <2> QED BY <2>1, <2>2, <2>3, PageKeeps DEF SocketIInv, SocketTypeOK, LostAreSockets
<1> QED BY <1>1, <1>2, <1>3

\* The page is hidden, shown, covered, or hidden for long.
LEMMA SeenKeeps ==
    ASSUME SocketIInv, Hide \/ Show \/ Draw \/ LongHidden \/ HideTimerFires
    PROVE  SocketIInv'
<1>1. PageTyped'
  BY DEF Hide, Show, Draw, LongHidden, HideTimerFires, wsVars, PageTyped, SocketIInv, SocketTypeOK
<1>2. CASE Hide \/ Draw
  <2>1. /\ UNCHANGED <<conn, of, lost, cur, ws, silent, retry, stop, exited,
                       exitedLast, pane, key, online, wentOff>>
        /\ Tells(onScreen', visible')
        /\ \/ visible' = visible /\ away' = away
           \/ away' = (away \/ ~online)
    BY <1>2 DEF Hide, Draw
  <2>2. RightPane'
    BY <2>1 DEF SocketIInv, RightPane
  <2>3. away' \in BOOLEAN /\ (away => away')
    <3>1. away \in BOOLEAN
      BY DEF SocketIInv, SocketTypeOK
    <3>2. CASE away' = away
      BY <3>1, <3>2
    <3>3. CASE away' = (away \/ ~online)
      BY <3>3
    <3> QED BY <2>1, <3>2, <3>3
  <2>4. DeadIsAway'
    BY <2>1, <2>3 DEF SocketIInv, DeadIsAway
  <2> QED BY <1>1, <2>1, <2>2, <2>3, <2>4, TellsKeep, PageKeeps
          DEF SocketIInv, SocketTypeOK, LostAreSockets
<1>3. CASE Show
  <2>1. CASE stop # "stopped" /\ (long \/ ws = None)
    BY <1>1, <1>3, <2>1, ConnectKeeps DEF Show
  <2>2. CASE ~(stop # "stopped" /\ (long \/ ws = None))
    <3>1. /\ UNCHANGED <<conn, of, lost, cur, ws, silent, retry, stop, exited,
                         exitedLast, away, pane, key, online, wentOff>>
          /\ Tells(onScreen', visible') /\ ~visible
      BY <1>3, <2>2 DEF Show
    <3>2. RightPane' /\ DeadIsAway'
      BY <3>1 DEF SocketIInv, RightPane, DeadIsAway
    <3> QED BY <1>1, <3>1, <3>2, TellsKeep, PageKeeps
            DEF SocketIInv, SocketTypeOK, LostAreSockets
  <2> QED BY <2>1, <2>2
<1>4. CASE \/ LongHidden
           \/ HideTimerFires /\ stop = "stopped"
  <2>1. UNCHANGED <<conn, of, lost, cur, ws, silent, retry, stop, exited,
                    exitedLast, sent, away, pane, key, visible, online, wentOff,
                    onScreen>>
    BY <1>4 DEF LongHidden, HideTimerFires, wsVars
  <2>2. RightPane' /\ VisibleTold' /\ DeadIsAway'
    BY <2>1 DEF SocketIInv, RightPane, VisibleTold, DeadIsAway
  <2> QED BY <1>1, <2>1, <2>2, PageKeeps DEF SocketIInv, SocketTypeOK, LostAreSockets
<1>5. CASE HideTimerFires /\ stop # "stopped"
  BY <1>1, <1>5, TeardownKeeps DEF HideTimerFires
<1> QED BY <1>2, <1>3, <1>4, <1>5

\* The network goes and comes back.
LEMMA NetworkKeeps ==
    ASSUME SocketIInv, Offline \/ Online
    PROVE  SocketIInv'
<1>1. PageTyped'
  BY DEF Offline, Online, PageTyped, SocketIInv, SocketTypeOK
<1>2. CASE Offline
  <2>1. /\ UNCHANGED <<conn, of, cur, ws, silent, retry, stop, exited, exitedLast,
                       sent, pane, key, visible, onScreen>>
        /\ ~online' /\ lost' \subseteq Sockets
        /\ away' = (away \/ ~visible) /\ (visible => wentOff')
    BY <1>2 DEF Offline, SocketIInv, LostAreSockets
  <2>2. RightPane' /\ VisibleTold' /\ DeadIsAway' /\ away' \in BOOLEAN
    BY <2>1 DEF SocketIInv, SocketTypeOK, RightPane, VisibleTold, DeadIsAway
  <2> QED BY <1>1, <2>1, <2>2, PageKeeps DEF SocketIInv, SocketTypeOK
<1>3. CASE Online /\ visible /\ stop # "stopped" /\ (wentOff \/ ws = None)
  BY <1>1, <1>3, ConnectKeeps DEF Online
<1>4. CASE Online /\ ~(visible /\ stop # "stopped" /\ (wentOff \/ ws = None))
  <2>1. /\ UNCHANGED <<conn, of, lost, cur, ws, silent, retry, stop, exited,
                       exitedLast, sent, away, pane, key, visible, onScreen>>
    BY <1>4 DEF Online, wsVars
  <2>2. RightPane' /\ VisibleTold'
    BY <2>1 DEF SocketIInv, RightPane, VisibleTold
  <2>3. DeadIsAway'
    <3>1. ws \in lost => stop # "stopped"
      BY SocketAssumption
      DEF SocketIInv, LostAreSockets, Sockets, SocketAlone
    <3>2. ws \in lost /\ ~away => visible /\ wentOff
      BY DEF SocketIInv, DeadIsAway
    <3> QED BY <1>4, <2>1, <3>1, <3>2 DEF DeadIsAway
  <2> QED BY <1>1, <2>1, <2>2, <2>3, PageKeeps DEF SocketIInv, SocketTypeOK, LostAreSockets
<1> QED BY <1>2, <1>3, <1>4

\* No step of the socket breaks the invariant.
LEMMA SocketNextKeeps == SocketIInv /\ [SocketNext]_socketVars => SocketIInv'
<1> SUFFICES ASSUME SocketIInv, [SocketNext]_socketVars
             PROVE  SocketIInv'
  OBVIOUS
<1>1. CASE \E c \in Connects : TokenArrives(c) \/ TokenFails(c)
  BY <1>1, TokenKeeps
<1>2. CASE \E c \in Connects : Opens(c) \/ Output(c) \/ ExitFrame(c)
  BY <1>2, FrameKeeps
<1>3. CASE \/ StartTimeout
           \/ \E c \in Connects : ServerCloses(c) \/ Evicted(c) \/ BrowserCloses(c)
  <2>1. StartTimeout \/ \E c \in Connects, e \in BOOLEAN : CloseEvent(c, e)
    BY <1>3 DEF ServerCloses, Evicted, BrowserCloses
  <2> QED BY <2>1, CloseKeeps
<1>4. CASE Offline \/ Online
  BY <1>4, NetworkKeeps
<1>5. CASE KeyEffect \/ PaneSeen \/ Reconnect \/ RetryFires \/ \E p \in Panes \cup {None} : Render(p)
  BY <1>5, PaneKeeps
<1>6. CASE Hide \/ Show \/ Draw \/ LongHidden \/ HideTimerFires
  BY <1>6, SeenKeeps
<1>7. CASE UNCHANGED socketVars
  <2>1. PageTyped'
    BY <1>7, PageKept DEF socketVars
  <2>2. UNCHANGED <<conn, of, lost, cur, ws, silent, retry, stop, exited,
                    exitedLast, sent, away, pane, key, visible, online, wentOff,
                    onScreen>>
    BY <1>7 DEF socketVars, wsVars, pageVars
  <2>3. RightPane' /\ VisibleTold' /\ DeadIsAway'
    BY <2>2 DEF SocketIInv, RightPane, VisibleTold, DeadIsAway
  <2> QED BY <2>1, <2>2, <2>3, PageKeeps DEF SocketIInv, SocketTypeOK, LostAreSockets
<1> QED BY <1>1, <1>2, <1>3, <1>4, <1>5, <1>6, <1>7
        DEF SocketNext, SocketNetwork, SocketTimers, SocketUser

\* The inductive invariant of the socket holds.
THEOREM SocketInductive == SocketSpec => []SocketIInv
  BY SocketInitially, SocketNextKeeps, PTL DEF SocketSpec

-----------------------------------------------------------------------------
(* What follows from it.                                                   *)

\* Every variable keeps to what the page can hold, for any number of connects.
THEOREM SocketTypeCorrect == SocketSpec => []SocketTypeOK
<1>1. SocketIInv => SocketTypeOK
  BY DEF SocketIInv
<1> QED BY <1>1, SocketInductive, PTL

\* At any time one socket at most is open, and it is the attached one.
THEOREM NoSecondSocket == SocketSpec => []OneSocket
<1>1. SocketIInv => OneSocket
  BY DEF SocketIInv
<1> QED BY <1>1, SocketInductive, PTL

\* The socket attached is of the pane shown, once its effect has run.
THEOREM PaneIsRight == SocketSpec => []RightPane
<1>1. SocketIInv => RightPane
  BY DEF SocketIInv
<1> QED BY <1>1, SocketInductive, PTL

\* An open socket's server knows whether the pane is seen.
THEOREM ServerIsTold == SocketSpec => []VisibleTold
<1>1. SocketIInv => VisibleTold
  BY DEF SocketIInv
<1> QED BY <1>1, SocketInductive, PTL

\* A page that closed its stream because it was hidden opens none by itself.
THEOREM HiddenIsQuiet == SocketSpec => []HiddenHoldsNothing
<1>1. SocketIInv => HiddenHoldsNothing
  BY DEF SocketIInv
<1> QED BY <1>1, SocketInductive, PTL

\* A page shown all the time its network was gone keeps no socket that died with
\* it, whatever is drawn, told, retried or chosen meanwhile (onOffline, onOnline).
THEOREM DeadIsReplaced == SocketSpec => []DeadOnlyIfAway
<1>1. SocketIInv => DeadOnlyIfAway
  BY DEF SocketIInv, DeadIsAway, DeadOnlyIfAway
<1> QED BY <1>1, SocketInductive, PTL

\* No timer, network event or change of visibility reopens a stream that was
\* pushed out.
THEOREM EvictedStaysClosed == SocketSpec => EvictedStays
<1>1. SocketIInv /\ [SocketNext]_socketVars
        => [(stop = "stopped" /\ stop' # "stopped")
              => key' # key \/ exitedLast \/ (~retry /\ Reconnect)]_socketVars
  <2> SUFFICES ASSUME SocketIInv, SocketNext, stop = "stopped", stop' # "stopped"
               PROVE  key' # key \/ exitedLast \/ (~retry /\ Reconnect)
    OBVIOUS
  <2>1. ~retry /\ ws = None /\ ~silent
    BY DEF SocketIInv, RetryWanted, SocketAlone, SocketTypeOK
  <2>2. ~SocketTimers
    <3>1. ~RetryFires
      BY <2>1 DEF RetryFires
    <3>2. ~StartTimeout
      BY <2>1 DEF StartTimeout
    <3>3. ~(LongHidden \/ HideTimerFires)
      BY DEF LongHidden, HideTimerFires, wsVars
    <3> QED BY <3>1, <3>2, <3>3 DEF SocketTimers
  <2>3. ~SocketNetwork
    <3>1. ASSUME NEW c \in Connects PROVE ~(TokenArrives(c) \/ TokenFails(c))
      BY DEF TokenArrives, TokenFails, NoSocket, Attach
    <3>2. ASSUME NEW c \in Connects PROVE ~(Opens(c) \/ Output(c) \/ ExitFrame(c))
      BY DEF Opens, Output, ExitFrame
    <3>3. ASSUME NEW c \in Connects
          PROVE  ~(ServerCloses(c) \/ Evicted(c) \/ BrowserCloses(c))
      BY <2>1, SocketAssumption DEF ServerCloses, Evicted, BrowserCloses, CloseEvent
    <3>4. ~(Offline \/ Online)
      BY DEF Offline, Online, wsVars
    <3> QED BY <3>1, <3>2, <3>3, <3>4 DEF SocketNetwork
  <2>4. CASE SocketUser
    <3>1. ~(Hide \/ Show \/ Draw)
      BY DEF Hide, Show, Draw
    <3>2. ASSUME NEW p \in Panes \cup {None} PROVE ~Render(p)
      BY DEF Render, wsVars
    <3>3. CASE KeyEffect
      BY <3>3 DEF KeyEffect
    <3>4. CASE PaneSeen
      BY <3>4 DEF PaneSeen
    <3>5. CASE Reconnect
      BY <2>1, <3>5
    <3> QED BY <2>4, <3>1, <3>2, <3>3, <3>4, <3>5 DEF SocketUser
  <2> QED BY <2>2, <2>3, <2>4 DEF SocketNext
<1> QED BY <1>1, SocketInductive, PTL DEF SocketSpec, EvictedStays

\* The stream of the page is one, of its pane, and none while it is hidden for
\* long.
THEOREM OneStream == SocketSpec => []OneStreamOfThePane
BY NoSecondSocket, PaneIsRight, HiddenIsQuiet, PTL DEF OneStreamOfThePane

-----------------------------------------------------------------------------
(* ChangesStore: the inductive invariant.                                  *)

\* Nothing is open before the first answer.
NoneOpenYet == shownRepo = None => tabs = {}

\* A poll whose answer counts was sent for the root shown.
FreshIsOfRoot == poll # NoPoll /\ poll.fresh => poll.asked = shownRepo

\* What the user's own actions took off the list: git does not list it, and
\* the news of it is expected wherever it is still seen, in a tab, in the list
\* shown or in the answer of a poll sent before.
OwnIsGone == \A o \in own : o[2] \notin status[o[1]]
OwnTabsExpected ==
    \A t \in tabs : ~t.editing /\ <<t.repo, t.side>> \in own =>
        t.repo = shownRepo /\ t.side \in expected
OwnEntriesExpected == \A o \in own : o \in entries => o[2] \in expected
OwnAnswersExpected ==
    poll.at = "answered" =>
        \A s \in poll.sides : <<poll.repo, s>> \in own => s \in expected \ seenBy
OwnExpected ==
    OwnIsGone /\ OwnTabsExpected /\ OwnEntriesExpected /\ OwnAnswersExpected

\* A stage is under way only in a list that is shown.
ActingIsShown == acting # None => shownRepo # None

ChangesIInv ==
    /\ ChangesTypeOK
    /\ ActingIsShown
    /\ LeftAreAsked
    /\ NoneOpenYet
    /\ FreshIsOfRoot
    /\ OwnExpected

-----------------------------------------------------------------------------
(* What the operations on tabs return.                                     *)

TabViews ==
    {v \in [tabs : SUBSET DiffTab, shown : DiffTab \cup {None}, unsaved : SUBSET SourceFiles] :
        v.shown \in v.tabs \cup {None}}

\* The tabs, the one shown and the files with changes are a view.
LEMMA NowIsView == ChangesTypeOK => Now \in TabViews
BY DEF ChangesTypeOK, Now, TabViews

\* Closing tabs leaves the others, and no new unsaved change.
LEMMA WithoutView ==
    ASSUME NEW v \in TabViews, NEW gone, NEW w \in Without(v, gone)
    PROVE  /\ w \in TabViews
           /\ w.tabs = v.tabs \ gone
           /\ w.unsaved = Lasting(v, gone)
           /\ w.unsaved \subseteq v.unsaved
<1>1. /\ v.tabs \in SUBSET DiffTab
      /\ v.shown \in v.tabs \cup {None}
      /\ v.unsaved \in SUBSET SourceFiles
  BY DEF TabViews
<1>2. PICK s : /\ w = [tabs |-> v.tabs \ gone, shown |-> s, unsaved |-> Lasting(v, gone)]
               /\ s \in IF v.shown \notin gone THEN {v.shown}
                        ELSE IF v.tabs \ gone = {} THEN {None} ELSE v.tabs \ gone
  BY DEF Without
<1>3. s \in (v.tabs \ gone) \cup {None}
  BY <1>1, <1>2
<1>4. Lasting(v, gone) \in SUBSET v.unsaved
  BY DEF Lasting
<1> QED BY <1>1, <1>2, <1>3, <1>4 DEF TabViews

\* Opening a side adds at most its tab, and touches no unsaved change.
LEMMA OpenedView ==
    ASSUME NEW v \in TabViews, NEW r \in Repos, NEW s \in Diffs, NEW w \in Opened(v, r, s)
    PROVE  /\ w \in TabViews
           /\ w.unsaved = v.unsaved
           /\ w.tabs \subseteq v.tabs \cup {[repo |-> r, side |-> s, editing |-> FALSE]}
<1> DEFINE same == {t \in v.tabs : t.side = s}
           new == [repo |-> r, side |-> s, editing |-> FALSE]
<1>1. /\ v = [tabs |-> v.tabs, shown |-> v.shown, unsaved |-> v.unsaved]
      /\ v.tabs \in SUBSET DiffTab
      /\ v.shown \in v.tabs \cup {None}
      /\ v.unsaved \in SUBSET SourceFiles
  BY DEF TabViews
<1>2. new \in DiffTab
  BY DEF DiffTab
<1>3. CASE same # {}
  <2>1. PICK t \in same : w = [v EXCEPT !.shown = t]
    BY <1>3 DEF Opened
  <2>2. w = [tabs |-> v.tabs, shown |-> t, unsaved |-> v.unsaved]
    BY <2>1, <1>1
  <2> QED BY <2>2, <1>1 DEF TabViews
<1>4. CASE same = {}
  <2>1. PICK gone : w = [v EXCEPT !.tabs = (@ \ gone) \cup {new}, !.shown = new]
    BY <1>4 DEF Opened
  <2>2. w = [tabs |-> (v.tabs \ gone) \cup {new}, shown |-> new, unsaved |-> v.unsaved]
    BY <2>1, <1>1
  <2> QED BY <2>2, <1>1, <1>2 DEF TabViews
<1> QED BY <1>3, <1>4

-----------------------------------------------------------------------------
(* The poll.                                                               *)

\* No poll under way is a value of poll.
LEMMA NoPollIsPoll == NoPoll \in Polls
BY DEF Polls

\* The view starts in the invariant.
LEMMA ChangesInitially == ChangesInit => ChangesIInv
<1> SUFFICES ASSUME ChangesInit PROVE ChangesIInv
  OBVIOUS
<1>1. (CHOOSE r \in Repos : TRUE) \in Repos
  BY ChangesAssumption
<1>2. ChangesTypeOK
  <2>1. MaxChanges \in Nat
    BY ChangesAssumption
  <2>2. status \in [Repos -> SUBSET Diffs] /\ repo \in Repos /\ left \in 0..MaxChanges
    BY <2>1, <1>1 DEF ChangesInit
  <2> QED BY <2>2, NoPollIsPoll DEF ChangesInit, ChangesTypeOK
<1>3. LeftAreAsked /\ NoneOpenYet /\ ActingIsShown /\ FreshIsOfRoot
  BY DEF ChangesInit, LeftAreAsked, NoneOpenYet, ActingIsShown, FreshIsOfRoot
<1>4. OwnExpected
  BY DEF ChangesInit, OwnExpected, OwnIsGone, OwnTabsExpected, OwnEntriesExpected,
         OwnAnswersExpected, NoPoll
<1> QED BY <1>2, <1>3, <1>4 DEF ChangesIInv

\* A poll is sent for the root shown.
LEMMA SendPollKeeps ==
    ASSUME ChangesIInv, SendPoll, UNCHANGED own, left' \in 0..MaxChanges
    PROVE  ChangesIInv'
<1> USE DEF ChangesIInv, SendPoll, server, tabVars
<1>1. poll' \in Polls
  <2>1. shownRepo \in Repos \cup {None} /\ poll \in Polls
    BY DEF ChangesTypeOK
  <2>2. [at |-> "sent", asked |-> shownRepo, fresh |-> TRUE] \in Polls
    BY <2>1 DEF Polls
  <2> QED BY <2>1, <2>2
<1>5. ChangesTypeOK'
  BY <1>1 DEF ChangesTypeOK
<1>2. LeftAreAsked' /\ NoneOpenYet' /\ ActingIsShown'
  BY DEF LeftAreAsked, NoneOpenYet, ActingIsShown
<1>3. FreshIsOfRoot'
  BY DEF FreshIsOfRoot, NoPoll
<1>4. OwnExpected'
  BY DEF OwnExpected, OwnIsGone, OwnTabsExpected, OwnEntriesExpected, OwnAnswersExpected, NoPoll
<1> QED BY <1>5, <1>2, <1>3, <1>4

\* Whatever the server answers, nothing of it went by an own action.
LEMMA ServerTellsKeeps ==
    ASSUME ChangesIInv, UNCHANGED own, left' \in 0..MaxChanges,
           NEW r \in Repos \cup {None}, NEW sides \in SUBSET Diffs,
           \A s \in sides : <<r, s>> \notin own,
           ServerTells(r, sides)
    PROVE  ChangesIInv'
<1> USE DEF ChangesIInv, ServerTells, server, tabVars, listVars
<1>1. ChangesTypeOK'
  BY DEF ChangesTypeOK, NoPoll, Polls
<1>2. LeftAreAsked' /\ NoneOpenYet' /\ ActingIsShown'
  BY DEF LeftAreAsked, NoneOpenYet, ActingIsShown
<1>3. FreshIsOfRoot'
  BY DEF FreshIsOfRoot, NoPoll
<1>4. OwnExpected'
  BY DEF OwnExpected, OwnIsGone, OwnTabsExpected, OwnEntriesExpected, OwnAnswersExpected
<1> QED BY <1>1, <1>2, <1>3, <1>4

\* The server reads the status, refuses, or the request fails.
LEMMA ServerReadsKeeps ==
    ASSUME ChangesIInv, UNCHANGED own, left' \in 0..MaxChanges, ServerReads \/ PollFails
    PROVE  ChangesIInv'
<1>1. CASE PollFails
  BY <1>1, ServerTellsKeeps DEF PollFails
<1>2. CASE ServerReads
  <2> DEFINE sides == IF poll.asked \in {None, repo} THEN status[repo] ELSE {}
  <2>1. repo \in Repos /\ sides \in SUBSET Diffs
    BY DEF ChangesIInv, ChangesTypeOK
  <2>2. \A s \in sides : <<repo, s>> \notin own
    BY DEF ChangesIInv, OwnExpected, OwnIsGone
  <2>3. ServerTells(repo, sides)
    BY <1>2 DEF ServerReads
  <2> HIDE DEF sides
  <2> QED BY <2>1, <2>2, <2>3, ServerTellsKeeps
<1> QED BY <1>1, <1>2

(* The sides and folders of the answer of a poll. *)
LEMMA AnswerTypes ==
    ASSUME ChangesTypeOK, poll.at = "answered"
    PROVE  /\ poll.asked \in Repos \cup {None} /\ poll.fresh \in BOOLEAN
           /\ poll.repo \in Repos \cup {None} /\ poll.sides \in SUBSET Diffs
           /\ poll # NoPoll
BY DEF ChangesTypeOK, Polls, NoPoll

\* A list arrives: tabs close, a side opens, and no change is lost.
LEMMA AnswerListedKeeps ==
    ASSUME ChangesIInv, AnswerListed, UNCHANGED own, left' \in 0..MaxChanges
    PROVE  /\ ChangesIInv'
           /\ shownRepo \in {None, shownRepo'}
           /\ unsaved' = unsaved
<1> DEFINE gone == Pruned(Now, poll.sides, poll.repo)
<1>1. /\ ChangesTypeOK /\ poll.at = "answered"
      /\ poll.fresh /\ poll.repo # None /\ poll.asked \in {None, poll.repo}
      /\ Apply /\ PollEnds
  BY DEF ChangesIInv, AnswerListed, PollEnds, Fresh, Moved
<1>2. /\ poll.repo \in Repos /\ poll.sides \in SUBSET Diffs /\ poll.asked = shownRepo
  BY <1>1, AnswerTypes DEF ChangesIInv, FreshIsOfRoot
<1>3. shownRepo \in {None, poll.repo}
  BY <1>1, <1>2
<1>4. gone = {t \in tabs : ~t.editing /\ (t.repo # poll.repo \/ t.side \notin poll.sides)}
  BY DEF Pruned, Now
<1>5. PICK v \in Without(Now, gone) :
         \E w \in IF link \in poll.sides THEN Opened(v, poll.repo, link) ELSE {v} : Settled(w)
  BY <1>1 DEF Apply
<1>6. PICK w \in IF link \in poll.sides THEN Opened(v, poll.repo, link) ELSE {v} : Settled(w)
  BY <1>5
<1>7. Now \in TabViews /\ Now.tabs = tabs /\ Now.unsaved = unsaved
  BY <1>1, NowIsView DEF Now
<1> HIDE DEF gone
<1>8. v \in TabViews /\ v.tabs = tabs \ gone /\ v.unsaved = Lasting(Now, gone)
  BY <1>7, WithoutView
<1>9. v.unsaved = unsaved
  BY <1>8, <1>7, <1>4 DEF Lasting
<1>10. /\ w \in TabViews /\ w.unsaved = unsaved
       /\ \A t \in w.tabs : \/ t \in tabs \ gone
                            \/ t = [repo |-> poll.repo, side |-> link, editing |-> FALSE]
                               /\ link \in poll.sides
  BY <1>2, <1>6, <1>8, <1>9, OpenedView
<1>11. /\ tabs' = w.tabs /\ shown' = w.shown /\ unsaved' = unsaved
       /\ keptTabs' = keptTabs \cap w.tabs /\ askedTabs' = askedTabs \cap w.tabs
       /\ shownRepo' = poll.repo /\ entries' = {<<poll.repo, s>> : s \in poll.sides}
       /\ loaded' = TRUE /\ expected' = expected \ seenBy /\ seenBy' = {} /\ link' = None
       /\ poll' = NoPoll /\ again' = FALSE /\ timer' = (watched /\ inFront)
       /\ UNCHANGED <<repo, status, acting, watched, inFront, own>>
  BY <1>1, <1>6, <1>10
     DEF Apply, Settled, StillExpected, TakeLink, PollEnds, Schedule, server, gone
<1> USE DEF ChangesIInv
<1>12. ChangesTypeOK'
  <2>1. /\ tabs' \subseteq DiffTab /\ shown' \in tabs' \cup {None}
        /\ askedTabs' \cup keptTabs' \subseteq tabs'
    BY <1>10, <1>11 DEF TabViews, ChangesTypeOK
  <2>2. entries' \subseteq Repos \X Diffs /\ shownRepo' \in Repos \cup {None}
    BY <1>2, <1>11
  <2> QED BY <2>1, <2>2, <1>11, NoPollIsPoll DEF ChangesTypeOK
<1>13. LeftAreAsked' /\ NoneOpenYet' /\ ActingIsShown' /\ FreshIsOfRoot'
  BY <1>1, <1>2, <1>3, <1>10, <1>11
     DEF LeftAreAsked, NoneOpenYet, ActingIsShown, FreshIsOfRoot, ChangesTypeOK
<1>14. OwnExpected'
  BY <1>1, <1>2, <1>3, <1>4, <1>10, <1>11
     DEF OwnExpected, OwnIsGone, OwnTabsExpected, OwnEntriesExpected, OwnAnswersExpected,
         NoPoll, ChangesTypeOK
<1> QED BY <1>3, <1>11, <1>12, <1>13, <1>14

(* The news of an answer is not of what the user's own actions took away. *)
LEMMA AnswerIsNews ==
    ASSUME ChangesIInv, AnswerListed
    PROVE  \A s \in notice' : <<shownRepo', s>> \notin own
<1>1. /\ shownRepo' = poll.repo
      /\ notice' = News(Pruned(Now, poll.sides, poll.repo), poll.repo)
  BY DEF AnswerListed, Apply
<1> QED BY <1>1 DEF News, Pruned, Now, ChangesIInv, OwnExpected, OwnTabsExpected

(* A poll whose answer does not count any more is a poll all the same. *)
LEMMA PollOutdated ==
    ASSUME poll \in Polls, poll' = IF poll = NoPoll THEN poll ELSE [poll EXCEPT !.fresh = FALSE]
    PROVE  /\ poll' \in Polls
           /\ poll' # NoPoll => ~poll'.fresh
           /\ poll'.at = poll.at
           /\ poll'.at = "answered" => poll'.repo = poll.repo /\ poll'.sides = poll.sides
<1>1. CASE poll = NoPoll
  BY <1>1 DEF NoPoll
<1>2. CASE poll \in [at : {"sent"}, asked : Repos \cup {None}, fresh : BOOLEAN]
  <2>1. poll # NoPoll
    BY <1>2 DEF NoPoll
  <2>2. poll' = [poll EXCEPT !.fresh = FALSE]
    BY <2>1
  <2>3. /\ poll' \in [at : {"sent"}, asked : Repos \cup {None}, fresh : BOOLEAN]
        /\ poll'.fresh = FALSE /\ poll'.at = "sent" /\ poll.at = "sent"
    BY <2>2, <1>2
  <2> QED BY <2>3 DEF Polls
<1>3. CASE poll \in [at : {"answered"}, asked : Repos \cup {None}, fresh : BOOLEAN,
                     repo : Repos \cup {None}, sides : SUBSET Diffs]
  <2>1. poll # NoPoll
    BY <1>3 DEF NoPoll
  <2>2. poll' = [poll EXCEPT !.fresh = FALSE]
    BY <2>1
  <2>3. /\ poll' \in [at : {"answered"}, asked : Repos \cup {None}, fresh : BOOLEAN,
                      repo : Repos \cup {None}, sides : SUBSET Diffs]
        /\ poll'.fresh = FALSE /\ poll'.at = "answered" /\ poll.at = "answered"
        /\ poll'.repo = poll.repo /\ poll'.sides = poll.sides
    BY <2>2, <1>3
  <2> QED BY <2>3 DEF Polls
<1> QED BY <1>1, <1>2, <1>3 DEF Polls

(* A move of the root closes what holds no changes and asks about the rest. *)
LEMMA RootMovesKeeps ==
    ASSUME ChangesIInv, NEW r \in Repos, RootMoves(r), shownRepo # r,
           UNCHANGED <<repo, status, acting, own, watched, inFront>>,
           left' \in 0..MaxChanges,
           timer' \in BOOLEAN, timer' => watched' /\ inFront', again' \in BOOLEAN,
           \/ poll' = NoPoll
           \/ poll' = IF poll = NoPoll THEN poll ELSE [poll EXCEPT !.fresh = FALSE]
    PROVE  /\ ChangesIInv'
           /\ unsaved' = unsaved
           /\ entries' = {} /\ ~loaded'
<1> DEFINE gone == MovedTabs(r)
<1>1. PICK v \in Without(Now, gone) :
         /\ tabs' = v.tabs /\ shown' = v.shown /\ unsaved' = v.unsaved
         /\ askedTabs' = AskedAbout(v, r)
         /\ keptTabs' = {}
  BY DEF RootMoves
<1>2. /\ gone = {t \in tabs : t.repo # r /\ ~(t.editing /\ FileAt(t) \in unsaved)}
      /\ askedTabs' = {t \in tabs' : t.repo # r}
      /\ shownRepo' = r /\ entries' = {} /\ loaded' = FALSE
      /\ UNCHANGED <<notice, expected, seenBy, link>>
  BY <1>1 DEF MovedTabs, Holding, AskedAbout, RootMoves
<1> HIDE DEF gone
<1>3. ChangesTypeOK /\ Now \in TabViews /\ Now.tabs = tabs /\ Now.unsaved = unsaved
  BY NowIsView DEF Now, ChangesIInv
<1>4. v \in TabViews /\ v.tabs = tabs \ gone /\ v.unsaved = Lasting(Now, gone)
  BY <1>3, WithoutView
<1>5. v.unsaved = unsaved
  BY <1>4, <1>3, <1>2 DEF Lasting
<1>6. /\ poll' \in Polls
      /\ poll' # NoPoll => ~poll'.fresh
      /\ poll'.at = "answered" => poll.at = "answered" /\ poll'.repo = poll.repo
                                  /\ poll'.sides = poll.sides
  <2>1. CASE poll' = NoPoll
    BY <2>1, NoPollIsPoll DEF NoPoll
  <2>2. CASE poll' = IF poll = NoPoll THEN poll ELSE [poll EXCEPT !.fresh = FALSE]
    <3>1. poll \in Polls
      BY <1>3 DEF ChangesTypeOK
    <3> QED BY <3>1, <2>2, PollOutdated
  <2> QED BY <2>1, <2>2
<1> USE DEF ChangesIInv
<1>7. ChangesTypeOK'
  <2>1. /\ tabs' \subseteq DiffTab /\ shown' \in tabs' \cup {None}
        /\ askedTabs' \cup keptTabs' \subseteq tabs'
    BY <1>1, <1>2, <1>4 DEF TabViews
  <2>2. unsaved' \subseteq SourceFiles
    BY <1>1, <1>5 DEF ChangesTypeOK
  <2> QED BY <2>1, <2>2, <1>2, <1>6 DEF ChangesTypeOK
<1>8. LeftAreAsked' /\ NoneOpenYet' /\ ActingIsShown' /\ FreshIsOfRoot'
  BY <1>1, <1>2, <1>6, ChangesAssumption
     DEF LeftAreAsked, NoneOpenYet, ActingIsShown, FreshIsOfRoot, ChangesTypeOK
<1>9. OwnExpected'
  <2>1. \A t \in tabs' : t \in tabs /\ (t.repo = r \/ t.editing)
    BY <1>1, <1>2, <1>4
  <2> QED BY <2>1, <1>2, <1>6
     DEF OwnExpected, OwnIsGone, OwnTabsExpected, OwnEntriesExpected, OwnAnswersExpected
<1> QED BY <1>1, <1>2, <1>5, <1>7, <1>8, <1>9

\* An answer of another folder than asked for moves the root, or nothing.
LEMMA AnswerMovedKeeps ==
    ASSUME ChangesIInv, AnswerMoved, UNCHANGED own, left' \in 0..MaxChanges
    PROVE  /\ ChangesIInv'
           /\ unsaved' = unsaved
           /\ shownRepo' # shownRepo => entries' = {} /\ ~loaded'
<1>1. /\ ChangesTypeOK /\ poll.at = "answered" /\ poll.repo # None
      /\ poll' = NoPoll /\ again' = FALSE /\ timer' = (watched /\ inFront)
      /\ UNCHANGED <<repo, status, acting, watched, inFront>>
  BY DEF AnswerMoved, PollEnds, Schedule, ChangesIInv, server
<1>2. /\ poll.repo \in Repos /\ timer' \in BOOLEAN /\ again' \in BOOLEAN
  BY <1>1, AnswerTypes DEF ChangesTypeOK
<1>3. CASE poll.repo = shownRepo
  <2>1. UNCHANGED <<listVars, tabVars>>
    BY <1>3 DEF AnswerMoved
  <2> USE DEF ChangesIInv, listVars, tabVars
  <2>2. ChangesTypeOK'
    BY <1>1, <2>1, NoPollIsPoll DEF ChangesTypeOK
  <2>3. LeftAreAsked' /\ NoneOpenYet' /\ ActingIsShown' /\ FreshIsOfRoot'
    BY <1>1, <2>1 DEF LeftAreAsked, NoneOpenYet, ActingIsShown, FreshIsOfRoot
  <2>4. OwnExpected'
    BY <1>1, <2>1
     DEF OwnExpected, OwnIsGone, OwnTabsExpected, OwnEntriesExpected, OwnAnswersExpected, NoPoll
  <2> QED BY <2>1, <2>2, <2>3, <2>4
<1>4. CASE poll.repo # shownRepo
  <2>1. RootMoves(poll.repo)
    BY <1>4 DEF AnswerMoved
  <2> QED BY <1>1, <1>2, <1>4, <2>1, RootMovesKeeps
<1> QED BY <1>3, <1>4

\* An answer that failed or does not count takes nothing.
LEMMA AnswerUnheardKeeps ==
    ASSUME ChangesIInv, AnswerFailed \/ AnswerDropped, UNCHANGED own, left' \in 0..MaxChanges
    PROVE  ChangesIInv' /\ unsaved' = unsaved /\ shownRepo' = shownRepo
<1>1. /\ ChangesTypeOK /\ poll' = NoPoll /\ again' = FALSE /\ timer' = (watched /\ inFront)
      /\ UNCHANGED <<repo, status, acting, watched, inFront, tabVars>>
      /\ UNCHANGED <<shownRepo, entries, notice, expected, seenBy, link>>
      /\ loaded' \in {TRUE, loaded}
  BY DEF AnswerFailed, AnswerDropped, PollEnds, Schedule, ChangesIInv, server, listVars
<1> USE DEF ChangesIInv, tabVars
<1>2. ChangesTypeOK'
  BY <1>1, NoPollIsPoll DEF ChangesTypeOK
<1>3. LeftAreAsked' /\ NoneOpenYet' /\ ActingIsShown' /\ FreshIsOfRoot'
  BY <1>1 DEF LeftAreAsked, NoneOpenYet, ActingIsShown, FreshIsOfRoot
<1>4. OwnExpected'
  BY <1>1
   DEF OwnExpected, OwnIsGone, OwnTabsExpected, OwnEntriesExpected, OwnAnswersExpected, NoPoll
<1> QED BY <1>1, <1>2, <1>3, <1>4

-----------------------------------------------------------------------------
(* Others and the user.                                                    *)

\* The pane moves, or others change its files.
LEMMA OthersKeep ==
    ASSUME ChangesIInv, left' \in 0..MaxChanges,
           (PaneMoves /\ UNCHANGED own) \/ \E s \in Diffs : OthersChange(s)
    PROVE  ChangesIInv' /\ UNCHANGED <<shownRepo, unsaved>>
<1> USE DEF ChangesIInv, notServer, tabVars, listVars, pollVars
<1>1. UNCHANGED notServer /\ acting' = acting
  BY DEF PaneMoves, OthersChange
<1>2. /\ repo' \in Repos /\ status' \in [Repos -> SUBSET Diffs]
      /\ own' \subseteq own
      /\ \A o \in own' : o[2] \notin status'[o[1]]
  BY DEF PaneMoves, OthersChange, ChangesTypeOK, OwnExpected, OwnIsGone
<1>3. ChangesTypeOK'
  BY <1>1, <1>2 DEF ChangesTypeOK
<1>4. LeftAreAsked' /\ NoneOpenYet' /\ ActingIsShown' /\ FreshIsOfRoot'
  BY <1>1 DEF LeftAreAsked, NoneOpenYet, ActingIsShown, FreshIsOfRoot
<1>5. OwnExpected'
  BY <1>1, <1>2
   DEF OwnExpected, OwnIsGone, OwnTabsExpected, OwnEntriesExpected, OwnAnswersExpected
<1> QED BY <1>1, <1>3, <1>4, <1>5

\* A side is staged, unstaged or discarded.
LEMMA ActKeeps ==
    ASSUME ChangesIInv, left' \in 0..MaxChanges, UNCHANGED own, NEW s \in Diffs, Act(s)
    PROVE  ChangesIInv' /\ UNCHANGED <<shownRepo, unsaved>>
<1> USE DEF ChangesIInv, notServer, tabVars, listVars, pollVars
<1>1. /\ UNCHANGED <<notServer, repo>> /\ acting' = s /\ shownRepo = repo
      /\ status' = [status EXCEPT ![repo] = @ \ {s}]
  BY DEF Act
<1>2. ChangesTypeOK'
  BY <1>1 DEF ChangesTypeOK
<1>3. LeftAreAsked' /\ NoneOpenYet' /\ ActingIsShown' /\ FreshIsOfRoot'
  BY <1>1, ChangesAssumption
     DEF LeftAreAsked, NoneOpenYet, ActingIsShown, FreshIsOfRoot, ChangesTypeOK
<1>4. OwnExpected'
  BY <1>1
   DEF OwnExpected, OwnIsGone, OwnTabsExpected, OwnEntriesExpected, OwnAnswersExpected,
       ChangesTypeOK
<1> QED BY <1>1, <1>2, <1>3, <1>4

\* A refresh schedules a poll or asks for one more.
LEMMA RefreshTypes ==
    ASSUME ChangesTypeOK, Refresh, UNCHANGED <<watched, inFront>>
    PROVE  /\ timer' \in BOOLEAN /\ (timer' => watched' /\ inFront')
           /\ again' \in BOOLEAN
BY DEF ChangesTypeOK, Refresh

\* What an own action took off the list is expected to go.
LEMMA AppliedKeeps ==
    ASSUME ChangesIInv, left' \in 0..MaxChanges, Applied
    PROVE  ChangesIInv' /\ UNCHANGED <<shownRepo, unsaved>>
<1> USE DEF ChangesIInv, tabVars
<1>1. /\ acting \in Diffs /\ shownRepo \in Repos /\ acting' = None
      /\ own' \in {own, own \cup {<<shownRepo, acting>>}}
      /\ <<shownRepo, acting>> \in own' =>
            <<shownRepo, acting>> \in own \/ acting \notin status[shownRepo]
      /\ expected' = expected \cup {acting} /\ seenBy' = seenBy \ {acting}
      /\ UNCHANGED <<repo, status, tabVars, shownRepo, entries, loaded, notice,
                     link, watched, inFront, poll>>
      /\ Refresh
  BY DEF Applied, ChangesTypeOK, ActingIsShown
<1>2. ChangesTypeOK'
  BY <1>1, RefreshTypes DEF ChangesTypeOK
<1>3. LeftAreAsked' /\ NoneOpenYet' /\ ActingIsShown' /\ FreshIsOfRoot'
  BY <1>1 DEF LeftAreAsked, NoneOpenYet, ActingIsShown, FreshIsOfRoot
<1>4. OwnExpected'
  BY <1>1
   DEF OwnExpected, OwnIsGone, OwnTabsExpected, OwnEntriesExpected, OwnAnswersExpected,
       ChangesTypeOK
<1> QED BY <1>1, <1>2, <1>3, <1>4

(* A step on tabs, the list being what it was. *)
LEMMA TabStepKeeps ==
    ASSUME ChangesIInv, left' \in 0..MaxChanges,
           UNCHANGED <<repo, status, acting, shownRepo, entries, loaded, expected, seenBy,
                       watched, inFront>>,
           link' \in Diffs \cup {None}, own' \subseteq own,
           timer' \in BOOLEAN, timer' => watched' /\ inFront', again' \in BOOLEAN,
           poll' = poll \/ poll' = IF poll = NoPoll THEN poll ELSE [poll EXCEPT !.fresh = FALSE],
           tabs' \subseteq DiffTab, shown' \in tabs' \cup {None},
           askedTabs' \subseteq tabs', keptTabs' \subseteq tabs', unsaved' \subseteq SourceFiles,
           \A t \in tabs' : IF t.repo = shownRepo THEN t \notin askedTabs'
                            ELSE t \in askedTabs' \cup keptTabs',
           shownRepo = None => tabs' = {},
           \A t \in tabs' : ~t.editing /\ <<t.repo, t.side>> \in own' =>
               t.repo = shownRepo /\ t.side \in expected
    PROVE  ChangesIInv'
<1> USE DEF ChangesIInv
<1>1. /\ poll' \in Polls
      /\ poll' # NoPoll /\ poll'.fresh => poll' = poll
      /\ poll'.at = "answered" => poll.at = "answered" /\ poll'.repo = poll.repo
                                  /\ poll'.sides = poll.sides
  <2>1. poll \in Polls
    BY DEF ChangesTypeOK
  <2>2. CASE poll' = IF poll = NoPoll THEN poll ELSE [poll EXCEPT !.fresh = FALSE]
    BY <2>1, <2>2, PollOutdated
  <2> QED BY <2>1, <2>2
<1>2. ChangesTypeOK'
  BY <1>1 DEF ChangesTypeOK
<1>3. LeftAreAsked' /\ NoneOpenYet' /\ ActingIsShown' /\ FreshIsOfRoot'
  BY <1>1 DEF LeftAreAsked, NoneOpenYet, ActingIsShown, FreshIsOfRoot
<1>4. OwnExpected'
  BY <1>1
   DEF OwnExpected, OwnIsGone, OwnTabsExpected, OwnEntriesExpected, OwnAnswersExpected
<1> QED BY <1>2, <1>3, <1>4

(* The facts about tabs a step on them uses. *)
LEMMA TabFacts ==
    ASSUME ChangesIInv
    PROVE  /\ tabs \subseteq DiffTab /\ shown \in tabs \cup {None}
           /\ askedTabs \subseteq tabs /\ keptTabs \subseteq tabs
           /\ unsaved \subseteq SourceFiles /\ shownRepo \in Repos \cup {None}
           /\ entries \subseteq Repos \X Diffs /\ link \in Diffs \cup {None}
           /\ timer \in BOOLEAN /\ (timer => watched /\ inFront) /\ again \in BOOLEAN
           /\ \A t \in tabs : IF t.repo = shownRepo THEN t \notin askedTabs
                              ELSE t \in askedTabs \cup keptTabs
           /\ shownRepo = None => tabs = {}
           /\ \A t \in tabs : ~t.editing /\ <<t.repo, t.side>> \in own =>
                 t.repo = shownRepo /\ t.side \in expected
           /\ Now \in TabViews /\ Now.tabs = tabs /\ Now.unsaved = unsaved
BY NowIsView DEF ChangesIInv, ChangesTypeOK, LeftAreAsked, NoneOpenYet, OwnExpected,
                 OwnTabsExpected, Now

(* An opened diff is one the list has. *)
LEMMA OpensListed ==
    ASSUME ChangesIInv, left' \in 0..MaxChanges, UNCHANGED own,
           NEW s \in Diffs, <<shownRepo, s>> \in entries,
           NEW v \in Opened(Now, shownRepo, s), Settled(v), askedTabs' = askedTabs \cap tabs',
           UNCHANGED <<server, shownRepo, entries, loaded, expected, seenBy, pollVars>>,
           link' \in {link, None}
    PROVE  ChangesIInv' /\ unsaved' = unsaved
<1>1. shownRepo \in Repos
  BY TabFacts, ChangesAssumption
<1>2. /\ v \in TabViews /\ v.unsaved = unsaved
      /\ v.tabs \subseteq tabs \cup {[repo |-> shownRepo, side |-> s, editing |-> FALSE]}
  BY <1>1, TabFacts, OpenedView
<1>3. /\ tabs' = v.tabs /\ shown' = v.shown /\ unsaved' = unsaved
      /\ keptTabs' = keptTabs \cap v.tabs /\ askedTabs' = askedTabs \cap v.tabs
  BY <1>2 DEF Settled
<1>4. <<shownRepo, s>> \in own => s \in expected
  BY DEF ChangesIInv, OwnExpected, OwnEntriesExpected
<1>5. /\ tabs' \subseteq DiffTab /\ shown' \in tabs' \cup {None}
  BY <1>2, <1>3 DEF TabViews
<1>6. \A t \in tabs' : IF t.repo = shownRepo THEN t \notin askedTabs'
                       ELSE t \in askedTabs' \cup keptTabs'
  BY <1>2, <1>3, TabFacts
<1>7. \A t \in tabs' : ~t.editing /\ <<t.repo, t.side>> \in own' =>
               t.repo = shownRepo /\ t.side \in expected
  BY <1>2, <1>3, <1>4, TabFacts
<1> QED BY <1>1, <1>3, <1>5, <1>6, <1>7, TabFacts, TabStepKeeps, ChangesAssumption
        DEF server, pollVars

\* A side listed opens, from the list or from a link.
LEMMA OpenKeeps ==
    ASSUME ChangesIInv, left' \in 0..MaxChanges, UNCHANGED own, NEW s \in Diffs,
           OpenDiff(s) \/ OpenLink(s)
    PROVE  ChangesIInv' /\ UNCHANGED <<shownRepo, unsaved>>
<1>1. CASE OpenDiff(s)
  <2>1. PICK v \in Opened(Now, shownRepo, s) : Settled(v)
    BY <1>1 DEF OpenDiff
  <2> QED BY <1>1, <2>1, OpensListed DEF OpenDiff, notTabs, listVars
<1>2. CASE OpenLink(s) /\ loaded /\ <<shownRepo, s>> \in entries
  <2>1. PICK v \in Opened(Now, shownRepo, s) : Settled(v)
    BY <1>2 DEF OpenLink
  <2> QED BY <1>2, <2>1, OpensListed DEF OpenLink
<1>3. CASE OpenLink(s) /\ ~(loaded /\ <<shownRepo, s>> \in entries)
  <2>1. /\ UNCHANGED <<tabs, shown, unsaved, keptTabs>> /\ link' \in Diffs \cup {None}
        /\ askedTabs' = askedTabs \cap tabs'
        /\ UNCHANGED <<server, shownRepo, entries, loaded, expected, seenBy, pollVars>>
    BY <1>3 DEF OpenLink
  <2> QED BY <2>1, TabFacts, TabStepKeeps DEF server, pollVars
<1> QED BY <1>1, <1>2, <1>3

\* Another tab shows.
LEMMA ActivateKeeps ==
    ASSUME ChangesIInv, left' \in 0..MaxChanges, UNCHANGED own,
           NEW t \in tabs \cup {None}, Activate(t)
    PROVE  ChangesIInv' /\ UNCHANGED <<shownRepo, unsaved>>
BY TabFacts, TabStepKeeps DEF Activate, notTabs, server, listVars, pollVars

(* Tabs that close, whichever they are. *)
LEMMA ClosingKeeps ==
    ASSUME ChangesIInv, left' \in 0..MaxChanges, UNCHANGED own,
           NEW gone, NEW v \in Without(Now, gone), Settled(v),
           askedTabs' = askedTabs \ gone, UNCHANGED notTabs
    PROVE  /\ ChangesIInv' /\ UNCHANGED shownRepo
           /\ \A f \in unsaved \ unsaved' : \A t \in tabs' : ~(t.editing /\ FileAt(t) = f)
<1>1. v \in TabViews /\ v.tabs = tabs \ gone /\ v.unsaved = Lasting(Now, gone)
      /\ v.unsaved \subseteq unsaved
  BY TabFacts, WithoutView
<1>2. /\ tabs' = v.tabs /\ shown' = v.shown /\ unsaved' = v.unsaved
      /\ keptTabs' = keptTabs \cap v.tabs
  BY DEF Settled
<1>3. tabs' \subseteq DiffTab /\ shown' \in tabs' \cup {None}
  BY <1>1, <1>2 DEF TabViews
<1>4. ChangesIInv'
  BY <1>1, <1>2, <1>3, TabFacts, TabStepKeeps DEF notTabs, server, listVars, pollVars
<1>5. \A f \in unsaved \ unsaved' : \A t \in tabs' : ~(t.editing /\ FileAt(t) = f)
  BY <1>1, <1>2, TabFacts DEF Lasting
<1> QED BY <1>4, <1>5 DEF notTabs, listVars

\* A tab closes: a file keeps its changes while another tab edits it.
LEMMA CloseTabKeeps ==
    ASSUME ChangesIInv, left' \in 0..MaxChanges, UNCHANGED own, NEW t \in tabs, CloseTab(t)
    PROVE  /\ ChangesIInv' /\ UNCHANGED shownRepo
           /\ \A f \in unsaved \ unsaved' : \A u \in tabs' : ~(u.editing /\ FileAt(u) = f)
<1>1. PICK v \in Without(Now, {t}) : Settled(v)
  BY DEF CloseTab
<1> QED BY <1>1, ClosingKeeps DEF CloseTab

\* The user closes or keeps the tabs asked about.
LEMMA ResolveKeeps ==
    ASSUME ChangesIInv, left' \in 0..MaxChanges, UNCHANGED own,
           NEW closing \in BOOLEAN, ResolveRootClose(closing)
    PROVE  /\ ChangesIInv' /\ UNCHANGED shownRepo
           /\ ~closing => unsaved' = unsaved
           /\ \A f \in unsaved \ unsaved' : \A u \in tabs' : ~(u.editing /\ FileAt(u) = f)
<1>1. CASE closing
  <2>1. PICK v \in Without(Now, askedTabs) : Settled(v)
    BY <1>1 DEF ResolveRootClose
  <2>2. askedTabs' = askedTabs \ askedTabs /\ UNCHANGED notTabs
    BY DEF ResolveRootClose
  <2> QED BY <1>1, <2>1, <2>2, ClosingKeeps
<1>2. CASE ~closing
  <2>1. /\ askedTabs' = {} /\ keptTabs' = keptTabs \cup askedTabs
        /\ UNCHANGED <<tabs, shown, unsaved, notTabs>>
    BY <1>2 DEF ResolveRootClose
  <2>2. ChangesIInv'
    BY <2>1, TabFacts, TabStepKeeps DEF notTabs, server, listVars, pollVars
  <2> QED BY <1>2, <2>1, <2>2 DEF notTabs, listVars
<1> QED BY <1>1, <1>2

\* An editor changes its file.
LEMMA EditKeeps ==
    ASSUME ChangesIInv, left' \in 0..MaxChanges, NEW t \in tabs, Edit(t)
    PROVE  ChangesIInv' /\ UNCHANGED shownRepo /\ unsaved \subseteq unsaved'
<1>1. FileAt(t) \in SourceFiles
  <2>1. t.repo \in Repos /\ t.side \in Diffs
    BY TabFacts DEF DiffTab
  <2> QED BY <2>1 DEF FileAt, SourceFiles
<1> QED BY <1>1, TabFacts, TabStepKeeps DEF Edit, notTabs, server, listVars, pollVars

\* Changes are made, saved or discarded in another view.
LEMMA ElsewhereKeeps ==
    ASSUME ChangesIInv, left' \in 0..MaxChanges, UNCHANGED own,
           NEW f \in SourceFiles, Elsewhere(f)
    PROVE  ChangesIInv' /\ UNCHANGED shownRepo
BY TabFacts, TabStepKeeps DEF Elsewhere, notTabs, server, listVars, pollVars

\* A diff becomes an editor.
LEMMA StartEditingKeeps ==
    ASSUME ChangesIInv, left' \in 0..MaxChanges, NEW t \in tabs, StartEditing(t)
    PROVE  ChangesIInv' /\ UNCHANGED <<shownRepo, unsaved>>
<1> DEFINE u == [t EXCEPT !.editing = TRUE]
<1>1. /\ u \in DiffTab /\ u.repo = t.repo /\ u.editing
  BY TabFacts DEF DiffTab
<1>2. /\ tabs' = (tabs \ {t}) \cup {u} /\ shown' = u
      /\ askedTabs' = IF t \in askedTabs THEN (askedTabs \ {t}) \cup {u} ELSE askedTabs
      /\ keptTabs' = IF t \in keptTabs THEN (keptTabs \ {t}) \cup {u} ELSE keptTabs
      /\ UNCHANGED <<unsaved, own, notTabs>>
  BY DEF StartEditing, Becomes
<1> HIDE DEF u
<1>3. /\ tabs' \subseteq DiffTab /\ askedTabs' \subseteq tabs' /\ keptTabs' \subseteq tabs'
  BY <1>1, <1>2, TabFacts
<1>4. \A x \in tabs' : IF x.repo = shownRepo THEN x \notin askedTabs'
                       ELSE x \in askedTabs' \cup keptTabs'
  BY <1>1, <1>2, TabFacts
<1> QED BY <1>1, <1>2, <1>3, <1>4, TabFacts, TabStepKeeps
        DEF notTabs, server, listVars, pollVars

\* An editor becomes a diff again, its changes discarded.
LEMMA StopEditingKeeps ==
    ASSUME ChangesIInv, left' \in 0..MaxChanges, NEW t \in tabs, StopEditing(t)
    PROVE  /\ ChangesIInv' /\ UNCHANGED shownRepo
           /\ unsaved \ unsaved' \subseteq {FileAt(t)}
<1> DEFINE u == [t EXCEPT !.editing = FALSE]
           v == [tabs |-> (tabs \ {t}) \cup {u}, shown |-> u,
                 unsaved |-> unsaved \ {FileAt(t)}]
           gone == IF loaded THEN Pruned(v, {e[2] : e \in entries}, shownRepo) ELSE {}
<1>1. /\ u \in DiffTab /\ u.repo = t.repo /\ ~u.editing /\ u.side = t.side
  BY TabFacts DEF DiffTab
<1>2. PICK w \in Without(v, gone) :
         /\ tabs' = w.tabs /\ shown' = w.shown /\ unsaved' = w.unsaved
         /\ askedTabs' = (askedTabs \cup {x \in {u} : t \in askedTabs}) \cap w.tabs
         /\ keptTabs' = (keptTabs \cup {x \in {u} : t \in keptTabs}) \cap w.tabs
  BY DEF StopEditing
<1>3. own' = {o \in own : o[2].path # t.side.path}
  BY DEF StopEditing, Forgotten
<1>4. \A x \in gone : ~x.editing
  BY DEF Pruned
<1> HIDE DEF u
<1>5. v \in TabViews /\ v.tabs = (tabs \ {t}) \cup {u} /\ v.unsaved = unsaved \ {FileAt(t)}
  BY <1>1, TabFacts DEF TabViews
<1> HIDE DEF gone, v
<1>6. /\ w \in TabViews /\ w.tabs = v.tabs \ gone /\ w.unsaved = Lasting(v, gone)
      /\ w.unsaved \subseteq v.unsaved
  BY <1>2, <1>5, WithoutView
<1>7. w.unsaved = v.unsaved
  BY <1>4, <1>6 DEF Lasting
<1>8. /\ tabs' \subseteq DiffTab /\ shown' \in tabs' \cup {None}
      /\ askedTabs' \subseteq tabs' /\ keptTabs' \subseteq tabs'
  BY <1>2, <1>6 DEF TabViews
<1>9. \A x \in tabs' : IF x.repo = shownRepo THEN x \notin askedTabs'
                       ELSE x \in askedTabs' \cup keptTabs'
  BY <1>1, <1>2, <1>5, <1>6, TabFacts
<1>10. \A x \in tabs' : ~x.editing /\ <<x.repo, x.side>> \in own' =>
               x.repo = shownRepo /\ x.side \in expected
  BY <1>1, <1>2, <1>3, <1>5, <1>6, TabFacts
<1>11. ChangesIInv'
  BY <1>2, <1>3, <1>5, <1>6, <1>7, <1>8, <1>9, <1>10, TabFacts, TabStepKeeps
     DEF StopEditing, server, pollVars
<1> QED BY <1>2, <1>5, <1>7, <1>11 DEF StopEditing

\* A file is saved, and its editor shows the diff.
LEMMA SavedKeeps ==
    ASSUME ChangesIInv, left' \in 0..MaxChanges, NEW t \in tabs, Saved(t)
    PROVE  /\ ChangesIInv' /\ UNCHANGED shownRepo
           /\ unsaved' = unsaved \ {FileAt(t)}
<1> DEFINE side == [t.side EXCEPT !.staged = FALSE]
           other == {x \in tabs \ {t} : x.side = side}
           plain == [t EXCEPT !.editing = FALSE]
           moved == [t EXCEPT !.editing = FALSE, !.side = side]
<1>1. /\ t = [repo |-> t.repo, side |-> t.side, editing |-> t.editing]
      /\ t.repo \in Repos /\ t.side \in Diffs
  BY TabFacts DEF DiffTab
<1>2. side \in Diffs /\ side.path = t.side.path
  <2>1. side = [path |-> t.side.path, staged |-> FALSE]
    BY <1>1, ChangesAssumption
  <2> QED BY <2>1, <1>1, ChangesAssumption
<1> HIDE DEF side
<1>3. /\ plain \in DiffTab /\ plain.repo = t.repo /\ ~plain.editing /\ plain.side = t.side
      /\ moved \in DiffTab /\ moved.repo = t.repo /\ ~moved.editing /\ moved.side = side
  BY <1>1, <1>2 DEF DiffTab
<1> HIDE DEF plain, moved
<1>4. PICK u \in {plain, moved} :
         /\ tabs' = (tabs \ {t}) \cup {u}
         /\ shown' \in tabs' \cup {None}
         /\ askedTabs' = IF t \in askedTabs THEN (askedTabs \ {t}) \cup {u} ELSE askedTabs
         /\ keptTabs' = IF t \in keptTabs THEN (keptTabs \ {t}) \cup {u} ELSE keptTabs
  <2>1. CASE other # {}
    <3>1. PICK x \in other : Becomes(t, plain, x)
      BY <2>1 DEF Saved, side, plain
    <3> QED BY <3>1 DEF Becomes
  <2>2. CASE other = {}
    <3>1. Becomes(t, moved, IF shown = t THEN moved ELSE shown)
      BY <2>2 DEF Saved, side, moved
    <3> QED BY <3>1, TabFacts DEF Becomes
  <2> QED BY <2>1, <2>2
<1>5. /\ unsaved' = unsaved \ {FileAt(t)} /\ UNCHANGED notTabs
      /\ own' = {o \in own : o[2].path # t.side.path}
  BY DEF Saved, Forgotten
<1>6. u \in DiffTab /\ u.repo = t.repo /\ ~u.editing /\ u.side.path = t.side.path
  BY <1>2, <1>3, <1>4
<1>7. /\ tabs' \subseteq DiffTab /\ askedTabs' \subseteq tabs' /\ keptTabs' \subseteq tabs'
  BY <1>4, <1>6, TabFacts
<1>8. \A x \in tabs' : IF x.repo = shownRepo THEN x \notin askedTabs'
                       ELSE x \in askedTabs' \cup keptTabs'
  BY <1>4, <1>6, TabFacts
<1>9. \A x \in tabs' : ~x.editing /\ <<x.repo, x.side>> \in own' =>
               x.repo = shownRepo /\ x.side \in expected
  BY <1>4, <1>5, <1>6, TabFacts
<1> QED BY <1>4, <1>5, <1>7, <1>8, <1>9, TabFacts, TabStepKeeps
        DEF notTabs, server, listVars, pollVars

\* Tabs and changes follow a rename.
LEMMA RenamedKeeps ==
    ASSUME ChangesIInv, left' \in 0..MaxChanges, UNCHANGED own,
           NEW from, NEW to, Renamed(from, to)
    PROVE  ChangesIInv' /\ UNCHANGED shownRepo
<1> DEFINE here == {t \in tabs : t.repo = shownRepo /\ t.side.path = from}
           u == [repo |-> shownRepo, side |-> [path |-> to, staged |-> FALSE], editing |-> TRUE]
           others == tabs \ here
           same == {t \in others : t.repo = shownRepo /\ t.side = u.side}
           f == [repo |-> shownRepo, path |-> from]
           g == [repo |-> shownRepo, path |-> to]
<1>1. /\ shownRepo # None /\ u.side \in Diffs
      /\ unsaved' = IF f \in unsaved THEN (unsaved \ {f}) \cup {g} ELSE unsaved
      /\ askedTabs' = askedTabs \cap tabs' /\ keptTabs' = keptTabs \cap tabs'
      /\ Refresh
      /\ UNCHANGED <<server, listVars, watched, inFront, poll>>
  BY DEF Renamed
<1>2. u \in DiffTab /\ u.repo = shownRepo /\ u.editing
  BY <1>1, TabFacts DEF DiffTab
<1>3. g \in SourceFiles
  <2>1. u.side \in Diffs /\ u.side.path = to /\ shownRepo \in Repos
    BY <1>1, TabFacts
  <2> QED BY <2>1 DEF SourceFiles
<1>4. PICK keep \in SUBSET (same \cup {u}) :
         /\ tabs' = (others \ same) \cup keep
         /\ shown' \in tabs' \cup {None}
  <2>1. PICK keep \in IF ~(\E t \in here : t.editing) THEN {same}
                       ELSE IF shown \in same THEN {{shown}}
                       ELSE IF shown \in here /\ shown.editing THEN {{u}}
                       ELSE {{u}} \cup {{t} : t \in same} :
            /\ tabs' = (others \ same) \cup keep
            /\ shown' \in IF shown \notin here THEN {shown}
                          ELSE IF shown.editing THEN keep
                          ELSE IF tabs' = {} THEN {None} ELSE tabs'
    BY DEF Renamed
  <2> HIDE DEF u
  <2>2. keep \in SUBSET (same \cup {u})
    BY <2>1
  <2>3. shown' \in tabs' \cup {None}
    <3>1. CASE shown \in here
      BY <2>1, <3>1
    <3>2. CASE shown \notin here
      <4>1. shown' = shown
        BY <2>1, <3>2
      <4>2. shown = None \/ shown \in others \ same \/ shown \in same
        BY <3>2, TabFacts
      <4>3. shown \in same => shown \in keep
        BY <2>1, <3>2
      <4> QED BY <2>1, <4>1, <4>2, <4>3
    <3> QED BY <3>1, <3>2
  <2> QED BY <2>1, <2>2, <2>3
<1>5. \A t \in tabs' : t \in tabs \/ t = u
  BY <1>4
<1> HIDE DEF u
<1>6. /\ tabs' \subseteq DiffTab /\ askedTabs' \subseteq tabs' /\ keptTabs' \subseteq tabs'
  BY <1>1, <1>2, <1>5, TabFacts
<1>7. unsaved' \subseteq SourceFiles
  BY <1>1, <1>3, TabFacts
<1>8. \A t \in tabs' : IF t.repo = shownRepo THEN t \notin askedTabs'
                       ELSE t \in askedTabs' \cup keptTabs'
  BY <1>1, <1>2, <1>5, TabFacts
<1>9. \A t \in tabs' : ~t.editing /\ <<t.repo, t.side>> \in own' =>
               t.repo = shownRepo /\ t.side \in expected
  BY <1>2, <1>5, TabFacts
<1>10. /\ timer' \in BOOLEAN /\ (timer' => watched' /\ inFront') /\ again' \in BOOLEAN
  BY <1>1, RefreshTypes DEF ChangesIInv
<1> QED BY <1>1, <1>4, <1>6, <1>7, <1>8, <1>9, <1>10, TabFacts, TabStepKeeps
        DEF server, listVars

\* The poll under way does not count any more.
LEMMA MoveToKeeps ==
    ASSUME ChangesIInv, left' \in 0..MaxChanges, UNCHANGED own, MoveTo
    PROVE  ChangesIInv' /\ UNCHANGED <<shownRepo, unsaved>>
<1>1. /\ timer' \in BOOLEAN /\ (timer' => watched' /\ inFront') /\ again' \in BOOLEAN
  BY RefreshTypes DEF ChangesIInv, MoveTo
<1> QED BY <1>1, TabFacts, TabStepKeeps DEF MoveTo, server, tabVars, listVars

\* The page is told that the root moved.
LEMMA RootToldKeeps ==
    ASSUME ChangesIInv, left' \in 0..MaxChanges, UNCHANGED own, RootTold
    PROVE  ChangesIInv' /\ unsaved' = unsaved /\ entries' = {} /\ ~loaded'
<1>1. /\ timer' \in BOOLEAN /\ (timer' => watched' /\ inFront') /\ again' \in BOOLEAN
  BY RefreshTypes DEF ChangesIInv, RootTold
<1>2. repo \in Repos /\ shownRepo # repo
  BY DEF ChangesIInv, ChangesTypeOK, RootTold
<1> QED BY <1>1, <1>2, RootMovesKeeps DEF RootTold, server

\* A rename moves the changes of one file, to its new name.
LEMMA RenamedTakesAlong ==
    ASSUME NEW from, NEW to, Renamed(from, to), NEW f \in unsaved \ unsaved'
    PROVE  TakenAlong(f, from, to)
BY DEF Renamed, TakenAlong

\* Somebody starts or stops looking.
LEMMA LooksKeep ==
    ASSUME ChangesIInv, left' \in 0..MaxChanges, UNCHANGED own, Looks
    PROVE  ChangesIInv' /\ UNCHANGED <<shownRepo, unsaved>>
<1> USE DEF ChangesIInv, Looks, server, tabVars, listVars
<1>1. ChangesTypeOK'
  BY DEF ChangesTypeOK
<1>2. LeftAreAsked' /\ NoneOpenYet' /\ ActingIsShown' /\ FreshIsOfRoot'
  BY DEF LeftAreAsked, NoneOpenYet, ActingIsShown, FreshIsOfRoot
<1>3. OwnExpected'
  BY DEF OwnExpected, OwnIsGone, OwnTabsExpected, OwnEntriesExpected, OwnAnswersExpected
<1> QED BY <1>1, <1>2, <1>3

-----------------------------------------------------------------------------
(* A step, and the theorems.                                               *)

\* What a step may lose, and when the root shown may change.
LosesNothing ==
    \A f \in unsaved \ unsaved' :
        \/ \E t \in tabs : FileAt(t) = f /\ (Saved(t) \/ StopEditing(t))
        \/ Elsewhere(f)
        \/ \E s, u \in Diffs : TakenAlong(f, s.path, u.path)
        \/ /\ (\E t \in tabs : CloseTab(t)) \/ ResolveRootClose(TRUE)
           /\ \A t \in tabs' : ~(t.editing /\ FileAt(t) = f)
StartsAgain == shownRepo' # shownRepo /\ shownRepo # None => entries' = {} /\ ~loaded'

\* No step of a poll breaks the invariant or loses a change.
LEMMA PollStepKeeps ==
    ASSUME ChangesIInv, PollStep, UNCHANGED <<own, left>>
    PROVE  ChangesIInv' /\ LosesNothing /\ StartsAgain
<1>1. left' \in 0..MaxChanges /\ UNCHANGED own
  BY DEF ChangesIInv, ChangesTypeOK
<1>2. CASE SendPoll
  BY <1>1, <1>2, SendPollKeeps DEF SendPoll, LosesNothing, StartsAgain, tabVars
<1>3. CASE ServerReads \/ PollFails
  <2>1. UNCHANGED <<unsaved, shownRepo>>
    BY <1>3 DEF ServerReads, PollFails, ServerTells, tabVars, listVars
  <2> QED BY <1>1, <1>3, <2>1, ServerReadsKeeps DEF LosesNothing, StartsAgain
<1>4. CASE AnswerListed
  BY <1>1, <1>4, AnswerListedKeeps DEF LosesNothing, StartsAgain
<1>5. CASE AnswerMoved
  BY <1>1, <1>5, AnswerMovedKeeps DEF LosesNothing, StartsAgain
<1>6. CASE AnswerFailed \/ AnswerDropped
  BY <1>1, <1>6, AnswerUnheardKeeps DEF LosesNothing, StartsAgain
<1> QED BY <1>2, <1>3, <1>4, <1>5, <1>6 DEF PollStep, Answer

\* No step of an editor does.
LEMMA EditsKeep ==
    ASSUME ChangesIInv, left' \in 0..MaxChanges, NEW t \in tabs,
           StartEditing(t) \/ StopEditing(t) \/ Edit(t) \/ Saved(t)
    PROVE  ChangesIInv' /\ LosesNothing /\ StartsAgain
<1>1. CASE StartEditing(t)
  BY <1>1, StartEditingKeeps DEF LosesNothing, StartsAgain
<1>2. CASE StopEditing(t)
  BY <1>2, StopEditingKeeps DEF LosesNothing, StartsAgain
<1>3. CASE Edit(t)
  BY <1>3, EditKeeps DEF LosesNothing, StartsAgain
<1>4. CASE Saved(t)
  BY <1>4, SavedKeeps DEF LosesNothing, StartsAgain
<1> QED BY <1>1, <1>2, <1>3, <1>4

\* Nor does the user.
LEMMA UserKeeps ==
    ASSUME ChangesIInv, left' \in 0..MaxChanges, UNCHANGED own, User
    PROVE  ChangesIInv' /\ LosesNothing /\ StartsAgain
<1>1. CASE RootTold
  BY <1>1, RootToldKeeps DEF LosesNothing, StartsAgain
<1>2. CASE MoveTo
  BY <1>2, MoveToKeeps DEF LosesNothing, StartsAgain
<1>3. ASSUME NEW s \in Diffs, Act(s) \/ OpenDiff(s) \/ OpenLink(s)
      PROVE  ChangesIInv' /\ LosesNothing /\ StartsAgain
  BY <1>3, ActKeeps, OpenKeeps DEF LosesNothing, StartsAgain
<1>4. ASSUME NEW t \in tabs \cup {None}, Activate(t)
      PROVE  ChangesIInv' /\ LosesNothing /\ StartsAgain
  BY <1>4, ActivateKeeps DEF LosesNothing, StartsAgain
<1>5. ASSUME NEW t \in tabs, CloseTab(t)
      PROVE  ChangesIInv' /\ LosesNothing /\ StartsAgain
  BY <1>5, CloseTabKeeps DEF LosesNothing, StartsAgain
<1>6. ASSUME NEW f \in SourceFiles, Elsewhere(f)
      PROVE  ChangesIInv' /\ LosesNothing /\ StartsAgain
  <2>1. unsaved \ unsaved' \subseteq {f}
    BY <1>6 DEF Elsewhere
  <2> QED BY <1>6, <2>1, ElsewhereKeeps DEF LosesNothing, StartsAgain
<1>7. ASSUME NEW s \in Diffs, NEW u \in Diffs, Renamed(s.path, u.path)
      PROVE  ChangesIInv' /\ LosesNothing /\ StartsAgain
  <2>1. \A f \in unsaved \ unsaved' : TakenAlong(f, s.path, u.path)
    BY <1>7, RenamedTakesAlong
  <2> QED BY <1>7, <2>1, RenamedKeeps DEF LosesNothing, StartsAgain
<1>8. ASSUME NEW c \in BOOLEAN, ResolveRootClose(c)
      PROVE  ChangesIInv' /\ LosesNothing /\ StartsAgain
  <2>1. c = TRUE \/ c = FALSE
    OBVIOUS
  <2> QED BY <1>8, <2>1, ResolveKeeps DEF LosesNothing, StartsAgain
<1> QED BY <1>1, <1>2, <1>3, <1>4, <1>5, <1>6, <1>7, <1>8 DEF User

\* Every step keeps the invariant, and loses only what the user gives up.
LEMMA ChangesNextKeeps ==
    ASSUME ChangesIInv, [ChangesNext]_changesVars
    PROVE  ChangesIInv' /\ LosesNothing /\ StartsAgain
<1> SUFFICES ASSUME ChangesNext PROVE ChangesIInv' /\ LosesNothing /\ StartsAgain
  <2>1. CASE UNCHANGED changesVars
    <3> USE DEF changesVars, server, tabVars, listVars, pollVars
    <3>1. ChangesTypeOK'
      BY <2>1 DEF ChangesIInv, ChangesTypeOK
    <3>2. LeftAreAsked' /\ NoneOpenYet' /\ ActingIsShown' /\ FreshIsOfRoot'
      BY <2>1 DEF ChangesIInv, LeftAreAsked, NoneOpenYet, ActingIsShown, FreshIsOfRoot
    <3>3. OwnExpected'
      BY <2>1 DEF ChangesIInv, OwnExpected, OwnIsGone, OwnTabsExpected, OwnEntriesExpected,
                  OwnAnswersExpected
    <3> QED BY <2>1, <3>1, <3>2, <3>3 DEF ChangesIInv, LosesNothing, StartsAgain
  <2> QED BY <2>1
<1>1. CASE PollStep /\ UNCHANGED <<own, left>>
  BY <1>1, PollStepKeeps
<1>2. CASE (Applied \/ Edits) /\ UNCHANGED left
  <2>1. left' \in 0..MaxChanges
    BY <1>2 DEF ChangesIInv, ChangesTypeOK
  <2>2. CASE Applied
    BY <2>1, <2>2, AppliedKeeps DEF LosesNothing, StartsAgain
  <2>3. CASE Edits
    BY <2>1, <2>3, EditsKeep DEF Edits
  <2> QED BY <1>2, <2>2, <2>3
<1>3. CASE /\ left > 0 /\ left' = left - 1
           /\ \/ (PaneMoves \/ User \/ Looks) /\ UNCHANGED own
              \/ \E s \in Diffs : OthersChange(s)
              \/ \E t \in tabs : Saved(t)
  <2>1. left' \in 0..MaxChanges
    <3>1. left \in 0..MaxChanges /\ MaxChanges \in Nat
      BY ChangesAssumption DEF ChangesIInv, ChangesTypeOK
    <3> QED BY <1>3, <3>1
  <2>2. CASE User /\ UNCHANGED own
    BY <2>1, <2>2, UserKeeps
  <2>3. CASE Looks /\ UNCHANGED own
    BY <2>1, <2>3, LooksKeep DEF LosesNothing, StartsAgain
  <2>4. CASE (PaneMoves /\ UNCHANGED own) \/ \E s \in Diffs : OthersChange(s)
    BY <2>1, <2>4, OthersKeep DEF LosesNothing, StartsAgain
  <2>5. CASE \E t \in tabs : Saved(t)
    BY <2>1, <2>5, EditsKeep
  <2> QED BY <1>3, <2>2, <2>3, <2>4, <2>5
<1> QED BY <1>1, <1>2, <1>3 DEF ChangesNext

(* The inductive invariant holds. *)
THEOREM ChangesInductive == ChangesSpec => []ChangesIInv
BY ChangesInitially, ChangesNextKeeps, PTL DEF ChangesSpec

(* Every variable has its type; a poll is scheduled only while somebody looks. *)
THEOREM ChangesTypeCorrect == ChangesSpec => []ChangesTypeOK
<1>1. ChangesIInv => ChangesTypeOK
  BY DEF ChangesIInv
<1> QED BY <1>1, ChangesInductive, PTL

(* Every tab left from another root is asked about or was kept, and no tab of
   the root shown is asked about. *)
THEOREM LeftTabsAsked == ChangesSpec => []LeftAreAsked
<1>1. ChangesIInv => LeftAreAsked
  BY DEF ChangesIInv
<1> QED BY <1>1, ChangesInductive, PTL

(* Unsaved changes go only when the user says so. *)
THEOREM ChangesKept == ChangesSpec => NothingLost
<1>1. ChangesIInv /\ [ChangesNext]_changesVars => [LosesNothing]_changesVars
  BY ChangesNextKeeps
<1>2. ChangesSpec => [][LosesNothing]_changesVars
  BY <1>1, ChangesInductive, PTL DEF ChangesSpec
<1> QED BY <1>2 DEF NothingLost, LosesNothing

(* No answer takes the list back to a folder that was left, nor tells the user
   of what their own action did. *)
THEOREM AnswersAreFit == ChangesSpec => AnswersFit
<1> DEFINE Quiet == AnswerListed => \A s \in notice' : <<shownRepo', s>> \notin own
<1>1. ChangesIInv /\ [ChangesNext]_changesVars => [StartsAgain]_changesVars /\ [Quiet]_changesVars
  BY ChangesNextKeeps, AnswerIsNews
<1>2. ChangesSpec => [][StartsAgain]_changesVars /\ [][Quiet]_changesVars
  <2> HIDE DEF Quiet
  <2> QED BY <1>1, ChangesInductive, PTL DEF ChangesSpec
<1> QED BY <1>2 DEF AnswersFit, NeverFlipsBack, QuietForOwn, StartsAgain

=============================================================================
