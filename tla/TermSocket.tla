----------------------------- MODULE TermSocket -----------------------------
(***************************************************************************)
(* The socket that shows a pane in the page: useTermSocket of              *)
(* pwa/src/hooks/use-term-socket.ts.                                       *)
(*                                                                         *)
(* The page is one thread: a callback, an event or an effect is one step.  *)
(* What runs meanwhile are the requests for a token, the sockets and the   *)
(* timers.  Each connect() is an element of Connects: `cur' is the one     *)
(* whose generation is genRef's (None once a teardown bumped it), so the   *)
(* test gen === genRef.current of a callback of connect c is c = cur.      *)
(*                                                                         *)
(* Left out: sizes, keys typed, the frames shown, and how long a retry     *)
(* waits.                                                                  *)
(***************************************************************************)
EXTENDS Common, Naturals, FiniteSets, Sequences

CONSTANTS
    Connects,   \* connects whose request or socket may be under way at once
    Panes,      \* the panes the page may show
    KeyOf       \* the connect key of each pane: itself, or its tmux session

ASSUME SocketAssumption ==
    /\ None \notin Connects \cup Panes
    /\ None \notin {KeyOf[p] : p \in Panes}

VARIABLES
    conn,       \* what each connect is doing
    of,         \* the pane each socket was opened for
    lost,       \* sockets whose connection died without a close event
    cur,        \* the connect whose generation is current
    ws,         \* wsRef: the connect whose socket is attached
    silent,     \* startTimerRef: the socket has shown no output yet
    retry,      \* retryTimerRef
    stop,       \* stopRef
    exited,     \* the attached socket had an exit frame
    exitedLast, \* exitedRef
    sent,       \* sentVisibleRef: what the server was last told
    away,       \* history: the page was hidden while the network was gone, under
                \* this socket
    pane,       \* paneRef
    key,        \* the connect key of the last effect
    visible,    \* the page is in the foreground
    long,       \* it has been hidden for HIDDEN_CLOSE_MS
    hideTimer,  \* hiddenTimerRef
    online,     \* the device has a network
    wentOff,    \* wentOffline
    onScreen    \* visibleRef: the pane is drawn and not covered

wsVars == <<conn, of, lost, cur, ws, silent, retry, stop, exited, exitedLast,
            sent, away>>
pageVars == <<pane, key, visible, long, hideTimer, online, wentOff, onScreen>>
socketVars == <<wsVars, pageVars>>

KeyNow(p) == IF p = None THEN None ELSE KeyOf[p]

Sockets == {c \in Connects : conn[c] \in {"opening", "open"}}

SocketTypeOK ==
    /\ conn \in [Connects -> {"idle", "token", "opening", "open"}]
    /\ of \in [Connects -> Panes \cup {None}]
    /\ lost \subseteq Connects
    /\ cur \in Connects \cup {None} /\ ws \in Connects \cup {None}
    /\ silent \in BOOLEAN /\ retry \in BOOLEAN
    /\ stop \in {"none", "hidden", "stopped"}
    /\ exited \in BOOLEAN /\ exitedLast \in BOOLEAN
    /\ sent \in BOOLEAN /\ away \in BOOLEAN
    /\ pane \in Panes \cup {None}
    /\ key \in {KeyNow(p) : p \in Panes \cup {None}}
    /\ visible \in BOOLEAN /\ long \in BOOLEAN /\ hideTimer \in BOOLEAN
    /\ online \in BOOLEAN /\ wentOff \in BOOLEAN /\ onScreen \in BOOLEAN
    \* The socket attached is one, and its start timer and its flags go with it
    /\ ws # None => ws \in Sockets
    /\ silent \/ exited => ws # None

SocketInit ==
    /\ conn = [c \in Connects |-> "idle"]
    /\ of = [c \in Connects |-> None]
    /\ lost = {} /\ cur = None /\ ws = None
    /\ silent = FALSE /\ retry = FALSE /\ stop = "none"
    /\ exited = FALSE /\ exitedLast = FALSE /\ sent = FALSE /\ away = FALSE
    /\ pane = None /\ key = None
    /\ visible = TRUE /\ long = FALSE /\ hideTimer = FALSE
    /\ online = TRUE /\ wentOff = FALSE /\ onScreen = FALSE

------------------------------------------------------------------------------
(* Connecting.                                                             *)

\* The connects once the attached socket is closed.
Closed == [c \in Connects |-> IF c = ws THEN "idle" ELSE conn[c]]

\* No timer, no generation, no attached socket; con and st become the
\* connects and stopRef.
Leave(con, st) ==
    /\ conn' = con
    /\ of' = [c \in Connects |-> IF con[c] = "idle" THEN None ELSE of[c]]
    /\ lost' = lost \ {ws}
    /\ ws' = None
    /\ silent' = FALSE /\ exited' = FALSE /\ away' = FALSE
    /\ stop' = st
    /\ UNCHANGED sent

\* teardown.
Teardown(st) ==
    /\ Leave(Closed, st)
    /\ cur' = None
    /\ retry' = FALSE
    /\ UNCHANGED exitedLast

\* connect, with p in paneRef, until it waits for its token.
Connect(p) ==
    IF p = None
      THEN Teardown(stop)
      ELSE \E c \in Connects :
             /\ Closed[c] = "idle"
             /\ Leave([Closed EXCEPT ![c] = "token"], "none")
             /\ cur' = c
             /\ retry' = FALSE
             /\ exitedLast' = FALSE

\* The socket of connect c opens for the pane shown now.
Attach(c) ==
    /\ conn' = [conn EXCEPT ![c] = "opening"]
    /\ of' = [of EXCEPT ![c] = pane]
    /\ ws' = c
    /\ silent' = TRUE /\ exited' = FALSE /\ sent' = FALSE /\ away' = FALSE
    /\ UNCHANGED <<lost, cur, retry, stop, exitedLast, pageVars>>

\* The connect ends without a socket.
NoSocket(c) ==
    /\ conn' = [conn EXCEPT ![c] = "idle"]
    /\ UNCHANGED <<of, lost, cur, ws, silent, stop, exited, exitedLast, sent,
                   away, pageVars>>

\* fetchTerminalToken answers connect c.
TokenArrives(c) ==
    /\ conn[c] = "token" /\ online
    /\ IF c # cur \/ pane = None
         THEN NoSocket(c) /\ UNCHANGED retry
         ELSE Attach(c)

\* Mutant of TokenFails: nobody tries again.
TokenDropped(c) ==
    /\ conn[c] = "token"
    /\ NoSocket(c)
    /\ UNCHANGED retry

\* It fails: another try later, unless this connect is an old one.
TokenFails(c) ==
    /\ conn[c] = "token"
    /\ NoSocket(c)
    /\ retry' = (retry \/ c = cur)

RetryFires ==
    /\ retry
    /\ Connect(pane)
    /\ UNCHANGED pageVars

------------------------------------------------------------------------------
(* The attached socket.                                                    *)

Live(c) == c = ws /\ c \notin lost /\ online

\* Mutant of Tells: a change of the pane's place is not told.
TellsPage(on, front) ==
    sent' = IF ws # None /\ conn[ws] = "open" /\ front # visible
              THEN on /\ front ELSE sent

\* syncVisible: an open socket tells the server whether the pane is seen.
Tells(on, front) ==
    sent' = IF ws # None /\ conn[ws] = "open" THEN on /\ front ELSE sent

\* onopen
Opens(c) ==
    /\ Live(c) /\ conn[c] = "opening"
    /\ conn' = [conn EXCEPT ![c] = "open"]
    /\ sent' = (onScreen /\ visible)
    /\ UNCHANGED <<of, lost, cur, ws, silent, retry, stop, exited, exitedLast,
                   away, pageVars>>

\* onmessage with output
Output(c) ==
    /\ Live(c) /\ conn[c] = "open" /\ silent
    /\ silent' = FALSE
    /\ UNCHANGED <<conn, of, lost, cur, ws, retry, stop, exited, exitedLast,
                   sent, away, pageVars>>

\* onmessage with an exit frame
ExitFrame(c) ==
    /\ Live(c) /\ conn[c] = "open" /\ ~exited
    /\ exited' = TRUE
    /\ UNCHANGED <<conn, of, lost, cur, ws, silent, retry, stop, exitedLast,
                   sent, away, pageVars>>

\* onclose: an evicted or exited stream stays closed, another one is retried.
CloseEvent(c, evicted) ==
    /\ c = ws
    /\ Leave(Closed, IF evicted \/ exited THEN "stopped" ELSE stop)
    /\ IF evicted \/ exited
         THEN exitedLast' = exited /\ UNCHANGED retry
         ELSE retry' = TRUE /\ UNCHANGED exitedLast
    /\ UNCHANGED <<cur, pageVars>>

ServerCloses(c) == Live(c) /\ CloseEvent(c, FALSE)
Evicted(c) == Live(c) /\ conn[c] = "open" /\ CloseEvent(c, TRUE)

\* The browser gives up a connection that died.
BrowserCloses(c) == c \in lost /\ CloseEvent(c, FALSE)

\* The start timer: no output for STREAM_START_TIMEOUT_MS.
StartTimeout ==
    /\ silent
    /\ Leave(Closed, stop)
    /\ cur' = None
    /\ retry' = TRUE
    /\ UNCHANGED <<exitedLast, pageVars>>

------------------------------------------------------------------------------
(* The page.                                                               *)

\* Another pane is rendered; the effects of the render before have run.
Render(p) ==
    /\ key = KeyNow(pane) /\ p # pane
    /\ pane' = p
    /\ UNCHANGED <<wsVars, key, visible, long, hideTimer, online, wentOff, onScreen>>

\* Mutant of KeyEffect: a pane of another key leaves the socket as it is.
KeyEffectOnce ==
    /\ key # KeyNow(pane)
    /\ key' = KeyNow(pane)
    /\ IF key = None \/ pane = None THEN Connect(pane) ELSE UNCHANGED wsVars
    /\ UNCHANGED <<pane, visible, long, hideTimer, online, wentOff, onScreen>>

\* The effect on connectKey, with the cleanup of the one before.
KeyEffect ==
    /\ key # KeyNow(pane)
    /\ key' = KeyNow(pane)
    /\ Connect(pane)
    /\ UNCHANGED <<pane, visible, long, hideTimer, online, wentOff, onScreen>>

\* A snapshot lists the pane whose stream exited.
PaneSeen ==
    /\ exitedLast /\ pane # None
    /\ Connect(pane)
    /\ UNCHANGED pageVars

Hide ==
    /\ visible
    /\ visible' = FALSE /\ long' = FALSE /\ hideTimer' = TRUE
    /\ Tells(onScreen, FALSE)
    /\ away' = (away \/ ~online)
    /\ UNCHANGED <<conn, of, lost, cur, ws, silent, retry, stop, exited,
                   exitedLast, pane, key, online, wentOff, onScreen>>

\* HIDDEN_CLOSE_MS pass; the timer may still be frozen.
LongHidden ==
    /\ ~visible /\ ~long
    /\ long' = TRUE
    /\ UNCHANGED <<wsVars, pane, key, visible, hideTimer, online, wentOff, onScreen>>

HideTimerFires ==
    /\ hideTimer /\ long
    /\ hideTimer' = FALSE
    /\ IF stop = "stopped" THEN UNCHANGED wsVars ELSE Teardown("hidden")
    /\ UNCHANGED <<pane, key, visible, long, online, wentOff, onScreen>>

\* Mutant of Show: whatever has no socket is opened again.
ShowAll ==
    /\ ~visible
    /\ visible' = TRUE /\ long' = FALSE /\ hideTimer' = FALSE
    /\ IF long \/ ws = None
         THEN Connect(pane)
         ELSE /\ Tells(onScreen, TRUE)
              /\ UNCHANGED <<conn, of, lost, cur, ws, silent, retry, stop,
                             exited, exitedLast, away>>
    /\ UNCHANGED <<pane, key, online, wentOff, onScreen>>

\* The page is shown: what was hidden long or has no socket opens again.  (A
\* socket that is replaced is told nothing that matters.)
Show ==
    /\ ~visible
    /\ visible' = TRUE /\ long' = FALSE /\ hideTimer' = FALSE
    /\ IF stop # "stopped" /\ (long \/ ws = None)
         THEN Connect(pane)
         ELSE /\ Tells(onScreen, TRUE)
              /\ UNCHANGED <<conn, of, lost, cur, ws, silent, retry, stop,
                             exited, exitedLast, away>>
    /\ UNCHANGED <<pane, key, online, wentOff, onScreen>>

\* The network goes.  Its event may be missed by a frozen page, and a socket
\* may look open after it.
Offline ==
    /\ online
    /\ online' = FALSE
    /\ wentOff' \in {TRUE, wentOff \/ visible}
    /\ \E s \in SUBSET Sockets : lost' = lost \cup s
    /\ away' = (away \/ ~visible)
    /\ UNCHANGED <<conn, of, cur, ws, silent, retry, stop, exited, exitedLast,
                   sent, pane, key, visible, long, hideTimer, onScreen>>

\* Mutant of Online: a socket there is is taken for a good one.
OnlineTrusts ==
    /\ ~online
    /\ online' = TRUE /\ wentOff' = FALSE
    /\ IF visible /\ stop # "stopped" /\ ws = None
         THEN Connect(pane) ELSE UNCHANGED wsVars
    /\ UNCHANGED <<pane, key, visible, long, hideTimer, onScreen>>

\* The network is back: what died with it is opened again, if the page is shown
\* and was told that it went.
Online ==
    /\ ~online
    /\ online' = TRUE /\ wentOff' = FALSE
    /\ IF visible /\ stop # "stopped" /\ (wentOff \/ ws = None)
         THEN Connect(pane) ELSE UNCHANGED wsVars
    /\ UNCHANGED <<pane, key, visible, long, hideTimer, onScreen>>

\* The pane is drawn or covered, and the effect of that.
Draw ==
    /\ onScreen' = ~onScreen
    /\ Tells(onScreen', visible)
    /\ UNCHANGED <<conn, of, lost, cur, ws, silent, retry, stop, exited,
                   exitedLast, away, pane, key, visible, long, hideTimer,
                   online, wentOff>>

\* reconnect, asked for by the user.
Reconnect ==
    /\ Connect(pane)
    /\ UNCHANGED pageVars

------------------------------------------------------------------------------

SocketNetwork ==
    \/ \E c \in Connects :
          \/ TokenArrives(c) \/ TokenFails(c)
          \/ Opens(c) \/ Output(c) \/ ExitFrame(c)
          \/ ServerCloses(c) \/ Evicted(c) \/ BrowserCloses(c)
    \/ Offline \/ Online

SocketTimers == RetryFires \/ StartTimeout \/ LongHidden \/ HideTimerFires

SocketUser ==
    \/ \E p \in Panes \cup {None} : Render(p)
    \/ KeyEffect \/ PaneSeen \/ Hide \/ Show \/ Draw \/ Reconnect

SocketNext == SocketNetwork \/ SocketTimers \/ SocketUser

\* A retry fires, an effect runs, and a token asked for again and again comes.
SocketFairness ==
    /\ WF_socketVars(RetryFires)
    /\ WF_socketVars(KeyEffect)
    /\ WF_socketVars(\E c \in Connects \ {cur} : TokenArrives(c))
    /\ SF_socketVars(cur # None /\ TokenArrives(cur))

SocketSpec == SocketInit /\ [][SocketNext]_socketVars /\ SocketFairness

------------------------------------------------------------------------------
(* Properties.                                                             *)

\* However connects, retries, the page and the network interleave, no socket
\* is open but the attached one: an older one is closed or never opened
\* (connect, teardown and the generation its callbacks compare).
OneSocket == Sockets \subseteq {ws}

\* The stream shown belongs to the pane chosen: once its effect has run, a
\* token asked for before a change of pane opens nothing of the old one.
RightPane == (ws # None /\ key = KeyNow(pane)) => KeyNow(of[ws]) = key

\* The server knows whether the pane is in front of a person, through any
\* order of opening, hiding, showing and covering (syncVisible).
VisibleTold == (ws # None /\ conn[ws] = "open") => sent = (onScreen /\ visible)

\* A page that closed its stream because it was hidden holds nothing that
\* opens one again: no socket, no retry, no request it still listens to.
HiddenHoldsNothing ==
    stop = "hidden" => ws = None /\ ~retry /\ (cur = None \/ conn[cur] # "token")

\* One stream at most, of the pane shown, and none of a page that closed its
\* stream because it was hidden.
OneStreamOfThePane == OneSocket /\ RightPane /\ HiddenHoldsNothing

\* While the page is shown and has a network, its socket did not die when the
\* network went, unless the page was hidden during a part of that: whatever is
\* drawn, told, retried or chosen meanwhile (onOffline, onOnline).
DeadOnlyIfAway == (visible /\ online /\ ws \in lost) => away

\* "A network switch leaves the old connection half-open.  Both cases reconnect
\* unconditionally" (use-term-socket.ts:277-279): a page shown again with a
\* network shows no socket that died.  Expected to fail.
DeadReplaced == visible /\ online => ws \notin lost

\* A stream that was pushed out stays closed, whatever the page, the network
\* and the timers do: only the user or another pane opens one (an exit alone
\* is tried once more).
EvictedStays ==
    [][(stop = "stopped" /\ stop' # "stopped")
          => key' # key \/ exitedLast \/ (~retry /\ Reconnect)]_socketVars

\* A page shown with a pane and a network gets a socket again, unless its
\* stream was stopped: no order of events leaves it waiting for nothing.
Wanting == visible /\ online /\ pane # None /\ stop # "stopped"
NeverStranded == Wanting ~> (~Wanting \/ ws # None)

==============================================================================
