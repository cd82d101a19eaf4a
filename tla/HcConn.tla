------------------------------- MODULE HcConn -------------------------------
(***************************************************************************)
(* A connection to herdr-core: hcConn and hcChannel of server/hc_conn.go.  *)
(* Requests and replies go on channel 0, and a reply to attach or          *)
(* subscribe opens a channel whose frames the core may send before it.     *)
(*                                                                         *)
(* The goroutines of the calls and of the channels' readers interleave     *)
(* with the one that reads the connection (readLoop).  A step is what is   *)
(* done under one lock, but that route and the deliver to the channel it   *)
(* found are one.  Each call opens a channel of its own, named after it; a *)
(* channel's frames are numbered.                                          *)
(*                                                                         *)
(* The core is external: it answers a request once, sends frames on a      *)
(* channel it opened until it closes it, and answers a CLOSE with its own. *)
(***************************************************************************)
EXTENDS Common, Integers, FiniteSets, Sequences

CONSTANTS
    Calls,      \* the calls that open a channel
    MaxFrames   \* frames the core sends on a channel

ASSUME HcAssumption == MaxFrames \in Nat

VARIABLES
    up,         \* err is nil
    call,       \* where each call is
    pending,    \* calls that wait for their reply
    chans,      \* channels whose frames are delivered
    early,      \* frames held for a channel that is not open here yet
    closing,    \* channels closed here, until the core's CLOSE
    toLose,     \* channels fail() has still to tell
    chan,       \* each hcChannel
    dropped,    \* calls that gave up with the reply in their hands
    core,       \* the core's end of each channel
    sent,       \* frames the core sent on it
    askedClose, \* CLOSE frames on their way to the core
    wire        \* frames on their way here

connVars == <<up, call, pending, chans, early, closing, toLose, chan, dropped>>
coreVars == <<core, sent, askedClose, wire>>
hcVars == <<connVars, coreVars>>

NoChannel == [got |-> <<>>, ended |-> FALSE, lost |-> FALSE, closed |-> FALSE]
CLOSE == 0

HcTypeOK ==
    /\ up \in BOOLEAN
    /\ call \in [Calls -> {"idle", "writing", "waiting", "replied", "answered",
                           "open", "closing", "closed", "failed"}]
    \* A call is pending as long as nothing answered it
    /\ pending \subseteq {c \in Calls : call[c] \in {"writing", "waiting"}}
    /\ up => pending = {c \in Calls : call[c] \in {"writing", "waiting"}}
    /\ chans \subseteq {c \in Calls : call[c] \in {"open", "closing"}}
    /\ chans \cap closing = {}
    /\ closing \subseteq Calls /\ toLose \subseteq Calls

HcInit ==
    /\ up = TRUE
    /\ call = [c \in Calls |-> "idle"]
    /\ pending = {} /\ chans = {} /\ closing = {} /\ toLose = {}
    /\ early = [c \in Calls |-> <<>>]
    /\ chan = [c \in Calls |-> NoChannel]
    /\ dropped = {}
    /\ core = [c \in Calls |-> "none"]
    /\ sent = [c \in Calls |-> 0]
    /\ askedClose = {}
    /\ wire = <<>>

Frame(c, n) == [of |-> c, kind |-> "frame", n |-> n]
Reply(c, ok) == [of |-> c, kind |-> IF ok THEN "reply" ELSE "error", n |-> CLOSE]

(***************************************************************************)
(* The core.                                                               *)
(***************************************************************************)
CoreSends(c) ==
    /\ core[c] \in {"asked", "open"} /\ sent[c] < MaxFrames
    /\ sent' = [sent EXCEPT ![c] = @ + 1]
    /\ wire' = Append(wire, Frame(c, sent[c] + 1))
    /\ UNCHANGED <<core, askedClose, connVars>>

CoreReplies(c) ==
    /\ core[c] = "asked"
    /\ \E ok \in BOOLEAN :
        /\ ok \/ sent[c] = 0
        /\ wire' = Append(wire, Reply(c, ok))
        /\ core' = [core EXCEPT ![c] = IF ok THEN "open" ELSE "closed"]
    /\ UNCHANGED <<sent, askedClose, connVars>>

\* The terminal ended, or the core was asked to detach
CoreCloses(c) ==
    /\ core[c] = "open"
    /\ core' = [core EXCEPT ![c] = "closed"]
    /\ wire' = Append(wire, Frame(c, CLOSE))
    /\ askedClose' = askedClose \ {c}
    /\ UNCHANGED <<sent, connVars>>

(***************************************************************************)
(* fail: the connection ends, by an error of either direction or close().  *)
(* The maps are emptied under the lock; the channels are told after it.    *)
(***************************************************************************)
Fail ==
    /\ up
    /\ up' = FALSE
    /\ pending' = {} /\ chans' = {} /\ early' = [c \in Calls |-> <<>>]
    /\ toLose' = chans
    /\ UNCHANGED <<call, closing, chan, dropped, coreVars>>

Lose(c) ==
    /\ c \in toLose
    /\ toLose' = toLose \ {c}
    /\ chan' = [chan EXCEPT ![c].lost = TRUE]
    /\ UNCHANGED <<up, call, pending, chans, early, closing, dropped, coreVars>>

\* write of a frame: nothing is sent once the connection ended
Asks(c) == askedClose' = IF up THEN askedClose \cup {c} ELSE askedClose

(***************************************************************************)
(* call                                                                    *)
(***************************************************************************)
\* The call is registered, unless the connection ended.
Register(c) ==
    /\ call[c] = "idle"
    /\ IF up THEN /\ call' = [call EXCEPT ![c] = "writing"]
                  /\ pending' = pending \cup {c}
             ELSE call' = [call EXCEPT ![c] = "failed"] /\ UNCHANGED pending
    /\ UNCHANGED <<up, chans, early, closing, toLose, chan, dropped, coreVars>>

\* Its request is written.
Request(c) ==
    /\ call[c] = "writing"
    /\ IF up THEN /\ call' = [call EXCEPT ![c] = "waiting"]
                  /\ core' = [core EXCEPT ![c] = "asked"]
                  /\ UNCHANGED pending
             ELSE /\ call' = [call EXCEPT ![c] = "failed"]
                  /\ pending' = pending \ {c}
                  /\ UNCHANGED core
    /\ UNCHANGED <<up, chans, early, closing, toLose, chan, dropped, sent,
                   askedClose, wire>>

\* It takes the reply from its buffer.
TakeReply(c) ==
    /\ call[c] = "replied"
    /\ call' = [call EXCEPT ![c] = "answered"]
    /\ UNCHANGED <<up, pending, chans, early, closing, toLose, chan, dropped,
                   coreVars>>

Unregister(c) == pending' = pending \ {c}

\* The call's time is over, or the connection is; select may choose this
\* with the reply in its buffer
GivesUp(c) ==
    /\ call[c] \in {"waiting", "replied"}
    /\ call' = [call EXCEPT ![c] = "failed"]
    /\ Unregister(c)
    /\ dropped' = dropped \cup {d \in {c} : call[d] = "replied"}
    /\ UNCHANGED <<up, chans, early, closing, toLose, chan, coreVars>>

(***************************************************************************)
(* readLoop: the next frame.                                               *)
(***************************************************************************)
\* Mutant of LateCloses: a reply nobody waits for is dropped.
LateDropped(c) == UNCHANGED <<early, closing, askedClose>>

\* A channel opened by a reply nobody waits for is closed
LateCloses(c) ==
    /\ early' = [early EXCEPT ![c] = <<>>]
    /\ closing' = closing \cup {c}
    /\ Asks(c)

\* handleControl: the reply goes to the call that waits for it.
HandleControl(c, ok) ==
    /\ pending' = pending \ {c}
    /\ IF c \in pending
       THEN /\ call' = [call EXCEPT ![c] = IF ok THEN "replied" ELSE "failed"]
            /\ UNCHANGED <<early, closing, askedClose>>
       ELSE /\ IF ok THEN LateCloses(c) ELSE UNCHANGED <<early, closing, askedClose>>
            /\ UNCHANGED call
    /\ UNCHANGED <<chans, chan>>

\* Mutant of Delivered: a channel closed here still takes frames.
DeliveredStill(ch, n) ==
    IF n = CLOSE THEN [ch EXCEPT !.ended = TRUE] ELSE [ch EXCEPT !.got = Append(@, n)]

\* deliver: a channel closed here drops frames, an ended one is told.
Delivered(ch, n) ==
    IF n = CLOSE THEN [ch EXCEPT !.ended = TRUE]
    ELSE IF ch.closed THEN ch ELSE [ch EXCEPT !.got = Append(@, n)]

\* route: to the open channel, to the one being closed, or held.
Route(c, n) ==
    /\ IF c \in chans
       THEN /\ chan' = [chan EXCEPT ![c] = Delivered(@, n)]
            /\ chans' = IF n = CLOSE THEN chans \ {c} ELSE chans
            /\ UNCHANGED <<early, closing>>
       ELSE IF c \in closing
       THEN /\ closing' = IF n = CLOSE THEN closing \ {c} ELSE closing
            /\ UNCHANGED <<early, chans, chan>>
       ELSE /\ early' = [early EXCEPT ![c] = Append(@, n)]
            /\ UNCHANGED <<closing, chans, chan>>
    /\ UNCHANGED <<call, pending, askedClose>>

ReadFrame ==
    /\ wire # <<>>
    /\ wire' = Tail(wire)
    /\ LET f == Head(wire)
       IN IF f.kind = "frame" THEN Route(f.of, f.n)
                              ELSE HandleControl(f.of, f.kind = "reply")
    /\ UNCHANGED <<up, toLose, dropped, core, sent>>

(***************************************************************************)
(* openChannel, and a channel's close.                                     *)
(***************************************************************************)
\* Mutant of StillUp: the channel is opened whatever became of the connection.
OpensAnyway == TRUE

StillUp == up

\* Mutant of Replayed: the channel starts with what comes after its reply.
StartsEmpty(c) == NoChannel

\* The channel after each of the frames held, delivered in their order
Deliveries(held) ==
    LET after[i \in 0..Len(held)] ==
            IF i = 0 THEN NoChannel ELSE Delivered(after[i - 1], held[i])
    IN  after

\* What the frames held make of a new channel
Replayed(c) == Deliveries(early[c])[Len(early[c])]

OpenChannel(c) ==
    /\ call[c] = "answered"
    /\ IF StillUp
       THEN /\ call' = [call EXCEPT ![c] = "open"]
            /\ chan' = [chan EXCEPT ![c] = Replayed(c)]
            /\ early' = [early EXCEPT ![c] = <<>>]
            /\ chans' = IF Replayed(c).ended THEN chans ELSE chans \cup {c}
       ELSE call' = [call EXCEPT ![c] = "failed"] /\ UNCHANGED <<chan, early, chans>>
    /\ UNCHANGED <<up, pending, closing, toLose, dropped, coreVars>>

\* close, under the channel's lock; then under the connection's
CloseChannel(c) ==
    /\ call[c] = "open"
    /\ chan' = [chan EXCEPT ![c].closed = TRUE]
    /\ call' = [call EXCEPT ![c] =
                    IF chan[c].ended \/ chan[c].lost THEN "closed" ELSE "closing"]
    /\ UNCHANGED <<up, pending, chans, early, closing, toLose, dropped, coreVars>>

\* Held for the core's CLOSE, if that has not come.
ClosingWith(c) == IF c \in chans THEN closing \cup {c} ELSE closing

Detach(c) ==
    /\ call[c] = "closing"
    /\ call' = [call EXCEPT ![c] = "closed"]
    /\ closing' = ClosingWith(c)
    /\ chans' = chans \ {c}
    /\ Asks(c)
    /\ UNCHANGED <<up, pending, early, toLose, chan, dropped, core, sent, wire>>

HcNext ==
    \/ Fail \/ ReadFrame
    \/ \E c \in Calls :
        \/ CoreSends(c) \/ CoreReplies(c) \/ CoreCloses(c)
        \/ Register(c) \/ Request(c) \/ TakeReply(c) \/ GivesUp(c)
        \/ OpenChannel(c) \/ CloseChannel(c) \/ Detach(c) \/ Lose(c)

HcSpec == HcInit /\ [][HcNext]_hcVars

(***************************************************************************)
(* Properties                                                              *)
(***************************************************************************)
Comes(f) == \E i \in 1..Len(wire) : wire[i] = f
Handled(c) == /\ core[c] \in {"open", "closed"}
              /\ ~Comes(Reply(c, TRUE)) /\ ~Comes(Reply(c, FALSE))

\* After the first k frames of c every other one that the core sent is on its
\* way, each once and in order, and a CLOSE only after the last.
RestComes(c, k) ==
    LET coming == {i \in 1..Len(wire) : wire[i].of = c /\ wire[i].kind = "frame"}
    IN  /\ k <= sent[c]
        /\ \A n \in k + 1 .. sent[c] : \E i \in coming : wire[i].n = n
        /\ \A i \in coming :
            /\ wire[i].n = CLOSE \/ wire[i].n \in k + 1 .. sent[c]
            /\ \A j \in coming : i < j =>
                /\ wire[i].n # CLOSE
                /\ wire[j].n = CLOSE \/ wire[i].n < wire[j].n

\* An open channel has every frame the core sent on it but those still on
\* their way, each once and in order, the ones that came before its reply
\* included; and it ends only after the last (route and openChannel,
\* hc_conn.go:715-775).
FramesWhole ==
    \A c \in Calls : up /\ call[c] = "open" =>
        LET got == chan[c].got
        IN  /\ got = [n \in 1..Len(got) |-> n]
            /\ RestComes(c, Len(got))
            /\ chan[c].ended => \A i \in 1..Len(wire) : wire[i].of # c

\* Once its reply was handled, a call that failed or a channel that was
\* closed leaves nothing: no frame held here, and the core's viewer closed
\* or told to (handleControl, hc_conn.go:690-706: "neither its frames nor
\* the core's viewer outlive it").  A call that gave up with the reply in
\* its buffer is left out: nothing closes what it opened.
NoOrphan ==
    \A c \in Calls \ dropped :
        up /\ Handled(c) /\ call[c] \in {"failed", "closed"} =>
            early[c] = <<>> /\ (core[c] = "open" => c \in askedClose)

\* When the connection ended and its channels were told, every open channel
\* knows: no reader waits for a frame of a connection that is gone
\* (openChannel against fail).
LossIsTold ==
    ~up /\ toLose = {} =>
        \A c \in Calls : call[c] = "open" => chan[c].lost \/ chan[c].ended

\* A channel is held for closing only while the core's CLOSE is to come, so
\* none is dropped by that for good (close against route).
ClosingEnds ==
    up => \A c \in closing : core[c] = "open" \/ Comes(Frame(c, CLOSE))

\* Nothing waits for what will not come: no reader for a connection that is
\* gone, no channel id for the CLOSE that frees it.
NothingWaits == LossIsTold /\ ClosingEnds

\* What readers and the core see of the channels: an open one is given the
\* frames from the first, each once and in order, then one end, after the
\* last frame or with the connection (call, route, openChannel, deliver, fail
\* and close together).
Channel ==
    INSTANCE HcChannel WITH
        Channels <- Calls,
        over <- {c \in Calls : core[c] = "closed"},
        opened <- {c \in Calls : call[c] \in {"open", "closing", "closed"}},
        got <- [c \in Calls |-> chan[c].got],
        ended <- {c \in Calls : chan[c].ended},
        lost <- {c \in Calls : chan[c].lost},
        left <- {c \in Calls : chan[c].closed}

Promised == Channel!Spec

=============================================================================
