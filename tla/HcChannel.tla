------------------------------ MODULE HcChannel ------------------------------
(***************************************************************************)
(* What a channel to herdr-core promises its reader (next, hcConn.call and *)
(* openChannel of server/hc_conn.go): the frames that the core sent on it, *)
(* from the first one, each once and in their order, whether they came     *)
(* before the channel was open or after; then one end, the core's, which   *)
(* comes after the last frame, or the connection's.  Nothing is promised   *)
(* of frames that come after this side left.  HcConn shows how calls, the  *)
(* reading goroutine and the frames held early keep the promise.           *)
(***************************************************************************)
EXTENDS Naturals, Sequences

CONSTANT Channels

VARIABLES
    up,      \* the connection stands
    sent,    \* how many frames the core sent on each channel
    over,    \* channels on which it sends no more
    opened,  \* channels that have, or had, a reader
    got,     \* the frames each of them was given
    ended,   \* channels whose reader is told of the core's end
    lost,    \* channels whose reader is told that the connection is gone
    left     \* channels that the reader closed

coreState == <<sent, over>>
readers == <<opened, got, ended, lost, left>>

Init ==
    /\ up = TRUE
    /\ sent = [c \in Channels |-> 0]
    /\ got = [c \in Channels |-> <<>>]
    /\ over = {} /\ opened = {} /\ ended = {} /\ lost = {} /\ left = {}

Send(c) ==
    /\ c \notin over
    /\ sent' = [sent EXCEPT ![c] = @ + 1]
    /\ UNCHANGED <<over, up, readers>>

Finish(c) ==
    /\ c \notin over
    /\ over' = over \cup {c}
    /\ UNCHANGED <<sent, up, readers>>

\* The connection goes.
Cut ==
    /\ up
    /\ up' = FALSE
    /\ UNCHANGED <<coreState, readers>>

\* A reader gets a channel with the frames that came before it, and with its
\* end if that came too.
Open(c) ==
    /\ up /\ c \notin opened
    /\ opened' = opened \cup {c}
    /\ \E k \in 0..sent[c] : got' = [got EXCEPT ![c] = [n \in 1..k |-> n]]
    /\ \/ ended' = ended
       \/ c \in over /\ Len(got'[c]) = sent[c] /\ ended' = ended \cup {c}
    /\ UNCHANGED <<coreState, up, lost, left>>

\* It is given the next frame.
Deliver(c) ==
    /\ c \in opened \ (ended \cup left)
    /\ Len(got[c]) < sent[c]
    /\ got' = [got EXCEPT ![c] = Append(@, Len(@) + 1)]
    /\ UNCHANGED <<coreState, up, opened, ended, lost, left>>

\* The core's end, once every frame was given to a reader that is still there.
End(c) ==
    /\ c \in opened \ (ended \cup lost)
    /\ c \in over
    /\ c \notin left => Len(got[c]) = sent[c]
    /\ ended' = ended \cup {c}
    /\ UNCHANGED <<coreState, up, opened, got, lost, left>>

\* The end of the connection, for a reader that was told of no other.
Lose(c) ==
    /\ ~up
    /\ c \in opened \ (ended \cup lost)
    /\ lost' = lost \cup {c}
    /\ UNCHANGED <<coreState, up, opened, got, ended, left>>

Leave(c) ==
    /\ c \in opened \ left
    /\ left' = left \cup {c}
    /\ UNCHANGED <<coreState, up, opened, got, ended, lost>>

Next ==
    \/ Cut
    \/ \E c \in Channels :
        \/ Send(c) \/ Finish(c) \/ Open(c) \/ Deliver(c) \/ End(c)
        \/ Lose(c) \/ Leave(c)

Spec == Init /\ [][Next]_<<up, coreState, readers>>
=============================================================================
