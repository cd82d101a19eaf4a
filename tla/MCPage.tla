------------------------------- MODULE MCPage -------------------------------
(* Small instances of the page's components whose liveness is checked: the  *)
(* socket of a pane, the choice of the session shown, the Changes view, the *)
(* uploads of Files.                                                        *)
(* They share no state here: a behaviour is one component's, the others     *)
(* stay as they begin, and only the one that runs is fair.                  *)
EXTENDS TermSocket, SessionPick, ChangesStore, FileUploads, TLC

CONSTANTS p, q, a1, a2, b1, A, B, a, b

VARIABLE part     \* the component of the behaviour

\* Panes with a stream of their own; two groups, of two tabs and of one; a
\* file changed on both sides and an untracked one; uploads of one name into
\* one folder.
OwnKeys == (p :> p) @@ (q :> q)
GroupOfTab == (a1 :> A) @@ (a2 :> A) @@ (b1 :> B)
TwoGroups == <<A, B>>
TwoFiles == {[path |-> a, staged |-> TRUE], [path |-> a, staged |-> FALSE],
             [path |-> b, staged |-> FALSE]}
SameName == [x \in Picked |-> "name"]
SameRoot == [x \in Picked |-> "root"]

Parts == {"socket", "pick", "changes", "uploads"}

PageInit ==
    /\ part \in Parts
    /\ SocketInit /\ PickInit /\ ChangesInit /\ UploadsInit
    /\ part # "pick" => mode = "tmux" /\ serverTabs = {b1}

PageNext ==
    /\ UNCHANGED part
    /\ \/ /\ part = "socket" /\ SocketNext
          /\ UNCHANGED <<pickVars, changesVars, uploadsVars>>
       \/ /\ part = "pick" /\ PickNext
          /\ UNCHANGED <<socketVars, changesVars, uploadsVars>>
       \/ /\ part = "changes" /\ ChangesNext
          /\ UNCHANGED <<socketVars, pickVars, uploadsVars>>
       \/ /\ part = "uploads" /\ UploadsNext
          /\ UNCHANGED <<socketVars, pickVars, changesVars>>

PageSpec ==
    /\ PageInit
    /\ [][PageNext]_<<part, socketVars, pickVars, changesVars, uploadsVars>>
    /\ WF_socketVars(part = "socket" /\ RetryFires)
    /\ WF_socketVars(part = "socket" /\ KeyEffect)
    /\ WF_socketVars(part = "socket" /\ \E c \in Connects \ {cur} : TokenArrives(c))
    /\ SF_socketVars(part = "socket" /\ cur # None /\ TokenArrives(cur))
    /\ WF_pickVars(part = "pick" /\ Poll)
    /\ WF_pickVars(part = "pick" /\ Take(1))
    /\ SF_pickVars(part = "pick" /\ ReadArrives(1))
    /\ WF_pickVars(part = "pick" /\ \E i \in 1 .. MaxPicks : PickStep(i))
    /\ WF_pickVars(part = "pick" /\ (Added \/ GroupMade \/ TabsClosed \/ OpFails))
    /\ WF_changesVars(part = "changes" /\ SendPoll /\ UNCHANGED <<own, left>>)
    /\ SF_changesVars(part = "changes" /\ ServerReads /\ UNCHANGED <<own, left>>)
    /\ WF_changesVars(part = "changes" /\ (ServerReads \/ PollFails \/ Answer)
                                       /\ UNCHANGED <<own, left>>)
    /\ WF_uploadsVars(part = "uploads" /\ PageGoesOn)
    /\ WF_uploadsVars(part = "uploads" /\ ServerGoesOn)

\* Where the socket runs, it gets a socket again (NeverStranded of TermSocket).
SocketSettles == part = "socket" => NeverStranded

\* Where the session list runs, what the user picked is shown (ChoiceShown), and
\* the list catches up with the server in the end (CatchesUp of SessionPick).
SessionsSettle == part = "pick" => ChoiceShown /\ CatchesUp

\* Where the Changes view runs, a link's diff is shown or refused (LinkTaken),
\* and its list catches up in the end (ListCatchesUp of ChangesStore).
ChangesSettle == part = "changes" => LinkTaken /\ ListCatchesUp

\* Where the uploads run, they end (UploadsEnd of FileUploads).
UploadsSettle == part = "uploads" => UploadsEnd
=============================================================================
