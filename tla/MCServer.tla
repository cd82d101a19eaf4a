------------------------------ MODULE MCServer ------------------------------
(* Small instances of the server's components whose liveness is checked: two *)
(* hubs that shut down, two passwords on one devices.json, the codes of a    *)
(* device and a session.                                                     *)
(* They share no state here: a behaviour is one component's, the others stay *)
(* as they begin, and only the one that runs is fair.                        *)
EXTENDS DeviceStore, TLC

CONSTANTS main, fwd, s1, s2, f, p, a, b, pw1, pw2, c1, r1, r2

VARIABLES
    part,     \* the component of the behaviour
    lock, list, closing, pc, hubOf, client, cause, told, gone, closedIn, shut,
              \* the variables of StreamHub
    now, paired, used, maker, full, until, session, codes, codeLock, timer, ended,
    subs, task, stray
              \* the variables of DeviceAuth, whose job is task here

hubVars == <<lock, list, closing, pc, hubOf, client, cause, told, gone, closedIn, shut>>
authVars == <<now, paired, used, maker, full, until, session, codes, codeLock, timer,
              ended, subs, task, stray>>

\* Two processes, each with a password of its own, and no session.
OwnGen == (a :> pw1) @@ (b :> pw2)
NoHome == [x \in Sessions |-> a]

\* The requests of a full device, and those with a stream token a view-only
\* client asked for; one stream fits in each hub.
OneDevice == {[role |-> "full", device |-> f, session |-> None],
              [role |-> "view", device |-> f, session |-> None]}

Hub == INSTANCE StreamHub WITH
    Streams <- {s1, s2}, Hubs <- {main, fwd}, Main <- main, Devices <- {f}, Sessions <- {},
    Clients <- OneDevice, MaxStreams <- (main :> 1) @@ (fwd :> 1), MaxPerDevice <- 1

\* A device and a session that may make a code; no time limits.
Auth == INSTANCE DeviceAuth WITH
    job <- task, Devices <- {f}, Sessions <- {p}, Endpoints <- {}, Codes <- {c1},
    Routines <- {r1, r2}, Limits <- {0}, MaxTime <- 0, SaveFails <- FALSE

Parts == {"hubs", "passwords", "codes"}

ServerInit == part \in Parts /\ Init /\ Hub!HubInit /\ Auth!Init

\* The two stream requests are alike, so they come in one order.
InOrder == pc[s1] = "idle" => pc'[s2] = "idle"

ServerNext ==
    /\ UNCHANGED part
    /\ \/ part = "hubs" /\ Hub!HubNext /\ InOrder /\ UNCHANGED <<vars, authVars>>
       \/ part = "passwords" /\ Next /\ UNCHANGED <<hubVars, authVars>>
       \/ part = "codes" /\ Auth!Next /\ UNCHANGED <<vars, hubVars>>

\* The fairness of each component, where it is the one that runs.
ServerSpec ==
    /\ ServerInit
    /\ [][ServerNext]_<<part, vars, hubVars, authVars>>
    /\ \A x \in {s1, s2} :
          /\ WF_hubVars(part = "hubs" /\ Hub!Handler(x))
          /\ WF_hubVars(part = "hubs" /\ Hub!Recheck(x))
          /\ WF_hubVars(part = "hubs" /\ Hub!Cancelled(x))
    /\ WF_hubVars(part = "hubs" /\ Hub!ShutBegin(fwd))
    /\ \A x \in {main, fwd} :
          WF_hubVars(part = "hubs" /\ (Hub!ShutDone(x) \/ Hub!ShutLate(x)))
    /\ \A x \in Procs :
          /\ WF_vars(part = "passwords" /\ Change(x))
          /\ WF_vars(part = "passwords" /\ Reload(x))
          /\ WF_vars(part = "passwords" /\ Reloaded(x))
    /\ \A x \in {r1, r2} :
          /\ WF_authVars(part = "codes" /\ Auth!Step(x))
          /\ SF_authVars(part = "codes" /\ Auth!EndCodes(x))
          /\ SF_authVars(part = "codes" /\ Auth!EndSession(x))

\* Where the hubs run, what has to end in them ends (StreamsEnd of StreamHub):
\* the streams of an identity that is gone, and a shutdown.
HubsSettle == part = "hubs" => Hub!StreamsEnd

\* Where the two passwords run, a change that was asked for ends (ChangesEnd of
\* DeviceStore).
WritesSettle == part = "passwords" => ChangesEnd

\* Where the codes run, those of makers that are gone go (GoneCodesGo of
\* DeviceAuth).
CodesSettle == part = "codes" => Auth!GoneCodesGo
=============================================================================
