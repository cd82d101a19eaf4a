------------------------------ MODULE MCSafety ------------------------------
(* Small instances of the components whose safety is checked side by side:  *)
(* the token stores, the connection to herdr-core, the choice of a session, *)
(* the Files view, its drafts and its uploads.  They share no state: a      *)
(* behaviour is one component's, the others stay as they begin.             *)
EXTENDS TokenStore, HcConn, Views, FileDrafts, TLC

CONSTANTS d1, d2, s1, a1, a2, b1, A, B

VARIABLE part     \* the component of the behaviour

View(x) == [role |-> "view", device |-> x, session |-> None]
Browser == [role |-> "full", device |-> None, session |-> s1]
Basic == [role |-> "full", device |-> None, session |-> None]

\* Stream tokens of two view-only devices, a browser and Basic auth; and the
\* store of password sessions, whose tokens are used again.
StreamGrants == {View(d1), View(d2), Browser, Basic}
SessionStore ==
    INSTANCE TokenStore WITH
        Grants <- {Basic}, Devices <- {}, Sessions <- {}, PerDevice <- 0,
        SingleUse <- FALSE

\* Drafts of every file, of pages that do not sign out; those that do keep
\* drafts of the ones that are not sensitive.
SignedInDrafts == INSTANCE FileDrafts WITH MaxOuts <- 0
NoneSensitive == \A m \in Pages, x \in Secret : draft'[m][x] = NoDraft

\* Two calls, with a frame at most on each channel; one call with more.
FewFrames == INSTANCE HcConn WITH MaxFrames <- 1
OneCall == Cardinality({c \in Calls : call'[c] # "idle"}) <= 1

\* A read of the tree at a time, and two with one thing less done meanwhile.
OneRead == INSTANCE FilesStore WITH MaxTreeReads <- 1
LessDone == toDo' > 0

\* Two groups, of two tabs and of one.
GroupOfTab == (a1 :> A) @@ (a2 :> A) @@ (b1 :> B)
TwoGroups == <<A, B>>

\* Uploads of one name into one folder, reached through two roots.
SameName == [x \in Picked |-> "name"]
OwnRoot == [x \in Picked |-> x]

Parts == {"stream tokens", "session tokens", "calls", "frames", "pick", "files",
          "reads", "drafts", "sign outs", "uploads"}

PartsInit ==
    /\ part \in Parts
    /\ Init /\ HcInit /\ PickInit /\ FilesInit /\ DraftsInit /\ UploadsInit
    /\ part # "pick" => mode = "tmux" /\ serverTabs = {b1}
    /\ part \notin {"files", "reads"} => paneRoot = PlaceRoot

PartsNext ==
    /\ UNCHANGED part
    /\ \/ /\ \/ part = "stream tokens" /\ Next
             \/ part = "session tokens" /\ SessionStore!Next
          /\ UNCHANGED <<hcVars, pickVars, filesVars, draftsVars, uploadsVars>>
       \/ /\ \/ part = "calls" /\ FewFrames!HcNext
             \/ part = "frames" /\ HcNext /\ OneCall
          /\ UNCHANGED <<vars, pickVars, filesVars, draftsVars, uploadsVars>>
       \/ /\ part = "pick" /\ PickNext
          /\ UNCHANGED <<vars, hcVars, filesVars, draftsVars, uploadsVars>>
       \/ /\ \/ part = "files" /\ OneRead!FilesNext
             \/ part = "reads" /\ FilesNext /\ LessDone
          /\ UNCHANGED <<vars, hcVars, pickVars, draftsVars, uploadsVars>>
       \/ /\ \/ part = "drafts" /\ SignedInDrafts!DraftsNext
             \/ part = "sign outs" /\ DraftsNext /\ NoneSensitive
          /\ UNCHANGED <<vars, hcVars, pickVars, filesVars, uploadsVars>>
       \/ /\ part = "uploads" /\ UploadsNext
          /\ UNCHANGED <<vars, hcVars, pickVars, filesVars, draftsVars>>

PartsSpec ==
    /\ PartsInit
    /\ [][PartsNext]_<<part, vars, hcVars, pickVars, filesVars, draftsVars,
                       uploadsVars>>

Symm == Permutations(Pages) \cup Permutations(Texts)
=============================================================================
