----------------------------- MODULE DraftStore -----------------------------
(***************************************************************************)
(* What the storage of a browser promises of the unsaved changes of files  *)
(* (useFiles of pwa/src/hooks/use-files.ts, utils/files-persist.ts): of a  *)
(* file it holds what its draft was last made, by whichever page, or it    *)
(* holds nothing; and a sign-out empties it for good, since only a page    *)
(* that was opened after it writes again.  It may forget at any time.  The *)
(* text a page gives a draft once it is signed out is that page's alone    *)
(* and no change here.                                                     *)
(* FileDrafts shows how pages that write, remove, rename and read back     *)
(* without waiting for each other keep the promise.                        *)
(***************************************************************************)
CONSTANTS Pages, Files, Secret, Texts, Hidden, None

VARIABLES
    stored,     \* the text held of each file, or None
    latest,     \* what its draft was last made: None is a file without
    opened,     \* the pages that are open
    writers     \* those that were opened since the last sign-out

Init ==
    /\ stored = [f \in Files |-> None]
    /\ latest = [f \in Files |-> None]
    /\ opened = {} /\ writers = {}

\* A page opens, or is left.
Come(p) ==
    /\ p \notin opened
    /\ opened' = opened \cup {p} /\ writers' = writers \cup {p}
    /\ UNCHANGED <<stored, latest>>

Go(p) ==
    /\ p \in opened
    /\ opened' = opened \ {p} /\ writers' = writers \ {p}
    /\ UNCHANGED <<stored, latest>>

\* A page makes drafts anew, those of fs: one, or two when it renames.  Of each
\* the storage holds what it was made or nothing, and no older text.
Make(p, fs) ==
    /\ latest' \in [Files -> Texts \cup {Hidden, None}]
    /\ stored' \in [Files -> Texts \cup {None}]
    /\ \A f \in Files \ fs : latest'[f] = latest[f] /\ stored'[f] = stored[f]
    /\ \A f \in fs : stored'[f] # None =>
                        stored'[f] = latest'[f] /\ f \notin Secret /\ p \in writers
    /\ UNCHANGED <<opened, writers>>

\* Every page may find that it must forget, whatever it holds itself.
ForgetAll ==
    /\ stored' = [f \in Files |-> None]
    /\ UNCHANGED <<latest, opened, writers>>

SignOut ==
    /\ stored' = [f \in Files |-> None]
    /\ writers' = {}
    /\ UNCHANGED <<latest, opened>>

Next ==
    \/ ForgetAll \/ SignOut
    \/ \E p \in Pages :
        \/ Come(p) \/ Go(p)
        \/ \E fs \in SUBSET Files : Make(p, fs)

Spec == Init /\ [][Next]_<<stored, latest, opened, writers>>
=============================================================================
