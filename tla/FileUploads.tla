---------------------------- MODULE FileUploads ----------------------------
(***************************************************************************)
(* Files sent from this device into a folder of Files: the queue of        *)
(* pwa/src/hooks/use-file-uploads.ts, the requests of utils/upload-file.ts *)
(* and what server/files_upload.go does with them.                         *)
(*                                                                         *)
(* The page is one thread: a step is what runs between two awaits.  A      *)
(* Cancel ends the wait, the ask and the bytes at once; the answer of a    *)
(* check it aborted comes in a step of its own.  The upload at the server  *)
(* goes on by itself: it takes the one slot, reads the body, then gives    *)
(* the file the first free name.                                           *)
(*                                                                         *)
(* A file stands for its name and size: two files of one name differ in    *)
(* size.  Left out: progress, wording, folders in a drop, the listeners    *)
(* that focus the new row.                                                 *)
(***************************************************************************)
EXTENDS Common, Naturals, FiniteSets, Sequences

CONSTANTS
    Picked,      \* the files the user may pick
    NameOf,      \* where each goes: its folder and name
    RootOf,      \* the root that folder is under
    Guarded,     \* the files whose folder or name may hold secrets
    Other,       \* another device, and a file of another program
    MaxSuffix,   \* names tried for one (uploadMaxSuffix)
    MaxWaits     \* waits for the slot (UPLOAD_BUSY_WAIT_MS)

\* The names a file may be given: its own, and numbered ones.
UploadPaths == {NameOf[f] : f \in Picked} \X (1..MaxSuffix)

ASSUME UploadsAssumption ==
    /\ None \notin Picked \cup UploadPaths /\ Other \notin Picked \cup {None}
    /\ IsFiniteSet(Picked) /\ Guarded \subseteq Picked
    /\ MaxSuffix \in Nat \ {0} /\ MaxWaits \in Nat

VARIABLES
    queue,       \* files that wait their turn
    inHand,     \* the file of one(), or None
    doing,       \* what one() awaits: "idle" while no run is on
    went,        \* every byte of this try went (onSent)
    canCancel,   \* status.canCancel
    aborted,     \* the run's signal
    waits,       \* waits for the slot so far
    foundAt,     \* the path the last check gave
    queued,      \* files queued since the run began
    batchOf,     \* the start each file came with
    revealed,    \* starts whose ask was answered yes
    declined,    \* and no
    upload,      \* each file's request at the server
    slot,        \* who holds uploadSlots
    folder,      \* what is at each path
    moved,       \* roots that are not their pane's any more
    fate,        \* history: what became of each file
    savedAs,     \* history: the path told for a file told saved
    stopped,     \* history: the files a Cancel was meant for
    totals       \* history: the files all ended runs told of

runVars == <<queue, inHand, doing, went, canCancel, aborted, waits, foundAt, queued>>
batchVars == <<batchOf, revealed, declined>>
siteVars == <<upload, slot, folder, moved>>
fateVars == <<fate, savedAs, stopped, totals>>
uploadsVars == <<runVars, batchVars, siteVars, fateVars>>

Items(s) == {s[i] : i \in DOMAIN s}
OnDisk(f) == \E p \in UploadPaths : folder[p] = f

NoUpload == [at |-> "none", whole |-> FALSE, res |-> "none"]

UploadsTypeOK ==
    /\ Items(queue) \subseteq Picked /\ queued \in Nat /\ totals \in Nat
    /\ inHand \in Picked \cup {None}
    /\ doing \in {"idle", "check", "ask", "wait", "send", "look", "again", "told"}
    /\ (doing = "idle") = (inHand = None)
    /\ went \in BOOLEAN /\ canCancel \in BOOLEAN /\ aborted \in BOOLEAN
    /\ waits \in 0..MaxWaits
    /\ foundAt \in UploadPaths \cup {None}
    /\ batchOf \in [Picked -> 0..Cardinality(Picked)]
    /\ upload \in [Picked -> [at : {"none", "out", "slot", "answered"}, whole : BOOLEAN,
                              res : {"none", "ok", "upload_busy", "root_changed",
                                     "unauthorized", "failed"}]]
    /\ slot \in Picked \cup {Other, None}
    /\ folder \in [UploadPaths -> Picked \cup {Other, None}]
    /\ fate \in [Picked -> {"new", "queued", "saved", "failed", "unsure", "skipped",
                            "aborted", "dropped"}]
    /\ savedAs \in [Picked -> UploadPaths \cup {None}]

UploadsInit ==
    /\ queue = <<>> /\ inHand = None /\ doing = "idle" /\ queued = 0
    /\ went = FALSE /\ canCancel = FALSE /\ aborted = FALSE
    /\ waits = 0 /\ foundAt = None
    /\ batchOf = [f \in Picked |-> 0] /\ revealed = {} /\ declined = {}
    /\ upload = [f \in Picked |-> NoUpload] /\ slot = None
    /\ folder = [p \in UploadPaths |-> None] /\ moved = {}
    /\ fate = [f \in Picked |-> "new"] /\ savedAs = [f \in Picked |-> None]
    /\ stopped = {} /\ totals = 0

-----------------------------------------------------------------------------
(* The loop over the queue.                                                *)

Fates(S, r) == [f \in Picked |-> IF f \in S THEN r ELSE fate[f]]

\* The first file of q is the one in hand; nothing of the last one stays.
TakesNext(q) ==
    /\ inHand' = Head(q) /\ queue' = Tail(q)
    /\ doing' = "check" /\ canCancel' = TRUE
    /\ went' = FALSE /\ waits' = 0 /\ foundAt' = None

\* Nothing runs.
Rests ==
    /\ inHand' = None /\ queue' = <<>>
    /\ doing' = "idle" /\ canCancel' = FALSE
    /\ went' = FALSE /\ waits' = 0 /\ foundAt' = None

\* The end of a run: it is told of every file queued since it began but the
\* ones left, which are a run of their own, with its own signal.
RunEnds(q) ==
    /\ totals' = totals + (queued - Len(q))
    /\ queued' = Len(q)
    /\ aborted' = FALSE
    /\ IF q = <<>> THEN Rests ELSE TakesNext(q)

\* The loop goes on with q, or ends: nothing left, or the run was stopped.
Continue(q, stops) ==
    IF q # <<>> /\ ~stops
      THEN TakesNext(q) /\ UNCHANGED <<aborted, queued, totals>>
      ELSE RunEnds(q)

\* What runQueue does with a result of one() that is no success.
EndsAs(r) ==
    LET sameRoot == {f \in Items(queue) : RootOf[f] = RootOf[inHand]}
    IN  /\ CASE r = "aborted" ->
                  fate' = Fates({inHand}, "aborted") /\ Continue(queue, TRUE)
             [] r = "unauthorized" ->
                  /\ fate' = Fates({inHand} \cup Items(queue), "failed")
                  /\ Continue(<<>>, TRUE)
             [] r = "root_changed" ->
                  /\ fate' = Fates({inHand} \cup sameRoot, "failed")
                  /\ Continue(Remaining(queue, sameRoot), FALSE)
             [] r = "upload_busy" ->
                  /\ fate' = Fates({inHand} \cup Items(queue), "failed")
                  /\ Continue(<<>>, FALSE)
             [] r \in {"skipped", "unsure"} ->
                  fate' = Fates({inHand}, r) /\ Continue(queue, FALSE)
             [] OTHER -> fate' = Fates({inHand}, "failed") /\ Continue(queue, FALSE)
        /\ UNCHANGED <<savedAs, stopped>>

\* A success: the view that shows the folder reads it again first.
SavedAt(p) ==
    /\ fate' = Fates({inHand}, "saved")
    /\ savedAs' = [savedAs EXCEPT ![inHand] = p]
    /\ doing' = "told"
    /\ UNCHANGED <<queue, inHand, went, canCancel, aborted, waits, foundAt, queued,
                   stopped, totals>>

AfterSave ==
    /\ doing = "told"
    /\ Continue(queue, FALSE)
    /\ UNCHANGED <<batchVars, siteVars, fate, savedAs, stopped>>

-----------------------------------------------------------------------------
(* one(): the check, the ask, the bytes, the wait for the slot.            *)

Awaits(what) ==
    /\ doing' = what
    /\ UNCHANGED <<queue, inHand, canCancel, aborted, queued, fateVars>>

\* Mutant of SlotTaken: gives up no wait.
SlotTakenForever ==
    Awaits("wait") /\ UNCHANGED <<waits, went, foundAt>>

\* The slot is another upload's: wait, unless that was long enough.
SlotTaken ==
    IF waits >= MaxWaits
      THEN EndsAs("upload_busy")
      ELSE Awaits("wait") /\ waits' = waits + 1 /\ UNCHANGED <<went, foundAt>>

FreeNames(f) == {n \in 1..MaxSuffix : folder[<<NameOf[f], n>>] = None}
FreePath(f) == <<NameOf[f], CHOOSE n \in FreeNames(f) : \A m \in FreeNames(f) : n <= m>>

\* What the server may answer to a check of f now.  It can refuse it for what
\* is not modelled, and the answer can be lost, at any time.
CheckAnswers(f) ==
    {"network", "failed", "unauthorized"} \cup
    {IF RootOf[f] \in moved THEN "root_changed"
     ELSE IF f \in Guarded /\ batchOf[f] \notin revealed THEN "sensitive"
     ELSE IF FreeNames(f) = {} THEN "exists"
     ELSE IF slot # None THEN "upload_busy"
     ELSE "ok"}

\* The bytes go, to the place the check was of.
Sends ==
    /\ Awaits("send")
    /\ went' = FALSE /\ foundAt' = FreePath(inHand)
    /\ upload' = [upload EXCEPT ![inHand] = [NoUpload EXCEPT !.at = "out"]]
    /\ UNCHANGED <<waits, batchVars, slot, folder, moved>>

\* The check before the bytes: canceled meanwhile, busy, an ask (of one
\* start, once), refused, or fine.
Checked ==
    /\ doing = "check"
    /\ IF aborted
         THEN EndsAs("aborted") /\ UNCHANGED <<batchVars, siteVars>>
         ELSE \E r \in CheckAnswers(inHand) :
                IF r = "ok" THEN Sends
                ELSE /\ CASE r = "upload_busy" -> SlotTaken
                          [] r = "sensitive" ->
                               IF batchOf[inHand] \in declined THEN EndsAs("skipped")
                               ELSE Awaits("ask") /\ UNCHANGED <<went, waits, foundAt>>
                          [] OTHER -> EndsAs(r)
                     /\ UNCHANGED <<batchVars, siteVars>>

\* The user answers the ask (confirmUpload).
AnswerAsk(yes) ==
    /\ doing = "ask"
    /\ IF yes
         THEN /\ revealed' = revealed \cup {batchOf[inHand]}
              /\ Awaits("check")
              /\ UNCHANGED <<went, waits, foundAt, declined>>
         ELSE /\ declined' = declined \cup {batchOf[inHand]}
              /\ EndsAs("skipped")
              /\ UNCHANGED revealed
    /\ UNCHANGED <<batchOf, siteVars>>

WaitOver ==
    /\ doing = "wait"
    /\ Awaits("check")
    /\ UNCHANGED <<went, waits, foundAt, batchVars, siteVars>>

\* upload.onload: no Cancel from here on.
Sent ==
    /\ doing = "send" /\ ~went /\ upload[inHand].whole
    /\ went' = TRUE /\ canCancel' = FALSE
    /\ UNCHANGED <<queue, inHand, doing, aborted, waits, foundAt, queued,
                   batchVars, siteVars, fateVars>>

\* The events of a request come in order: that of its bytes before its end.
InOrder == upload[inHand].whole => went

Replied ==
    /\ doing = "send" /\ InOrder
    /\ upload[inHand].at = "answered"
    /\ LET r == upload[inHand].res
       IN  CASE r = "ok" -> SavedAt(CHOOSE p \in UploadPaths : folder[p] = inHand)
             [] r = "upload_busy" -> SlotTaken
             [] OTHER -> EndsAs(r)
    /\ upload' = [upload EXCEPT ![inHand] = NoUpload]
    /\ UNCHANGED <<batchVars, slot, folder, moved>>

\* A request that ends before its whole body came is never saved; the server
\* may hold the slot for it a while longer.
Forgets(f) ==
    /\ upload' = [upload EXCEPT ![f] = NoUpload]
    /\ slot' = IF slot = f THEN Other ELSE slot
    /\ UNCHANGED <<folder, moved>>

\* One whose whole body came goes on at the server; its answer is not heard.
Unheard(f) ==
    /\ upload' = IF upload[f].at = "answered"
                    THEN [upload EXCEPT ![f] = NoUpload] ELSE upload
    /\ UNCHANGED <<slot, folder, moved>>

\* The connection is lost.  With every byte gone the file may be saved, so
\* the folder is looked at; before that the check says why.
Lost ==
    /\ doing = "send" /\ InOrder
    /\ Awaits(IF went THEN "look" ELSE "again")
    /\ IF went THEN Unheard(inHand) ELSE Forgets(inHand)
    /\ UNCHANGED <<went, waits, foundAt, batchVars>>

\* Mutant of Looked: any file there will do.
LookedAny ==
    /\ doing = "look"
    /\ IF folder[foundAt] # None THEN SavedAt(foundAt) ELSE EndsAs("unsure")
    /\ UNCHANGED <<batchVars, siteVars>>

\* landed: whether a file of this name and size is where the check said.
Looked ==
    /\ doing = "look"
    /\ \/ folder[foundAt] = inHand /\ SavedAt(foundAt)
       \/ EndsAs("unsure")     \* none there, or the folder was not read
    /\ UNCHANGED <<batchVars, siteVars>>

\* The check that says why the bytes were lost.  A Cancel while the body of
\* its answer is read leaves only its status: the user is signed out, or the
\* file failed and the run goes on with an aborted signal.
CheckedAgain ==
    /\ doing = "again"
    /\ IF aborted THEN \E r \in {"aborted", "failed", "unauthorized"} : EndsAs(r)
       ELSE \E r \in CheckAnswers(inHand) :
              CASE r = "upload_busy" -> SlotTaken
                [] r = "ok" -> EndsAs("network")
                [] OTHER -> EndsAs(r)
    /\ UNCHANGED <<batchVars, siteVars>>

-----------------------------------------------------------------------------
(* The user.                                                               *)

\* startUploads: files of one start join the run under way, or begin one.
StartUploads(files) ==
    /\ \A f \in Items(files) : fate[f] = "new"
    /\ fate' = Fates(Items(files), "queued")
    /\ LET batch == 1 + Cardinality({batchOf[f] : f \in Picked} \ {0})
       IN  batchOf' = [f \in Picked |-> IF f \in Items(files) THEN batch ELSE batchOf[f]]
    /\ queued' = queued + Len(files)
    /\ IF doing = "idle"
         THEN TakesNext(files) /\ aborted' = FALSE
         ELSE /\ queue' = queue \o files
              /\ UNCHANGED <<inHand, doing, went, canCancel, aborted, waits, foundAt>>
    /\ UNCHANGED <<revealed, declined, siteVars, savedAs, stopped, totals>>

\* Mutant of CancelKeeps: the files that wait their turn stay.
CancelKeepsAll(q) == q

\* What a Cancel leaves of the queue.
CancelKeeps(q) == <<>>

\* cancelUploads, by the button of the status row.
Cancel ==
    /\ doing # "idle" /\ canCancel /\ ~aborted
    /\ stopped' = stopped \cup {inHand} \cup Items(queue)
    /\ UNCHANGED <<batchOf, revealed, savedAs>>
    /\ LET dropped == Fates(Items(queue) \ Items(CancelKeeps(queue)), "dropped")
       IN  IF doing \in {"check", "again"}
             THEN /\ fate' = dropped /\ queue' = CancelKeeps(queue)
                  /\ aborted' = TRUE
                  /\ UNCHANGED <<inHand, doing, went, canCancel, waits, foundAt, queued,
                                 totals, declined, siteVars>>
             ELSE /\ fate' = [dropped EXCEPT ![inHand] = "aborted"]
                  /\ Continue(CancelKeeps(queue), TRUE)
                  /\ declined' = declined \cup
                                   (IF doing = "ask" THEN {batchOf[inHand]} ELSE {})
                  /\ CASE doing # "send" -> UNCHANGED siteVars
                       [] upload[inHand].whole -> Unheard(inHand)
                       [] OTHER -> Forgets(inHand)

-----------------------------------------------------------------------------
(* The server.                                                             *)

\* The page hears it if it still waits for this request.
Answers(f, r) ==
    upload' = IF f = inHand /\ doing = "send"
                THEN [upload EXCEPT ![f].at = "answered", ![f].res = r]
                ELSE [upload EXCEPT ![f] = NoUpload]

\* handleUpload: refused, or the slot is taken.
Received(f) ==
    /\ upload[f].at = "out"
    /\ \/ \E r \in {"failed", "unauthorized"} : Answers(f, r) /\ UNCHANGED slot
       \/ RootOf[f] \in moved /\ Answers(f, "root_changed") /\ UNCHANGED slot
       \/ /\ RootOf[f] \notin moved
          /\ IF slot # None
               THEN Answers(f, "upload_busy") /\ UNCHANGED slot
               ELSE slot' = f /\ upload' = [upload EXCEPT ![f].at = "slot"]
    /\ UNCHANGED <<runVars, batchVars, folder, moved, fateVars>>

\* The last byte leaves this device.
BytesGo ==
    /\ doing = "send" /\ upload[inHand].at # "none" /\ ~upload[inHand].whole
    /\ upload' = [upload EXCEPT ![inHand].whole = TRUE]
    /\ UNCHANGED <<runVars, batchVars, slot, folder, moved, fateVars>>

\* writeUpload: the whole body came and the first free name is the file's.
Placed(f) ==
    /\ upload[f].at = "slot" /\ upload[f].whole
    /\ FreeNames(f) # {}
    /\ folder' = [folder EXCEPT ![FreePath(f)] = f]
    /\ slot' = None /\ Answers(f, "ok")
    /\ UNCHANGED <<runVars, batchVars, moved, fateVars>>

\* It stalled, the disk is full, no name is left: nothing of it stays.
NotPlaced(f) ==
    /\ upload[f].at = "slot"
    /\ slot' = None /\ Answers(f, "failed")
    /\ UNCHANGED <<runVars, batchVars, folder, moved, fateVars>>

\* Another device uploads, other programs write, panes change directory.
OtherUploads ==
    /\ \/ slot = None /\ slot' = Other /\ UNCHANGED <<folder, moved>>
       \/ slot = Other /\ slot' = None /\ UNCHANGED <<folder, moved>>
       \/ \E p \in UploadPaths :
            folder[p] = None /\ folder' = [folder EXCEPT ![p] = Other] /\ UNCHANGED <<slot, moved>>
       \/ \E f \in Picked : moved' = moved \cup {RootOf[f]} /\ UNCHANGED <<slot, folder>>
    /\ UNCHANGED <<runVars, batchVars, upload, fateVars>>

-----------------------------------------------------------------------------

PageGoesOn ==
    \/ Checked \/ CheckedAgain \/ WaitOver \/ Sent \/ Replied \/ Looked \/ AfterSave
    \/ \E yes \in BOOLEAN : AnswerAsk(yes)

ServerGoesOn == \E f \in Picked : Received(f) \/ Placed(f) \/ NotPlaced(f)

UploadsNext ==
    \/ PageGoesOn \/ ServerGoesOn
    \/ \E f, g \in Picked : StartUploads(IF f = g THEN <<f>> ELSE <<f, g>>)
    \/ Cancel \/ Lost \/ BytesGo \/ OtherUploads

UploadsSpec == UploadsInit /\ [][UploadsNext]_uploadsVars

\* Requests are answered, timers fire, the user answers the ask, and the
\* server is done with an upload (uploadIdleTimeout, uploadMaxDuration).
UploadsFairness == WF_uploadsVars(PageGoesOn) /\ WF_uploadsVars(ServerGoesOn)

-----------------------------------------------------------------------------
(* Properties.                                                             *)

\* What the user is told of a file is true and stays true: told saved, it is
\* at that path; told failed, skipped or dropped, it is nowhere and no
\* request brings it later.  No file is saved twice, and none where secrets
\* may be without a yes to its start's ask; and nothing is told of a file
\* that still waits, or in the end of none (one, landed, writeUpload).
ToldIsTrue ==
    \A f \in Picked :
        /\ fate[f] = "saved" => savedAs[f] # None /\ folder[savedAs[f]] = f
        /\ fate[f] \in {"new", "failed", "skipped", "dropped"} => ~OnDisk(f)
        /\ \A p, q \in UploadPaths : folder[p] = f /\ folder[q] = f => p = q
        /\ f \in Guarded /\ OnDisk(f) => batchOf[f] \in revealed
        /\ fate[f] = "queued" <=> \/ f \in Items(queue)
                                  \/ f = inHand /\ doing # "told"

\* A Cancel stops the file in hand and those queued by then: none of them goes
\* later, and no file added after it is dropped (cancelUploads).  Every run
\* tells of its own files, each once, whatever was added after a Cancel
\* (queued, tally.total).
CancelIsExact ==
    /\ \A f \in stopped : fate[f] \in {"aborted", "dropped", "failed"} \/ f = inHand
    /\ \A f \in Picked \ stopped : fate[f] # "dropped"
    /\ totals + queued = Cardinality({f \in Picked : fate[f] # "new"})

\* "files added afterwards still go" (use-file-uploads.ts:440): no Cancel ends
\* a file added after it.  Expected to fail.
AddedStillGo == \A f \in Picked \ stopped : fate[f] \notin {"aborted", "dropped"}

\* Every run comes to an end: no lost answer, busy slot, ask or Cancel leaves
\* the queue stuck.
UploadsEnd == doing # "idle" ~> doing = "idle"
=============================================================================
