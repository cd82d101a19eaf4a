# Formal model of termote

termote serves the terminals of a computer to a browser: a Go server
(`server/`) runs on the computer, attaches to a terminal multiplexer (tmux,
Zellij, Herdr or herdr-core) and streams its panes over WebSockets to a PWA
(`pwa/`). This directory holds TLA+ models of the parts of it whose
correctness depends on the order in which things happen, the TLC
configurations that check them on small instances, and TLAPS proofs for every
value of their constants.

Paths below are relative to the repository root.

## Inventory

| Component | State it keeps | Operations | What is hard |
| --- | --- | --- | --- |
| Terminal stream hub (`server/stream.go`) | open streams in opening order, `closing`, linked hubs | `addFor`, `evict`, `closeDevice`, `closeSession`, `recheck`, `remove`, `shutdown` | a stream that opens while its owner is revoked; eviction and its message; shutdown of linked hubs |
| Device store (`server/device_store.go`, `state_lock*.go`) | `devices.json` shared by processes; each process's records, stamp, recorded uses | `add`, `revoke`, `revokeCascade`, `revokePairedBy`, `pruneStale`, `lookup`, `alive`, `flush` | several processes, lookups without the file lock, crashes, lock timeouts |
| End of a device (`server/device_routes.go`, `device_pairing.go`, `push_store.go`) | codes, expiry timer, `ended`, push subscriptions | `end`, `expire`, `checkExpiry`, `create`, `redeem`, `dropCreator`, push `add`, `removeDevices` | requests in flight while an identity ends; the timer armed again |
| Sessions and stream tokens (`server/sessions.go`, `serve.go`) | `tokenStore`: tokens and issue order | `put`, `check`, `revokeDevice`, `revokeSession`, `remove`, `end` | caps with roles, least recently used sessions |
| Sign-in, guards, peers (`login*.go`, `guard.go`, `auth_role.go`, `peer_user_*`) | rate limiters | header and credential checks | input validation, no ordering |
| Backends (`mux_*.go`, `herdr_*.go`, `zellij_*.go`, `hc_*.go`) | the hc connection: pending calls, channels, credits; a stream's attach; Zellij's session slots | attach, type, resize, call | replies after timeouts, an attach that comes back |
| Agents and chat (`agent*.go`) | activity of panes, prompt records | observe, answer, send a message | stale snapshots, prompts answered twice |
| Push (`push_watch.go`, `webpush.go`) | transitions, event queue, backoff | tick, deliver | queue limits |
| Tasks (`tasks_*.go`, `task_store.go`) | one run per key, `tasks.json` | run, create, update, remove | double starts, lost updates |
| Files (`files_*.go`) | trash records, saves under way | save (compare and swap), delete, restore | a file that changed meanwhile |
| Templates, recent groups, images | their files | save, change, import | as the device store |
| Machines (`machine_*.go`) | links, backoff, forwarded streams | dial, forward, reload, janitor | failure and retry |
| Command line (`cli_*.go`, `install_layout.go`) | service, versions directory | start, update, devices | interrupted updates |
| Terminal socket of the page (`pwa/src/hooks/use-term-socket.ts`) | generation, socket, timers, `stopRef` | connect, retry, hide, show, go on- and offline | a token or a close event for a connect that is over; the page hidden or offline meanwhile |
| Session list (`use-local-sessions.ts`) | list, session shown, reads under way, the pick | poll, pick, add, close | answers out of order, a pick not on the server yet |
| Files view (`use-files.ts`, `file-tabs.ts`) | root, tree, tabs | read, open, follow, close, switch | a listing of another root, unsaved changes of a tab that must go |
| Drafts (`use-files.ts`, `files-persist.ts`) | unsaved texts, what the browser keeps of them | edit, keep, rename, sign out | several pages on one storage, a sign-out, a write that fails |
| Changes view (`use-git-changes.ts`) | list of changes, tabs, links, what the user was told | poll, open, edit, stage | a poll sent before what it is applied after |
| Uploads (`use-file-uploads.ts`, `upload-file.ts`; `server/files_upload.go`) | the queue and its run; the one slot, temporary files | start, check, ask, send, cancel; take the slot, place | a lost answer, a Cancel at any await, a busy slot |
| Rest of the PWA | settings, chat, tables, previews | rendering | mostly none |

How they meet: a request is authenticated by a session or a device cookie, asks
for a stream token, and opens a stream with it; the hub asks the device and
session stores again under its own mutex. Whatever ends an identity first takes
it out of its store, then runs the closers: its stream tokens, its streams (the
linked hubs first), the codes it made, its push subscriptions. The device store
is shared with the command line through the file and `devices.lock`.

## Modules

| Module | Models | Role |
| --- | --- | --- |
| `StreamHub` | `server/stream.go`, the hub of `machine_proxy.go` | component |
| `MCStreamHub` | | an instance for TLC |
| `SliceLemmas`, `StreamHub_proofs` | | lemmas on sequences and on numbers, theorems |
| `DeviceRegistry` | what `device_store.go` promises | abstract specification |
| `DeviceStore` | `server/device_store.go` and its locks | component, refines `DeviceRegistry` |
| `MCDeviceStore` | | instances for TLC |
| `DeviceStore_proofs` | | theorems |
| `TokenStore` | `tokenStore` of `server/serve.go`: stream tokens, sessions, sign-in links | component |
| `TokenStore_proofs` | | theorems |
| `DeviceAuth` | what ends with an identity: codes, push subscriptions, time limits (`server/device_routes.go`, `device_pairing.go`, `push_store.go`) | component |
| `DeviceAuth_proofs` | | theorems |
| `HcChannel` | what a channel of `hc_conn.go` promises its reader | abstract specification |
| `HcConn` | `hcConn`, `hcChannel` of `server/hc_conn.go` | component, refines `HcChannel` |
| `HcConn_proofs` | | theorems |
| `TermSocket` | `useTermSocket` of `pwa/src/hooks/use-term-socket.ts` | component |
| `SessionPick` | `use-local-sessions.ts`: the list and the session shown | component |
| `FilesStore` | the view of `use-files.ts` and `pwa/src/utils/file-tabs.ts` | component |
| `DraftStore` | what the browser's storage promises of the drafts of all pages | abstract specification |
| `FileDrafts` | the drafts of `use-files.ts` and `utils/files-persist.ts` | component, refines `DraftStore` |
| `ChangesStore` | `use-git-changes.ts` | component |
| `FileUploads` | `use-file-uploads.ts`, `utils/upload-file.ts` and the upload of `server/files_upload.go` | component |
| `Page_proofs` | | theorems about `TermSocket` and `ChangesStore` |
| `Views` | | `SessionPick`, `FilesStore` and `FileUploads` together |
| `Views_proofs` | | theorems about `FileDrafts` and the components of `Views` |
| `MCEnds` | | `StreamHub` and `DeviceAuth` side by side |
| `MCServer` | | `StreamHub`, `DeviceStore` and `DeviceAuth` side by side, fair |
| `MCSafety` | | `TokenStore` twice, `HcConn`, `Views` and `FileDrafts` side by side |
| `MCPage` | | `TermSocket`, `SessionPick`, `ChangesStore` and `FileUploads` side by side, fair |
| `Identities` | | the devices and sessions requests run as |
| `Common` | | the value of what is not there, and a list without some of its elements |

The modules meet at the calls that end an identity: `DeviceStore` says when it
leaves the file and which of its own processes notice, `DeviceAuth` what is
then ended in one process and in which order, `StreamHub` that no stream of it
stays, `TokenStore` that its tokens go without disturbing the others' order.
The modules of the page meet the server only through requests and answers that
each of them models on its own: a stream that is evicted or ends (`TermSocket`),
a snapshot of sessions (`SessionPick`), a listing (`FilesStore`), a git status
(`ChangesStore`). `FileUploads` has both ends: the queue of the page and the
slot, the body and the name at the server.

`MCEnds`, `MCServer`, `MCSafety` and `MCPage` hold several components that share
no state. Their variable `part` names the one whose behaviour it is; the others
stay as they begin, so the states of a run are the sum of its components' and
not their product, and an invariant of a component is checked in its own
behaviours.

### StreamHub

Each element of `Streams` is one run of `handleStream` (or of
`serveForwardedStream` on a linked hub). `pc` is where it is; between `locked`
and `capped` it holds its hub's mutex (`lock`), so `addFor` is a step per
question it asks a store: the identity may end between the answer and the
registration. `list` is `hub.streams`; `cause` is the cause its context was
cancelled with (the first one stays, as with `CancelCauseFunc`); `told` is how
its client learns of the end. `gone` are the identities whose store answers
that they no longer exist, `closedIn` the hubs whose closer has returned.

| Actions | Code |
| --- | --- |
| `Lock`, `AskDevice`, `AskSession`, `CapDevice`, `MakeRoom`, `Register` | `addFor` |
| `Attached`, `AttachFails`, `ClientGone`, `Recheck`, `Exits`, `Cancelled`, `Unregister` | `handleStream`, `runStream`, `recheck`, `remove` |
| `MarkGone`, `Close` | an identity leaves its store; `closeDevice`, `closeSession` |
| `ShutBegin`, `ShutDone`, `ShutLate` | `shutdown` |

Not in it: the bytes, sizes and visibility of a stream, and the token (a client
is the pair of identities and the role `handleStream` computed). `CloseFrame`
gives each cause the close code the client acts on, not its text.

### DeviceStore

A process is a server or a command line. `file` is the set of records, `stamp`
stands for the modification time and size (each write gives a new one), `by`
and `gen` are the two fields of a record that decide anything here. A change
goes through `TakeLock`, `Read`, `Write` and `Return`, with `LockTimeout`,
`Fail` and `Crash` as its other ends; `Return` covers both outcomes of the read
back. A lookup is `Reload` and `Reloaded`: it holds `mu` but not the file lock,
so writes of other processes may fall between its read and its stat.
`FlushUses` is the write a lookup makes when it can have all locks at once.
`handed`, `lost` and `swept` are history: the devices handed to
`deviceAuth.end`, the ones a process found gone, the creators whose devices were
revoked with them.

`DeviceRegistry` is what the processes promise together: a device is paired once
and for ever under the creator its record names (`by`, `gen`); when the creator is
a device, that one is paired itself, under the same password, at the step that
adds the new one (the parent of `device_store.go:463`); no password has more than
its limit. Its `paired`, `by` and `gen` are `file`, `by` and `gen` of
`DeviceStore`. Whether a session that pairs is still signed in is memory of one
process and no part of the registry: `SweptPairNothing` is about that.

Not in it: names, hashes and time limits (`DeviceAuth` has those); a store whose
file system cannot lock.

### TokenStore

`held` is the map of tokens, `order` the slice of the capped store, kept as
`ahead`: for each token of the order, the tokens that come before it (sets
compare as the slice does and need no recursion). `Put` is the whole of `put`:
the expired tokens go, then the oldest of a view-only device at its cap, then,
when the store is full, the oldest view-only token for a view-only newcomer and
the oldest of all otherwise, and a view-only newcomer finds no place among full
tokens. The loop of the code is one round here: the order never holds more than
`MaxTokens` tokens, which is an invariant that is proved (`OrderBounded`) and not an
assumption. `Check` is `validate`, `consume` and `check`, with the move of a
session in use to the end of the order. `lastPut` (what the last put took) and
`since` (the tokens put or used after one) are history.

Not in it: the clock (any token may expire at any call), the locks (each method
is one critical section), and who calls it.

### DeviceAuth

One server process. A routine is a goroutine: a request, the callback of the
timer, or the one a reload starts; its `job` says where it is and what it has in
hand, read before and used after the locks it lets go. Codes go from `AskCode`
(a request, authenticated and its limit cut) through `AskCreator` (`create`
holds `codes.mu` and asks the stores) and `MakeCode` to `Redeem` and `Pair`.

| Actions | Code |
| --- | --- |
| `AskCode`, `AskCreator`, `MakeCode`, `Lapse`, `Redeem` | `pairValidity`, `create`, `sweepLocked`, `redeem` |
| `Pair`, `ChangeFails`, `Repair` | `deviceStore.add` and the end of the pair handler |
| `RevokeDevice`, `Reload`, `Sweep` | `revoke`, `revokeCascade`, `maybeReloadLocked`, `revokePairedBy` |
| `SignIn`, `SignOut`, `RevokeGone`, `EndSession` | `sessionAuth.start`, `remove`, `end`, the sign-in routes |
| `NextToEnd`, `EndCodes`, `EndPush` | `expire` and `end`, one closer at a time |
| `Fire`, `ListExpired`, `Rearm`, `Cookie` | `arm`, `checkExpiry`, `deviceCookie` |
| `Subscribe`, `AddSub`, `DropSub` | the subscribe handler and `pushStore` |
| `Restart` | the boot in `buildServerWith` |

A change of the device store is one step that arms the timer under the store's
lock, made or failed. `Reload` with no device gone is any change that only arms
the timer again (a recorded use, a device of another password). `stray` is
history: the subscriptions added once their device was revoked, and those whose
removal was not saved.

Not in it: tokens and streams, which `end` closes between the store and the
codes (`TokenStore`, `StreamHub`); the caps of devices (`DeviceStore`) and of 20
subscriptions; devices another process pairs; devices whose revoke a change
reads in passing (`GoneIsEnded` of `DeviceStore`, finding 2); the rate limit.

### HcConn

A call goes from `Register` and `Request` through `TakeReply` to `OpenChannel`;
`GivesUp` is its timeout, which `select` may also choose with the reply in the
buffer. `ReadFrame` is a turn of `readLoop`: `HandleControl` for channel 0,
`Route` for the others, with `early` the frames that came before the reply that
opens their channel, and `closing` the channels closed here whose `CLOSE` has not
come back. `Deliveries` are the frames held for a channel, delivered in their
order when its reply opens it. `CloseChannel` and `Detach` are the two critical
sections of `close`, `Fail` and `Lose` the two halves of `fail`. A step is what is
done under one mutex, but `route` and the `deliver` to the channel it found are
one: between them only that channel may be closed or told of the loss, and neither
takes back what is then delivered. `HcChannel` lets a frame be given after the
loss, so that its promise does not rest on this. The core is external: it answers
each request once, may send frames of a channel before the reply, and closes a
channel on its own or when asked.

### TermSocket

The page has one thread: each callback, event and effect is one step. Each
`connect()` is an element of `Connects`; `cur` is the one whose generation is
`genRef.current`, so the test `gen === genRef.current` is `c = cur`. `conn` says
whether its token is on its way, its socket opens or is open. `lost` are sockets
whose connection died without an event, as a phone leaves them when its network
changes.

| Actions | Code |
| --- | --- |
| `Connect`, `Teardown`, `TokenArrives`, `TokenFails`, `RetryFires`, `StartTimeout` | `connect`, `teardown`, `scheduleRetry`, the start timer |
| `Opens`, `Output`, `ExitFrame`, `CloseEvent` | the handlers of the socket |
| `Render`, `KeyEffect`, `PaneSeen`, `Draw`, `Reconnect` | the effects and what the hook returns |
| `Hide`, `LongHidden`, `HideTimerFires`, `Show`, `Offline`, `Online` | the listeners of `visibilitychange`, `offline`, `online` |

### SessionPick

`reads` are the snapshot reads under way in the order they were sent: `taken` and
`snap` once the server has answered, `fresh` while no pick was made since
(`selectionVersionRef`), `old` once a later one was applied (`readSeqRef`,
`appliedSeqRef`). `picks` are the requests to show a tab, `op` the one operation
(a new tab or group, closing one or a group) that waits. `lag` is what a
multiplexer does to a group it just made: the next reads may not list it yet,
which is why the code counts three misses (`pendingGroupRef`). `mode` is the
backend's: one current tab for all clients, or a choice of each device. `want`,
`closed` and `landed` are history: what the user chose last, the tabs closed here
whose reading after the close was applied, and what became on the server of the
last tab chosen there (asked for, switched to, or no longer what it shows). The
session a first load that failed shows instead is on no server and in no list: it
is the tab `None`, and nothing is added to its group. `GroupSeq` names every group
that has a tab once, in the server's order.

Not in it: panes of a tab, moves, renames, worktrees, what is stored on the
device, view-only devices, several operations at once.

### FilesStore

The state of one pane's store: `root` and `place`, the tabs with their root,
path, pin and trail of links (`back`), the root each shown directory was read
under (`listing`), and `asked`, the tabs with unsaved changes of an earlier root
that the user is asked about (`pendingRootClose`). A read of the tree is in
`treeReads` with what is done with its answer. The server's folder of the pane
may move, and a Place may go, between any two steps.

| Actions | Code |
| --- | --- |
| `ReadDir`, `Start`, `TreeAnswer` (`Listed`, `Conflict`, `PlaceLost`, `ReadFailed`, `Dropped`) | `load`, `toggle`, `refresh`, `follow`, `followInFiles`, `created`, `reveal`, and what each does with its answer |
| `OpenByUser`, `OpenFromFind`, `Activate`, `GoBack`, `Close`, `ResolveRootClose` | the methods of the store, with the rules of `file-tabs.ts` |
| `Edit`, `EditElsewhere`, `Settle`, `Renamed`, `PickSource`, `MoveTo` | `setDraft`, `fileRenamed`, `switchTo`, `openPlace`, `moveTo` |
| `PaneMoves`, `PlaceGoes` | external |

A read may be sent before any root is known (`load`, `refresh`, a link of
`followInFiles`): it names none, so the server answers with the root it has then
and no conflict. `movedEarly` is history: the pane moved under such a read.

A tab takes an id that no tab has and no read names: the code counts its ids up
for ever, here one that is free is used again. `Ids` is so a bound of the model,
as `MaxOpen` is: with no id free (`FreeIds`) no tab is opened.

Not in it: what a directory holds, open directories of the tree, scroll offsets,
recent files.

### FileDrafts

The pages a browser has open on one pane, each with its drafts, and the storage
they share. A handler of a page is one step; what one page writes or removes
reaches the others later as storage events, in order (`coming`). `mark` is the
counter a sign-out bumps, `markOf` what a page knows of it: a page that has not
heard of a sign-out finds out when it writes. `latest` is history: the text the
last change of a file's draft left. The edits of a page that was signed out are not
counted in it: such a page may store nothing, and what it shows is its own.

`DraftStore` is what they promise together: of a file the storage has the text its
draft was last made, by a page that is not signed out, or none (`Make`), it may be
emptied at any time (`ForgetAll`), and after a `SignOut` only a page opened since
is one of the `writers`. It has no events, marks or failed writes: `stored` is the
text of `disk`, and a writer is an open page whose mark is the storage's.

Not in it: other panes, expiry, focus windows; the size of a draft (a write may
be refused or be too large at any time).

### ChangesStore

A poll is sent, read by the server and answered in three steps, with `again` the
one more that a request during a poll asks for. `tabs` are diffs or editors of a
file's side; `acting` is the stage, unstage or discard under way. `expected` are
the sides the user's own action will take off the list, `seenBy` those the poll
under way was sent after, `notice` the sides the last poll reported as gone.
`link` is a link to a side that waits for the first list. `own` is history.

Not in it: pins and the order of tabs, sensitive files, backoff, the tabs kept
on the device.

### FileUploads

One run of the queue at a time: `inHand` is the file `one()` has, `doing` what
it awaits (the check, the ask, the wait for the slot, the bytes, the look at the
folder after an answer was lost, the second check). `upload` is each file's
request at the server, which goes on when the page no longer listens; `slot` is
`uploadSlots`, `folder` what is at each name and its numbered ones. A file stands
for its name and size. `fate`, `savedAs`, `stopped` and `totals` are history:
what a run tells of its files, and which ones a Cancel was meant for.

| Actions | Code |
| --- | --- |
| `StartUploads`, `TakesNext`, `Continue`, `EndsAs`, `AfterSave` | `startUploads`, `run`, `runQueue`, `filesUploaded` |
| `Checked`, `AnswerAsk`, `SlotTaken`, `WaitOver`, `Sent`, `Replied`, `Lost`, `Looked`, `CheckedAgain` | `one`, `confirmUpload`, `landed` |
| `Cancel` | `cancelUploads`, at each await |
| `Received`, `Placed`, `NotPlaced`, `CheckAnswers` | `handleUpload`, `writeUpload`, `placeUpload`, `checkUpload` |
| `BytesGo`, `OtherUploads` | external: the browser's network, other devices and programs |

Not in it: progress and wording, folders in a drop, what a root that moved does
to the view (`FilesStore`).

## Runs

| Run | Question | Bounds |
| --- | --- | --- |
| `ends` | what a device or a session holds in one process. Streams of full and view-only clients, tokens of one identity used by another: nothing outlives its owner, the list is what runs, the limits hold, a view-only stream pushes out no full one of another client, a shutdown leaves none. Time limits and subscriptions whose save may fail: limits nest and are not forgotten, only strays stay. Codes: none outlives its maker | 3 streams on one hub of 2 places, or 2 and a linked hub of 1 place or a shutdown, 1 place for a view-only device, one identity that ends; 2 devices, 2 routines, a code, a clock to 2, or to 1 with a subscription and limits only, or none and a session |
| `server` | fair: closers, shutdown and the streams of an identity that is gone end on a hub and a linked one; a change ends where two processes of two passwords write one file, and keeps the other's devices; the codes of makers that are gone go | 2 streams, 1 place on each hub; 2 devices, 2 writes; 1 device, 1 session, 2 routines, a code, no clock |
| `hub_evicted_told` | finding 1 | 2 streams |
| `store_safety` | one file, two processes of one password: refinement, sweeps, lookups, what is gone stays gone | 3 devices, 1 session, 3 writes, at most 2 devices |
| `store_gone_ended` | finding 2 | 2 devices, 3 writes |
| `store_revoke_seen` | finding 3 | 1 device, 2 writes |
| `auth_expired` | finding 4 | 1 device, 2 routines, a limit of 1 |
| `pick_undone` | finding 5 | as `page` |
| `uploads_added` | finding 6 | as `page` |
| `socket_dead_kept` | finding 7 | as `page` |
| `safety` | the invariants of the token stores (single-use tokens of two view-only devices, a browser and Basic auth; and session tokens that move to the end), the connection to herdr-core, the session list, the Files view, the drafts, which keep the promise of `DraftStore`, and the uploads | 3 tokens, 2 places, 1 for a device; 2 calls with a frame on each channel, or 1 with 2; 3 tabs in 2 groups, 2 reads, 2 picks, 3 events; 2 roots, one a Place's, 2 paths, `MAX_TABS` 1, 1 tree read under way and 4 things done, or 2 and 3; 2 pages, 2 files of which one sensitive, 2 texts, no sign-out, or 1 of pages with drafts of the other file only; 2 uploads of one name through two roots, one sensitive, 2 names to try, 1 wait |
| `page` | fair: the terminal socket gets a socket again, the session list and the Changes view catch up, the uploads end; with the safety of the socket and the Changes view | 2 connects, 2 panes; 3 tabs in 2 groups, 2 events; 2 folders, a file changed on both sides and an untracked one, 3 changes; 2 uploads of one root, 1 name to try, 1 wait |

Why the bounds are enough: the hub's rules speak of at most two streams and the
place between them, so three requests reach every order of two that compete and
one that already runs; evicting needs one more request than places. Requests are
alike and come in one order (`HubBounds`, `InOrder`); a shutdown and a linked
hub meet two of them. One of the two identities ends: a close cancels the
streams of its own identity only. In the store, a wrong outcome needs a device,
one it paired and one redeemed meanwhile, and a write between the read and the
write of another process, that is three devices, two processes and three writes;
that a change of one password keeps the other's devices needs a write of each.
Three tokens fill two places and push one out, which may come back. In
`DeviceAuth` every hazard is a race of two routines over one code, one timer or
one subscription, so the longest clock, the subscription and the session have a
part each; lineage is one level deep (only full devices pair, and only view-only
ones), so two devices show it, and a limit of 2 lets a maker's time pass between
the request of a code and its use. The proofs then remove the bounds.
`MaxWrites` (stamps) and `MaxTime` (the clock) are the only bounds on behaviours
of these modules.

On the connection to herdr-core channels do not touch each other but through the
loss of all: one call with two frames (one before the reply and one after) reaches
every order of its channel, and two calls with a frame each reach the orders of
two channels that share the loss. In `safety` the Files view has one tree read
with four things done or two with three, and the drafts of a sensitive file have
no sign-out: two parts each, as both bounds together would take the run past the
minutes it has. The socket needs two connects: the current one and one whose token
or close event comes late. A wrong answer applied needs two reads: `MaxReads`
bounds those under way, `MaxPicks` the picks, `MaxEvents` the things users and
other clients do (each read and answer is free, so a behaviour is as long as it
likes), `MaxLag` the reads that may miss a new group. In the views, `MaxDone` and
`MaxChanges` bound what users and others do, `MaxTreeReads` the reads under way,
`MaxOpen` the tabs, `MaxTrail` the links followed from one tab; a file lost needs
a move of the root, a tab with changes, and one that takes its place. `MaxOuts`
bounds sign-outs, and `MaxUnread` the storage events a page has not read when
another one writes: it bounds how far a page lags behind, not what it misses. Two
uploads reach each rule on the rest of a queue and two files for one name;
`MaxSuffix` stands for the names tried and `MaxWaits` for the waits
`UPLOAD_BUSY_WAIT_MS` allows. Pages and texts are interchangeable (`SYMMETRY`, and
no temporal property but `[][A]_v` is checked with it).

Deadlock is not checked in the passing runs: every request may simply not come,
and a model with all its streams used, its writes made or its bounds used up stops.
Only `DeviceAuth`, which may always restart, stops nowhere.

## Fairness

`StreamHub!HubFairness`: a handler goes on (each wait it makes ends by a timeout:
`muxTimeout` for the attach, `streamPingEvery` for the recheck,
`streamDrainWait` for the drain), and a shutdown that began goes on. Nothing is
assumed of clients, of revokes, or of the start of a shutdown.

`DeviceStore!Fairness`: a change under way goes on (`devicesLockWait` bounds the
wait for the lock), and a server that runs keeps looking devices up (the pings
of its streams). Nothing is assumed of requests, starts or crashes.

`DeviceAuth!FairSpec`: a routine goes on. Taking `codes.mu` is strongly fair,
as a Go mutex is handed to a goroutine that has waited a millisecond. A timer
that stays due fires, strongly as it waits for no goroutine to be free.

`TermSocket!SocketFairness`: a retry fires, an effect runs, and a token that is
asked for again and again comes once (strong, for the current connect: the
server may be away for any time, but not for ever). Nothing is assumed of
sockets, of the user, of the page being visible or of the network.

`SessionPick!PickFairness`: the timer fires, the server answers, a read that is
asked for again and again is not lost each time. `ChangesStore!ChangesFairness`
is the same for polls, and only while nobody changes anything. `MCPage` states
both again for the behaviours of their part, and `MCServer` those of
`StreamHub!HubFairness`, `DeviceStore!Fairness` and `DeviceAuth!FairSpec`.

`FileUploads!UploadsFairness`: the page goes on (a request is answered or lost, a
timer fires, the user answers the ask) and the server is done with an upload
(`uploadIdleTimeout`, `uploadMaxDuration`). The slot may be another's each time
it is asked for, and the network may fail each time.

The components of `safety` are checked without fairness: nothing in them waits
for what the code promises to do.

## Properties, and what could break them

Several properties are conjunctions of named parts; the parts are in brackets.

- Hub: `NoStreamOutlivesItsOwner`, `ListIsWhatRuns`, `HubBounded`,
  `ViewEvictsOwnOnly`, `ShutdownIsFinal`, `HubsSettle` (`StreamsEnd`:
  `GoneStreamsEnd`, `ShutdownReturns`). `HubBounded` bounds the streams of a
  device only if it asked for nothing but view-only ones (`OnlyViews`): the
  count of `addFor` takes the full ones of the device in, so one that also has
  those may keep more view-only streams than its limit. It takes four streams to
  see that, one more than `ends` has; the attempt to prove the bound for every
  device showed it. `ViewEvictsOwnOnly` says "of another client": a full device
  that uses a view-only token loses its own oldest full stream, which is how the
  code means it (the role of a stream is its token's).
- Store: `Implements` (refinement of `DeviceRegistry`: a device is paired only
  under one still there, and within the limit), `SweptPairNothing`,
  `GoneStaysGone`, `OthersKept`, `WritesSettle` (`ChangesEnd`).
- Tokens: `WithinCaps` (`HeldIsOrdered`, `TokensBounded`), `PushedOutFairly`
  (`ViewTakesViews`, `LeastRecentFirst`, `RefusedTakesNothing`).
- End of an identity: `NoCodeOutlivesItsMaker`, `CodesSettle` (`GoneCodesGo`),
  `LimitsHold` (`LimitsNest`, `NoLimitForgotten`), `OnlyStraysStay`. The last
  one also says what the code does not promise: a subscribe request that was
  authenticated before its device was revoked adds its subscription after `end`,
  and it stays until the next start (`push_store.go:311`, `serve.go:535`).
- hc: `FramesWhole` (what a channel got is the frames 1 to n, and what is still on
  its way the ones after n), `Promised` (refinement of `HcChannel`), `NoOrphan`,
  `NothingWaits` (`LossIsTold`, `ClosingEnds`). `NoOrphan` leaves out the calls
  that gave up with their reply in the buffer (`dropped`).
- Socket: `OneStreamOfThePane` (`OneSocket`, `RightPane`, `HiddenHoldsNothing`),
  `VisibleTold`, `DeadOnlyIfAway`, `EvictedStays`,
  `SocketSettles` (`NeverStranded`). `away` is
  history of what happens to the page, not of what the hook does: it was hidden
  during a part of the time the network was gone. Without that exception the
  property is `DeadReplaced`, which does not hold (finding 7).
- Session list: `RepliesUndoNothing` (`ClosedStaysGone`, `KeepsPick`,
  `KeepsSharedTab`) and `SessionsSettle` (`ChoiceShown`, `CatchesUp`). Where the current tab is shared, `KeepsSharedTab`
  says that a pick the server made and answered is taken back by no reply; from
  the moment of the pick this is `PickStands`, which does not hold (finding 5).
- Files view: `OneRoot` (`ListingOfRoot`, `SwitchEnds`, `AskedTabs`),
  `NothingDropped`. `OneRoot` leaves out the view between a move of the pane
  under its first reads and the first move noticed after it (`movedEarly`),
  where `ListingOfRoot` does not hold (see "Not modelled"). `NothingDropped`, as
  `NothingLost` of the Changes view, lets a rename only take the changes of that
  file to its new name.
- Drafts: `LeavingLosesNothing`, `StoredAsPromised` (refinement of `DraftStore`).
  `NoOldText`, `NothingBack` and `SecretNotStored`, the same of a state, are
  proved.
- Changes view: `LeftAreAsked`, `NothingLost`, `AnswersFit` (`NeverFlipsBack`,
  `QuietForOwn`), `ChangesSettle` (`LinkTaken`, `ListCatchesUp`).
- Uploads: `ToldIsTrue`, `CancelIsExact`, `UploadsSettle` (`UploadsEnd`). What a file is told of is
  where it is, or is not, whatever was lost. `CancelIsExact` is about what a
  Cancel does at once; that files added after it still go is `AddedStillGo`, which
  does not hold (finding 6).
- Types: `ViewsTyped` (of `SessionPick`, `FilesStore`, `FileUploads`) is checked
  and proved; those of the other modules are proved.

Each has a mutant in its module, a plausible mistake in one mapped definition,
that makes TLC report it.

## Findings

1. A stream evicted while it attaches is closed as a failed attach, so its
   client reconnects and evicts the other one in turn (`hub_evicted_told`).
2. A change that finds devices gone when it reads the file back ends nothing
   they hold (`store_gone_ended`).
3. A lookup can keep old records under the stamp of a newer file, and then does
   not see that revoke until another write (`store_revoke_seen`).
4. A device whose limit passed is not ended when a change, a reload or a
   recorded use arms the timer again before the timer of that limit fired, as
   after the host slept: `nextExpiryLocked` skips limits that passed. Its
   streams close at their next ping and its cookie is refused, but its push
   subscription stays (`auth_expired`). With the expired devices not ended yet
   counted among the next limits, the property holds.
5. A tab picked is shown, and a snapshot that was asked for after the pick and
   read by the server before it switched shows the old one again, where the
   comment says a snapshot must not undo the pick: `selectionVersionRef` is bumped
   at the pick and at its answer, and such a snapshot comes between the two
   (`pick_undone`). The next read shows the tab again.
6. A Cancel while the body of the answer to a second check is read makes that
   file failed and not canceled, the run goes on with a signal that is aborted, and
   files added after the Cancel are canceled too, where the comment says they
   still go (`uploads_added`).
7. A network that comes back while the page is hidden, for less than 30 seconds,
   leaves a socket that only looks open: `onOnline` forgets that the network was
   gone before it finds the page hidden. The comment says that both cases
   reconnect unconditionally (`socket_dead_kept`).

## Proofs

`StreamHub_proofs`, for any number of streams, hubs, devices and sessions and any
limits: `TypeCorrect`, `EndedForGood` (`NoStreamOutlivesItsOwner`),
`ListIsComplete` (`ListIsWhatRuns`), `ShutForGood` (`ShutdownIsFinal`),
`ViewHarmless` (`ViewEvictsOwnOnly`) and `LimitsHold` (`HubBounded`). None of
these is inductive by itself. The strengthening `IInv` adds that the mutex is held
by exactly the handler whose `pc` says so, that the list has no duplicates and
holds only streams of its hub, and what a handler may still believe: an answer
"alive" that is out of date is harmless only because the closer has to wait for
the mutex the handler holds. For `LimitsHold` a second invariant, `Counted`, says
how many places of the list a device has at each step between its cap and its
registration (`PlacesBounded`): the mutex is what makes a place that was free stay
free. The assumption is `HubAssumption`; the facts on `Append`, `RemoveAt` and
filters are in `SliceLemmas`.

`DeviceStore_proofs`, for any processes, passwords, devices, limits and number
of writes: `TypeCorrect`, `SweptForGood` (`SweptPairNothing`), `GoneForGood`
(`GoneStaysGone`), `OthersAreKept` (`OthersKept`) and `Refines` (`Implements`).
`IInv` says who may hold the lock and that what a change computed in `Read` is
still what the file gives when it writes; that a process's memory and what it is
reading contain no device it lost; and that no creator whose devices were swept
can still be accepted. For `Refines` it has that, from the read of an `add` to its
write, a creator that is a device is in the file, is of that password, and the
password has room (`ReadHolds`, `Lineage`). The assumption is `StoreAssumption`.

`TokenStore_proofs`, for any tokens, grants and caps: `TypeCorrect` and one
theorem for each of `HeldIsOrdered`, `TokensBounded`, `ViewTakesViews`,
`LeastRecentFirst` and `RefusedTakesNothing`, which `CapsAreKept` and `PaysFairly`
put together (`WithinCaps`, `PushedOutFairly`). `IInv` adds that `ahead` is a
strict total order of the tokens of the order (`Ranked`), that the order holds
at most `MaxTokens` of them and a device at most its share, and that whoever stands
behind a held token was used after it. That some token is the oldest of any set
follows from the well-foundedness of strict inclusion on finite sets. The
assumption is `TokenAssumption`.

`DeviceAuth_proofs`, for any devices, sessions, routines, places for codes and
limits: `TypeCorrect`, `CodesDie` (`NoCodeOutlivesItsMaker`), `LimitsNested`
(`LimitsNest`), `LimitsKept` (`NoLimitForgotten`), `LimitsStand` (`LimitsHold`,
both) and `StraysOnly` (`OnlyStraysStay`). `IInv` adds what a routine may have in
hand at each step (`JobsFit`), that who asked for the creator holds `codes.mu`
(`LockHeld`), that a creator gone since it was asked for is being dropped by
someone who has to wait for that mutex (`AskedStands`), and that no id is given
out twice (`IdsKept`, without which a new device could be the maker of an older
one). Steps are first summed up by what they do to the store, the clock and the
timer (`TimerSteps`), and by what they leave to do (`DroppingKept`,
`GoneIsDropped`). The assumption is `AuthAssumption`.

`HcConn_proofs`, for any number of calls and frames: `HcTypeCorrect`,
`ReadersKnow` (`LossIsTold`), `ClosingComesToAnEnd` (`ClosingEnds`),
`WaitsForNothing` (`NothingWaits`, both), `NothingOrphaned` (`NoOrphan`) and
`FramesArriveWhole` (`FramesWhole`). `IInv` says what may be on the way for a
channel and in which order (`WireFits`: nothing after its CLOSE, one reply,
nothing else with an error), what the core did at each stage of a call
(`CoreFits`), and what stands of the channel here (`ChannelFits`): in particular
that a CLOSE is held exactly if nothing more is to come, which is why a channel
opened from the held frames is either registered with its CLOSE still to come or
already ended. Facts on the sequence are derived once, for an item sent
(`Sending`) and for one read (`ReadingLeaves`, `ReadingFits`). `Ordered` adds that
the frames held for a channel are the first ones sent on it (`Held`) and that
those on the wire follow them (`RestComes`). What the channel has after the frames
held were delivered is a recursive function of their number; that it has the first
k after k of them is shown by the least number at which it would not (`LeastOf`),
induction being out of reach. `KeepsItsPromise` (`Promised`) shows that each step
is one of `HcChannel` or changes nothing that a reader or the core sees; it needs
besides that a channel is marked closed exactly while its call is past its close,
and that a channel to be told of the loss was told of nothing yet (`ReadersFit`).

`Page_proofs`, of `TermSocket`, for any number of connects and panes:
`SocketTypeCorrect` and one theorem for each of `OneSocket`, `RightPane`,
`VisibleTold`, `HiddenHoldsNothing`, `DeadOnlyIfAway` (`DeadIsReplaced`) and
`EvictedStays`, and `OneStream` (`OneStreamOfThePane`). `SocketIInv` adds that
while a connect waits for its token, or a socket is attached, nothing else can
open one: no other socket, no timer of a retry, no stop (`TokenAlone`,
`SocketAlone`); that a stopped stream is not retried (`RetryWanted`); and how a
socket that died is known (`LostAreSockets`, `DeadIsAway`: a dead socket of a page
never away during the outage is one of a page shown, without a network, that heard
it go). The assumption is `SocketAssumption`.

Of `ChangesStore`, for any folders, changed sides and numbers of changes:
`ChangesTypeCorrect` (`ChangesTypeOK`), `LeftTabsAsked` (`LeftAreAsked`),
`ChangesKept` (`NothingLost`) and `AnswersAreFit` (`AnswersFit`). `ChangesIInv` adds
that there is no tab before a list was read (`NoneOpenYet`), that an answer that
may still be applied is of the folder shown (`FreshIsOfRoot`, the generation),
and where a side that the user's own action took away stands (`OwnExpected`):
expected, or named by what the poll under way was sent after, or already off the
list. `NothingLost` needs more than that, as it speaks of single steps: what each
operation on tabs returns is a lemma (for a rename, that the changes are under the
new name: `RenamedTakesAlong`), and the theorem puts them together. The
assumption is `ChangesAssumption`: among the sides a diff may be of are both of
each path, or the one that is not staged.

`Views_proofs`, of `FileDrafts`, for any pages and files: `DraftsTypeCorrect` and
one theorem for each of `LeavingLosesNothing`, `NoOldText`, `NothingBack` and
`SecretNotStored`, `StorageIsRight` (`StoredIsRight`, the three together) and
`StorageKeepsItsPromise` (`StoredAsPromised`). `DraftsIInv` adds that what a page
takes for stored is stored, or that an event is on its way to tell it otherwise
(`KeptIsStored`), what the storage and the events hold (`StoredHasText`,
`EventsTyped`), and that a draft that may be stored has neither a sensitive name
nor a sensitive text (`DraftsOpenly`). That the storage keeps its promise is shown
step by step: a draft that is written, dropped or refused is a `Make` of
`DraftStore` (`KeepDraftAllowed`), and the editor and a rename come down to one
such write (`EditIs`, `EditAllowed`); a page that finds the sign-out of another is
a `ForgetAll`. It needs besides that no page has a mark that is still to come
(`MarksFit`), so that after a sign-out no open page is a writer. The assumption is
`DraftsAssumption`.

Of `FileUploads`, for any files, names, roots and names to try:
`UploadsTypeCorrect`, `UserIsToldTruly` (`ToldIsTrue`) and `CancelsExactly`
(`CancelIsExact`). Both are part of `UploadsIInv`, which adds that the queue holds
each file once and none that was told of (`QueueFits`), what is known of the file
in hand at each await (`HandFits`), what each request at the server may still do
(`SiteFits`: once the page does not hear of it, its file is saved, aborted or told
as unsure), and who was stopped (`StoppedFits`). That every run tells of each file
once is a count of a finite set. `UploadsAssumption` has that the files picked are
finitely many, as a picker gives them, and that no file and no path is "none".

Of `FilesStore`, for any roots, paths and numbers of tabs: `FilesTypeCorrect`,
`ViewIsOfOneRoot` (`OneRoot`) and `ChangesAreKept` (`NothingDropped`). `StoreIInv`
adds that no two tabs have an id (`TabsInv`), and of the reads under way
(`ReadsInv`) that one that may still be applied was sent for the place shown
(`ReadsAre`) and, unless the pane moved under the first reads, from the root shown
or from none with the same root to come (`RootsAgree`); that before the first
answer there are no tabs and nothing is asked (`NothingYet`); and that the note of
a picked source has a read to end it (`PickIsRead`). `FilesAssumption` does not
say that a tab always finds a free id (`FreeIds`).

Of `SessionPick`, for any tabs, groups and requests under way: `PickTypeCorrect`
and `NothingUndone` (`RepliesUndoNothing`), and with the two above
`ViewsTypeCorrect` (`ViewsTyped`). `PickInv` adds that a group has a current tab
exactly if it has tabs, on the server and in every snapshot (`Consistent`); that a
snapshot that may still be applied lists no tab closed by then or closed before
it was sent (`SnapsFit`, for which a read must be marked old when a later one is
applied); that a tab asked for was never closed here (`OpFits`); and that the
last choice is what this device picked (`ChosenIsPicked`). `LandedInv` adds, where
the current tab is shared, that once the server made the pick and while nobody
switches away it is the current one there, and that a read which may still be
applied after the pick's answer was taken after it was made. `PickAssumption` says
that the groups are those of the tabs, each listed once, and that "none" is no
tab, group or choice.

Every safety invariant and every action property of the runs is proved. Checked
by TLC only: the liveness properties (`HubsSettle`, `WritesSettle`, `CodesSettle`,
`SocketSettles`, `SessionsSettle`, `ChangesSettle`, `UploadsSettle`), which need
fairness, and the properties of the runs that show findings, which do not hold.

## Not modelled

Behaviours seen while modelling that a property leaves out, or a model does not
reach. None of them is checked here.

- `TermSocket`: a pane chosen while the page is hidden, after the hide timer,
  opens a stream that no timer closes (`HiddenHoldsNothing` speaks of the pane
  shown when the timer fired).
- `SessionPick`: two reads of an empty server may each make a first session; moves
  and renames have their own markers (`movingRef`, `renamedGroupRef`), and neither
  is here.
- `FilesStore`: two reads sent before any root is known (the first load and a
  refresh, or a link of `followInFiles`) bring two roots when the pane changes
  directory between them. The second takes the place of the root without
  `rootChanged` (`use-files.ts:370`), so `generation` is not bumped and the
  directories of the first stay shown under it, against the comment at line 298
  ("Bumped when the root moves"). The model reaches this (`movedEarly`), `OneRoot`
  leaves it out, and `ListingOfRoot` as an invariant of `safety` shows it.
- `FilesStore`: tabs kept from an earlier root make it possible to have a file in
  two tabs (a link back to it after the root returned), so no property says
  that it has one.
- `FileDrafts`: a page that is made view-only removes what is stored, and its
  count of what is kept stays (`wiped`): such a draft is left without a question.
  Storage events that cross leave the count of sizes inexact; a sign-out is one
  step.
- `HcConn`: a call whose time ends with its reply in the buffer leaves the
  channel open at the core (`dropped`). Credits are not modelled.
- `ChangesStore`: a tab is found by its side and not by its root; a poll answered
  before the action that it reflects tells the user of it; a link right after a
  first poll that failed is told "not listed".
- `FileUploads`: a try whose bytes all went and that was refused as busy leaves
  `canCancel` false while the file waits and is sent again, so the button is off
  then, where the comment at line 32 says it is off "once every byte went: the
  file is saved whatever Cancel does" (`canCancel` in the model). A file that
  landed is known by its name and size, as in the code, so another program's file
  of both counts as it.
- `use-agent-prompt.ts`: a poll under way when the last reader leaves sets the
  prompt again. `use-tasks.ts`: a list read before a run started, which holds an
  older run of its key, takes the place of the running one until the next read.
  Neither hook has a module here.

Parts that are not modelled at all:

- Rendering. Most of the PWA's lines are components, styles of editors,
  translations and previews, whose state is what they show; and request helpers
  (`use-mux-api.ts`) that turn an answer into a value. They hold no order to get
  wrong, and a model of them would repeat their text.
- What asks other programs and parses their answer: the tmux and Zellij
  backends, the agents' transcripts, system figures, Tailscale, Cloudflare, git.
- The operating system: pty, peer credentials, service managers.

## Plan

1. `StreamHub`, `DeviceStore` with `DeviceRegistry`, `TokenStore`, `DeviceAuth`,
   `HcConn`: modelled, checked and proved.
2. The page's `TermSocket`, `SessionPick`, `FilesStore`, `FileDrafts`,
   `ChangesStore`, `FileUploads`: modelled, checked and proved.
3. `HcChannel`, which `HcConn` implements, and `DraftStore`, which `FileDrafts`
   implements: checked and proved.
4. Next, components: the chat of the page, tasks, activity of
   agents, machine links, the trash, the versions directory, Zellij's slots,
   credits of herdr-core channels.
