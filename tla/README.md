# scenette — a TLA+ development

Scenette lets the members of a room arrange text, images, audio and video on a
canvas in the browser, and shows the arrangement in OBS through a browser source.
The backend is serverless: every WebSocket message, every connect and every
disconnect is an AWS Lambda invocation of its own over DynamoDB tables, so there is
no process that orders anything. What keeps the clients in step is a `seq` stamped by
the editing client, conditional writes, comparisons on arrival, and full snapshots
fetched on connect, after changes and every three minutes. Accounts, invites and media
uploads are HTTP requests of the same kind: several awaited calls, no lock, and a stop
possible between any two. This directory models that machinery, checks it with TLC and
proves much of its safety with TLAPS.

Paths below are relative to `src/`.

## 1. Inventory

| Component | State | Operations | Hard behaviour |
|---|---|---|---|
| **Assets table and asset messages** (`services/websocket-handlers/src/message.ts`, `roomState.ts`) | one row per asset: box, `hidden`, `visible`, `seq`, media attributes | `asset:add`, `move`, `resize`, `update`, `delete` | invocations interleave between the read, the conditional write and the broadcast; `seq` ties; `UpdateItem` creates rows; a failure after the write |
| **Broadcasts and snapshots** (`connections.ts`, `message.ts`) | messages on their way to a connection | `broadcastToRoom`, `sendTo`, `room:snapshot:request` | no order between broadcasts of different invocations, nor with a snapshot; loss on a drop |
| **Browser source** (`apps/browser-source/src/main.ts`, `render.ts`) | the shown assets, a settle timer, a fallback interval | apply a message, replace everything by a snapshot | messages overtaking snapshots; convergence |
| **Editor canvas** (`apps/control-ui/src/canvas.ts`, `main.ts`, `sidebar.ts`) | an optimistic copy, the gesture and the text session in progress, a trailing send, the last seq stamped | mouse and keyboard handlers, remote handlers, `setAssets` | optimism against snapshots and other editors; throttled sends of everything the copy says; a send while the socket is down |
| **Resilient connection** (`packages/ws-client/src/connection.ts`) | live socket, attempt in flight, retry and swap timers, `closedByUs` | `open` and its callbacks, timers, `stop` | any order of callbacks; a lost timer; leaks across a swap |
| **Connections table and presence** (`connect.ts`, `disconnect.ts`, `connections.ts`, `connectedUsers.ts`) | a row per connection; the members' list | `$connect`, `$disconnect`, clean-up on `GoneException`, joined, left, snapshot | two connections of one session during a swap; a broadcast before `$connect` has returned; a missed `$disconnect` |
| **Room settings** (`roomState.ts`, `sound.ts`, `streamPreview.ts`, `accounts/src/store.ts`) | volume and stream preview with a seq each, the key of the browser-source URL, in the room's row; two optimistic panels | the two setters, `getOrCreateRoom`, `getOrCreateObsKey`, rotation, deletion | two functions that may both make the row, differently; a panel that outlives the room it was in |
| **Room variables** (`roomState.ts`, `variablesPanel.ts`, `sidebar.ts`) | name, type, value, `createdAt`; list, canvas and card of each page; masked steps | set, delete, rename, queued steps | writes carry no seq; a read before the write; a mask that waits for an echo |
| **Accounts, sessions, invites** (`services/accounts/src`) | users, sessions, memberships, rooms, invites | register, verify, log in, change password and e-mail, invite, redeem, revoke | checks and writes in different calls; one-time tokens |
| **Account deletion** (`cascade.ts`) | all of the above | the cascade | a stop between any two of its steps; requests that write behind its back; the name registered anew |
| **Media storage** (`upload-url`, `retention-job`, `message.ts`) | S3 objects, rows that name them, the quota | presign, fetch from a URL, add, duplicate, delete, retention | a duplicate added while the object is deleted; two deleters; quota races |
| **Playback and clocks** (`render.ts`, `canvas.ts`, `protocol/src/youtubePlayer.ts`) | the asset's playback fields and the player's own state | play, pause, loop, mute, stop, seek, the end of a clip | commands before a player is ready; asynchronous `play()`; messages without a seq |
| **Room sessions of the control UI** (`main.ts`, `upload.ts`, `roomPicker.ts`, `auth.ts`, `settingsModal.ts`) | the URL, the room shown, its connection, the settings modal, lists and uploads in progress | enter and leave by every way, save an address, upload, session poll | an answer that comes back after the user has gone on |
| **Selection, sidebar and properties** (`main.ts`, `sidebar.ts`, `canvas.ts`, `variablesPanel.ts`) | three selections, two copies of the objects | click, toggle, duplicate, delete, rename | components that agree by callbacks only |
| Access panel, text style; infrastructure (`infra/`) | none of interest | | |

How they interact: a client **sends** through its resilient connection; the gateway
**invokes** a handler; the handler reads and writes the **tables** (the only shared
state) and **posts** to every connection listed in the connections table; the posts
reach the other clients in any order. Nothing calls back into a handler. A client asks for a
snapshot whenever a socket opens, 3000 ms after the last seq-guarded message it
received (the settle timer), and every three minutes.

What makes each component correct:

- *assets table*: a row only moves forward in `seq`; one seq is accepted once; a
  deleted asset stays deleted; `visible` says what the box and `hidden` say;
- *overlay*: shows only what the table accepted, and ends up equal to it unless a remnant
  of a deleted asset stays in the table;
- *canvas*: never taken back by old news, its optimism is bounded by edits on their
  way, and it ends up equal to the table once the hands are off, unless an edit was lost or
  a remnant stays; what was typed last is kept;
- *connection*: no leaked socket, an unbroken retry chain, a swap always to come,
  `stop()` final, recovery;
- *presence*: no more rows without a connection than calls that failed, and a list that ends
  up equal to the rows;
- *settings, variables*: settings are registers, `createdAt` survives edits, a key that was
  handed out works; a panel is ahead only by an edit on its way, takes nothing from one
  room into another, and agrees with the room in the end;
- *accounts, invites, cascade*: one owner per verified address, one use per token, no session
  that outlives the password it was opened with, nothing left behind by a retried deletion;
- *media*: an object goes only when no row names it, and does not stay when none does; the
  quota is exceeded by one file at most, but for the races that are named;
- *playback*: a clip that has ended stays ended, Stop rewinds every screen, and in the
  end each player does what the row says;
- *page*: one live session, the view of its URL, uploads in no room but their own, one
  selection.

The hazards, each at its line and with the properties that answer it, are listed in
`PROJECT.json`.

## 2. Modules

```
SeqRegister (abstract) <-- implemented by AssetStore and, twice, by RoomTable

AssetStore --> RoomChannel --> OverlaySync      ResilientConnection --> Presence
          |               \--> CanvasSync
          \--> AssetVisibility

RoomTable   MediaStorage   Accounts   AccountDeletion         (the backend's other tables)
TextEditing  SettingsPanels  VariablePanels  EditorSelection  RoomSessions  Playback    (pages)
```

`-->` is EXTENDS. The theorems are in modules whose names end with `Proofs`: `AssetStoreProofs`
(AssetStore, AssetVisibility), `RoomTableProofs`, `RoomBackendProofs` (MediaStorage, and
`MCRoomBackend` as a whole), `AccountsProofs` (Accounts, AccountDeletion), `SessionsProofs`
(RoomSessions, Presence), `ClientsProofs` (ResilientConnection, EditorSelection,
SettingsPanels, VariablePanels), `BrowserSourceProofs` (OverlaySync, Playback) and
`CanvasSyncProofs` (CanvasSync, TextEditing). The modules whose names begin with `MC` are
what TLC runs; `MCConvergence` is CanvasSync at two sizes. Six of them put several components
in one run:

| Module | Components |
|---|---|
| `MCRoomBackend` | AssetStore (with AssetVisibility), RoomTable, MediaStorage |
| `MCAccountsBackend` | Accounts, AccountDeletion |
| `MCClients` | ResilientConnection, EditorSelection, VariablePanels, SettingsPanels |
| `MCEditors` | CanvasSync, TextEditing |
| `MCBrowserSource` | OverlaySync, Playback |
| `MCSessions` | Presence, RoomSessions |

They are unions, not products: the variable `part` says which component a behaviour is
about, and the variables of the others keep their initial values. The components of a
union share no state that a property depends on, so the state spaces add up instead of
multiplying. Fairness is written out once more in these modules, each condition
restricted to its part: the fairness of a component that stands still must not be
required of the behaviours of another.

### The tables

**SeqRegister** is the abstract specification of every seq-guarded cell: empty or
filled with a record that has a seq; filled, advanced only to a strictly larger seq, or
cleared. It knows of no invocations, reads or messages.

**AssetStore** is the assets table and its writers. `row` is the table; `job[h]` is what
invocation `h` has still to do. The code of a move, a resize or an update is two
steps with an await between them: `ReadMove`, `ReadResize`, `ReadUpdate` (the
`GetItem` and the computation of `visible` from what it returned) and `WriteRow` (the
`UpdateItem` under `attribute_not_exists(seq) OR seq < :seq`, `WriteWins`). The write
**upserts**: on a missing row it starts from `Blank`. A write that loses is
`DropStale`; a write that wins is followed by `Announce`. `asset:add` is `BeginAdd` (a
HeadObject is awaited) and `PutRow`; `asset:delete` is `BeginDelete`, `DeleteRow`.
`Abort` is the `catch` of the handler, possible at every await. Data: one axis of the
box, `hidden`, `visible`, `seq`, and "type" for all attributes that only `asset:add`
writes; absent attributes are `Missing`, and arithmetic on them is false as JavaScript's
comparison with `undefined` is. The history variables `added`, `deleted`, `accepted`
serve the properties and the guard that an id (a fresh UUID) is added once.

**AssetVisibility** is a history of AssetStore's reads: an invocation is `outdated` when
its row has got another box or another `hidden` since it was read, and an asset is
`skewed` while its last write was one of an outdated invocation. The condition of the
write compares seqs and does not see that; `VisibleIsRight` says that otherwise the flag
always is what box and `hidden` say, and hence that the next write repairs it.

**RoomTable** is one room's item and everybody who makes or changes it: the handler's
`getOrCreateRoom` (a read, then a conditional Put: `ReceiveMessage`, `CreateRoom`), the
two settings (`WriteSetting`, or `DropStaleSetting` when `SettingWins` fails),
`setVariable` (`ReadVariable` keeps the `createdAt` it has read, `WriteVariable` writes
it, whatever the entry has become), `deleteVariable`, the accounts service's
`GetOrCreateObsKey` (`if_not_exists`) and `RegenerateObsKey`, and `DeleteRoomRow`. An
`UpdateItem` on a missing item makes one without a viewport and without variables; then
variables can never be set in it (`FailVariable`: the document path is invalid).

**MediaStorage** is the objects in S3 (`stored`), the rows that name them (`placed`) and
everybody who decides from the one about the other. An upload is admitted under the
quota (`Admit`), put by the client or by the Lambda, and ends in the room that is shown
*then* (`PlaceUpload`), which accepts keys of its own prefix only (`AcceptsKey`). A
duplicate takes its key from the page's own copy of an asset (`copies`), whose row, or
whose object even, may be gone (`DuplicateAsset`). An
`asset:delete` is `ReadForDelete`, `DropAssetRow`, `CheckReferences` (the query for other
rows with the key) and `EraseObject`; the retention job scans row by row (`ScanRow`), and
deletes rows and objects from what it has seen (`SweepRow`, `SweepObject`). Every
invocation, and the job, may stop anywhere.

**Accounts** is `services/accounts`: the tables of accounts, verification links,
memberships (`role`) and invites, and `job[h]`, what invocation `h` does at its next
await. A request (`Register`, `ChangeEmail`, `Resend`, `Verify`, `Redeem`, `Revoke`)
does its first reads and starts an invocation; each later call of the handler is an
action named after it. `GET /auth/verify` is `Verify`, `ReadAccount`, `CheckOwner`,
`MarkEmailVerified` (conditional: the first time a room is assigned), `PutOwner`,
`DeleteVerification`; redeeming is `Redeem`, `RedeemInvite` (conditional),
`ReadMembership`, `PutMod`; revoking is `Revoke`, `DeleteMembership`. Creating and
deleting an invite reads an owner's row, which nothing in this module takes away
(part of `OwnershipIsKept`, proved), so each is one step. The mode without verification
mails (`SKIP_EMAIL_VERIFICATION`) may change from one deployment to the next, hence from
one invocation to another. `Fail` is an invocation that stops at any await.

**AccountDeletion** is the other half of that service: one name with a room of its own,
its sessions (`CreateSession`, `TouchSession`, `Logout`), the change of a password
(`UpdateAccountPassword`, `RevokeSessions`, then the listed sessions one by one) and of
an address, and `deleteAccountCascade`: `ListMemberships`, the walk over the rooms
(`ListRoomAssets`, `ListInvites`, `ListMembers`, `EraseRoom`), `ScanSessions`,
`ScanLinks`, `EraseAccount`. Each list is read when the one before it is done, and its
rows go one at a time (`EraseListed`), while other requests run, guests join and assets
are added through connections that outlive the membership. `Stop` ends an invocation
anywhere; the name may be registered anew.

### Synchronisation

**RoomChannel** adds to AssetStore what one client receives: `net`, the broadcasts under
way to it (a set: delivered in any order), `snap`, its snapshot requests (each is asked,
answered by one Query, and delivered, overtaking anything), the settle timer,
`connected`. A drop loses what was under way. Broadcasts go to the connections of the
moment (`Publish`).

**OverlaySync** is RoomChannel with the renderer: `asset:moved/resized/updated` apply
if `seq >=` the entry's, `asset:added/deleted` apply always, a snapshot replaces
everything (`ReplaceAll`). A remnant (a row without a type, see `asset_store_remnant`) makes
`createElement` throw, and the resilient connection drops what a handler throws: the rest
of the snapshot is not applied and nothing is removed, while the element of an asset that
the screen still held is gone already (`StopAtRemnant`, `undrawn`).

**CanvasSync** is RoomChannel with an editor: `MouseDown`, `MouseMove` (an optimistic
change, with or without a throttled send), `MouseUp` (always sends), the numeric
fields and patches, the text session (`BeginInlineTextEdit`, `Keystroke`,
`TrailingSend`, `Blur`), the seq it stamps (`StampAndSend`; without a socket the
message is dropped and the entry keeps the seq, as in the code), the remote handlers
with the guards they have (`Ignores`), and `setAssets` (`Keeps`, `ApplyAll`). A remnant
stops a snapshot here too, where there is no entry to put it in, or where the entry is a
clip, whose volume it lacks (`StopAtRemnant`); and such an entry makes the numeric fields
and patches throw before they send (`SetFieldsThrows`). Its messages are `requests`, taken
by invocations in any order, or refused because the connection has no row or no user name
(`RefuseRequest`, which counts as an abort). The other editors are RoomChannel's `Edit`.

**TextEditing** is one text asset under several editors, at the level CanvasSync leaves out:
which *attributes* survive. A copy has the text and a style (which stands for everything
else an update may carry); `TypeText` changes the copy and sends it whole, at once or when
the throttle lets the trailing timer fire (`ThrottleEnds`, `TrailingFires`), `EndTextEdit`
flushes what waits, `PickStyle` sends the style only and `Nudge` (a move or a size)
neither. All carry seqs of one clock per editor; `ProcessPost` and `RefusePost` are the
conditional write, in any order; `HearLetter` and `TakeDigest` put what arrives into the
copy that the next send is made from. Its handler is one step and its rows are never
deleted: those races are AssetStore's.

**ResilientConnection** is the class of that name, one action per callback, timer and
method. A socket is free, connecting, open or closing (its `onclose` is still to
come). Delays are abstracted: an armed timer may run out at any time. `LoseRetryTimer`
is the host dropping a pending timer, which the file's header comment names as the
reason for the watchdog.

**Presence** composes ResilientConnection with `$connect` (`PutConnection`,
`AnnounceJoined`, or `FailConnect` between them), `$disconnect` (`DeleteConnection`,
`AnnounceLeft`, or `MissDisconnect`), the clean-up of a connection that a broadcast
found gone (`SweepGone`), and the list another member sees. A socket opens only when
its `$connect` has returned. API Gateway is external: what it does is taken from how
the handlers and their comments use it.

### The pages

**SettingsPanels** is the two optimistic panels over the settings: `sound.ts`, made anew
with every room, and `streamPreview.ts`, one object for all rooms (`EnterStudio` keeps
its state). Both stamp a seq above what they know (`NextSeq`), show their change at once
and send it (`Change`); broadcasts and the polls' answers apply if they are newer, the
*first* snapshot of a visit whatever it says (`ReceiveSnapshot`). The settings dialog
holds the channel it was opened with (`OpenDialog`, `SaveDialog`) and only the owner's
change is accepted (`MayChange`).

**VariablePanels** is the variables in one page: the list, the texts on the canvas, the
card; a quick step is shown at once and sent when its timer fires (`ClickStep`,
`StepTimerFires`), and masks its row against every other value until its own comes back
(`Reconciled`, `ReceiveUpdated`). A rename is a set and a delete that travel by
themselves (`RenameMessages`).

**EditorSelection** is what is selected on the canvas, in the sidebar and in the list,
the canvas's and the sidebar's copies of the objects, and the callbacks of `main.ts`
that are to keep them together, under messages and snapshots that come at any moment.
A duplicate is selected before the room has it (`Duplicate`).

**RoomSessions** is navigation: `showRoomView` (`ShowRoom`), `teardownCurrentRoom`
(`Teardown`), `showDashboardView` (`ShowDashboard`), the browser's buttons, the login form;
and the answers that arrive later: the room list (`ListArrives`), the owner's name
(`OwnerArrives`, which looks whether it is still wanted), the session poll (`PollSession`).
The settings modal opens from the dashboard and stays open, whatever the browser's buttons
show behind it; an address saved there shows the dashboard (`OpenSettings`, `SaveEmail`,
`RefetchArrives`). The result of an upload goes through the session there is by then
(`PlaceResult`); the handler places it (`AddArrives`), or the message is lost, refused
or fails (`AddIsLost`), of which nobody is told.

**Playback** is one clip on one screen, an editor's canvas or the browser source, with a
media element or a YouTube player that goes on by itself (`PlayOn`, `EndOnCanvas`,
`EndOnOverlay`), is brought in line with the asset (`Sync`: on every frame by the browser
source, with every change by the canvas), and whose `play()` mutes and is settled later
(`SettlePlay`, `RefusePlay`). Stop and seek are relayed, stored nowhere and carry no seq.

## 3. Runs

| Run | Question | Bounds |
|---|---|---|
| `room_backend` | Are assets and settings registers whatever the invocations do, is the visible flag right, when do remnants and bare rooms appear, does a handed-out key work, is `createdAt` kept, do objects and rows go together, is the quota kept? | assets: 1 asset, 2 invocations, 2 seqs, 2 positions, 2 widths, both hidden flags; room: 2 invocations, 1 variable, 2 keys, 2 seqs, 2 timestamps; media: 2 rooms, 2 objects each as large as the quota, 2 rows, 2 invocations and the job |
| `asset_store_remnant` | violation: a deleted asset stays deleted | 2 invocations |
| `overlay` | Does the overlay show only accepted state, and converge? Does a clip that ended stay ended, does Stop rewind, does playback converge? | overlay: 1 asset, 2 invocations, 3 edits, 2 seqs, 1 snapshot under way, 1 failed invocation, 1 drop; playback: 2 changes, stops or seeks, 1 fault, both screens and players |
| `canvas_safety` | Is the canvas ever taken back, or left ahead? Can the last text typed, or the last style picked, be lost? | canvas: 1 asset, 2 invocations, 2 edits of others, 2 seqs, 1 failed invocation or refusal; text: 2 editors, 2 texts, 2 styles, 2 strokes or lost messages, 2 seqs, 1 snapshot under way |
| `canvas_converges` | Does the canvas converge unless an edit was lost or a remnant stays? | 1 asset, 2 edits of others; either 1 invocation at a time and 2 seqs, or 2 invocations, 1 seq, 1 failure or refusal and 1 drop |
| `canvas_reconnect` | violation: a reconnect heals the canvas | 1 drop |
| `connection` | Sockets, retry chain, swaps, stop, recovery; one selection; masks, renames and panels ahead only for a reason; nothing of one room in another; do all panels converge? | 4 sockets; 2 objects, 2 keys, 2 orders, 1 failure; 2 variables, values 0 and 1, 2 touches, 1 failure; 2 rooms, 2 volumes, seqs to 2, 1 switch or drop |
| `connection_watchdog` | violation: the watchdog covers a lost retry timer | 4 sockets |
| `presence` | Rows without connections, convergence of the list; one live session, the view of the URL, uploads at home, a lapsed session is noticed | 3 sockets, 2 attempts, 2 faults; 2 rooms, 3 visits, 2 dashboards waiting for their list, 1 upload, 2 outages, 1 address saved at a time |
| `presence_wiped` | violation: an open connection has its row | 2 attempts, no fault |
| `accounts` | Does everyone keep and own the one room they were given, who can become a mod, do tokens end with password and account, is anything left of a deleted account? | 2 users, 1 address, 2 rooms, 1 link, 1 invite, 2 invocations; deletion: 2 tokens, 1 asset, 1 guest, 2 passwords, 3 requests, 2 at a time; any number of stops |
| `accounts_email` | violation: one owner per verified address | the same, 2 links |

What the properties of the union runs consist of. The type invariants (`BackendTypeOK`,
`PageTypeOK`, `ScreenTypeOK`, `VisitTypeOK`, `ServiceTypeOK`, `EditingTypeOK`) are the
conjunctions of the components'. `RowsAreSound` is `RemnantIffDeleted` and `VisibleIsRight`;
`KeyedItemIsKept` is `BareIffUpserted` and `HandedOutKeyWorks`; `RowsMatchObjects` is
`NoObjectMissing` and `NoObjectStray`; `SelectionAgrees` is `OneThingFocused`,
`SelectionShownUnlessDropped` and `SidebarInStep`; `EditsAreAwaited` is `MaskIsAwaited` and
`RenameLosesNothing`; `PanelsInStep` is `PanelsAheadOnlyWhilePending` and
`ChannelsStayHome`; `LastEditsAreKept` is `TypedTextIsKept` and `PickedStyleIsKept`;
`ConnectionHolds` is `NoOrphans`, `ChainUnbroken` and `SwapIsComing`; `OwnershipIsKept` is
`RoomIsKept` and `OwnerStaysOwner`; `PageConverges`, `ScreenConverges` and `VisitsSettle`
are the convergence properties of the parts.

**Exceptions are named, not assumed away.** Much of this code is right except under one
overtaking or one loss. The properties say which: `lateAdds` (a row put when somebody had
already decided to delete the object), `strays` (a failure half-way), `skewed` (a write
computed from a box changed meanwhile), `rushed` (uploads admitted
side by side, a size that could not be read, a duplicate of media whose last row is gone), `raced`
(an edit overtaken between read and write), `stranded`, `lostFor`, `unmatched` (a change
that was sent and never processed, or whose echo was lost), `hasty` (the owner acted before
the first snapshot), `crossed` (a room opened while a dashboard was on its way, or an address
saved over a room), the stage "lost" of an upload (its `asset:add` was lost or refused), `dropped`
(a snapshot without the selected duplicate), `overtaken`, `late`, `cut` (a request overtaken
by a password change, a row written behind a deletion's back, a stop in two places of the
cascade), `playedOn` (a stop that overtook its pause), `textExcused`, `styleExcused` (the
four accidents that TextEditing names: `Overtaken`, `Outrun`, `Overwritten`, `Undelivered`).
Each is set by the action in which the race happens; without it TLC finds the property
violated. The two convergence properties of the screens name a state instead: a remnant
that stays in the table (`Remnant`).

**Why the bounds are enough.** Assets share nothing (no handler reads one asset to write
another), so one asset shows every race; two invocations are what a read-write race needs,
and the seq ties and inversions need two seqs. The positions and widths lie on both sides of
the viewport's edges in the store's runs (one box just touches it); the synchronisation runs
need only that two changes with one seq differ, for which a seq and hiding (or not) do. Two
edits of others and one's own give every order of three writers, and a remnant: an add, a
delete, and a move that is written after it. (With two assets a snapshot that stops at the one
remnant may have applied the other row; that is beyond a short run for the convergence
properties, and proved for the safety ones.) With one snapshot slot a
timer whose request would be a second one under way waits, which only delays it. `net` is a
set and keeps equal broadcasts once: changes of one asset differ in their seq, so the only
equal pair is two `asset:deleted`, of which the second has nothing left to do unless a late
`asset:added` comes between them, and that order is one of the set's too (the merged message
may be the late one). Four sockets are a live one, an attempt and two whose close events are
late. Two attempts are one swap or one reconnect. In `accounts` two people compete for one
address and one invite and each may be given a room; three requests are a deletion, a login
or change beside it, and a registration after it. In the media part one row and its
duplicate, one object to be deleted and one to be uploaded meanwhile are what the reference
check can get wrong, and with two keys as large as the quota one upload too many is visible.
Two rooms and one switch are what state carried from one room to another needs; three visits
let a user come back to a room while an answer for the first visit is still under way. Two
strokes of two editors are an edit and what loses it, with texts and styles that differ.
More of everything is what the proofs are for.

**The constants** whose names begin or end with `Max...` bound counters in guards and
nothing else: `MaxSeq`, `RoomMaxSeq`, `PanelMaxSeq`, `TextMaxSeq` (clock values; a gesture
in CanvasSync starts only if a seq is left for its last send), `MaxBirths` (timestamps),
`MaxEdits`, `MaxOrders`, `MaxTouches`, `MaxTakes`, `MaxStrokes`, `MaxRequests`,
`MaxPasswords` (what people do), `MaxVisits`, `MaxDashboards` (navigation), `MaxNumber`
(values), `MaxAborts`, `MaxDrops`, `MaxAttempts`, `MaxFaults`, `MaxCuts`, `MaxGaps`,
`MaxBreaks`, `MaxOutages` (faults).

**Deadlock** is checked except where the system really stops: after `stop()`, when all
sockets are closed and no attempt is left, when a page has been left, and when a bounded
number of edits has been made and everything has arrived.

**Fairness.** Invocations that were started run and their replies arrive, an armed
timer and the intervals fire, frames are drawn, a `play()` is settled, a client that is not
connected reconnects; nothing is assumed of people, and faults never have to happen.
`Convergence` of the canvas presupposes that the editor lets go in the end and that no edit
is `Stranded` (see `canvas_reconnect`), and both screens' presupposes that no remnant stays
in the table. For the connection: armed
timers and close events come (weak fairness), and among infinitely many attempts one gets
through (strong fairness of `OnOpen`; without it no client could promise anything). A timer
that the host has lost is not armed, so `Recovers` is stated up to that loss.

### What the violations show

- `asset_store_remnant`: move reads the row; delete removes it; the move's condition
  holds because the row does not exist, and the `UpdateItem` creates an item with a
  box, `visible` and `seq` but no type or media. `RemnantIffDeleted` (proved) says
  that this is the only way such rows appear.
- `canvas_reconnect`: an edit made while the socket is down raises the entry's seq,
  `send` drops it, and `setAssets` refuses the older snapshot of the reconnect and
  every later one. The editor shows a state nobody else has. `Convergence` says that
  such a stranded edit, or a remnant, is the only thing that keeps a canvas from converging,
  and `AheadOnlyWhilePending` (proved) that none arises until the socket drops or an
  invocation fails or refuses a message.
- `connection_watchdog`: `retryTimer` is only reset in the timer's own callback, so a
  lost timer makes the watchdog's guard false for ever.
- `presence_wiped`: `connect.ts` leaves the new connection out of its *own* broadcast
  because posting to it would be a GoneException; a broadcast of any other invocation at that
  moment deletes the new row, and the session stays open without one.
- `accounts_email`: `getEmailOwner` and the write of `emailVerified` are two calls, and
  the write has no condition on the address. Two accounts with the same pending
  address whose links are opened at the same time both find no owner, both become
  it, and both are given a room.

### Differences without a run

They came up while modelling; the model contains them, most as the named exceptions
above.

*Tables.*
`visible` is stale when a move that read the row before an update of `hidden` is written
after it: `seq` orders the writes, not what they were computed from (`skewed`).
`markEmailVerified` does not look at the address: when it is changed between
`ReadAccount` and `MarkEmailVerified`, the new address counts as verified.
`message.ts:252-253` calls an object that nothing names a problem for the retention job,
but that job finds objects only through rows, so a stray object stays. The job
deletes rows as they were at its scan, also those used since.
A login whose `createSession` comes behind the cascade's scan of sessions leaves a token
that a later account of the same name inherits. A deletion that stops between the owner's
membership and the room's row leaves the room and its mods out of a retry's reach
(`cascade.ts:18-21` promises otherwise). The `UpdateItem` of a password or an address can
bring back a row of a deleted account. A connection outlives the membership it was opened
with, so a member can make the room's row again after a deletion.

*Synchronisation.*
`browser-source/src/main.ts:11-12` holds that a full-state re-fetch guarantees convergence.
While a remnant is in the table it does not: every snapshot ends at that row, where
`createElement` throws into the `catch` that `connection.ts:88-94` has for malformed frames.
An editor's page then also leaves the sidebar, the panels and the list of users as they were,
and a browser source the volume and the variables, which come after the assets in the same
handler; `PageConverges` is about rooms without remnants.
All sockets of a session carry one `(username, connectedAt)`, so `presence:left` of a
replaced socket removes the entry of its successor too, until the watcher's next snapshot.
The overlay needs the fallback interval even if nothing is lost, for a late `asset:added`
arms no settle timer. A remote resize moves an asset that is being dragged, and an editor
whose clock is behind another's stamps below what it shows; `canvas_converges` covers both
and shows that the canvas recovers.

*Text.*
`canvas.ts:916-917` holds that a text patch which is rejected is always redundant, because
each carries everything. It is redundant when a later *text* patch won; but a move or a
style change of the same editor that is processed first carries no text and makes the
patch stale, and then the row keeps the old text (`Outrun`). The echo of the last send
replaces keystrokes that wait for the throttle, since `applyRemoteUpdate` has no guard for
the text session and the seq is only raised by sending; a snapshot does the same to the
sidebar's textarea, which `setAssets` does not know of (`Overwritten`). And because a text
patch carries every attribute, it takes back whatever another editor changed meanwhile
(`Overtaken`).

*Uploads and rooms.*
`placeUploadedAsset` places through the session there is when the upload ends: an upload for
another room is refused by the handler, and one that ends while the socket is down is not
sent, though the indicator shows success; nor does it show that the message was lost, refused
or failed on its way. A late room list, or a session fetched anew, shows
the dashboard over, or in place of, a room opened meanwhile, while the URL still names the
room; so does an address saved in the settings over a room that the browser's buttons
brought behind them. A duplicate made from a page's copy brings media back whose row has been
deleted but whose object has not, without a look at the quota. If `listRooms` fails the
dashboard goes on saying that it is loading. A wrong current password in the settings is
answered 401 (change of password, deletion), which `auth.ts:35` takes for an expired session.

*Panels.*
An owner who changes the platform of the preview, or opens its dialog, between the opening of
the socket and the first snapshot writes the previous room's channel into the own room. Save
in a dialog left open across a switch to somebody else's room is not checked in the page and
refused by the handler, which leaves the panel ahead. The first snapshot may take the
preview back behind a broadcast that was applied already.

*Variables.*
The timers of quick steps survive the end of a session and then send into a stopped
connection. A confirming snapshot does not clear the mask, so after a lost echo the row
stays deaf. An older echo that happens to carry the stepped value clears the mask, and the
armed step is then never sent. Renaming there and back again can lose the variable.

*Selection.*
The selection of a duplicate is lost by a snapshot that does not have it yet, against
`main.ts:1121-1123`; because selecting it again returns early, its properties stay closed
until something else has been selected. A snapshot leaves the canvas's `selectedAssetId` at an
asset that is gone. Changes made on the canvas itself (media controls, inline text, the
end of a clip) do not reach the sidebar's copy until their echo.

*Playback.*
A stop that overtakes the pause it belongs to makes the clip play on from the start, against
`canvas.ts:746-751`. A seek back after the browser source's clip has ended leaves it paused in
the middle while the row says that it plays, though `messages.ts:158-163` calls a seek a
plain jump. An editor's local "ended" pauses everybody, also a playback restarted meanwhile.
The canvas's volume multipliers do not touch YouTube players. A mute the overlay is forced
into is undone by the next frame.

## 4. Proofs

All theorems are for any values of the constants that satisfy the named assumptions of the
component's module: that sentinels (`None`, `NoRow`, `Gone`, ...) are none of the data, that
bounds are numbers, that initial values are among the values; for AssetStore integer
geometry, for MediaStorage that there are finitely many rows (it counts them), for Presence
that at least one attempt is allowed. TLC evaluates these assumptions in the runs. None
assumes that an invocation finishes, that a message arrives, or any order between messages.
One theorem has a hypothesis of its own: `CanvasImplementsStore` asks that `Hiddens`, which
bounds what AssetStore's requests may ask for, is both flags, for an editor sends whichever
of them its copy has.

Six theorems are about the unions that TLC runs (`UnionSpec` of the `MC` module that the proof
module extends). **Every invariant and every action property of every passing run is
proved** there for all values of the constants; only liveness is not.

| Module | Theorem | States, of `UnionSpec` |
|---|---|---|
| `RoomBackendProofs` | `BackendInvariance` | `BackendTypeOK`, `RowsAreSound`, `KeyedItemIsKept`, `RowsMatchObjects`, `MediaStaysHome`, `QuotaExceededByOne`; `RowsAreSeqRegisters`, `SettingsAreRegisters`, `CreatedAtKept` |
| `AccountsProofs` | `ServiceInvariance` | `ServiceTypeOK`, `RoomIsOwned`, `ModsWereInvited`, `OldTokensEnd`, `NothingLeft`; `OwnershipIsKept`, `SessionsStayEnded` |
| `CanvasSyncProofs` | `EditorsInvariance` | `EditingTypeOK`, `AheadOnlyWhilePending`, `LastEditsAreKept`; `NeverBackwards` |
| `BrowserSourceProofs` | `ScreenInvariance` | `ScreenTypeOK`, `ShowsOnlyAccepted`, `EndedStaysEnded`, `StopRewinds` |
| `ClientsProofs` | `PageInvariance` | `PageTypeOK`, `ConnectionHolds`, `SelectionAgrees`, `EditsAreAwaited`, `PanelsInStep`; `StoppedForGood` |
| `SessionsProofs` | `VisitInvariance` | `VisitTypeOK`, `RowsHaveConnections`, `OneLiveSession`, `ViewMatchesUrl`, `UploadsLandAtHome` |

They rest on theorems about each component's own specification:

| Component | Theorems | State |
|---|---|---|
| AssetStore | `RowsStaySound`, `SeqNeverReused`, `StoreRefinesRegister` | `RowsAreSound`, `NoSeqReuse`, `RowsAreSeqRegisters` |
| RoomTable | `KeyedItemStays`, `BirthsAreKept`, `SettingsRefineRegister`, `RoomStaysTyped` | `KeyedItemIsKept`, `CreatedAtKept`, `SettingsAreRegisters`, `RoomTypeOK` |
| MediaStorage | `ObjectsAndRowsMatch`, `RowsNameOwnMedia`, `QuotaHoldsButForOne` | `RowsMatchObjects`, `MediaStaysHome`, `QuotaExceededByOne` |
| Accounts | `AccountsInvariance`, `InvitesAreSpentOnce`, `OwnershipIsFinal` | `RoomIsOwned`, `ModsWereInvited`, `OwnershipIsKept` |
| AccountDeletion | `NoTokenOutlives`, `NothingOutlives`, `EndedSessionsStayEnded`, `DeletionStaysTyped` | `OldTokensEnd`, `NothingLeft`, `SessionsStayEnded`, `DeletionTypeOK` |
| CanvasSync | `CanvasInvariance`, `CanvasMovesForward` | `CanvasTypeOK`, `AheadOnlyWhilePending`, `NeverBackwards` |
| TextEditing | `LastEditsStay` | `TextTypeOK`, `LastEditsAreKept` |
| OverlaySync | `OnlyAcceptedIsShown` | `ShowsOnlyAccepted` |
| Playback | `EndedIsNotShownAgain`, `StopPutsBack` | `EndedStaysEnded`, `StopRewinds` |
| ResilientConnection | `ConnectionInvariance`, `StopIsFinal` | `ConnectionHolds`, `StoppedForGood` |
| EditorSelection | `EditorInvariance` | `SelectionAgrees` |
| SettingsPanels | `PanelsStayInStep` | `PanelsInStep` |
| VariablePanels | `NoEditGivenUp` | `EditsAreAwaited` |
| RoomSessions | `SessionsAreExclusive`, `ViewIsOfUrl`, `UploadsAreHome` | `OneLiveSession`, `ViewMatchesUrl`, `UploadsLandAtHome` |
| Presence | `RowsGoWithConnections`, `PresenceStaysTyped` | `RowsHaveConnections`, `PresenceTypeOK` |

Five theorems say that a specification implements another:

| Theorem | Says |
|---|---|
| `StoreRefinesRegister` | every row of the assets table is a SeqRegister |
| `SettingsRefineRegister` | so are the volume and the stream preview of a room |
| `CanvasImplementsStore` | `CanvasSpec => Spec` of AssetStore: whatever an editor's copy makes it send, the handler's step is one AssetStore has |
| `OverlayImplementsStore` | `OverlaySpec => Spec` of AssetStore: a listening screen takes nothing from the handlers |
| `PresenceImplementsConnection` | `PresenceSpec => Spec` of ResilientConnection: the backend's rows never hold a connection up |

By the last three, what is proved of the table and of the connection holds in the modules
that build on them.

For each component there is an inductive invariant (`StoreInv`, `CanvasInv`, `PlayInv`, ...), a
theorem that the initial states satisfy it (`StoreInitInv`, ...) and one that every step keeps
it (`StoreNextInv`, ...), the latter from one lemma per action or group of actions with the
same effect. In a union every step is a step or a stutter of each component, and where the
initial state of a union lets an idle component rest in a state its own specification does not start
in (`RestingConnection`, `RestingPanel`), that state is shown to satisfy the invariant. What
the invariants need beyond the properties:

- *AssetStore*: `PutIsFirst` (while an add is under way its asset has no row and was
  never deleted), `RowsWereAdded`, `WritesHadRow` (a pending write or delete is of an
  asset that was added, for the handler read its row). Without the first, a `Put` could
  reset a row's seq to 0; without the others a write could create a row for an asset that
  never was. For the flag, an invocation that is not outdated holds the one its write
  will make true (`FlagsFit`). The refinement maps every step to a `Fill`, an `Advance`, a
  `Clear` or a stutter.
- *RoomTable*: a room that does not exist has neither a valid key nor an upsert behind it
  (`GoneIsClean`), and an invocation between the read and the write of a variable holds
  the `createdAt` that is there, or has been overtaken (`BornIsCurrent`). The refinement
  rests on what every step does to a cell (`SettingsMoveUp`).
- *MediaStorage*: what each invocation and the job have read still holds in the sense they
  need it. An invocation that is to erase an object, and the job with its victim, condemn
  it (`Condemned`: a row with the key is a late one); `CheckReferences` may look at one
  room only because of `MediaStaysHome`; an id about to be put is nobody else's and has
  been seen by no scan (`ChoreFits`); of a row that was seen and is gone the object is a
  stray one (`SeenFits`), without which the job's count of references could fall short.
  That no object is left follows from a stronger statement that does not count on an
  invocation that has read a row and not yet deleted it (`Accounted`). The quota: what is
  bounded is not the sum over the rows but over all keys that could come to count without
  another upload being admitted (`Potential`: named by a row, or put and on their way to one),
  sizes that are not known yet included; an admission that is not `rushed` adds one key to a
  sum below the quota, everything else takes keys out. That a sum over a set does not depend
  on the order in which its elements are taken, and grows with the set, is shown by a smallest
  counterexample, which finite sets have because the subset order on them is well-founded; so
  no induction theorem is needed.
- *Accounts*: what an invocation has read cannot have become false when it writes, because
  the tables only grow (`Grows`). `JobMatches` lists what each step relies on: above all,
  an invocation that is to write or delete a mod's row knows of *another* owner of the
  room, and by `RoomsDiffer` there is no second, so the row is not an owner's.
- *ResilientConnection*: `FieldsMatch` (the two fields name sockets in the states their
  comments claim, until their close event) and `AllClosing` (after `stop()` no socket is
  connecting or open).
- *AccountDeletion*: a deletion that has passed a stage answers for every row of that stage:
  it is in the list the deletion still works off, it was written behind the deletion's back
  (`late`), or the deletion stopped (`cut`); likewise for the owner's membership and for the
  account once they are gone (`OwnerGone`, `UserGone`), whoever removed them. A session of an
  old password is in the list of the revocation that is under way, or its login was
  `overtaken` (`TokensFit`).
- *OverlaySync*: an element is taken off the screen only by a remnant, whose asset was
  deleted; everything under way to the screen (rows, what finished invocations will
  announce, broadcasts, snapshots) carries a seq that was accepted for its asset; it extends
  AssetStore's invariant, which says what the rows are.
- *CanvasSync*: everything under way is no news (`NoNews`: its seq is not above that of the
  row, or the asset is deleted), and stays so because rows only move up. An entry of the
  canvas is no news either, or a request with its seq is on its way, which ends only by the
  write or by a later write that won. What is not deleted is drawn (has a place and a width)
  wherever there is a copy of it, so that the messages made from a copy can be parsed: one
  that cannot would leave the entry ahead for good.
- *TextEditing*: unless a send is to come, the typist's last message with a text has the text
  typed last and is under way, or has been processed and the row still has its text
  (`TextIsLast`); every other one of the typist's with a text, the row's own included, has
  a smaller seq (`StampsFit`), so it cannot win against that message. The style likewise.
- *Playback*: an element is in line with the copy as far as pausing goes (`FollowsCopy`); a
  clip that ended is held back until a copy says something else (`HeldBack`); while a Stop
  stands, its message is under way, or the clip is paused at the start with no seek to come
  (`StopHolds`).
- *Presence*: the property is inductive with the types of what it mentions: a call that fails
  adds one row at most to those left behind, no other step adds any (`NoRowLeft`,
  `OneRowLeft`).
- *RoomSessions*: unless crossed, a dashboard that is on its way belongs to the dashboard's
  URL (`ViewFollows`); the references of the page (session, header, picker, URL) move together
  in every way of leaving a room; what is placed belongs to an upload that is done
  (`PlacedWhenDone`).
- *SettingsPanels*: the seq a panel holds is a seq of its room or of a call of its own, and
  unless the owner was hasty everything under way to or from a room is of that room.
- *VariablePanels*: the new key of a rename is stored, or the message that stores it is under
  way with none that deletes it (`RenameFits`).
- *EditorSelection*: every change made on the canvas itself is marked until its echo.

The type invariants are inductive with little more: messages and answers under way are typed
too; only objects are ever patched, so only objects are unmatched (`TrafficTypeOK`); the
dialog of a volume panel is never open, so what is saved is a room's channel
(`ChoicesTypeOK`); the rows of the connections table stay finite, so counts are numbers
(`NewsTypeOK`).

**Only model-checked**: liveness (`Recovers`, `PageConverges`, `ScreenConverges`, `VisitsSettle`,
`Convergence`, `ReconnectHeals`), which is out of this prover's reach, as is ENABLED. The runs that
expect a violation have no theorem: their property is false.

## 5. Plan

1. *Proofs*: the safety half of convergence (a snapshot that is answered when nothing else is
   under way leaves the screen and the table equal), as an inductive statement of each
   synchronisation module.
2. The membership that `$connect` checks, composed with Accounts; the listings; sockets
   opened for a room while its members change.
3. The canvas's view (panning, zoom, what `screenToWorld` does to a gesture in progress).

## 6. Not modelled, and why

The viewport is one for all assets and steps (a room made by its key alone has none, see
`BareIffUpserted`; there `visible` is false and nothing more). The rows and objects that the
deletion of an account takes, whose deleter MediaStorage leaves out, are in AccountDeletion.
The other axis of the geometry, colours, fonts, most media attributes: nothing here depends
on them; a text's box, which is measured from the sender's copy and so may not fit the text
that the row keeps, belongs to TextEditing's style. Validation of messages: the inputs are
those that parse, except for coordinates that an entry lacks. A link, an invite or a session
that expires is one nobody uses any more, or one that logs out. Delays and back-off: an
armed timer may fire at any time, which covers every delay. DynamoDB, S3, API Gateway and
the browser are modelled from how the code uses them; reads are consistent per item, queries
and scans see one state of the table (the retention job's scan is row by row); the query by
e-mail goes to an index that may lag, which only adds to what `accounts_email` shows. Forms,
the access panel's layout, text style and text measurement, the widgets of
single properties, panning and zooming: no protocol in them. `clock.ts` keeps no state. The
infrastructure stack declares resources; which calls a handler may make is taken from the
handler.
