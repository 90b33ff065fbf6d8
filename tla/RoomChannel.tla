----------------------------- MODULE RoomChannel -----------------------------
(***************************************************************************)
(* What lies between the assets table and one client of the room: the      *)
(* broadcasts of finished invocations, each travelling on its own and so   *)
(* delivered in any order; the snapshot requests and their replies; the    *)
(* client's settle timer; the drop of the connection.  OverlaySync and     *)
(* CanvasSync add a client each.                                           *)
(***************************************************************************)
EXTENDS AssetStore

CONSTANTS
  Slots,       \* snapshot requests of the client that can be in flight
  MaxEdits,    \* bound on the messages of the room's other clients
  MaxAborts,   \* bound on failed invocations
  MaxDrops,    \* bound on dropped connections
  Free,        \* a slot without a request
  Asked        \* a request whose invocation has not read the table yet

ASSUME SlotAssumption == Free # Asked
ASSUME BoundAssumption == MaxEdits \in Nat /\ MaxAborts \in Nat /\ MaxDrops \in Nat

VARIABLES
  net,         \* broadcasts on their way to the client
  snap,        \* snap[k]: Free, Asked, or the snapshot on its way back
  connected,   \* the client has a live socket
  settle,      \* the settle timer is armed
  edits, aborts, drops   \* what the bounds count

channelVars == <<net, snap, connected, settle, edits, aborts, drops>>

----------------------------------------------------------------------------
Delta == [kind : {"delta"}, asset : Assets, patch : Patch, visible : BOOLEAN,
          seq : Seqs]
Added == [kind : {"added"}, asset : Assets, row : Row]
Deleted == [kind : {"deleted"}, asset : Assets]

Table == [Assets -> Row \cup {NoRow}]

(* An item a late write has re-created (AssetStore's RemnantIffDeleted).   *)
Remnant(asset) == asset # NoRow /\ asset.type = Missing

ChannelTypeOK ==
  /\ net \subseteq (Delta \cup Added \cup Deleted)
  /\ \A k \in Slots : snap[k] \in {Free, Asked} \/ snap[k] \in Table
  /\ connected \in BOOLEAN
  /\ settle \in BOOLEAN
  /\ edits \in 0..MaxEdits /\ aborts \in 0..MaxAborts /\ drops \in 0..MaxDrops

ChannelInit ==
  /\ net = {}
  /\ snap = [k \in Slots |-> Free]
  /\ connected = FALSE
  /\ settle = FALSE
  /\ edits = 0 /\ aborts = 0 /\ drops = 0

(* Mutant of Broadcast: a delta without its seq.                           *)
BroadcastUnstamped(j) ==
  CASE j.op = "put" -> [kind |-> "added", asset |-> j.asset, row |-> NewRow(j)]
    [] j.op = "write" -> [kind |-> "delta", asset |-> j.asset, patch |-> j.patch,
                          visible |-> j.visible]
    [] j.op = "delete" -> [kind |-> "deleted", asset |-> j.asset]

(* The broadcast of a finished job; it repeats the message, not the row.   *)
Broadcast(j) ==
  CASE j.op = "put" -> [kind |-> "added", asset |-> j.asset, row |-> NewRow(j)]
    [] j.op = "write" -> [kind |-> "delta", asset |-> j.asset, patch |-> j.patch,
                          visible |-> j.visible, seq |-> j.seq]
    [] j.op = "delete" -> [kind |-> "deleted", asset |-> j.asset]

----------------------------------------------------------------------------
(* The server's side.                                                      *)

(* A message of another client arrives.                                    *)
Edit(h) ==
  /\ edits < MaxEdits
  /\ Receive(h)
  /\ edits' = edits + 1
  /\ UNCHANGED <<net, snap, connected, settle, aborts, drops>>

(* The steps of an invocation that only the table sees.                    *)
Store(h) ==
  /\ PutRow(h) \/ WriteRow(h) \/ DropStale(h) \/ DeleteRow(h)
  /\ UNCHANGED channelVars

(* broadcastToRoom posts to the connections the room has now.              *)
Publish(h) ==
  /\ Announce(h)
  /\ net' = IF connected THEN net \cup {Broadcast(job[h])} ELSE net
  /\ UNCHANGED <<snap, connected, settle, edits, aborts, drops>>

Fail(h) ==
  /\ aborts < MaxAborts
  /\ Abort(h)
  /\ aborts' = aborts + 1
  /\ UNCHANGED <<net, snap, connected, settle, edits, drops>>

(* room:snapshot:request: one Query of the table, then the reply.          *)
AnswerSnapshot(k) ==
  /\ snap[k] = Asked
  /\ snap' = [snap EXCEPT ![k] = row]
  /\ UNCHANGED <<vars, net, connected, settle, edits, aborts, drops>>

----------------------------------------------------------------------------
(* The client's side.                                                      *)

(* connection.send of a snapshot request on a live socket.                 *)
Ask == \E k \in Slots : snap[k] = Free /\ snap' = [snap EXCEPT ![k] = Asked]

(* onOpen asks for a snapshot and disarms the settle timer.                *)
Open ==
  /\ ~connected
  /\ connected' = TRUE
  /\ Ask
  /\ settle' = FALSE
  /\ UNCHANGED <<vars, net, edits, aborts, drops>>

(* The socket drops: what was on its way to the client is lost.            *)
Disconnect ==
  /\ connected
  /\ drops < MaxDrops
  /\ drops' = drops + 1
  /\ connected' = FALSE
  /\ net' = {}
  /\ snap' = [k \in Slots |-> Free]
  /\ UNCHANGED <<vars, settle, edits, aborts>>

(* onMessage: a seq-guarded broadcast arms the settle timer, whether or    *)
(* not the client then applies it.                                         *)
Arrive(m) ==
  /\ m \in net
  /\ net' = net \ {m}
  /\ settle' = (settle \/ m.kind = "delta")
  /\ UNCHANGED <<vars, snap, connected, edits, aborts, drops>>

SnapshotArrives(k) ==
  /\ snap[k] \notin {Free, Asked}
  /\ snap' = [snap EXCEPT ![k] = Free]
  /\ UNCHANGED <<vars, net, connected, settle, edits, aborts, drops>>

(* The settle timer runs out; without a socket the request is not sent.    *)
SettleFires ==
  /\ settle
  /\ settle' = FALSE
  /\ IF connected THEN Ask ELSE UNCHANGED snap
  /\ UNCHANGED <<vars, net, connected, edits, aborts, drops>>

(* The fallback interval: as SettleFires, whatever happens.                *)
FallbackFires ==
  /\ connected
  /\ Ask
  /\ UNCHANGED <<vars, net, connected, settle, edits, aborts, drops>>

(* The steps that leave the client's assets alone.                         *)
ServerStep(h) == Edit(h) \/ Store(h) \/ Publish(h) \/ Fail(h)
TimerStep == SettleFires \/ FallbackFires
============================================================================
