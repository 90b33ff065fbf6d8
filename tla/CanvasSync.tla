----------------------------- MODULE CanvasSync -----------------------------
(***************************************************************************)
(* An editor's canvas (apps/control-ui: main.ts and CanvasView), which     *)
(* changes its own copy of an asset first, sends afterwards, and merges    *)
(* what the room says into it: drags and resizes with throttled sends, the *)
(* inline text editor with its trailing send, the numeric fields, and the  *)
(* seq this client stamps.  The other editors are RoomChannel's Edit.      *)
(*                                                                         *)
(* A text asset's box is fitted to its text, so the width stands for the   *)
(* text as well.  One gesture or one text session at a time: there is one  *)
(* pointer.                                                                *)
(***************************************************************************)
EXTENDS RoomChannel

CONSTANT None      \* no gesture, no text session

ASSUME NoneAssumption == None \notin Assets

VARIABLES
  entry,       \* entry[a]: the asset as the canvas has it, or NoRow
  dragging,    \* None, or what the pointer holds and how
  editing,     \* the asset whose text is being edited, or None
  unsent,      \* assets whose trailing text send is scheduled
  lastSeq,     \* the largest seq this client has stamped
  requests     \* this client's messages on their way to the server

canvasVars == <<entry, dragging, editing, unsent, lastSeq, requests>>
allVars == <<vars, channelVars, canvasVars>>

----------------------------------------------------------------------------
Gesture == [how : {"move", "resize"}, asset : Assets]
Request == [kind : {"move", "resize", "update"}, asset : Assets, patch : Patch,
            seq : Seqs]

CanvasTypeOK ==
  /\ TypeOK
  /\ ChannelTypeOK
  /\ entry \in Table
  /\ dragging \in Gesture \cup {None}
  /\ editing \in Assets \cup {None}
  /\ unsent \subseteq Assets
  /\ lastSeq \in 0..MaxSeq
  /\ requests \subseteq Request

CanvasInit ==
  /\ Init
  /\ ChannelInit
  /\ entry = [a \in Assets |-> NoRow]
  /\ dragging = None
  /\ editing = None
  /\ unsent = {}
  /\ lastSeq = 0
  /\ requests = {}

Holds(how, a) == dragging = [how |-> how, asset |-> a]

(* What each kind of message carries of an entry; for a text update it is  *)
(* fullAssetPatch: everything an update may carry, which leaves out x.     *)
PatchOf(kind, e) ==
  CASE kind = "move" -> Carry(e.x, Missing, Missing)
    [] kind = "resize" -> Carry(e.x, e.width, Missing)
    [] kind = "update" -> Carry(Missing, e.width, e.hidden)

(* A broadcast's kind, by the fields it carries.                           *)
IsMove(patch) == patch.x # Missing /\ patch.width = Missing
IsResize(patch) == patch.x # Missing /\ patch.width # Missing

(* parseClientMessage: a coordinate that is not a number is an error (an   *)
(* entry has none where the row it shows is a remnant).                    *)
Parses(q) ==
  /\ q.kind # "update" => q.patch.x # Missing
  /\ q.kind = "resize" => q.patch.width # Missing

----------------------------------------------------------------------------
(* Local edits.  nextSeq() returns the clock, or one more than the last    *)
(* seq stamped; it is not raised by seqs from the room.  (A send that is   *)
(* not the last of its gesture or session leaves one under MaxSeq for it.) *)
NextSeq == (lastSeq + 1)..MaxSeq
SpareSeq == NextSeq \ {MaxSeq}

(* The changed entry is stamped and sent; without a socket the message is  *)
(* dropped, and the entry keeps the new seq.                               *)
StampAndSend(kind, a, changed, patch, stamps) ==
  \E seq \in stamps :
    /\ lastSeq' = seq
    /\ entry' = [entry EXCEPT ![a] = [changed EXCEPT !.seq = seq]]
    /\ requests' =
         IF connected
           THEN requests \cup {[kind |-> kind, asset |-> a, patch |-> patch, seq |-> seq]}
           ELSE requests

(* Mutant of ChangeOnly: a seq is stamped though nothing is sent.          *)
ChangeOnlyStamped(a, changed) ==
  /\ lastSeq + 1 < MaxSeq
  /\ lastSeq' = lastSeq + 1
  /\ entry' = [entry EXCEPT ![a] = [changed EXCEPT !.seq = lastSeq + 1]]
  /\ UNCHANGED requests

ChangeOnly(a, changed) ==
  /\ entry' = [entry EXCEPT ![a] = changed]
  /\ UNCHANGED <<lastSeq, requests>>

PointerFree == dragging = None /\ editing = None /\ NextSeq # {}

MouseDown(how, a) ==
  /\ PointerFree
  /\ entry[a] # NoRow
  /\ dragging' = [how |-> how, asset |-> a]
  /\ UNCHANGED <<vars, channelVars, entry, editing, unsent, lastSeq, requests>>

(* onMouseMove: the entry changes on every event, the send is throttled.   *)
MouseMove(a, x, width) ==
  /\ entry[a] # NoRow
  /\ \E how \in {"move", "resize"} :
       /\ Holds(how, a)
       /\ how = "move" => width = entry[a].width
       /\ LET moved == [entry[a] EXCEPT !.x = x, !.width = width] IN
            \/ ChangeOnly(a, moved)
            \/ StampAndSend(how, a, moved, PatchOf(how, moved), SpareSeq)
  /\ UNCHANGED <<vars, channelVars, dragging, editing, unsent>>

(* onMouseUp always sends the final transform.                             *)
MouseUp ==
  /\ dragging # None
  /\ LET a == dragging.asset IN
       IF entry[a] = NoRow
         THEN UNCHANGED <<entry, lastSeq, requests>>
         ELSE StampAndSend(dragging.how, a, entry[a],
                           PatchOf(dragging.how, entry[a]), NextSeq)
  /\ dragging' = None
  /\ UNCHANGED <<vars, channelVars, editing, unsent>>

(* setAssetPosition, setAssetSize and patchAsset (of anything but text).   *)
SetPosition(a, x) ==
  LET moved == [entry[a] EXCEPT !.x = x]
  IN  StampAndSend("move", a, moved, PatchOf("move", moved), NextSeq)

SetSize(a, width) ==
  LET sized == [entry[a] EXCEPT !.width = width]
  IN  StampAndSend("resize", a, sized, PatchOf("resize", sized), NextSeq)

PatchAsset(a, hidden) ==
  StampAndSend("update", a, [entry[a] EXCEPT !.hidden = hidden],
               Carry(Missing, Missing, hidden), NextSeq)

(* A clip that a remnant has taken over has no volume: applyTransform      *)
(* throws, after the entry has changed and before the message is sent.     *)
SetFieldsThrows(a) ==
  /\ Remnant(entry[a])
  /\ \/ \E x \in Positions, seq \in NextSeq :
          /\ entry' = [entry EXCEPT ![a].x = x, ![a].seq = seq]
          /\ lastSeq' = seq
     \/ \E w \in Widths, seq \in NextSeq :
          /\ entry' = [entry EXCEPT ![a].width = w, ![a].seq = seq]
          /\ lastSeq' = seq
     \/ \E hidden \in Hiddens :
          /\ entry' = [entry EXCEPT ![a].hidden = hidden]
          /\ UNCHANGED lastSeq
  /\ UNCHANGED requests

SetFields(a) ==
  /\ PointerFree
  /\ entry[a] # NoRow
  /\ \/ \E x \in Positions : SetPosition(a, x)
     \/ \E w \in Widths : SetSize(a, w)
     \/ \E hidden \in Hiddens : PatchAsset(a, hidden)
     \/ SetFieldsThrows(a)
  /\ UNCHANGED <<vars, channelVars, dragging, editing, unsent>>

BeginInlineTextEdit(a) ==
  /\ PointerFree
  /\ entry[a] # NoRow
  /\ editing' = a
  /\ UNCHANGED <<vars, channelVars, entry, dragging, unsent, lastSeq, requests>>

(* sendFullTextPatch                                                       *)
SendFullText(a, e, stamps) ==
  /\ StampAndSend("update", a, e, PatchOf("update", e), stamps)
  /\ unsent' = unsent \ {a}

(* A keystroke: sent at once when the throttle allows it (which clears the *)
(* trailing timer), otherwise left to the trailing timer.                  *)
Keystroke(a, width) ==
  /\ editing = a
  /\ entry[a] # NoRow
  /\ LET typed == [entry[a] EXCEPT !.width = width] IN
       \/ SendFullText(a, typed, SpareSeq)
       \/ ChangeOnly(a, typed) /\ unsent' = unsent \cup {a}
  /\ UNCHANGED <<vars, channelVars, dragging, editing>>

(* The trailing timer runs out.                                            *)
TrailingSend(a) ==
  /\ a \in unsent
  /\ IF entry[a] = NoRow
       THEN unsent' = unsent \ {a} /\ UNCHANGED <<entry, lastSeq, requests>>
       ELSE SendFullText(a, entry[a], SpareSeq)
  /\ UNCHANGED <<vars, channelVars, dragging, editing>>

(* blur: stopEditing, then flushPendingTextPatch.                          *)
Blur ==
  /\ editing # None
  /\ editing' = None
  /\ LET a == editing IN
       IF a \in unsent /\ entry[a] # NoRow
         THEN SendFullText(a, entry[a], NextSeq)
         ELSE unsent' = unsent \ {a} /\ UNCHANGED <<entry, lastSeq, requests>>
  /\ UNCHANGED <<vars, channelVars, dragging>>

----------------------------------------------------------------------------
(* The room.                                                               *)

(* What the server does with this client's message.                        *)
Accept(h, q) ==
  CASE q.kind = "move" -> ReadMove(h, q.asset, q.patch.x, q.seq)
    [] q.kind = "resize" -> ReadResize(h, q.asset, q.patch.x, q.patch.width, q.seq)
    [] q.kind = "update" -> ReadUpdate(h, q.asset, q.patch.width, q.patch.hidden, q.seq)

TakeRequest(h, q) ==
  /\ q \in requests
  /\ requests' = requests \ {q}
  /\ IF Parses(q) /\ row[q.asset] # NoRow
       THEN Accept(h, q)
       ELSE UNCHANGED vars       \* an error reply, which is only logged
  /\ UNCHANGED <<channelVars, entry, dragging, editing, unsent, lastSeq>>

(* A connection without a row or without a username may change nothing:    *)
(* the message is refused, and the error reply is only logged.             *)
RefuseRequest(q) ==
  /\ q \in requests
  /\ aborts < MaxAborts
  /\ aborts' = aborts + 1
  /\ requests' = requests \ {q}
  /\ UNCHANGED <<vars, net, snap, connected, settle, edits, drops>>
  /\ UNCHANGED <<entry, dragging, editing, unsent, lastSeq>>

(* A drop may also lose messages on their way to the server.               *)
LoseConnection ==
  /\ Disconnect
  /\ requests' \in SUBSET requests
  /\ UNCHANGED <<entry, dragging, editing, unsent, lastSeq>>

(* applyRemoteMove, applyRemoteResize, applyRemoteUpdate: a gesture of the *)
(* same kind on the asset drops the first two, nothing drops the third.    *)
Ignores(m) ==
  \/ IsMove(m.patch) /\ Holds("move", m.asset)
  \/ IsResize(m.patch) /\ Holds("resize", m.asset)
  \/ entry[m.asset] = NoRow
  \/ entry[m.asset] # NoRow /\ m.seq < entry[m.asset].seq

ApplyRemote(m) ==
  /\ m.kind = "delta"
  /\ Arrive(m)
  /\ entry' = IF Ignores(m) THEN entry
              ELSE [entry EXCEPT ![m.asset] = Merge(@, m.patch, m.visible, m.seq)]

(* asset:added and asset:deleted apply whatever the canvas has.            *)
ApplyAdded(m) ==
  /\ m.kind = "added"
  /\ Arrive(m)
  /\ entry' = [entry EXCEPT ![m.asset] = m.row]

ApplyDeleted(m) ==
  /\ m.kind = "deleted"
  /\ Arrive(m)
  /\ entry' = [entry EXCEPT ![m.asset] = NoRow]

Deliver ==
  /\ \E m \in net : ApplyRemote(m) \/ ApplyAdded(m) \/ ApplyDeleted(m)
  /\ UNCHANGED <<dragging, editing, unsent, lastSeq, requests>>

(* Mutants of Keeps: no look at the seq; an equal seq is no news.          *)
KeepsHeldOnly(a, asset) ==
  /\ asset # NoRow
  /\ Holds("move", a) \/ Holds("resize", a) \/ editing = a

KeepsTies(a, asset) ==
  /\ asset # NoRow
  /\ \/ entry[a] # NoRow /\ asset.seq <= entry[a].seq
     \/ Holds("move", a) \/ Holds("resize", a)
     \/ editing = a

(* setAssets keeps an entry that is newer, held or being edited.           *)
Keeps(a, asset) ==
  /\ asset # NoRow
  /\ \/ entry[a] # NoRow /\ asset.seq < entry[a].seq
     \/ Holds("move", a) \/ Holds("resize", a)
     \/ editing = a

(* The assets of the snapshot that the canvas takes over.                  *)
Taken(k) == {a \in Assets : snap[k][a] # NoRow /\ ~Keeps(a, snap[k][a])}

(* A remnant that is taken over where there is no entry has createElement  *)
(* throw, for it has no type; where there is one that is a clip, the entry *)
(* has it and then applyTransform throws, for it has no volume.            *)
Unmakable(k, a) == Remnant(snap[k][a]) /\ entry[a] = NoRow

ApplyAll(k) ==
  /\ \A a \in Taken(k) : ~Unmakable(k, a)
  /\ entry' = [a \in Assets |-> IF Keeps(a, snap[k][a]) THEN entry[a] ELSE snap[k][a]]

(* What the reply lists after the remnant that throws is left as it was,   *)
(* and nothing is removed.  (Ids are UUIDs: any assets may be first.)      *)
StopAtRemnant(k) ==
  \E b \in Taken(k), first \in SUBSET Taken(k) :
    /\ Remnant(snap[k][b])
    /\ b \in first <=> entry[b] # NoRow
    /\ \A a \in first : ~Unmakable(k, a)
    /\ entry' = [a \in Assets |-> IF a \in first THEN snap[k][a] ELSE entry[a]]

SetAssets(k) ==
  /\ SnapshotArrives(k)
  /\ ApplyAll(k) \/ StopAtRemnant(k)
  /\ UNCHANGED <<dragging, editing, unsent, lastSeq, requests>>

----------------------------------------------------------------------------
Pointer ==
  \E a \in Assets :
    \/ \E how \in {"move", "resize"} : MouseDown(how, a)
    \/ \E x \in Positions, w \in Widths : MouseMove(a, x, w)
    \/ SetFields(a)
    \/ BeginInlineTextEdit(a)
    \/ \E w \in Widths : Keystroke(a, w)

Release == MouseUp \/ Blur
Trailing == \E a \in Assets : TrailingSend(a)

CanvasNext ==
  \/ Pointer \/ Release \/ Trailing
  \/ \E h \in Handlers, q \in requests : TakeRequest(h, q)
  \/ \E q \in requests : RefuseRequest(q)
  \/ LoseConnection \/ Deliver
  \/ \E k \in Slots : SetAssets(k) \/ (AnswerSnapshot(k) /\ UNCHANGED canvasVars)
  \/ \E h \in Handlers : ServerStep(h) /\ UNCHANGED canvasVars
  \/ (Open \/ TimerStep) /\ UNCHANGED canvasVars

CanvasSpec == CanvasInit /\ [][CanvasNext]_allVars

(* What was sent arrives, invocations run, the client reconnects and its   *)
(* timers fire.  Nothing is assumed of the people editing.                 *)
Fairness ==
  /\ \A h \in Handlers :
       /\ WF_allVars((Store(h) \/ Publish(h)) /\ UNCHANGED canvasVars)
       /\ WF_allVars(\E q \in requests : TakeRequest(h, q))
  /\ \A k \in Slots : WF_allVars(AnswerSnapshot(k) /\ UNCHANGED canvasVars)
  /\ \A k \in Slots : WF_allVars(SetAssets(k))
  /\ WF_allVars(Deliver)
  /\ WF_allVars(Trailing)
  /\ WF_allVars(Open /\ UNCHANGED canvasVars)
  /\ WF_allVars(SettleFires /\ UNCHANGED canvasVars)
  /\ WF_allVars(FallbackFires /\ UNCHANGED canvasVars)

FairSpec == CanvasSpec /\ Fairness

----------------------------------------------------------------------------
(* Properties.                                                             *)

Whole(a) == row[a] # NoRow /\ row[a].type # Missing

(* What the canvas has of an asset is what the table has.                  *)
CanvasInStep == \A a \in Assets : entry[a] = row[a]

(* An entry ahead of its row whose edit is neither on its way nor being    *)
(* written: it was sent while there was no socket, lost or refused.        *)
OnItsWay(a, seq) ==
  \/ \E q \in requests : q.asset = a /\ q.seq = seq
  \/ \E h \in Handlers : Pending(h, "write") /\ job[h].asset = a /\ job[h].seq = seq

Stranded ==
  \E a \in Assets :
    /\ Whole(a)
    /\ entry[a] # NoRow
    /\ entry[a].seq > row[a].seq
    /\ ~OnItsWay(a, entry[a].seq)

(* Optimism is accounted for: until the socket drops or an invocation      *)
(* fails or refuses, an entry ahead of its row belongs to an edit that is  *)
(* being made or is still on its way, so no seq is left that later         *)
(* snapshots could not reach.                                              *)
AheadOnlyWhilePending == (drops = 0 /\ aborts = 0) => ~Stranded

(* canvas.ts:649-683, main.ts:102-112: once this editor lets go for good   *)
(* (and the others have stopped, for edits are bounded), the canvas ends   *)
(* up with the table's state, whoever won the races on seq and however the *)
(* broadcasts were reordered.  Two things can prevent it: a stranded edit, *)
(* and a remnant that stays in the table, at which every snapshot stops.   *)
HandsOff == dragging = None /\ editing = None
NoRemnants == \A a \in Assets : ~Remnant(row[a])
Convergence == <>[](HandsOff /\ ~Stranded /\ NoRemnants) => <>[]CanvasInStep

(* setAssets (canvas.ts:649-664) and the applyRemote handlers: nothing     *)
(* that comes from the room takes the canvas back to an older state of an  *)
(* asset, except a late asset:added (seq 0).                               *)
NeverBackwards ==
  [][\A a \in Assets :
       (/\ lastSeq' = lastSeq
        /\ entry[a] # NoRow /\ entry'[a] # NoRow
        /\ entry'[a].seq < entry[a].seq)
       => entry'[a].seq = 0]_allVars

(* main.ts:119-120: "Reconnect gaps are already fully covered separately   *)
(* (onOpen always re-requests a snapshot immediately)."                    *)
ReconnectHeals == <>[]HandsOff => <>[]CanvasInStep
============================================================================
