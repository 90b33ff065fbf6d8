---------------------------- MODULE OverlaySync ----------------------------
(***************************************************************************)
(* A browser source (apps/browser-source: main.ts and Renderer) kept in    *)
(* step with the assets table: broadcasts, snapshots on every open, when   *)
(* the settle timer runs out and on the fallback interval.                 *)
(*                                                                         *)
(* One overlay is enough: overlays share nothing but the table.            *)
(***************************************************************************)
EXTENDS RoomChannel

VARIABLES
  entry,       \* entry[a]: the asset the renderer holds, or NoRow
  undrawn,     \* assets it holds whose element it has taken off the screen
  ever         \* history: ever[a], the seqs ever accepted for a

allVars == <<vars, channelVars, entry, undrawn, ever>>

OverlayTypeOK ==
  /\ TypeOK
  /\ ChannelTypeOK
  /\ entry \in Table
  /\ undrawn \subseteq Assets
  /\ ever \in [Assets -> SUBSET (0..MaxSeq)]

OverlayInit ==
  /\ Init
  /\ ChannelInit
  /\ entry = [a \in Assets |-> NoRow]
  /\ undrawn = {}
  /\ ever = [a \in Assets |-> {}]

----------------------------------------------------------------------------
(* What of an asset is on the screen.                                      *)
Shown(a) == IF a \in undrawn THEN NoRow ELSE entry[a]

(* asset:moved, asset:resized, asset:updated.                              *)
DeliverDelta(m) ==
  /\ m.kind = "delta"
  /\ Arrive(m)
  /\ entry' =
       IF entry[m.asset] # NoRow /\ m.seq >= entry[m.asset].seq
         THEN [entry EXCEPT ![m.asset] = Merge(@, m.patch, m.visible, m.seq)]
         ELSE entry
  /\ UNCHANGED undrawn

(* asset:added and asset:deleted apply whatever is shown.                  *)
DeliverAdded(m) ==
  /\ m.kind = "added"
  /\ Arrive(m)
  /\ entry' = [entry EXCEPT ![m.asset] = m.row]
  /\ UNCHANGED undrawn

DeliverDeleted(m) ==
  /\ m.kind = "deleted"
  /\ Arrive(m)
  /\ entry' = [entry EXCEPT ![m.asset] = NoRow]
  /\ undrawn' = undrawn \ {m.asset}

Deliver ==
  /\ \E m \in net : DeliverDelta(m) \/ DeliverAdded(m) \/ DeliverDeleted(m)
  /\ UNCHANGED ever

(* Mutant of ReplaceAll: what the snapshot lacks stays on screen.          *)
ReplaceListed(k) ==
  /\ \A a \in Assets : ~Remnant(snap[k][a])
  /\ entry' = [a \in Assets |-> IF snap[k][a] = NoRow THEN entry[a] ELSE snap[k][a]]
  /\ UNCHANGED undrawn

(* Renderer.setAssets replaces everything, without looking at seqs.        *)
ReplaceAll(k) ==
  /\ \A a \in Assets : ~Remnant(snap[k][a])
  /\ entry' = [a \in Assets |-> snap[k][a]]
  /\ undrawn' = {a \in undrawn : snap[k][a] # NoRow}

(* A remnant has no type, and createElement throws: the element of that    *)
(* asset is gone by then, what the reply lists after it is left as it was, *)
(* and nothing is removed.  (The ids are UUIDs: any assets may be first.)  *)
StopAtRemnant(k) ==
  \E b \in Assets, first \in SUBSET Assets :
    /\ Remnant(snap[k][b])
    /\ \A a \in first : snap[k][a] # NoRow /\ ~Remnant(snap[k][a])
    /\ entry' = [a \in Assets |-> IF a \in first THEN snap[k][a] ELSE entry[a]]
    /\ undrawn' = IF entry[b] = NoRow THEN undrawn ELSE undrawn \cup {b}

SetAssets(k) ==
  /\ SnapshotArrives(k)
  /\ ReplaceAll(k) \/ StopAtRemnant(k)
  /\ UNCHANGED ever

(* What every other step does to the client's part of the state.           *)
Bystander ==
  /\ ever' = [a \in Assets |-> ever[a] \cup accepted'[a]]
  /\ UNCHANGED <<entry, undrawn>>

OverlayNext ==
  \/ \E h \in Handlers : ServerStep(h) /\ Bystander
  \/ \E k \in Slots : SetAssets(k) \/ (AnswerSnapshot(k) /\ Bystander)
  \/ Deliver
  \/ (Open \/ Disconnect \/ TimerStep) /\ Bystander

OverlaySpec == OverlayInit /\ [][OverlayNext]_allVars

(* Invocations that were started run, replies and broadcasts arrive, and   *)
(* the client reconnects and its timers fire.  Edits and faults are free.  *)
Fairness ==
  /\ \A h \in Handlers : WF_allVars((Store(h) \/ Publish(h)) /\ Bystander)
  /\ \A k \in Slots : WF_allVars(AnswerSnapshot(k) /\ Bystander)
  /\ \A k \in Slots : WF_allVars(SetAssets(k))
  /\ WF_allVars(Deliver)
  /\ WF_allVars(Open /\ Bystander)
  /\ WF_allVars(SettleFires /\ Bystander)
  /\ WF_allVars(FallbackFires /\ Bystander)

FairSpec == OverlaySpec /\ Fairness

----------------------------------------------------------------------------
(* Properties.                                                             *)

InStep == \A a \in Assets : Shown(a) = row[a]

(* browser-source/main.ts:11-12: a full-state re-fetch guarantees          *)
(* convergence, whatever was lost, reordered or read too early (edits and  *)
(* faults are bounded, so the room is eventually left alone), unless a     *)
(* remnant stays in the table: no snapshot gets past it.                   *)
Convergence == <>[](\A a \in Assets : ~Remnant(row[a])) => <>[]InStep

(* The overlay holds no change the server refused: every seq it holds was  *)
(* accepted by the table at some time.  It holds whole assets only, and    *)
(* what it has taken off the screen has been deleted.                      *)
ShowsOnlyAccepted ==
  \A a \in Assets :
    /\ entry[a] # NoRow => entry[a].seq \in ever[a] /\ ~Remnant(entry[a])
    /\ a \in undrawn => a \in deleted
============================================================================
