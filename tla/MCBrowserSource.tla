-------------------------- MODULE MCBrowserSource --------------------------
(* Model checking of what a browser source shows: OverlaySync with one     *)
(* asset and two concurrent invocations, and Playback.  A behaviour is of  *)
(* one of the two, the variables of the other keep their initial values.   *)
EXTENDS OverlaySync, Playback

VARIABLE part

unionVars == <<part, allVars, playVars>>

UnionInit ==
  /\ part \in {"overlay", "playback"}
  /\ OverlayInit
  /\ PlayInit
  /\ part = "overlay" => player = "file" /\ screen = "canvas"

UnionNext ==
  /\ UNCHANGED part
  /\ \/ part = "overlay" /\ OverlayNext /\ UNCHANGED playVars
     \/ part = "playback" /\ PlayNext /\ UNCHANGED allVars

(* The fairness of each part, said so that it asks nothing of the other.   *)
UnionFairness ==
  /\ \A h \in Handlers :
       WF_allVars(part = "overlay" /\ (Store(h) \/ Publish(h)) /\ Bystander)
  /\ \A k \in Slots : WF_allVars(part = "overlay" /\ AnswerSnapshot(k) /\ Bystander)
  /\ \A k \in Slots : WF_allVars(part = "overlay" /\ SetAssets(k))
  /\ WF_allVars(part = "overlay" /\ Deliver)
  /\ WF_allVars(part = "overlay" /\ Open /\ Bystander)
  /\ WF_allVars(part = "overlay" /\ SettleFires /\ Bystander)
  /\ WF_allVars(part = "overlay" /\ FallbackFires /\ Bystander)
  /\ WF_playVars(part = "playback" /\ \E m \in outbox : ProcessTake(m))
  /\ WF_playVars(part = "playback" /\ Frame)
  /\ WF_playVars(part = "playback" /\ HearCommand)
  /\ WF_playVars(part = "playback" /\ PollPlay)
  /\ WF_playVars(part = "playback" /\ HearPoll)
  /\ WF_playVars(part = "playback" /\ BecomeReady)
  /\ WF_playVars(part = "playback" /\ \E want \in BOOLEAN : SettlePlay(want))

UnionSpec == UnionInit /\ [][UnionNext]_unionVars /\ UnionFairness

(* What the browser source holds and plays is well typed.                  *)
ScreenTypeOK == OverlayTypeOK /\ PlayTypeOK

(* render.ts: in the end it shows the room's assets, and plays each as its *)
(* row says.                                                               *)
ScreenConverges == Convergence /\ PlaybackConverges
============================================================================
