--------------------------- MODULE MCConvergence ---------------------------
(* Model checking of CanvasSync's convergence, at two sizes.  "clocks": the*)
(* invocations come one at a time and nothing is lost, but both seqs are   *)
(* used.  "crowd": invocations run side by side, which makes remnants, may *)
(* fail, and the socket may drop, but one seq is used, by everybody.       *)
EXTENDS CanvasSync

VARIABLE part

sizedVars == <<part, allVars>>

Busy == {h \in Handlers : job[h] # Idle}

Sized ==
  \/ /\ part = "clocks"
     /\ Busy' \subseteq {CHOOSE h \in Handlers : TRUE}
     /\ drops' = 0 /\ aborts' = 0
  \/ /\ part = "crowd"
     /\ lastSeq' <= (IF HandsOff' THEN 1 ELSE 0)
     /\ \A h \in Busy' : job'[h].seq <= 1

SizedInit == part \in {"clocks", "crowd"} /\ CanvasInit
SizedNext == UNCHANGED part /\ CanvasNext /\ Sized

(* The fairness of CanvasSync, of the steps that are within the size.      *)
SizedFairness ==
  /\ \A h \in Handlers :
       /\ WF_allVars((Store(h) \/ Publish(h)) /\ UNCHANGED canvasVars)
       /\ WF_allVars((\E q \in requests : TakeRequest(h, q)) /\ Sized)
  /\ \A k \in Slots : WF_allVars(AnswerSnapshot(k) /\ UNCHANGED canvasVars)
  /\ \A k \in Slots : WF_allVars(SetAssets(k))
  /\ WF_allVars(Deliver)
  /\ WF_allVars(Trailing /\ Sized)
  /\ WF_allVars(Open /\ UNCHANGED canvasVars)
  /\ WF_allVars(SettleFires /\ UNCHANGED canvasVars)
  /\ WF_allVars(FallbackFires /\ UNCHANGED canvasVars)

SizedSpec == SizedInit /\ [][SizedNext]_sizedVars /\ SizedFairness
============================================================================
