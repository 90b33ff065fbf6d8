----------------------------- MODULE MCClients -----------------------------
(* Model checking of four parts of an editor's page, each by itself: a     *)
(* behaviour is one of ResilientConnection, EditorSelection, VariablePanels*)
(* or SettingsPanels.  The variables of the others keep one state, in which*)
(* nothing is left to happen, so the state spaces add up, and a liveness   *)
(* property is about its part under its fairness.                          *)
EXTENDS ResilientConnection, EditorSelection, VariablePanels, SettingsPanels

VARIABLE part

unionVars == <<part, vars, editorVars, variableVars, panelVars>>

(* A connection that has been stopped.                                     *)
RestingConnection ==
  /\ sock = [s \in Sockets |-> "free"]
  /\ socket = None /\ pending = None
  /\ retryTimer = "none" /\ reconnectTimer = FALSE
  /\ closedByUs = TRUE

(* A volume panel that has its room's snapshot.                            *)
RestingPanel ==
  /\ kind = "sound"
  /\ setting = [r \in Studios |-> [seq |-> 0, choice |-> FirstLevel]]
  /\ here = OwnStudio
  /\ online = TRUE /\ entered = TRUE
  /\ shown = FirstLevel /\ lastSeq = 0
  /\ dialog = NoChannel
  /\ calls = {} /\ news = {} /\ answer = NoAnswer
  /\ breaks = 0 /\ stranded = FALSE /\ hasty = FALSE

(* The volume does not depend on who owns the room.                        *)
UnionInit ==
  /\ part \in {"connection", "editor", "variables", "panels"}
  /\ IF part = "connection" THEN Init ELSE RestingConnection
  /\ IF part = "panels" THEN PanelsInit /\ (kind = "sound" => here = OwnStudio)
                        ELSE RestingPanel
  /\ EditorInit
  /\ VariablesInit

UnionNext ==
  /\ UNCHANGED part
  /\ \/ /\ part = "connection" /\ Next
        /\ UNCHANGED <<editorVars, variableVars, panelVars>>
     \/ /\ part = "editor" /\ EditorNext
        /\ UNCHANGED <<vars, variableVars, panelVars>>
     \/ /\ part = "variables" /\ VariablesNext
        /\ UNCHANGED <<vars, editorVars, panelVars>>
     \/ /\ part = "panels" /\ PanelsNext
        /\ UNCHANGED <<vars, editorVars, variableVars>>

(* The fairness of each part, said so that it asks nothing of the others.  *)
UnionFairness ==
  /\ \A s \in Sockets : WF_vars(part = "connection" /\ OnClose(s))
  /\ SF_vars(part = "connection" /\ \E s \in Sockets : OnOpen(s))
  /\ WF_vars(part = "connection" /\ RetryFires)
  /\ WF_vars(part = "connection" /\ WatchdogTick)
  /\ WF_editorVars(part = "editor" /\ \E m \in orders : ExecuteOrder(m))
  /\ WF_editorVars(part = "editor" /\ LinkUp)
  /\ WF_editorVars(part = "editor" /\ AskDigest)
  /\ WF_editorVars(part = "editor" /\ AnswerDigest)
  /\ WF_editorVars(part = "editor" /\ ApplyDigest)
  /\ WF_editorVars(part = "editor" /\ \E a \in Objects : HearObject(a))
  /\ WF_editorVars(part = "editor" /\ \E k \in Keys : HearVariable(k) \/ HearVariableDeleted(k))
  /\ \A k \in Labels : WF_variableVars(part = "variables" /\ StepTimerFires(k))
  /\ WF_variableVars(part = "variables" /\ \E m \in sent : ProcessMessage(m))
  /\ WF_variableVars(part = "variables" /\ Reconnect)
  /\ WF_variableVars(part = "variables" /\ AskAgain)
  /\ WF_variableVars(part = "variables" /\ AnswerSnapshot)
  /\ WF_variableVars(part = "variables" /\ ReceiveVariables)
  /\ WF_variableVars(part = "variables" /\ \E m \in echoes : ReceiveUpdated(m) \/ ReceiveDeleted(m))
  /\ WF_panelVars(part = "panels" /\ OpenSocket)
  /\ WF_panelVars(part = "panels" /\ PollStudio)
  /\ WF_panelVars(part = "panels" /\ \E c \in calls : ProcessCall(c))
  /\ WF_panelVars(part = "panels" /\ AnswerPoll)
  /\ WF_panelVars(part = "panels" /\ ReceiveSnapshot)
  /\ WF_panelVars(part = "panels" /\ \E n \in news : ReceiveNews(n))

UnionSpec == UnionInit /\ [][UnionNext]_unionVars /\ UnionFairness

(* The state of every part of the page is well typed.                      *)
PageTypeOK == TypeOK /\ EditorTypeOK /\ VariablesTypeOK /\ PanelsTypeOK

(* main.ts:973-1009: in the end every panel of the page says what the room *)
(* says, but for the exceptions that each of the three names.              *)
PageConverges == EditorConverges /\ VariablesConverge /\ PanelsConverge
============================================================================
