--------------------------- MODULE VariablePanels ---------------------------
(***************************************************************************)
(* The variables of a room as one control UI holds them: three copies (the *)
(* list of variablesPanel.ts, the texts on the canvas, the properties card *)
(* of sidebar.ts), the quick steps that are masked and sent late, the      *)
(* rename, and what main.ts sends and does with messages.  Writes carry no *)
(* seq: invocations and broadcasts take whatever order they take, and only *)
(* a snapshot puts a client right.                                         *)
(*                                                                         *)
(* Abstracted: variables are numbers; the order of the rows; who is        *)
(* selected (module EditorSelection).  The handler's write is one step     *)
(* with its broadcast; createdAt is in RoomTable.  Equal messages under    *)
(* way at once are one.                                                    *)
(***************************************************************************)
EXTENDS Naturals

CONSTANTS
  Labels,      \* keys of variables
  FirstLabel,  \* one that exists at the start
  MaxNumber,   \* bound on the values
  MaxTouches,  \* bound on the changes of this user and the others together
  MaxGaps,     \* bound on the drops of the connection and failed invocations
  Gone         \* no such variable, no value pending

ASSUME LabelAssumption == FirstLabel \in Labels
ASSUME TouchAssumption ==
  MaxNumber \in Nat /\ MaxTouches \in Nat /\ MaxGaps \in Nat
ASSUME GoneAssumption == Gone \notin Labels \cup (0..MaxNumber)

VARIABLES
  stored,     \* stored[k]: the value in the room's row
  listed,     \* the list's copy, with what is shown optimistically
  painted,    \* the canvas's copy
  card,       \* the variable on the properties card, or NoCard
  stepPending, \* what was stepped and has not come back
  timers,     \* keys whose stepTimers entry is armed
  attached,   \* the connection has a socket
  sent,       \* messages of this client that no invocation has processed
  echoes,     \* broadcasts under way to it
  reply,      \* its snapshot request: asked, answered, or none
  touches, gaps,   \* counters
  lostFor,    \* history: keys of which a change or its echo was lost
  renamed     \* history: the last rename, while nothing else has touched it

variableVars == <<stored, listed, painted, card, stepPending, timers, attached, sent,
                  echoes, reply, touches, gaps, lostFor, renamed>>

local == <<listed, painted, card, stepPending, timers>>
wire == <<attached, sent, echoes, reply, lostFor>>

----------------------------------------------------------------------------
Numbers == 0..MaxNumber
Contents == Numbers \cup {Gone}
Messages == [key : Labels, value : Contents]
NoCard == [key |-> Gone, value |-> Gone]
NoRename == [old |-> Gone, new |-> Gone]
NoReply == [stage |-> "none"]
Ask == [stage |-> "asked"]

VariablesTypeOK ==
  /\ {stored, listed, painted, stepPending} \subseteq [Labels -> Contents]
  /\ card \in [key : Labels, value : Numbers] \cup {NoCard}
  /\ timers \subseteq Labels
  /\ attached \in BOOLEAN
  /\ sent \subseteq Messages
  /\ echoes \subseteq Messages
  /\ reply \in {NoReply, Ask} \/ reply.all \in [Labels -> Contents]
  /\ touches \in 0..MaxTouches /\ gaps \in 0..MaxGaps
  /\ lostFor \subseteq Labels
  /\ renamed \in [old : Labels, new : Labels] \cup {NoRename}

VariablesInit ==
  /\ stored = [k \in Labels |-> IF k = FirstLabel THEN 0 ELSE Gone]
  /\ listed = stored
  /\ painted = stored
  /\ card = NoCard
  /\ stepPending = [k \in Labels |-> Gone]
  /\ timers = {}
  /\ attached = TRUE
  /\ sent = {}
  /\ echoes = {}
  /\ reply = NoReply
  /\ touches = 0 /\ gaps = 0
  /\ lostFor = {}
  /\ renamed = NoRename

Message(k, v) == [key |-> k, value |-> v]

(* connection.send: without a socket nothing is sent.                      *)
Send(ms) ==
  /\ sent' = IF attached THEN sent \cup ms ELSE sent
  /\ lostFor' = IF attached THEN lostFor ELSE lostFor \cup {m.key : m \in ms}
  /\ UNCHANGED <<attached, echoes, reply>>

Touch == touches < MaxTouches /\ touches' = touches + 1

Disturbs(ks) == renamed' = IF {renamed.old, renamed.new} \cap ks = {} THEN renamed ELSE NoRename

----------------------------------------------------------------------------
(* The user.                                                               *)

(* The + of the list: a default under a free key, shown at once, selected. *)
AddVariable(k) ==
  /\ Touch
  /\ listed[k] = Gone
  /\ Send({Message(k, 0)})
  /\ IF stepPending[k] \in {Gone, 0}
       THEN listed' = [listed EXCEPT ![k] = 0] /\ stepPending' = [stepPending EXCEPT ![k] = Gone]
       ELSE listed' = [listed EXCEPT ![k] = stepPending[k]] /\ UNCHANGED stepPending
  /\ card' = Message(k, 0)
  /\ UNCHANGED <<stored, painted, timers, gaps, renamed>>

SelectVariable(k) ==
  /\ listed[k] # Gone
  /\ card' = Message(k, listed[k])
  /\ UNCHANGED <<stored, listed, painted, stepPending, timers, wire, touches, gaps,
                 renamed>>

(* An asset is selected instead.                                           *)
LeaveCard ==
  /\ card # NoCard
  /\ card' = NoCard
  /\ UNCHANGED <<stored, listed, painted, stepPending, timers, wire, touches, gaps,
                 renamed>>

(* The card's value, +, -, reset, set: sent at once, shown on the card     *)
(* only, and through the echo elsewhere.                                   *)
SetOnCard(v) ==
  /\ Touch
  /\ card # NoCard
  /\ card' = [card EXCEPT !.value = v]
  /\ Send({Message(card.key, v)})
  /\ UNCHANGED <<stored, listed, painted, stepPending, timers, gaps, renamed>>

(* The quick +/- of a row: shown and masked at once, sent by the timer.    *)
ClickStep(k, v) ==
  /\ Touch
  /\ listed[k] # Gone
  /\ v = listed[k] + 1 \/ v + 1 = listed[k]
  /\ listed' = [listed EXCEPT ![k] = v]
  /\ stepPending' = [stepPending EXCEPT ![k] = v]
  /\ timers' = timers \cup {k}
  /\ UNCHANGED <<stored, painted, card, wire, gaps, renamed>>

(* It sends what is pending by then: nothing, if an echo has just had the  *)
(* same value.                                                             *)
StepTimerFires(k) ==
  /\ k \in timers
  /\ timers' = timers \ {k}
  /\ IF stepPending[k] = Gone THEN UNCHANGED wire ELSE Send({Message(k, stepPending[k])})
  /\ UNCHANGED <<stored, listed, painted, card, stepPending, touches, gaps, renamed>>

DeleteVariable(k) ==
  /\ Touch
  /\ listed[k] # Gone
  /\ Send({Message(k, Gone)})
  /\ Disturbs({k})
  /\ UNCHANGED <<stored, local, gaps>>

ClearStep(k) ==
  /\ timers' = timers \ {k}
  /\ stepPending' = [stepPending EXCEPT ![k] = Gone]

(* Mutant of RenameMessages: a value still to be sent is left to its timer *)
(* (which the rename has cleared).                                         *)
RenameMessagesLate(old, new) ==
  IF old \in timers THEN {Message(old, Gone)}
                    ELSE {Message(new, listed[old]), Message(old, Gone)}

RenameMessages(old, new) == {Message(new, listed[old]), Message(old, Gone)}

(* onVariableRename: the key is the identity.                              *)
RenameVariable(old, new) ==
  /\ Touch
  /\ card.key = old
  /\ listed[old] # Gone
  /\ listed[new] = Gone
  /\ Send(RenameMessages(old, new))
  /\ ClearStep(old)
  /\ listed' = [listed EXCEPT ![new] = listed[old], ![old] = Gone]
  /\ card' = Message(new, listed[old])
  /\ renamed' = IF attached /\ Message(new, Gone) \notin sent
                  THEN [old |-> old, new |-> new] ELSE NoRename
  /\ UNCHANGED <<stored, painted, gaps>>

(* The new key is taken: the card goes back to the old one.                *)
RefuseRename(old, new) ==
  /\ card.key = old
  /\ listed[old] # Gone
  /\ listed[new] # Gone
  /\ card' = Message(old, listed[old])
  /\ UNCHANGED <<stored, listed, painted, stepPending, timers, wire, touches, gaps,
                 renamed>>

----------------------------------------------------------------------------
(* The handler and the others.                                             *)

Store(m) ==
  /\ stored' = [stored EXCEPT ![m.key] = m.value]
  /\ echoes' = IF attached THEN echoes \cup {m} ELSE echoes
  /\ lostFor' = IF attached \/ m.key \in lostFor THEN lostFor ELSE lostFor \cup {m.key}

(* setVariable, deleteVariable: no condition.                              *)
ProcessMessage(m) ==
  /\ m \in sent
  /\ sent' = sent \ {m}
  /\ Store(m)
  /\ UNCHANGED <<local, attached, reply, touches, gaps, renamed>>

FailMessage(m) ==
  /\ gaps < MaxGaps
  /\ gaps' = gaps + 1
  /\ m \in sent
  /\ sent' = sent \ {m}
  /\ lostFor' = lostFor \cup {m.key}
  /\ Disturbs({m.key})
  /\ UNCHANGED <<stored, local, attached, echoes, reply, touches>>

OtherStores(k, v) ==
  /\ Touch
  /\ v # stored[k]
  /\ Store(Message(k, v))
  /\ IF v = Gone THEN Disturbs({k}) ELSE UNCHANGED renamed
  /\ UNCHANGED <<local, attached, sent, reply, gaps>>

Disconnect ==
  /\ attached
  /\ gaps < MaxGaps
  /\ gaps' = gaps + 1
  /\ attached' = FALSE
  /\ lostFor' = lostFor \cup {m.key : m \in echoes}
  /\ echoes' = {}
  /\ reply' = NoReply
  /\ UNCHANGED <<stored, local, sent, touches, renamed>>

Reconnect ==
  /\ ~attached
  /\ attached' = TRUE
  /\ reply' = Ask
  /\ UNCHANGED <<stored, local, sent, echoes, lostFor, touches, gaps, renamed>>

(* The fallback interval: no message on variables arms the settle timer.   *)
AskAgain ==
  /\ attached
  /\ reply = NoReply
  /\ reply' = Ask
  /\ UNCHANGED <<stored, local, attached, sent, echoes, lostFor, touches, gaps,
                 renamed>>

AnswerSnapshot ==
  /\ reply = Ask
  /\ reply' = [stage |-> "sent", all |-> stored]
  /\ UNCHANGED <<stored, local, attached, sent, echoes, lostFor, touches, gaps,
                 renamed>>

----------------------------------------------------------------------------
(* What arrives.                                                           *)

(* Mutant of Reconciled: variables that are not in the snapshot are kept.  *)
ReconciledMerge(all) ==
  [k \in Labels |-> IF all[k] = Gone THEN listed[k]
                    ELSE IF stepPending[k] # Gone THEN stepPending[k] ELSE all[k]]

(* setVariables: the snapshot, but for values being stepped.               *)
Reconciled(all) ==
  [k \in Labels |-> IF all[k] # Gone /\ stepPending[k] # Gone THEN stepPending[k] ELSE all[k]]

(* Mutant of CardAfter: the card stays, whatever the snapshot lacks.       *)
CardAfterAnyway(k, v) == Message(k, v)

CardAfter(k, v) == IF v = Gone THEN NoCard ELSE Message(k, v)

ReceiveVariables ==
  /\ reply.stage = "sent"
  /\ reply' = NoReply
  /\ listed' = Reconciled(reply.all)
  /\ painted' = reply.all
  /\ card' = IF card = NoCard THEN NoCard ELSE CardAfter(card.key, reply.all[card.key])
  /\ UNCHANGED <<stored, stepPending, timers, attached, sent, echoes, lostFor, touches,
                 gaps, renamed>>

(* variable:updated: masked while another value is pending.                *)
ReceiveUpdated(m) ==
  /\ m \in echoes
  /\ m.value # Gone
  /\ echoes' = echoes \ {m}
  /\ IF stepPending[m.key] \in {Gone, m.value}
       THEN /\ stepPending' = [stepPending EXCEPT ![m.key] = Gone]
            /\ listed' = [listed EXCEPT ![m.key] = m.value]
       ELSE /\ listed' = [listed EXCEPT ![m.key] = stepPending[m.key]]
            /\ UNCHANGED stepPending
  /\ painted' = [painted EXCEPT ![m.key] = m.value]
  /\ card' = IF card.key = m.key THEN m ELSE card
  /\ UNCHANGED <<stored, timers, attached, sent, reply, lostFor, touches, gaps,
                 renamed>>

(* Mutant of ReceiveDeleted: the timer is cleared, the mask is not.        *)
ReceiveDeletedMasked(m) ==
  /\ m \in echoes
  /\ m.value = Gone
  /\ echoes' = echoes \ {m}
  /\ timers' = timers \ {m.key}
  /\ listed' = [listed EXCEPT ![m.key] = Gone]
  /\ painted' = [painted EXCEPT ![m.key] = Gone]
  /\ card' = IF card.key = m.key THEN NoCard ELSE card
  /\ UNCHANGED <<stored, stepPending, attached, sent, reply, lostFor, touches, gaps,
                 renamed>>

(* variable:deleted.                                                       *)
ReceiveDeleted(m) ==
  /\ m \in echoes
  /\ m.value = Gone
  /\ echoes' = echoes \ {m}
  /\ ClearStep(m.key)
  /\ listed' = [listed EXCEPT ![m.key] = Gone]
  /\ painted' = [painted EXCEPT ![m.key] = Gone]
  /\ card' = IF card.key = m.key THEN NoCard ELSE card
  /\ UNCHANGED <<stored, attached, sent, reply, lostFor, touches, gaps, renamed>>

----------------------------------------------------------------------------
VariablesNext ==
  \/ \E k \in Labels :
       \/ AddVariable(k) \/ SelectVariable(k) \/ DeleteVariable(k) \/ StepTimerFires(k)
       \/ \E v \in Numbers : ClickStep(k, v)
       \/ \E v \in Contents : OtherStores(k, v)
       \/ \E new \in Labels \ {k} : RenameVariable(k, new) \/ RefuseRename(k, new)
  \/ LeaveCard
  \/ \E v \in Numbers : SetOnCard(v)
  \/ \E m \in sent : ProcessMessage(m) \/ FailMessage(m)
  \/ Disconnect \/ Reconnect \/ AskAgain \/ AnswerSnapshot \/ ReceiveVariables
  \/ \E m \in echoes : ReceiveUpdated(m) \/ ReceiveDeleted(m)

VariablesSpec == VariablesInit /\ [][VariablesNext]_variableVars

(* Timers fire, what was sent is processed and arrives, a client           *)
(* reconnects and polls.                                                   *)
VariablesFairness ==
  /\ \A k \in Labels : WF_variableVars(StepTimerFires(k))
  /\ WF_variableVars(\E m \in sent : ProcessMessage(m))
  /\ WF_variableVars(Reconnect)
  /\ WF_variableVars(AskAgain)
  /\ WF_variableVars(AnswerSnapshot)
  /\ WF_variableVars(ReceiveVariables)
  /\ WF_variableVars(\E m \in echoes : ReceiveUpdated(m) \/ ReceiveDeleted(m))

VariablesFairSpec == VariablesSpec /\ VariablesFairness

----------------------------------------------------------------------------
(* Properties.                                                             *)

(* variablesPanel.ts:24-31, 83-96: a row refuses what the room says only   *)
(* while its stepped value is still to be sent, processed or echoed, or    *)
(* if one of these was lost: then the row stays deaf.                      *)
MaskIsAwaited ==
  \A k \in Labels :
    stepPending[k] # Gone =>
      k \in timers \/ k \in lostFor \/ Message(k, stepPending[k]) \in sent \cup echoes

(* main.ts:872-874: in whatever order its two messages are processed, a    *)
(* rename never leaves the room without the variable, unless one of them   *)
(* fails or either key is deleted or renamed again.                        *)
RenameLosesNothing ==
  renamed # NoRename =>
    \/ stored[renamed.old] # Gone \/ stored[renamed.new] # Gone
    \/ \E m \in sent : m.key = renamed.new /\ m.value # Gone

(* What was stepped, and what was renamed, is not silently given up.       *)
EditsAreAwaited == MaskIsAwaited /\ RenameLosesNothing

(* main.ts:994-998: writes carry no seq and broadcasts overtake each other,*)
(* but in the end list, canvas and card say what the room says, except for *)
(* rows that are deaf.                                                     *)
VariablesConverge ==
  <>[](/\ painted = stored
       /\ \A k \in Labels : IF stepPending[k] = Gone THEN listed[k] = stored[k]
                                                 ELSE k \in lostFor
       /\ card # NoCard => card.value = stored[card.key] \/ stepPending[card.key] # Gone)
=============================================================================
