--------------------------- MODULE SettingsPanels ---------------------------
(***************************************************************************)
(* The two panels of the control UI over the seq-guarded settings of a     *)
(* room: the volume sliders (sound.ts) and the stream preview              *)
(* (streamPreview.ts), with what main.ts does when rooms are switched and  *)
(* what the WebSocket handler does with their messages.  Both stamp a seq, *)
(* show their own change at once and send it; the volume panel is made     *)
(* anew with every room, the preview panel is one object for all rooms.    *)
(* A behaviour is about one of the two.                                    *)
(*                                                                         *)
(* Abstracted: the embed, the opacity, the modal's layout, the platform    *)
(* (whose select sends it with the channel that is shown); the handler's   *)
(* conditional write is one step with its broadcast (module RoomTable has  *)
(* the races at the row, and who may connect at all is in Accounts).       *)
(***************************************************************************)
EXTENDS Naturals

CONSTANTS
  Studios,      \* rooms this account is a member of
  OwnStudio,    \* personalRoomId: the one it owns
  Levels,       \* volumes
  FirstLevel,   \* the volume a new panel, and a new room, starts with
  NoChannel,    \* what the dialog holds when it is closed
  PanelMaxSeq,  \* bound on every seq
  MaxBreaks     \* bound on the switches of rooms and the drops of the connection

ASSUME StudioAssumption == OwnStudio \in Studios /\ NoChannel \notin Studios
ASSUME LevelAssumption == FirstLevel \in Levels
ASSUME PanelBoundsAssumption ==
  PanelMaxSeq \in Nat /\ MaxBreaks \in Nat

VARIABLES
  kind,       \* which panel this is about: "sound" or "preview"
  setting,    \* setting[r]: the setting in the row of room r, with its seq
  here,       \* the room that is shown
  online,     \* its connection has a socket
  entered,    \* the first snapshot of this visit has been applied
  shown,      \* what the panel shows
  lastSeq,    \* the panel's lastSeq
  dialog,     \* what the settings modal was opened with, or NoChannel
  calls,      \* messages of this client that no invocation has processed yet
  news,       \* broadcasts under way to this client
  answer,     \* its snapshot request: asked, answered, or none
  breaks,     \* switches and drops so far
  stranded,   \* history: lastSeq is of a change that was not processed
  hasty       \* history: the owner began a change before the first snapshot

panelVars == <<kind, setting, here, online, entered, shown, lastSeq, dialog, calls,
               news, answer, breaks, stranded, hasty>>

----------------------------------------------------------------------------
(* A volume; or a stream channel, which is named by the room it was        *)
(* configured in.                                                          *)
Choices == IF kind = "sound" THEN Levels ELSE Studios

FirstChoice(r) == IF kind = "sound" THEN FirstLevel ELSE r

PanelSeqs == 0..PanelMaxSeq

NoAnswer == [stage |-> "none"]
AskedAnswer == [stage |-> "asked"]

PanelsTypeOK ==
  /\ kind \in {"sound", "preview"}
  /\ setting \in [Studios -> [seq : PanelSeqs, choice : Choices]]
  /\ here \in Studios
  /\ online \in BOOLEAN /\ entered \in BOOLEAN
  /\ stranded \in BOOLEAN /\ hasty \in BOOLEAN
  /\ dialog \in Studios \cup {NoChannel}
  /\ shown \in Choices
  /\ lastSeq \in PanelSeqs
  /\ \A c \in calls : c.studio \in Studios /\ c.seq \in PanelSeqs /\ c.choice \in Choices
  /\ \A n \in news : n.seq \in PanelSeqs /\ n.choice \in Choices
  /\ answer.stage \in {"none", "asked", "sent"}
  /\ breaks \in 0..MaxBreaks

PanelsInit ==
  /\ kind \in {"sound", "preview"}
  /\ setting = [r \in Studios |-> [seq |-> 0, choice |-> FirstChoice(r)]]
  /\ here \in Studios
  /\ online = FALSE
  /\ entered = FALSE
  /\ shown = FirstChoice(here)
  /\ lastSeq = 0
  /\ dialog = NoChannel
  /\ calls = {}
  /\ news = {}
  /\ answer = NoAnswer
  /\ breaks = 0
  /\ stranded = FALSE
  /\ hasty = FALSE

----------------------------------------------------------------------------
(* Entering rooms and the connection.                                      *)

(* Mutant of EnterStudio: the volume panel too serves one room after the   *)
(* other, its lastSeq with it.                                             *)
EnterStudioKeeping(r) ==
  /\ breaks < MaxBreaks
  /\ breaks' = breaks + 1
  /\ here' = r
  /\ online' = FALSE
  /\ entered' = FALSE
  /\ news' = {}
  /\ answer' = NoAnswer
  /\ stranded' = FALSE
  /\ UNCHANGED <<kind, setting, shown, lastSeq, dialog, calls, hasty>>

(* showRoomView: the old connection is stopped, a new one opened; a new    *)
(* SoundPanel, the same StreamPreviewPanel.  The modal is not closed.      *)
EnterStudio(r) ==
  /\ breaks < MaxBreaks
  /\ breaks' = breaks + 1
  /\ here' = r
  /\ online' = FALSE
  /\ entered' = FALSE
  /\ news' = {}
  /\ answer' = NoAnswer
  /\ stranded' = FALSE
  /\ IF kind = "sound"
       THEN shown' = FirstLevel /\ lastSeq' = 0
       ELSE UNCHANGED <<shown, lastSeq>>
  /\ UNCHANGED <<kind, setting, dialog, calls, hasty>>

(* onOpen asks for a snapshot ...                                          *)
OpenSocket ==
  /\ ~online
  /\ online' = TRUE
  /\ answer' = AskedAnswer
  /\ UNCHANGED <<kind, setting, here, entered, shown, lastSeq, dialog, calls, news,
                 breaks, stranded, hasty>>

(* ... and so do the settle timer, the fallback interval, a swap of the    *)
(* socket and the refresh button.                                          *)
PollStudio ==
  /\ online
  /\ answer = NoAnswer
  /\ answer' = AskedAnswer
  /\ UNCHANGED <<kind, setting, here, online, entered, shown, lastSeq, dialog, calls,
                 news, breaks, stranded, hasty>>

LoseSocket ==
  /\ online
  /\ breaks < MaxBreaks
  /\ breaks' = breaks + 1
  /\ online' = FALSE
  /\ news' = {}
  /\ answer' = NoAnswer
  /\ UNCHANGED <<kind, setting, here, entered, shown, lastSeq, dialog, calls,
                 stranded, hasty>>

----------------------------------------------------------------------------
(* The user's changes.                                                     *)

(* nextSeq(): the wall clock, or one more than the last.                   *)
NextSeq(now) == IF now > lastSeq THEN now ELSE lastSeq + 1

Hasty == hasty' = (hasty \/ (kind = "preview" /\ here = OwnStudio /\ ~entered))

(* The panel shows v under a new seq; send drops it without a socket.      *)
Change(now, v) ==
  LET seq == NextSeq(now) IN
    /\ seq \in PanelSeqs
    /\ shown' = v
    /\ lastSeq' = seq
    /\ calls' = IF online
                  THEN calls \cup {[studio |-> here, seq |-> seq, choice |-> v]} ELSE calls
    /\ stranded' = ~online
    /\ Hasty
    /\ UNCHANGED <<kind, setting, here, online, entered, news, answer, breaks>>

DragVolume(now, v) ==
  /\ kind = "sound"
  /\ v # shown
  /\ Change(now, v)
  /\ UNCHANGED dialog

(* The select and the gear are the owner's ...                             *)
SelectPlatform(now) ==
  /\ kind = "preview"
  /\ here = OwnStudio
  /\ Change(now, shown)
  /\ UNCHANGED dialog

OpenDialog ==
  /\ kind = "preview"
  /\ here = OwnStudio
  /\ dialog = NoChannel
  /\ dialog' = shown
  /\ Hasty
  /\ UNCHANGED <<kind, setting, here, online, entered, shown, lastSeq, calls, news,
                 answer, breaks, stranded>>

(* Mutant of SaveDialog: the dialog is emptied before it is read.          *)
SaveDialogLate(now, c) ==
  /\ dialog # NoChannel
  /\ c \in {dialog, here}
  /\ dialog' = NoChannel
  /\ Change(now, NoChannel)

(* ... but Save asks nobody; c is what was there, or a channel of here.    *)
SaveDialog(now, c) ==
  /\ dialog # NoChannel
  /\ c \in {dialog, here}
  /\ dialog' = NoChannel
  /\ Change(now, c)

CloseDialog ==
  /\ dialog # NoChannel
  /\ dialog' = NoChannel
  /\ UNCHANGED <<kind, setting, here, online, entered, shown, lastSeq, calls, news,
                 answer, breaks, stranded, hasty>>

----------------------------------------------------------------------------
(* The handler, and the other members.                                     *)

Accepts(r, seq) == setting[r].seq < seq

MayChange(r) == kind = "preview" => r = OwnStudio

Write(r, seq, v) ==
  /\ setting' = [setting EXCEPT ![r] = [seq |-> seq, choice |-> v]]
  /\ news' = IF online /\ r = here THEN news \cup {[seq |-> seq, choice |-> v]} ELSE news

Latest(c) == c.studio = here /\ c.seq = lastSeq

(* A change of this client is written and broadcast, its own client        *)
(* included; or found stale, or from somebody who is not the owner.        *)
ProcessCall(c) ==
  /\ c \in calls
  /\ calls' = calls \ {c}
  /\ IF MayChange(c.studio) /\ Accepts(c.studio, c.seq)
       THEN Write(c.studio, c.seq, c.choice)
       ELSE UNCHANGED <<setting, news>>
  /\ stranded' = (stranded \/ (~MayChange(c.studio) /\ Latest(c)))
  /\ UNCHANGED <<kind, here, online, entered, shown, lastSeq, dialog, answer, breaks, hasty>>

(* The invocation throws before it has written.                            *)
FailCall(c) ==
  /\ c \in calls
  /\ calls' = calls \ {c}
  /\ stranded' = (stranded \/ Latest(c))
  /\ UNCHANGED <<kind, setting, here, online, entered, shown, lastSeq, dialog, news,
                 answer, breaks, hasty>>

(* Another member (of the preview: the owner, in another tab).             *)
OtherChanges(r, seq, v) ==
  /\ Accepts(r, seq)
  /\ kind = "preview" => v = r
  /\ Write(r, seq, v)
  /\ UNCHANGED <<kind, here, online, entered, shown, lastSeq, dialog, calls, answer,
                 breaks, stranded, hasty>>

AnswerPoll ==
  /\ answer.stage = "asked"
  /\ answer' = [stage |-> "sent", seq |-> setting[here].seq,
                choice |-> setting[here].choice]
  /\ UNCHANGED <<kind, setting, here, online, entered, shown, lastSeq, dialog, calls,
                 news, breaks, stranded, hasty>>

----------------------------------------------------------------------------
(* What arrives.                                                           *)

Accept(seq, v) ==
  /\ shown' = v
  /\ lastSeq' = seq
  /\ stranded' = (stranded /\ seq = lastSeq /\ v = shown)

(* Mutant of Apply: an equal seq is refused too.                           *)
ApplyNewer(seq, v) ==
  IF seq <= lastSeq THEN UNCHANGED <<shown, lastSeq, stranded>>
                    ELSE Accept(seq, v)

(* setGlobalVolume, applySettings.                                         *)
Apply(seq, v) ==
  IF seq < lastSeq THEN UNCHANGED <<shown, lastSeq, stranded>>
                   ELSE Accept(seq, v)

ReceiveNews(n) ==
  /\ n \in news
  /\ news' = news \ {n}
  /\ Apply(n.seq, n.choice)
  /\ UNCHANGED <<kind, setting, here, online, entered, dialog, calls, answer, breaks, hasty>>

(* Mutant of ReceiveSnapshot: the first snapshot is guarded like the       *)
(* others (streamPreview.ts:392-401 describes what this did).              *)
ReceiveSnapshotGuarded ==
  /\ answer.stage = "sent"
  /\ answer' = NoAnswer
  /\ Apply(answer.seq, answer.choice)
  /\ entered' = TRUE
  /\ UNCHANGED <<kind, setting, here, online, dialog, calls, news, breaks,
                 hasty>>

(* room:snapshot: enterRoom bypasses the guard for the first of a visit.   *)
ReceiveSnapshot ==
  /\ answer.stage = "sent"
  /\ answer' = NoAnswer
  /\ IF kind = "preview" /\ ~entered
       THEN Accept(answer.seq, answer.choice)
       ELSE Apply(answer.seq, answer.choice)
  /\ entered' = TRUE
  /\ UNCHANGED <<kind, setting, here, online, dialog, calls, news, breaks,
                 hasty>>

----------------------------------------------------------------------------
PanelsNext ==
  \/ \E r \in Studios : EnterStudio(r)
  \/ OpenSocket \/ PollStudio \/ LoseSocket
  \/ \E now \in 1..PanelMaxSeq :
       \/ \E v \in Levels : DragVolume(now, v)
       \/ SelectPlatform(now)
       \/ \E c \in Studios : SaveDialog(now, c)
       \/ \E r \in Studios, v \in Choices : OtherChanges(r, now, v)
  \/ OpenDialog \/ CloseDialog
  \/ \E c \in calls : ProcessCall(c) \/ FailCall(c)
  \/ AnswerPoll \/ ReceiveSnapshot
  \/ \E n \in news : ReceiveNews(n)

PanelsSpec == PanelsInit /\ [][PanelsNext]_panelVars

(* A client reconnects and polls, what was sent is processed and arrives.  *)
PanelsFairness ==
  /\ WF_panelVars(OpenSocket)
  /\ WF_panelVars(PollStudio)
  /\ WF_panelVars(\E c \in calls : ProcessCall(c))
  /\ WF_panelVars(AnswerPoll)
  /\ WF_panelVars(ReceiveSnapshot)
  /\ WF_panelVars(\E n \in news : ReceiveNews(n))

PanelsFairSpec == PanelsSpec /\ PanelsFairness

----------------------------------------------------------------------------
(* Properties.                                                             *)

(* sound.ts:92-97, streamPreview.ts:378-383, 392-401: once a room's        *)
(* snapshot has come, a panel is never ahead of that room (and deaf to it) *)
(* but by a change its user made in this visit: one that is under way, or  *)
(* that never was processed.  Nothing of an earlier room keeps it ahead.   *)
PanelsAheadOnlyWhilePending ==
  (entered /\ lastSeq > setting[here].seq) => stranded \/ \E c \in calls : Latest(c)

(* streamPreview.ts:392-401: nothing of one room's channels gets into      *)
(* another, unless the owner changed the room's settings in the moment     *)
(* before they were there to see.                                          *)
ChannelsStayHome ==
  (kind = "preview" /\ ~hasty) => \A r \in Studios : setting[r].choice = r

(* A panel and the room it is in have nothing of another room between them.*)
PanelsInStep == PanelsAheadOnlyWhilePending /\ ChannelsStayHome

(* main.ts:973-993 and the polls: in the end the panel shows the setting   *)
(* of the room it is in, unless its last change was never processed.       *)
PanelsConverge ==
  <>[](entered /\ (shown = setting[here].choice \/ stranded))
=============================================================================
