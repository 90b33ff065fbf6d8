------------------------------ MODULE Playback ------------------------------
(***************************************************************************)
(* One clip with playback (video, audio or YouTube) on one screen: an      *)
(* editor's canvas (canvas.ts) or the browser source (render.ts).  The     *)
(* screen has an element that plays on by itself and a copy of the asset   *)
(* with which the element is brought in line.  paused, loop and muted are  *)
(* fields of the asset; the position is not: stop and seek are messages    *)
(* that are relayed and stored nowhere.  Screens meet only in the messages *)
(* of editors, and the other editors send any, so one screen is enough.    *)
(*                                                                         *)
(* Abstracted: a position is the start, the middle or the end; the volume; *)
(* seqs are the order in which changes are made (skewed clocks, lost       *)
(* changes and drags are in CanvasSync).                                   *)
(***************************************************************************)
EXTENDS Naturals

CONSTANTS
  MaxTakes,   \* bound on the changes, stops and seeks
  MaxFaults   \* bound on refused plays and interrupted connections

ASSUME TakeAssumption == MaxTakes \in Nat /\ MaxFaults \in Nat

VARIABLES
  player,      \* "file" (a media element) or "youtube" (youtubePlayer.ts)
  screen,      \* "canvas" or "overlay"
  clip,        \* the asset's row
  copy,        \* the asset as the screen has it
  el,          \* the screen's element
  suppressed,  \* the browser source's endedWhileNotLooping
  outbox,      \* messages of the editors that no invocation has processed
  mail,        \* broadcasts under way to the screen
  polled,      \* the row read for the screen's snapshot, under way, or none
  takes, faults,   \* counters
  over,        \* history: the browser source's clip has ended, and nothing since
               \* then has told it that it is paused, looped or stopped
  stopStands,  \* history: the last command was Stop
  playedOn     \* history: the screen was to play when that came, or after

playVars == <<player, screen, clip, copy, el, suppressed, outbox, mail, polled, takes,
              faults, over, stopStands, playedOn>>
link == <<outbox, mail, polled>>
told == <<over, stopStands, playedOn>>
counts == <<takes, faults>>
kinds == <<player, screen>>

----------------------------------------------------------------------------
Fields == {"paused", "loop", "muted"}
Clips == [paused : BOOLEAN, loop : BOOLEAN, muted : BOOLEAN, seq : 0..MaxTakes]
Elements ==
  [paused : BOOLEAN, loop : BOOLEAN, muted : BOOLEAN, place : {"start", "middle", "end"},
   wants : SUBSET BOOLEAN,   \* the mute that a play() under way will leave behind
   ready : BOOLEAN]          \* the YouTube player exists

FieldChange(field, value, seq) ==
  [what |-> "update", field |-> field, value |-> value, seq |-> seq]
StopNote == [what |-> "stop"]
SeekNote == [what |-> "seek"]
NoPoll == [stage |-> "none"]

PlayTypeOK ==
  /\ player \in {"file", "youtube"} /\ screen \in {"canvas", "overlay"}
  /\ {clip, copy} \subseteq Clips
  /\ el \in Elements
  /\ {suppressed, over, stopStands, playedOn} \subseteq BOOLEAN
  /\ \A m \in outbox \cup mail : m.what \in {"update", "stop", "seek"}
  /\ polled.stage \in {"none", "sent"}
  /\ takes \in 0..MaxTakes /\ faults \in 0..MaxFaults

PlayInit ==
  /\ player \in {"file", "youtube"} /\ screen \in {"canvas", "overlay"}
  /\ clip = [paused |-> TRUE, loop |-> FALSE, muted |-> FALSE, seq |-> 0]
  /\ copy = clip
  /\ el = [paused |-> TRUE, loop |-> FALSE, muted |-> FALSE, place |-> "start",
           wants |-> {}, ready |-> player = "file"]
  /\ suppressed = FALSE
  /\ outbox = {} /\ mail = {} /\ polled = NoPoll
  /\ takes = 0 /\ faults = 0
  /\ over = FALSE /\ stopStands = FALSE /\ playedOn = FALSE

Take ==
  /\ takes < MaxTakes
  /\ takes' = takes + 1

----------------------------------------------------------------------------
(* Bringing an element in line.                                            *)

(* play(): from the start if it was at the end; muted for the moment.  A   *)
(* media element's promise restores the mute it was called with, a YouTube *)
(* player unmutes when it plays, if it has to.                             *)
Play(e, a) ==
  [e EXCEPT !.paused = FALSE, !.muted = TRUE,
            !.place = IF e.place = "end" THEN "start" ELSE e.place,
            !.wants = IF player = "file" THEN e.wants \cup {a.muted}
                      ELSE {FALSE} \ {a.muted}]

(* Mutant of Sync: an element that plays is left alone.                    *)
SyncPausedOnly(e, a) ==
  IF ~e.ready THEN e
  ELSE IF a.paused /\ ~e.paused THEN [e EXCEPT !.loop = a.loop, !.paused = TRUE, !.muted = a.muted]
  ELSE IF ~a.paused /\ e.paused THEN Play([e EXCEPT !.loop = a.loop], a)
  ELSE [e EXCEPT !.loop = a.loop]

(* syncMediaState, applySync: only what differs is touched.  Before the    *)
(* YouTube player is ready the call is kept for later.                     *)
Sync(e, a) ==
  IF ~e.ready THEN e
  ELSE IF a.paused /\ ~e.paused THEN [e EXCEPT !.loop = a.loop, !.paused = TRUE, !.muted = a.muted]
  ELSE IF ~a.paused /\ e.paused THEN Play([e EXCEPT !.loop = a.loop], a)
  ELSE [e EXCEPT !.loop = a.loop, !.muted = a.muted]

(* currentTime = 0; seekToStart also pauses a YouTube player.              *)
Rewound(e) ==
  IF ~e.ready THEN e
  ELSE [e EXCEPT !.place = "start", !.paused = IF player = "youtube" THEN TRUE ELSE e.paused]

Scrubbed(e) == IF e.ready THEN [e EXCEPT !.place = "middle"] ELSE e

(* Mutant of Applies: a clip that has ended is brought in line like others.*)
AppliesAlways(a) ==
  /\ suppressed' = FALSE
  /\ el' = Sync(el, a)

(* applyAll of the canvas; applyImmediateFields of the browser source: not *)
(* while the clip has ended by itself and the asset says that it plays and *)
(* does not loop.                                                          *)
Applies(a) ==
  IF suppressed /\ ~a.paused /\ ~a.loop
    THEN UNCHANGED <<suppressed, el>>
    ELSE /\ suppressed' = FALSE
         /\ el' = Sync(el, a)

(* What the histories make of a new copy.                                  *)
Told(a) ==
  /\ over' = (over /\ ~a.paused /\ ~a.loop)
  /\ playedOn' = (playedOn \/ (stopStands /\ ~a.paused))

----------------------------------------------------------------------------
(* The editor whose canvas this is.                                        *)

(* patchAsset: applied at once, sent with the next seq.                    *)
Patched(field, value) == [copy EXCEPT ![field] = value, !.seq = takes + 1]

PressButton(field) ==
  LET a == Patched(field, ~copy[field]) IN
    /\ screen = "canvas"
    /\ Take
    /\ copy' = a
    /\ el' = Sync(el, a)
    /\ outbox' = outbox \cup {FieldChange(field, a[field], a.seq)}
    /\ stopStands' = (stopStands /\ field # "paused")
    /\ UNCHANGED <<kinds, clip, suppressed, mail, polled, faults, over, playedOn>>

(* stopAsset: a pause, the element rewound, and a stop for the others.     *)
PressStop ==
  LET a == Patched("paused", TRUE) IN
    /\ screen = "canvas"
    /\ Take
    /\ copy' = a
    /\ el' = Rewound(Sync(el, a))
    /\ outbox' = outbox \cup {FieldChange("paused", TRUE, a.seq), StopNote}
    /\ stopStands' = (SeekNote \notin outbox \cup mail)
    /\ playedOn' = FALSE
    /\ UNCHANGED <<kinds, clip, suppressed, mail, polled, faults, over>>

(* seekAsset.                                                              *)
DragSeek ==
  /\ screen = "canvas"
  /\ Take
  /\ el' = Scrubbed(el)
  /\ outbox' = outbox \cup {SeekNote}
  /\ stopStands' = FALSE
  /\ UNCHANGED <<kinds, clip, copy, suppressed, mail, polled, faults, over, playedOn>>

----------------------------------------------------------------------------
(* The other editors, and the handler.                                     *)

OtherPresses(field) ==
  /\ Take
  /\ outbox' = outbox \cup {FieldChange(field, ~clip[field], takes + 1)}
  /\ stopStands' = (stopStands /\ field # "paused")
  /\ UNCHANGED <<kinds, clip, copy, el, suppressed, mail, polled, faults, over, playedOn>>

OtherStops ==
  /\ Take
  /\ outbox' = outbox \cup {FieldChange("paused", TRUE, takes + 1), StopNote}
  /\ stopStands' = (SeekNote \notin outbox \cup mail)
  /\ playedOn' = FALSE
  /\ UNCHANGED <<kinds, clip, copy, el, suppressed, mail, polled, faults, over>>

OtherSeeks ==
  /\ Take
  /\ outbox' = outbox \cup {SeekNote}
  /\ stopStands' = FALSE
  /\ UNCHANGED <<kinds, clip, copy, el, suppressed, mail, polled, faults, over, playedOn>>

(* asset:update if it is not stale; asset:stop and asset:seek are relayed. *)
ProcessTake(m) ==
  /\ m \in outbox
  /\ outbox' = outbox \ {m}
  /\ IF m.what # "update" THEN mail' = mail \cup {m} /\ UNCHANGED clip
     ELSE IF clip.seq < m.seq
       THEN /\ clip' = [clip EXCEPT ![m.field] = m.value, !.seq = m.seq]
            /\ mail' = mail \cup {m}
       ELSE UNCHANGED <<clip, mail>>
  /\ UNCHANGED <<kinds, copy, el, suppressed, polled, counts, told>>

(* A connection that comes back has missed what was sent.                  *)
MissMail ==
  /\ faults < MaxFaults
  /\ mail # {}
  /\ faults' = faults + 1
  /\ mail' = {} /\ polled' = NoPoll
  /\ stopStands' = FALSE
  /\ UNCHANGED <<kinds, clip, copy, el, suppressed, outbox, takes, over, playedOn>>

(* The screen polls, and the row is read; the answer may take its time.    *)
PollPlay ==
  /\ polled = NoPoll
  /\ polled' = [stage |-> "sent", clip |-> clip]
  /\ UNCHANGED <<kinds, clip, copy, el, suppressed, outbox, mail, counts, told>>

----------------------------------------------------------------------------
(* What arrives.                                                           *)

Adopt(a) ==
  /\ copy' = a
  /\ Applies(a)
  /\ Told(a)

Ignore == UNCHANGED <<copy, el, suppressed, over, playedOn>>

(* Mutant of HearUpdate: the copy is stamped anew, as if changed here.      *)
HearUpdateRestamped(m) ==
  /\ m \in mail
  /\ m.what = "update"
  /\ mail' = mail \ {m}
  /\ IF m.seq < copy.seq THEN Ignore
     ELSE Adopt([copy EXCEPT ![m.field] = m.value, !.seq = m.seq + 1])
  /\ UNCHANGED <<kinds, clip, outbox, polled, counts, stopStands>>

(* asset:updated, behind the same guard on both screens.                   *)
HearUpdate(m) ==
  /\ m \in mail
  /\ m.what = "update"
  /\ mail' = mail \ {m}
  /\ IF m.seq < copy.seq THEN Ignore
     ELSE Adopt([copy EXCEPT ![m.field] = m.value, !.seq = m.seq])
  /\ UNCHANGED <<kinds, clip, outbox, polled, counts, stopStands>>

Stopped ==
  /\ StopNote \in mail
  /\ mail' = mail \ {StopNote}
  /\ suppressed' = FALSE /\ over' = FALSE
  /\ playedOn' = (playedOn \/ ~copy.paused)
  /\ UNCHANGED <<kinds, clip, copy, outbox, polled, counts, stopStands>>

(* Mutant of HearStop: a clip that is paused already is not rewound.       *)
HearStopPlaying == Stopped /\ el' = IF el.paused THEN el ELSE Rewound(el)

(* asset:stopped: the element is rewound, and plays on if the asset is not *)
(* paused yet.                                                             *)
HearStop == Stopped /\ el' = Rewound(el)

(* asset:seeked.                                                           *)
HearSeek ==
  /\ SeekNote \in mail
  /\ mail' = mail \ {SeekNote}
  /\ el' = Scrubbed(el)
  /\ UNCHANGED <<kinds, clip, copy, suppressed, outbox, polled, counts, told>>

(* room:snapshot: the canvas refuses an older row, the browser source      *)
(* takes what comes.                                                       *)
HearPoll ==
  /\ polled.stage = "sent"
  /\ polled' = NoPoll
  /\ IF screen = "canvas" /\ polled.clip.seq < copy.seq THEN Ignore ELSE Adopt(polled.clip)
  /\ UNCHANGED <<kinds, clip, outbox, mail, counts, stopStands>>

----------------------------------------------------------------------------
(* What the element does.                                                  *)

(* tick: the browser source brings every element in line on every frame.   *)
Frame ==
  /\ screen = "overlay"
  /\ Applies(copy)
  /\ UNCHANGED <<kinds, clip, copy, link, counts, told>>

(* onReady: what was asked last is done now.                               *)
BecomeReady ==
  /\ ~el.ready
  /\ el' = Sync([el EXCEPT !.ready = TRUE], copy)
  /\ UNCHANGED <<kinds, clip, copy, suppressed, link, counts, told>>

(* The promise of play() is settled; a YouTube player is PLAYING.          *)
SettlePlay(want) ==
  /\ want \in el.wants
  /\ player = "youtube" => ~el.paused
  /\ el' = [el EXCEPT !.muted = want, !.wants = @ \ {want}]
  /\ UNCHANGED <<kinds, clip, copy, suppressed, link, counts, told>>

(* The browser does not let it play.                                       *)
RefusePlay ==
  /\ faults < MaxFaults
  /\ faults' = faults + 1
  /\ el.wants # {} /\ ~el.paused
  /\ el' = [el EXCEPT !.paused = TRUE]
  /\ UNCHANGED <<kinds, clip, copy, suppressed, link, takes, told>>

(* Time passes: from the start to the middle, and round if it loops.       *)
PlayOn ==
  /\ ~el.paused
  /\ \/ el.place = "start" /\ el' = [el EXCEPT !.place = "middle"]
     \/ el.place = "middle" /\ el.loop /\ el' = [el EXCEPT !.place = "start"]
  /\ UNCHANGED <<kinds, clip, copy, suppressed, link, counts, told>>

AtTheEnd == ~el.paused /\ el.place = "middle" /\ ~el.loop
EndedEl == [el EXCEPT !.place = "end", !.paused = TRUE]

(* "ended" on the canvas: the asset is paused for everybody ...            *)
EndOnCanvas ==
  LET a == Patched("paused", TRUE) IN
    /\ screen = "canvas" /\ AtTheEnd
    /\ IF copy.loop
         THEN el' = EndedEl /\ UNCHANGED <<copy, outbox, takes>>
         ELSE /\ Take
              /\ el' = Sync(EndedEl, a)
              /\ copy' = a
              /\ outbox' = outbox \cup {FieldChange("paused", TRUE, a.seq)}
    /\ UNCHANGED <<kinds, clip, suppressed, mail, polled, faults, told>>

(* ... and on the browser source, which may not write, left as it is.      *)
EndOnOverlay ==
  /\ screen = "overlay" /\ AtTheEnd
  /\ el' = EndedEl
  /\ suppressed' = (suppressed \/ ~copy.loop)
  /\ over' = ~copy.loop
  /\ UNCHANGED <<kinds, clip, copy, link, counts, stopStands, playedOn>>

----------------------------------------------------------------------------
HearCommand == HearStop \/ HearSeek \/ \E m \in mail : HearUpdate(m)

PlayNext ==
  \/ \E f \in Fields : PressButton(f) \/ OtherPresses(f)
  \/ PressStop \/ DragSeek \/ OtherStops \/ OtherSeeks
  \/ \E m \in outbox : ProcessTake(m)
  \/ MissMail \/ PollPlay \/ HearCommand \/ HearPoll
  \/ Frame \/ BecomeReady \/ RefusePlay \/ PlayOn \/ EndOnCanvas \/ EndOnOverlay
  \/ \E want \in BOOLEAN : SettlePlay(want)

PlaySpec == PlayInit /\ [][PlayNext]_playVars

(* Messages are processed and arrive, the screen polls, frames are drawn,  *)
(* players get ready and a play() is settled.                              *)
PlayFairness ==
  /\ WF_playVars(\E m \in outbox : ProcessTake(m))
  /\ WF_playVars(Frame)
  /\ WF_playVars(HearCommand)
  /\ WF_playVars(PollPlay)
  /\ WF_playVars(HearPoll)
  /\ WF_playVars(BecomeReady)
  /\ WF_playVars(\E want \in BOOLEAN : SettlePlay(want))

PlayFairSpec == PlaySpec /\ PlayFairness

----------------------------------------------------------------------------
(* Properties.                                                             *)

(* render.ts:30-40: viewers never see a clip that is not looped a second   *)
(* time, whatever frame, snapshot or late update comes after its end, until*)
(* somebody has paused, looped or stopped it.                              *)
EndedStaysEnded == over => el.paused

(* canvas.ts:748-753, render.ts:228-233: when everything has arrived, Stop *)
(* has put every screen back at the start, unless it was told to play when *)
(* the stop came or later (a stop that overtakes its pause).               *)
StopRewinds ==
  (stopStands /\ ~playedOn /\ outbox = {} /\ mail = {}) => el.place = "start"

(* canvas.ts:1800-1826, render.ts:463-509, youtubePlayer.ts:140-176: play()*)
(* is asynchronous and mutes for a moment, but in the end the element plays*)
(* or pauses as the row says, and is muted as it says -- except where the  *)
(* browser source holds back a clip that has ended.                        *)
PlaybackConverges ==
  <>[](/\ IF clip.paused THEN el.paused ELSE ~el.paused \/ suppressed
       /\ ~el.paused => el.muted = clip.muted)
=============================================================================
