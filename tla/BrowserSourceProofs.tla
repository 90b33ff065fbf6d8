-------------------------- MODULE BrowserSourceProofs --------------------------
(***************************************************************************)
(* The browser source, part by part.  Playback, for every number of        *)
(* changes and faults: a clip that has ended is not shown again.           *)
(* OverlaySync, for every number of assets, invocations, snapshot requests,*)
(* faults and drops: what is shown was accepted by the table.  The latter  *)
(* rests on the invariant of the table, AssetStoreProofs.                  *)
(***************************************************************************)
EXTENDS MCBrowserSource, AssetStoreProofs

----------------------------------------------------------------------------
(* Playback.  Nothing plays that the screen's copy says is paused; a clip  *)
(* that ended is held back until a copy of the asset says something else   *)
(* than to play it once; and while a Stop stands, it is on its way or the  *)
(* clip is paused at its start, with nothing to come that moves it.        *)
ElementHolds == {"paused", "ready", "place"} \subseteq DOMAIN el

FollowsCopy ==
  /\ ~el.ready => el.paused /\ el.place = "start"
  /\ copy.paused => el.paused

HeldBack ==
  over => /\ screen = "overlay" /\ suppressed
          /\ el.ready /\ el.paused
          /\ ~copy.paused /\ ~copy.loop

StopHolds ==
  (stopStands /\ ~playedOn) =>
    /\ SeekNote \notin outbox \cup mail
    /\ StopNote \in outbox \cup mail \/ (el.place = "start" /\ copy.paused)

PlayInv == ElementHolds /\ FollowsCopy /\ HeldBack /\ StopHolds

CopiesHold == /\ "paused" \in DOMAIN clip /\ "paused" \in DOMAIN copy
              /\ polled.stage = "sent" => "paused" \in DOMAIN polled.clip

(* What the element, the copies and the messages are.                      *)
Note == [what : {"update"}, field : Fields, value : BOOLEAN, seq : 0..MaxTakes]
          \cup {StopNote, SeekNote}

HistoryTypeOK == /\ suppressed \in BOOLEAN /\ over \in BOOLEAN
                 /\ stopStands \in BOOLEAN /\ playedOn \in BOOLEAN

PlayTyped ==
  /\ player \in {"file", "youtube"} /\ screen \in {"canvas", "overlay"}
  /\ clip \in Clips /\ copy \in Clips /\ el \in Elements
  /\ outbox \subseteq Note /\ mail \subseteq Note
  /\ polled \in {NoPoll} \cup [stage : {"sent"}, clip : Clips]
  /\ takes \in 0..MaxTakes /\ faults \in 0..MaxFaults

LEMMA PlayTypes ==
  ASSUME PlayTyped, HistoryTypeOK
  PROVE  PlayTypeOK
  <1>1. \A m \in Note : m.what \in {"update", "stop", "seek"}
    BY DEF Note, StopNote, SeekNote
  <1>2. polled.stage \in {"none", "sent"}
    BY DEF PlayTyped, NoPoll
  <1> QED BY <1>1, <1>2 DEF PlayTyped, HistoryTypeOK, PlayTypeOK

LEMMA CopiesAreHeld ==
  ASSUME PlayTyped
  PROVE  CopiesHold
  BY DEF PlayTyped, CopiesHold, Clips, NoPoll

LEMMA PlayInitTyped == PlayInit => PlayTyped /\ HistoryTypeOK
  <1> SUFFICES ASSUME PlayInit PROVE PlayTyped /\ HistoryTypeOK
    OBVIOUS
  <1>1. 0 \in 0..MaxTakes /\ 0 \in 0..MaxFaults
    BY TakeAssumption
  <1>2. clip \in Clips /\ copy \in Clips /\ el \in Elements
    BY <1>1 DEF PlayInit, Clips, Elements
  <1> QED BY <1>1, <1>2 DEF PlayInit, PlayTyped, HistoryTypeOK

(* Whatever is done to an element, it stays one.                           *)
LEMMA ElementsStay ==
  ASSUME NEW e \in Elements, NEW a \in Clips
  PROVE  Sync(e, a) \in Elements /\ Rewound(e) \in Elements /\ Scrubbed(e) \in Elements
  BY DEF Sync, Play, Rewound, Scrubbed, Elements, Clips

LEMMA ChangedClip ==
  ASSUME NEW a \in Clips, NEW f \in Fields, NEW v \in BOOLEAN, NEW s \in 0..MaxTakes
  PROVE  [a EXCEPT ![f] = v, !.seq = s] \in Clips /\ a[f] \in BOOLEAN
  BY DEF Clips, Fields

LEMMA TakeIsTyped ==
  ASSUME PlayTyped, Take
  PROVE  takes' \in 0..MaxTakes /\ takes + 1 \in 0..MaxTakes
  BY TakeAssumption DEF PlayTyped, Take

LEMMA FaultIsTyped ==
  ASSUME PlayTyped, faults < MaxFaults
  PROVE  faults + 1 \in 0..MaxFaults
  BY TakeAssumption DEF PlayTyped

LEMMA AdoptIsTyped ==
  ASSUME PlayTyped, NEW a \in Clips, Applies(a)
  PROVE  el' \in Elements
  BY ElementsStay DEF PlayTyped, Applies

(* So every step keeps the types.                                          *)
LEMMA EditorStaysTyped ==
  ASSUME PlayTyped, \/ PressStop \/ DragSeek \/ OtherStops \/ OtherSeeks
                    \/ \E f \in Fields : PressButton(f) \/ OtherPresses(f)
  PROVE  PlayTyped'
  <1>1. takes' \in 0..MaxTakes /\ takes + 1 \in 0..MaxTakes
    BY TakeIsTyped DEF PressStop, DragSeek, OtherStops, OtherSeeks, PressButton, OtherPresses
  <1>2. UNCHANGED <<kinds, clip, mail, polled, faults>>
    BY DEF PressStop, DragSeek, OtherStops, OtherSeeks, PressButton, OtherPresses
  <1>3. \A f \in Fields, v \in BOOLEAN : FieldChange(f, v, takes + 1) \in Note
    BY <1>1 DEF FieldChange, Note
  <1>4. "paused" \in Fields /\ StopNote \in Note /\ SeekNote \in Note
    BY DEF Fields, Note
  <1>5. \A f \in Fields, v \in BOOLEAN :
          /\ Patched(f, v) \in Clips /\ Patched(f, v).seq = takes + 1
          /\ Patched(f, v)[f] = v
    BY <1>1, ChangedClip DEF PlayTyped, Patched, Clips, Fields
  <1>6. ASSUME copy' \in Clips, el' \in Elements, outbox' \subseteq Note PROVE PlayTyped'
    BY <1>1, <1>2, <1>6 DEF PlayTyped, kinds
  <1>7. ASSUME NEW f \in Fields, PressButton(f) PROVE PlayTyped'
    <2>1. (~copy[f]) \in BOOLEAN
      OBVIOUS
    <2>2. PICK a : a = Patched(f, ~copy[f])
      OBVIOUS
    <2>3. a \in Clips /\ FieldChange(f, a[f], a.seq) \in Note
      BY <1>3, <1>5, <2>1, <2>2
    <2>4. copy' = a /\ el' = Sync(el, a) /\ outbox' = outbox \cup {FieldChange(f, a[f], a.seq)}
      BY <1>7, <2>2 DEF PressButton
    <2>5. el' \in Elements
      BY <2>3, <2>4, ElementsStay DEF PlayTyped
    <2> QED BY <1>6, <2>3, <2>4, <2>5 DEF PlayTyped
  <1>8. ASSUME PressStop PROVE PlayTyped'
    <2>1. PICK a : a = Patched("paused", TRUE)
      OBVIOUS
    <2>2. a \in Clips /\ FieldChange("paused", TRUE, a.seq) \in Note
      BY <1>3, <1>4, <1>5, <2>1
    <2>3. /\ copy' = a /\ el' = Rewound(Sync(el, a))
          /\ outbox' = outbox \cup {FieldChange("paused", TRUE, a.seq), StopNote}
      BY <1>8, <2>1 DEF PressStop
    <2>4. el' \in Elements
      BY <2>2, <2>3, ElementsStay DEF PlayTyped
    <2> QED BY <1>4, <1>6, <2>2, <2>3, <2>4 DEF PlayTyped
  <1>9. ASSUME DragSeek PROVE PlayTyped'
    BY <1>4, <1>6, <1>9, ElementsStay DEF DragSeek, PlayTyped
  <1>10. ASSUME NEW f \in Fields, OtherPresses(f) PROVE PlayTyped'
    <2>1. (~clip[f]) \in BOOLEAN
      OBVIOUS
    <2> QED BY <1>3, <1>6, <1>10, <2>1 DEF OtherPresses, PlayTyped
  <1>11. ASSUME OtherStops \/ OtherSeeks PROVE PlayTyped'
    <2>1. /\ outbox' \subseteq outbox \cup {FieldChange("paused", TRUE, takes + 1), StopNote, SeekNote}
          /\ UNCHANGED <<copy, el>>
      BY <1>11 DEF OtherStops, OtherSeeks
    <2> QED BY <1>3, <1>4, <1>6, <2>1 DEF PlayTyped
  <1> QED BY <1>7, <1>8, <1>9, <1>10, <1>11

LEMMA RoomStaysTyped ==
  ASSUME PlayTyped,
         MissMail \/ PollPlay \/ HearCommand \/ HearPoll \/ \E m \in outbox : ProcessTake(m)
  PROVE  PlayTyped'
  <1>1. ASSUME NEW m \in outbox, ProcessTake(m) PROVE PlayTyped'
    <2>1. /\ outbox' = outbox \ {m} /\ mail' \in {mail, mail \cup {m}}
          /\ UNCHANGED <<kinds, copy, el, polled, counts>>
      BY <1>1 DEF ProcessTake
    <2>2. clip' \in Clips
      <3>1. CASE UNCHANGED clip
        BY <3>1 DEF PlayTyped
      <3>2. CASE m.what = "update" /\ clip' = [clip EXCEPT ![m.field] = m.value, !.seq = m.seq]
        <4>0. m \in Note /\ m.what = "update"
          BY <1>1, <3>2 DEF PlayTyped
        <4>1. m.field \in Fields /\ m.value \in BOOLEAN /\ m.seq \in 0..MaxTakes
          BY <4>0 DEF Note, StopNote, SeekNote
        <4> QED BY <3>2, <4>1, ChangedClip DEF PlayTyped
      <3> QED BY <1>1, <3>1, <3>2 DEF ProcessTake
    <2> QED BY <2>1, <2>2 DEF PlayTyped, kinds, counts
  <1>2. CASE MissMail
    BY <1>2, FaultIsTyped DEF MissMail, PlayTyped, kinds
  <1>3. CASE PollPlay
    BY <1>3 DEF PollPlay, PlayTyped, kinds, link, counts
  <1>4. ASSUME UNCHANGED <<kinds, clip, outbox, counts>>,
               mail' \subseteq mail, polled' \in {polled, NoPoll},
               copy' \in Clips, el' \in Elements
        PROVE  PlayTyped'
    BY <1>4 DEF PlayTyped, kinds, counts
  <1>5. ASSUME NEW m \in mail, HearUpdate(m) PROVE PlayTyped'
    <2>1. UNCHANGED <<kinds, clip, outbox, counts, polled>> /\ mail' = mail \ {m}
      BY <1>5 DEF HearUpdate
    <2>2. CASE Ignore
      BY <1>4, <2>1, <2>2 DEF Ignore, PlayTyped
    <2>3. ASSUME NEW a, a = [copy EXCEPT ![m.field] = m.value, !.seq = m.seq], Adopt(a)
          PROVE  PlayTyped'
      <3>1. m.what = "update"
        BY <1>5 DEF HearUpdate
      <3>2. m.field \in Fields /\ m.value \in BOOLEAN /\ m.seq \in 0..MaxTakes
        BY <3>1 DEF PlayTyped, Note, StopNote, SeekNote
      <3>3. a \in Clips
        BY <2>3, <3>2, ChangedClip DEF PlayTyped
      <3> QED BY <1>4, <2>1, <2>3, <3>3, AdoptIsTyped DEF Adopt
    <2> QED BY <1>5, <2>2, <2>3 DEF HearUpdate
  <1>6. CASE HearPoll
    <2>1. UNCHANGED <<kinds, clip, outbox, counts, mail>> /\ polled' = NoPoll
      BY <1>6 DEF HearPoll
    <2>2. polled.clip \in Clips
      BY <1>6 DEF HearPoll, PlayTyped, NoPoll
    <2>3. CASE Ignore
      BY <1>4, <2>1, <2>3 DEF Ignore, PlayTyped
    <2>4. CASE Adopt(polled.clip)
      BY <1>4, <2>1, <2>2, <2>4, AdoptIsTyped DEF Adopt
    <2> QED BY <1>6, <2>3, <2>4 DEF HearPoll
  <1>7. CASE HearStop \/ HearSeek
    <2>1. /\ UNCHANGED <<kinds, clip, copy, outbox, polled, counts>> /\ mail' \subseteq mail
          /\ el' \in {Rewound(el), Scrubbed(el)}
      BY <1>7 DEF HearStop, Stopped, HearSeek
    <2>2. el' \in Elements
      BY <2>1, ElementsStay DEF PlayTyped
    <2> QED BY <1>4, <2>1, <2>2 DEF PlayTyped
  <1> QED BY <1>1, <1>2, <1>3, <1>5, <1>6, <1>7 DEF HearCommand

LEMMA ElementStaysTyped ==
  ASSUME PlayTyped,
         \/ Frame \/ BecomeReady \/ RefusePlay \/ PlayOn \/ EndOnCanvas \/ EndOnOverlay
         \/ \E want \in BOOLEAN : SettlePlay(want)
  PROVE  PlayTyped'
  <1>1. ASSUME UNCHANGED <<kinds, clip, copy, link, counts>>, el' \in Elements
        PROVE  PlayTyped'
    BY <1>1 DEF PlayTyped, kinds, link, counts
  <1>2. CASE Frame
    BY <1>1, <1>2, AdoptIsTyped DEF Frame, PlayTyped
  <1>3. CASE BecomeReady
    <2>1. [el EXCEPT !.ready = TRUE] \in Elements
      BY DEF PlayTyped, Elements
    <2>2. el' \in Elements
      BY <1>3, <2>1, ElementsStay DEF BecomeReady, PlayTyped
    <2> QED BY <1>1, <1>3, <2>2 DEF BecomeReady
  <1>4. CASE PlayOn \/ \E want \in BOOLEAN : SettlePlay(want)
    <2>1. UNCHANGED <<kinds, clip, copy, link, counts>>
      BY <1>4 DEF PlayOn, SettlePlay
    <2>2. el' \in Elements
      <3>1. ASSUME NEW p \in {"start", "middle"}, el' = [el EXCEPT !.place = p]
            PROVE  el' \in Elements
        BY <3>1 DEF PlayTyped, Elements
      <3>2. ASSUME NEW want \in BOOLEAN,
                   el' = [el EXCEPT !.muted = want, !.wants = @ \ {want}]
            PROVE  el' \in Elements
        BY <3>2 DEF PlayTyped, Elements
      <3> QED BY <1>4, <3>1, <3>2 DEF PlayOn, SettlePlay
    <2> QED BY <1>1, <2>1, <2>2
  <1>5. CASE RefusePlay
    <2>1. el' \in Elements
      BY <1>5 DEF RefusePlay, PlayTyped, Elements
    <2> QED BY <1>5, <2>1, FaultIsTyped DEF RefusePlay, PlayTyped, kinds, link
  <1>6. EndedEl \in Elements
    BY DEF EndedEl, PlayTyped, Elements
  <1>7. CASE EndOnOverlay
    BY <1>1, <1>6, <1>7 DEF EndOnOverlay
  <1>8. CASE EndOnCanvas
    <2>1. UNCHANGED <<kinds, clip, mail, polled, faults>>
      BY <1>8 DEF EndOnCanvas
    <2>2. CASE el' = EndedEl /\ UNCHANGED <<copy, outbox, takes>>
      BY <1>6, <2>1, <2>2 DEF PlayTyped, kinds
    <2>3. ASSUME NEW a, a = Patched("paused", TRUE), Take, el' = Sync(EndedEl, a), copy' = a,
                 outbox' = outbox \cup {FieldChange("paused", TRUE, a.seq)}
          PROVE  PlayTyped'
      <3>1. takes' \in 0..MaxTakes /\ takes + 1 \in 0..MaxTakes /\ "paused" \in Fields
        BY <2>3, TakeIsTyped DEF Fields
      <3>2. a \in Clips
        BY <2>3, <3>1, ChangedClip DEF PlayTyped, Patched
      <3>3. a.seq \in 0..MaxTakes
        BY <3>2 DEF Clips
      <3>4. FieldChange("paused", TRUE, a.seq) \in Note
        BY <3>1, <3>3 DEF FieldChange, Note
      <3>5. el' \in Elements
        BY <1>6, <2>3, <3>2, ElementsStay
      <3> QED BY <2>1, <2>3, <3>1, <3>2, <3>4, <3>5 DEF PlayTyped, kinds
    <2> QED BY <1>8, <2>2, <2>3 DEF EndOnCanvas
  <1> QED BY <1>2, <1>3, <1>4, <1>5, <1>7, <1>8

LEMMA PlayStaysTyped == PlayTyped /\ [PlayNext]_playVars => PlayTyped'
  <1> SUFFICES ASSUME PlayTyped, [PlayNext]_playVars PROVE PlayTyped'
    OBVIOUS
  <1>1. CASE UNCHANGED playVars
    BY <1>1 DEF playVars, PlayTyped
  <1> QED BY <1>1, EditorStaysTyped, RoomStaysTyped, ElementStaysTyped DEF PlayNext

(* The flags and the histories are Booleans, whatever they are made of.    *)
LEMMA HistoryStaysTyped == HistoryTypeOK /\ [PlayNext]_playVars => HistoryTypeOK'
  <1> SUFFICES ASSUME HistoryTypeOK, [PlayNext]_playVars PROVE HistoryTypeOK'
    OBVIOUS
  <1>1. CASE UNCHANGED playVars \/ UNCHANGED <<suppressed, told>>
    BY <1>1 DEF playVars, told, HistoryTypeOK
  <1>2. ASSUME NEW f, PressButton(f) \/ OtherPresses(f) PROVE HistoryTypeOK'
    <2>1. UNCHANGED <<suppressed, over, playedOn>> /\ stopStands' \in BOOLEAN
      BY <1>2 DEF PressButton, OtherPresses
    <2> QED BY <2>1 DEF HistoryTypeOK
  <1>3. CASE PressStop \/ OtherStops \/ DragSeek \/ OtherSeeks \/ MissMail
    <2>1. /\ UNCHANGED <<suppressed, over>> /\ playedOn' \in {FALSE, playedOn}
          /\ stopStands' \in BOOLEAN
      BY <1>3 DEF PressStop, OtherStops, DragSeek, OtherSeeks, MissMail
    <2> QED BY <2>1 DEF HistoryTypeOK
  <1>4. ASSUME NEW a, Adopt(a) \/ Ignore, UNCHANGED stopStands PROVE HistoryTypeOK'
    <2>1. CASE Ignore
      BY <1>4, <2>1 DEF Ignore, HistoryTypeOK
    <2>2. CASE Adopt(a)
      <3>1. over' \in BOOLEAN /\ playedOn' \in BOOLEAN /\ suppressed' \in {FALSE, suppressed}
        BY <2>2 DEF Adopt, Told, Applies
      <3> QED BY <1>4, <3>1 DEF HistoryTypeOK
    <2> QED BY <1>4, <2>1, <2>2
  <1>5. ASSUME NEW m, HearUpdate(m) PROVE HistoryTypeOK'
    BY <1>4, <1>5 DEF HearUpdate
  <1>6. CASE HearPoll
    BY <1>4, <1>6 DEF HearPoll
  <1>7. CASE HearStop
    <2>1. /\ suppressed' = FALSE /\ over' = FALSE /\ playedOn' \in BOOLEAN
          /\ UNCHANGED stopStands
      BY <1>7 DEF HearStop, Stopped
    <2> QED BY <2>1 DEF HistoryTypeOK
  <1>8. CASE Frame
    <2>1. UNCHANGED told /\ suppressed' \in {FALSE, suppressed}
      BY <1>8 DEF Frame, Applies
    <2> QED BY <2>1 DEF HistoryTypeOK, told
  <1>9. CASE EndOnOverlay
    <2>1. /\ suppressed' \in BOOLEAN /\ over' \in BOOLEAN
          /\ UNCHANGED <<stopStands, playedOn>>
      BY <1>9 DEF EndOnOverlay
    <2> QED BY <2>1 DEF HistoryTypeOK
  <1>10. ASSUME NEW x, ProcessTake(x) \/ SettlePlay(x) PROVE UNCHANGED <<suppressed, told>>
    BY <1>10 DEF ProcessTake, SettlePlay
  <1>11. CASE PollPlay \/ HearSeek \/ BecomeReady \/ RefusePlay \/ PlayOn \/ EndOnCanvas
    BY <1>1, <1>11 DEF PollPlay, HearSeek, BecomeReady, RefusePlay, PlayOn, EndOnCanvas
  <1> QED BY <1>1, <1>2, <1>3, <1>5, <1>6, <1>7, <1>8, <1>9, <1>10, <1>11
          DEF PlayNext, HearCommand

(* Nothing plays at the start.                                             *)
THEOREM PlayInitInv == PlayInit => PlayInv
  BY DEF PlayInit, PlayInv, ElementHolds, FollowsCopy, HeldBack, StopHolds

(* Bringing an element in line with a copy.                                *)
LEMMA SyncFollows ==
  ASSUME NEW e, {"paused", "ready", "place"} \subseteq DOMAIN e, NEW a
  PROVE  /\ {"paused", "ready", "place"} \subseteq DOMAIN Sync(e, a)
         /\ Sync(e, a).ready = e.ready
         /\ ~e.ready => Sync(e, a) = e
         /\ (e.ready /\ a.paused) => Sync(e, a).paused /\ Sync(e, a).place = e.place
  BY DEF Sync, Play

LEMMA RewoundIsAtStart ==
  ASSUME NEW e, {"paused", "ready", "place"} \subseteq DOMAIN e,
         ~e.ready => e.paused /\ e.place = "start"
  PROVE  /\ {"paused", "ready", "place"} \subseteq DOMAIN Rewound(e)
         /\ Rewound(e).ready = e.ready
         /\ Rewound(e).place = "start"
         /\ e.paused => Rewound(e).paused
  BY DEF Rewound

(* A copy that arrives, and the frame that is drawn from it.               *)
LEMMA AppliesHolds ==
  ASSUME PlayInv, NEW a, Applies(a), copy' = a, UNCHANGED <<kinds, outbox, stopStands>>,
         over' => over /\ ~a.paused /\ ~a.loop,
         StopNote \in mail => StopNote \in mail', mail' \subseteq mail,
         (stopStands /\ ~playedOn') => ~playedOn /\ a.paused
  PROVE  PlayInv'
  <1>1. CASE suppressed /\ ~a.paused /\ ~a.loop
    <2>1. UNCHANGED <<el, suppressed>>
      BY <1>1 DEF Applies
    <2>2. ElementHolds' /\ FollowsCopy' /\ HeldBack'
      BY <1>1, <2>1 DEF PlayInv, ElementHolds, FollowsCopy, HeldBack, kinds
    <2> QED BY <1>1, <2>2 DEF PlayInv, StopHolds
  <1>2. CASE ~(suppressed /\ ~a.paused /\ ~a.loop)
    <2>1. el' = Sync(el, a)
      BY <1>2 DEF Applies
    <2>2. /\ ElementHolds' /\ FollowsCopy'
          /\ a.paused => el'.place = el.place
      BY <2>1, SyncFollows DEF PlayInv, ElementHolds, FollowsCopy
    <2>3. ~over'
      BY <1>2 DEF PlayInv, HeldBack
    <2>4. StopHolds'
      BY <2>2 DEF PlayInv, StopHolds
    <2> QED BY <2>2, <2>3, <2>4 DEF PlayInv, HeldBack
  <1> QED BY <1>1, <1>2

(* What comes from the room.                                               *)
LEMMA HearingHolds ==
  ASSUME PlayInv, HearCommand \/ HearPoll
  PROVE  PlayInv'
  <1>1. ASSUME NEW m, HearUpdate(m) PROVE PlayInv'
    <2>0. m # StopNote
      <3>1. m.what = "update"
        BY <1>1 DEF HearUpdate
      <3>2. StopNote.what = "stop"
        BY DEF StopNote
      <3> QED BY <3>1, <3>2
    <2>1. /\ UNCHANGED <<kinds, outbox, stopStands>>
          /\ m \in mail /\ mail' = mail \ {m} /\ m # StopNote
      BY <1>1, <2>0 DEF HearUpdate
    <2>2. ASSUME NEW a, Adopt(a) PROVE PlayInv'
      BY <2>1, <2>2, AppliesHolds DEF Adopt, Told
    <2>3. CASE Ignore
      BY <2>1, <2>3 DEF Ignore, kinds, PlayInv, ElementHolds, FollowsCopy, HeldBack,
                        StopHolds
    <2> QED BY <1>1, <2>2, <2>3 DEF HearUpdate
  <1>2. CASE HearPoll
    <2>1. UNCHANGED <<kinds, outbox, mail, stopStands>>
      BY <1>2 DEF HearPoll
    <2>2. ASSUME NEW a, Adopt(a) PROVE PlayInv'
      BY <2>1, <2>2, AppliesHolds DEF Adopt, Told
    <2>3. CASE Ignore
      BY <2>1, <2>3 DEF Ignore, kinds, PlayInv, ElementHolds, FollowsCopy, HeldBack,
                        StopHolds
    <2> QED BY <1>2, <2>2, <2>3 DEF HearPoll
  <1>3. CASE HearStop
    <2>1. /\ el' = Rewound(el) /\ mail' = mail \ {StopNote} /\ ~over'
          /\ playedOn' = (playedOn \/ ~copy.paused)
          /\ UNCHANGED <<kinds, copy, outbox, stopStands>>
      BY <1>3 DEF HearStop, Stopped
    <2>2. /\ {"paused", "ready", "place"} \subseteq DOMAIN el'
          /\ el'.ready = el.ready /\ el'.place = "start"
          /\ el.paused => el'.paused
      BY <2>1, RewoundIsAtStart DEF PlayInv, ElementHolds, FollowsCopy
    <2> QED BY <2>1, <2>2 DEF PlayInv, ElementHolds, FollowsCopy, HeldBack, StopHolds
  <1>4. CASE HearSeek
    <2>1. /\ SeekNote \in mail /\ el' = Scrubbed(el)
          /\ UNCHANGED <<kinds, copy, suppressed, over, stopStands, playedOn>>
      BY <1>4 DEF HearSeek, told
    <2>2. ElementHolds' /\ FollowsCopy' /\ HeldBack'
      BY <2>1 DEF Scrubbed, kinds, PlayInv, ElementHolds, FollowsCopy, HeldBack
    <2> QED BY <2>1, <2>2 DEF PlayInv, StopHolds
  <1> QED BY <1>1, <1>2, <1>3, <1>4 DEF HearCommand

(* What the element does by itself, and the frames.                        *)
LEMMA ElementStepHolds ==
  ASSUME PlayInv,
         \/ Frame \/ BecomeReady \/ RefusePlay \/ PlayOn
         \/ EndOnOverlay \/ \E want \in BOOLEAN : SettlePlay(want)
  PROVE  PlayInv'
  <1>1. CASE Frame
    <2>1. (stopStands /\ ~playedOn) =>
            StopNote \in outbox \cup mail \/ copy.paused
      BY DEF PlayInv, StopHolds
    <2>2. UNCHANGED <<kinds, outbox, mail, over, stopStands, playedOn, copy>>
      BY <1>1 DEF Frame, kinds, told, link
    <2>3. ElementHolds' /\ FollowsCopy' /\ HeldBack' /\ (copy.paused => el'.place = el.place)
      <3>1. CASE suppressed /\ ~copy.paused /\ ~copy.loop
        BY <1>1, <2>2, <3>1 DEF Frame, Applies, kinds, PlayInv, ElementHolds, FollowsCopy,
                                HeldBack
      <3>2. CASE ~(suppressed /\ ~copy.paused /\ ~copy.loop)
        <4>1. el' = Sync(el, copy)
          BY <1>1, <3>2 DEF Frame, Applies
        <4> QED BY <2>2, <3>2, <4>1, SyncFollows
                DEF kinds, PlayInv, ElementHolds, FollowsCopy, HeldBack
      <3> QED BY <3>1, <3>2
    <2> QED BY <2>2, <2>3 DEF PlayInv, StopHolds
  <1>2. CASE BecomeReady
    <2> DEFINE e == [el EXCEPT !.ready = TRUE]
    <2>1. {"paused", "ready", "place"} \subseteq DOMAIN e /\ e.ready /\ e.place = el.place
      BY DEF PlayInv, ElementHolds
    <2>2. el' = Sync(e, copy)
      BY <1>2 DEF BecomeReady
    <2>3. {"paused", "ready", "place"} \subseteq DOMAIN el' /\ el'.ready
          /\ (copy.paused => el'.paused /\ el'.place = el.place)
      BY <2>1, <2>2, SyncFollows
    <2> QED BY <1>2, <2>3 DEF BecomeReady, kinds, told, link, PlayInv, ElementHolds,
                              FollowsCopy, HeldBack, StopHolds
  <1>3. CASE RefusePlay
    BY <1>3 DEF RefusePlay, kinds, told, link, PlayInv, ElementHolds, FollowsCopy, HeldBack,
                StopHolds
  <1>4. CASE PlayOn
    BY <1>4 DEF PlayOn, kinds, told, link, PlayInv, ElementHolds, FollowsCopy, HeldBack,
                StopHolds
  <1>5. CASE EndOnOverlay
    BY <1>5 DEF EndOnOverlay, AtTheEnd, EndedEl, kinds, link, PlayInv, ElementHolds,
                FollowsCopy, HeldBack, StopHolds
  <1>6. ASSUME NEW want, SettlePlay(want) PROVE PlayInv'
    BY <1>6 DEF SettlePlay, kinds, told, link, PlayInv, ElementHolds, FollowsCopy, HeldBack,
                StopHolds
  <1> QED BY <1>1, <1>2, <1>3, <1>4, <1>5, <1>6

(* The user of a canvas, where nothing is held back.                       *)
LEMMA CanvasStepHolds ==
  ASSUME PlayInv, CopiesHold,
                  \/ PressStop \/ DragSeek \/ EndOnCanvas
                  \/ \E f \in Fields : PressButton(f)
  PROVE  PlayInv'
  <1>1. HeldBack'
    <2>1. screen = "canvas" /\ UNCHANGED <<kinds, over>>
      BY DEF PressStop, DragSeek, EndOnCanvas, PressButton, told
    <2> QED BY <2>1 DEF PlayInv, HeldBack
  <1>2. ASSUME NEW f \in Fields, PressButton(f) PROVE ElementHolds' /\ FollowsCopy' /\ StopHolds'
    <2>1. PICK a : /\ a = Patched(f, ~copy[f]) /\ copy' = a /\ el' = Sync(el, a)
                   /\ outbox' = outbox \cup {FieldChange(f, a[f], a.seq)}
                   /\ stopStands' = (stopStands /\ f # "paused")
                   /\ UNCHANGED <<mail, playedOn>>
      BY <1>2 DEF PressButton
    <2>2. ElementHolds' /\ FollowsCopy' /\ (a.paused => el'.place = el.place)
      BY <2>1, SyncFollows DEF PlayInv, ElementHolds, FollowsCopy
    <2>3. (stopStands' /\ copy.paused) => a.paused
      BY <2>1 DEF Patched, CopiesHold
    <2>4. FieldChange(f, a[f], a.seq) # SeekNote
      BY DEF FieldChange, SeekNote
    <2> QED BY <2>1, <2>2, <2>3, <2>4 DEF PlayInv, StopHolds
  <1>3. ASSUME PressStop PROVE ElementHolds' /\ FollowsCopy' /\ StopHolds'
    <2>1. PICK a, e : /\ e = Sync(el, a) /\ el' = Rewound(e) /\ copy' = a
                      /\ outbox' = outbox \cup {FieldChange("paused", TRUE, a.seq), StopNote}
                      /\ stopStands' = (SeekNote \notin outbox \cup mail)
                      /\ UNCHANGED mail
      BY <1>3 DEF PressStop
    <2>2. /\ {"paused", "ready", "place"} \subseteq DOMAIN e
          /\ ~e.ready => e.paused /\ e.place = "start"
          /\ a.paused => e.paused
      BY <2>1, SyncFollows DEF PlayInv, ElementHolds, FollowsCopy
    <2>3. ElementHolds' /\ FollowsCopy'
      BY <2>1, <2>2, RewoundIsAtStart DEF ElementHolds, FollowsCopy, Rewound
    <2>4. FieldChange("paused", TRUE, a.seq) # SeekNote /\ StopNote # SeekNote
      BY DEF FieldChange, SeekNote, StopNote
    <2> QED BY <2>1, <2>3, <2>4 DEF StopHolds
  <1>4. ASSUME DragSeek PROVE ElementHolds' /\ FollowsCopy' /\ StopHolds'
    BY <1>4 DEF DragSeek, Scrubbed, PlayInv, ElementHolds, FollowsCopy, StopHolds
  <1>5. ASSUME EndOnCanvas PROVE ElementHolds' /\ FollowsCopy' /\ StopHolds'
    <2>1. /\ {"paused", "ready", "place"} \subseteq DOMAIN EndedEl
          /\ EndedEl.paused /\ EndedEl.ready /\ ~copy.paused
      BY <1>5 DEF EndOnCanvas, AtTheEnd, EndedEl, PlayInv, ElementHolds, FollowsCopy
    <2>2. /\ el' = EndedEl /\ UNCHANGED <<copy, outbox>>
          \/ \E a : /\ el' = Sync(EndedEl, a) /\ copy' = a
                    /\ outbox' = outbox \cup {FieldChange("paused", TRUE, a.seq)}
      BY <1>5 DEF EndOnCanvas
    <2>3. ElementHolds' /\ FollowsCopy'
      BY <2>1, <2>2, SyncFollows DEF ElementHolds, FollowsCopy
    <2>4. /\ outbox \subseteq outbox' /\ (SeekNote \in outbox' => SeekNote \in outbox)
          /\ UNCHANGED <<mail, stopStands, playedOn>>
      BY <1>5, <2>2 DEF EndOnCanvas, told, FieldChange, SeekNote
    <2> QED BY <2>1, <2>3, <2>4 DEF PlayInv, StopHolds
  <1> QED BY <1>1, <1>2, <1>3, <1>4, <1>5 DEF PlayInv

(* The other editors and the handler, who do not touch the screen.         *)
LEMMA RoomStepHolds ==
  ASSUME PlayInv, \/ \E f \in Fields : OtherPresses(f)
                  \/ OtherStops \/ OtherSeeks \/ MissMail \/ PollPlay
                  \/ \E m \in outbox : ProcessTake(m)
  PROVE  PlayInv'
  <1>1. ElementHolds' /\ FollowsCopy' /\ HeldBack'
    <2>1. UNCHANGED <<kinds, copy, el, suppressed, over>>
      BY DEF OtherPresses, OtherStops, OtherSeeks, MissMail, PollPlay, ProcessTake, told
    <2> QED BY <2>1 DEF kinds, PlayInv, ElementHolds, FollowsCopy, HeldBack
  <1>2. UNCHANGED <<copy, el>>
    BY DEF OtherPresses, OtherStops, OtherSeeks, MissMail, PollPlay, ProcessTake
  <1>3. ASSUME NEW f \in Fields, OtherPresses(f) PROVE StopHolds'
    BY <1>2, <1>3 DEF OtherPresses, FieldChange, SeekNote, StopNote, PlayInv, StopHolds
  <1>4. ASSUME OtherStops PROVE StopHolds'
    <2>1. /\ outbox' = outbox \cup {FieldChange("paused", TRUE, takes + 1), StopNote}
          /\ stopStands' = (SeekNote \notin outbox \cup mail)
          /\ UNCHANGED mail
      BY <1>4 DEF OtherStops
    <2>2. FieldChange("paused", TRUE, takes + 1) # SeekNote /\ StopNote # SeekNote
      BY DEF FieldChange, SeekNote, StopNote
    <2>3. stopStands' => SeekNote \notin (outbox \cup mail)'
      BY <2>1, <2>2
    <2>4. StopNote \in outbox'
      BY <2>1
    <2> QED BY <2>3, <2>4 DEF StopHolds
  <1>5. ASSUME OtherSeeks \/ MissMail PROVE StopHolds'
    <2>1. ~stopStands'
      BY <1>5 DEF OtherSeeks, MissMail
    <2> QED BY <2>1 DEF StopHolds
  <1>6. ASSUME PollPlay PROVE StopHolds'
    <2>1. UNCHANGED <<outbox, mail, stopStands, playedOn>>
      BY <1>6 DEF PollPlay, told
    <2> QED BY <1>2, <2>1 DEF PlayInv, StopHolds
  <1>7. ASSUME NEW m \in outbox, ProcessTake(m) PROVE StopHolds'
    <2>1. /\ outbox' = outbox \ {m} /\ mail' \in {mail, mail \cup {m}}
          /\ (m.what # "update" => mail' = mail \cup {m})
          /\ UNCHANGED <<stopStands, playedOn>>
      BY <1>7 DEF ProcessTake, told
    <2> QED BY <1>2, <2>1 DEF StopNote, SeekNote, PlayInv, StopHolds
  <1> QED BY <1>1, <1>3, <1>4, <1>5, <1>6, <1>7 DEF PlayInv

(* Every step keeps the invariant.                                         *)
THEOREM PlayNextInv == PlayInv /\ CopiesHold /\ [PlayNext]_playVars => PlayInv'
  <1> SUFFICES ASSUME PlayInv, CopiesHold, [PlayNext]_playVars PROVE PlayInv'
    OBVIOUS
  <1>1. CASE UNCHANGED playVars
    BY <1>1 DEF playVars, PlayInv, ElementHolds, FollowsCopy, HeldBack, StopHolds
  <1> QED BY <1>1, HearingHolds, ElementStepHolds, CanvasStepHolds, RoomStepHolds
          DEF PlayNext

(* render.ts:30-40: whatever frame, snapshot or late update comes after    *)
(* its end, and in whatever order, a clip that is not looped is not shown  *)
(* again until somebody pauses, loops or stops it.                         *)
THEOREM EndedIsNotShownAgain == PlaySpec => []EndedStaysEnded
  <1>1. PlayInv => EndedStaysEnded
    BY DEF PlayInv, HeldBack, EndedStaysEnded
  <1> QED BY <1>1, PlayInitInv, PlayNextInv, CopiesAreHeld, PlayInitTyped, PlayStaysTyped, PTL
          DEF PlaySpec

(* canvas.ts:748-753: when all messages have arrived, a Stop that was the  *)
(* last command has put the screen back at the start, however it, its      *)
(* pause, snapshots and the element's own steps interleaved.               *)
THEOREM StopPutsBack == PlaySpec => []StopRewinds
  <1>1. PlayInv => StopRewinds
    BY DEF PlayInv, StopHolds, StopRewinds
  <1> QED BY <1>1, PlayInitInv, PlayNextInv, CopiesAreHeld, PlayInitTyped, PlayStaysTyped, PTL
          DEF PlaySpec

----------------------------------------------------------------------------
(* OverlaySync.                                                            *)

(* Whatever is on its way to the screen carries a seq that was accepted    *)
(* for its asset: the rows, what the finished invocations will announce,   *)
(* the broadcasts and the snapshots.  A remnant is only in a snapshot.     *)
MessageFits(m) ==
  /\ m \in Delta \cup Added \cup Deleted
  /\ m.kind = "delta" => m.seq \in ever[m.asset]
  /\ m.kind = "added" => m.row.seq \in ever[m.asset] /\ ~Remnant(m.row)

TableFits(table) ==
  /\ table \in Table
  /\ \A a \in Assets : table[a] # NoRow => table[a].seq \in ever[a]
  /\ \A a \in Assets : Remnant(table[a]) => a \in deleted

EverTypeOK == ever \in [Assets -> SUBSET (0..MaxSeq)]

AcceptedFit == \A a \in Assets : accepted[a] \subseteq ever[a]

JobFits(j) == /\ j.op = "write" => j.seq \in Seqs
              /\ (j.op = "write" /\ j.done) => j.seq \in ever[j.asset]
              /\ (j.op = "put" /\ j.done) => 0 \in ever[j.asset]

JobsFit == \A h \in Handlers : job[h] # Idle => JobFits(job[h])

NetFits == \A m \in net : MessageFits(m)

SnapsFit ==
  /\ snap = [k \in Slots |-> snap[k]]
  /\ \A k \in Slots : snap[k] \notin {Free, Asked} => TableFits(snap[k])

ShownFits ==
  /\ TableFits(entry)
  /\ \A a \in Assets : ~Remnant(entry[a])
  /\ undrawn \subseteq deleted

OverlayInv == /\ StoreInv
              /\ EverTypeOK
              /\ AcceptedFit
              /\ JobsFit
              /\ NetFits
              /\ SnapsFit
              /\ ShownFits

(* Nothing is shown at the start, and nothing is on its way.               *)
THEOREM OverlayInitInv == OverlayInit => OverlayInv
  <1> SUFFICES ASSUME OverlayInit PROVE OverlayInv
    OBVIOUS
  <1>1. StoreInv
    BY StoreInitInv DEF OverlayInit
  <1>2. EverTypeOK /\ AcceptedFit /\ JobsFit
    BY DEF OverlayInit, Init, EverTypeOK, AcceptedFit, JobsFit
  <1>3. NetFits /\ SnapsFit /\ ShownFits
    BY DEF OverlayInit, ChannelInit, NetFits, SnapsFit, ShownFits, TableFits, Table,
           Remnant
  <1> QED BY <1>1, <1>2, <1>3 DEF OverlayInv

----------------------------------------------------------------------------
(* What was accepted once stays so, and what was deleted.                  *)
Grows == /\ EverTypeOK' /\ AcceptedFit'
         /\ deleted \subseteq deleted'
         /\ \A a \in Assets : ever[a] \subseteq ever'[a]

LEMMA BystanderGrows ==
  ASSUME OverlayInv, StoreInv', deleted \subseteq deleted', Bystander
  PROVE  Grows
  <1>1. accepted' \in [Assets -> SUBSET (0..MaxSeq)]
    BY DEF StoreInv, TypeOK
  <1> QED BY <1>1 DEF Grows, OverlayInv, EverTypeOK, AcceptedFit, Bystander

LEMMA MessageShape ==
  ASSUME NEW m \in Delta \cup Added \cup Deleted
  PROVE  /\ m.asset \in Assets
         /\ m.kind = "delta" =>
              m.patch \in Patch /\ m.visible \in BOOLEAN /\ m.seq \in Seqs
         /\ m.kind = "added" => m.row \in Row
  BY DEF Delta, Added, Deleted

LEMMA MessageFitsStill ==
  ASSUME Grows, NEW m, MessageFits(m)
  PROVE  MessageFits(m)'
  BY MessageShape DEF Grows, MessageFits

LEMMA TableFitsStill ==
  ASSUME Grows, NEW t, TableFits(t)
  PROVE  TableFits(t)'
  BY DEF Grows, TableFits

LEMMA TableFitsWith ==
  ASSUME NEW t, TableFits(t), NEW a \in Assets, NEW r \in Row \cup {NoRow},
         r # NoRow => r.seq \in ever[a], ~Remnant(r)
  PROVE  TableFits([t EXCEPT ![a] = r])
  BY DEF TableFits, Table

(* What a step leaves alone fits as before.                                *)
LEMMA NetKept ==
  ASSUME OverlayInv, Grows, net' \subseteq net
  PROVE  NetFits'
  BY MessageFitsStill DEF OverlayInv, NetFits, MessageFits

LEMMA ShownKept ==
  ASSUME OverlayInv, Grows, UNCHANGED entry, undrawn' \subseteq undrawn
  PROVE  ShownFits'
  BY DEF OverlayInv, Grows, ShownFits, TableFits

LEMMA SnapsKept ==
  ASSUME OverlayInv, Grows, snap' = [k \in Slots |-> snap'[k]],
         \A k \in Slots : snap'[k] = snap[k] \/ snap'[k] \in {Free, Asked}
  PROVE  SnapsFit'
  <1> SUFFICES ASSUME NEW k \in Slots, snap'[k] \notin {Free, Asked}
               PROVE  TableFits(snap[k])'
    BY DEF SnapsFit, TableFits
  <1>1. PICK t : t = snap'[k]
    OBVIOUS
  <1>2. TableFits(t)
    BY <1>1 DEF OverlayInv, SnapsFit
  <1>3. TableFits(t)'
    BY <1>2, TableFitsStill
  <1> QED BY <1>1, <1>3 DEF TableFits

LEMMA JobsKept ==
  ASSUME OverlayInv, Grows, UNCHANGED job
  PROVE  JobsFit'
  <1> SUFFICES ASSUME NEW h \in Handlers, job[h] # Idle
               PROVE  JobFits(job[h])'
    BY DEF JobsFit
  <1>1. JobFits(job[h]) /\ job[h].asset \in Assets
    BY DEF OverlayInv, JobsFit, StoreInv, TypeOK, Job
  <1>2. PICK j : j = job[h]
    OBVIOUS
  <1>3. JobFits(j)'
    BY <1>1, <1>2 DEF Grows, JobFits
  <1> QED BY <1>2, <1>3

----------------------------------------------------------------------------
(* The invocations.                                                        *)

(* An invocation goes on, the others wait.                                 *)
LEMMA TurnFits ==
  ASSUME OverlayInv, StoreInv', Grows, NEW h \in Handlers, NEW j \in Job \cup {Idle},
         job' = [job EXCEPT ![h] = j], j # Idle => JobFits(j)'
  PROVE  JobsFit'
  <1> SUFFICES ASSUME NEW g \in Handlers, job'[g] # Idle
               PROVE  JobFits(job[g])'
    BY DEF JobsFit
  <1>1. CASE g = h
    <2>1. job'[g] = j
      BY <1>1 DEF OverlayInv, StoreInv, TypeOK
    <2> QED BY <2>1 DEF JobFits
  <1>2. CASE g # h
    <2>1. job'[g] = job[g] /\ job[g] \in Job
      BY <1>2 DEF OverlayInv, StoreInv, TypeOK
    <2>2. JobFits(job[g])
      BY <2>1 DEF OverlayInv, JobsFit
    <2> QED BY <2>1, <2>2 DEF Grows, JobFits, Job
  <1> QED BY <1>1, <1>2

(* A job that is marked as done stays what it was.                         *)
LEMMA MarkDoneMakes ==
  ASSUME TypeOK, NEW h \in Handlers, job[h] # Idle, MarkDone(h)
  PROVE  \E j \in Job : /\ job' = [job EXCEPT ![h] = j] /\ j.done
                        /\ j.op = job[h].op /\ j.asset = job[h].asset
                        /\ j.seq = job[h].seq
  <1> DEFINE j == [job[h] EXCEPT !.done = TRUE]
  <1>1. job[h] \in Job
    BY DEF TypeOK
  <1>2. /\ j \in Job /\ j.done /\ j.op = job[h].op
        /\ j.asset = job[h].asset /\ j.seq = job[h].seq
    BY <1>1 DEF Job
  <1>3. job' = [job EXCEPT ![h] = j]
    BY DEF MarkDone, TypeOK
  <1> QED BY <1>2, <1>3

(* What is announced has been accepted.                                    *)
LEMMA BroadcastFits ==
  ASSUME OverlayInv, NEW j \in Job, j.done, JobFits(j)
  PROVE  MessageFits(Broadcast(j))
  <1>1. CASE j.op = "put"
    <2>1. NewRow(j) \in Row /\ NewRow(j).seq = 0 /\ ~Remnant(NewRow(j))
      BY <1>1, MaxSeqAssumption, SentinelAssumption
         DEF NewRow, Job, Patch, Row, OrMissing, Remnant
    <2>2. Broadcast(j) = [kind |-> "added", asset |-> j.asset, row |-> NewRow(j)]
      BY <1>1 DEF Broadcast
    <2>3. Broadcast(j) \in Added
      BY <2>1, <2>2 DEF Added, Job
    <2> QED BY <1>1, <2>1, <2>2, <2>3 DEF MessageFits, JobFits
  <1>2. CASE j.op = "write"
    <2>1. Broadcast(j) = [kind |-> "delta", asset |-> j.asset, patch |-> j.patch,
                          visible |-> j.visible, seq |-> j.seq]
      BY <1>2 DEF Broadcast
    <2>2. Broadcast(j) \in Delta
      BY <1>2, <2>1 DEF Delta, JobFits, Job
    <2> QED BY <1>2, <2>1, <2>2 DEF MessageFits, JobFits
  <1>3. CASE j.op = "delete"
    <2>1. Broadcast(j) = [kind |-> "deleted", asset |-> j.asset]
      BY <1>3 DEF Broadcast
    <2>2. Broadcast(j) \in Deleted
      BY <2>1 DEF Deleted, Job
    <2> QED BY <2>1, <2>2 DEF MessageFits
  <1> QED BY <1>1, <1>2, <1>3 DEF Job

(* After a step of an invocation the finished ones still have accepted     *)
(* seqs to announce: a write is marked as done when its seq is accepted.   *)
LEMMA StepsFit ==
  ASSUME OverlayInv, StoreInv', Grows, NEW h \in Handlers, Receive(h) \/ Proceed(h)
  PROVE  JobsFit'
  <1>0. TypeOK
    BY DEF OverlayInv, StoreInv
  <1>1. CASE Receive(h)
    <2>1. PICK j \in Job : /\ ~j.done /\ job' = [job EXCEPT ![h] = j]
                           /\ j.op = "write" => j.seq \in Seqs
      BY <1>1, ReceiveStarts DEF Started
    <2>2. JobFits(j)'
      BY <2>1 DEF JobFits
    <2> QED BY <2>1, <2>2, TurnFits
  <1>2. CASE PutRow(h)
    <2>1. PICK j \in Job : /\ job' = [job EXCEPT ![h] = j] /\ j.op = "put"
                           /\ j.asset = job[h].asset
      BY <1>0, <1>2, MarkDoneMakes DEF PutRow, Pending
    <2>2. 0 \in accepted'[j.asset]
      BY <1>0, <1>2, <2>1 DEF PutRow, TypeOK, Job
    <2>3. JobFits(j)'
      BY <2>1, <2>2 DEF JobFits, Grows, AcceptedFit, Job
    <2> QED BY <2>1, <2>3, TurnFits
  <1>3. CASE WriteRow(h)
    <2>1. PICK j \in Job : /\ job' = [job EXCEPT ![h] = j] /\ j.op = "write"
                           /\ j.asset = job[h].asset /\ j.seq = job[h].seq
      BY <1>0, <1>3, MarkDoneMakes DEF WriteRow, Pending
    <2>2. j.seq \in accepted'[j.asset] /\ j.seq \in Seqs
      BY <1>0, <1>3, <2>1 DEF WriteRow, Pending, TypeOK, Job, OverlayInv, JobsFit, JobFits
    <2>3. JobFits(j)'
      BY <2>1, <2>2 DEF JobFits, Grows, AcceptedFit, Job
    <2> QED BY <2>1, <2>3, TurnFits
  <1>4. CASE DeleteRow(h)
    <2>1. PICK j \in Job : job' = [job EXCEPT ![h] = j] /\ j.op = "delete"
      BY <1>0, <1>4, MarkDoneMakes DEF DeleteRow, Pending
    <2> QED BY <2>1, TurnFits DEF JobFits
  <1>5. CASE DropStale(h) \/ Announce(h) \/ Abort(h)
    <2>1. PICK j \in Job \cup {Idle} : job' = [job EXCEPT ![h] = j] /\ j = Idle
      BY <1>5 DEF DropStale, Announce, Abort, Stop
    <2> QED BY <2>1, TurnFits
  <1> QED BY <1>1, <1>2, <1>3, <1>4, <1>5 DEF Proceed

LEMMA DeletedGrows ==
  ASSUME OverlayInv, NEW h \in Handlers, Receive(h) \/ Proceed(h)
  PROVE  deleted \subseteq deleted'
  <1>1. CASE Receive(h)
    BY <1>1 DEF Receive, BeginAdd, ReadMove, ReadResize, ReadUpdate, BeginDelete
  <1>2. CASE Proceed(h)
    BY <1>2 DEF Proceed, PutRow, WriteRow, DropStale, DeleteRow, Announce, Abort
  <1> QED BY <1>1, <1>2

LEMMA ServerStepFits ==
  ASSUME OverlayInv, NEW h \in Handlers, ServerStep(h), Bystander
  PROVE  OverlayInv'
  <1>1. Receive(h) \/ Proceed(h)
    BY DEF ServerStep, Edit, Store, Publish, Fail, Proceed
  <1>2. StoreInv'
    BY <1>1, StoreNextInv DEF OverlayInv, Next
  <1>3. Grows
    BY <1>1, <1>2, BystanderGrows, DeletedGrows
  <1>4. JobsFit'
    BY <1>1, <1>2, <1>3, StepsFit
  <1>5. NetFits'
    <2>1. CASE net' \subseteq net
      BY <1>3, <2>1, NetKept
    <2>2. CASE Publish(h) /\ connected
      <3>1. job[h] \in Job /\ job[h].done /\ JobFits(job[h])
        BY <2>2 DEF Publish, Announce, OverlayInv, StoreInv, TypeOK, JobsFit
      <3>2. PICK m : m = Broadcast(job[h])
        OBVIOUS
      <3>3. MessageFits(m)'
        BY <1>3, <3>1, <3>2, BroadcastFits, MessageFitsStill
      <3>4. ASSUME NEW n \in net PROVE MessageFits(n)'
        BY <1>3, <3>4, MessageFitsStill DEF OverlayInv, NetFits
      <3>5. net' = net \cup {m}
        BY <2>2, <3>2 DEF Publish
      <3> QED BY <3>3, <3>4, <3>5 DEF NetFits, MessageFits
    <2> QED BY <2>1, <2>2 DEF ServerStep, Edit, Store, Publish, Fail, channelVars
  <1>6. snap' = snap
    BY DEF ServerStep, Edit, Store, Publish, Fail, channelVars
  <1>7. SnapsFit'
    BY <1>3, <1>6, SnapsKept DEF OverlayInv, SnapsFit
  <1>8. ShownFits'
    BY <1>3, ShownKept DEF Bystander
  <1> QED BY <1>2, <1>3, <1>4, <1>5, <1>7, <1>8 DEF OverlayInv, Grows

----------------------------------------------------------------------------
(* The client, whose steps leave the table and the invocations alone.      *)
LEMMA TableRests ==
  ASSUME OverlayInv, UNCHANGED vars, UNCHANGED ever \/ Bystander
  PROVE  StoreInv' /\ Grows /\ JobsFit'
  <1>1. StoreInv'
    BY StoreNextInv DEF OverlayInv
  <1>2. Grows
    <2>1. CASE UNCHANGED ever
      BY <2>1 DEF Grows, OverlayInv, EverTypeOK, AcceptedFit, vars
    <2> QED BY <1>1, <2>1, BystanderGrows DEF vars
  <1>3. JobsFit'
    BY <1>2, JobsKept DEF vars
  <1> QED BY <1>1, <1>2, <1>3

(* A message that is applied brings an accepted seq with it.               *)
LEMMA DeliverFits ==
  ASSUME OverlayInv, Deliver
  PROVE  OverlayInv'
  <1>1. PICK m \in net : DeliverDelta(m) \/ DeliverAdded(m) \/ DeliverDeleted(m)
    BY DEF Deliver
  <1>2. MessageFits(m) /\ m.asset \in Assets
    BY MessageShape DEF OverlayInv, NetFits, MessageFits
  <1>3. UNCHANGED <<vars, snap, ever>> /\ net' \subseteq net
    BY <1>1 DEF Deliver, DeliverDelta, DeliverAdded, DeliverDeleted, Arrive
  <1>4. StoreInv' /\ Grows /\ JobsFit'
    BY <1>3, TableRests
  <1>5. NetFits' /\ SnapsFit'
    BY <1>3, <1>4, NetKept, SnapsKept DEF OverlayInv, SnapsFit
  <1>6. ShownFits'
    <2>u. undrawn' \subseteq undrawn
      BY <1>1 DEF DeliverDelta, DeliverAdded, DeliverDeleted
    <2>0. ASSUME NEW r \in Row \cup {NoRow}, r # NoRow => r.seq \in ever[m.asset],
                 ~Remnant(r), entry' = [entry EXCEPT ![m.asset] = r]
          PROVE  ShownFits'
      <3>1. TableFits([entry EXCEPT ![m.asset] = r])
        BY <1>2, <2>0, TableFitsWith DEF OverlayInv, ShownFits
      <3>2. TableFits(entry)'
        BY <1>3, <2>0, <3>1 DEF TableFits, vars
      <3>3. \A a \in Assets : ~Remnant(entry[a])'
        BY <1>2, <2>0 DEF OverlayInv, ShownFits, TableFits, Table, Remnant
      <3>4. undrawn' \subseteq deleted'
        BY <1>3, <2>u DEF OverlayInv, ShownFits, vars
      <3> QED BY <3>2, <3>3, <3>4 DEF ShownFits
    <2>1. CASE UNCHANGED entry
      BY <1>4, <2>1, <2>u, ShownKept
    <2>2. CASE /\ DeliverDelta(m)
               /\ entry[m.asset] # NoRow
               /\ entry' = [entry EXCEPT ![m.asset] = Merge(@, m.patch, m.visible, m.seq)]
      <3>1. m.kind = "delta"
        BY <2>2 DEF DeliverDelta
      <3>2. m.patch \in Patch /\ m.visible \in BOOLEAN /\ m.seq \in ever[m.asset]
        BY <1>2, <3>1, MessageShape DEF MessageFits
      <3>3. m.seq \in 0..MaxSeq
        BY <1>2, <3>2 DEF OverlayInv, EverTypeOK
      <3>4. entry[m.asset] \in Row
        BY <1>2, <2>2 DEF OverlayInv, ShownFits, TableFits, Table
      <3>5. PICK e : e = Merge(entry[m.asset], m.patch, m.visible, m.seq)
        OBVIOUS
      <3>6. e \in Row
        BY <3>2, <3>3, <3>4, <3>5, MergeIsRow
      <3>7. e.seq = m.seq /\ e.type = entry[m.asset].type
        BY <3>4, <3>5 DEF Merge, Row
      <3>9. ~Remnant(e)
        BY <1>2, <2>2, <3>7 DEF Remnant, OverlayInv, ShownFits
      <3>8. entry' = [entry EXCEPT ![m.asset] = e]
        BY <2>2, <3>5
      <3> QED BY <2>0, <3>2, <3>6, <3>7, <3>8, <3>9
    <2>3. CASE DeliverAdded(m)
      <3>1. m.row \in Row /\ m.row.seq \in ever[m.asset] /\ ~Remnant(m.row)
        BY <1>2, <2>3, MessageShape DEF DeliverAdded, MessageFits
      <3> QED BY <2>0, <2>3, <3>1 DEF DeliverAdded
    <2>4. CASE DeliverDeleted(m)
      BY <2>0, <2>4 DEF DeliverDeleted, Remnant
    <2> QED BY <1>1, <2>1, <2>2, <2>3, <2>4 DEF DeliverDelta
  <1> QED BY <1>4, <1>5, <1>6 DEF OverlayInv, Grows

(* So does a snapshot, as far as it is applied, which shows the rows as    *)
(* they were when it was read.                                             *)
LEMMA SetAssetsFits ==
  ASSUME OverlayInv, NEW k \in Slots, SetAssets(k)
  PROVE  OverlayInv'
  <1>1. UNCHANGED <<vars, net, ever>> /\ snap[k] \notin {Free, Asked}
    BY DEF SetAssets, SnapshotArrives
  <1>2. StoreInv' /\ Grows /\ JobsFit'
    BY <1>1, TableRests
  <1>3. NetFits'
    BY <1>1, <1>2, NetKept
  <1>4. SnapsFit'
    BY <1>2, SnapsKept DEF SetAssets, SnapshotArrives, OverlayInv, SnapsFit
  <1>5. ShownFits'
    <2>1. TableFits(snap[k]) /\ ShownFits
      BY <1>1 DEF OverlayInv, SnapsFit
    <2>2. ASSUME entry' \in Table, undrawn' \subseteq deleted,
                 \A a \in Assets : /\ entry'[a] \in {entry[a], snap[k][a]}
                                   /\ ~Remnant(entry'[a])
          PROVE  ShownFits'
      BY <1>1, <2>1, <2>2 DEF ShownFits, TableFits, vars
    <2>3. CASE ReplaceAll(k)
      <3>1. /\ entry' = [a \in Assets |-> snap[k][a]] /\ undrawn' \subseteq undrawn
            /\ \A a \in Assets : ~Remnant(snap[k][a])
        BY <2>3 DEF ReplaceAll
      <3> QED BY <2>1, <2>2, <3>1 DEF TableFits, Table, ShownFits
    <2>4. CASE StopAtRemnant(k)
      <3>1. PICK b \in Assets, first \in SUBSET Assets :
              /\ Remnant(snap[k][b])
              /\ \A a \in first : snap[k][a] # NoRow /\ ~Remnant(snap[k][a])
              /\ entry' = [a \in Assets |-> IF a \in first THEN snap[k][a] ELSE entry[a]]
              /\ undrawn' = IF entry[b] = NoRow THEN undrawn ELSE undrawn \cup {b}
        BY <2>4 DEF StopAtRemnant
      <3>2. undrawn' \subseteq deleted
        BY <2>1, <3>1 DEF TableFits, ShownFits
      <3>3. \A a \in Assets : /\ entry'[a] \in {entry[a], snap[k][a]}
                              /\ ~Remnant(entry'[a])
        BY <2>1, <3>1 DEF ShownFits
      <3>4. entry' \in Table
        BY <2>1, <3>1 DEF TableFits, ShownFits, Table
      <3> QED BY <2>2, <3>2, <3>3, <3>4
    <2> QED BY <2>3, <2>4 DEF SetAssets
  <1> QED BY <1>2, <1>3, <1>4, <1>5 DEF OverlayInv, Grows

(* A snapshot that is read has the rows, whose seqs were accepted.         *)
LEMMA AnswerFits ==
  ASSUME OverlayInv, NEW k \in Slots, AnswerSnapshot(k), Bystander
  PROVE  OverlayInv'
  <1>1. UNCHANGED <<vars, net>> /\ snap' = [snap EXCEPT ![k] = row]
    BY DEF AnswerSnapshot
  <1>2. StoreInv' /\ Grows /\ JobsFit'
    BY <1>1, TableRests
  <1>3. NetFits' /\ ShownFits'
    BY <1>1, <1>2, NetKept, ShownKept DEF Bystander
  <1>4. PICK t : t = row
    OBVIOUS
  <1>5. TableFits(t)'
    <2>1. TableFits(t)
      BY <1>4 DEF TableFits, Table, Remnant, OverlayInv, StoreInv, TypeOK, SeqIsNewest,
                  RemnantIffDeleted, AcceptedFit
    <2> QED BY <1>2, <2>1, TableFitsStill
  <1>6. SnapsFit'
    <2> SUFFICES ASSUME NEW i \in Slots, snap'[i] \notin {Free, Asked}, NEW u, u = snap'[i]
                 PROVE  TableFits(u)'
      BY <1>1 DEF SnapsFit, OverlayInv, TableFits
    <2>1. CASE i = k
      BY <1>1, <1>4, <1>5, <2>1 DEF OverlayInv, SnapsFit
    <2>2. CASE i # k
      <3>1. u = snap[i] /\ TableFits(u)
        BY <1>1, <2>2 DEF OverlayInv, SnapsFit
      <3> QED BY <1>2, <3>1, TableFitsStill
    <2> QED BY <2>1, <2>2
  <1> QED BY <1>2, <1>3, <1>6 DEF OverlayInv, Grows

(* Opening, dropping and the timers bring nothing new.                     *)
LEMMA ConnectionFits ==
  ASSUME OverlayInv, Open \/ Disconnect \/ TimerStep, Bystander
  PROVE  OverlayInv'
  <1>1. UNCHANGED vars /\ net' \subseteq net
    BY DEF Open, Disconnect, TimerStep, SettleFires, FallbackFires
  <1>2. StoreInv' /\ Grows /\ JobsFit'
    BY <1>1, TableRests
  <1>3. NetFits' /\ ShownFits'
    BY <1>1, <1>2, NetKept, ShownKept DEF Bystander
  <1>4. /\ snap' = [k \in Slots |-> snap'[k]]
        /\ \A k \in Slots : snap'[k] = snap[k] \/ snap'[k] \in {Free, Asked}
    BY DEF Open, Disconnect, TimerStep, SettleFires, FallbackFires, Ask,
       OverlayInv, SnapsFit
  <1>5. SnapsFit'
    BY <1>2, <1>4, SnapsKept
  <1> QED BY <1>2, <1>3, <1>5 DEF OverlayInv, Grows

(* Every step of the room and of the screen keeps the invariant.           *)
THEOREM OverlayNextInv == OverlayInv /\ [OverlayNext]_allVars => OverlayInv'
  <1> SUFFICES ASSUME OverlayInv, [OverlayNext]_allVars PROVE OverlayInv'
    OBVIOUS
  <1>1. CASE UNCHANGED allVars
    <2>1. UNCHANGED <<vars, net, snap, entry, undrawn, ever>>
      BY <1>1 DEF allVars, channelVars
    <2>2. StoreInv' /\ Grows /\ JobsFit'
      BY <2>1, TableRests
    <2>3. NetFits' /\ ShownFits' /\ SnapsFit'
      BY <2>1, <2>2, NetKept, ShownKept, SnapsKept DEF OverlayInv, SnapsFit
    <2> QED BY <2>2, <2>3 DEF OverlayInv, Grows
  <1> QED BY <1>1, ServerStepFits, DeliverFits, SetAssetsFits, AnswerFits, ConnectionFits
          DEF OverlayNext

(* render.ts: whatever is lost, reordered or read too early, and however   *)
(* the invocations interleave, the browser source never shows an asset     *)
(* with a seq that the table did not accept for it, nor what a late write  *)
(* has left of one; and what a snapshot has it take off the screen without *)
(* forgetting it has been deleted.                                         *)
THEOREM OnlyAcceptedIsShown == OverlaySpec => []ShowsOnlyAccepted
  <1>1. OverlayInv => ShowsOnlyAccepted
    BY DEF OverlayInv, ShownFits, TableFits, ShowsOnlyAccepted
  <1> QED BY <1>1, OverlayInitInv, OverlayNextInv, PTL DEF OverlaySpec

(* The connection, its timer and the bounds.                               *)
ConnectionTypeOK ==
  /\ connected \in BOOLEAN /\ settle \in BOOLEAN
  /\ edits \in 0..MaxEdits /\ aborts \in 0..MaxAborts /\ drops \in 0..MaxDrops

LEMMA ConnectionInitTyped == OverlayInit => ConnectionTypeOK
  <1>1. 0 \in 0..MaxEdits /\ 0 \in 0..MaxAborts /\ 0 \in 0..MaxDrops
    BY BoundAssumption
  <1> QED BY <1>1 DEF OverlayInit, ChannelInit, ConnectionTypeOK

LEMMA ConnectionStaysTyped == ConnectionTypeOK /\ [OverlayNext]_allVars => ConnectionTypeOK'
  <1> SUFFICES ASSUME ConnectionTypeOK, [OverlayNext]_allVars PROVE ConnectionTypeOK'
    OBVIOUS
  <1>1. \A n, max \in Nat : n \in 0..max /\ n < max => n + 1 \in 0..max
    OBVIOUS
  <1>2. CASE UNCHANGED allVars
    BY <1>2 DEF allVars, channelVars, ConnectionTypeOK
  <1>3. ASSUME NEW h \in Handlers, ServerStep(h) PROVE ConnectionTypeOK'
    BY <1>1, <1>3, BoundAssumption
       DEF ServerStep, Edit, Store, Publish, Fail, channelVars, ConnectionTypeOK
  <1>4. ASSUME NEW k \in Slots, SetAssets(k) \/ AnswerSnapshot(k) PROVE ConnectionTypeOK'
    BY <1>4 DEF SetAssets, SnapshotArrives, AnswerSnapshot, ConnectionTypeOK
  <1>5. CASE Deliver
    <2>1. settle' \in BOOLEAN /\ UNCHANGED <<connected, edits, aborts, drops>>
      BY <1>5 DEF Deliver, DeliverDelta, DeliverAdded, DeliverDeleted, Arrive
    <2> QED BY <2>1 DEF ConnectionTypeOK
  <1>6. CASE Open \/ TimerStep
    <2>1. /\ connected' \in {TRUE, connected} /\ settle' \in {FALSE, settle}
          /\ UNCHANGED <<edits, aborts, drops>>
      BY <1>6 DEF Open, TimerStep, SettleFires, FallbackFires
    <2> QED BY <2>1 DEF ConnectionTypeOK
  <1>7. CASE Disconnect
    <2>1. connected' = FALSE /\ UNCHANGED <<settle, edits, aborts>>
      BY <1>7 DEF Disconnect
    <2>2. drops' \in 0..MaxDrops
      BY <1>7, BoundAssumption DEF Disconnect, ConnectionTypeOK
    <2> QED BY <2>1, <2>2 DEF ConnectionTypeOK
  <1> QED BY <1>2, <1>3, <1>4, <1>5, <1>6, <1>7 DEF OverlayNext

LEMMA OverlayInvHolds ==
  ASSUME OverlayInv, ConnectionTypeOK
  PROVE  OverlayTypeOK /\ ShowsOnlyAccepted
  <1>1. TypeOK
    BY DEF OverlayInv, StoreInv
  <1>2. ChannelTypeOK
    BY DEF OverlayInv, ConnectionTypeOK, ChannelTypeOK, NetFits, MessageFits, SnapsFit,
           TableFits
  <1>3. undrawn \subseteq Assets
    BY <1>1 DEF OverlayInv, ShownFits, TypeOK
  <1> QED BY <1>1, <1>2, <1>3 DEF OverlayInv, OverlayTypeOK, ShowsOnlyAccepted, ShownFits,
                            TableFits, EverTypeOK

(* message.ts:133-352: whatever the browser source asks for and hears, the *)
(* table behind it is the one of AssetStore; so all that is proved of the  *)
(* table holds under the screen.                                           *)
THEOREM OverlayImplementsStore == OverlaySpec => Spec
  <1>1. OverlayInit => Init
    BY DEF OverlayInit
  <1>2. [OverlayNext]_allVars => [Next]_vars
    <2> SUFFICES ASSUME [OverlayNext]_allVars PROVE [Next]_vars
      OBVIOUS
    <2>1. ASSUME NEW h \in Handlers, ServerStep(h) PROVE [Next]_vars
      BY <2>1 DEF ServerStep, Edit, Store, Publish, Fail, Next, Proceed
    <2>2. ASSUME NEW k \in Slots, SetAssets(k) \/ AnswerSnapshot(k) PROVE UNCHANGED vars
      BY <2>2 DEF SetAssets, SnapshotArrives, AnswerSnapshot
    <2>3. CASE Deliver \/ Open \/ Disconnect \/ TimerStep \/ UNCHANGED allVars
      BY <2>3 DEF Deliver, DeliverDelta, DeliverAdded, DeliverDeleted, Arrive, Open,
         Disconnect, TimerStep, SettleFires, FallbackFires, allVars
    <2> QED BY <2>1, <2>2, <2>3 DEF OverlayNext
  <1> QED BY <1>1, <1>2, PTL DEF OverlaySpec, Spec

----------------------------------------------------------------------------
(* The two of them, each by itself.                                        *)
ScreenInv == /\ OverlayInv /\ ConnectionTypeOK
             /\ PlayInv /\ PlayTyped /\ HistoryTypeOK

(* The invariants of the run BrowserSource, for any number of assets,      *)
(* invocations, requests, changes and faults: what the source holds and    *)
(* plays is well typed, it shows only what was accepted, a clip that has   *)
(* ended is not shown again, and a Stop that was the last command puts the *)
(* screen back at the start.                                               *)
THEOREM ScreenInvariance ==
  UnionSpec => [](ScreenTypeOK /\ ShowsOnlyAccepted /\ EndedStaysEnded /\ StopRewinds)
  <1>1. UnionInit => ScreenInv
    BY OverlayInitInv, ConnectionInitTyped, PlayInitInv, PlayInitTyped
       DEF UnionInit, ScreenInv
  <1>2. ScreenInv /\ [UnionNext]_unionVars => ScreenInv'
    <2> SUFFICES ASSUME ScreenInv, [UnionNext]_unionVars PROVE ScreenInv'
      OBVIOUS
    <2>1. [OverlayNext]_allVars /\ [PlayNext]_playVars
      BY DEF UnionNext, unionVars
    <2> QED BY <2>1, OverlayNextInv, ConnectionStaysTyped, PlayNextInv, CopiesAreHeld,
               PlayStaysTyped, HistoryStaysTyped DEF ScreenInv
  <1>3. ScreenInv => ScreenTypeOK /\ ShowsOnlyAccepted
    BY OverlayInvHolds, PlayTypes DEF ScreenInv, ScreenTypeOK
  <1>4. ScreenInv => EndedStaysEnded /\ StopRewinds
    BY DEF ScreenInv, PlayInv, HeldBack, StopHolds, EndedStaysEnded, StopRewinds
  <1> QED BY <1>1, <1>2, <1>3, <1>4, PTL DEF UnionSpec
==============================================================================
