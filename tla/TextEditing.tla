----------------------------- MODULE TextEditing -----------------------------
(***************************************************************************)
(* One text asset under several editors (apps/control-ui canvas.ts): every *)
(* keystroke changes the editor's own copy, a throttle sends the copy's    *)
(* whole state, while style changes and moves send what they change.  All  *)
(* of them share the seq of the asset's row, the invocations that write it *)
(* run in any order, and a stale one is dropped.  The question is whose    *)
(* text and whose style survive.                                           *)
(*                                                                         *)
(* Abstracted: the style stands for all attributes an update may carry     *)
(* beside the text (hidden, opacity, the box measured from the text); a    *)
(* nudge is a move or a size, which carry neither.  The handler is one     *)
(* step: its read decides nothing here.  Equal broadcasts under way to one *)
(* editor are one.                                                         *)
(***************************************************************************)
EXTENDS Naturals

CONSTANTS
  Writers,     \* the editors
  Texts, FirstText,
  Styles, FirstStyle,
  Absent,      \* not in a patch; no snapshot
  TextMaxSeq,  \* bound on the seqs stamped
  MaxStrokes   \* bound on the edits of all editors and lost messages together

ASSUME TextAssumption ==
  /\ FirstText \in Texts /\ FirstStyle \in Styles
  /\ Absent \notin Texts \cup Styles \cup Writers
ASSUME TextBoundsAssumption ==
  TextMaxSeq \in Nat /\ MaxStrokes \in Nat

VARIABLES
  textRow,     \* the asset's row
  draft,       \* draft[w]: the asset as w's canvas has it
  session,     \* session[w]: where w is typing: "none", "inline", "sidebar"
  trailing,    \* editors whose trailing text send is scheduled
  throttled,   \* editors who sent their text less than the throttle ago
  clock,       \* clock[w]: the largest seq w has stamped
  posts,       \* messages no invocation has processed
  letters,     \* letters[w]: broadcasts under way to w
  backlog,     \* a snapshot under way and to whom, or Absent
  strokes,     \* counter
  typed,       \* history: who typed last, and what
  styled,      \* history: who styled last, and how
  wrote,       \* history: the post that made the row what it is
  textExcused, styleExcused  \* history: it has met with one of the accidents below

textVars == <<textRow, draft, session, trailing, throttled, clock, posts, letters,
              backlog, strokes, typed, styled, wrote, textExcused, styleExcused>>

desk == <<session, trailing, throttled>>
wires == <<letters, backlog>>
history == <<typed, styled, textExcused, styleExcused>>

----------------------------------------------------------------------------
TextSeqs == 0..TextMaxSeq
TextRows == [seq : TextSeqs, words : Texts, style : Styles]
Letters == [seq : TextSeqs, words : Texts \cup {Absent}, style : Styles \cup {Absent}]
Posts == [from : Writers, seq : TextSeqs, words : Texts \cup {Absent},
          style : Styles \cup {Absent}]

(* What made the row at the start.                                         *)
NoPost == [from |-> Absent, seq |-> 0, words |-> FirstText, style |-> FirstStyle]

TextTypeOK ==
  /\ textRow \in TextRows
  /\ draft \in [Writers -> TextRows]
  /\ session \in [Writers -> {"none", "inline", "sidebar"}]
  /\ trailing \subseteq Writers /\ throttled \subseteq Writers
  /\ clock \in [Writers -> TextSeqs]
  /\ posts \subseteq Posts
  /\ letters \in [Writers -> SUBSET Letters]
  /\ backlog \in [to : Writers, row : TextRows] \cup {Absent}
  /\ strokes \in 0..MaxStrokes
  /\ typed \in [by : Writers \cup {Absent}, words : Texts]
  /\ styled \in [by : Writers \cup {Absent}, style : Styles]
  /\ wrote \in Posts \cup {NoPost}
  /\ {textExcused, styleExcused} \subseteq BOOLEAN

TextInit ==
  /\ textRow = [seq |-> 0, words |-> FirstText, style |-> FirstStyle]
  /\ draft = [w \in Writers |-> textRow]
  /\ session = [w \in Writers |-> "none"]
  /\ trailing = {} /\ throttled = {}
  /\ clock = [w \in Writers |-> 0]
  /\ posts = {}
  /\ letters = [w \in Writers |-> {}]
  /\ backlog = Absent
  /\ strokes = 0
  /\ typed = [by |-> Absent, words |-> FirstText]
  /\ styled = [by |-> Absent, style |-> FirstStyle]
  /\ wrote = NoPost
  /\ textExcused = FALSE /\ styleExcused = FALSE

----------------------------------------------------------------------------
(* The accidents.  The last text typed by anyone, and the last style       *)
(* picked by anyone, may be lost to a later-stamped write...               *)

Other(value, latest) == value \notin {Absent, latest}

(* ...of another editor, whose copy did not have it,                       *)
Overtaken(p, by, value, latest) == p.from # by /\ Other(value, latest)

(* ...or of anyone, without it, which is why its own is stale;             *)
Outrun(p, by, value, latest, winner) ==
  p.from = by /\ value = latest /\ (wrote.from # by \/ winner = Absent)

(* to a broadcast or a snapshot that replaces it in the editor's own copy, *)
(* from which the next send is made;                                       *)
Overwritten(w, by, value, latest) == w = by /\ value # latest

(* or with its message.                                                    *)
Undelivered(p, by, value) == p.from = by /\ value # Absent

----------------------------------------------------------------------------
(* The editors.                                                            *)

Stroke == strokes < MaxStrokes /\ strokes' = strokes + 1

Draft(w, d) == draft' = [draft EXCEPT ![w] = d]

(* nextSeq: the wall clock, or one above the last seq stamped.             *)
StampAndPost(w, d, words, style) ==
  \E seq \in (clock[w] + 1)..TextMaxSeq :
    /\ clock' = [clock EXCEPT ![w] = seq]
    /\ Draft(w, [d EXCEPT !.seq = seq])
    /\ posts' = posts \cup {[from |-> w, seq |-> seq, words |-> words, style |-> style]}

(* fullAssetPatch: everything the copy says.                               *)
SendFullTextPatch(w, d) ==
  /\ StampAndPost(w, d, d.words, d.style)
  /\ throttled' = throttled \cup {w}
  /\ trailing' = trailing \ {w}

(* (A session in which there is no stroke left to type is not begun.)      *)
BeginTextEdit(w, where) ==
  /\ session[w] = "none"
  /\ strokes < MaxStrokes
  /\ session' = [session EXCEPT ![w] = where]
  /\ UNCHANGED <<textRow, draft, trailing, throttled, clock, posts, wires, strokes,
                 history, wrote>>

(* onInput.  The inline editor leaves out what the copy has already.       *)
TypeText(w, words) ==
  /\ Stroke
  /\ session[w] # "none"
  /\ session[w] = "inline" => words # draft[w].words
  /\ LET d == [draft[w] EXCEPT !.words = words] IN
       IF w \in throttled
         THEN /\ Draft(w, d)
              /\ trailing' = trailing \cup {w}
              /\ UNCHANGED <<throttled, clock, posts>>
         ELSE SendFullTextPatch(w, d)
  /\ typed' = [by |-> w, words |-> words]
  /\ textExcused' = FALSE
  /\ UNCHANGED <<textRow, session, wires, styled, wrote, styleExcused>>

(* TEXT_SEND_THROTTLE_MS are over.                                         *)
ThrottleEnds(w) ==
  /\ w \in throttled
  /\ throttled' = throttled \ {w}
  /\ UNCHANGED <<textRow, draft, session, trailing, clock, posts, wires, strokes,
                 history, wrote>>

TrailingFires(w) ==
  /\ w \in trailing \ throttled
  /\ SendFullTextPatch(w, draft[w])
  /\ UNCHANGED <<textRow, session, wires, strokes, history, wrote>>

(* Mutant of FlushPendingTextPatch: the timer is cleared, and that is all. *)
FlushNothing(w) == trailing' = trailing \ {w} /\ UNCHANGED <<draft, throttled, clock, posts>>

FlushPendingTextPatch(w) ==
  IF w \in trailing THEN SendFullTextPatch(w, draft[w])
                    ELSE UNCHANGED <<draft, trailing, throttled, clock, posts>>

(* stopEditing, and the textarea's blur.                                   *)
EndTextEdit(w) ==
  /\ session[w] # "none"
  /\ session' = [session EXCEPT ![w] = "none"]
  /\ FlushPendingTextPatch(w)
  /\ UNCHANGED <<textRow, wires, strokes, history, wrote>>

(* Any other control takes the focus first.                                *)
PickStyle(w, style) ==
  /\ Stroke
  /\ session[w] = "none"
  /\ StampAndPost(w, [draft[w] EXCEPT !.style = style], Absent, style)
  /\ styled' = [by |-> w, style |-> style]
  /\ styleExcused' = FALSE
  /\ UNCHANGED <<textRow, desk, wires, typed, wrote, textExcused>>

Nudge(w) ==
  /\ Stroke
  /\ session[w] = "none"
  /\ StampAndPost(w, draft[w], Absent, Absent)
  /\ UNCHANGED <<textRow, desk, wires, history, wrote>>

----------------------------------------------------------------------------
(* The handler.                                                            *)

OrKept(value, old) == IF value = Absent THEN old ELSE value

Patched(r, p) ==
  [seq |-> p.seq, words |-> OrKept(p.words, r.words), style |-> OrKept(p.style, r.style)]

LetterOf(p) == [seq |-> p.seq, words |-> p.words, style |-> p.style]

(* Mutant of IsNewer: the row's seq is not looked at.                      *)
IsAnything(p) == TRUE

IsNewer(p) == p.seq > textRow.seq

(* updateAsset, moveAsset and resizeAsset, with the broadcast.             *)
ProcessPost(p) ==
  /\ p \in posts
  /\ IsNewer(p)
  /\ posts' = posts \ {p}
  /\ textRow' = Patched(textRow, p)
  /\ letters' = [w \in Writers |-> letters[w] \cup {LetterOf(p)}]
  /\ wrote' = p
  /\ textExcused' = (textExcused \/ Overtaken(p, typed.by, p.words, typed.words))
  /\ styleExcused' = (styleExcused \/ Overtaken(p, styled.by, p.style, styled.style))
  /\ UNCHANGED <<draft, desk, clock, backlog, strokes, typed, styled>>

(* "stale": no broadcast, no answer.                                       *)
RefusePost(p) ==
  /\ p \in posts
  /\ ~IsNewer(p)
  /\ posts' = posts \ {p}
  /\ textExcused' =
       (textExcused \/ Outrun(p, typed.by, p.words, typed.words, wrote.words))
  /\ styleExcused' =
       (styleExcused \/ Outrun(p, styled.by, p.style, styled.style, wrote.style))
  /\ UNCHANGED <<textRow, draft, desk, clock, wires, strokes, typed, styled, wrote>>

(* No socket, or an invocation that failed.                                *)
LosePost(p) ==
  /\ Stroke
  /\ p \in posts
  /\ posts' = posts \ {p}
  /\ textExcused' = (textExcused \/ Undelivered(p, typed.by, p.words))
  /\ styleExcused' = (styleExcused \/ Undelivered(p, styled.by, p.style))
  /\ UNCHANGED <<textRow, draft, desk, clock, wires, typed, styled, wrote>>

AnswerSnapshotTo(w) ==
  /\ backlog = Absent
  /\ backlog' = [to |-> w, row |-> textRow]
  /\ UNCHANGED <<textRow, draft, desk, clock, posts, letters, strokes, history,
                 wrote>>

----------------------------------------------------------------------------
(* What arrives.                                                           *)

Take(w, d) ==
  /\ Draft(w, d)
  /\ textExcused' = (textExcused \/ Overwritten(w, typed.by, d.words, typed.words))
  /\ styleExcused' = (styleExcused \/ Overwritten(w, styled.by, d.style, styled.style))

(* applyRemoteUpdate, applyRemoteMove: no guard for who is typing.         *)
HearLetter(w, l) ==
  /\ l \in letters[w]
  /\ letters' = [letters EXCEPT ![w] = @ \ {l}]
  /\ Take(w, IF l.seq < draft[w].seq THEN draft[w] ELSE Patched(draft[w], l))
  /\ UNCHANGED <<textRow, desk, clock, posts, backlog, strokes, typed, styled,
                 wrote>>

(* setAssets knows of the inline editor, not of the textarea.              *)
TakeDigest(w) ==
  /\ backlog # Absent
  /\ backlog.to = w
  /\ backlog' = Absent
  /\ Take(w, IF backlog.row.seq < draft[w].seq \/ session[w] = "inline"
               THEN draft[w] ELSE backlog.row)
  /\ UNCHANGED <<textRow, desk, clock, posts, letters, strokes, typed, styled,
                 wrote>>

----------------------------------------------------------------------------
TextNext ==
  \/ \E w \in Writers :
       \/ \E where \in {"inline", "sidebar"} : BeginTextEdit(w, where)
       \/ \E words \in Texts : TypeText(w, words)
       \/ ThrottleEnds(w) \/ TrailingFires(w) \/ EndTextEdit(w)
       \/ \E style \in Styles : PickStyle(w, style)
       \/ Nudge(w)
       \/ AnswerSnapshotTo(w) \/ TakeDigest(w)
       \/ \E l \in letters[w] : HearLetter(w, l)
  \/ \E p \in posts : ProcessPost(p) \/ RefusePost(p) \/ LosePost(p)

TextSpec == TextInit /\ [][TextNext]_textVars

----------------------------------------------------------------------------
(* Properties.                                                             *)

(* canvas.ts:907-919, 928-936: until it meets with an accident, the last   *)
(* text typed is in the row, in a message under way, or in the typist's    *)
(* copy with a send to come: neither the throttle nor the end of a session *)
(* loses it, nor do one editor's own sends when they overtake each other.  *)
TypedTextIsKept ==
  ~textExcused =>
    \/ textRow.words = typed.words
    \/ typed.by \in trailing /\ draft[typed.by].words = typed.words
    \/ \E p \in posts : p.from = typed.by /\ p.words = typed.words

(* The same of the last style picked, which every text patch of the same   *)
(* editor carries too.                                                     *)
PickedStyleIsKept ==
  ~styleExcused =>
    \/ textRow.style = styled.style
    \/ \E p \in posts : p.from = styled.by /\ p.style = styled.style

(* What was typed or picked last is lost only by the accidents.            *)
LastEditsAreKept == TypedTextIsKept /\ PickedStyleIsKept
=============================================================================
