--------------------------- MODULE EditorSelection ---------------------------
(***************************************************************************)
(* What is selected in the control UI, and the two copies of the room's    *)
(* objects: the canvas (canvas.ts) has entries and selectedAssetId, the    *)
(* sidebar (sidebar.ts) has rows, its own selectedAssetId and the variable *)
(* on the card, the list of variables (variablesPanel.ts) has the row that *)
(* is highlighted.  main.ts keeps them together by callbacks and by what   *)
(* it does with each message.                                              *)
(*                                                                         *)
(* Abstracted: an object has one field, a flag that can be toggled; which  *)
(* of two values of it wins is in CanvasSync, here a value that comes from *)
(* the room is any.  Values of variables are in VariablePanels.            *)
(***************************************************************************)
EXTENDS Naturals, FiniteSets

CONSTANTS
  Objects,     \* asset ids
  FirstObject, \* one that exists at the start
  Keys,        \* keys of variables
  FirstKey,    \* one that exists at the start
  Nothing,     \* undefined
  MaxOrders,   \* bound on the changes of this user and the others together
  MaxCuts      \* bound on the failures

ASSUME ObjectAssumption == FirstObject \in Objects /\ FirstKey \in Keys
ASSUME NothingAssumption ==
  Nothing \notin Objects \cup Keys \cup BOOLEAN /\ Objects \cap Keys = {}
ASSUME EditorBoundsAssumption ==
  MaxOrders \in Nat /\ MaxCuts \in Nat

VARIABLES
  inRoom,       \* the assets and variables that have a row
  entries,      \* entries[a]: the canvas's flag of a, or Nothing
  rows,         \* rows[a]: the sidebar's
  selected,     \* the canvas's selectedAssetId
  focus,        \* the sidebar's selectedAssetId
  cardKey,      \* the sidebar's selectedVariable
  highlighted,  \* the list's selectedKey
  known,        \* the keys in the list
  orders,       \* messages of this client that no invocation has processed
  reports,      \* broadcasts under way to it
  digest,       \* its snapshot request: asked, the rows that were read, or none
  linked,       \* the connection has a socket
  ordered, cuts,   \* counters
  unmatched,    \* history: assets of which a patch or its echo was lost
  aside,        \* history: assets changed on the canvas itself
  dropped       \* history: a snapshot came without the selected asset

editorVars == <<inRoom, entries, rows, selected, focus, cardKey, highlighted, known,
                orders, reports, digest, linked, ordered, cuts, unmatched, aside,
                dropped>>

selection == <<selected, focus, cardKey, highlighted, dropped>>
panels == <<entries, rows, known, aside>>
network == <<orders, reports, linked, unmatched>>
counters == <<ordered, cuts>>

----------------------------------------------------------------------------
Things == Objects \cup Keys
Has(copy, a) == copy[a] # Nothing
Held(copy) == {a \in Objects : Has(copy, a)}

NoDigest == [stage |-> "none"]
AskedDigest == [stage |-> "asked"]

Orders == [what : {"add", "delete", "patch"}, id : Things]

EditorTypeOK ==
  /\ inRoom \subseteq Things
  /\ entries \in [Objects -> BOOLEAN \cup {Nothing}]
  /\ rows \in [Objects -> BOOLEAN \cup {Nothing}]
  /\ selected \in Objects \cup {Nothing} /\ focus \in Objects \cup {Nothing}
  /\ cardKey \in Keys \cup {Nothing} /\ highlighted \in Keys \cup {Nothing}
  /\ known \subseteq Keys
  /\ orders \subseteq Orders
  /\ reports \subseteq Orders
  /\ digest \in {NoDigest, AskedDigest} \/ digest.all \subseteq Things
  /\ linked \in BOOLEAN /\ dropped \in BOOLEAN
  /\ ordered \in 0..MaxOrders /\ cuts \in 0..MaxCuts
  /\ unmatched \subseteq Objects /\ aside \subseteq Objects

EditorInit ==
  /\ inRoom = {FirstObject, FirstKey}
  /\ entries = [a \in Objects |-> IF a = FirstObject THEN FALSE ELSE Nothing]
  /\ rows = entries
  /\ selected = Nothing /\ focus = Nothing
  /\ cardKey = Nothing /\ highlighted = Nothing
  /\ known = {FirstKey}
  /\ orders = {} /\ reports = {}
  /\ digest = NoDigest
  /\ linked = TRUE
  /\ ordered = 0 /\ cuts = 0
  /\ unmatched = {} /\ aside = {}
  /\ dropped = FALSE

Order(what, id) == [what |-> what, id |-> id]

(* connection.send: without a socket nothing is sent.                      *)
Give(ms) ==
  /\ ordered < MaxOrders
  /\ ordered' = ordered + 1
  /\ orders' = IF linked THEN orders \cup ms ELSE orders
  /\ unmatched' = IF linked THEN unmatched
                  ELSE unmatched \cup {m.id : m \in {o \in ms : o.what = "patch"}}
  /\ UNCHANGED <<reports, linked, cuts>>

----------------------------------------------------------------------------
(* Selecting.                                                              *)

(* canvas.selectAsset, onAssetMouseDown: nothing happens if t is selected  *)
(* already; else onSelectionChange tells the sidebar, whose setSelected    *)
(* also drops the variable, and, for an asset, the list.                   *)
SelectOnCanvas(t) ==
  IF t = selected THEN UNCHANGED selection
  ELSE /\ selected' = t
       /\ focus' = t
       /\ cardKey' = Nothing
       /\ highlighted' = IF t = Nothing THEN highlighted ELSE Nothing
       /\ dropped' = FALSE

(* canvas.selectAsset(undefined), sidebar.selectVariable, setSelectedKey.  *)
FocusVariable(k) ==
  /\ selected' = Nothing
  /\ focus' = Nothing
  /\ cardKey' = k
  /\ highlighted' = k
  /\ dropped' = FALSE

(* Mutant of ClickObject: the row only tells the sidebar.                  *)
ClickObjectInSidebar(a) ==
  /\ Has(entries, a) \/ Has(rows, a)
  /\ IF Has(rows, a)
       THEN focus' = a /\ cardKey' = Nothing /\ UNCHANGED <<selected, highlighted, dropped>>
       ELSE SelectOnCanvas(a)
  /\ UNCHANGED <<inRoom, panels, network, digest, counters>>

(* On the canvas or in the list of objects.                                *)
ClickObject(a) ==
  /\ Has(entries, a) \/ Has(rows, a)
  /\ SelectOnCanvas(a)
  /\ UNCHANGED <<inRoom, panels, network, digest, counters>>

ClickVariable(k) ==
  /\ k \in known
  /\ FocusVariable(k)
  /\ UNCHANGED <<inRoom, panels, network, digest, counters>>

(* The + of the list: shown before the room has it.                        *)
CreateVariable(k) ==
  /\ k \notin known
  /\ Give({Order("add", k)})
  /\ known' = known \cup {k}
  /\ FocusVariable(k)
  /\ UNCHANGED <<inRoom, entries, rows, aside, digest>>

(* onVariableRename; if the key is taken the card is shown again.          *)
RenameOnCard(l) ==
  /\ cardKey \in known
  /\ l # cardKey
  /\ IF l \in known
       THEN /\ focus' = Nothing
            /\ UNCHANGED <<selected, cardKey, highlighted, dropped, known, network, counters>>
       ELSE /\ Give({Order("add", l), Order("delete", cardKey)})
            /\ known' = (known \ {cardKey}) \cup {l}
            /\ focus' = Nothing
            /\ cardKey' = l
            /\ highlighted' = l
            /\ UNCHANGED <<selected, dropped>>
  /\ UNCHANGED <<inRoom, entries, rows, aside, digest>>

(* Mutant of PressDelete: without looking whether anything is selected.    *)
PressDeleteAnyway ==
  /\ Give({Order("delete", selected)})
  /\ UNCHANGED <<inRoom, panels, selection, digest>>

(* The Delete key: the canvas's selection, whether it has an entry or not. *)
PressDelete ==
  /\ selected # Nothing
  /\ Give({Order("delete", selected)})
  /\ UNCHANGED <<inRoom, panels, selection, digest>>

(* The trash icons of the two lists and the card.                          *)
ClickTrash(t) ==
  /\ t \in known \cup Held(rows)
  /\ Give({Order("delete", t)})
  /\ UNCHANGED <<inRoom, panels, selection, digest>>

(* duplicateAsset: the copy is selected before anybody has it.             *)
Duplicate(copy) ==
  /\ focus # Nothing /\ Has(rows, focus) /\ Has(entries, focus)
  /\ copy \in Objects \ (inRoom \cup Held(entries) \cup Held(rows))
  /\ \A m \in orders \cup reports : m.id # copy
  /\ Give({Order("add", copy)})
  /\ SelectOnCanvas(copy)
  /\ UNCHANGED <<inRoom, panels, digest>>

(* The media controls over the canvas, an inline edit: the sidebar is not  *)
(* told.                                                                   *)
ToggleOnCanvas ==
  /\ selected # Nothing /\ Has(entries, selected)
  /\ Give({Order("patch", selected)})
  /\ entries' = [entries EXCEPT ![selected] = ~@]
  /\ aside' = aside \cup {selected}
  /\ UNCHANGED <<inRoom, rows, known, selection, digest>>

(* Mutant of ToggleInSidebar: without syncSidebarFromCanvas.               *)
ToggleInSidebarOnly(a) ==
  /\ Has(rows, a) /\ Has(entries, a)
  /\ Give({Order("patch", a)})
  /\ entries' = [entries EXCEPT ![a] = ~rows[a]]
  /\ UNCHANGED <<inRoom, rows, known, aside, selection, digest>>

(* onToggleHidden, onToggleLocked, onPatch: from the sidebar's copy.       *)
ToggleInSidebar(a) ==
  /\ Has(rows, a) /\ Has(entries, a)
  /\ Give({Order("patch", a)})
  /\ entries' = [entries EXCEPT ![a] = ~rows[a]]
  /\ rows' = [rows EXCEPT ![a] = ~rows[a]]
  /\ UNCHANGED <<inRoom, known, aside, selection, digest>>

----------------------------------------------------------------------------
(* The handler and the others.                                             *)

Execute(m) ==
  /\ inRoom' = CASE m.what = "add" -> inRoom \cup {m.id}
                 [] m.what = "delete" -> inRoom \ {m.id}
                 [] OTHER -> inRoom
  /\ reports' = IF linked THEN reports \cup {m} ELSE reports

Refused(m) == m.what = "patch" /\ m.id \notin inRoom

ExecuteOrder(m) ==
  /\ m \in orders
  /\ orders' = orders \ {m}
  /\ IF Refused(m) THEN UNCHANGED <<inRoom, reports>> ELSE Execute(m)
  /\ unmatched' = IF m.what = "patch" /\ (Refused(m) \/ ~linked)
                    THEN unmatched \cup {m.id} ELSE unmatched
  /\ UNCHANGED <<panels, selection, digest, linked, counters>>

(* The invocation throws, or a patch is stale at the row.                  *)
FailOrder(m) ==
  /\ cuts < MaxCuts
  /\ cuts' = cuts + 1
  /\ m \in orders
  /\ orders' = orders \ {m}
  /\ unmatched' = IF m.what = "patch" THEN unmatched \cup {m.id} ELSE unmatched
  /\ UNCHANGED <<inRoom, panels, selection, reports, digest, linked, ordered>>

OtherOrders(m) ==
  /\ ordered < MaxOrders
  /\ ordered' = ordered + 1
  /\ m.what = "add" <=> m.id \notin inRoom
  /\ m.what = "patch" => m.id \in Objects
  /\ Execute(m)
  /\ UNCHANGED <<panels, selection, orders, digest, linked, unmatched, cuts>>

CutOff ==
  /\ linked
  /\ cuts < MaxCuts
  /\ cuts' = cuts + 1
  /\ linked' = FALSE
  /\ unmatched' = unmatched \cup {m.id : m \in {r \in reports : r.what = "patch"}}
  /\ reports' = {}
  /\ digest' = NoDigest
  /\ UNCHANGED <<inRoom, panels, selection, orders, ordered>>

LinkUp ==
  /\ ~linked
  /\ linked' = TRUE
  /\ digest' = AskedDigest
  /\ UNCHANGED <<inRoom, panels, selection, orders, reports, unmatched, counters>>

(* The settle timer, the fallback interval, the refresh button.            *)
AskDigest ==
  /\ linked
  /\ digest = NoDigest
  /\ digest' = AskedDigest
  /\ UNCHANGED <<inRoom, panels, selection, network, counters>>

AnswerDigest ==
  /\ digest = AskedDigest
  /\ digest' = [stage |-> "sent", all |-> inRoom]
  /\ UNCHANGED <<inRoom, panels, selection, network, counters>>

----------------------------------------------------------------------------
(* What arrives.                                                           *)

(* asset:added: both copies take it.                                       *)
HearAdded(a, v) ==
  /\ Order("add", a) \in reports
  /\ reports' = reports \ {Order("add", a)}
  /\ entries' = [entries EXCEPT ![a] = v]
  /\ rows' = [rows EXCEPT ![a] = v]
  /\ UNCHANGED <<inRoom, known, aside, selection, orders, digest, linked, unmatched,
                 counters>>

(* asset:updated: the canvas takes it or not, the sidebar copies it.       *)
HearPatched(a, v) ==
  /\ Order("patch", a) \in reports
  /\ reports' = reports \ {Order("patch", a)}
  /\ IF Has(entries, a)
       THEN entries' = [entries EXCEPT ![a] = v] /\ rows' = [rows EXCEPT ![a] = v]
       ELSE UNCHANGED <<entries, rows>>
  /\ UNCHANGED <<inRoom, known, aside, selection, orders, digest, linked, unmatched,
                 counters>>

(* Mutant of HearDeleted: the canvas keeps its selection.                  *)
HearDeletedKeeping(a) ==
  /\ Order("delete", a) \in reports
  /\ reports' = reports \ {Order("delete", a)}
  /\ entries' = [entries EXCEPT ![a] = Nothing]
  /\ rows' = [rows EXCEPT ![a] = Nothing]
  /\ focus' = IF focus = a THEN Nothing ELSE focus
  /\ UNCHANGED <<inRoom, known, aside, selected, cardKey, highlighted, dropped, orders, digest,
                 linked, unmatched, counters>>

(* asset:deleted: canvas.remove, which reports a selection that is gone,   *)
(* then sidebar.removeAsset.                                               *)
HearDeleted(a) ==
  /\ Order("delete", a) \in reports
  /\ reports' = reports \ {Order("delete", a)}
  /\ entries' = [entries EXCEPT ![a] = Nothing]
  /\ rows' = [rows EXCEPT ![a] = Nothing]
  /\ IF selected = a THEN SelectOnCanvas(Nothing)
       ELSE /\ focus' = IF focus = a THEN Nothing ELSE focus
            /\ UNCHANGED <<selected, cardKey, highlighted, dropped>>
  /\ UNCHANGED <<inRoom, known, aside, orders, digest, linked, unmatched, counters>>

(* variable:updated, variable:deleted.                                     *)
HearVariable(k) ==
  /\ Order("add", k) \in reports
  /\ reports' = reports \ {Order("add", k)}
  /\ known' = known \cup {k}
  /\ UNCHANGED <<inRoom, entries, rows, aside, selection, orders, digest, linked, unmatched,
                 counters>>

HearVariableDeleted(k) ==
  /\ Order("delete", k) \in reports
  /\ reports' = reports \ {Order("delete", k)}
  /\ known' = known \ {k}
  /\ cardKey' = IF cardKey = k THEN Nothing ELSE cardKey
  /\ highlighted' = IF highlighted = k THEN Nothing ELSE highlighted
  /\ UNCHANGED <<inRoom, entries, rows, aside, selected, focus, dropped, orders, digest, linked,
                 unmatched, counters>>

KeptIf(t, S) == IF t \in S THEN t ELSE Nothing

(* Mutant of ApplyDigest: entries the snapshot does not have are kept.     *)
ApplyDigestKeeping ==
  /\ digest.stage = "sent"
  /\ digest' = NoDigest
  /\ \E v \in [Objects -> BOOLEAN] :
       entries' = [a \in Objects |-> IF a \in digest.all THEN v[a] ELSE entries[a]]
  /\ rows' = entries'
  /\ known' = digest.all \cap Keys
  /\ focus' = KeptIf(focus, Held(rows'))
  /\ cardKey' = KeptIf(cardKey, known')
  /\ highlighted' = KeptIf(highlighted, known')
  /\ UNCHANGED <<inRoom, aside, selected, dropped, network, counters>>

(* room:snapshot: canvas.setAssets leaves selectedAssetId as it is; the    *)
(* sidebar takes the canvas's entries and lets go of what it lacks.        *)
ApplyDigest ==
  /\ digest.stage = "sent"
  /\ digest' = NoDigest
  /\ \E v \in [Objects -> BOOLEAN] :
       entries' = [a \in Objects |-> IF a \in digest.all THEN v[a] ELSE Nothing]
  /\ rows' = entries'
  /\ known' = digest.all \cap Keys
  /\ focus' = KeptIf(focus, Held(rows'))
  /\ cardKey' = KeptIf(cardKey, known')
  /\ highlighted' = KeptIf(highlighted, known')
  /\ dropped' = (dropped \/ (selected # Nothing /\ selected \notin digest.all))
  /\ UNCHANGED <<inRoom, aside, selected, network, counters>>

----------------------------------------------------------------------------
HearObject(a) ==
  HearDeleted(a) \/ \E v \in BOOLEAN : HearAdded(a, v) \/ HearPatched(a, v)

EditorNext ==
  \/ \E a \in Objects :
       \/ ClickObject(a) \/ Duplicate(a) \/ ToggleInSidebar(a) \/ HearObject(a)
  \/ \E k \in Keys :
       \/ ClickVariable(k) \/ CreateVariable(k) \/ RenameOnCard(k)
       \/ HearVariable(k) \/ HearVariableDeleted(k)
  \/ \E t \in Things : ClickTrash(t)
  \/ PressDelete \/ ToggleOnCanvas
  \/ \E m \in orders : ExecuteOrder(m) \/ FailOrder(m)
  \/ \E m \in Orders : OtherOrders(m)
  \/ CutOff \/ LinkUp \/ AskDigest \/ AnswerDigest \/ ApplyDigest

EditorSpec == EditorInit /\ [][EditorNext]_editorVars

(* What was sent is processed and arrives, a client reconnects and polls.  *)
EditorFairness ==
  /\ WF_editorVars(\E m \in orders : ExecuteOrder(m))
  /\ WF_editorVars(LinkUp)
  /\ WF_editorVars(AskDigest)
  /\ WF_editorVars(AnswerDigest)
  /\ WF_editorVars(ApplyDigest)
  /\ WF_editorVars(\E a \in Objects : HearObject(a))
  /\ WF_editorVars(\E k \in Keys : HearVariable(k) \/ HearVariableDeleted(k))

EditorFairSpec == EditorSpec /\ EditorFairness

----------------------------------------------------------------------------
(* Properties.                                                             *)

(* main.ts:812-817, 909-927: three components hold a selection; whatever   *)
(* is clicked, deleted or overwritten by a snapshot, the properties show   *)
(* one thing: the asset selected on the canvas, or the highlighted variable*)
(* (and then no asset is selected anywhere).                               *)
OneThingFocused ==
  /\ focus # Nothing => focus = selected
  /\ cardKey # Nothing => selected = Nothing
  /\ highlighted = cardKey

(* main.ts:1118-1123: an asset selected on the canvas is in the properties *)
(* too, also one that nobody has yet, unless a snapshot without it has come*)
(* in between (then only another selection brings its properties back).    *)
SelectionShownUnlessDropped ==
  selected # Nothing => focus = selected \/ dropped

(* main.ts:828-835, 1064-1071: the sidebar toggles from its own copy; this *)
(* differs from the canvas's only after a change made on the canvas itself,*)
(* and until a message about the asset has come back, or was lost.         *)
SidebarInStep ==
  \A a \in Objects :
    rows[a] # entries[a] =>
      /\ a \in aside
      /\ a \in unmatched \/ Order("patch", a) \in orders \cup reports

(* The three components agree on what is selected and on what it is like.  *)
SelectionAgrees == OneThingFocused /\ SelectionShownUnlessDropped /\ SidebarInStep

(* main.ts:973-1009: in the end canvas, sidebar and list have the objects  *)
(* and variables of the room.                                              *)
EditorConverges ==
  <>[](/\ Held(entries) \cup known = inRoom
       /\ rows = entries)
=============================================================================
