--------------------------- MODULE ClientsProofs ---------------------------
(***************************************************************************)
(* Theorems of four parts of an editor's page, each by itself:             *)
(* ResilientConnection for any set of sockets, EditorSelection for any     *)
(* objects, SettingsPanels for any rooms, volumes and seqs, VariablePanels *)
(* for any keys and values; in all of them any number of changes by any    *)
(* number of people, and of failures.                                      *)
(***************************************************************************)
EXTENDS MCClients, TLAPS

----------------------------------------------------------------------------
(* ResilientConnection.                                                    *)

(* Until stop(), the two fields name sockets in the states they stand for. *)
FieldsMatch ==
  ~closedByUs =>
    /\ pending # None => sock[pending] \in {"connecting", "closing"}
    /\ socket # None => sock[socket] \in {"open", "closing"}
    /\ pending # None => pending # socket

(* After stop() every socket is closed or closing.                         *)
AllClosing == closedByUs => \A s \in Sockets : sock[s] \in {"free", "closing"}

ConnectionInv ==
  /\ TypeOK
  /\ NoOrphans
  /\ ChainUnbroken
  /\ SwapIsComing
  /\ FieldsMatch
  /\ AllClosing

(* start() establishes the invariant.                                      *)
THEOREM ConnectionInitInv == Init => ConnectionInv
BY NoneAssumption
   DEF Init, ConnectionInv, TypeOK, NoOrphans, ChainUnbroken, NothingUnderWay,
       SwapIsComing, FieldsMatch, AllClosing

(* onopen keeps the invariant: it swaps the fields and closes the old one. *)
LEMMA OnOpenKeeps ==
  ASSUME ConnectionInv, NEW s \in Sockets, OnOpen(s)
  PROVE  ConnectionInv'
<1> USE NoneAssumption
<1>1. pending = s /\ ~closedByUs /\ socket # s
  BY DEF ConnectionInv, TypeOK, OnOpen, NoOrphans, AllClosing, FieldsMatch
<1>2. TypeOK'
  BY <1>1 DEF ConnectionInv, TypeOK, OnOpen
<1>3. NoOrphans' /\ FieldsMatch' /\ AllClosing'
  BY <1>1 DEF ConnectionInv, TypeOK, NoOrphans, FieldsMatch, AllClosing, OnOpen
<1>4. ChainUnbroken' /\ SwapIsComing'
  BY DEF ChainUnbroken, NothingUnderWay, SwapIsComing, OnOpen
<1> QED BY <1>2, <1>3, <1>4 DEF ConnectionInv

(* A break leaves the fields alone until the close event.                  *)
LEMMA BreakKeeps ==
  ASSUME ConnectionInv, NEW s \in Sockets, Break(s)
  PROVE  ConnectionInv'
<1> USE NoneAssumption
<1>1. TypeOK'
  BY DEF ConnectionInv, TypeOK, Break
<1>2. NoOrphans' /\ FieldsMatch' /\ AllClosing'
  BY DEF ConnectionInv, TypeOK, NoOrphans, FieldsMatch, AllClosing, Break
<1>3. ChainUnbroken' /\ SwapIsComing'
  BY DEF ConnectionInv, ChainUnbroken, NothingUnderWay, SwapIsComing, Break
<1> QED BY <1>1, <1>2, <1>3 DEF ConnectionInv

(* onclose schedules a retry exactly when it clears one of the fields.     *)
LEMMA OnCloseKeeps ==
  ASSUME ConnectionInv, NEW s \in Sockets, OnClose(s)
  PROVE  ConnectionInv'
<1> USE NoneAssumption
<1>1. TypeOK'
  BY DEF ConnectionInv, TypeOK, OnClose, ScheduleRetry
<1>2. NoOrphans' /\ FieldsMatch' /\ AllClosing'
  BY DEF ConnectionInv, TypeOK, NoOrphans, FieldsMatch, AllClosing, OnClose, ScheduleRetry
<1>3. ChainUnbroken' /\ SwapIsComing'
  BY DEF ConnectionInv, TypeOK, ChainUnbroken, NothingUnderWay, SwapIsComing, OnClose,
         ScheduleRetry
<1> QED BY <1>1, <1>2, <1>3 DEF ConnectionInv

(* What an attempt does to the sockets and to pending.                     *)
LEMMA AttemptKeeps ==
  ASSUME ConnectionInv, ~closedByUs, OpenAttempt,
         UNCHANGED <<socket, closedByUs>>
  PROVE  /\ sock' \in [Sockets -> {"free", "connecting", "open", "closing"}]
         /\ pending' \in Sockets /\ pending' # None
         /\ NoOrphans' /\ FieldsMatch' /\ AllClosing'
<1> USE NoneAssumption
<1>1. CASE pending # None
  BY <1>1 DEF ConnectionInv, TypeOK, NoOrphans, FieldsMatch, AllClosing, OpenAttempt
<1>2. CASE pending = None
  <2>1. PICK s \in Sockets : /\ sock[s] = "free"
                             /\ sock' = [sock EXCEPT ![s] = "connecting"]
                             /\ pending' = s
    BY <1>2 DEF OpenAttempt
  <2> QED
    BY <1>2, <2>1 DEF ConnectionInv, TypeOK, NoOrphans, FieldsMatch, AllClosing
<1> QED BY <1>1, <1>2

(* The timers that start attempts.                                         *)
LEMMA TimerKeeps ==
  ASSUME ConnectionInv, RetryFires \/ ProactiveFires \/ WatchdogTick
  PROVE  ConnectionInv'
<1> USE NoneAssumption
<1>1. CASE OpenAttempt
  <2>1. ~closedByUs /\ UNCHANGED <<socket, closedByUs>>
    BY DEF RetryFires, ProactiveFires, WatchdogTick
  <2>2. /\ sock' \in [Sockets -> {"free", "connecting", "open", "closing"}]
        /\ pending' \in Sockets /\ pending' # None
        /\ NoOrphans' /\ FieldsMatch' /\ AllClosing'
    BY <1>1, <2>1, AttemptKeeps
  <2>3. TypeOK'
    BY <2>1, <2>2 DEF ConnectionInv, TypeOK, RetryFires, ProactiveFires, WatchdogTick
  <2>4. ChainUnbroken' /\ SwapIsComing'
    BY <2>2 DEF ChainUnbroken, NothingUnderWay, SwapIsComing
  <2> QED BY <2>2, <2>3, <2>4 DEF ConnectionInv
<1>2. CASE ~OpenAttempt
  <2>1. UNCHANGED vars
    BY <1>2 DEF RetryFires, ProactiveFires, WatchdogTick, vars
  <2> QED
    BY <2>1 DEF ConnectionInv, TypeOK, NoOrphans, ChainUnbroken, NothingUnderWay,
                SwapIsComing, FieldsMatch, AllClosing, vars
<1> QED BY <1>1, <1>2

(* A lost timer is still a handle; stop() turns every socket to closing.   *)
LEMMA EndKeeps ==
  ASSUME ConnectionInv, LoseRetryTimer \/ Stop
  PROVE  ConnectionInv'
<1> USE NoneAssumption
<1>1. CASE LoseRetryTimer
  BY <1>1 DEF ConnectionInv, TypeOK, NoOrphans, ChainUnbroken, NothingUnderWay,
              SwapIsComing, FieldsMatch, AllClosing, LoseRetryTimer
<1>2. CASE Stop
  <2>1. TypeOK'
    BY <1>2 DEF ConnectionInv, TypeOK, Stop
  <2>2. NoOrphans' /\ FieldsMatch' /\ AllClosing'
    BY <1>2 DEF ConnectionInv, TypeOK, NoOrphans, FieldsMatch, AllClosing, Stop
  <2>3. ChainUnbroken' /\ SwapIsComing'
    BY <1>2 DEF ChainUnbroken, SwapIsComing, Stop
  <2> QED BY <2>1, <2>2, <2>3 DEF ConnectionInv
<1> QED BY <1>1, <1>2

(* Every step of the client keeps the invariant.                           *)
THEOREM ConnectionNextInv == ConnectionInv /\ [Next]_vars => ConnectionInv'
<1> SUFFICES ASSUME ConnectionInv, [Next]_vars PROVE ConnectionInv'
  OBVIOUS
<1>1. ASSUME NEW s \in Sockets, OnOpen(s) PROVE ConnectionInv'
  BY <1>1, OnOpenKeeps
<1>2. ASSUME NEW s \in Sockets, Break(s) PROVE ConnectionInv'
  BY <1>2, BreakKeeps
<1>3. ASSUME NEW s \in Sockets, OnClose(s) PROVE ConnectionInv'
  BY <1>3, OnCloseKeeps
<1>4. CASE RetryFires \/ ProactiveFires \/ WatchdogTick
  BY <1>4, TimerKeeps
<1>5. CASE LoseRetryTimer \/ Stop
  BY <1>5, EndKeeps
<1>6. CASE UNCHANGED vars
  BY <1>6 DEF ConnectionInv, TypeOK, NoOrphans, ChainUnbroken, NothingUnderWay,
              SwapIsComing, FieldsMatch, AllClosing, vars
<1> QED BY <1>1, <1>2, <1>3, <1>4, <1>5, <1>6 DEF Next

(* connection.ts: no socket is leaked, the retry chain never breaks (the   *)
(* watchdog's condition is never true), and a live socket is always going  *)
(* to be swapped out before the gateway's limit.                           *)
THEOREM ConnectionInvariance == Spec => [](TypeOK /\ ConnectionHolds)
<1>1. ConnectionInv => TypeOK /\ ConnectionHolds
  BY DEF ConnectionInv, ConnectionHolds
<1> QED BY <1>1, ConnectionInitInv, ConnectionNextInv, PTL DEF Spec

(* After stop() only the rest of the closing is left to happen.            *)
Quiet ==
  closedByUs => /\ closedByUs'
                /\ \A s \in Sockets :
                     sock'[s] \in {"connecting", "open"} => sock'[s] = sock[s]

LEMMA StopStep == ConnectionInv /\ [Next]_vars => [Quiet]_vars
<1> SUFFICES ASSUME ConnectionInv, Next, closedByUs
             PROVE  /\ closedByUs'
                    /\ \A s \in Sockets : sock'[s] \in {"connecting", "open"}
                                            => sock'[s] = sock[s]
  BY DEF Quiet
<1>1. ASSUME NEW s \in Sockets, OnOpen(s) PROVE FALSE
  BY <1>1 DEF ConnectionInv, AllClosing, OnOpen
<1>2. ASSUME NEW s \in Sockets, Break(s) PROVE FALSE
  BY <1>2 DEF ConnectionInv, AllClosing, Break
<1>3. ASSUME NEW s \in Sockets, OnClose(s)
      PROVE  closedByUs' /\ sock' = [sock EXCEPT ![s] = "free"]
  BY <1>3 DEF OnClose
<1>4. CASE LoseRetryTimer
  BY <1>4 DEF LoseRetryTimer
<1> QED
  BY <1>1, <1>2, <1>3, <1>4
     DEF ConnectionInv, TypeOK, Next, RetryFires, ProactiveFires, WatchdogTick, Stop

(* connection.ts:135-142: after stop() no socket comes to life again.      *)
THEOREM StopIsFinal == Spec => StoppedForGood
<1> QED BY StopStep, ConnectionInitInv, ConnectionNextInv, PTL DEF Spec, StoppedForGood, Quiet

----------------------------------------------------------------------------
(* EditorSelection.                                                        *)

SelectionTypeOK ==
  /\ selected \in Objects \cup {Nothing} /\ focus \in Objects \cup {Nothing}
  /\ cardKey \in Keys \cup {Nothing} /\ highlighted \in Keys \cup {Nothing}
  /\ known \subseteq Keys

SelectionInv == SelectionTypeOK /\ OneThingFocused /\ SelectionShownUnlessDropped

(* A change of a is still to be processed or heard of, or it was lost.     *)
Awaited(a) == a \in unmatched \/ Order("patch", a) \in orders \cup reports

(* What SidebarInStep rests on: the two copies have the same objects, so a *)
(* message that the canvas has no entry for finds no row either.           *)
SameObjects == \A a \in Objects : Has(rows, a) <=> Has(entries, a)

CopiesTypeOK ==
  /\ entries \in [Objects -> BOOLEAN \cup {Nothing}]
  /\ rows \in [Objects -> BOOLEAN \cup {Nothing}]

CopiesInv == CopiesTypeOK /\ SameObjects /\ SidebarInStep

EditorInv == SelectionInv /\ CopiesInv

(* At the start nothing is selected and the copies are the same.           *)
THEOREM EditorInitInv == EditorInit => EditorInv
  <1> SUFFICES ASSUME EditorInit PROVE EditorInv
    OBVIOUS
  <1>1. SelectionInv
    BY ObjectAssumption
    DEF EditorInit, SelectionInv, SelectionTypeOK, OneThingFocused,
        SelectionShownUnlessDropped
  <1>2. CopiesInv
    BY DEF EditorInit, CopiesInv, CopiesTypeOK, SameObjects, SidebarInStep
  <1> QED BY <1>1, <1>2 DEF EditorInv

----------------------------------------------------------------------------
(* The selection.                                                          *)

(* The selection does not depend on the messages.                          *)
LEMMA SelectionKept ==
  ASSUME SelectionInv, UNCHANGED selection, known' \subseteq Keys
  PROVE  SelectionInv'
  BY DEF SelectionInv, SelectionTypeOK, OneThingFocused, SelectionShownUnlessDropped,
         selection

(* Selecting an asset, or nothing, takes sidebar and list along.           *)
LEMMA SelectKeeps ==
  ASSUME SelectionInv, NEW t \in Objects \cup {Nothing}, SelectOnCanvas(t),
         known' \subseteq Keys
  PROVE  SelectionInv'
  <1>1. CASE t = selected
    BY <1>1, SelectionKept DEF SelectOnCanvas
  <1>2. CASE t # selected
    <2>1. selected' = t /\ focus' = t /\ cardKey' = Nothing
      BY <1>2 DEF SelectOnCanvas
    <2>2. highlighted' = Nothing
      BY <1>2 DEF SelectOnCanvas, SelectionInv, OneThingFocused
    <2> QED
      BY <2>1, <2>2
      DEF SelectionInv, SelectionTypeOK, OneThingFocused, SelectionShownUnlessDropped
  <1> QED BY <1>1, <1>2

(* Showing a variable drops the asset everywhere.                          *)
LEMMA FocusVariableKeeps ==
  ASSUME NEW k \in Keys, FocusVariable(k), known' \subseteq Keys
  PROVE  SelectionInv'
  BY DEF FocusVariable, SelectionInv, SelectionTypeOK, OneThingFocused,
         SelectionShownUnlessDropped

(* A renamed variable stays the one that is shown.                         *)
LEMMA RenameKeepsSelection ==
  ASSUME SelectionInv, NEW l \in Keys, RenameOnCard(l)
  PROVE  SelectionInv'
  <1>1. cardKey # Nothing
    BY NothingAssumption DEF RenameOnCard, SelectionInv, SelectionTypeOK
  <1>2. selected = Nothing
    BY <1>1 DEF SelectionInv, OneThingFocused
  <1>3. CASE l \in known
    BY <1>2, <1>3
    DEF RenameOnCard, SelectionInv, SelectionTypeOK, OneThingFocused,
        SelectionShownUnlessDropped
  <1>4. CASE l \notin known
    BY <1>2, <1>4
    DEF RenameOnCard, SelectionInv, SelectionTypeOK, OneThingFocused,
        SelectionShownUnlessDropped
  <1> QED BY <1>3, <1>4

(* canvas.remove and sidebar.removeAsset together.                         *)
LEMMA HearDeletedKeepsSelection ==
  ASSUME SelectionInv, NEW a \in Objects, HearDeleted(a)
  PROVE  SelectionInv'
  <1>1. CASE selected = a
    BY <1>1, SelectKeeps DEF HearDeleted, SelectionInv, SelectionTypeOK
  <1>2. CASE selected # a
    <2>1. focus # a
      BY <1>2, NothingAssumption DEF SelectionInv, OneThingFocused
    <2>2. UNCHANGED selection /\ known' = known
      BY <1>2, <2>1 DEF HearDeleted, selection
    <2> QED BY <2>2, SelectionKept DEF SelectionInv, SelectionTypeOK
  <1> QED BY <1>1, <1>2

(* A deleted variable leaves the card and the list alike.                  *)
LEMMA HearVariableDeletedKeepsSelection ==
  ASSUME SelectionInv, NEW k \in Keys, HearVariableDeleted(k)
  PROVE  SelectionInv'
  BY DEF HearVariableDeleted, SelectionInv, SelectionTypeOK, OneThingFocused,
         SelectionShownUnlessDropped

(* A snapshot takes away what it lacks, and this is held against it.       *)
LEMMA ApplyDigestKeepsSelection ==
  ASSUME SelectionInv, ApplyDigest
  PROVE  SelectionInv'
  <1>1. PICK v \in [Objects -> BOOLEAN] :
          entries' = [a \in Objects |-> IF a \in digest.all THEN v[a] ELSE Nothing]
    BY DEF ApplyDigest
  <1>2. \A a \in Objects : a \in digest.all => a \in Held(rows')
    <2>1. rows' = entries'
      BY DEF ApplyDigest
    <2>2. \A a \in Objects : v[a] \in BOOLEAN
      OBVIOUS
    <2>3. \A a \in Objects : a \in digest.all => rows'[a] = v[a]
      BY <1>1, <2>1
    <2>4. \A a \in Objects : v[a] # Nothing
      BY <2>2, NothingAssumption
    <2> QED BY <2>3, <2>4 DEF Held, Has
  <1>3. SelectionTypeOK' /\ OneThingFocused'
    BY DEF ApplyDigest, KeptIf, SelectionInv, SelectionTypeOK, OneThingFocused
  <1>4. SelectionShownUnlessDropped'
    <2> SUFFICES ASSUME selected # Nothing, ~dropped' PROVE focus' = selected
      BY DEF SelectionShownUnlessDropped, ApplyDigest
    <2>1. selected \in digest.all /\ ~dropped
      BY DEF ApplyDigest
    <2>2. focus = selected /\ selected \in Objects
      BY <2>1 DEF SelectionInv, SelectionTypeOK, SelectionShownUnlessDropped
    <2> QED BY <1>2, <2>1, <2>2 DEF ApplyDigest, KeptIf
  <1> QED BY <1>3, <1>4 DEF SelectionInv

(* Every step of the editor keeps the selection.                           *)
LEMMA SelectionStep ==
  ASSUME SelectionInv, EditorNext
  PROVE  SelectionInv'
  <1>0. known \subseteq Keys
    BY DEF SelectionInv, SelectionTypeOK
  <1>1. ASSUME NEW a \in Objects, ClickObject(a) \/ Duplicate(a)
        PROVE  SelectionInv'
    BY <1>0, <1>1, SelectKeeps DEF ClickObject, Duplicate, panels
  <1>2. ASSUME NEW a \in Objects,
               ToggleInSidebar(a) \/ \E v \in BOOLEAN : HearAdded(a, v) \/ HearPatched(a, v)
        PROVE  SelectionInv'
    BY <1>0, <1>2, SelectionKept DEF ToggleInSidebar, HearAdded, HearPatched
  <1>3. ASSUME NEW k \in Keys, ClickVariable(k) \/ CreateVariable(k)
        PROVE  SelectionInv'
    BY <1>0, <1>3, FocusVariableKeeps DEF ClickVariable, CreateVariable, panels
  <1>4. ASSUME NEW k \in Keys, HearVariable(k)
        PROVE  SelectionInv'
    BY <1>0, <1>4, SelectionKept DEF HearVariable
  <1>5. ASSUME NEW t \in Things, ClickTrash(t)
        PROVE  SelectionInv'
    BY <1>0, <1>5, SelectionKept DEF ClickTrash, panels
  <1>6. CASE PressDelete \/ ToggleOnCanvas
    BY <1>0, <1>6, SelectionKept DEF PressDelete, ToggleOnCanvas, panels
  <1>7. ASSUME NEW m, ExecuteOrder(m) \/ FailOrder(m) \/ OtherOrders(m)
        PROVE  SelectionInv'
    BY <1>0, <1>7, SelectionKept DEF ExecuteOrder, FailOrder, OtherOrders, panels
  <1>8. CASE CutOff \/ LinkUp \/ AskDigest \/ AnswerDigest
    BY <1>0, <1>8, SelectionKept DEF CutOff, LinkUp, AskDigest, AnswerDigest, panels
  <1> QED
    BY <1>1, <1>2, <1>3, <1>4, <1>5, <1>6, <1>7, <1>8, RenameKeepsSelection,
       HearDeletedKeepsSelection, HearVariableDeletedKeepsSelection,
       ApplyDigestKeepsSelection
    DEF EditorNext, HearObject

----------------------------------------------------------------------------
(* The two copies.                                                         *)

(* A step that changes neither copy keeps them, if no change is forgotten. *)
LEMMA CopiesKept ==
  ASSUME CopiesInv, UNCHANGED <<entries, rows, aside>>,
         \A a \in Objects : Awaited(a) => Awaited(a)'
  PROVE  CopiesInv'
  BY DEF CopiesInv, CopiesTypeOK, SameObjects, SidebarInStep, Has, Awaited, Order

(* connection.send forgets nothing: what cannot be sent is lost.           *)
LEMMA GiveAwaits ==
  ASSUME NEW ms, Give(ms)
  PROVE  /\ \A a \in Objects : Awaited(a) => Awaited(a)'
         /\ \A a \in Objects : Order("patch", a) \in ms => Awaited(a)'
  BY DEF Give, Awaited, Order

(* An invocation hears of a change, or loses it.                           *)
LEMMA OrdersAwait ==
  ASSUME NEW m, ExecuteOrder(m) \/ FailOrder(m) \/ OtherOrders(m)
  PROVE  \A a \in Objects : Awaited(a) => Awaited(a)'
  <1>1. CASE ExecuteOrder(m)
    BY <1>1 DEF ExecuteOrder, Execute, Refused, Awaited, Order
  <1>2. CASE FailOrder(m)
    BY <1>2 DEF FailOrder, Awaited, Order
  <1>3. CASE OtherOrders(m)
    BY <1>3 DEF OtherOrders, Execute, Awaited
  <1> QED BY <1>1, <1>2, <1>3

(* What was on its way when the socket closed is lost.                     *)
LEMMA LinkAwaits ==
  ASSUME CutOff \/ LinkUp \/ AskDigest \/ AnswerDigest
  PROVE  \A a \in Objects : Awaited(a) => Awaited(a)'
  BY DEF CutOff, LinkUp, AskDigest, AnswerDigest, Awaited, Order, network

(* Only the canvas's copy changes, and this is awaited.                    *)
LEMMA ToggleOnCanvasKeeps ==
  ASSUME CopiesInv, SelectionInv, ToggleOnCanvas
  PROVE  CopiesInv'
  <1>1. selected \in Objects /\ entries[selected] \in BOOLEAN
    BY DEF ToggleOnCanvas, SelectionInv, SelectionTypeOK, CopiesInv, CopiesTypeOK, Has
  <1>2. PICK v \in BOOLEAN : entries' = [entries EXCEPT ![selected] = v]
    BY <1>1 DEF ToggleOnCanvas
  <1>3. v # Nothing /\ Has(rows, selected) /\ rows' = rows
    BY <1>1, NothingAssumption DEF ToggleOnCanvas, CopiesInv, SameObjects
  <1>4. CopiesTypeOK' /\ SameObjects'
    BY <1>1, <1>2, <1>3 DEF CopiesInv, CopiesTypeOK, SameObjects, Has
  <1>5. \A a \in Objects : Awaited(a) \/ a = selected => Awaited(a)'
    BY GiveAwaits DEF ToggleOnCanvas
  <1>6. \A a \in Objects : a # selected => entries'[a] = entries[a]
    BY <1>2 DEF CopiesInv, CopiesTypeOK
  <1>7. SidebarInStep'
    <2> SUFFICES ASSUME NEW a \in Objects, rows'[a] # entries'[a]
                 PROVE  a \in aside' /\ Awaited(a)'
      BY DEF SidebarInStep, Awaited, Order
    <2>1. CASE a = selected
      BY <1>5, <2>1 DEF ToggleOnCanvas
    <2>2. CASE a # selected
      BY <1>3, <1>5, <1>6, <2>2 DEF ToggleOnCanvas, CopiesInv, SidebarInStep, Awaited
    <2> QED BY <2>1, <2>2
  <1> QED BY <1>4, <1>7 DEF CopiesInv

(* A step that gives one object the same flag, or none, in both copies.    *)
LEMMA BothCopiesKept ==
  ASSUME CopiesInv, NEW a \in Objects, NEW v \in BOOLEAN \cup {Nothing},
         entries' = [entries EXCEPT ![a] = v], rows' = [rows EXCEPT ![a] = v],
         UNCHANGED aside,
         \A b \in Objects : b # a /\ Awaited(b) => Awaited(b)'
  PROVE  CopiesInv'
  <1>1. \A b \in Objects : /\ b = a => entries'[b] = v /\ rows'[b] = v
                           /\ b # a => entries'[b] = entries[b] /\ rows'[b] = rows[b]
    BY DEF CopiesInv, CopiesTypeOK
  <1>2. CopiesTypeOK'
    BY DEF CopiesInv, CopiesTypeOK
  <1>3. SameObjects'
    BY <1>1 DEF CopiesInv, SameObjects, Has
  <1>4. SidebarInStep'
    <2> SUFFICES ASSUME NEW b \in Objects, rows'[b] # entries'[b]
                 PROVE  b \in aside' /\ Awaited(b)'
      BY DEF SidebarInStep, Awaited, Order
    <2>1. b # a /\ rows[b] # entries[b]
      BY <1>1
    <2> QED BY <2>1 DEF CopiesInv, SidebarInStep, Awaited
  <1> QED BY <1>2, <1>3, <1>4 DEF CopiesInv

(* The sidebar tells the canvas, and takes its entry back.                 *)
LEMMA ToggleInSidebarKeeps ==
  ASSUME CopiesInv, NEW a \in Objects, ToggleInSidebar(a)
  PROVE  CopiesInv'
  <1>1. rows[a] \in BOOLEAN
    BY DEF ToggleInSidebar, CopiesInv, CopiesTypeOK, Has
  <1>2. PICK v \in BOOLEAN : /\ entries' = [entries EXCEPT ![a] = v]
                             /\ rows' = [rows EXCEPT ![a] = v]
    BY <1>1 DEF ToggleInSidebar
  <1>3. UNCHANGED aside /\ \A b \in Objects : Awaited(b) => Awaited(b)'
    BY GiveAwaits DEF ToggleInSidebar
  <1> QED BY <1>2, <1>3, BothCopiesKept

(* Messages about an object change both copies, or, if there is no entry,  *)
(* and so no row, neither.                                                 *)
LEMMA HearObjectKeeps ==
  ASSUME CopiesInv, NEW a \in Objects, HearObject(a)
  PROVE  CopiesInv'
  <1>1. UNCHANGED <<aside, orders, unmatched>>
    BY DEF HearObject, HearDeleted, HearAdded, HearPatched
  <1>2. \A b \in Objects : b # a /\ Awaited(b) => Awaited(b)'
    BY DEF HearObject, HearDeleted, HearAdded, HearPatched, Awaited, Order
  <1>3. CASE HearDeleted(a)
    BY <1>1, <1>2, <1>3, BothCopiesKept DEF HearDeleted
  <1>4. ASSUME NEW v \in BOOLEAN, HearAdded(a, v) PROVE CopiesInv'
    BY <1>1, <1>2, <1>4, BothCopiesKept DEF HearAdded
  <1>5. ASSUME NEW v \in BOOLEAN, HearPatched(a, v) PROVE CopiesInv'
    <2>1. CASE Has(entries, a)
      BY <1>1, <1>2, <1>5, <2>1, BothCopiesKept DEF HearPatched
    <2>2. CASE ~Has(entries, a)
      <3>1. entries[a] = Nothing /\ rows[a] = Nothing
        BY <2>2 DEF CopiesInv, SameObjects, Has
      <3>2. /\ entries' = [entries EXCEPT ![a] = Nothing]
            /\ rows' = [rows EXCEPT ![a] = Nothing]
        BY <1>5, <2>2, <3>1 DEF HearPatched, CopiesInv, CopiesTypeOK
      <3> QED BY <1>1, <1>2, <3>2, BothCopiesKept
    <2> QED BY <2>1, <2>2
  <1> QED BY <1>3, <1>4, <1>5 DEF HearObject

(* A snapshot makes the copies the same.                                   *)
LEMMA ApplyDigestKeeps ==
  ASSUME ApplyDigest
  PROVE  CopiesInv'
  <1>1. PICK v \in [Objects -> BOOLEAN] :
          entries' = [a \in Objects |-> IF a \in digest.all THEN v[a] ELSE Nothing]
    BY DEF ApplyDigest
  <1>2. entries' \in [Objects -> BOOLEAN \cup {Nothing}] /\ rows' = entries'
    BY <1>1 DEF ApplyDigest
  <1> QED BY <1>2 DEF CopiesInv, CopiesTypeOK, SameObjects, SidebarInStep, Has

(* Every step of the editor keeps the copies.                              *)
LEMMA CopiesStep ==
  ASSUME CopiesInv, SelectionInv, EditorNext
  PROVE  CopiesInv'
  <1>1. ASSUME NEW a \in Objects, ClickObject(a) PROVE CopiesInv'
    BY <1>1, CopiesKept DEF ClickObject, panels, network, Awaited
  <1>2. ASSUME NEW a \in Objects, Duplicate(a) PROVE CopiesInv'
    BY <1>2, CopiesKept, GiveAwaits DEF Duplicate, panels
  <1>3. ASSUME NEW k \in Keys, ClickVariable(k) \/ HearVariable(k) \/ HearVariableDeleted(k)
        PROVE  CopiesInv'
    <2>1. \A a \in Objects : Awaited(a) => Awaited(a)'
      BY <1>3 DEF ClickVariable, HearVariable, HearVariableDeleted, network, Awaited, Order
    <2> QED BY <1>3, <2>1, CopiesKept
            DEF ClickVariable, HearVariable, HearVariableDeleted, panels
  <1>4. ASSUME NEW k \in Keys, CreateVariable(k) PROVE CopiesInv'
    BY <1>4, CopiesKept, GiveAwaits DEF CreateVariable
  <1>5. ASSUME NEW k \in Keys, RenameOnCard(k) PROVE CopiesInv'
    <2>1. \A a \in Objects : Awaited(a) => Awaited(a)'
      BY <1>5, GiveAwaits DEF RenameOnCard, network, Awaited
    <2> QED BY <1>5, <2>1, CopiesKept DEF RenameOnCard
  <1>6. ASSUME NEW t \in Things, ClickTrash(t) PROVE CopiesInv'
    BY <1>6, CopiesKept, GiveAwaits DEF ClickTrash, panels
  <1>7. CASE PressDelete
    BY <1>7, CopiesKept, GiveAwaits DEF PressDelete, panels
  <1>8. ASSUME NEW m, ExecuteOrder(m) \/ FailOrder(m) \/ OtherOrders(m)
        PROVE  CopiesInv'
    BY <1>8, CopiesKept, OrdersAwait DEF ExecuteOrder, FailOrder, OtherOrders, panels
  <1>9. CASE CutOff \/ LinkUp \/ AskDigest \/ AnswerDigest
    BY <1>9, CopiesKept, LinkAwaits DEF CutOff, LinkUp, AskDigest, AnswerDigest, panels
  <1> QED
    BY <1>1, <1>2, <1>3, <1>4, <1>5, <1>6, <1>7, <1>8, <1>9, ToggleOnCanvasKeeps,
       ToggleInSidebarKeeps, HearObjectKeeps, ApplyDigestKeeps
    DEF EditorNext

(* Every step keeps the invariant.                                         *)
THEOREM EditorNextInv == EditorInv /\ [EditorNext]_editorVars => EditorInv'
  <1> SUFFICES ASSUME EditorInv, [EditorNext]_editorVars PROVE EditorInv'
    OBVIOUS
  <1>1. CASE EditorNext
    BY <1>1, SelectionStep, CopiesStep DEF EditorInv
  <1>2. CASE UNCHANGED editorVars
    <2>1. SelectionInv'
      BY <1>2, SelectionKept
         DEF EditorInv, SelectionInv, SelectionTypeOK, editorVars, selection
    <2>2. CopiesInv'
      BY <1>2, CopiesKept DEF EditorInv, editorVars, Awaited
    <2> QED BY <2>1, <2>2 DEF EditorInv
  <1> QED BY <1>1, <1>2

(* main.ts:812-817, 828-835, 909-927: whatever is clicked, deleted, toggled*)
(* or overwritten by messages and snapshots, canvas, sidebar and list show *)
(* one selection, and sidebar and canvas the same objects, but for a change*)
(* made on the canvas that is on its way or lost.                          *)
THEOREM EditorInvariance == EditorSpec => []SelectionAgrees
  <1>1. EditorInv => SelectionAgrees
    BY DEF EditorInv, SelectionInv, CopiesInv, SelectionAgrees
  <1> QED BY <1>1, EditorInitInv, EditorNextInv, PTL DEF EditorSpec

----------------------------------------------------------------------------
(* SettingsPanels.                                                         *)

Values == Levels \cup Studios
Setting == [seq : PanelSeqs, choice : Values]

TypeInv ==
  /\ kind \in {"sound", "preview"}
  /\ setting \in [Studios -> Setting]
  /\ here \in Studios
  /\ lastSeq \in PanelSeqs /\ shown \in Values
  /\ dialog \in Values \cup {NoChannel}
  /\ \A c \in calls : c.studio \in Studios /\ c.seq \in PanelSeqs /\ c.choice \in Values
  /\ \A n \in news : n.seq \in PanelSeqs /\ n.choice \in Values
  /\ answer.stage = "sent" => answer.seq \in PanelSeqs /\ answer.choice \in Values

(* What is on its way to the panel is not newer than the row.              *)
Behind ==
  /\ \A n \in news : n.seq <= setting[here].seq
  /\ answer.stage = "sent" => answer.seq <= setting[here].seq

(* The volume panel is a new one in every room; the preview panel may be   *)
(* anything until the first snapshot.                                      *)
InThisVisit == kind = "sound" \/ entered
Ahead == lastSeq > setting[here].seq
UnderWay == stranded \/ \E c \in calls : Latest(c)

AheadInv == Behind /\ ((InThisVisit /\ Ahead) => UnderWay)

(* Unless a change was begun too early: the owner's panel, its dialog, its *)
(* messages and what it hears carry the channel of the owner's room.       *)
Unhurried == kind = "preview" /\ ~hasty

HomeInv ==
  Unhurried =>
    /\ \A r \in Studios : setting[r].choice = r
    /\ \A c \in calls : c.studio = OwnStudio => c.choice = OwnStudio
    /\ \A n \in news : n.choice = here
    /\ answer.stage = "sent" => answer.choice = here
    /\ (here = OwnStudio /\ entered) => shown = OwnStudio
    /\ dialog \in {OwnStudio, NoChannel}

PanelInv == TypeInv /\ AheadInv /\ HomeInv

(* At the start every room has its own channel, and the panel its room's.  *)
THEOREM PanelInitInv == PanelsInit => PanelInv
  <1> SUFFICES ASSUME PanelsInit PROVE PanelInv
    OBVIOUS
  <1>1. 0 \in PanelSeqs
    BY PanelBoundsAssumption DEF PanelSeqs
  <1>2. \A r \in Studios : FirstChoice(r) \in Values
    BY LevelAssumption DEF FirstChoice, Values
  <1>3. \A r \in Studios : setting[r] = [seq |-> 0, choice |-> FirstChoice(r)]
    BY DEF PanelsInit
  <1>4. TypeInv
    BY <1>1, <1>2 DEF PanelsInit, TypeInv, Setting, NoAnswer
  <1>5. AheadInv
    BY <1>3 DEF PanelsInit, AheadInv, Behind, Ahead, NoAnswer
  <1>6. HomeInv
    BY <1>3 DEF PanelsInit, HomeInv, Unhurried, FirstChoice, NoAnswer
  <1> QED BY <1>4, <1>5, <1>6 DEF PanelInv

(* NextSeq is above the last one: what a change is stamped with is a seq.  *)
LEMMA ChangeFacts ==
  ASSUME TypeInv, NEW now, NEW v \in Values, Change(now, v)
  PROVE  /\ UNCHANGED <<kind, setting, here, online, entered, news, answer>>
         /\ shown' = v /\ lastSeq' \in PanelSeqs /\ Hasty
         /\ \A c \in calls' : c \in calls \/ (Latest(c)' /\ c.choice = v)
         /\ UnderWay'
  <1>1. PICK seq : seq = NextSeq(now)
    OBVIOUS
  <1>2. PICK new : new = [studio |-> here, seq |-> seq, choice |-> v]
    OBVIOUS
  <1>3. /\ seq \in PanelSeqs /\ lastSeq' = seq /\ shown' = v
        /\ stranded' = ~online /\ here' = here
        /\ calls' = IF online THEN calls \cup {new} ELSE calls
    BY <1>1, <1>2 DEF Change
  <1>4. Latest(new)' /\ new.choice = v
    BY <1>2, <1>3 DEF Latest
  <1>5. UnderWay'
    BY <1>3, <1>4 DEF UnderWay
  <1>6. \A c \in calls' : c \in calls \/ (Latest(c)' /\ c.choice = v)
    BY <1>3, <1>4
  <1> QED BY <1>3, <1>5, <1>6 DEF Change

(* A setting of one room is written with a larger seq, and broadcast to    *)
(* this client if it is in that room.                                      *)
LEMMA WriteFacts ==
  ASSUME TypeInv, NEW r \in Studios, NEW seq \in PanelSeqs, NEW v \in Values,
         Write(r, seq, v), Accepts(r, seq)
  PROVE  /\ setting' \in [Studios -> Setting]
         /\ setting'[r].seq = seq /\ setting'[r].choice = v
         /\ \A s \in Studios : s # r => setting'[s] = setting[s]
         /\ \A s \in Studios : setting[s].seq <= setting'[s].seq
         /\ \A n \in news' : n \in news \/ (r = here /\ n.seq = seq /\ n.choice = v)
  <1> DEFINE new == [seq |-> seq, choice |-> v]
  <1>1. new \in Setting /\ new.seq = seq /\ new.choice = v
    BY DEF Setting
  <1>2. setting' = [setting EXCEPT ![r] = new]
        /\ news' = IF online /\ r = here THEN news \cup {new} ELSE news
    BY DEF Write
  <1> HIDE DEF new
  <1>3. setting' \in [Studios -> Setting] /\ setting'[r] = new
        /\ \A s \in Studios : s # r => setting'[s] = setting[s]
    BY <1>1, <1>2 DEF TypeInv
  <1>4. \A s \in Studios : setting[s].seq \in PanelSeqs
    BY DEF TypeInv, Setting
  <1>5. setting[r].seq < seq
    BY DEF Accepts
  <1>6. \A s \in Studios : setting[s].seq <= setting'[s].seq
    BY <1>1, <1>3, <1>4, <1>5 DEF PanelSeqs
  <1> QED BY <1>1, <1>2, <1>3, <1>6

(* Nothing of the old room is on its way to the new one.                   *)
LEMMA EnterStudioKeeps ==
  ASSUME PanelInv, NEW r \in Studios, EnterStudio(r)
  PROVE  PanelInv'
  <1>1. UNCHANGED <<kind, setting, dialog, calls, hasty>> /\ here' = r /\ entered' = FALSE
        /\ news' = {} /\ answer' = NoAnswer
    BY DEF EnterStudio
  <1>2. (kind = "sound" /\ lastSeq' = 0) \/ (kind # "sound" /\ lastSeq' = lastSeq)
    BY DEF EnterStudio
  <1>3. lastSeq' \in PanelSeqs /\ shown' \in Values
    BY LevelAssumption, PanelBoundsAssumption
    DEF EnterStudio, PanelInv, TypeInv, PanelSeqs, Values
  <1>4. TypeInv'
    BY <1>1, <1>3 DEF PanelInv, TypeInv, NoAnswer
  <1>5. AheadInv'
    <2>1. ~(InThisVisit /\ Ahead)'
      <3>1. CASE kind = "sound"
        <4>1. lastSeq' = 0 /\ setting'[here'] = setting[r]
          BY <1>1, <1>2, <3>1
        <4>2. setting[r].seq \in Nat
          BY DEF PanelInv, TypeInv, Setting, PanelSeqs
        <4> QED BY <4>1, <4>2 DEF Ahead
      <3>2. CASE kind # "sound"
        BY <1>1, <3>2 DEF InThisVisit
      <3> QED BY <3>1, <3>2
    <2> QED BY <1>1, <2>1 DEF AheadInv, Behind, NoAnswer
  <1>6. HomeInv'
    BY <1>1 DEF PanelInv, HomeInv, Unhurried, NoAnswer
  <1> QED BY <1>4, <1>5, <1>6 DEF PanelInv

(* Nothing moves when the socket comes, goes or asks.                      *)
LEMMA SocketKeeps ==
  ASSUME PanelInv, OpenSocket \/ PollStudio \/ LoseSocket
  PROVE  PanelInv'
  <1>1. UNCHANGED <<kind, setting, here, entered, shown, lastSeq, dialog, calls, stranded,
                    hasty>>
    BY DEF OpenSocket, PollStudio, LoseSocket
  <1>2. news' \subseteq news /\ answer'.stage # "sent"
    BY DEF OpenSocket, PollStudio, LoseSocket, NoAnswer, AskedAnswer
  <1>3. TypeInv'
    BY <1>1, <1>2 DEF PanelInv, TypeInv
  <1>4. AheadInv'
    BY <1>1, <1>2 DEF PanelInv, AheadInv, Behind, InThisVisit, Ahead, UnderWay, Latest
  <1>5. HomeInv'
    BY <1>1, <1>2 DEF PanelInv, HomeInv, Unhurried
  <1> QED BY <1>3, <1>4, <1>5 DEF PanelInv

(* A change of the volume, of the platform, or saved from the dialog.      *)
LEMMA ChangeKeeps ==
  ASSUME PanelInv, NEW now, NEW v \in Values, Change(now, v),
         dialog' \in {dialog, NoChannel},
         Unhurried' => /\ Unhurried
                       /\ here = OwnStudio => v = OwnStudio
  PROVE  PanelInv'
  <1>1. /\ UNCHANGED <<kind, setting, here, online, entered, news, answer>>
        /\ shown' = v /\ lastSeq' \in PanelSeqs /\ Hasty
        /\ \A c \in calls' : c \in calls \/ (Latest(c)' /\ c.choice = v)
        /\ UnderWay'
    BY ChangeFacts DEF PanelInv
  <1>2. TypeInv'
    BY <1>1 DEF PanelInv, TypeInv, Latest
  <1>3. AheadInv'
    BY <1>1 DEF PanelInv, AheadInv, Behind
  <1>4. HomeInv'
    <2> SUFFICES ASSUME Unhurried' PROVE HomeInv'
      BY DEF HomeInv
    <2>1. \A c \in calls' : c.studio = OwnStudio => c.choice = OwnStudio
      BY <1>1 DEF PanelInv, HomeInv, Latest
    <2> QED BY <1>1, <2>1 DEF PanelInv, HomeInv
  <1> QED BY <1>2, <1>3, <1>4 DEF PanelInv

(* The owner's changes after the first snapshot are of the owner's channel.*)
LEMMA UserKeeps ==
  ASSUME PanelInv, NEW now,
         \/ \E v \in Levels : DragVolume(now, v)
         \/ SelectPlatform(now)
         \/ \E c \in Studios : SaveDialog(now, c)
  PROVE  PanelInv'
  <1>1. ASSUME NEW v \in Levels, DragVolume(now, v) PROVE PanelInv'
    <2>1. v \in Values /\ ~Unhurried'
      BY <1>1 DEF Values, DragVolume, Unhurried, Change
    <2> QED BY <1>1, <2>1, ChangeKeeps DEF DragVolume
  <1>2. CASE SelectPlatform(now)
    <2>1. shown \in Values
      BY DEF PanelInv, TypeInv
    <2>2. ASSUME Unhurried' PROVE Unhurried /\ shown = OwnStudio
      <3>1. Unhurried /\ here = OwnStudio /\ entered
        BY <1>2, <2>2 DEF SelectPlatform, Change, Hasty, Unhurried
      <3> QED BY <3>1 DEF PanelInv, HomeInv
    <2> QED BY <1>2, <2>1, <2>2, ChangeKeeps DEF SelectPlatform
  <1>3. ASSUME NEW c \in Studios, SaveDialog(now, c) PROVE PanelInv'
    <2>1. c \in Values
      BY DEF Values
    <2>2. ASSUME Unhurried' PROVE Unhurried /\ (here = OwnStudio => c = OwnStudio)
      <3>1. Unhurried /\ c \in {dialog, here} /\ dialog # NoChannel
        BY <1>3, <2>2 DEF SaveDialog, Change, Hasty, Unhurried
      <3> QED BY <3>1 DEF PanelInv, HomeInv
    <2> QED BY <1>3, <2>1, <2>2, ChangeKeeps DEF SaveDialog
  <1> QED BY <1>1, <1>2, <1>3

(* The dialog is opened with what is shown, after the first snapshot.      *)
LEMMA DialogKeeps ==
  ASSUME PanelInv, OpenDialog \/ CloseDialog
  PROVE  PanelInv'
  <1>1. UNCHANGED <<kind, setting, here, entered, shown, lastSeq, calls, news, answer,
                    stranded>>
    BY DEF OpenDialog, CloseDialog
  <1>2. AheadInv'
    BY <1>1 DEF PanelInv, AheadInv, Behind, InThisVisit, Ahead, UnderWay, Latest
  <1>3. CASE OpenDialog
    <2>1. Unhurried' => Unhurried /\ shown = OwnStudio
      BY <1>3 DEF OpenDialog, Hasty, Unhurried, PanelInv, HomeInv
    <2>2. HomeInv'
      BY <1>1, <1>3, <2>1 DEF OpenDialog, PanelInv, HomeInv
    <2>3. TypeInv'
      BY <1>1, <1>3 DEF OpenDialog, PanelInv, TypeInv
    <2> QED BY <1>2, <2>2, <2>3 DEF PanelInv
  <1>4. CASE CloseDialog
    <2>1. HomeInv'
      BY <1>1, <1>4 DEF CloseDialog, PanelInv, HomeInv, Unhurried
    <2>2. TypeInv'
      BY <1>1, <1>4 DEF CloseDialog, PanelInv, TypeInv
    <2> QED BY <1>2, <2>1, <2>2 DEF PanelInv
  <1> QED BY <1>3, <1>4

(* A room's setting is written with a larger seq, as its owner would.      *)
LEMMA WriteKeeps ==
  ASSUME PanelInv, NEW r \in Studios, NEW seq \in PanelSeqs, NEW v \in Values,
         Write(r, seq, v), Accepts(r, seq), Unhurried => v = r,
         calls' \subseteq calls,
         UNCHANGED <<kind, here, entered, shown, lastSeq, dialog, answer, hasty>>,
         Ahead' => (UnderWay => UnderWay')
  PROVE  PanelInv'
  <1>1. /\ setting' \in [Studios -> Setting]
        /\ setting'[r].seq = seq /\ setting'[r].choice = v
        /\ \A s \in Studios : s # r => setting'[s] = setting[s]
        /\ \A s \in Studios : setting[s].seq <= setting'[s].seq
        /\ \A n \in news' : n \in news \/ (r = here /\ n.seq = seq /\ n.choice = v)
    BY WriteFacts DEF PanelInv
  <1>2. \A s \in Studios : setting[s].seq \in Nat /\ setting'[s].seq \in Nat
    BY <1>1 DEF PanelInv, TypeInv, Setting, PanelSeqs
  <1>3. here \in Studios /\ lastSeq \in Nat /\ seq \in Nat /\ \A n \in news : n.seq \in Nat
    BY DEF PanelInv, TypeInv, PanelSeqs
  <1>4. TypeInv'
    BY <1>1 DEF PanelInv, TypeInv
  <1>5. Behind'
    <2>1. \A n \in news' : n.seq <= setting'[here].seq
      <3> SUFFICES ASSUME NEW n \in news' PROVE n.seq <= setting'[here].seq
        OBVIOUS
      <3>1. CASE n \in news
        BY <1>1, <1>2, <1>3, <3>1 DEF PanelInv, AheadInv, Behind
      <3>2. CASE n \notin news
        BY <1>1, <1>3, <3>2
      <3> QED BY <3>1, <3>2
    <2>2. answer.stage = "sent" => answer.seq <= setting'[here].seq
      <3> SUFFICES ASSUME answer.stage = "sent" PROVE answer.seq <= setting'[here].seq
        OBVIOUS
      <3>1. answer.seq \in Nat /\ answer.seq <= setting[here].seq
        BY DEF PanelInv, TypeInv, AheadInv, Behind, PanelSeqs
      <3> QED BY <1>1, <1>2, <1>3, <3>1
    <2> QED BY <2>1, <2>2 DEF Behind
  <1>6. Ahead' => Ahead
    BY <1>1, <1>2, <1>3 DEF Ahead
  <1>7. AheadInv'
    BY <1>5, <1>6 DEF PanelInv, AheadInv, InThisVisit
  <1>8. HomeInv'
    BY <1>1 DEF PanelInv, HomeInv, Unhurried
  <1> QED BY <1>4, <1>7, <1>8 DEF PanelInv

(* A message that is dropped, as stale or as not the owner's, or that      *)
(* fails.                                                                  *)
LEMMA DropKeeps ==
  ASSUME PanelInv, calls' \subseteq calls,
         UNCHANGED <<kind, setting, here, entered, shown, lastSeq, dialog, news, answer,
                     hasty>>,
         Ahead => (UnderWay => UnderWay')
  PROVE  PanelInv'
  <1>1. TypeInv'
    BY DEF PanelInv, TypeInv
  <1>2. AheadInv'
    BY DEF PanelInv, AheadInv, Behind, InThisVisit, Ahead
  <1>3. HomeInv'
    BY DEF PanelInv, HomeInv, Unhurried
  <1> QED BY <1>1, <1>2, <1>3 DEF PanelInv

(* The handler: what it writes is no longer ahead.                         *)
LEMMA ProcessCallKeeps ==
  ASSUME PanelInv, NEW c \in calls, ProcessCall(c)
  PROVE  PanelInv'
  <1>1. c.studio \in Studios /\ c.seq \in PanelSeqs /\ c.choice \in Values
    BY DEF PanelInv, TypeInv
  <1>2. /\ calls' = calls \ {c}
        /\ UNCHANGED <<kind, here, entered, shown, lastSeq, dialog, answer, hasty>>
        /\ stranded' = (stranded \/ (~MayChange(c.studio) /\ Latest(c)))
    BY DEF ProcessCall
  <1>3. (UnderWay /\ (Latest(c) => ~MayChange(c.studio))) => UnderWay'
    BY <1>2 DEF UnderWay, Latest
  <1>4. CASE MayChange(c.studio) /\ Accepts(c.studio, c.seq)
    <2>1. Write(c.studio, c.seq, c.choice)
      BY <1>4 DEF ProcessCall
    <2>2. Unhurried => c.choice = c.studio
      BY <1>4 DEF Unhurried, MayChange, PanelInv, HomeInv
    <2>3. setting'[c.studio].seq = c.seq
      BY <1>1, <2>1, WriteFacts, <1>4 DEF PanelInv
    <2>4. Latest(c) => ~Ahead'
      BY <1>1, <1>2, <2>3 DEF Latest, Ahead, PanelSeqs
    <2> QED BY <1>1, <1>2, <1>3, <1>4, <2>1, <2>2, <2>4, WriteKeeps
  <1>5. CASE ~(MayChange(c.studio) /\ Accepts(c.studio, c.seq))
    <2>1. UNCHANGED <<setting, news>>
      BY <1>5 DEF ProcessCall
    <2>2. setting[c.studio].seq \in PanelSeqs
      BY <1>1 DEF PanelInv, TypeInv, Setting
    <2>3. (Latest(c) /\ MayChange(c.studio)) => ~Ahead
      BY <1>1, <1>5, <2>2 DEF Latest, Ahead, Accepts, PanelSeqs
    <2> QED BY <1>2, <1>3, <2>1, <2>3, DropKeeps
  <1> QED BY <1>4, <1>5

(* A message that fails leaves the panel stranded, if it was the latest.   *)
LEMMA FailCallKeeps ==
  ASSUME PanelInv, NEW c \in calls, FailCall(c)
  PROVE  PanelInv'
  <1>1. UnderWay => UnderWay'
    BY DEF FailCall, UnderWay, Latest
  <1> QED BY <1>1, DropKeeps DEF FailCall

(* Somebody else's change.                                                 *)
LEMMA OtherChangesKeeps ==
  ASSUME PanelInv, NEW r \in Studios, NEW seq \in PanelSeqs, NEW v \in Values,
         OtherChanges(r, seq, v)
  PROVE  PanelInv'
  <1>1. UnderWay => UnderWay'
    BY DEF OtherChanges, UnderWay, Latest
  <1> QED BY <1>1, WriteKeeps DEF OtherChanges, Unhurried

(* A snapshot is read.                                                     *)
LEMMA AnswerPollKeeps ==
  ASSUME PanelInv, AnswerPoll
  PROVE  PanelInv'
  <1>1. /\ answer'.seq = setting[here].seq /\ answer'.choice = setting[here].choice
        /\ UNCHANGED <<kind, setting, here, entered, shown, lastSeq, dialog, calls, news,
                       stranded, hasty>>
    BY DEF AnswerPoll
  <1>2. setting[here] \in Setting
    BY DEF PanelInv, TypeInv
  <1>3. TypeInv'
    BY <1>1, <1>2 DEF PanelInv, TypeInv, Setting
  <1>4. AheadInv'
    BY <1>1, <1>2 DEF PanelInv, AheadInv, Behind, InThisVisit, Ahead, UnderWay, Latest,
                      Setting, PanelSeqs
  <1>5. HomeInv'
    BY <1>1 DEF PanelInv, TypeInv, HomeInv, Unhurried
  <1> QED BY <1>3, <1>4, <1>5 DEF PanelInv

(* What is accepted is not newer than the row; what is refused changes     *)
(* nothing.                                                                *)
LEMMA HearKeeps ==
  ASSUME PanelInv, NEW seq \in PanelSeqs, NEW v \in Values,
         \/ Accept(seq, v)
         \/ /\ UNCHANGED <<shown, lastSeq, stranded>>
            /\ InThisVisit' => InThisVisit
            /\ (kind = "preview" /\ entered') => entered,
         seq <= setting[here].seq, Unhurried => v = here,
         news' \subseteq news, answer' \in {answer, NoAnswer},
         UNCHANGED <<kind, setting, here, dialog, calls, hasty>>
  PROVE  PanelInv'
  <1>1. TypeInv'
    BY DEF PanelInv, TypeInv, Accept, NoAnswer
  <1>2. Behind'
    BY DEF PanelInv, AheadInv, Behind, NoAnswer
  <1>3. (InThisVisit /\ Ahead)' => UnderWay'
    <2>1. CASE Accept(seq, v)
      <3>1. setting[here].seq \in PanelSeqs
        BY DEF PanelInv, TypeInv, Setting
      <3>2. ~Ahead'
        BY <2>1, <3>1 DEF Accept, Ahead, PanelSeqs
      <3> QED BY <3>2
    <2>2. CASE ~Accept(seq, v)
      BY <2>2 DEF PanelInv, AheadInv, Ahead, UnderWay, Latest
    <2> QED BY <2>1, <2>2
  <1>4. HomeInv'
    BY DEF PanelInv, HomeInv, Unhurried, Accept, NoAnswer
  <1> QED BY <1>1, <1>2, <1>3, <1>4 DEF PanelInv, AheadInv

(* A broadcast arrives.                                                    *)
LEMMA ReceiveNewsKeeps ==
  ASSUME PanelInv, NEW n \in news, ReceiveNews(n)
  PROVE  PanelInv'
  <1>1. n.seq \in PanelSeqs /\ n.choice \in Values /\ n.seq <= setting[here].seq
        /\ (Unhurried => n.choice = here)
    BY DEF PanelInv, TypeInv, AheadInv, Behind, HomeInv
  <1>2. Accept(n.seq, n.choice) \/ UNCHANGED <<shown, lastSeq, stranded>>
    BY DEF ReceiveNews, Apply
  <1> QED BY <1>1, <1>2, HearKeeps DEF ReceiveNews, InThisVisit

(* A snapshot arrives; the preview panel takes the first of a visit as it  *)
(* is.                                                                     *)
LEMMA ReceiveSnapshotKeeps ==
  ASSUME PanelInv, ReceiveSnapshot
  PROVE  PanelInv'
  <1>1. answer.seq \in PanelSeqs /\ answer.choice \in Values
        /\ answer.seq <= setting[here].seq /\ (Unhurried => answer.choice = here)
    BY DEF ReceiveSnapshot, PanelInv, TypeInv, AheadInv, Behind, HomeInv
  <1>2. Accept(answer.seq, answer.choice)
        \/ (UNCHANGED <<shown, lastSeq, stranded>> /\ ~(kind = "preview" /\ ~entered))
    BY DEF ReceiveSnapshot, Apply
  <1>3. kind \in {"sound", "preview"} /\ kind' = kind
    BY DEF ReceiveSnapshot, PanelInv, TypeInv
  <1> QED BY <1>1, <1>2, <1>3, HearKeeps DEF ReceiveSnapshot, InThisVisit

(* Every step keeps the invariant.                                         *)
THEOREM PanelNextInv == PanelInv /\ [PanelsNext]_panelVars => PanelInv'
  <1> SUFFICES ASSUME PanelInv, [PanelsNext]_panelVars PROVE PanelInv'
    OBVIOUS
  <1>1. ASSUME NEW r \in Studios, EnterStudio(r) PROVE PanelInv'
    BY <1>1, EnterStudioKeeps
  <1>2. CASE OpenSocket \/ PollStudio \/ LoseSocket
    BY <1>2, SocketKeeps
  <1>3. ASSUME NEW now \in 1..PanelMaxSeq,
               \/ \E v \in Levels : DragVolume(now, v)
               \/ SelectPlatform(now)
               \/ \E c \in Studios : SaveDialog(now, c)
        PROVE  PanelInv'
    BY <1>3, UserKeeps
  <1>4. ASSUME NEW now \in 1..PanelMaxSeq, NEW r \in Studios, NEW v \in Choices,
               OtherChanges(r, now, v)
        PROVE  PanelInv'
    <2>1. now \in PanelSeqs /\ v \in Values
      BY PanelBoundsAssumption DEF PanelSeqs, Choices, Values
    <2> QED BY <1>4, <2>1, OtherChangesKeeps
  <1>5. CASE OpenDialog \/ CloseDialog
    BY <1>5, DialogKeeps
  <1>6. ASSUME NEW c \in calls, ProcessCall(c) \/ FailCall(c) PROVE PanelInv'
    BY <1>6, ProcessCallKeeps, FailCallKeeps
  <1>7. CASE AnswerPoll \/ ReceiveSnapshot
    BY <1>7, AnswerPollKeeps, ReceiveSnapshotKeeps
  <1>8. ASSUME NEW n \in news, ReceiveNews(n) PROVE PanelInv'
    BY <1>8, ReceiveNewsKeeps
  <1>9. CASE UNCHANGED panelVars
    <2>1. UnderWay => UnderWay'
      BY <1>9 DEF panelVars, UnderWay, Latest
    <2> QED BY <1>9, <2>1, DropKeeps DEF panelVars
  <1> QED BY <1>1, <1>2, <1>3, <1>4, <1>5, <1>6, <1>7, <1>8, <1>9 DEF PanelsNext

(* sound.ts:92-97, streamPreview.ts:378-401: a panel is ahead of its room  *)
(* only by a change of this visit that is under way or was not processed,  *)
(* and no room gets the channel of another, unless its owner was quicker   *)
(* than the first snapshot.                                                *)
THEOREM PanelsStayInStep == PanelsSpec => []PanelsInStep
  <1>1. PanelInv => PanelsAheadOnlyWhilePending
    BY DEF PanelInv, AheadInv, InThisVisit, Ahead, UnderWay, PanelsAheadOnlyWhilePending
  <1>2. PanelInv => ChannelsStayHome
    BY DEF PanelInv, HomeInv, Unhurried, ChannelsStayHome
  <1>3. PanelInv => PanelsInStep
    BY <1>1, <1>2 DEF PanelsInStep
  <1> QED BY <1>3, PanelInitInv, PanelNextInv, PTL DEF PanelsSpec

----------------------------------------------------------------------------
(* VariablePanels.  A mask is cleared only by the message it waits for, or *)
(* with its variable; and until somebody else touches the keys of a rename,*)
(* the new key is stored or the message that stores it is on its way, with *)
(* nothing under way that deletes it.                                      *)
VariablesFit ==
  /\ {stored, listed, stepPending} \subseteq [Labels -> Contents]
  /\ card \in [key : Labels, value : Numbers] \cup {NoCard}
  /\ sent \subseteq Messages
  /\ echoes \subseteq Messages
  /\ reply \in {NoReply, Ask} \/ reply.all \in [Labels -> Contents]

RenameFits ==
  renamed # NoRename =>
    /\ {renamed.old, renamed.new} \subseteq Labels
    /\ Message(renamed.new, Gone) \notin sent
    /\ stored[renamed.new] # Gone
       \/ \E m \in sent : m.key = renamed.new /\ m.value # Gone

VariablesInv == VariablesFit /\ MaskIsAwaited /\ RenameFits

(* Nothing is masked or renamed at the start.                              *)
THEOREM VariablesInitInv == VariablesInit => VariablesInv
  <1> SUFFICES ASSUME VariablesInit PROVE VariablesInv
    OBVIOUS
  <1>1. 0 \in Numbers
    BY TouchAssumption DEF Numbers
  <1>2. VariablesFit
    BY <1>1 DEF VariablesInit, VariablesFit, Contents
  <1>3. MaskIsAwaited /\ RenameFits
    BY DEF VariablesInit, MaskIsAwaited, RenameFits
  <1> QED BY <1>2, <1>3 DEF VariablesInv

(* What a step may do to the masks: what was sent stays sent or is lost,   *)
(* what was armed stays armed.                                             *)
LEMMA MasksKept ==
  ASSUME MaskIsAwaited, stepPending' = stepPending, timers \subseteq timers',
         lostFor \subseteq lostFor', sent \cup echoes \subseteq (sent \cup echoes)'
  PROVE  MaskIsAwaited'
  BY DEF MaskIsAwaited

(* What a step may do to a rename: nothing is stored, and what is sent is  *)
(* no deletion of its new key.                                             *)
LEMMA RenameKept ==
  ASSUME RenameFits, UNCHANGED <<stored, renamed>>, sent \subseteq sent',
         \A m \in sent' \ sent : m.value # Gone
  PROVE  RenameFits'
  <1>1. Message(renamed.new, Gone).value = Gone
    BY DEF Message
  <1> QED BY <1>1 DEF RenameFits

(* Sending: nothing that was sent is taken back.                           *)
LEMMA SendFacts ==
  ASSUME VariablesFit, NEW ms \in SUBSET Messages, Send(ms)
  PROVE  /\ sent' \subseteq Messages /\ echoes' = echoes /\ reply' = reply
         /\ sent \subseteq sent' /\ sent' \ sent \subseteq ms
         /\ lostFor \subseteq lostFor'
         /\ \A m \in ms : m \in sent' \/ m.key \in lostFor'
         /\ ~attached => sent' = sent
         /\ attached => sent' = sent \cup ms
  BY DEF Send, VariablesFit

(* Values of messages.                                                     *)
LEMMA MessageFacts ==
  ASSUME NEW k \in Labels, NEW v \in Contents
  PROVE  Message(k, v) \in Messages /\ Message(k, v).key = k /\ Message(k, v).value = v
  BY DEF Message, Messages

LEMMA NumbersAreContents ==
  /\ Numbers \subseteq Contents /\ Gone \notin Numbers /\ Gone \in Contents
  /\ 0 \in Numbers /\ Gone \notin Labels
  BY GoneAssumption, TouchAssumption DEF Numbers, Contents

(* Adding, stepping, setting and sending late.                             *)
LEMMA EditKeeps ==
  ASSUME VariablesInv, NEW k \in Labels, NEW v \in Numbers,
         AddVariable(k) \/ ClickStep(k, v) \/ SetOnCard(v) \/ StepTimerFires(k)
  PROVE  VariablesInv'
  <1> USE NumbersAreContents
  <1>1. CASE AddVariable(k)
    <2>1. Message(k, 0) \in Messages /\ Message(k, 0).value # Gone
      BY MessageFacts
    <2>2. Send({Message(k, 0)}) /\ UNCHANGED <<stored, timers, renamed>>
      BY <1>1 DEF AddVariable
    <2>3. /\ sent' \subseteq Messages /\ echoes' = echoes /\ reply' = reply
          /\ sent \subseteq sent' /\ sent' \ sent \subseteq {Message(k, 0)}
          /\ lostFor \subseteq lostFor'
      BY <2>1, <2>2, SendFacts DEF VariablesInv
    <2>4. RenameFits'
      BY <2>1, <2>2, <2>3, RenameKept DEF VariablesInv
    <2>5. /\ \/ listed' = [listed EXCEPT ![k] = 0]
                /\ stepPending' = [stepPending EXCEPT ![k] = Gone]
             \/ listed' = [listed EXCEPT ![k] = stepPending[k]] /\ stepPending' = stepPending
          /\ card' = Message(k, 0)
      BY <1>1 DEF AddVariable
    <2>6. VariablesFit'
      BY <2>2, <2>3, <2>5 DEF VariablesInv, VariablesFit, Message
    <2>7. MaskIsAwaited'
      BY <2>2, <2>3, <2>5 DEF VariablesInv, VariablesFit, MaskIsAwaited
    <2> QED BY <2>4, <2>6, <2>7 DEF VariablesInv
  <1>2. CASE ClickStep(k, v)
    <2>1. /\ listed' = [listed EXCEPT ![k] = v]
          /\ stepPending' = [stepPending EXCEPT ![k] = v]
          /\ timers' = timers \cup {k}
          /\ UNCHANGED <<stored, card, sent, echoes, reply, lostFor, renamed>>
      BY <1>2 DEF ClickStep, wire
    <2>2. VariablesFit'
      BY <2>1 DEF VariablesInv, VariablesFit
    <2>3. MaskIsAwaited'
      BY <2>1 DEF VariablesInv, VariablesFit, MaskIsAwaited
    <2> QED BY <2>1, <2>2, <2>3 DEF VariablesInv, RenameFits
  <1>3. CASE SetOnCard(v)
    <2>1. /\ card # NoCard /\ card' = [card EXCEPT !.value = v]
          /\ Send({Message(card.key, v)})
          /\ UNCHANGED <<stored, listed, stepPending, timers, renamed>>
      BY <1>3 DEF SetOnCard
    <2>2. card \in [key : Labels, value : Numbers]
      BY <2>1 DEF VariablesInv, VariablesFit
    <2>3. Message(card.key, v) \in Messages /\ Message(card.key, v).value # Gone
      BY <2>2, MessageFacts
    <2>4. /\ sent' \subseteq Messages /\ echoes' = echoes /\ reply' = reply
          /\ sent \subseteq sent' /\ sent' \ sent \subseteq {Message(card.key, v)}
          /\ lostFor \subseteq lostFor'
      BY <2>1, <2>3, SendFacts DEF VariablesInv
    <2>5. RenameFits' /\ MaskIsAwaited'
      BY <2>1, <2>3, <2>4, RenameKept, MasksKept DEF VariablesInv
    <2>6. VariablesFit'
      BY <2>1, <2>2, <2>4 DEF VariablesInv, VariablesFit
    <2> QED BY <2>5, <2>6 DEF VariablesInv
  <1>4. CASE StepTimerFires(k)
    <2>1. /\ timers' = timers \ {k}
          /\ UNCHANGED <<stored, listed, card, stepPending, renamed>>
      BY <1>4 DEF StepTimerFires
    <2>2. CASE stepPending[k] = Gone
      <3>1. UNCHANGED <<sent, echoes, reply, lostFor>>
        BY <1>4, <2>2 DEF StepTimerFires, wire
      <3> QED BY <2>1, <2>2, <3>1
              DEF VariablesInv, VariablesFit, MaskIsAwaited, RenameFits
    <2>3. CASE stepPending[k] # Gone
      <3> DEFINE m == Message(k, stepPending[k])
      <3>1. stepPending[k] \in Contents
        BY DEF VariablesInv, VariablesFit
      <3>2. m \in Messages /\ m.value # Gone /\ m.key = k
        BY <2>3, <3>1, MessageFacts
      <3>3. Send({m})
        BY <1>4, <2>3 DEF StepTimerFires
      <3>4. /\ sent' \subseteq Messages /\ echoes' = echoes /\ reply' = reply
            /\ sent \subseteq sent' /\ sent' \ sent \subseteq {m}
            /\ lostFor \subseteq lostFor' /\ (m \in sent' \/ k \in lostFor')
        BY <3>2, <3>3, SendFacts DEF VariablesInv
      <3>5. RenameFits'
        BY <2>1, <3>2, <3>4, RenameKept DEF VariablesInv
      <3>6. MaskIsAwaited'
        BY <2>1, <3>4 DEF VariablesInv, MaskIsAwaited
      <3>7. VariablesFit'
        BY <2>1, <3>4 DEF VariablesInv, VariablesFit
      <3> QED BY <3>5, <3>6, <3>7 DEF VariablesInv
    <2> QED BY <2>2, <2>3
  <1> QED BY <1>1, <1>2, <1>3, <1>4

(* Deleting, renaming, selecting.                                          *)
LEMMA DeleteKeeps ==
  ASSUME VariablesInv, NEW k \in Labels, DeleteVariable(k)
  PROVE  VariablesInv'
  <1> USE NumbersAreContents
  <1>1. /\ Send({Message(k, Gone)}) /\ Disturbs({k})
        /\ UNCHANGED <<stored, listed, card, stepPending, timers>>
    BY DEF DeleteVariable, local
  <1>2. Message(k, Gone) \in Messages
    BY MessageFacts
  <1>3. /\ sent' \subseteq Messages /\ echoes' = echoes /\ reply' = reply
        /\ sent \subseteq sent' /\ sent' \ sent \subseteq {Message(k, Gone)}
        /\ lostFor \subseteq lostFor'
    BY <1>1, <1>2, SendFacts DEF VariablesInv
  <1>4. MaskIsAwaited'
    BY <1>1, <1>3, MasksKept DEF VariablesInv
  <1>5. VariablesFit'
    BY <1>1, <1>3 DEF VariablesInv, VariablesFit
  <1>6. RenameFits'
    <2>1. CASE renamed' = NoRename
      BY <2>1 DEF RenameFits
    <2>2. CASE renamed' # NoRename
      <3>1. renamed' = renamed /\ renamed.new # k
        BY <1>1, <2>2 DEF Disturbs
      <3>2. Message(k, Gone) # Message(renamed.new, Gone)
        BY <3>1 DEF Message
      <3> QED BY <1>1, <1>3, <3>1, <3>2 DEF VariablesInv, RenameFits
    <2> QED BY <2>1, <2>2
  <1> QED BY <1>4, <1>5, <1>6 DEF VariablesInv

LEMMA RenamesKeep ==
  ASSUME VariablesInv, NEW k \in Labels, NEW new \in Labels \ {k},
         RenameVariable(k, new) \/ RefuseRename(k, new)
  PROVE  VariablesInv'
  <1> USE NumbersAreContents
  <1>1. CASE RenameVariable(k, new)
    <2> DEFINE v == listed[k]
               ms == {Message(new, v), Message(k, Gone)}
    <2>1. /\ v # Gone /\ Send(ms) /\ ClearStep(k)
          /\ listed' = [listed EXCEPT ![new] = v, ![k] = Gone]
          /\ card' = Message(new, v)
          /\ renamed' = (IF attached /\ Message(new, Gone) \notin sent
                           THEN [old |-> k, new |-> new] ELSE NoRename)
          /\ UNCHANGED stored
      BY <1>1 DEF RenameVariable, RenameMessages
    <2>2. v \in Numbers
      BY <2>1 DEF VariablesInv, VariablesFit, Contents
    <2>3. ms \subseteq Messages
      BY <2>2, MessageFacts
    <2>4. /\ sent' \subseteq Messages /\ echoes' = echoes /\ reply' = reply
          /\ sent \subseteq sent' /\ lostFor \subseteq lostFor'
          /\ attached => sent' = sent \cup ms
      BY <2>1, <2>3, SendFacts DEF VariablesInv
    <2>5. MaskIsAwaited'
      BY <2>1, <2>4 DEF ClearStep, VariablesInv, VariablesFit, MaskIsAwaited
    <2>6. VariablesFit'
      <3>1. card' \in [key : Labels, value : Numbers]
        BY <2>1, <2>2 DEF Message
      <3>2. {listed', stepPending'} \subseteq [Labels -> Contents]
        BY <2>1, <2>2 DEF ClearStep, VariablesInv, VariablesFit
      <3> QED BY <2>1, <2>4, <3>1, <3>2 DEF VariablesInv, VariablesFit
    <2>7. RenameFits'
      <3>1. CASE renamed' = NoRename
        BY <3>1 DEF RenameFits
      <3>2. CASE renamed' # NoRename
        <4>1. /\ attached /\ Message(new, Gone) \notin sent
              /\ renamed' = [old |-> k, new |-> new]
          BY <2>1, <3>2
        <4>2. Message(new, Gone) \notin ms
          BY <2>1 DEF Message
        <4>3. Message(new, v) \in sent' /\ Message(new, Gone) \notin sent'
          BY <2>4, <4>1, <4>2
        <4>4. Message(new, v).key = new /\ Message(new, v).value # Gone
          BY <2>1 DEF Message
        <4> QED BY <4>1, <4>3, <4>4 DEF RenameFits
      <3> QED BY <3>1, <3>2
    <2> QED BY <2>5, <2>6, <2>7 DEF VariablesInv
  <1>2. CASE RefuseRename(k, new)
    <2>1. /\ listed[k] # Gone /\ card' = Message(k, listed[k])
          /\ UNCHANGED <<stored, listed, stepPending, timers, sent, echoes, reply,
                         lostFor, renamed>>
      BY <1>2 DEF RefuseRename, wire
    <2>2. VariablesFit'
      BY <2>1 DEF VariablesInv, VariablesFit, Contents, Message
    <2> QED BY <2>1, <2>2 DEF VariablesInv, MaskIsAwaited, RenameFits
  <1> QED BY <1>1, <1>2

LEMMA SelectionsKeep ==
  ASSUME VariablesInv, LeaveCard \/ \E k \in Labels : SelectVariable(k)
  PROVE  VariablesInv'
  <1>1. /\ UNCHANGED <<stored, listed, stepPending, timers, sent, echoes, reply, lostFor,
                       renamed>>
        /\ card' \in [key : Labels, value : Numbers] \cup {NoCard}
    BY DEF LeaveCard, SelectVariable, wire, VariablesInv, VariablesFit, Contents, Message
  <1> QED BY <1>1 DEF VariablesInv, VariablesFit, MaskIsAwaited, RenameFits

(* The handler and the others.                                             *)
LEMMA StoreFacts ==
  ASSUME VariablesFit, NEW m \in Messages, Store(m)
  PROVE  /\ stored' \in [Labels -> Contents] /\ echoes' \subseteq Messages
         /\ stored' = [stored EXCEPT ![m.key] = m.value]
         /\ echoes \subseteq echoes' /\ lostFor \subseteq lostFor'
         /\ m \in echoes' \/ m.key \in lostFor'
  BY DEF Store, VariablesFit, Messages

LEMMA RoomKeeps ==
  ASSUME VariablesInv,
         \/ \E m \in sent : ProcessMessage(m) \/ FailMessage(m)
         \/ \E k \in Labels, v \in Contents : OtherStores(k, v)
  PROVE  VariablesInv'
  <1>1. ASSUME NEW m \in sent, ProcessMessage(m) PROVE VariablesInv'
    <2>1. /\ m \in Messages /\ Store(m) /\ sent' = sent \ {m}
          /\ UNCHANGED <<listed, card, stepPending, timers, reply, renamed>>
      BY <1>1 DEF ProcessMessage, local, VariablesInv, VariablesFit
    <2>2. /\ stored' \in [Labels -> Contents] /\ echoes' \subseteq Messages
          /\ stored' = [stored EXCEPT ![m.key] = m.value]
          /\ echoes \subseteq echoes' /\ lostFor \subseteq lostFor'
          /\ m \in echoes' \/ m.key \in lostFor'
      BY <2>1, StoreFacts DEF VariablesInv
    <2>3. VariablesFit'
      BY <2>1, <2>2 DEF VariablesInv, VariablesFit
    <2>4. \A k \in Labels, v \in Contents : Message(k, v) = m => m.key = k
      BY DEF Message
    <2>5. MaskIsAwaited'
      BY <2>1, <2>2, <2>4 DEF VariablesInv, VariablesFit, MaskIsAwaited
    <2>6. RenameFits'
      <3>1. ASSUME renamed # NoRename, m.key = renamed.new PROVE m.value # Gone
        BY <2>1, <3>1 DEF Messages, Message, VariablesInv, RenameFits
      <3>2. m.key \in Labels
        BY <2>1 DEF Messages
      <3> QED BY <2>1, <2>2, <3>1, <3>2 DEF VariablesInv, VariablesFit, RenameFits
    <2> QED BY <2>3, <2>5, <2>6 DEF VariablesInv
  <1>2. ASSUME NEW m \in sent, FailMessage(m) PROVE VariablesInv'
    <2>1. /\ sent' = sent \ {m} /\ lostFor' = lostFor \cup {m.key} /\ Disturbs({m.key})
          /\ UNCHANGED <<stored, listed, card, stepPending, timers, echoes, reply>>
      BY <1>2 DEF FailMessage, local
    <2>2. VariablesFit'
      BY <2>1 DEF VariablesInv, VariablesFit
    <2>3. \A k \in Labels, v \in Contents : Message(k, v) = m => m.key = k
      BY DEF Message
    <2>4. MaskIsAwaited'
      BY <2>1, <2>3 DEF VariablesInv, VariablesFit, MaskIsAwaited
    <2>5. RenameFits'
      <3>1. renamed' # NoRename => renamed' = renamed /\ renamed.new # m.key
        BY <2>1 DEF Disturbs
      <3> QED BY <2>1, <3>1 DEF VariablesInv, RenameFits
    <2> QED BY <2>2, <2>4, <2>5 DEF VariablesInv
  <1>3. ASSUME NEW k \in Labels, NEW v \in Contents, OtherStores(k, v) PROVE VariablesInv'
    <2> DEFINE m == Message(k, v)
    <2>0. m \in Messages /\ m.key = k /\ m.value = v
      BY MessageFacts
    <2>1. /\ Store(m)
          /\ IF v = Gone THEN Disturbs({k}) ELSE UNCHANGED renamed
          /\ UNCHANGED <<listed, card, stepPending, timers, sent, reply>>
      BY <1>3 DEF OtherStores, local
    <2>2. /\ stored' \in [Labels -> Contents] /\ echoes' \subseteq Messages
          /\ stored' = [stored EXCEPT ![k] = v]
          /\ echoes \subseteq echoes' /\ lostFor \subseteq lostFor'
      BY <2>0, <2>1, StoreFacts DEF VariablesInv
    <2>3. VariablesFit'
      BY <2>1, <2>2 DEF VariablesInv, VariablesFit
    <2>4. MaskIsAwaited'
      BY <2>1, <2>2, MasksKept DEF VariablesInv
    <2>5. RenameFits'
      <3>1. renamed' # NoRename => renamed' = renamed /\ (v = Gone => renamed.new # k)
        BY <2>1 DEF Disturbs
      <3> QED BY <2>1, <2>2, <3>1 DEF VariablesInv, VariablesFit, RenameFits
    <2> QED BY <2>3, <2>4, <2>5 DEF VariablesInv
  <1> QED BY <1>1, <1>2, <1>3

(* The connection and the snapshots.                                       *)
LEMMA AttachmentKeeps ==
  ASSUME VariablesInv, Disconnect \/ Reconnect \/ AskAgain \/ AnswerSnapshot
  PROVE  VariablesInv'
  <1>1. /\ UNCHANGED <<stored, listed, card, stepPending, timers, sent, renamed>>
        /\ lostFor \subseteq lostFor'
        /\ echoes' \subseteq echoes
        /\ \A m \in echoes : m \in echoes' \/ m.key \in lostFor'
        /\ reply' \in {NoReply, Ask} \/ reply'.all = stored
    BY DEF Disconnect, Reconnect, AskAgain, AnswerSnapshot, local
  <1>2. VariablesFit'
    BY <1>1 DEF VariablesInv, VariablesFit
  <1>3. \A k \in Labels, v \in Contents : Message(k, v).key = k
    BY DEF Message
  <1>4. MaskIsAwaited'
    BY <1>1, <1>3 DEF VariablesInv, VariablesFit, MaskIsAwaited
  <1> QED BY <1>1, <1>2, <1>4 DEF VariablesInv, RenameFits

LEMMA ReceiveVariablesKeeps ==
  ASSUME VariablesInv, ReceiveVariables
  PROVE  VariablesInv'
  <1>1. /\ reply.stage = "sent" /\ reply' = NoReply
        /\ listed' = Reconciled(reply.all)
        /\ card' = (IF card = NoCard THEN NoCard
                    ELSE CardAfter(card.key, reply.all[card.key]))
        /\ UNCHANGED <<stored, stepPending, timers, sent, echoes, lostFor, renamed>>
    BY DEF ReceiveVariables
  <1>2. reply.all \in [Labels -> Contents]
    BY <1>1 DEF VariablesInv, VariablesFit, NoReply, Ask
  <1>3. listed' \in [Labels -> Contents]
    BY <1>1, <1>2 DEF Reconciled, VariablesInv, VariablesFit
  <1>4. card' \in [key : Labels, value : Numbers] \cup {NoCard}
    BY <1>1, <1>2 DEF CardAfter, Message, Contents, VariablesInv, VariablesFit
  <1> QED BY <1>1, <1>3, <1>4 DEF VariablesInv, VariablesFit, MaskIsAwaited, RenameFits

(* Broadcasts.                                                             *)
LEMMA ReceivedKeeps ==
  ASSUME VariablesInv, NEW m \in echoes, ReceiveUpdated(m) \/ ReceiveDeleted(m)
  PROVE  VariablesInv'
  <1> USE NumbersAreContents
  <1>1. m \in Messages /\ m.key \in Labels /\ m.value \in Contents
    BY DEF VariablesInv, VariablesFit, Messages
  <1>2. \A k \in Labels, v \in Contents : Message(k, v) = m => m.key = k /\ m.value = v
    BY DEF Message
  <1>3. CASE ReceiveUpdated(m)
    <2>1. /\ m.value # Gone /\ echoes' = echoes \ {m}
          /\ \/ /\ stepPending' = [stepPending EXCEPT ![m.key] = Gone]
                /\ listed' = [listed EXCEPT ![m.key] = m.value]
             \/ /\ stepPending[m.key] \notin {Gone, m.value}
                /\ listed' = [listed EXCEPT ![m.key] = stepPending[m.key]]
                /\ stepPending' = stepPending
          /\ card' = (IF card.key = m.key THEN m ELSE card)
          /\ UNCHANGED <<stored, timers, sent, reply, lostFor, renamed>>
      BY <1>3 DEF ReceiveUpdated
    <2>2. VariablesFit'
      <3>1. card' \in [key : Labels, value : Numbers] \cup {NoCard}
        BY <1>1, <2>1 DEF VariablesInv, VariablesFit, Messages, Contents
      <3>2. {listed', stepPending'} \subseteq [Labels -> Contents]
        BY <1>1, <2>1 DEF VariablesInv, VariablesFit
      <3> QED BY <2>1, <3>1, <3>2 DEF VariablesInv, VariablesFit
    <2>3. MaskIsAwaited'
      BY <1>1, <1>2, <2>1 DEF VariablesInv, VariablesFit, MaskIsAwaited
    <2> QED BY <2>1, <2>2, <2>3 DEF VariablesInv, RenameFits
  <1>4. CASE ReceiveDeleted(m)
    <2>1. /\ echoes' = echoes \ {m} /\ timers' = timers \ {m.key}
          /\ stepPending' = [stepPending EXCEPT ![m.key] = Gone]
          /\ listed' = [listed EXCEPT ![m.key] = Gone]
          /\ card' \in {card, NoCard}
          /\ UNCHANGED <<stored, sent, reply, lostFor, renamed>>
      BY <1>4 DEF ReceiveDeleted, ClearStep
    <2>2. VariablesFit'
      BY <1>1, <2>1 DEF VariablesInv, VariablesFit
    <2>3. MaskIsAwaited'
      BY <1>1, <1>2, <2>1 DEF VariablesInv, VariablesFit, MaskIsAwaited
    <2> QED BY <2>1, <2>2, <2>3 DEF VariablesInv, RenameFits
  <1> QED BY <1>3, <1>4

(* Every step keeps the invariant.                                         *)
THEOREM VariablesNextInv == VariablesInv /\ [VariablesNext]_variableVars => VariablesInv'
  <1> SUFFICES ASSUME VariablesInv, [VariablesNext]_variableVars PROVE VariablesInv'
    OBVIOUS
  <1>1. CASE UNCHANGED variableVars
    BY <1>1 DEF variableVars, VariablesInv, VariablesFit, MaskIsAwaited, RenameFits
  <1>2. ASSUME NEW k \in Labels, NEW v \in Numbers,
               AddVariable(k) \/ ClickStep(k, v) \/ SetOnCard(v) \/ StepTimerFires(k)
        PROVE  VariablesInv'
    BY <1>2, EditKeeps
  <1>3. ASSUME NEW k \in Labels, AddVariable(k) \/ StepTimerFires(k) PROVE VariablesInv'
    BY <1>2, <1>3, NumbersAreContents
  <1>4. ASSUME NEW v \in Numbers, SetOnCard(v) PROVE VariablesInv'
    BY <1>2, <1>4, LabelAssumption
  <1>5. ASSUME NEW k \in Labels, NEW new \in Labels \ {k},
               RenameVariable(k, new) \/ RefuseRename(k, new)
        PROVE  VariablesInv'
    BY <1>5, RenamesKeep
  <1>6. ASSUME NEW k \in Labels, DeleteVariable(k) PROVE VariablesInv'
    BY <1>6, DeleteKeeps
  <1> QED BY <1>1, <1>2, <1>3, <1>4, <1>5, <1>6, SelectionsKeep, RoomKeeps,
             AttachmentKeeps, ReceiveVariablesKeeps, ReceivedKeeps DEF VariablesNext

(* variablesPanel.ts:24-31, main.ts:872-874: in whatever order messages,   *)
(* echoes and snapshots come, a stepped value is given up only when it has *)
(* come back or was lost, and a rename never loses the variable.           *)
THEOREM NoEditGivenUp == VariablesSpec => []EditsAreAwaited
  <1>1. VariablesInv => EditsAreAwaited
    BY DEF VariablesInv, RenameFits, EditsAreAwaited, RenameLosesNothing
  <1> QED BY <1>1, VariablesInitInv, VariablesNextInv, PTL DEF VariablesSpec

----------------------------------------------------------------------------
(* Types.  Of EditorSelection: messages name things, and only objects are  *)
(* patched, so only objects are ever unmatched.                            *)
Sendable == {m \in Orders : m.what = "patch" => m.id \in Objects}
Digests == {NoDigest, AskedDigest} \cup [stage : {"sent"}, all : SUBSET Things]

TrafficTypeOK ==
  /\ inRoom \subseteq Things
  /\ orders \subseteq Sendable /\ reports \subseteq Sendable
  /\ digest \in Digests
  /\ unmatched \subseteq Objects /\ aside \subseteq Objects
  /\ ordered \in 0..MaxOrders /\ cuts \in 0..MaxCuts

EditorFlagsTypeOK == linked \in BOOLEAN /\ dropped \in BOOLEAN

LEMMA EditorTypes ==
  ASSUME EditorInv, TrafficTypeOK, EditorFlagsTypeOK
  PROVE  EditorTypeOK
  <1>1. digest \in {NoDigest, AskedDigest} \/ digest.all \subseteq Things
    BY DEF TrafficTypeOK, Digests
  <1>2. orders \subseteq Orders /\ reports \subseteq Orders
    BY DEF TrafficTypeOK, Sendable
  <1> QED BY <1>1, <1>2 DEF EditorInv, SelectionInv, SelectionTypeOK, CopiesInv, CopiesTypeOK,
                            TrafficTypeOK, EditorFlagsTypeOK, EditorTypeOK

LEMMA TrafficInitTyped == EditorInit => TrafficTypeOK /\ EditorFlagsTypeOK
  <1> SUFFICES ASSUME EditorInit PROVE TrafficTypeOK /\ EditorFlagsTypeOK
    OBVIOUS
  <1>1. ordered \in 0..MaxOrders /\ cuts \in 0..MaxCuts
    BY EditorBoundsAssumption DEF EditorInit
  <1>2. TrafficTypeOK
    BY <1>1, ObjectAssumption DEF EditorInit, TrafficTypeOK, Digests, Things
  <1> QED BY <1>2 DEF EditorInit, EditorFlagsTypeOK

LEMMA EditorCounts ==
  ASSUME TrafficTypeOK
  PROVE  /\ ordered < MaxOrders => ordered + 1 \in 0..MaxOrders
         /\ cuts < MaxCuts => cuts + 1 \in 0..MaxCuts
  BY EditorBoundsAssumption DEF TrafficTypeOK

(* What the user asks for.                                                 *)
LEMMA GiveIsTyped ==
  ASSUME TrafficTypeOK, NEW ms \in SUBSET Sendable, Give(ms),
         UNCHANGED <<inRoom, digest>>, aside' \subseteq Objects
  PROVE  TrafficTypeOK'
  <1>1. {m.id : m \in {o \in ms : o.what = "patch"}} \subseteq Objects
    BY DEF Sendable
  <1>2. unmatched' \subseteq Objects
    BY <1>1 DEF Give, TrafficTypeOK
  <1>3. orders' \subseteq Sendable
    BY DEF Give, TrafficTypeOK
  <1> QED BY <1>2, <1>3, EditorCounts DEF Give, TrafficTypeOK

LEMMA OrderIsSendable ==
  \A t \in Things : /\ Order("add", t) \in Sendable /\ Order("delete", t) \in Sendable
                    /\ t \in Objects => Order("patch", t) \in Sendable
  BY DEF Order, Sendable, Orders

LEMMA UserIsTyped ==
  ASSUME EditorInv, TrafficTypeOK,
         \/ \E a \in Objects : Duplicate(a) \/ ToggleInSidebar(a)
         \/ \E k \in Keys : CreateVariable(k) \/ RenameOnCard(k)
         \/ \E t \in Things : ClickTrash(t)
         \/ PressDelete \/ ToggleOnCanvas
  PROVE  TrafficTypeOK'
  <1>1. /\ selected # Nothing => selected \in Objects
        /\ cardKey \in known => cardKey \in Keys
    BY DEF EditorInv, SelectionInv, SelectionTypeOK
  <1>2. Objects \subseteq Things /\ Keys \subseteq Things
    BY DEF Things
  <1>3. ASSUME NEW a \in Objects, Duplicate(a) PROVE TrafficTypeOK'
    <2>1. {Order("add", a)} \in SUBSET Sendable
      BY <1>2, OrderIsSendable
    <2> QED BY <1>3, <2>1, GiveIsTyped DEF Duplicate, panels, TrafficTypeOK
  <1>4. ASSUME NEW a \in Objects, ToggleInSidebar(a) PROVE TrafficTypeOK'
    <2>1. {Order("patch", a)} \in SUBSET Sendable
      BY <1>2, OrderIsSendable
    <2> QED BY <1>4, <2>1, GiveIsTyped DEF ToggleInSidebar, TrafficTypeOK
  <1>5. ASSUME NEW k \in Keys, CreateVariable(k) PROVE TrafficTypeOK'
    <2>1. {Order("add", k)} \in SUBSET Sendable
      BY <1>2, OrderIsSendable
    <2> QED BY <1>5, <2>1, GiveIsTyped DEF CreateVariable, TrafficTypeOK
  <1>6. ASSUME NEW k \in Keys, RenameOnCard(k) PROVE TrafficTypeOK'
    <2>1. {Order("add", k), Order("delete", cardKey)} \in SUBSET Sendable
      BY <1>1, <1>2, <1>6, OrderIsSendable DEF RenameOnCard
    <2>2. UNCHANGED <<inRoom, digest, aside>>
      BY <1>6 DEF RenameOnCard
    <2>3. CASE UNCHANGED <<network, counters>>
      BY <2>2, <2>3 DEF network, counters, TrafficTypeOK
    <2>4. CASE Give({Order("add", k), Order("delete", cardKey)})
      BY <2>1, <2>2, <2>4, GiveIsTyped DEF TrafficTypeOK
    <2> QED BY <1>6, <2>3, <2>4 DEF RenameOnCard
  <1>7. ASSUME NEW t \in Things, ClickTrash(t) PROVE TrafficTypeOK'
    <2>1. {Order("delete", t)} \in SUBSET Sendable
      BY OrderIsSendable
    <2> QED BY <1>7, <2>1, GiveIsTyped DEF ClickTrash, panels, TrafficTypeOK
  <1>8. CASE PressDelete
    <2>1. {Order("delete", selected)} \in SUBSET Sendable
      BY <1>1, <1>2, <1>8, OrderIsSendable DEF PressDelete
    <2> QED BY <1>8, <2>1, GiveIsTyped DEF PressDelete, panels, TrafficTypeOK
  <1>9. CASE ToggleOnCanvas
    <2>1. {Order("patch", selected)} \in SUBSET Sendable
      BY <1>1, <1>2, <1>9, OrderIsSendable DEF ToggleOnCanvas
    <2>2. aside' \subseteq Objects
      BY <1>1, <1>9 DEF ToggleOnCanvas, TrafficTypeOK
    <2> QED BY <1>9, <2>1, <2>2, GiveIsTyped DEF ToggleOnCanvas
  <1> QED BY <1>3, <1>4, <1>5, <1>6, <1>7, <1>8, <1>9

(* What the handler does with it, and the others.                          *)
LEMMA ExecuteIsTyped ==
  ASSUME TrafficTypeOK, NEW m \in Sendable, Execute(m)
  PROVE  inRoom' \subseteq Things /\ reports' \subseteq Sendable
  <1>1. m.id \in Things
    BY DEF Sendable, Orders
  <1> QED BY <1>1 DEF Execute, TrafficTypeOK

LEMMA HandlerIsTyped ==
  ASSUME TrafficTypeOK,
         \/ \E m \in orders : ExecuteOrder(m) \/ FailOrder(m)
         \/ \E m \in Orders : OtherOrders(m)
  PROVE  TrafficTypeOK'
  <1>1. ASSUME NEW m \in orders, ExecuteOrder(m) PROVE TrafficTypeOK'
    <2>1. m \in Sendable /\ (m.what = "patch" => m.id \in Objects)
      BY <1>1 DEF TrafficTypeOK, Sendable
    <2>2. inRoom' \subseteq Things /\ reports' \subseteq Sendable
      <3>1. CASE UNCHANGED <<inRoom, reports>>
        BY <3>1 DEF TrafficTypeOK
      <3>2. CASE Execute(m)
        BY <2>1, <3>2, ExecuteIsTyped
      <3> QED BY <1>1, <3>1, <3>2 DEF ExecuteOrder
    <2>3. orders' \subseteq orders /\ unmatched' \subseteq Objects
      BY <1>1, <2>1 DEF ExecuteOrder, TrafficTypeOK
    <2>4. UNCHANGED <<digest, aside, ordered, cuts>>
      BY <1>1 DEF ExecuteOrder, panels, counters
    <2> QED BY <2>2, <2>3, <2>4 DEF TrafficTypeOK
  <1>2. ASSUME NEW m \in orders, FailOrder(m) PROVE TrafficTypeOK'
    <2>1. m.what = "patch" => m.id \in Objects
      BY <1>2 DEF TrafficTypeOK, Sendable
    <2>2. orders' \subseteq orders /\ unmatched' \subseteq Objects
      BY <1>2, <2>1 DEF FailOrder, TrafficTypeOK
    <2>3. UNCHANGED <<inRoom, reports, digest, aside, ordered>>
      BY <1>2 DEF FailOrder, panels
    <2>4. cuts' \in 0..MaxCuts
      BY <1>2, EditorCounts DEF FailOrder
    <2> QED BY <2>2, <2>3, <2>4 DEF TrafficTypeOK
  <1>3. ASSUME NEW m \in Orders, OtherOrders(m) PROVE TrafficTypeOK'
    <2>1. m \in Sendable /\ Execute(m)
      BY <1>3 DEF OtherOrders, Sendable
    <2>2. ordered' \in 0..MaxOrders /\ UNCHANGED <<orders, digest, unmatched, aside, cuts>>
      BY <1>3, EditorCounts DEF OtherOrders, panels
    <2> QED BY <2>1, <2>2, ExecuteIsTyped DEF TrafficTypeOK
  <1> QED BY <1>1, <1>2, <1>3

(* The link, the digests and what arrives.                                 *)
LEMMA LinkIsTyped ==
  ASSUME TrafficTypeOK,
         \/ CutOff \/ LinkUp \/ AskDigest \/ AnswerDigest \/ ApplyDigest
         \/ \E a \in Objects : ClickObject(a) \/ HearObject(a)
         \/ \E k \in Keys : ClickVariable(k) \/ HearVariable(k) \/ HearVariableDeleted(k)
  PROVE  TrafficTypeOK'
  <1>1. ASSUME UNCHANGED <<inRoom, orders, unmatched, aside, ordered, cuts>>,
               reports' \subseteq reports, digest' \in Digests
        PROVE  TrafficTypeOK'
    BY <1>1 DEF TrafficTypeOK
  <1>2. /\ NoDigest \in Digests /\ AskedDigest \in Digests /\ digest \in Digests
        /\ [stage |-> "sent", all |-> inRoom] \in Digests
    BY DEF TrafficTypeOK, Digests
  <1>3. CASE LinkUp \/ AskDigest \/ AnswerDigest \/ ApplyDigest
    BY <1>1, <1>2, <1>3
       DEF LinkUp, AskDigest, AnswerDigest, ApplyDigest, panels, network, counters
  <1>4. CASE CutOff
    <2>1. {m.id : m \in {r \in reports : r.what = "patch"}} \subseteq Objects
      BY DEF TrafficTypeOK, Sendable
    <2>2. cuts' \in 0..MaxCuts
      BY <1>4, EditorCounts DEF CutOff
    <2>3. unmatched' \subseteq Objects /\ reports' = {} /\ digest' = NoDigest
      BY <1>4, <2>1 DEF CutOff, TrafficTypeOK
    <2> QED BY <1>2, <1>4, <2>2, <2>3 DEF CutOff, panels, TrafficTypeOK
  <1>5. ASSUME NEW a \in Objects, ClickObject(a) \/ HearObject(a) PROVE TrafficTypeOK'
    <2>1. /\ UNCHANGED <<inRoom, orders, unmatched, aside, ordered, cuts, digest>>
          /\ reports' \subseteq reports
      BY <1>5 DEF ClickObject, HearObject, HearDeleted, HearAdded, HearPatched, panels, network,
                  counters
    <2> QED BY <1>1, <1>2, <2>1
  <1>6. ASSUME NEW k \in Keys, ClickVariable(k) \/ HearVariable(k) \/ HearVariableDeleted(k)
        PROVE  TrafficTypeOK'
    <2>1. /\ UNCHANGED <<inRoom, orders, unmatched, aside, ordered, cuts, digest>>
          /\ reports' \subseteq reports
      BY <1>6 DEF ClickVariable, HearVariable, HearVariableDeleted, panels, network, counters
    <2> QED BY <1>1, <1>2, <2>1
  <1> QED BY <1>3, <1>4, <1>5, <1>6

LEMMA TrafficStaysTyped ==
  EditorInv /\ TrafficTypeOK /\ [EditorNext]_editorVars => TrafficTypeOK'
  <1>1. TrafficTypeOK /\ UNCHANGED editorVars => TrafficTypeOK'
    BY DEF editorVars, TrafficTypeOK
  <1> QED BY <1>1, UserIsTyped, HandlerIsTyped, LinkIsTyped DEF EditorNext

LEMMA EditorFlagsStayTyped ==
  EditorFlagsTypeOK /\ [EditorNext]_editorVars => EditorFlagsTypeOK'
  <1> SUFFICES ASSUME EditorFlagsTypeOK, [EditorNext]_editorVars PROVE EditorFlagsTypeOK'
    OBVIOUS
  <1>1. ASSUME linked' = linked \/ linked' = TRUE \/ linked' = FALSE,
               dropped' = dropped \/ dropped' = FALSE
        PROVE  EditorFlagsTypeOK'
    BY <1>1 DEF EditorFlagsTypeOK
  <1>2. ASSUME NEW t, SelectOnCanvas(t) \/ FocusVariable(t)
        PROVE  dropped' = dropped \/ dropped' = FALSE
    BY <1>2 DEF SelectOnCanvas, FocusVariable, selection
  <1>3. ASSUME NEW a \in Objects,
               ClickObject(a) \/ Duplicate(a) \/ ToggleInSidebar(a) \/ HearObject(a)
        PROVE  EditorFlagsTypeOK'
    BY <1>1, <1>2, <1>3
       DEF ClickObject, Duplicate, ToggleInSidebar, HearObject, HearDeleted, HearAdded,
           HearPatched, Give, network, selection
  <1>4. ASSUME NEW k \in Keys, \/ ClickVariable(k) \/ CreateVariable(k) \/ RenameOnCard(k)
                               \/ HearVariable(k) \/ HearVariableDeleted(k)
        PROVE  EditorFlagsTypeOK'
    BY <1>1, <1>2, <1>4
       DEF ClickVariable, CreateVariable, RenameOnCard, HearVariable, HearVariableDeleted, Give,
           network, selection
  <1>5. ASSUME NEW t, ClickTrash(t) \/ PressDelete \/ ToggleOnCanvas \/ ExecuteOrder(t)
                      \/ FailOrder(t) \/ OtherOrders(t)
        PROVE  EditorFlagsTypeOK'
    BY <1>1, <1>5 DEF ClickTrash, PressDelete, ToggleOnCanvas, ExecuteOrder, FailOrder,
                      OtherOrders, Give, selection
  <1>6. CASE CutOff \/ LinkUp \/ AskDigest \/ AnswerDigest
    BY <1>1, <1>6 DEF CutOff, LinkUp, AskDigest, AnswerDigest, network, selection
  <1>7. CASE ApplyDigest
    <2>1. dropped' \in BOOLEAN /\ UNCHANGED linked
      BY <1>7 DEF ApplyDigest, network
    <2> QED BY <2>1 DEF EditorFlagsTypeOK
  <1>8. CASE UNCHANGED editorVars
    BY <1>1, <1>8 DEF editorVars
  <1> QED BY <1>3, <1>4, <1>5, <1>6, <1>7, <1>8 DEF EditorNext

----------------------------------------------------------------------------
(* Of VariablePanels: what VariablesInv does not say.                      *)
MarksTypeOK ==
  /\ painted \in [Labels -> Contents]
  /\ timers \subseteq Labels
  /\ lostFor \subseteq Labels
  /\ renamed \in [old : Labels, new : Labels] \cup {NoRename}
  /\ touches \in 0..MaxTouches /\ gaps \in 0..MaxGaps

LEMMA VariablesAreTyped ==
  VariablesTypeOK <=> VariablesFit /\ MarksTypeOK /\ attached \in BOOLEAN
  BY DEF VariablesTypeOK, VariablesFit, MarksTypeOK

LEMMA MarksInitTyped == VariablesInit => MarksTypeOK /\ attached \in BOOLEAN
  <1>1. 0 \in Contents /\ Gone \in Contents
    BY NumbersAreContents DEF Contents
  <1>2. 0 \in 0..MaxTouches /\ 0 \in 0..MaxGaps
    BY TouchAssumption
  <1> QED BY <1>1, <1>2 DEF VariablesInit, MarksTypeOK

LEMMA VariableCounts ==
  ASSUME MarksTypeOK
  PROVE  /\ Touch => touches' \in 0..MaxTouches
         /\ gaps < MaxGaps => gaps + 1 \in 0..MaxGaps
  BY TouchAssumption DEF MarksTypeOK, Touch

LEMMA SentMarks ==
  ASSUME MarksTypeOK, NEW ms \in SUBSET Messages, Send(ms)
  PROVE  lostFor' \subseteq Labels
  BY DEF Send, Messages, MarksTypeOK

LEMMA DisturbedMarks ==
  ASSUME MarksTypeOK, NEW ks, Disturbs(ks)
  PROVE  renamed' \in [old : Labels, new : Labels] \cup {NoRename}
  BY DEF Disturbs, MarksTypeOK

(* What this user does.                                                    *)
LEMMA UserMarks ==
  ASSUME VariablesFit, MarksTypeOK, NEW k \in Labels,
         \/ AddVariable(k) \/ SelectVariable(k) \/ DeleteVariable(k) \/ StepTimerFires(k)
         \/ \E v \in Numbers : ClickStep(k, v)
         \/ \E new \in Labels \ {k} : RenameVariable(k, new) \/ RefuseRename(k, new)
  PROVE  MarksTypeOK'
  <1>1. ASSUME AddVariable(k) PROVE MarksTypeOK'
    <2>1. {Message(k, 0)} \in SUBSET Messages
      BY MessageFacts, NumbersAreContents
    <2>2. lostFor' \subseteq Labels
      BY <1>1, <2>1, SentMarks DEF AddVariable
    <2> QED BY <1>1, <2>2, VariableCounts DEF AddVariable, MarksTypeOK
  <1>2. ASSUME SelectVariable(k) PROVE MarksTypeOK'
    BY <1>2 DEF SelectVariable, wire, MarksTypeOK
  <1>3. ASSUME DeleteVariable(k) PROVE MarksTypeOK'
    <2>1. {Message(k, Gone)} \in SUBSET Messages
      BY MessageFacts, NumbersAreContents
    <2>2. lostFor' \subseteq Labels
      BY <1>3, <2>1, SentMarks DEF DeleteVariable
    <2> QED BY <1>3, <2>2, VariableCounts, DisturbedMarks DEF DeleteVariable, local, MarksTypeOK
  <1>4. ASSUME StepTimerFires(k) PROVE MarksTypeOK'
    <2>1. {Message(k, stepPending[k])} \in SUBSET Messages
      BY MessageFacts DEF VariablesFit
    <2>2. lostFor' \subseteq Labels
      <3>1. CASE stepPending[k] = Gone
        BY <1>4, <3>1 DEF StepTimerFires, wire, MarksTypeOK
      <3>2. CASE stepPending[k] # Gone
        BY <1>4, <2>1, <3>2, SentMarks DEF StepTimerFires
      <3> QED BY <3>1, <3>2
    <2> QED BY <1>4, <2>2 DEF StepTimerFires, MarksTypeOK
  <1>5. ASSUME NEW v \in Numbers, ClickStep(k, v) PROVE MarksTypeOK'
    BY <1>5, VariableCounts DEF ClickStep, wire, MarksTypeOK
  <1>6. ASSUME NEW new \in Labels \ {k}, RenameVariable(k, new) PROVE MarksTypeOK'
    <2>1. RenameMessages(k, new) \in SUBSET Messages
      BY MessageFacts, NumbersAreContents DEF RenameMessages, VariablesFit
    <2>2. lostFor' \subseteq Labels
      BY <1>6, <2>1, SentMarks DEF RenameVariable
    <2>3. renamed' \in [old : Labels, new : Labels] \cup {NoRename}
      BY <1>6 DEF RenameVariable
    <2>4. timers' \subseteq Labels /\ UNCHANGED <<painted, gaps>> /\ touches' \in 0..MaxTouches
      BY <1>6, VariableCounts DEF RenameVariable, ClearStep, MarksTypeOK
    <2> QED BY <2>2, <2>3, <2>4 DEF MarksTypeOK
  <1>7. ASSUME NEW new \in Labels \ {k}, RefuseRename(k, new) PROVE MarksTypeOK'
    BY <1>7 DEF RefuseRename, wire, MarksTypeOK
  <1> QED BY <1>1, <1>2, <1>3, <1>4, <1>5, <1>6, <1>7

LEMMA CardMarks ==
  ASSUME VariablesFit, MarksTypeOK, LeaveCard \/ \E v \in Numbers : SetOnCard(v)
  PROVE  MarksTypeOK'
  <1>1. CASE LeaveCard
    BY <1>1 DEF LeaveCard, wire, MarksTypeOK
  <1>2. ASSUME NEW v \in Numbers, SetOnCard(v) PROVE MarksTypeOK'
    <2>1. card.key \in Labels
      BY <1>2 DEF SetOnCard, VariablesFit
    <2>2. {Message(card.key, v)} \in SUBSET Messages
      BY <2>1, MessageFacts, NumbersAreContents
    <2>3. lostFor' \subseteq Labels
      BY <1>2, <2>2, SentMarks DEF SetOnCard
    <2> QED BY <1>2, <2>3, VariableCounts DEF SetOnCard, MarksTypeOK
  <1> QED BY <1>1, <1>2

(* What the handler and the others do.                                     *)
LEMMA StoredMarks ==
  ASSUME MarksTypeOK, NEW m \in Messages, Store(m)
  PROVE  lostFor' \subseteq Labels
  BY DEF Store, Messages, MarksTypeOK

LEMMA RoomMarks ==
  ASSUME VariablesFit, MarksTypeOK,
         \/ \E m \in sent : ProcessMessage(m) \/ FailMessage(m)
         \/ \E k \in Labels, v \in Contents : OtherStores(k, v)
  PROVE  MarksTypeOK'
  <1>1. ASSUME NEW m \in sent, ProcessMessage(m) PROVE MarksTypeOK'
    <2>1. lostFor' \subseteq Labels
      BY <1>1, StoredMarks DEF ProcessMessage, VariablesFit
    <2> QED BY <1>1, <2>1 DEF ProcessMessage, local, MarksTypeOK
  <1>2. ASSUME NEW m \in sent, FailMessage(m) PROVE MarksTypeOK'
    <2>1. lostFor' \subseteq Labels
      BY <1>2 DEF FailMessage, VariablesFit, Messages, MarksTypeOK
    <2>2. renamed' \in [old : Labels, new : Labels] \cup {NoRename}
      BY <1>2, DisturbedMarks DEF FailMessage
    <2> QED BY <1>2, <2>1, <2>2, VariableCounts DEF FailMessage, local, MarksTypeOK
  <1>3. ASSUME NEW k \in Labels, NEW v \in Contents, OtherStores(k, v) PROVE MarksTypeOK'
    <2>1. lostFor' \subseteq Labels
      BY <1>3, MessageFacts, StoredMarks DEF OtherStores
    <2>2. renamed' \in [old : Labels, new : Labels] \cup {NoRename}
      <3>1. CASE v = Gone
        BY <1>3, <3>1, DisturbedMarks DEF OtherStores
      <3>2. CASE v # Gone
        BY <1>3, <3>2 DEF OtherStores, MarksTypeOK
      <3> QED BY <3>1, <3>2
    <2> QED BY <1>3, <2>1, <2>2, VariableCounts DEF OtherStores, local, MarksTypeOK
  <1> QED BY <1>1, <1>2, <1>3

(* The connection and what arrives.                                        *)
LEMMA ArrivingMarks ==
  ASSUME VariablesFit, MarksTypeOK,
         \/ Disconnect \/ Reconnect \/ AskAgain \/ AnswerSnapshot \/ ReceiveVariables
         \/ \E m \in echoes : ReceiveUpdated(m) \/ ReceiveDeleted(m)
  PROVE  MarksTypeOK'
  <1>1. CASE Disconnect
    <2>1. lostFor' \subseteq Labels
      BY <1>1 DEF Disconnect, VariablesFit, Messages, MarksTypeOK
    <2> QED BY <1>1, <2>1, VariableCounts DEF Disconnect, local, MarksTypeOK
  <1>2. CASE Reconnect \/ AskAgain \/ AnswerSnapshot
    BY <1>2 DEF Reconnect, AskAgain, AnswerSnapshot, local, MarksTypeOK
  <1>3. CASE ReceiveVariables
    <2>1. painted' \in [Labels -> Contents]
      BY <1>3 DEF ReceiveVariables, VariablesFit, NoReply, Ask
    <2> QED BY <1>3, <2>1 DEF ReceiveVariables, MarksTypeOK
  <1>4. ASSUME NEW m \in echoes, ReceiveUpdated(m) \/ ReceiveDeleted(m) PROVE MarksTypeOK'
    <2>1. m.key \in Labels /\ m.value \in Contents /\ Gone \in Contents
      BY NumbersAreContents DEF VariablesFit, Messages
    <2>2. painted' \in [Labels -> Contents]
      BY <1>4, <2>1 DEF ReceiveUpdated, ReceiveDeleted, MarksTypeOK
    <2>3. timers' \subseteq Labels
      BY <1>4 DEF ReceiveUpdated, ReceiveDeleted, ClearStep, MarksTypeOK
    <2>4. UNCHANGED <<lostFor, renamed, touches, gaps>>
      BY <1>4 DEF ReceiveUpdated, ReceiveDeleted
    <2> QED BY <2>2, <2>3, <2>4 DEF MarksTypeOK
  <1> QED BY <1>1, <1>2, <1>3, <1>4

LEMMA MarksStayTyped ==
  VariablesInv /\ MarksTypeOK /\ [VariablesNext]_variableVars => MarksTypeOK'
  <1>1. MarksTypeOK /\ UNCHANGED variableVars => MarksTypeOK'
    BY DEF variableVars, MarksTypeOK
  <1> QED BY <1>1, UserMarks, CardMarks, RoomMarks, ArrivingMarks DEF VariablesNext, VariablesInv

LEMMA AttachedStaysTyped ==
  attached \in BOOLEAN /\ [VariablesNext]_variableVars => attached' \in BOOLEAN
  <1> SUFFICES ASSUME attached \in BOOLEAN, [VariablesNext]_variableVars
               PROVE  attached' = attached \/ attached' = TRUE \/ attached' = FALSE
    OBVIOUS
  <1>1. ASSUME NEW ms, Send(ms) PROVE attached' = attached
    BY <1>1 DEF Send
  <1>2. ASSUME NEW k \in Labels,
               \/ AddVariable(k) \/ SelectVariable(k) \/ DeleteVariable(k) \/ StepTimerFires(k)
               \/ \E v \in Numbers : ClickStep(k, v)
               \/ \E v \in Contents : OtherStores(k, v)
               \/ \E new \in Labels \ {k} : RenameVariable(k, new) \/ RefuseRename(k, new)
        PROVE  attached' = attached
    BY <1>1, <1>2
       DEF AddVariable, SelectVariable, DeleteVariable, StepTimerFires, ClickStep, OtherStores,
           RenameVariable, RefuseRename, wire
  <1>3. ASSUME LeaveCard \/ \E v \in Numbers : SetOnCard(v) PROVE attached' = attached
    BY <1>1, <1>3 DEF LeaveCard, SetOnCard, wire
  <1>4. ASSUME \/ \E m \in sent : ProcessMessage(m) \/ FailMessage(m)
               \/ AskAgain \/ AnswerSnapshot \/ ReceiveVariables
               \/ \E m \in echoes : ReceiveUpdated(m) \/ ReceiveDeleted(m)
        PROVE  attached' = attached
    BY <1>4 DEF ProcessMessage, FailMessage, AskAgain, AnswerSnapshot, ReceiveVariables,
                ReceiveUpdated, ReceiveDeleted
  <1>5. CASE Disconnect \/ Reconnect
    BY <1>5 DEF Disconnect, Reconnect
  <1>6. CASE UNCHANGED variableVars
    BY <1>6 DEF variableVars
  <1> QED BY <1>2, <1>3, <1>4, <1>5, <1>6 DEF VariablesNext

----------------------------------------------------------------------------
(* Of SettingsPanels: PanelInv, with the choices of the one panel that the *)
(* behaviour is about, and nothing in the dialog of a volume panel.        *)
ChoicesTypeOK ==
  /\ kind \in {"sound", "preview"}
  /\ setting \in [Studios -> [seq : PanelSeqs, choice : Choices]]
  /\ here \in Studios
  /\ dialog \in Studios \cup {NoChannel}
  /\ kind = "sound" => dialog = NoChannel
  /\ shown \in Choices
  /\ lastSeq \in PanelSeqs
  /\ \A c \in calls : c.studio \in Studios /\ c.seq \in PanelSeqs /\ c.choice \in Choices
  /\ \A n \in news : n.seq \in PanelSeqs /\ n.choice \in Choices
  /\ answer.stage \in {"none", "asked", "sent"}
  /\ answer.stage = "sent" => answer.seq \in PanelSeqs /\ answer.choice \in Choices
  /\ breaks \in 0..MaxBreaks

PanelFlagsTypeOK ==
  online \in BOOLEAN /\ entered \in BOOLEAN /\ stranded \in BOOLEAN /\ hasty \in BOOLEAN

LEMMA PanelsAreTyped == ChoicesTypeOK /\ PanelFlagsTypeOK => PanelsTypeOK
  BY DEF ChoicesTypeOK, PanelFlagsTypeOK, PanelsTypeOK

LEMMA FirstChoices ==
  /\ 0 \in PanelSeqs
  /\ kind \in {"sound", "preview"} => \A r \in Studios : FirstChoice(r) \in Choices
  BY LevelAssumption, PanelBoundsAssumption DEF PanelSeqs, FirstChoice, Choices

LEMMA PanelsInitTyped == PanelsInit => ChoicesTypeOK /\ PanelFlagsTypeOK
  <1> SUFFICES ASSUME PanelsInit PROVE ChoicesTypeOK /\ PanelFlagsTypeOK
    OBVIOUS
  <1>1. \A r \in Studios : FirstChoice(r) \in Choices
    BY FirstChoices DEF PanelsInit
  <1>2. setting \in [Studios -> [seq : PanelSeqs, choice : Choices]]
    BY <1>1, FirstChoices DEF PanelsInit
  <1>3. 0 \in 0..MaxBreaks
    BY PanelBoundsAssumption
  <1> QED BY <1>1, <1>2, <1>3, FirstChoices
          DEF PanelsInit, ChoicesTypeOK, PanelFlagsTypeOK, NoAnswer

LEMMA BreakIsCounted ==
  ASSUME ChoicesTypeOK, breaks < MaxBreaks
  PROVE  breaks + 1 \in 0..MaxBreaks
  BY PanelBoundsAssumption DEF ChoicesTypeOK

LEMMA SocketIsTyped ==
  ASSUME ChoicesTypeOK,
         (\E r \in Studios : EnterStudio(r)) \/ OpenSocket \/ PollStudio \/ LoseSocket
  PROVE  ChoicesTypeOK'
  <1>1. ASSUME NEW r \in Studios, EnterStudio(r) PROVE ChoicesTypeOK'
    <2>1. Choices' = Choices /\ shown' \in Choices /\ lastSeq' \in PanelSeqs
      BY <1>1, LevelAssumption, FirstChoices DEF EnterStudio, Choices, ChoicesTypeOK
    <2> QED BY <1>1, <2>1, BreakIsCounted DEF EnterStudio, NoAnswer, ChoicesTypeOK
  <1>2. CASE OpenSocket \/ PollStudio
    <2>1. Choices' = Choices
      BY <1>2 DEF OpenSocket, PollStudio, Choices
    <2> QED BY <1>2, <2>1 DEF OpenSocket, PollStudio, AskedAnswer, ChoicesTypeOK
  <1>3. CASE LoseSocket
    <2>1. Choices' = Choices
      BY <1>3 DEF LoseSocket, Choices
    <2> QED BY <1>3, <2>1, BreakIsCounted DEF LoseSocket, NoAnswer, ChoicesTypeOK
  <1> QED BY <1>1, <1>2, <1>3

LEMMA ChangeIsTyped ==
  ASSUME ChoicesTypeOK, NEW now, NEW v \in Choices, Change(now, v),
         dialog' \in Studios \cup {NoChannel}, kind = "sound" => dialog' = NoChannel
  PROVE  ChoicesTypeOK'
  <1>1. Choices' = Choices
    BY DEF Change, Choices
  <1>2. lastSeq' \in PanelSeqs /\ shown' \in Choices
    BY DEF Change
  <1>3. \A c \in calls' : c.studio \in Studios /\ c.seq \in PanelSeqs /\ c.choice \in Choices
    BY DEF Change, ChoicesTypeOK
  <1>4. UNCHANGED <<kind, setting, here, news, answer, breaks>>
    BY DEF Change
  <1> QED BY <1>1, <1>2, <1>3, <1>4 DEF ChoicesTypeOK

LEMMA UserChangeIsTyped ==
  ASSUME ChoicesTypeOK, NEW now \in 1..PanelMaxSeq,
         \/ \E v \in Levels : DragVolume(now, v)
         \/ SelectPlatform(now)
         \/ \E c \in Studios : SaveDialog(now, c)
  PROVE  ChoicesTypeOK'
  <1>1. ASSUME NEW v \in Levels, DragVolume(now, v) PROVE ChoicesTypeOK'
    <2>1. v \in Choices /\ Change(now, v) /\ dialog' = dialog
      BY <1>1 DEF DragVolume, Choices
    <2> QED BY <2>1, ChangeIsTyped DEF ChoicesTypeOK
  <1>2. CASE SelectPlatform(now)
    <2>1. shown \in Choices /\ Change(now, shown) /\ dialog' = dialog
      BY <1>2 DEF SelectPlatform, ChoicesTypeOK
    <2>2. PICK v \in Choices : v = shown
      BY <2>1
    <2> QED BY <2>1, <2>2, ChangeIsTyped DEF ChoicesTypeOK
  <1>3. ASSUME NEW c \in Studios, SaveDialog(now, c) PROVE ChoicesTypeOK'
    <2>1. c \in Choices /\ Change(now, c) /\ dialog' = NoChannel
      BY <1>3 DEF SaveDialog, Choices, ChoicesTypeOK
    <2> QED BY <2>1, ChangeIsTyped
  <1> QED BY <1>1, <1>2, <1>3

LEMMA DialogIsTyped ==
  ASSUME ChoicesTypeOK, OpenDialog \/ CloseDialog
  PROVE  ChoicesTypeOK'
  <1>1. Choices' = Choices
    BY DEF OpenDialog, CloseDialog, Choices
  <1>2. dialog' \in Studios \cup {NoChannel} /\ (kind = "sound" => dialog' = NoChannel)
    BY DEF OpenDialog, CloseDialog, Choices, ChoicesTypeOK
  <1>3. UNCHANGED <<kind, setting, here, shown, lastSeq, calls, news, answer, breaks>>
    BY DEF OpenDialog, CloseDialog
  <1> QED BY <1>1, <1>2, <1>3 DEF ChoicesTypeOK

(* The handler and the other members.                                      *)
LEMMA WriteIsTyped ==
  ASSUME ChoicesTypeOK, NEW r \in Studios, NEW seq \in PanelSeqs, NEW v \in Choices,
         Write(r, seq, v)
  PROVE  /\ setting' \in [Studios -> [seq : PanelSeqs, choice : Choices]]
         /\ \A n \in news' : n.seq \in PanelSeqs /\ n.choice \in Choices
  BY DEF Write, ChoicesTypeOK

LEMMA HandledIsTyped ==
  ASSUME ChoicesTypeOK,
         \/ \E c \in calls : ProcessCall(c) \/ FailCall(c)
         \/ \E now \in 1..PanelMaxSeq, r \in Studios, v \in Choices : OtherChanges(r, now, v)
  PROVE  ChoicesTypeOK'
  <1>1. ASSUME UNCHANGED <<kind, here, dialog, shown, lastSeq, answer, breaks>>,
               calls' \subseteq calls,
               setting' \in [Studios -> [seq : PanelSeqs, choice : Choices]],
               \A n \in news' : n.seq \in PanelSeqs /\ n.choice \in Choices
        PROVE  ChoicesTypeOK'
    <2>1. Choices' = Choices
      BY <1>1 DEF Choices
    <2> QED BY <1>1, <2>1 DEF ChoicesTypeOK
  <1>2. ASSUME NEW c \in calls, ProcessCall(c) PROVE ChoicesTypeOK'
    <2>1. c.studio \in Studios /\ c.seq \in PanelSeqs /\ c.choice \in Choices
      BY <1>2 DEF ChoicesTypeOK
    <2>2. /\ setting' \in [Studios -> [seq : PanelSeqs, choice : Choices]]
          /\ \A n \in news' : n.seq \in PanelSeqs /\ n.choice \in Choices
      <3>1. CASE Write(c.studio, c.seq, c.choice)
        BY <2>1, <3>1, WriteIsTyped
      <3>2. CASE UNCHANGED <<setting, news>>
        BY <3>2 DEF ChoicesTypeOK
      <3> QED BY <1>2, <3>1, <3>2 DEF ProcessCall
    <2>3. /\ UNCHANGED <<kind, here, dialog, shown, lastSeq, answer, breaks>>
          /\ calls' \subseteq calls
      BY <1>2 DEF ProcessCall
    <2> QED BY <1>1, <2>2, <2>3
  <1>3. ASSUME NEW c \in calls, FailCall(c) PROVE ChoicesTypeOK'
    <2>1. /\ UNCHANGED <<kind, here, dialog, shown, lastSeq, answer, breaks, setting, news>>
          /\ calls' \subseteq calls
      BY <1>3 DEF FailCall
    <2> QED BY <1>1, <2>1 DEF ChoicesTypeOK
  <1>4. ASSUME NEW now \in 1..PanelMaxSeq, NEW r \in Studios, NEW v \in Choices,
               OtherChanges(r, now, v)
        PROVE  ChoicesTypeOK'
    <2>1. now \in PanelSeqs
      BY PanelBoundsAssumption DEF PanelSeqs
    <2>2. /\ setting' \in [Studios -> [seq : PanelSeqs, choice : Choices]]
          /\ \A n \in news' : n.seq \in PanelSeqs /\ n.choice \in Choices
      BY <1>4, <2>1, WriteIsTyped DEF OtherChanges
    <2>3. /\ UNCHANGED <<kind, here, dialog, shown, lastSeq, answer, breaks>>
          /\ calls' \subseteq calls
      BY <1>4 DEF OtherChanges
    <2> QED BY <1>1, <2>2, <2>3
  <1> QED BY <1>2, <1>3, <1>4

(* What arrives.                                                           *)
LEMMA AppliedIsTyped ==
  ASSUME ChoicesTypeOK, NEW seq \in PanelSeqs, NEW v \in Choices,
         Apply(seq, v) \/ Accept(seq, v)
  PROVE  shown' \in Choices /\ lastSeq' \in PanelSeqs
  BY DEF Apply, Accept, ChoicesTypeOK

LEMMA HeardIsTyped ==
  ASSUME ChoicesTypeOK,
         AnswerPoll \/ ReceiveSnapshot \/ \E n \in news : ReceiveNews(n)
  PROVE  ChoicesTypeOK'
  <1>1. Choices' = Choices
    BY DEF AnswerPoll, ReceiveSnapshot, ReceiveNews, Choices
  <1>2. CASE AnswerPoll
    <2>1. setting[here].seq \in PanelSeqs /\ setting[here].choice \in Choices
      BY DEF ChoicesTypeOK
    <2> QED BY <1>1, <1>2, <2>1 DEF AnswerPoll, ChoicesTypeOK
  <1>3. CASE ReceiveSnapshot
    <2>1. answer.seq \in PanelSeqs /\ answer.choice \in Choices
      BY <1>3 DEF ReceiveSnapshot, ChoicesTypeOK
    <2>2. shown' \in Choices /\ lastSeq' \in PanelSeqs
      BY <1>3, <2>1, AppliedIsTyped DEF ReceiveSnapshot
    <2> QED BY <1>1, <1>3, <2>2 DEF ReceiveSnapshot, NoAnswer, ChoicesTypeOK
  <1>4. ASSUME NEW n \in news, ReceiveNews(n) PROVE ChoicesTypeOK'
    <2>1. shown' \in Choices /\ lastSeq' \in PanelSeqs
      BY <1>4, AppliedIsTyped DEF ReceiveNews, ChoicesTypeOK
    <2> QED BY <1>1, <1>4, <2>1 DEF ReceiveNews, ChoicesTypeOK
  <1> QED BY <1>2, <1>3, <1>4

LEMMA ChoicesStayTyped ==
  ChoicesTypeOK /\ [PanelsNext]_panelVars => ChoicesTypeOK'
  <1>1. ChoicesTypeOK /\ UNCHANGED panelVars => ChoicesTypeOK'
    BY DEF panelVars, ChoicesTypeOK, Choices
  <1> QED BY <1>1, SocketIsTyped, UserChangeIsTyped, DialogIsTyped, HandledIsTyped, HeardIsTyped
          DEF PanelsNext

LEMMA PanelFlagsStayTyped ==
  PanelFlagsTypeOK /\ [PanelsNext]_panelVars => PanelFlagsTypeOK'
  <1> SUFFICES ASSUME PanelFlagsTypeOK, [PanelsNext]_panelVars PROVE PanelFlagsTypeOK'
    OBVIOUS
  <1>1. ASSUME NEW now, NEW v, Change(now, v) PROVE PanelFlagsTypeOK'
    BY <1>1 DEF Change, Hasty, PanelFlagsTypeOK
  <1>2. ASSUME NEW r \in Studios, EnterStudio(r) PROVE PanelFlagsTypeOK'
    BY <1>2 DEF EnterStudio, PanelFlagsTypeOK
  <1>3. CASE OpenSocket \/ PollStudio \/ LoseSocket
    BY <1>3 DEF OpenSocket, PollStudio, LoseSocket, PanelFlagsTypeOK
  <1>4. ASSUME NEW now \in 1..PanelMaxSeq,
               \/ \E v \in Levels : DragVolume(now, v)
               \/ SelectPlatform(now)
               \/ \E c \in Studios : SaveDialog(now, c)
               \/ \E r \in Studios, v \in Choices : OtherChanges(r, now, v)
        PROVE  PanelFlagsTypeOK'
    BY <1>1, <1>4 DEF DragVolume, SelectPlatform, SaveDialog, OtherChanges, PanelFlagsTypeOK
  <1>5. CASE OpenDialog \/ CloseDialog
    BY <1>5 DEF OpenDialog, CloseDialog, Hasty, PanelFlagsTypeOK
  <1>6. ASSUME NEW c \in calls, ProcessCall(c) \/ FailCall(c) PROVE PanelFlagsTypeOK'
    BY <1>6 DEF ProcessCall, FailCall, PanelFlagsTypeOK
  <1>7. ASSUME NEW seq, NEW v, Apply(seq, v) \/ Accept(seq, v) PROVE stranded' \in BOOLEAN
    BY <1>7 DEF Apply, Accept, PanelFlagsTypeOK
  <1>8. CASE AnswerPoll \/ ReceiveSnapshot
    BY <1>7, <1>8 DEF AnswerPoll, ReceiveSnapshot, PanelFlagsTypeOK
  <1>9. ASSUME NEW n \in news, ReceiveNews(n) PROVE PanelFlagsTypeOK'
    BY <1>7, <1>9 DEF ReceiveNews, PanelFlagsTypeOK
  <1>10. CASE UNCHANGED panelVars
    BY <1>10 DEF panelVars, PanelFlagsTypeOK
  <1> QED BY <1>2, <1>3, <1>4, <1>5, <1>6, <1>8, <1>9, <1>10 DEF PanelsNext

----------------------------------------------------------------------------
(* The page.  In a behaviour about one part the others rest: they are left *)
(* alone, in a state that satisfies their invariants.                      *)
PageInv ==
  /\ ConnectionInv
  /\ EditorInv /\ TrafficTypeOK /\ EditorFlagsTypeOK
  /\ VariablesInv /\ MarksTypeOK /\ attached \in BOOLEAN
  /\ PanelInv /\ ChoicesTypeOK /\ PanelFlagsTypeOK

LEMMA ConnectionRests == RestingConnection => ConnectionInv
  BY NoneAssumption
     DEF RestingConnection, ConnectionInv, TypeOK, NoOrphans, ChainUnbroken, NothingUnderWay,
         SwapIsComing, FieldsMatch, AllClosing

LEMMA PanelRests == RestingPanel => PanelInv /\ ChoicesTypeOK /\ PanelFlagsTypeOK
  <1> SUFFICES ASSUME RestingPanel PROVE PanelInv /\ ChoicesTypeOK /\ PanelFlagsTypeOK
    OBVIOUS
  <1>1. 0 \in PanelSeqs /\ 0 \in 0..MaxBreaks /\ FirstLevel \in Values
    BY FirstChoices, LevelAssumption, PanelBoundsAssumption DEF Values
  <1>2. here \in Studios /\ setting[here].seq = 0
    BY StudioAssumption DEF RestingPanel
  <1>3. TypeInv
    BY <1>1, <1>2 DEF RestingPanel, TypeInv, Setting, NoAnswer
  <1>4. AheadInv
    BY <1>2 DEF RestingPanel, AheadInv, Behind, Ahead, NoAnswer
  <1>5. HomeInv
    BY DEF RestingPanel, HomeInv, Unhurried
  <1>6. FirstLevel \in Choices
    BY LevelAssumption DEF RestingPanel, Choices
  <1>7. ChoicesTypeOK
    BY <1>1, <1>2, <1>6 DEF RestingPanel, ChoicesTypeOK, NoAnswer
  <1> QED BY <1>3, <1>4, <1>5, <1>7 DEF RestingPanel, PanelInv, PanelFlagsTypeOK

LEMMA PageInitInv == UnionInit => PageInv
  <1> SUFFICES ASSUME UnionInit PROVE PageInv
    OBVIOUS
  <1>1. ConnectionInv
    BY ConnectionRests, ConnectionInitInv DEF UnionInit
  <1>2. PanelInv /\ ChoicesTypeOK /\ PanelFlagsTypeOK
    BY PanelRests, PanelInitInv, PanelsInitTyped DEF UnionInit
  <1>3. EditorInit /\ VariablesInit
    BY DEF UnionInit
  <1> QED BY <1>1, <1>2, <1>3, EditorInitInv, TrafficInitTyped, VariablesInitInv, MarksInitTyped
          DEF PageInv

LEMMA PartsByThemselves ==
  [UnionNext]_unionVars =>
    [Next]_vars /\ [EditorNext]_editorVars /\ [VariablesNext]_variableVars /\ [PanelsNext]_panelVars
  BY DEF UnionNext, unionVars

LEMMA PageNextInv == PageInv /\ [UnionNext]_unionVars => PageInv'
  <1> SUFFICES ASSUME PageInv, [UnionNext]_unionVars PROVE PageInv'
    OBVIOUS
  <1>1. ConnectionInv'
    BY PartsByThemselves, ConnectionNextInv DEF PageInv
  <1>2. EditorInv' /\ TrafficTypeOK' /\ EditorFlagsTypeOK'
    BY PartsByThemselves, EditorNextInv, TrafficStaysTyped, EditorFlagsStayTyped DEF PageInv
  <1>3. VariablesInv' /\ MarksTypeOK' /\ attached' \in BOOLEAN
    BY PartsByThemselves, VariablesNextInv, MarksStayTyped, AttachedStaysTyped DEF PageInv
  <1>4. PanelInv' /\ ChoicesTypeOK' /\ PanelFlagsTypeOK'
    BY PartsByThemselves, PanelNextInv, ChoicesStayTyped, PanelFlagsStayTyped DEF PageInv
  <1> QED BY <1>1, <1>2, <1>3, <1>4 DEF PageInv

(* connection.ts, main.ts, sidebar.ts, variablesPanel.ts, sound.ts and     *)
(* streamPreview.ts: every invariant that the run on the page checks, and  *)
(* that a stopped connection stays stopped, in behaviours of any of the    *)
(* four parts.                                                             *)
THEOREM PageInvariance ==
  UnionSpec =>
    /\ [](PageTypeOK /\ ConnectionHolds /\ SelectionAgrees /\ EditsAreAwaited /\ PanelsInStep)
    /\ StoppedForGood
  <1>1. PageInv => PageTypeOK
    BY EditorTypes, VariablesAreTyped, PanelsAreTyped
       DEF PageInv, ConnectionInv, VariablesInv, PageTypeOK
  <1>2. PageInv => ConnectionHolds
    BY DEF PageInv, ConnectionInv, ConnectionHolds
  <1>3. PageInv => SelectionAgrees
    BY DEF PageInv, EditorInv, SelectionInv, CopiesInv, SelectionAgrees
  <1>4. PageInv => EditsAreAwaited
    BY DEF PageInv, VariablesInv, RenameFits, EditsAreAwaited, RenameLosesNothing
  <1>5. PageInv => PanelsInStep
    BY DEF PageInv, PanelInv, AheadInv, InThisVisit, Ahead, UnderWay, HomeInv, Unhurried,
           PanelsInStep, PanelsAheadOnlyWhilePending, ChannelsStayHome
  <1>6. PageInv /\ [UnionNext]_unionVars => [Quiet]_vars
    BY PartsByThemselves, StopStep DEF PageInv
  <1> QED BY <1>1, <1>2, <1>3, <1>4, <1>5, <1>6, PageInitInv, PageNextInv, PTL
          DEF UnionSpec, StoppedForGood, Quiet
============================================================================
