-------------------------- MODULE RoomTableProofs --------------------------
(***************************************************************************)
(* Proofs about RoomTable, for any number of invocations, variables, keys  *)
(* and seqs, invocations that stop anywhere included: the item that a key  *)
(* was put in is kept, its settings are seq-guarded registers, and the     *)
(* createdAt of a variable changes only where a read was overtaken.        *)
(***************************************************************************)
EXTENDS RoomTable, TLAPS

(* Nobody may be refused by an item that is gone.                          *)
GoneIsClean == room = NoRoom => valid = {} /\ ~upserted

ItemInv ==
  /\ room \in Item \cup {NoRoom}
  /\ valid \in SUBSET ObsKeys
  /\ GoneIsClean /\ BareIffUpserted /\ HandedOutKeyWorks

(* What CreatedAtKept rests on: what an invocation is about to write is    *)
(* what there is, or it has been overtaken.                                *)
BornIsCurrent ==
  \A h \in Invocations :
    (At(h, "set") /\ ~task[h].raced /\ CreatedAt(task[h].name) # Absent)
      => CreatedAt(task[h].name) = task[h].born

TaskInv == task \in [Invocations -> Task \cup {NoTask}] /\ BornIsCurrent

RoomInv == ItemInv /\ TaskInv

(* At the start there is no item, and nobody at work on it.                *)
THEOREM RoomInitInv == RoomInit => RoomInv
  <1> SUFFICES ASSUME RoomInit PROVE RoomInv
    OBVIOUS
  <1>1. ItemInv
    BY DEF RoomInit, ItemInv, GoneIsClean, BareIffUpserted, HandedOutKeyWorks
  <1>2. TaskInv
    BY DEF RoomInit, TaskInv, BornIsCurrent, At
  <1> QED BY <1>1, <1>2 DEF RoomInv

----------------------------------------------------------------------------
(* The item.                                                               *)

(* NoRoom and Absent are neither items nor what an item consists of.       *)
LEMMA ItemFacts ==
  ASSUME NEW i \in Item
  PROVE  /\ i # NoRoom
         /\ i.viewport \in BOOLEAN
         /\ i.volume \in Stamp \cup {Absent} /\ i.preview \in Stamp \cup {Absent}
         /\ i.variables \in Variables \cup {Absent}
         /\ i.obsKey \in ObsKeys \cup {Absent}
  BY RoomSentinelAssumption DEF Item

(* A new item and an empty one are items.                                  *)
LEMMA NewItems == NewRoom \in Item /\ EmptyItem \in Item
  <1>1. [n \in Names |-> Absent] \in Variables
    BY DEF Variables
  <1>2. [seq |-> 0, value |-> Default] \in Stamp
    BY DefaultAssumption, RoomBoundsAssumption DEF Stamp
  <1> QED BY <1>1, <1>2 DEF NewRoom, EmptyItem, Item

LEMMA CurrentIsItem ==
  ASSUME ItemInv
  PROVE  Current \in Item
  BY NewItems DEF ItemInv, Current

(* An UpdateItem that leaves the viewport and the variables alone, and     *)
(* keeps the key or has no key to keep.                                    *)
LEMMA UpsertKeeps ==
  ASSUME ItemInv, NEW new \in Item, room' = new,
         new.viewport = Current.viewport, new.variables = Current.variables,
         valid' \in SUBSET ObsKeys, \A k \in valid' : new.obsKey = k,
         upserted' = (upserted \/ room = NoRoom)
  PROVE  ItemInv'
  <1>1. new # NoRoom
    BY ItemFacts
  <1>2. (~new.viewport <=> upserted') /\ (new.variables = Absent <=> upserted')
    <2>1. CASE room = NoRoom
      BY <2>1 DEF Current, EmptyItem
    <2>2. CASE room # NoRoom
      BY <2>2 DEF Current, ItemInv, BareIffUpserted
    <2> QED BY <2>1, <2>2
  <1>3. BareIffUpserted' /\ HandedOutKeyWorks' /\ GoneIsClean'
    BY <1>1, <1>2 DEF BareIffUpserted, HandedOutKeyWorks, Resolves, GoneIsClean
  <1> QED BY <1>3 DEF ItemInv

(* The Put of getOrCreateRoom gives way to an item that is there.          *)
LEMMA CreateRoomKeepsItem ==
  ASSUME ItemInv, NEW h \in Invocations, CreateRoom(h)
  PROVE  ItemInv'
  <1>1. CASE room = NoRoom
    <2>1. room' = NewRoom /\ valid' = {} /\ upserted' = FALSE
      BY <1>1 DEF CreateRoom, ItemInv, GoneIsClean
    <2>2. NewRoom # NoRoom /\ NewRoom.viewport = TRUE /\ NewRoom.variables # Absent
      <3>1. [n \in Names |-> Absent] \in Variables
        BY DEF Variables
      <3> QED BY <3>1, NewItems, RoomSentinelAssumption DEF NewRoom
    <2> QED BY <2>1, <2>2, NewItems
            DEF ItemInv, GoneIsClean, BareIffUpserted, HandedOutKeyWorks
  <1>2. CASE room # NoRoom
    BY <1>2 DEF CreateRoom, ItemInv, GoneIsClean, BareIffUpserted, HandedOutKeyWorks,
                Resolves
  <1> QED BY <1>1, <1>2

(* What an UpdateItem of a setting makes of the item.                      *)
LEMMA WriteSettingFacts ==
  ASSUME RoomInv, NEW h \in Invocations, WriteSetting(h)
  PROVE  /\ room' \in Item
         /\ room'.viewport = Current.viewport /\ room'.variables = Current.variables
         /\ room'.obsKey = Current.obsKey
         /\ task[h].op \in Settings /\ task[h].seq \in 0..RoomMaxSeq
         /\ SettingWins(task[h].op, task[h].seq)
         /\ room'[task[h].op] \in Stamp /\ room'[task[h].op].seq = task[h].seq
         /\ \A s \in Settings \ {task[h].op} : room'[s] = Current[s]
  <1>1. task[h] \in Task /\ task[h].op \in Settings
    BY DEF WriteSetting, At, RoomInv, TaskInv
  <1> DEFINE new == [seq |-> task[h].seq, value |-> task[h].value]
  <1>2. new \in Stamp /\ new.seq = task[h].seq /\ task[h].seq \in 0..RoomMaxSeq
    BY <1>1 DEF Task, Stamp
  <1>3. room' = [Current EXCEPT
                   !.volume = IF task[h].op = "volume" THEN new ELSE @,
                   !.preview = IF task[h].op = "preview" THEN new ELSE @]
    BY DEF WriteSetting
  <1>4. Current \in Item
    BY CurrentIsItem DEF RoomInv
  <1> HIDE DEF new
  <1>5. /\ room'.viewport = Current.viewport /\ room'.variables = Current.variables
        /\ room'.obsKey = Current.obsKey
        /\ room'.volume = IF task[h].op = "volume" THEN new ELSE Current.volume
        /\ room'.preview = IF task[h].op = "preview" THEN new ELSE Current.preview
    BY <1>3, <1>4 DEF Item
  <1>6. room' \in Item
    BY <1>2, <1>3, <1>4 DEF Item
  <1>7. SettingWins(task[h].op, task[h].seq)
    BY DEF WriteSetting
  <1> QED BY <1>1, <1>2, <1>5, <1>6, <1>7 DEF Settings

LEMMA WriteSettingKeepsItem ==
  ASSUME RoomInv, NEW h \in Invocations, WriteSetting(h)
  PROVE  ItemInv'
  <1>1. /\ room' \in Item
        /\ room'.viewport = Current.viewport /\ room'.variables = Current.variables
        /\ room'.obsKey = Current.obsKey
    BY WriteSettingFacts
  <1>2. valid' = valid /\ upserted' = (upserted \/ room = NoRoom)
    BY DEF WriteSetting
  <1>3. \A k \in valid' : room'.obsKey = k
    BY <1>1, <1>2 DEF RoomInv, ItemInv, HandedOutKeyWorks, Resolves, Current
  <1>4. PICK new \in Item : room' = new
    BY <1>1
  <1> QED BY <1>1, <1>2, <1>3, <1>4, UpsertKeeps DEF RoomInv, ItemInv

(* A variable is set or removed only in an item that has variables.        *)
LEMMA VariablesFacts ==
  ASSUME ItemInv, HasVariables, NEW n \in Names, NEW t \in Times \cup {Absent},
         room' = [room EXCEPT !.variables[n] = t]
  PROVE  /\ room' \in Item
         /\ room'.viewport = room.viewport /\ room'.obsKey = room.obsKey
         /\ room'.volume = room.volume /\ room'.preview = room.preview
         /\ room'.variables = [room.variables EXCEPT ![n] = t]
         /\ room'.variables # Absent
  <1>1. room \in Item /\ room.variables \in Variables
    BY DEF HasVariables, ItemInv, Item
  <1>2. [room.variables EXCEPT ![n] = t] \in Variables
    BY <1>1 DEF Variables
  <1> DEFINE new == [room.variables EXCEPT ![n] = t]
  <1>3. room' = [room EXCEPT !.variables = new]
    OBVIOUS
  <1>4. new # Absent
    BY <1>2, RoomSentinelAssumption
  <1>5. new \in Variables
    BY <1>2
  <1> HIDE DEF new
  <1>6. room' \in Item
    BY <1>1, <1>3, <1>5 DEF Item
  <1>7. /\ room'.viewport = room.viewport /\ room'.obsKey = room.obsKey
        /\ room'.volume = room.volume /\ room'.preview = room.preview
        /\ room'.variables = new
    BY <1>1, <1>3 DEF Item
  <1>8. room'.variables = [room.variables EXCEPT ![n] = t]
    BY <1>7 DEF new
  <1> QED BY <1>4, <1>6, <1>7, <1>8

LEMMA VariablesKeepItem ==
  ASSUME ItemInv, HasVariables, NEW n \in Names, NEW t \in Times \cup {Absent},
         room' = [room EXCEPT !.variables[n] = t], UNCHANGED <<valid, upserted>>
  PROVE  ItemInv'
  <1>1. /\ room' \in Item /\ room' # NoRoom
        /\ room'.viewport = room.viewport /\ room'.obsKey = room.obsKey
        /\ room'.variables # Absent
    BY VariablesFacts, ItemFacts
  <1>2. room # NoRoom /\ room.variables # Absent
    BY DEF HasVariables
  <1> QED BY <1>1, <1>2
          DEF ItemInv, GoneIsClean, BareIffUpserted, HandedOutKeyWorks, Resolves

(* What putting a key makes of the item.                                   *)
LEMMA KeyFacts ==
  ASSUME ItemInv, NEW k \in ObsKeys, room' = [Current EXCEPT !.obsKey = k]
  PROVE  /\ room' \in Item
         /\ room'.viewport = Current.viewport /\ room'.variables = Current.variables
         /\ room'.volume = Current.volume /\ room'.preview = Current.preview
         /\ room'.obsKey = k
  BY CurrentIsItem DEF Item

(* A key that was handed out is in the item, and is handed out again.      *)
LEMMA GetKeyKeepsItem ==
  ASSUME ItemInv, NEW fresh \in ObsKeys, GetOrCreateObsKey(fresh)
  PROVE  ItemInv' /\ room' = [Current EXCEPT !.obsKey = KeyAfter(fresh)]
                  /\ KeyAfter(fresh) \in ObsKeys
  <1>1. PICK k : k = KeyAfter(fresh)
    OBVIOUS
  <1>2. k \in ObsKeys
    BY <1>1, CurrentIsItem, ItemFacts DEF KeyAfter
  <1>3. /\ room' = [Current EXCEPT !.obsKey = k] /\ valid' = valid \cup {k}
        /\ upserted' = (upserted \/ room = NoRoom)
    BY <1>1 DEF GetOrCreateObsKey
  <1>4. \A j \in valid : j = k
    <2> SUFFICES ASSUME NEW j \in valid PROVE j = k
      OBVIOUS
    <2>1. room # NoRoom /\ room.obsKey = j /\ j # Absent
      BY RoomSentinelAssumption DEF ItemInv, HandedOutKeyWorks, Resolves
    <2> QED BY <1>1, <2>1 DEF KeyAfter, Current
  <1>5. PICK new \in Item : /\ room' = new
                            /\ new.viewport = Current.viewport
                            /\ new.variables = Current.variables /\ new.obsKey = k
    BY <1>2, <1>3, KeyFacts
  <1>6. valid' \in SUBSET ObsKeys /\ \A j \in valid' : new.obsKey = j
    BY <1>2, <1>3, <1>4, <1>5 DEF ItemInv
  <1> QED BY <1>1, <1>2, <1>3, <1>5, <1>6, UpsertKeeps

(* A new key is the only one that works.                                   *)
LEMMA RegenerateKeepsItem ==
  ASSUME ItemInv, NEW fresh \in ObsKeys, RegenerateObsKey(fresh)
  PROVE  ItemInv'
  <1>1. /\ room' = [Current EXCEPT !.obsKey = fresh] /\ valid' = {fresh}
        /\ upserted' = (upserted \/ room = NoRoom)
    BY DEF RegenerateObsKey
  <1>2. PICK new \in Item : /\ room' = new
                            /\ new.viewport = Current.viewport
                            /\ new.variables = Current.variables /\ new.obsKey = fresh
    BY <1>1, KeyFacts
  <1>3. valid' \in SUBSET ObsKeys /\ \A j \in valid' : new.obsKey = j
    BY <1>1, <1>2
  <1> QED BY <1>1, <1>2, <1>3, UpsertKeeps

LEMMA DeleteKeepsItem ==
  ASSUME DeleteRoomRow
  PROVE  ItemInv'
  BY DEF DeleteRoomRow, ItemInv, GoneIsClean, BareIffUpserted, HandedOutKeyWorks

LEMMA ItemKept ==
  ASSUME ItemInv, UNCHANGED <<room, valid, upserted>>
  PROVE  ItemInv'
  BY DEF ItemInv, GoneIsClean, BareIffUpserted, HandedOutKeyWorks, Resolves

----------------------------------------------------------------------------
(* The variables.                                                          *)

LEMMA NamedTasks ==
  ASSUME (task \in [Invocations -> Task \cup {NoTask}])', NEW g \in Invocations,
         At(g, "set")'
  PROVE  task'[g].name \in Names
  BY DEF At, Task

(* One invocation goes on, and what there is stays as it is.               *)
LEMMA OneTaskStep ==
  ASSUME TaskInv, NEW h \in Invocations, NEW t \in Task \cup {NoTask},
         task' = [task EXCEPT ![h] = t], t # NoTask => t.step # "set",
         \A n \in Names : CreatedAt(n)' \in {CreatedAt(n), Absent}
  PROVE  TaskInv'
  <1>1. task' \in [Invocations -> Task \cup {NoTask}] /\ task'[h] = t
        /\ \A g \in Invocations \ {h} : task'[g] = task[g]
    BY DEF TaskInv
  <1>2. ASSUME NEW g \in Invocations, NEW n \in Names, At(g, "set")', ~task'[g].raced,
               task'[g].name = n, CreatedAt(n)' # Absent
        PROVE  CreatedAt(n)' = task'[g].born
    <2>1. g # h /\ task'[g] = task[g]
      BY <1>1, <1>2 DEF At
    <2>2. At(g, "set") /\ ~task[g].raced /\ task[g].name = n
      BY <1>2, <2>1 DEF At
    <2>3. CreatedAt(n)' = CreatedAt(n)
      BY <1>2
    <2> QED BY <1>2, <2>1, <2>2, <2>3 DEF TaskInv, BornIsCurrent
  <1>3. BornIsCurrent'
    BY <1>1, <1>2, NamedTasks DEF BornIsCurrent, CreatedAt, HasVariables
  <1> QED BY <1>1, <1>3 DEF TaskInv

(* What a step does to the variables and the settings that were there: it  *)
(* keeps or removes a createdAt, and moves a setting to a larger seq only. *)
BirthsStay == \A n \in Names : CreatedAt(n)' \in {CreatedAt(n), Absent}

SettingsMoveUp ==
  \A s \in Settings :
    (CellOf(s) # Absent /\ CellOf(s)' # Absent)
      => CellOf(s)' = CellOf(s) \/ CellOf(s)'.seq > CellOf(s).seq

LEMMA RoomKept ==
  ASSUME UNCHANGED room
  PROVE  BirthsStay /\ SettingsMoveUp
  BY DEF BirthsStay, SettingsMoveUp, CreatedAt, HasVariables, CellOf

(* An UpdateItem that does not touch the variables.                        *)
LEMMA UpsertKeepsBirths ==
  ASSUME room' \in Item, room'.variables = Current.variables
  PROVE  BirthsStay
  <1>1. room' # NoRoom
    BY ItemFacts
  <1>2. HasVariables' <=> HasVariables
    BY <1>1 DEF HasVariables, Current, EmptyItem
  <1>3. HasVariables => room'.variables = room.variables
    BY DEF HasVariables, Current
  <1> QED BY <1>2, <1>3 DEF BirthsStay, CreatedAt

(* One that does not touch the settings.                                   *)
LEMMA UpsertKeepsSettings ==
  ASSUME room' \in Item, room'.volume = Current.volume, room'.preview = Current.preview
  PROVE  SettingsMoveUp
  <1>1. room' # NoRoom
    BY ItemFacts
  <1>2. room # NoRoom => CellOf("volume")' = CellOf("volume")
                         /\ CellOf("preview")' = CellOf("preview")
    BY <1>1 DEF CellOf, Current
  <1>3. room = NoRoom => CellOf("volume") = Absent /\ CellOf("preview") = Absent
    BY DEF CellOf
  <1> QED BY <1>2, <1>3 DEF SettingsMoveUp, Settings

(* A step that ends at least h's work, and leaves the item as it is.       *)
LEMMA FinishKeeps ==
  ASSUME RoomInv, NEW h \in Invocations, Finish(h), UNCHANGED <<room, valid, upserted>>
  PROVE  RoomInv' /\ BirthsStay /\ SettingsMoveUp
  <1>1. BirthsStay /\ SettingsMoveUp
    BY RoomKept
  <1>2. TaskInv'
    BY <1>1, OneTaskStep DEF Finish, RoomInv, BirthsStay
  <1> QED BY <1>1, <1>2, ItemKept DEF RoomInv

(* A message starts a task.                                                *)
LEMMA ReceiveKeeps ==
  ASSUME RoomInv, NEW h \in Invocations, NEW op \in Ops, NEW seq \in 1..RoomMaxSeq,
         NEW v \in Values, NEW n \in Names, ReceiveMessage(h, op, seq, v, n)
  PROVE  RoomInv' /\ BirthsStay /\ SettingsMoveUp
  <1> DEFINE t == [op |-> op, step |-> IF room = NoRoom THEN "create" ELSE "act",
                   seq |-> seq, value |-> v, name |-> n, born |-> Absent, raced |-> FALSE]
  <1>1. t \in Task /\ t.step # "set"
    BY RoomBoundsAssumption DEF Task
  <1>2. task' = [task EXCEPT ![h] = t] /\ UNCHANGED <<room, valid, upserted>>
    BY DEF ReceiveMessage
  <1>3. BirthsStay /\ SettingsMoveUp
    BY <1>2, RoomKept
  <1> HIDE DEF t
  <1>4. TaskInv'
    BY <1>1, <1>2, <1>3, OneTaskStep DEF RoomInv, BirthsStay
  <1> QED BY <1>2, <1>3, <1>4, ItemKept DEF RoomInv

(* The Put.                                                                *)
LEMMA CreateRoomKeeps ==
  ASSUME RoomInv, NEW h \in Invocations, CreateRoom(h)
  PROVE  RoomInv' /\ BirthsStay /\ SettingsMoveUp
  <1> DEFINE t == [task[h] EXCEPT !.step = "act"]
  <1>1. task[h] \in Task
    BY DEF CreateRoom, At, RoomInv, TaskInv
  <1>2. t \in Task /\ t.step = "act"
    BY <1>1 DEF Task
  <1>3. task' = [task EXCEPT ![h] = t]
    BY DEF CreateRoom
  <1> HIDE DEF t
  <1>4. BirthsStay /\ SettingsMoveUp
    <2>1. CASE room = NoRoom
      <3>1. room' = NewRoom
        BY <2>1 DEF CreateRoom
      <3>2. \A n \in Names : CreatedAt(n)' = Absent
        BY <3>1 DEF CreatedAt, NewRoom
      <3>3. \A s \in Settings : CellOf(s) = Absent
        BY <2>1 DEF CellOf
      <3> QED BY <3>2, <3>3 DEF BirthsStay, SettingsMoveUp
    <2>2. CASE room # NoRoom
      BY <2>2, RoomKept DEF CreateRoom
    <2> QED BY <2>1, <2>2
  <1>5. TaskInv'
    BY <1>2, <1>3, <1>4, OneTaskStep DEF RoomInv, BirthsStay
  <1> QED BY <1>4, <1>5, CreateRoomKeepsItem DEF RoomInv

(* A setting is written under its condition.                               *)
LEMMA WriteSettingKeeps ==
  ASSUME RoomInv, NEW h \in Invocations, WriteSetting(h)
  PROVE  RoomInv' /\ BirthsStay /\ SettingsMoveUp
  <1>1. /\ room' \in Item /\ room'.variables = Current.variables
        /\ task[h].op \in Settings /\ task[h].seq \in 0..RoomMaxSeq
        /\ SettingWins(task[h].op, task[h].seq)
        /\ room'[task[h].op].seq = task[h].seq
        /\ \A s \in Settings \ {task[h].op} : room'[s] = Current[s]
    BY WriteSettingFacts
  <1>2. BirthsStay
    BY <1>1, UpsertKeepsBirths
  <1>3. SettingsMoveUp
    <2>1. CASE room = NoRoom
      BY <2>1 DEF SettingsMoveUp, CellOf
    <2>2. CASE room # NoRoom
      <3>1. room' # NoRoom /\ Current = room /\ room \in Item
        BY <1>1, <2>2, ItemFacts DEF Current, RoomInv, ItemInv
      <3>2. room[task[h].op] # Absent => room'[task[h].op].seq > room[task[h].op].seq
        <4> SUFFICES ASSUME room[task[h].op] # Absent
                     PROVE  room'[task[h].op].seq > room[task[h].op].seq
          OBVIOUS
        <4>1. room[task[h].op] \in Stamp
          BY <1>1, <3>1, ItemFacts DEF Settings
        <4>2. room[task[h].op].seq < task[h].seq
          BY <1>1, <3>1 DEF SettingWins
        <4> QED BY <1>1, <4>1, <4>2 DEF Stamp
      <3> QED BY <1>1, <2>2, <3>1, <3>2 DEF SettingsMoveUp, CellOf
    <2> QED BY <2>1, <2>2
  <1>4. TaskInv'
    BY <1>2, OneTaskStep DEF WriteSetting, Finish, RoomInv, BirthsStay
  <1> QED BY <1>2, <1>3, <1>4, WriteSettingKeepsItem DEF RoomInv

(* setVariable has read what there is.                                     *)
LEMMA ReadVariableKeeps ==
  ASSUME RoomInv, NEW h \in Invocations, ReadVariable(h)
  PROVE  RoomInv' /\ BirthsStay /\ SettingsMoveUp
  <1> DEFINE t == [task[h] EXCEPT !.step = "set", !.born = BirthOf(task[h].name)]
  <1>1. task[h] \in Task /\ BirthOf(task[h].name) \in Times
    BY DEF ReadVariable, At, RoomInv, TaskInv
  <1>2. t \in Task /\ t.name = task[h].name /\ t.born = BirthOf(task[h].name)
    BY <1>1 DEF Task
  <1>3. task' = [task EXCEPT ![h] = t] /\ UNCHANGED <<room, valid, upserted>>
    BY DEF ReadVariable
  <1>4. CreatedAt(t.name) # Absent => CreatedAt(t.name) = t.born
    BY <1>2 DEF BirthOf
  <1> HIDE DEF t
  <1>5. task' \in [Invocations -> Task \cup {NoTask}] /\ task'[h] = t
        /\ \A g \in Invocations \ {h} : task'[g] = task[g]
    BY <1>2, <1>3 DEF RoomInv, TaskInv
  <1>6. ASSUME NEW g \in Invocations, At(g, "set")', ~task'[g].raced,
               NEW n \in Names, n = task'[g].name, CreatedAt(n) # Absent
        PROVE  CreatedAt(n) = task'[g].born
    <2>1. CASE g = h
      BY <1>2, <1>4, <1>5, <1>6, <2>1
    <2>2. CASE g # h
      <3>1. At(g, "set") /\ task[g] = task'[g]
        BY <1>5, <1>6, <2>2 DEF At
      <3> QED BY <1>6, <3>1 DEF RoomInv, TaskInv, BornIsCurrent
    <2> QED BY <2>1, <2>2
  <1>7. \A n : CreatedAt(n)' = CreatedAt(n)
    BY <1>3 DEF CreatedAt, HasVariables
  <1>8. BornIsCurrent'
    BY <1>3, <1>5, <1>6, NamedTasks DEF BornIsCurrent, CreatedAt, HasVariables
  <1> QED BY <1>3, <1>5, <1>8, RoomKept, ItemKept DEF RoomInv, TaskInv

(* Who is overtaken knows it: the others go on as they were.               *)
LEMMA OvertakingKeeps ==
  ASSUME TaskInv, NEW h \in Invocations, NEW n \in Names, FinishOvertaking(h, n),
         \A m \in Names \ {n} : CreatedAt(m)' = CreatedAt(m)
  PROVE  TaskInv'
  <1>1. \A g \in Invocations :
          task[g] \in Task => [task[g] EXCEPT !.raced = TRUE] \in Task
                              /\ [task[g] EXCEPT !.raced = TRUE].raced = TRUE
    BY DEF Task
  <1>2. \A g \in Invocations : At(g, "set") => task[g] \in Task
    BY DEF At, TaskInv
  <1>3. \A g \in Invocations :
          task'[g] = IF g = h THEN NoTask
                     ELSE IF At(g, "set") /\ task[g].name = n
                            THEN [task[g] EXCEPT !.raced = TRUE] ELSE task[g]
    BY DEF FinishOvertaking
  <1>4. task' \in [Invocations -> Task \cup {NoTask}]
    <2>1. \A g \in Invocations : task'[g] \in Task \cup {NoTask}
      BY <1>1, <1>2, <1>3 DEF TaskInv
    <2> QED BY <2>1 DEF FinishOvertaking
  <1>5. ASSUME NEW g \in Invocations, At(g, "set")', ~task'[g].raced,
               NEW m \in Names, m = task'[g].name, CreatedAt(m)' # Absent
        PROVE  CreatedAt(m)' = task'[g].born
    <2>1. g # h
      BY <1>3, <1>5 DEF At
    <2>2. ~(At(g, "set") /\ task[g].name = n)
      BY <1>1, <1>2, <1>3, <1>5, <2>1
    <2>3. task'[g] = task[g] /\ At(g, "set")
      BY <1>3, <1>5, <2>1, <2>2 DEF At
    <2>4. CreatedAt(m)' = CreatedAt(m)
      BY <1>5, <2>2, <2>3
    <2> QED BY <1>5, <2>3, <2>4 DEF TaskInv, BornIsCurrent
  <1>6. BornIsCurrent'
    BY <1>4, <1>5, NamedTasks DEF BornIsCurrent, CreatedAt, HasVariables
  <1> QED BY <1>4, <1>6 DEF TaskInv

(* What CreatedAtKept says of a step.                                      *)
BirthsKept ==
  \A n \in Names :
    (CreatedAt(n) # Absent /\ CreatedAt(n)' # Absent /\ CreatedAt(n)' # CreatedAt(n))
      => \E h \in Invocations : At(h, "set") /\ task[h].name = n /\ task[h].raced

StepKeeps == RoomInv' /\ BirthsKept /\ SettingsMoveUp

LEMMA StayingIsKeeping ==
  ASSUME BirthsStay
  PROVE  BirthsKept
  BY DEF BirthsStay, BirthsKept

(* What an update of one variable leaves alone.                            *)
LEMMA OneVariable ==
  ASSUME ItemInv, HasVariables, NEW n \in Names, NEW t \in Times \cup {Absent},
         room' = [room EXCEPT !.variables[n] = t]
  PROVE  /\ CreatedAt(n)' = t
         /\ \A m \in Names \ {n} : CreatedAt(m)' = CreatedAt(m)
         /\ SettingsMoveUp
  <1>1. /\ room' \in Item /\ room'.variables = [room.variables EXCEPT ![n] = t]
        /\ room'.variables # Absent
        /\ room'.volume = room.volume /\ room'.preview = room.preview
    BY VariablesFacts
  <1>2. room' # NoRoom /\ HasVariables' /\ room # NoRoom
    BY <1>1, ItemFacts DEF HasVariables
  <1>3. room.variables \in Variables
    BY ItemFacts DEF HasVariables, ItemInv
  <1>4. \A m \in Names : room'.variables[m] = IF m = n THEN t ELSE room.variables[m]
    BY <1>1, <1>3 DEF Variables
  <1>5. Current = room
    BY <1>2 DEF Current
  <1> QED BY <1>1, <1>2, <1>4, <1>5, UpsertKeepsSettings DEF CreatedAt

(* The write goes where the read was, unless the reader was overtaken.     *)
LEMMA WriteVariableKeeps ==
  ASSUME RoomInv, NEW h \in Invocations, WriteVariable(h)
  PROVE  StepKeeps
  <1>1. task[h] \in Task /\ At(h, "set") /\ HasVariables
    BY DEF WriteVariable, At, RoomInv, TaskInv
  <1>2. PICK n \in Names, t \in Times \cup {Absent} : n = task[h].name /\ t = task[h].born
    BY <1>1 DEF Task
  <1>3. /\ room' = [room EXCEPT !.variables[n] = t] /\ FinishOvertaking(h, n)
        /\ UNCHANGED <<valid, upserted>>
    BY <1>2 DEF WriteVariable
  <1>4. /\ CreatedAt(n)' = t /\ SettingsMoveUp
        /\ \A m \in Names \ {n} : CreatedAt(m)' = CreatedAt(m)
    BY <1>1, <1>3, OneVariable DEF RoomInv
  <1>5. ASSUME CreatedAt(n) # Absent, CreatedAt(n)' # CreatedAt(n)
        PROVE  task[h].raced
    <2>1. task[h].raced \in BOOLEAN
      BY <1>1 DEF Task
    <2>2. ~task[h].raced => CreatedAt(n) = t
      BY <1>1, <1>2, <1>5 DEF RoomInv, TaskInv, BornIsCurrent
    <2> QED BY <1>4, <1>5, <2>1, <2>2
  <1>6. BirthsKept
    BY <1>1, <1>2, <1>4, <1>5 DEF BirthsKept
  <1>7. RoomInv'
    BY <1>1, <1>3, <1>4, OvertakingKeeps, VariablesKeepItem DEF RoomInv
  <1> QED BY <1>4, <1>6, <1>7 DEF StepKeeps

(* A removal leaves no createdAt to differ.                                *)
LEMMA RemoveVariableKeeps ==
  ASSUME RoomInv, NEW h \in Invocations, RemoveVariable(h)
  PROVE  StepKeeps
  <1>1. task[h] \in Task /\ HasVariables
    BY DEF RemoveVariable, At, RoomInv, TaskInv
  <1>2. PICK n \in Names : n = task[h].name
    BY <1>1 DEF Task
  <1>3. /\ room' = [room EXCEPT !.variables[n] = Absent] /\ FinishOvertaking(h, n)
        /\ UNCHANGED <<valid, upserted>>
    BY <1>2 DEF RemoveVariable
  <1>4. /\ CreatedAt(n)' = Absent /\ SettingsMoveUp
        /\ \A m \in Names \ {n} : CreatedAt(m)' = CreatedAt(m)
    BY <1>1, <1>3, OneVariable DEF RoomInv
  <1>5. BirthsKept
    BY <1>4 DEF BirthsKept
  <1>6. RoomInv'
    BY <1>1, <1>3, <1>4, OvertakingKeeps, VariablesKeepItem DEF RoomInv
  <1> QED BY <1>4, <1>5, <1>6 DEF StepKeeps

(* The key routes have no task and touch neither variables nor settings.   *)
LEMMA KeyKeeps ==
  ASSUME RoomInv, NEW fresh \in ObsKeys,
         GetOrCreateObsKey(fresh) \/ RegenerateObsKey(fresh)
  PROVE  StepKeeps
  <1>1. ItemInv'
    BY GetKeyKeepsItem, RegenerateKeepsItem DEF RoomInv
  <1>2. PICK k \in ObsKeys : room' = [Current EXCEPT !.obsKey = k]
    BY GetKeyKeepsItem DEF RoomInv, RegenerateObsKey
  <1>3. BirthsStay /\ SettingsMoveUp
    BY <1>2, KeyFacts, UpsertKeepsBirths, UpsertKeepsSettings DEF RoomInv
  <1>4. UNCHANGED task
    BY DEF GetOrCreateObsKey, RegenerateObsKey
  <1>5. TaskInv'
    <2>1. task' \in [Invocations -> Task \cup {NoTask}]
      BY <1>4 DEF RoomInv, TaskInv
    <2>2. ASSUME NEW g \in Invocations, At(g, "set")', ~task'[g].raced,
                 NEW m \in Names, m = task'[g].name, CreatedAt(m)' # Absent
          PROVE  CreatedAt(m)' = task'[g].born
      BY <1>3, <1>4, <2>2 DEF RoomInv, TaskInv, BornIsCurrent, BirthsStay, At
    <2>3. BornIsCurrent'
      BY <2>1, <2>2, NamedTasks DEF BornIsCurrent, CreatedAt, HasVariables
    <2> QED BY <2>1, <2>3 DEF TaskInv
  <1> QED BY <1>1, <1>3, <1>5, StayingIsKeeping DEF StepKeeps, RoomInv

(* The deletion overtakes everybody.                                       *)
LEMMA DeleteKeeps ==
  ASSUME RoomInv, DeleteRoomRow
  PROVE  StepKeeps
  <1>1. room' = NoRoom
    BY DEF DeleteRoomRow
  <1>2. (\A n \in Names : CreatedAt(n)' = Absent) /\ \A s \in Settings : CellOf(s)' = Absent
    BY <1>1 DEF CreatedAt, HasVariables, CellOf
  <1>3. \A g \in Invocations :
          task'[g] = IF At(g, "set") THEN [task[g] EXCEPT !.raced = TRUE] ELSE task[g]
    BY DEF DeleteRoomRow
  <1>4. task' \in [Invocations -> Task \cup {NoTask}]
    <2>1. \A g \in Invocations : At(g, "set") => [task[g] EXCEPT !.raced = TRUE] \in Task
      BY DEF At, Task, RoomInv, TaskInv
    <2>2. \A g \in Invocations : task'[g] \in Task \cup {NoTask}
      BY <1>3, <2>1 DEF RoomInv, TaskInv
    <2> QED BY <2>2 DEF DeleteRoomRow
  <1>5. BornIsCurrent'
    BY <1>1 DEF BornIsCurrent, CreatedAt, HasVariables
  <1> QED BY <1>2, <1>4, <1>5, DeleteKeepsItem
          DEF StepKeeps, RoomInv, TaskInv, BirthsKept, SettingsMoveUp

(* The induction step, and what a step may do to variables and settings.   *)
THEOREM RoomNextInv == RoomInv /\ [RoomNext]_roomVars => StepKeeps
  <1> SUFFICES ASSUME RoomInv, [RoomNext]_roomVars PROVE StepKeeps
    OBVIOUS
  <1>1. ASSUME NEW h \in Invocations, NEW op \in Ops, NEW s \in 1..RoomMaxSeq,
               NEW v \in Values, NEW n \in Names, ReceiveMessage(h, op, s, v, n)
        PROVE  StepKeeps
    BY <1>1, ReceiveKeeps, StayingIsKeeping DEF StepKeeps
  <1>2. ASSUME NEW h \in Invocations, CreateRoom(h)
        PROVE  StepKeeps
    BY <1>2, CreateRoomKeeps, StayingIsKeeping DEF StepKeeps
  <1>3. ASSUME NEW h \in Invocations, WriteSetting(h)
        PROVE  StepKeeps
    BY <1>3, WriteSettingKeeps, StayingIsKeeping DEF StepKeeps
  <1>4. ASSUME NEW h \in Invocations, ReadVariable(h)
        PROVE  StepKeeps
    BY <1>4, ReadVariableKeeps, StayingIsKeeping DEF StepKeeps
  <1>5. ASSUME NEW h \in Invocations,
               DropStaleSetting(h) \/ FailVariable(h) \/ AnswerOther(h) \/ AbortMessage(h)
        PROVE  StepKeeps
    <2>1. Finish(h) /\ UNCHANGED <<room, valid, upserted>>
      BY <1>5 DEF DropStaleSetting, FailVariable, AnswerOther, AbortMessage
    <2> QED BY <2>1, FinishKeeps, StayingIsKeeping DEF StepKeeps
  <1>6. CASE UNCHANGED roomVars
    <2>1. UNCHANGED <<room, valid, upserted, task>>
      BY <1>6 DEF roomVars
    <2>2. BirthsStay /\ SettingsMoveUp
      BY <2>1, RoomKept
    <2>3. TaskInv'
      BY <2>1 DEF RoomInv, TaskInv, BornIsCurrent, At, CreatedAt, HasVariables
    <2> QED BY <2>1, <2>2, <2>3, ItemKept, StayingIsKeeping DEF StepKeeps, RoomInv
  <1> QED BY <1>1, <1>2, <1>3, <1>4, <1>5, <1>6, WriteVariableKeeps, RemoveVariableKeeps,
             KeyKeeps, DeleteKeeps DEF RoomNext

(* store.ts:341-360: an item that a key was put in first is used as it is, *)
(* and a URL that was handed out works until it is rotated, whoever else   *)
(* creates the room, asks for a key or writes a setting meanwhile.         *)
THEOREM KeyedItemStays == RoomSpec => []KeyedItemIsKept
  <1>1. RoomInv => KeyedItemIsKept
    BY DEF RoomInv, ItemInv, KeyedItemIsKept
  <1>2. RoomInv /\ [RoomNext]_roomVars => RoomInv'
    BY RoomNextInv DEF StepKeeps
  <1> QED BY RoomInitInv, <1>1, <1>2, PTL DEF RoomSpec

(* roomState.ts:124-126: an edit keeps the createdAt it has read, and only *)
(* somebody who was overtaken between the read and the write changes it.   *)
THEOREM BirthsAreKept == RoomSpec => CreatedAtKept
  <1>1. RoomInv /\ [RoomNext]_roomVars => [BirthsKept]_roomVars
    BY RoomNextInv DEF StepKeeps
  <1>2. RoomInv /\ [RoomNext]_roomVars => RoomInv'
    BY RoomNextInv DEF StepKeeps
  <1>3. RoomSpec => [][BirthsKept]_roomVars
    BY RoomInitInv, <1>1, <1>2, PTL DEF RoomSpec
  <1> QED BY <1>3 DEF CreatedAtKept, BirthsKept

----------------------------------------------------------------------------
(* Well typed.                                                             *)

LEMMA RoomTypeStep ==
  ASSUME RoomInv, RoomTypeOK, [RoomNext]_roomVars
  PROVE  RoomTypeOK'
  <1>1. RoomInv'
    BY RoomNextInv DEF StepKeeps
  <1>2. room' \in Item \cup {NoRoom} /\ valid' \in SUBSET ObsKeys
        /\ task' \in [Invocations -> Task \cup {NoTask}]
    BY <1>1 DEF RoomInv, ItemInv, TaskInv
  <1>3. births' \in 0..MaxBirths
    <2>1. ASSUME NEW h \in Invocations, ReadVariable(h)
          PROVE  births' \in 0..MaxBirths
      BY <2>1, RoomBoundsAssumption DEF ReadVariable, RoomTypeOK, Times
    <2>2. (\A h \in Invocations : ~ReadVariable(h)) => births' = births
      BY DEF RoomNext, roomVars, ReceiveMessage, CreateRoom, WriteSetting, DropStaleSetting,
             WriteVariable, RemoveVariable, FailVariable, AnswerOther, AbortMessage,
             GetOrCreateObsKey, RegenerateObsKey, DeleteRoomRow
    <2> QED BY <2>1, <2>2 DEF RoomTypeOK
  <1>4. drawn' \in SUBSET ObsKeys /\ upserted' \in BOOLEAN
    BY DEF RoomTypeOK, RoomNext, roomVars, ReceiveMessage, CreateRoom, WriteSetting,
           DropStaleSetting, ReadVariable, WriteVariable, RemoveVariable, FailVariable,
           AnswerOther, AbortMessage, GetOrCreateObsKey, RegenerateObsKey, DeleteRoomRow
  <1> QED BY <1>2, <1>3, <1>4 DEF RoomTypeOK

LEMMA RoomInitTyped == RoomInit => RoomTypeOK
  <1>1. RoomInit => births \in 0..MaxBirths
    BY RoomBoundsAssumption DEF RoomInit
  <1>2. RoomInit => upserted \in BOOLEAN /\ drawn \in SUBSET ObsKeys
    BY DEF RoomInit
  <1> QED BY <1>1, <1>2, RoomInitInv DEF RoomTypeOK, RoomInv, ItemInv, TaskInv

(* The item and every invocation at work on it are well typed.             *)
THEOREM RoomStaysTyped == RoomSpec => []RoomTypeOK
  <1>1. RoomInit => RoomInv /\ RoomTypeOK
    BY RoomInitInv, RoomInitTyped
  <1>2. RoomInv /\ RoomTypeOK /\ [RoomNext]_roomVars => (RoomInv /\ RoomTypeOK)'
    BY RoomNextInv, RoomTypeStep DEF StepKeeps
  <1> QED BY <1>1, <1>2, PTL DEF RoomSpec

----------------------------------------------------------------------------
(* The settings are registers.                                             *)

(* A step that moves a cell up is a step of the register that holds it.    *)
LEMMA SettingStepRefines ==
  ASSUME SettingsMoveUp
  PROVE  /\ [Volume!Next]_([s \in {"volume"} |-> CellOf(s)])
         /\ [Preview!Next]_([s \in {"preview"} |-> CellOf(s)])
  <1>1. CellOf("volume")' = CellOf("volume") \/ Volume!Next
    <2>1. CASE CellOf("volume") = Absent /\ CellOf("volume")' # Absent
      BY <2>1 DEF Volume!Next, Volume!Fill
    <2>2. CASE CellOf("volume") # Absent /\ CellOf("volume")' = Absent
      BY <2>2 DEF Volume!Next, Volume!Clear
    <2>3. CASE CellOf("volume") # Absent /\ CellOf("volume")' # Absent
      BY <2>3 DEF SettingsMoveUp, Settings, Volume!Next, Volume!Advance
    <2> QED BY <2>1, <2>2, <2>3
  <1>2. CellOf("preview")' = CellOf("preview") \/ Preview!Next
    <2>1. CASE CellOf("preview") = Absent /\ CellOf("preview")' # Absent
      BY <2>1 DEF Preview!Next, Preview!Fill
    <2>2. CASE CellOf("preview") # Absent /\ CellOf("preview")' = Absent
      BY <2>2 DEF Preview!Next, Preview!Clear
    <2>3. CASE CellOf("preview") # Absent /\ CellOf("preview")' # Absent
      BY <2>3 DEF SettingsMoveUp, Settings, Preview!Next, Preview!Advance
    <2> QED BY <2>1, <2>2, <2>3
  <1> QED BY <1>1, <1>2

(* roomState.ts:32-36: whatever order the ticks of a slider are processed  *)
(* in and whoever makes the item, volume and preview are registers.        *)
THEOREM SettingsRefineRegister == RoomSpec => SettingsAreRegisters
  <1>1. RoomInit => Volume!Init /\ Preview!Init
    BY DEF RoomInit, Volume!Init, Preview!Init, CellOf
  <1>2. RoomInv /\ [RoomNext]_roomVars
          => /\ RoomInv'
             /\ [Volume!Next]_([s \in {"volume"} |-> CellOf(s)])
             /\ [Preview!Next]_([s \in {"preview"} |-> CellOf(s)])
    BY RoomNextInv, SettingStepRefines DEF StepKeeps
  <1> QED
    BY <1>1, <1>2, RoomInitInv, PTL
    DEF RoomSpec, SettingsAreRegisters, Volume!Spec, Preview!Spec
=============================================================================
