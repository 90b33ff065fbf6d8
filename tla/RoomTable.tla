----------------------------- MODULE RoomTable -----------------------------
(***************************************************************************)
(* One room's item of the rooms table and the invocations that touch it:   *)
(* the WebSocket handler (message.ts over roomState.ts), which creates the *)
(* item on first use, writes the two seq-guarded settings and the          *)
(* variables, and the accounts routes (store.ts), which write the key of   *)
(* the browser-source URL and delete the item with its owner's account.    *)
(* No two functions agree on what a new item consists of, and none of them *)
(* runs alone.                                                             *)
(*                                                                         *)
(* Abstracted: the viewport is there or not, of a variable only createdAt  *)
(* is kept, and the broadcasts are in SettingsPanels and VariablePanels.   *)
(***************************************************************************)
EXTENDS Naturals

CONSTANTS
  Invocations,   \* concurrent invocations of the WebSocket handler
  Names,         \* variable keys
  ObsKeys,       \* random keys of the browser-source URL
  Values,        \* values of a setting
  Default,       \* the value a new room starts with
  RoomMaxSeq,    \* bound on the seq a client stamps
  MaxBirths,     \* bound on the timestamps given to variables
  NoRoom,        \* the item does not exist
  Absent,        \* the attribute, or the variable, does not exist
  NoTask         \* an invocation that is not running

ASSUME RoomBoundsAssumption == RoomMaxSeq \in Nat /\ MaxBirths \in Nat

ASSUME DefaultAssumption == Default \in Values

VARIABLES
  room,        \* the item, or NoRoom
  task,        \* task[h]: what invocation h is doing, or NoTask
  births,      \* the timestamps given so far
  drawn,       \* the keys drawn so far
  valid,       \* history: the keys handed out and neither rotated nor deleted
  upserted     \* history: the item came from an UpdateItem, not from the Put

roomVars == <<room, task, births, drawn, valid, upserted>>

----------------------------------------------------------------------------
Settings == {"volume", "preview"}

Stamp == [seq : 0..RoomMaxSeq, value : Values]

Times == 1..MaxBirths

Variables == [Names -> Times \cup {Absent}]

Item == [viewport : BOOLEAN, volume : Stamp \cup {Absent},
         preview : Stamp \cup {Absent}, variables : Variables \cup {Absent},
         obsKey : ObsKeys \cup {Absent}]

(* "other" stands for the messages that need the room and do not write it. *)
Ops == Settings \cup {"setVariable", "deleteVariable", "other"}

Task == [op : Ops, step : {"create", "act", "set"}, seq : 0..RoomMaxSeq,
         value : Values, name : Names, born : Times \cup {Absent},
         raced : BOOLEAN]

ASSUME RoomSentinelAssumption ==
  /\ Absent \notin Stamp /\ Absent \notin Times
  /\ Absent \notin Variables /\ Absent \notin ObsKeys
  /\ NoRoom \notin Item /\ NoTask \notin Task

RoomTypeOK ==
  /\ room \in Item \cup {NoRoom}
  /\ task \in [Invocations -> Task \cup {NoTask}]
  /\ births \in 0..MaxBirths
  /\ drawn \in SUBSET ObsKeys
  /\ valid \in SUBSET ObsKeys
  /\ upserted \in BOOLEAN

----------------------------------------------------------------------------
(* Mutant of NewRoom: the settings start without a seq.                    *)
NewRoomBareSeq ==
  [viewport |-> TRUE, volume |-> [value |-> Default], preview |-> [value |-> Default],
   variables |-> [n \in Names |-> Absent], obsKey |-> Absent]

(* What the Put of getOrCreateRoom stores.                                 *)
NewRoom ==
  [viewport |-> TRUE, volume |-> [seq |-> 0, value |-> Default],
   preview |-> [seq |-> 0, value |-> Default],
   variables |-> [n \in Names |-> Absent], obsKey |-> Absent]

(* What an UpdateItem on a missing item starts from.                       *)
EmptyItem ==
  [viewport |-> FALSE, volume |-> Absent, preview |-> Absent,
   variables |-> Absent, obsKey |-> Absent]

(* The item an UpdateItem works on.                                        *)
Current == IF room = NoRoom THEN EmptyItem ELSE room

(* The path variables.#key exists up to its last step.                     *)
HasVariables == room # NoRoom /\ room.variables # Absent

CreatedAt(n) == IF HasVariables THEN room.variables[n] ELSE Absent

RoomInit ==
  /\ room = NoRoom
  /\ task = [h \in Invocations |-> NoTask]
  /\ births = 0
  /\ drawn = {}
  /\ valid = {}
  /\ upserted = FALSE

At(h, step) == task[h] # NoTask /\ task[h].step = step

Finish(h) == task' = [task EXCEPT ![h] = NoTask]

(* Bookkeeping: h finishes, and whoever has read the entry of n and not    *)
(* written yet is overtaken.                                               *)
FinishOvertaking(h, n) ==
  task' = [g \in Invocations |->
             IF g = h THEN NoTask
             ELSE IF At(g, "set") /\ task[g].name = n
                    THEN [task[g] EXCEPT !.raced = TRUE] ELSE task[g]]

(* A message arrives; getOrCreateRoom reads the item.                      *)
ReceiveMessage(h, op, seq, value, n) ==
  /\ task[h] = NoTask
  /\ task' = [task EXCEPT ![h] =
       [op |-> op, step |-> IF room = NoRoom THEN "create" ELSE "act",
        seq |-> seq, value |-> value, name |-> n, born |-> Absent,
        raced |-> FALSE]]
  /\ UNCHANGED <<room, births, drawn, valid, upserted>>

(* Mutant of CreateRoom: an unconditional Put.                             *)
CreateRoomAnyway(h) ==
  /\ At(h, "create")
  /\ room' = NewRoom
  /\ task' = [task EXCEPT ![h].step = "act"]
  /\ UNCHANGED <<births, drawn, valid, upserted>>

(* The Put is conditional; who loses the race goes on with the defaults.   *)
CreateRoom(h) ==
  /\ At(h, "create")
  /\ room' = IF room = NoRoom THEN NewRoom ELSE room
  /\ task' = [task EXCEPT ![h].step = "act"]
  /\ UNCHANGED <<births, drawn, valid, upserted>>

(* Mutant of SettingWins: the condition is forgotten.                      *)
SettingWinsAlways(s, seq) == TRUE

(* attribute_not_exists(...Seq) OR ...Seq < :seq.                          *)
SettingWins(s, seq) == Current[s] # Absent => Current[s].seq < seq

(* setGlobalVolume and setStreamPreviewSettings: one UpdateItem each.      *)
WriteSetting(h) ==
  /\ At(h, "act")
  /\ task[h].op \in Settings
  /\ SettingWins(task[h].op, task[h].seq)
  /\ LET new == [seq |-> task[h].seq, value |-> task[h].value] IN
       room' = [Current EXCEPT
                  !.volume = IF task[h].op = "volume" THEN new ELSE @,
                  !.preview = IF task[h].op = "preview" THEN new ELSE @]
  /\ upserted' = (upserted \/ room = NoRoom)
  /\ Finish(h)
  /\ UNCHANGED <<births, drawn, valid>>

DropStaleSetting(h) ==
  /\ At(h, "act")
  /\ task[h].op \in Settings
  /\ ~SettingWins(task[h].op, task[h].seq)
  /\ Finish(h)
  /\ UNCHANGED <<room, births, drawn, valid, upserted>>

(* Mutant of BirthOf: an edit gives a new createdAt.                       *)
BirthOfAnew(n) == births + 1

(* existing?.createdAt ?? now.                                             *)
BirthOf(n) == IF CreatedAt(n) # Absent THEN CreatedAt(n) ELSE births + 1

(* setVariable reads the entry to keep its createdAt ...                   *)
ReadVariable(h) ==
  /\ At(h, "act")
  /\ task[h].op = "setVariable"
  /\ BirthOf(task[h].name) \in Times
  /\ births' = IF BirthOf(task[h].name) > births THEN BirthOf(task[h].name)
                                                 ELSE births
  /\ task' = [task EXCEPT ![h].step = "set", ![h].born = BirthOf(task[h].name)]
  /\ UNCHANGED <<room, drawn, valid, upserted>>

(* ... and then writes it, whatever it has become.                         *)
WriteVariable(h) ==
  /\ At(h, "set")
  /\ HasVariables
  /\ room' = [room EXCEPT !.variables[task[h].name] = task[h].born]
  /\ FinishOvertaking(h, task[h].name)
  /\ UNCHANGED <<births, drawn, valid, upserted>>

RemoveVariable(h) ==
  /\ At(h, "act")
  /\ task[h].op = "deleteVariable"
  /\ HasVariables
  /\ room' = [room EXCEPT !.variables[task[h].name] = Absent]
  /\ FinishOvertaking(h, task[h].name)
  /\ UNCHANGED <<births, drawn, valid, upserted>>

(* The document path is invalid: the update throws, an error is replied.   *)
FailVariable(h) ==
  /\ At(h, "set") \/ (At(h, "act") /\ task[h].op = "deleteVariable")
  /\ ~HasVariables
  /\ Finish(h)
  /\ UNCHANGED <<room, births, drawn, valid, upserted>>

(* A snapshot, an asset message, a preview message of a mod.               *)
AnswerOther(h) ==
  /\ At(h, "act")
  /\ task[h].op = "other"
  /\ Finish(h)
  /\ UNCHANGED <<room, births, drawn, valid, upserted>>

(* Any call throws, or the invocation times out.                           *)
AbortMessage(h) ==
  /\ task[h] # NoTask
  /\ Finish(h)
  /\ UNCHANGED <<room, births, drawn, valid, upserted>>

----------------------------------------------------------------------------
(* The accounts routes.                                                    *)

(* Mutant of KeyAfter: if_not_exists is forgotten.                         *)
KeyAfterAlways(fresh) == fresh

(* if_not_exists(obsKey, :new).                                            *)
KeyAfter(fresh) == IF Current.obsKey # Absent THEN Current.obsKey ELSE fresh

(* The owner asks for the browser-source URL.                              *)
GetOrCreateObsKey(fresh) ==
  /\ fresh \notin drawn
  /\ drawn' = drawn \cup {fresh}
  /\ room' = [Current EXCEPT !.obsKey = KeyAfter(fresh)]
  /\ valid' = valid \cup {KeyAfter(fresh)}
  /\ upserted' = (upserted \/ room = NoRoom)
  /\ UNCHANGED <<task, births>>

(* GET /rooms/resolve: the row whose obsKey is k.                          *)
Resolves(k) == room # NoRoom /\ room.obsKey = k

(* The owner rotates it.                                                   *)
RegenerateObsKey(fresh) ==
  /\ fresh \notin drawn
  /\ drawn' = drawn \cup {fresh}
  /\ room' = [Current EXCEPT !.obsKey = fresh]
  /\ valid' = {fresh}
  /\ upserted' = (upserted \/ room = NoRoom)
  /\ UNCHANGED <<task, births>>

(* The item goes with its owner's account (module AccountDeletion).        *)
DeleteRoomRow ==
  /\ room # NoRoom
  /\ room' = NoRoom
  /\ task' = [h \in Invocations |->
                IF At(h, "set") THEN [task[h] EXCEPT !.raced = TRUE] ELSE task[h]]
  /\ valid' = {}
  /\ upserted' = FALSE
  /\ UNCHANGED <<births, drawn>>

----------------------------------------------------------------------------
RoomNext ==
  \/ \E h \in Invocations :
       \/ \E op \in Ops, s \in 1..RoomMaxSeq, v \in Values, n \in Names :
            ReceiveMessage(h, op, s, v, n)
       \/ CreateRoom(h) \/ WriteSetting(h) \/ DropStaleSetting(h)
       \/ ReadVariable(h) \/ WriteVariable(h) \/ RemoveVariable(h)
       \/ FailVariable(h) \/ AnswerOther(h) \/ AbortMessage(h)
  \/ \E k \in ObsKeys : GetOrCreateObsKey(k) \/ RegenerateObsKey(k)
  \/ DeleteRoomRow

RoomSpec == RoomInit /\ [][RoomNext]_roomVars

----------------------------------------------------------------------------
(* Properties.                                                             *)

(* roomState.ts:32-36: whatever order the ticks of a slider are processed  *)
(* in, and whoever creates the item, each setting only moves to a larger   *)
(* seq while the item exists.                                              *)
CellOf(s) == IF room = NoRoom THEN Absent ELSE room[s]

Volume == INSTANCE SeqRegister
            WITH Keys <- {"volume"}, Empty <- Absent, reg <- [s \in {"volume"} |-> CellOf(s)]
Preview == INSTANCE SeqRegister
            WITH Keys <- {"preview"}, Empty <- Absent, reg <- [s \in {"preview"} |-> CellOf(s)]

SettingsAreRegisters == Volume!Spec /\ Preview!Spec

(* The item lacks its viewport, and variables can never be set in it, when *)
(* and only when an UpdateItem (the key, or a setting after a deletion)    *)
(* made it before the Put of getOrCreateRoom, which then gives way to it   *)
(* (roomState.ts:77-79: "fine, it exists now").                            *)
BareIffUpserted ==
  room # NoRoom => /\ (~room.viewport <=> upserted)
                   /\ (room.variables = Absent <=> upserted)

(* roomState.ts:124-126: createdAt is preserved across edits, unless the   *)
(* entry was created, replaced or deleted between the read and the write.  *)
CreatedAtKept ==
  [][\A n \in Names :
       (CreatedAt(n) # Absent /\ CreatedAt(n)' # Absent /\ CreatedAt(n)' # CreatedAt(n))
          => \E h \in Invocations : At(h, "set") /\ task[h].name = n /\ task[h].raced
    ]_roomVars

(* store.ts:341-343: a URL that was handed out works until it is rotated,  *)
(* whoever else asks for one, creates the room or writes to it meanwhile.  *)
HandedOutKeyWorks == \A k \in valid : Resolves(k)

(* store.ts:341-360: the item that a key was put in first is used as it is *)
(* by everybody after, and the key goes on working in it.                  *)
KeyedItemIsKept == BareIffUpserted /\ HandedOutKeyWorks
============================================================================
