----------------------------- MODULE AssetStore -----------------------------
(***************************************************************************)
(* The rows of the assets table and the Lambda invocations that change     *)
(* them (services/websocket-handlers/src/message.ts and roomState.ts).     *)
(* Each WebSocket message runs in an invocation of its own.  A move, a     *)
(* resize or an update READS the row, computes the visible flag from what  *)
(* it read, and only then WRITES under the condition on seq, so the steps  *)
(* of concurrent invocations interleave freely.                            *)
(*                                                                         *)
(* Data are abstracted to what the properties tell apart: one axis of the  *)
(* geometry (the other is treated alike), the hidden override, the visible *)
(* flag, the seq, and whether the row has the attributes that only         *)
(* asset:add writes (type, s3Key, ...: here "type").                       *)
(***************************************************************************)
EXTENDS Integers

CONSTANTS
  Assets,      \* asset ids, fresh UUIDs chosen by the clients
  Handlers,    \* concurrent Lambda invocations
  Positions,   \* x coordinates a client may send
  Widths,      \* widths a client may send
  Hiddens,     \* hidden flags a client may send
  ViewX,       \* the room's viewport: left edge
  ViewWidth,   \* and width
  MaxSeq,      \* bound on the seq a client stamps
  NoRow,       \* the row does not exist
  Missing,     \* the attribute is absent (undefined once read)
  Idle         \* an invocation that is not running

ASSUME GeometryAssumption ==
  /\ Positions \subseteq Int
  /\ Widths \subseteq Nat
  /\ Hiddens \subseteq BOOLEAN
  /\ ViewX \in Int
  /\ ViewWidth \in Nat

ASSUME MaxSeqAssumption == MaxSeq \in Nat

VARIABLES
  row,       \* row[a]: the item of the assets table, or NoRow
  job,       \* job[h]: what invocation h is doing, or Idle
  added,     \* history: ids whose asset:add has been handled
  deleted,   \* history: ids whose existing row has been deleted
  accepted   \* history: accepted[a], the seqs written since a's row exists

vars == <<row, job, added, deleted, accepted>>

----------------------------------------------------------------------------
(* Types.                                                                  *)

Seqs == 1..MaxSeq

OrMissing(S) == S \cup {Missing}

(* The attributes a client's message may carry; Missing: not carried.      *)
Patch == [x : OrMissing(Positions), width : OrMissing(Widths),
          hidden : OrMissing(BOOLEAN)]

Row == [type : OrMissing({"asset"}), x : OrMissing(Positions),
        width : OrMissing(Widths), hidden : OrMissing(BOOLEAN),
        visible : BOOLEAN, seq : 0..MaxSeq]

(* What an invocation has still to do to the table, and whether it has     *)
(* done it (then the broadcast is left).                                   *)
Job == [op : {"put", "write", "delete"}, done : BOOLEAN,
        asset : Assets, patch : Patch, visible : BOOLEAN, seq : 0..MaxSeq]

ASSUME SentinelAssumption ==
  /\ Missing \notin Positions \cup Widths
  /\ Missing \notin BOOLEAN
  /\ Missing # "asset"
  /\ NoRow \notin Row
  /\ Idle \notin Job

TypeOK ==
  /\ row \in [Assets -> Row \cup {NoRow}]
  /\ job \in [Handlers -> Job \cup {Idle}]
  /\ added \in SUBSET Assets
  /\ deleted \in SUBSET Assets
  /\ accepted \in [Assets -> SUBSET (0..MaxSeq)]

----------------------------------------------------------------------------
(* Operators on the data.                                                  *)

(* JavaScript's v ?? d.                                                    *)
Else(v, d) == IF v # Missing THEN v ELSE d

(* intersects(): an overlap of positive length; a comparison with an       *)
(* undefined coordinate is false.                                          *)
Intersects(x, width) ==
  /\ x # Missing
  /\ width # Missing
  /\ x < ViewX + ViewWidth
  /\ x + width > ViewX

(* intersects(...) && !hidden, where an absent hidden counts as false.     *)
Visible(x, width, hidden) == Intersects(x, width) /\ hidden # TRUE

Carry(x, width, hidden) == [x |-> x, width |-> width, hidden |-> hidden]

(* UpdateItem on a row that does not exist starts from an empty item.      *)
Blank == [type |-> Missing, x |-> Missing, width |-> Missing,
          hidden |-> Missing, visible |-> FALSE, seq |-> 0]

(* Mutant of NewRow: the visible flag is left to the first update.         *)
NewRowUnflagged(j) ==
  [type |-> "asset", x |-> j.patch.x, width |-> j.patch.width,
   hidden |-> j.patch.hidden, seq |-> 0]

(* The item asset:add builds, stored and broadcast alike.                  *)
NewRow(j) ==
  [type |-> "asset", x |-> j.patch.x, width |-> j.patch.width,
   hidden |-> j.patch.hidden, visible |-> j.visible, seq |-> 0]

(* Mutant of Merge: a write puts a whole item.                             *)
MergeWhole(old, patch, visible, seq) ==
  [old EXCEPT !.type = "asset", !.x = Else(patch.x, @),
              !.width = Else(patch.width, @), !.hidden = Else(patch.hidden, @),
              !.visible = visible, !.seq = seq]

Merge(old, patch, visible, seq) ==
  [old EXCEPT !.x = Else(patch.x, @), !.width = Else(patch.width, @),
              !.hidden = Else(patch.hidden, @),
              !.visible = visible, !.seq = seq]

----------------------------------------------------------------------------
Init ==
  /\ row = [a \in Assets |-> NoRow]
  /\ job = [h \in Handlers |-> Idle]
  /\ added = {}
  /\ deleted = {}
  /\ accepted = [a \in Assets |-> {}]

Start(h, op, a, patch, visible, seq) ==
  /\ job[h] = Idle
  /\ job' = [job EXCEPT ![h] =
                [op |-> op, done |-> FALSE, asset |-> a, patch |-> patch,
                 visible |-> visible, seq |-> seq]]

Pending(h, op) == job[h] # Idle /\ job[h].op = op /\ ~job[h].done

MarkDone(h) == job' = [job EXCEPT ![h].done = TRUE]

Stop(h) == job' = [job EXCEPT ![h] = Idle]

(* asset:add.  The id is a UUID the client has just drawn, so it is added  *)
(* at most once.  hidden ?? false; a HeadObject is awaited before the Put. *)
BeginAdd(h, a, x, width, hidden) ==
  /\ a \notin added
  /\ added' = added \cup {a}
  /\ Start(h, "put", a, Carry(x, width, Else(hidden, FALSE)),
           Visible(x, width, hidden), 0)
  /\ UNCHANGED <<row, deleted, accepted>>

PutRow(h) ==
  /\ Pending(h, "put")
  /\ LET j == job[h] IN
       /\ row' = [row EXCEPT ![j.asset] = NewRow(j)]
       /\ accepted' = [accepted EXCEPT ![j.asset] = {0}]
  /\ MarkDone(h)
  /\ UNCHANGED <<added, deleted>>

(* The read half of a move: an unknown asset is an error reply and nothing *)
(* else, so only an existing row starts a job.                             *)
ReadMove(h, a, x, seq) ==
  /\ row[a] # NoRow
  /\ Start(h, "write", a, Carry(x, Missing, Missing),
           Visible(x, row[a].width, row[a].hidden), seq)
  /\ UNCHANGED <<row, added, deleted, accepted>>

ReadResize(h, a, x, width, seq) ==
  /\ row[a] # NoRow
  /\ Start(h, "write", a, Carry(x, width, Missing),
           Visible(x, width, row[a].hidden), seq)
  /\ UNCHANGED <<row, added, deleted, accepted>>

(* Mutant of ReadUpdate: the flag is that of the width before.             *)
ReadUpdateOldWidth(h, a, width, hidden, seq) ==
  /\ row[a] # NoRow
  /\ Start(h, "write", a, Carry(Missing, width, hidden),
           Visible(row[a].x, row[a].width, Else(hidden, row[a].hidden)), seq)
  /\ UNCHANGED <<row, added, deleted, accepted>>

(* The generic patch: hidden and an auto-fitted width, each optional.      *)
ReadUpdate(h, a, width, hidden, seq) ==
  /\ row[a] # NoRow
  /\ Start(h, "write", a, Carry(Missing, width, hidden),
           Visible(row[a].x, Else(width, row[a].width),
                   Else(hidden, row[a].hidden)), seq)
  /\ UNCHANGED <<row, added, deleted, accepted>>

(* Mutants of WriteWins: no condition; a condition that ties pass.         *)
WriteWinsAlways(a, seq) == TRUE
WriteWinsTies(a, seq) == row[a] # NoRow => row[a].seq <= seq

(* ConditionExpression: attribute_not_exists(seq) OR seq < :seq.  Every    *)
(* row has a seq, so the first disjunct means there is no row.             *)
WriteWins(a, seq) == row[a] # NoRow => row[a].seq < seq

(* The write half of a move, resize or update that is not stale.           *)
WriteRow(h) ==
  /\ Pending(h, "write")
  /\ LET j == job[h]
         old == IF row[j.asset] = NoRow THEN Blank ELSE row[j.asset]
     IN /\ WriteWins(j.asset, j.seq)
        /\ row' = [row EXCEPT ![j.asset] =
                     Merge(old, j.patch, j.visible, j.seq)]
        /\ accepted' = [accepted EXCEPT ![j.asset] = @ \cup {j.seq}]
  /\ MarkDone(h)
  /\ UNCHANGED <<added, deleted>>

(* Mutant of DropStale: the broadcast is made all the same.                *)
DropStaleAnnounced(h) ==
  /\ Pending(h, "write")
  /\ ~WriteWins(job[h].asset, job[h].seq)
  /\ MarkDone(h)
  /\ UNCHANGED <<row, added, deleted, accepted>>

(* "stale": dropped without a reply.                                       *)
DropStale(h) ==
  /\ Pending(h, "write")
  /\ ~WriteWins(job[h].asset, job[h].seq)
  /\ Stop(h)
  /\ UNCHANGED <<row, added, deleted, accepted>>

(* asset:delete first reads the row (for its s3Key), then deletes it.      *)
BeginDelete(h, a) ==
  /\ Start(h, "delete", a, Carry(Missing, Missing, Missing), FALSE, 0)
  /\ UNCHANGED <<row, added, deleted, accepted>>

DeleteRow(h) ==
  /\ Pending(h, "delete")
  /\ LET a == job[h].asset IN
       /\ row' = [row EXCEPT ![a] = NoRow]
       /\ deleted' = IF row[a] = NoRow THEN deleted ELSE deleted \cup {a}
       /\ accepted' = [accepted EXCEPT ![a] = {}]
  /\ MarkDone(h)
  /\ UNCHANGED added

(* broadcastToRoom: the clients' side is module OverlaySync.                *)
Announce(h) ==
  /\ job[h] # Idle /\ job[h].done
  /\ Stop(h)
  /\ UNCHANGED <<row, added, deleted, accepted>>

(* A call to a store or to the API throws (or the invocation times out):   *)
(* the catch block replies with an error and undoes nothing.               *)
Abort(h) ==
  /\ job[h] # Idle
  /\ Stop(h)
  /\ UNCHANGED <<row, added, deleted, accepted>>

Receive(h) ==
  \E a \in Assets :
    \/ \E x \in Positions, w \in Widths, hid \in OrMissing(Hiddens) :
         BeginAdd(h, a, x, w, hid)
    \/ \E x \in Positions, s \in Seqs : ReadMove(h, a, x, s)
    \/ \E x \in Positions, w \in Widths, s \in Seqs : ReadResize(h, a, x, w, s)
    \/ \E w \in OrMissing(Widths), hid \in OrMissing(Hiddens), s \in Seqs :
         ReadUpdate(h, a, w, hid, s)
    \/ BeginDelete(h, a)

Proceed(h) ==
  \/ PutRow(h) \/ WriteRow(h) \/ DropStale(h) \/ DeleteRow(h)
  \/ Announce(h) \/ Abort(h)

Next == \E h \in Handlers : Receive(h) \/ Proceed(h)

Spec == Init /\ [][Next]_vars

----------------------------------------------------------------------------
(* Properties.                                                             *)

(* roomState.ts:194-198 and protocol/asset.ts:39-47: however late and in   *)
(* whatever order invocations run, a row that exists changes only together *)
(* with a strictly larger seq; the rows implement the abstract register.   *)
Register == INSTANCE SeqRegister WITH Keys <- Assets, Empty <- NoRow, reg <- row
RowsAreSeqRegisters == Register!Spec

(* While a row exists no two accepted writes carry the same seq, even when *)
(* two clients stamp the same millisecond: receivers compare seqs with >=  *)
(* and rely on it.                                                         *)
FreshWrite(h) ==
  (Pending(h, "write") /\ job'[h] # Idle /\ job'[h].done)
     => job[h].seq \notin accepted[job[h].asset]

NoSeqReuse == [][\A h \in Handlers : FreshWrite(h)]_vars

(* The row carries the newest of the seqs accepted since it exists.        *)
SeqIsNewest ==
  \A a \in Assets :
    /\ row[a] = NoRow => accepted[a] = {}
    /\ row[a] # NoRow => /\ row[a].seq \in accepted[a]
                         /\ \A s \in accepted[a] : s <= row[a].seq

(* A row written by asset:add is whole.  The only rows that are not are    *)
(* remnants: a move, resize or update that had read the row before it was  *)
(* deleted re-creates it from its own SET clause, without the attributes   *)
(* asset:add writes.  Nothing else produces one, and a deleted asset never *)
(* comes back whole.                                                       *)
RemnantIffDeleted ==
  \A a \in Assets :
    row[a] # NoRow => (row[a].type = Missing <=> a \in deleted)

(* message.ts:251-252: after asset:delete "the asset is already gone from  *)
(* the room either way".                                                   *)
DeletedStaysGone == \A a \in deleted : row[a] = NoRow
============================================================================
