--------------------------- MODULE CanvasSyncProofs ---------------------------
(***************************************************************************)
(* What editors change, for every value of the constants.                  *)
(*                                                                         *)
(* CanvasSync: its types, that nothing from the room takes a canvas back,  *)
(* and that an entry ahead of its row is one whose edit is on its way.  It *)
(* rests on the invariant of the table, AssetStoreProofs.                  *)
(*                                                                         *)
(* TextEditing: the last text typed and the last style picked are lost     *)
(* only by the accidents that the module names.                            *)
(***************************************************************************)
EXTENDS MCEditors, AssetStoreProofs

----------------------------------------------------------------------------
(* Asset a has been put: its row exists, or has been deleted.              *)
Known(a) == row[a] # NoRow \/ a \in deleted

(* The seq is no news to the table, now and for ever: an asset's whole row *)
(* has it or a newer one, and a row that is not whole never will be.       *)
NoNews(a, seq) == Known(a) /\ (Whole(a) => seq <= row[a].seq)

Drawn(r) == r.x # Missing /\ r.width # Missing

(* A copy of a's row; while the asset is not deleted, it has a type, and a *)
(* place and a width, so that the messages made from it can be parsed.     *)
CopyFits(a, r) ==
  /\ r \in Row /\ Known(a)
  /\ a \notin deleted => Drawn(r) /\ r.type # Missing

TableFits(t) ==
  /\ t \in Table
  /\ \A a \in Assets : t[a] # NoRow => CopyFits(a, t[a]) /\ NoNews(a, t[a].seq)

JobFits(j) ==
  /\ j.op = "put" => Drawn(j.patch)
  /\ j.op = "write" => j.seq \in Seqs
  /\ (j.op = "put" /\ j.done) => Known(j.asset)
  /\ (j.op = "write" /\ j.done) => NoNews(j.asset, j.seq)

MessageFits(m) ==
  /\ m \in Delta \cup Added \cup Deleted
  /\ m.kind = "delta" => NoNews(m.asset, m.seq)
  /\ m.kind = "added" => CopyFits(m.asset, m.row) /\ m.row.seq = 0

RequestFits(q) ==
  /\ q \in Request
  /\ Known(q.asset)
  /\ q.asset \notin deleted => Parses(q)

(* The same of everything there is: rows, jobs, broadcasts, messages of    *)
(* this client, snapshots.                                                 *)
RowsDrawn == \A a \in Assets : (row[a] # NoRow /\ a \notin deleted) => Drawn(row[a])

JobsFit == \A h \in Handlers : job[h] # Idle => JobFits(job[h])

NetFits == \A m \in net : MessageFits(m)

RequestsFit == \A q \in requests : RequestFits(q)

SnapsFit ==
  /\ snap = [k \in Slots |-> snap[k]]
  /\ \A k \in Slots : snap[k] \notin {Free, Asked} => TableFits(snap[k])

(* An entry is a copy whose seq is no news, or belongs to an edit on its   *)
(* way.                                                                    *)
Unharmed == drops = 0 /\ aborts = 0

EntriesFit ==
  /\ entry \in Table
  /\ \A a \in Assets : entry[a] # NoRow =>
       /\ CopyFits(a, entry[a])
       /\ Unharmed => NoNews(a, entry[a].seq) \/ OnItsWay(a, entry[a].seq)

(* Nothing reaches the client before it has connected.                     *)
NothingYet ==
  (drops = 0 /\ ~connected) =>
    /\ net = {}
    /\ \A k \in Slots : snap[k] = Free
    /\ \A a \in Assets : entry[a] = NoRow

CountersTypeOK ==
  /\ connected \in BOOLEAN /\ settle \in BOOLEAN
  /\ edits \in 0..MaxEdits /\ aborts \in 0..MaxAborts /\ drops \in 0..MaxDrops

HandsTypeOK ==
  /\ dragging \in Gesture \cup {None}
  /\ editing \in Assets \cup {None}
  /\ unsent \subseteq Assets
  /\ lastSeq \in 0..MaxSeq

ClientInv == RequestsFit /\ EntriesFit /\ NothingYet /\ CountersTypeOK /\ HandsTypeOK

CanvasInv ==
  /\ StoreInv /\ RowsDrawn /\ JobsFit /\ NetFits /\ SnapsFit
  /\ ClientInv

(* The empty room and the canvas before it has connected.                  *)
THEOREM CanvasInitInv == CanvasInit => CanvasInv
  <1> SUFFICES ASSUME CanvasInit PROVE CanvasInv
    OBVIOUS
  <1>1. StoreInv
    BY StoreInitInv DEF CanvasInit
  <1>2. RowsDrawn /\ JobsFit
    BY DEF CanvasInit, Init, RowsDrawn, JobsFit
  <1>3. NetFits /\ SnapsFit
    BY DEF CanvasInit, ChannelInit, NetFits, SnapsFit
  <1>4. RequestsFit /\ EntriesFit /\ NothingYet
    BY DEF CanvasInit, ChannelInit, RequestsFit, EntriesFit, NothingYet, Table
  <1>5. CountersTypeOK /\ HandsTypeOK
    <2>1. 0 \in 0..MaxEdits /\ 0 \in 0..MaxAborts /\ 0 \in 0..MaxDrops /\ 0 \in 0..MaxSeq
      BY BoundAssumption, MaxSeqAssumption
    <2> QED BY <2>1 DEF CanvasInit, ChannelInit, CountersTypeOK, HandsTypeOK
  <1> QED BY <1>1, <1>2, <1>3, <1>4, <1>5 DEF CanvasInv, ClientInv

----------------------------------------------------------------------------
(* What is known of an asset, and no news, stays so.                       *)
Ages ==
  /\ deleted \subseteq deleted'
  /\ \A a \in Assets : Known(a) => Known(a)'
  /\ \A a \in Assets, seq \in 0..MaxSeq : NoNews(a, seq) => NoNews(a, seq)'

LEMMA RestAges ==
  ASSUME UNCHANGED <<row, deleted>>
  PROVE  Ages
  BY DEF Ages, Known, NoNews, Whole

LEMMA ProceedAges ==
  ASSUME StoreInv, StoreInv', NEW h \in Handlers, Proceed(h)
  PROVE  Ages
  <1>1. CASE PutRow(h)
    <2>1. PICK a \in Assets : InFlight(h, "put", a) /\ a = job[h].asset
      BY <1>1 DEF PutRow, StoreInv, TypeOK, Job, InFlight, Pending
    <2>2. ~Known(a)
      BY <2>1 DEF StoreInv, PutIsFirst, Known
    <2>3. deleted' = deleted /\ \A b \in Assets \ {a} : row'[b] = row[b]
      BY <1>1, <2>1 DEF PutRow, StoreInv, TypeOK
    <2> QED BY <2>2, <2>3 DEF Ages, Known, NoNews, Whole
  <1>2. CASE WriteRow(h)
    <2>1. PICK a \in Assets, j \in Job : j = job[h] /\ a = j.asset
      BY <1>2 DEF WriteRow, Pending, StoreInv, TypeOK, Job
    <2>2. PICK old \in Row : /\ row[a] # NoRow => old = row[a] /\ old.seq < j.seq
                             /\ row[a] = NoRow => old = Blank
                             /\ row' = [row EXCEPT ![a] =
                                         Merge(old, j.patch, j.visible, j.seq)]
      <3>1. PICK old : /\ old = IF row[a] = NoRow THEN Blank ELSE row[a]
                       /\ row' = [row EXCEPT ![a] =
                                   Merge(old, j.patch, j.visible, j.seq)]
                       /\ WriteWins(a, j.seq)
        BY <1>2, <2>1 DEF WriteRow
      <3>2. old \in Row
        BY <3>1, BlankIsRow DEF StoreInv, TypeOK
      <3> QED BY <3>1, <3>2 DEF WriteWins
    <2>3. /\ row'[a].type = old.type /\ row'[a].seq = j.seq
          /\ row'[a] # NoRow
          /\ \A b \in Assets \ {a} : row'[b] = row[b]
      <3>1. PICK new : new = Merge(old, j.patch, j.visible, j.seq)
        OBVIOUS
      <3>2. new \in Row
        BY <3>1, MergeIsRow DEF Job
      <3>3. new.type = old.type /\ new.seq = j.seq
        BY <3>1 DEF Merge, Row
      <3> QED BY <2>2, <3>1, <3>2, <3>3, SentinelAssumption DEF StoreInv, TypeOK
    <2>4. deleted' = deleted
      BY <1>2 DEF WriteRow
    <2>5. Known(a) => Known(a)'
      BY <2>3 DEF Known
    <2>6. ASSUME NEW seq \in 0..MaxSeq, NoNews(a, seq) PROVE NoNews(a, seq)'
      <3>1. CASE row[a] = NoRow
        BY <2>2, <2>3, <3>1 DEF NoNews, Known, Whole, Blank
      <3>2. CASE row[a] # NoRow
        <4>1. Whole(a)' => seq <= old.seq
          BY <2>2, <2>3, <2>6, <3>2 DEF NoNews, Whole
        <4>2. old.seq \in Nat /\ j.seq \in Nat
          BY MaxSeqAssumption DEF Row, Job
        <4>3. Whole(a)' => seq <= row'[a].seq
          BY <2>2, <2>3, <3>2, <4>1, <4>2
        <4> QED BY <2>3, <4>3 DEF NoNews, Known
      <3> QED BY <3>1, <3>2
    <2> QED BY <2>3, <2>4, <2>5, <2>6 DEF Ages, Known, NoNews, Whole
  <1>3. CASE DeleteRow(h)
    <2>1. PICK a \in Assets : /\ row' = [row EXCEPT ![a] = NoRow]
                              /\ deleted' = IF row[a] = NoRow THEN deleted
                                            ELSE deleted \cup {a}
      BY <1>3 DEF DeleteRow, Pending, StoreInv, TypeOK, Job
    <2>2. /\ row'[a] = NoRow /\ Known(a) => a \in deleted'
          /\ \A b \in Assets \ {a} : row'[b] = row[b]
      BY <2>1 DEF StoreInv, TypeOK, Known
    <2> QED BY <2>1, <2>2 DEF Ages, Known, NoNews, Whole
  <1>4. CASE DropStale(h) \/ Announce(h) \/ Abort(h)
    BY <1>4, RestAges DEF DropStale, Announce, Abort
  <1> QED BY <1>1, <1>2, <1>3, <1>4 DEF Proceed

(* So what fits now, fits later.                                           *)
LEMMA CopyFitsStill ==
  ASSUME Ages, NEW a \in Assets, NEW r, CopyFits(a, r)
  PROVE  CopyFits(a, r)'
  BY DEF Ages, CopyFits, Drawn

LEMMA TableFitsStill ==
  ASSUME Ages, NEW t, TableFits(t)
  PROVE  TableFits(t)'
  <1>1. t \in Table
    BY DEF TableFits
  <1>2. ASSUME NEW a \in Assets, t[a] # NoRow
        PROVE  CopyFits(a, t[a])' /\ NoNews(a, t[a].seq)'
    <2>1. PICK r, s : r = t[a] /\ s = r.seq
      OBVIOUS
    <2>2. CopyFits(a, r) /\ NoNews(a, s) /\ s \in 0..MaxSeq
      BY <1>2, <2>1 DEF TableFits, CopyFits, Row
    <2>3. CopyFits(a, r)' /\ NoNews(a, s)'
      BY <2>2, CopyFitsStill DEF Ages
    <2> QED BY <2>1, <2>3
  <1> QED BY <1>1, <1>2 DEF TableFits

LEMMA MessageFitsStill ==
  ASSUME Ages, NEW m, MessageFits(m)
  PROVE  MessageFits(m)'
  <1>1. m \in Delta \cup Added \cup Deleted /\ m.asset \in Assets
    BY DEF MessageFits, Delta, Added, Deleted
  <1>2. CASE m.kind = "delta"
    <2>1. m.seq \in 0..MaxSeq
      BY <1>1, <1>2, MaxSeqAssumption DEF Delta, Added, Deleted, Seqs
    <2> QED BY <1>1, <1>2, <2>1 DEF MessageFits, Ages
  <1>3. CASE m.kind = "added"
    BY <1>1, <1>3, CopyFitsStill DEF MessageFits
  <1>4. CASE m.kind = "deleted"
    BY <1>1, <1>4 DEF MessageFits
  <1> QED BY <1>1, <1>2, <1>3, <1>4 DEF Delta, Added, Deleted

LEMMA RequestFitsStill ==
  ASSUME Ages, NEW q, RequestFits(q)
  PROVE  RequestFits(q)'
  BY DEF Ages, RequestFits, Request, Parses

LEMMA JobFitsStill ==
  ASSUME Ages, NEW j \in Job, JobFits(j)
  PROVE  JobFits(j)'
  BY DEF Ages, JobFits, Job, Drawn

----------------------------------------------------------------------------
(* What a step leaves alone fits as before.                                *)
LEMMA NetKept ==
  ASSUME NetFits, Ages, net' \subseteq net
  PROVE  NetFits'
  <1> SUFFICES ASSUME NEW m \in net' PROVE MessageFits(m)'
    BY DEF NetFits
  <1> QED BY MessageFitsStill DEF NetFits

LEMMA RequestsKept ==
  ASSUME RequestsFit, Ages, requests' \subseteq requests
  PROVE  RequestsFit'
  <1> SUFFICES ASSUME NEW q \in requests' PROVE RequestFits(q)'
    BY DEF RequestsFit
  <1> QED BY RequestFitsStill DEF RequestsFit

LEMMA SnapsKept ==
  ASSUME SnapsFit, Ages, snap' = [k \in Slots |-> snap'[k]],
         \A k \in Slots : snap'[k] = snap[k] \/ snap'[k] \in {Free, Asked}
  PROVE  SnapsFit'
  <1> SUFFICES ASSUME NEW k \in Slots, snap'[k] \notin {Free, Asked},
                      NEW t, t = snap'[k]
               PROVE  TableFits(t)'
    BY DEF SnapsFit
  <1>1. TableFits(t)
    BY DEF SnapsFit
  <1> QED BY <1>1, TableFitsStill

(* An edit is on its way until its seq is no news.                         *)
GoesOn ==
  \A a \in Assets, seq \in 0..MaxSeq :
    Known(a) /\ OnItsWay(a, seq) => (NoNews(a, seq) \/ OnItsWay(a, seq))'

LEMMA EntriesKept ==
  ASSUME EntriesFit, Ages, UNCHANGED entry, Unharmed' => Unharmed /\ GoesOn
  PROVE  EntriesFit'
  <1>1. entry' \in Table
    BY DEF EntriesFit
  <1>2. ASSUME NEW a \in Assets, entry'[a] # NoRow, NEW e, NEW s,
               e = entry'[a], s = e.seq
        PROVE  /\ CopyFits(a, e)'
               /\ Unharmed' => NoNews(a, s)' \/ OnItsWay(a, s)'
    <2>1. CopyFits(a, e) /\ s \in 0..MaxSeq
      BY <1>2 DEF EntriesFit, CopyFits, Row
    <2>2. CopyFits(a, e)'
      BY <2>1, CopyFitsStill
    <2>3. Unharmed => NoNews(a, s) \/ (Known(a) /\ OnItsWay(a, s))
      BY <1>2, <2>1 DEF EntriesFit, CopyFits
    <2> QED BY <2>1, <2>2, <2>3 DEF Ages, GoesOn
  <1> QED BY <1>1, <1>2 DEF EntriesFit

----------------------------------------------------------------------------
(* The Put makes a row, and what has just been written is no news.         *)
LEMMA NewRowIsRow ==
  ASSUME NEW j \in Job
  PROVE  NewRow(j) \in Row /\ NewRow(j).seq = 0
  BY MaxSeqAssumption DEF NewRow, Job, Patch, Row, OrMissing

LEMMA WriteIsNoNews ==
  ASSUME StoreInv, StoreInv', NEW h \in Handlers, WriteRow(h), NEW a, NEW seq,
         a = job[h].asset, seq = job[h].seq
  PROVE  NoNews(a, seq)'
  <1>1. PICK j \in Job : j = job[h] /\ a = j.asset /\ seq = j.seq /\ a \in Assets
    BY DEF WriteRow, Pending, StoreInv, TypeOK, Job
  <1>2. PICK old : /\ old = IF row[a] = NoRow THEN Blank ELSE row[a]
                   /\ row' = [row EXCEPT ![a] = Merge(old, j.patch, j.visible, seq)]
    BY <1>1 DEF WriteRow
  <1>3. old \in Row
    BY <1>1, <1>2, BlankIsRow DEF StoreInv, TypeOK
  <1>4. PICK new : new = Merge(old, j.patch, j.visible, seq)
    OBVIOUS
  <1>5. new \in Row /\ new.seq = seq
    <2>1. j.patch \in Patch /\ j.visible \in BOOLEAN /\ seq \in 0..MaxSeq
      BY <1>1 DEF Job
    <2>2. new \in Row
      BY <1>3, <1>4, <2>1, MergeIsRow
    <2>3. new.seq = seq
      BY <1>3, <1>4 DEF Merge, Row
    <2> QED BY <2>2, <2>3
  <1>6. row'[a] = new /\ new # NoRow
    BY <1>1, <1>2, <1>4, <1>5, SentinelAssumption DEF StoreInv, TypeOK
  <1>7. seq <= row'[a].seq
    BY <1>1, <1>5, <1>6, MaxSeqAssumption DEF Job
  <1> QED BY <1>6, <1>7 DEF NoNews, Known

----------------------------------------------------------------------------
(* The invocations.                                                        *)

(* An invocation goes on, the others wait.                                 *)
LEMMA TurnFits ==
  ASSUME StoreInv, JobsFit, Ages, NEW h \in Handlers, NEW j \in Job \cup {Idle},
         job' = [job EXCEPT ![h] = j], j # Idle => JobFits(j)'
  PROVE  JobsFit'
  <1> SUFFICES ASSUME NEW g \in Handlers, job'[g] # Idle, NEW i, i = job'[g]
               PROVE  JobFits(i)'
    BY DEF JobsFit
  <1>1. CASE g = h
    BY <1>1 DEF StoreInv, TypeOK
  <1>2. CASE g # h
    <2>1. i = job[g] /\ i \in Job /\ JobFits(i)
      BY <1>2 DEF StoreInv, TypeOK, JobsFit
    <2> QED BY <2>1, JobFitsStill
  <1> QED BY <1>1, <1>2

(* A job that is marked as done stays what it was.                         *)
LEMMA MarkDoneMakes ==
  ASSUME TypeOK, NEW h \in Handlers, job[h] # Idle, MarkDone(h)
  PROVE  \E j \in Job : /\ job' = [job EXCEPT ![h] = j] /\ j.done
                        /\ j.op = job[h].op /\ j.asset = job[h].asset
                        /\ j.seq = job[h].seq /\ j.patch = job[h].patch
  <1> DEFINE j == [job[h] EXCEPT !.done = TRUE]
  <1>1. job[h] \in Job
    BY DEF TypeOK
  <1>2. /\ j \in Job /\ j.done /\ j.op = job[h].op /\ j.patch = job[h].patch
        /\ j.asset = job[h].asset /\ j.seq = job[h].seq
    BY <1>1 DEF Job
  <1>3. job' = [job EXCEPT ![h] = j]
    BY DEF MarkDone, TypeOK
  <1> QED BY <1>2, <1>3

(* A row that is put has a place and a width, and an update takes neither  *)
(* away.                                                                   *)
LEMMA RowsStayDrawn ==
  ASSUME StoreInv, StoreInv', RowsDrawn, JobsFit, NEW h \in Handlers, Proceed(h)
  PROVE  RowsDrawn'
  <1>1. CASE PutRow(h)
    <2>1. PICK j \in Job : j = job[h] /\ j.op = "put"
      BY <1>1 DEF PutRow, Pending, StoreInv, TypeOK
    <2>2. Drawn(j.patch)
      BY <2>1, <1>1 DEF JobsFit, JobFits, PutRow, Pending
    <2>3. PICK new : /\ new = NewRow(j) /\ row' = [row EXCEPT ![j.asset] = new]
      BY <1>1, <2>1 DEF PutRow
    <2>4. Drawn(new)
      BY <2>2, <2>3 DEF Drawn, NewRow
    <2> QED BY <1>1, <2>3, <2>4 DEF PutRow, RowsDrawn, StoreInv, TypeOK, Drawn
  <1>2. CASE WriteRow(h)
    <2>1. PICK a \in Assets, j \in Job : j = job[h] /\ a = j.asset /\ InFlight(h, "write", a)
      BY <1>2 DEF WriteRow, Pending, InFlight, StoreInv, TypeOK, Job
    <2>2. CASE a \in deleted
      BY <1>2, <2>1, <2>2 DEF WriteRow, RowsDrawn, StoreInv, TypeOK, Drawn
    <2>3. CASE a \notin deleted
      <3>1. row[a] # NoRow /\ row[a] \in Row /\ Drawn(row[a])
        BY <2>1, <2>3 DEF StoreInv, TypeOK, WritesHadRow, RowsDrawn
      <3>2. PICK new : /\ new = Merge(row[a], j.patch, j.visible, j.seq)
                       /\ row' = [row EXCEPT ![a] = new]
        BY <1>2, <2>1, <3>1 DEF WriteRow
      <3>3. Drawn(new)
        BY <3>1, <3>2 DEF Drawn, Merge, Row, Else
      <3> QED BY <1>2, <3>2, <3>3 DEF WriteRow, RowsDrawn, StoreInv, TypeOK, Drawn
    <2> QED BY <2>2, <2>3
  <1>3. CASE DeleteRow(h)
    BY <1>3 DEF DeleteRow, RowsDrawn, StoreInv, TypeOK, Job, Pending, Drawn
  <1>4. CASE DropStale(h) \/ Announce(h) \/ Abort(h)
    BY <1>4 DEF DropStale, Announce, Abort, RowsDrawn, Drawn
  <1> QED BY <1>1, <1>2, <1>3, <1>4 DEF Proceed

(* What an invocation has written is no news.                              *)
LEMMA ProceedFits ==
  ASSUME StoreInv, StoreInv', JobsFit, Ages, NEW h \in Handlers, Proceed(h)
  PROVE  JobsFit'
  <1>1. CASE PutRow(h)
    <2>1. PICK j \in Job : /\ job' = [job EXCEPT ![h] = j] /\ j.op = "put"
                           /\ j.asset = job[h].asset /\ j.patch = job[h].patch
      BY <1>1, MarkDoneMakes DEF PutRow, Pending, StoreInv
    <2>2. Drawn(j.patch)
      BY <1>1, <2>1 DEF JobsFit, JobFits, PutRow, Pending
    <2>3. Known(j.asset)'
      <3>1. row' = [row EXCEPT ![j.asset] = NewRow(job[h])]
        BY <1>1, <2>1 DEF PutRow
      <3>2. PICK a \in Assets : a = j.asset
        BY DEF Job
      <3>3. NewRow(job[h]) # NoRow
        BY <3>1, <3>2, <1>1, SentinelAssumption, NewRowIsRow DEF PutRow, Pending, StoreInv, TypeOK
      <3> QED BY <3>1, <3>2, <3>3 DEF Known, StoreInv, TypeOK
    <2> QED BY <2>1, <2>2, <2>3, TurnFits DEF JobFits, Drawn
  <1>2. CASE WriteRow(h)
    <2>1. PICK j \in Job : /\ job' = [job EXCEPT ![h] = j] /\ j.op = "write"
                           /\ j.asset = job[h].asset /\ j.seq = job[h].seq
      BY <1>2, MarkDoneMakes DEF WriteRow, Pending, StoreInv
    <2>2. j.seq \in Seqs
      BY <1>2, <2>1 DEF JobsFit, JobFits, WriteRow, Pending
    <2>3. NoNews(j.asset, j.seq)'
      BY <1>2, <2>1, WriteIsNoNews
    <2> QED BY <2>1, <2>2, <2>3, TurnFits DEF JobFits
  <1>3. CASE DeleteRow(h)
    <2>1. PICK j \in Job : job' = [job EXCEPT ![h] = j] /\ j.op = "delete"
      BY <1>3, MarkDoneMakes DEF DeleteRow, Pending, StoreInv
    <2> QED BY <2>1, TurnFits DEF JobFits
  <1>4. CASE DropStale(h) \/ Announce(h) \/ Abort(h)
    <2>1. PICK j \in Job \cup {Idle} : job' = [job EXCEPT ![h] = j] /\ j = Idle
      BY <1>4 DEF DropStale, Announce, Abort, Stop
    <2> QED BY <2>1, TurnFits
  <1> QED BY <1>1, <1>2, <1>3, <1>4 DEF Proceed

(* A job that starts is not done; it is a put of something to draw, or a   *)
(* write of a seq that a client stamped.                                   *)
LEMMA StartedFits ==
  ASSUME StoreInv, JobsFit, Ages, NEW h \in Handlers, NEW a \in Assets,
         NEW op \in {"put", "write", "delete"}, Started(h, op, a)
  PROVE  JobsFit'
  <1>1. PICK j \in Job : /\ j.op = op /\ ~j.done
                         /\ op = "put" => Drawn(j.patch)
                         /\ op = "write" => j.seq \in Seqs
                         /\ job' = [job EXCEPT ![h] = j]
    BY DEF Started, Drawn
  <1>2. JobFits(j)'
    BY <1>1 DEF JobFits, Drawn
  <1> QED BY <1>1, <1>2, TurnFits

(* What is on its way to the table is written, or found stale.             *)
Works(h) == PutRow(h) \/ WriteRow(h) \/ DropStale(h) \/ DeleteRow(h) \/ Announce(h)

LEMMA ProceedGoesOn ==
  ASSUME StoreInv, StoreInv', Ages, NEW h \in Handlers, Works(h), UNCHANGED requests
  PROVE  GoesOn
  <1> SUFFICES ASSUME NEW a \in Assets, NEW seq \in 0..MaxSeq, Known(a), OnItsWay(a, seq)
               PROVE  NoNews(a, seq)' \/ OnItsWay(a, seq)'
    BY DEF GoesOn
  <1>1. CASE \E q \in requests : q.asset = a /\ q.seq = seq
    BY <1>1 DEF OnItsWay
  <1>2. ASSUME NEW g \in Handlers, g # h,
               Pending(g, "write"), job[g].asset = a, job[g].seq = seq
        PROVE  OnItsWay(a, seq)'
    <2>1. job'[g] = job[g]
      BY <1>2 DEF Works, PutRow, WriteRow, DeleteRow, DropStale, Announce,
                  MarkDone, Stop, StoreInv, TypeOK
    <2> QED BY <1>2, <2>1 DEF OnItsWay, Pending
  <1>3. CASE Pending(h, "write") /\ job[h].asset = a /\ job[h].seq = seq
    <2>1. CASE WriteRow(h)
      BY <1>3, <2>1, WriteIsNoNews
    <2>2. CASE DropStale(h)
      <3>1. row[a] # NoRow /\ ~(row[a].seq < seq) /\ row[a] \in Row
        BY <1>3, <2>2 DEF DropStale, WriteWins, StoreInv, TypeOK
      <3>2. seq <= row[a].seq
        BY <3>1, MaxSeqAssumption DEF Row
      <3> QED BY <2>2, <3>1, <3>2 DEF NoNews, Known, DropStale
    <2> QED BY <1>3, <2>1, <2>2 DEF Works, PutRow, DeleteRow, Announce, Pending
  <1> QED BY <1>1, <1>2, <1>3 DEF OnItsWay

(* What the table has of an asset is a copy of its row that is no news.    *)
LEMMA TableIsNoNews ==
  ASSUME StoreInv, RowsDrawn, NEW t, t = row
  PROVE  TableFits(t)
  <1>1. t \in Table
    BY DEF StoreInv, TypeOK, Table
  <1>2. ASSUME NEW a \in Assets, t[a] # NoRow
        PROVE  CopyFits(a, t[a]) /\ NoNews(a, t[a].seq)
    <2>1. t[a] \in Row /\ Known(a) /\ (a \notin deleted => Drawn(t[a]))
      BY <1>1, <1>2 DEF Table, Known, RowsDrawn
    <2>2. t[a].seq <= row[a].seq
      BY <2>1, MaxSeqAssumption DEF Row
    <2>3. a \notin deleted => t[a].type # Missing
      BY <1>2 DEF StoreInv, RemnantIffDeleted
    <2> QED BY <2>1, <2>2, <2>3 DEF CopyFits, NoNews
  <1> QED BY <1>1, <1>2 DEF TableFits

(* The broadcast of a finished job.                                        *)
LEMMA BroadcastFits ==
  ASSUME NEW j \in Job, j.done, JobFits(j)
  PROVE  MessageFits(Broadcast(j))
  <1>1. CASE j.op = "put"
    <2>1. PICK r : r = NewRow(j)
      OBVIOUS
    <2>2. r \in Row /\ r.seq = 0
      BY <2>1, NewRowIsRow
    <2>3. Drawn(r) /\ r.type # Missing
      BY <1>1, <2>1, SentinelAssumption DEF NewRow, Drawn, JobFits
    <2>4. PICK m : m = [kind |-> "added", asset |-> j.asset, row |-> r]
      OBVIOUS
    <2>5. m = Broadcast(j)
      BY <1>1, <2>1, <2>4 DEF Broadcast
    <2>6. m \in Added /\ m.kind = "added" /\ m.asset = j.asset /\ m.row = r
      BY <2>2, <2>4 DEF Added, Job
    <2>7. MessageFits(m)
      BY <1>1, <2>2, <2>3, <2>6 DEF MessageFits, CopyFits, JobFits
    <2> QED BY <2>5, <2>7
  <1>2. CASE j.op = "write"
    <2>1. PICK m : m = [kind |-> "delta", asset |-> j.asset, patch |-> j.patch,
                        visible |-> j.visible, seq |-> j.seq]
      OBVIOUS
    <2>2. m = Broadcast(j)
      BY <1>2, <2>1 DEF Broadcast
    <2>3. m \in Delta /\ m.kind = "delta" /\ m.asset = j.asset /\ m.seq = j.seq
      BY <1>2, <2>1 DEF Delta, Job, JobFits
    <2>4. MessageFits(m)
      BY <1>2, <2>3 DEF MessageFits, JobFits
    <2> QED BY <2>2, <2>4
  <1>3. CASE j.op = "delete"
    <2>1. PICK m : m = [kind |-> "deleted", asset |-> j.asset]
      OBVIOUS
    <2>2. m = Broadcast(j)
      BY <1>3, <2>1 DEF Broadcast
    <2>3. m \in Deleted /\ m.kind = "deleted"
      BY <2>1 DEF Deleted, Job
    <2>4. MessageFits(m)
      BY <2>3 DEF MessageFits
    <2> QED BY <2>2, <2>4
  <1> QED BY <1>1, <1>2, <1>3 DEF Job

(* The table's part of the invariant after a step of an invocation.        *)
LEMMA TableStepFits ==
  ASSUME CanvasInv, NEW h \in Handlers, Receive(h) \/ Proceed(h)
  PROVE  /\ StoreInv' /\ RowsDrawn' /\ JobsFit' /\ Ages
         /\ UNCHANGED requests /\ (Receive(h) \/ Works(h)) => GoesOn
  <1>0. StoreInv /\ RowsDrawn /\ JobsFit
    BY DEF CanvasInv
  <1>1. StoreInv'
    BY <1>0, StoreNextInv DEF Next
  <1>2. CASE Receive(h)
    <2>1. PICK a \in Assets :
            /\ UNCHANGED <<row, deleted>>
            /\ \E op \in {"put", "write", "delete"} : Started(h, op, a)
      BY <1>2, ReceiveStarts
    <2>2. RowsDrawn' /\ Ages
      BY <1>0, <2>1, RestAges DEF RowsDrawn, Drawn
    <2>3. JobsFit'
      BY <1>0, <2>1, <2>2, StartedFits
    <2>4. ASSUME UNCHANGED requests, NEW b \in Assets, NEW seq \in 0..MaxSeq,
                 OnItsWay(b, seq)
          PROVE  OnItsWay(b, seq)'
      <3>1. job[h] = Idle /\ \A g \in Handlers \ {h} : job'[g] = job[g]
        BY <1>0, <2>1 DEF Started, StoreInv, TypeOK
      <3>2. ASSUME NEW g \in Handlers, Pending(g, "write")
            PROVE  job'[g] = job[g]
        BY <3>1, <3>2 DEF Pending
      <3> QED BY <2>4, <3>2 DEF OnItsWay, Pending
    <2> QED BY <1>1, <2>2, <2>3, <2>4 DEF GoesOn
  <1>3. CASE Proceed(h)
    <2>1. Ages
      BY <1>0, <1>1, <1>3, ProceedAges
    <2>2. RowsDrawn' /\ JobsFit'
      BY <1>0, <1>1, <1>3, <2>1, ProceedFits, RowsStayDrawn
    <2>3. UNCHANGED requests /\ Works(h) => GoesOn
      BY <1>0, <1>1, <2>1, ProceedGoesOn
    <2> QED BY <1>1, <1>2, <2>1, <2>2, <2>3
  <1> QED BY <1>2, <1>3

LEMMA ServerStepFits ==
  ASSUME CanvasInv, NEW h \in Handlers, ServerStep(h), UNCHANGED canvasVars
  PROVE  CanvasInv'
  <1>0. StoreInv /\ JobsFit /\ NetFits /\ SnapsFit /\ ClientInv
    BY DEF CanvasInv
  <1>1. Receive(h) \/ Proceed(h)
    BY DEF ServerStep, Edit, Store, Publish, Fail, Proceed
  <1>2. StoreInv' /\ RowsDrawn' /\ JobsFit' /\ Ages
    BY <1>1, TableStepFits
  <1>3. NetFits'
    <2>1. CASE net' \subseteq net
      BY <1>0, <1>2, <2>1, NetKept
    <2>2. CASE Publish(h) /\ connected
      <3>1. job[h] \in Job /\ job[h].done /\ JobFits(job[h])
        BY <1>0, <2>2 DEF Publish, Announce, StoreInv, TypeOK, JobsFit
      <3>2. PICK m : m = Broadcast(job[h])
        OBVIOUS
      <3>3. MessageFits(m)'
        BY <1>2, <3>1, <3>2, BroadcastFits, MessageFitsStill
      <3>4. ASSUME NEW n \in net PROVE MessageFits(n)'
        BY <1>0, <1>2, MessageFitsStill DEF NetFits
      <3>5. net' = net \cup {m}
        BY <2>2, <3>2 DEF Publish
      <3> QED BY <3>3, <3>4, <3>5 DEF NetFits
    <2> QED BY <2>1, <2>2 DEF ServerStep, Edit, Store, Publish, Fail, channelVars
  <1>4. SnapsFit'
    <2>1. snap' = snap
      BY DEF ServerStep, Edit, Store, Publish, Fail, channelVars
    <2> QED BY <1>0, <1>2, <2>1, SnapsKept DEF SnapsFit
  <1>5. CountersTypeOK'
    <2>1. UNCHANGED <<connected, settle, drops>>
      BY DEF ServerStep, Edit, Store, Publish, Fail, channelVars
    <2>2. edits' \in 0..MaxEdits
      <3>1. edits' = edits \/ (edits < MaxEdits /\ edits' = edits + 1)
        BY DEF ServerStep, Edit, Store, Publish, Fail, channelVars
      <3> QED BY <1>0, <3>1, BoundAssumption DEF ClientInv, CountersTypeOK
    <2>3. aborts' \in 0..MaxAborts
      <3>1. aborts' = aborts \/ (aborts < MaxAborts /\ aborts' = aborts + 1)
        BY DEF ServerStep, Edit, Store, Publish, Fail, channelVars
      <3> QED BY <1>0, <3>1, BoundAssumption DEF ClientInv, CountersTypeOK
    <2> QED BY <1>0, <2>1, <2>2, <2>3 DEF ClientInv, CountersTypeOK
  <1>6. RequestsFit' /\ HandsTypeOK'
    BY <1>0, <1>2, RequestsKept DEF canvasVars, ClientInv, HandsTypeOK
  <1>7. EntriesFit'
    <2>1. ASSUME Unharmed' PROVE Unharmed /\ ~Fail(h)
      BY <1>0, <2>1, BoundAssumption
         DEF Unharmed, ServerStep, Edit, Store, Publish, Fail, channelVars, ClientInv,
             CountersTypeOK
    <2>2. ~Fail(h) => GoesOn
      <3>1. ~Fail(h) => Receive(h) \/ Works(h)
        BY DEF ServerStep, Edit, Store, Publish, Works
      <3> QED BY <1>1, <3>1, TableStepFits DEF canvasVars
    <2> QED BY <1>0, <1>2, <2>1, <2>2, EntriesKept DEF ClientInv, canvasVars
  <1>8. NothingYet'
    BY <1>0 DEF NothingYet, ClientInv, ServerStep, Edit, Store, Publish, Fail, channelVars,
                canvasVars
  <1> QED BY <1>2, <1>3, <1>4, <1>5, <1>6, <1>7, <1>8 DEF CanvasInv, ClientInv

----------------------------------------------------------------------------
(* This client's messages.                                                 *)

(* A message that is accepted starts a write of its seq.                   *)
LEMMA AcceptStarts ==
  ASSUME NEW h \in Handlers, NEW q \in Request, row[q.asset] # NoRow, Accept(h, q)
  PROVE  /\ UNCHANGED <<row, added, deleted, accepted>>
         /\ Started(h, "write", q.asset)
         /\ \E j \in Job : /\ j.op = "write" /\ ~j.done
                           /\ j.asset = q.asset /\ j.seq = q.seq
                           /\ job[h] = Idle /\ job' = [job EXCEPT ![h] = j]
  <1>1. PICK a \in Assets, x \in OrMissing(Positions), width \in OrMissing(Widths),
             hidden \in OrMissing(BOOLEAN), seq \in Seqs :
          /\ a = q.asset /\ seq = q.seq
          /\ x = q.patch.x /\ width = q.patch.width /\ hidden = q.patch.hidden
    BY DEF Request, Patch
  <1>2. \/ ReadMove(h, a, x, seq) \/ ReadResize(h, a, x, width, seq)
        \/ ReadUpdate(h, a, width, hidden, seq)
    <2>1. q.kind \in {"move", "resize", "update"}
      BY DEF Request
    <2> QED BY <1>1, <2>1 DEF Accept
  <1>3. UNCHANGED <<row, added, deleted, accepted>>
    BY <1>2 DEF ReadMove, ReadResize, ReadUpdate
  <1>4. PICK p \in Patch, v \in BOOLEAN : Start(h, "write", a, p, v, seq)
    <2>1. /\ Carry(x, Missing, Missing) \in Patch
          /\ Carry(x, width, Missing) \in Patch
          /\ Carry(Missing, width, hidden) \in Patch
      BY CarryIsPatch DEF OrMissing
    <2>2. CASE ReadMove(h, a, x, seq)
      <3>1. Start(h, "write", a, Carry(x, Missing, Missing),
                  Visible(x, row[a].width, row[a].hidden), seq)
        BY <2>2 DEF ReadMove
      <3> QED BY <2>1, <3>1, VisibleIsBoolean
    <2>3. CASE ReadResize(h, a, x, width, seq)
      <3>1. Start(h, "write", a, Carry(x, width, Missing),
                  Visible(x, width, row[a].hidden), seq)
        BY <2>3 DEF ReadResize
      <3> QED BY <2>1, <3>1, VisibleIsBoolean
    <2>4. CASE ReadUpdate(h, a, width, hidden, seq)
      <3>1. Start(h, "write", a, Carry(Missing, width, hidden),
                  Visible(row[a].x, Else(width, row[a].width),
                          Else(hidden, row[a].hidden)), seq)
        BY <2>4 DEF ReadUpdate
      <3> QED BY <2>1, <3>1, VisibleIsBoolean
    <2> QED BY <1>2, <2>2, <2>3, <2>4
  <1>5. seq \in 0..MaxSeq
    BY MaxSeqAssumption DEF Seqs
  <1>6. PICK j \in Job : /\ j.op = "write" /\ ~j.done /\ j.asset = a /\ j.seq = seq
                         /\ job[h] = Idle /\ job' = [job EXCEPT ![h] = j]
    BY <1>4, <1>5, StartMakesJob
  <1> QED BY <1>1, <1>3, <1>6 DEF Started

(* The server takes a message: its edit goes on, or is no news, because    *)
(* the row is gone or was never drawn.                                     *)
LEMMA TakeRequestFits ==
  ASSUME CanvasInv, NEW h \in Handlers, NEW q, TakeRequest(h, q)
  PROVE  CanvasInv'
  <1>0. StoreInv /\ RowsDrawn /\ JobsFit /\ NetFits /\ SnapsFit /\ ClientInv
    BY DEF CanvasInv
  <1>1. q \in requests /\ RequestFits(q) /\ q \in Request /\ q.asset \in Assets
    BY <1>0 DEF TakeRequest, ClientInv, RequestsFit, RequestFits, Request
  <1>2. requests' = requests \ {q} /\ UNCHANGED <<channelVars, entry, dragging, editing,
                                                 unsent, lastSeq>>
    BY DEF TakeRequest
  <1>3. /\ StoreInv' /\ JobsFit' /\ UNCHANGED <<row, deleted>>
        /\ \A g \in Handlers : Pending(g, "write") => job'[g] = job[g]
        /\ \/ NoNews(q.asset, q.seq)
           \/ \E g \in Handlers : /\ Pending(g, "write")'
                                  /\ job'[g].asset = q.asset /\ job'[g].seq = q.seq
    <2>1. CASE Parses(q) /\ row[q.asset] # NoRow
      <3>1. Accept(h, q)
        BY <2>1 DEF TakeRequest
      <3>2. /\ UNCHANGED <<row, added, deleted, accepted>>
            /\ Started(h, "write", q.asset)
        BY <1>1, <2>1, <3>1, AcceptStarts
      <3>3. PICK j \in Job : /\ j.op = "write" /\ ~j.done
                             /\ j.asset = q.asset /\ j.seq = q.seq
                             /\ job[h] = Idle /\ job' = [job EXCEPT ![h] = j]
        BY <1>1, <2>1, <3>1, AcceptStarts
      <3>4. StoreInv'
        BY <1>0, <1>1, <2>1, <3>2, StartStep
      <3>5. JobsFit'
        BY <1>0, <1>1, <3>2, RestAges, StartedFits
      <3>6. job'[h] = j /\ j # Idle /\ \A g \in Handlers \ {h} : job'[g] = job[g]
        BY <1>0, <3>3, SentinelAssumption DEF StoreInv, TypeOK
      <3>7. \A g \in Handlers : Pending(g, "write") => job'[g] = job[g]
        BY <3>3, <3>6 DEF Pending
      <3>8. Pending(h, "write")'
        BY <3>3, <3>6 DEF Pending
      <3> QED BY <3>2, <3>3, <3>4, <3>5, <3>6, <3>7, <3>8
    <2>2. CASE ~(Parses(q) /\ row[q.asset] # NoRow)
      <3>1. UNCHANGED vars
        BY <2>2 DEF TakeRequest
      <3>2. StoreInv' /\ JobsFit'
        <4>1. StoreInv'
          BY <1>0, <3>1, StoreNextInv
        <4> QED BY <1>0, <3>1, <4>1 DEF vars, JobsFit, JobFits, Known, NoNews, Whole, Drawn
      <3>3. ~Whole(q.asset)
        BY <1>0, <1>1, <2>2 DEF RequestFits, Whole, StoreInv, RemnantIffDeleted
      <3> QED BY <1>1, <3>1, <3>2, <3>3 DEF vars, NoNews, RequestFits
    <2> QED BY <2>1, <2>2
  <1>4. Ages /\ RowsDrawn'
    BY <1>0, <1>3, RestAges DEF RowsDrawn, Drawn
  <1>5. NetFits' /\ SnapsFit' /\ RequestsFit'
    BY <1>0, <1>2, <1>4, NetKept, SnapsKept, RequestsKept
       DEF channelVars, SnapsFit, ClientInv
  <1>6. GoesOn
    <2> SUFFICES ASSUME NEW a \in Assets, NEW seq \in 0..MaxSeq, OnItsWay(a, seq)
                 PROVE  NoNews(a, seq)' \/ OnItsWay(a, seq)'
      BY DEF GoesOn
    <2>1. CASE q.asset = a /\ q.seq = seq
      BY <1>3, <1>4, <2>1 DEF Ages, OnItsWay, Pending
    <2>2. ASSUME NEW r \in requests, r # q, r.asset = a, r.seq = seq
          PROVE  OnItsWay(a, seq)'
      BY <1>2, <2>2 DEF OnItsWay
    <2>3. ASSUME NEW g \in Handlers, Pending(g, "write"),
                 job[g].asset = a, job[g].seq = seq
          PROVE  OnItsWay(a, seq)'
      <3>1. job'[g] = job[g]
        BY <1>3, <2>3
      <3> QED BY <2>3, <3>1 DEF OnItsWay, Pending
    <2> QED BY <2>1, <2>2, <2>3 DEF OnItsWay
  <1>7. EntriesFit'
    BY <1>0, <1>2, <1>4, <1>6, EntriesKept DEF ClientInv, channelVars, Unharmed
  <1>8. NothingYet' /\ CountersTypeOK' /\ HandsTypeOK'
    BY <1>0, <1>2 DEF channelVars, ClientInv, NothingYet, CountersTypeOK, HandsTypeOK
  <1> QED BY <1>3, <1>4, <1>5, <1>7, <1>8 DEF CanvasInv, ClientInv

----------------------------------------------------------------------------
(* The client, whose other steps leave the table and the invocations alone.*)
LEMMA TableRests ==
  ASSUME CanvasInv, UNCHANGED vars
  PROVE  StoreInv' /\ RowsDrawn' /\ JobsFit' /\ Ages
  <1>1. StoreInv'
    BY StoreNextInv DEF CanvasInv
  <1>2. Ages
    BY RestAges DEF vars
  <1>3. RowsDrawn' /\ JobsFit'
    BY DEF CanvasInv, vars, RowsDrawn, JobsFit, JobFits, Known, NoNews, Whole, Drawn
  <1> QED BY <1>1, <1>2, <1>3

LEMMA RestGoesOn ==
  ASSUME UNCHANGED <<row, deleted, job>>, requests \subseteq requests'
  PROVE  GoesOn
  BY DEF GoesOn, OnItsWay, Pending

(* The connection opens, the timers run out, a snapshot is read: nothing   *)
(* of the canvas changes.                                                  *)
LEMMA ConnectionFits ==
  ASSUME CanvasInv, Open \/ TimerStep \/ (\E k \in Slots : AnswerSnapshot(k)),
         UNCHANGED canvasVars
  PROVE  CanvasInv'
  <1>0. StoreInv /\ RowsDrawn /\ NetFits /\ SnapsFit /\ ClientInv
    BY DEF CanvasInv
  <1>1. UNCHANGED <<vars, net, edits, aborts, drops>>
    BY DEF Open, TimerStep, SettleFires, FallbackFires, AnswerSnapshot
  <1>2. StoreInv' /\ RowsDrawn' /\ JobsFit' /\ Ages /\ GoesOn
    BY <1>1, TableRests, RestGoesOn DEF vars, canvasVars
  <1>3. NetFits' /\ RequestsFit' /\ EntriesFit'
    BY <1>0, <1>1, <1>2, NetKept, RequestsKept, EntriesKept
       DEF ClientInv, canvasVars, Unharmed
  <1>4. SnapsFit'
    <2>1. CASE /\ snap' = [k \in Slots |-> snap'[k]]
               /\ \A k \in Slots : snap'[k] = snap[k] \/ snap'[k] \in {Free, Asked}
      BY <1>0, <1>2, <2>1, SnapsKept
    <2>2. ASSUME NEW k \in Slots, AnswerSnapshot(k) PROVE SnapsFit'
      <3>1. PICK t : t = row
        OBVIOUS
      <3>2. TableFits(t)'
        BY <1>0, <1>2, <3>1, TableIsNoNews, TableFitsStill
      <3>3. ASSUME NEW i \in Slots, snap'[i] \notin {Free, Asked}, NEW u, u = snap'[i]
            PROVE  TableFits(u)'
        <4>1. CASE i = k
          BY <2>2, <3>1, <3>2, <3>3, <4>1 DEF AnswerSnapshot, SnapsFit
        <4>2. CASE i # k
          <5>1. u = snap[i] /\ TableFits(u)
            BY <1>0, <2>2, <3>3, <4>2 DEF AnswerSnapshot, SnapsFit
          <5> QED BY <1>2, <5>1, TableFitsStill
        <4> QED BY <4>1, <4>2
      <3>4. snap' = [i \in Slots |-> snap'[i]]
        BY <1>0, <2>2 DEF AnswerSnapshot, SnapsFit
      <3> QED BY <3>3, <3>4 DEF SnapsFit
    <2>3. Open \/ TimerStep => UNCHANGED snap \/ Ask
      BY DEF Open, TimerStep, SettleFires, FallbackFires
    <2>4. CASE UNCHANGED snap \/ Ask
      BY <1>0, <2>1, <2>4 DEF Ask, SnapsFit
    <2> QED BY <2>2, <2>3, <2>4
  <1>5. NothingYet'
    <2>1. UNCHANGED connected \/ connected'
      BY DEF Open, TimerStep, SettleFires, FallbackFires, AnswerSnapshot
    <2>2. (drops = 0 /\ ~connected) => UNCHANGED snap \/ connected'
      BY <1>0, SlotAssumption
         DEF ClientInv, NothingYet, Open, TimerStep, SettleFires, FallbackFires,
             AnswerSnapshot
    <2> QED BY <1>0, <1>1, <2>1, <2>2 DEF ClientInv, NothingYet, canvasVars
  <1>6. CountersTypeOK' /\ HandsTypeOK'
    BY <1>0, <1>1 DEF ClientInv, CountersTypeOK, HandsTypeOK, canvasVars, Open, TimerStep,
                      SettleFires, FallbackFires, AnswerSnapshot
  <1> QED BY <1>2, <1>3, <1>4, <1>5, <1>6 DEF CanvasInv, ClientInv

(* The connection drops, and what was under way with it.                   *)
LEMMA LoseConnectionFits ==
  ASSUME CanvasInv, LoseConnection
  PROVE  CanvasInv'
  <1>0. StoreInv /\ NetFits /\ SnapsFit /\ ClientInv
    BY DEF CanvasInv
  <1>1. /\ UNCHANGED <<vars, settle, edits, aborts, entry, dragging, editing, unsent,
                       lastSeq>>
        /\ net' = {} /\ snap' = [k \in Slots |-> Free] /\ requests' \subseteq requests
        /\ drops < MaxDrops /\ drops' = drops + 1 /\ connected' = FALSE
    BY DEF LoseConnection, Disconnect
  <1>2. StoreInv' /\ RowsDrawn' /\ JobsFit' /\ Ages
    BY <1>1, TableRests
  <1>3. drops' \in 0..MaxDrops /\ drops' # 0
    BY <1>0, <1>1, BoundAssumption DEF ClientInv, CountersTypeOK
  <1>4. NetFits' /\ SnapsFit' /\ RequestsFit'
    BY <1>0, <1>1, <1>2, RequestsKept DEF ClientInv, NetFits, SnapsFit
  <1>5. EntriesFit'
    BY <1>0, <1>1, <1>2, <1>3, EntriesKept DEF ClientInv, Unharmed
  <1>6. NothingYet' /\ CountersTypeOK' /\ HandsTypeOK'
    BY <1>0, <1>1, <1>3 DEF ClientInv, NothingYet, CountersTypeOK, HandsTypeOK
  <1> QED BY <1>2, <1>4, <1>5, <1>6 DEF CanvasInv, ClientInv

(* A message is refused, as when an invocation fails.                      *)
LEMMA RefuseRequestFits ==
  ASSUME CanvasInv, NEW q, RefuseRequest(q)
  PROVE  CanvasInv'
  <1>0. NetFits /\ SnapsFit /\ ClientInv
    BY DEF CanvasInv
  <1>1. /\ UNCHANGED <<vars, net, snap, connected, settle, edits, drops>>
        /\ UNCHANGED <<entry, dragging, editing, unsent, lastSeq>>
        /\ requests' \subseteq requests
        /\ aborts < MaxAborts /\ aborts' = aborts + 1
    BY DEF RefuseRequest
  <1>2. StoreInv' /\ RowsDrawn' /\ JobsFit' /\ Ages
    BY <1>1, TableRests
  <1>3. aborts' \in 0..MaxAborts /\ aborts' # 0
    BY <1>0, <1>1, BoundAssumption DEF ClientInv, CountersTypeOK
  <1>4. NetFits' /\ SnapsFit' /\ RequestsFit'
    BY <1>0, <1>1, <1>2, NetKept, SnapsKept, RequestsKept DEF ClientInv, SnapsFit
  <1>5. EntriesFit'
    BY <1>0, <1>1, <1>2, <1>3, EntriesKept DEF ClientInv, Unharmed
  <1>6. NothingYet' /\ CountersTypeOK' /\ HandsTypeOK'
    BY <1>0, <1>1, <1>3 DEF ClientInv, NothingYet, CountersTypeOK, HandsTypeOK
  <1> QED BY <1>2, <1>4, <1>5, <1>6 DEF CanvasInv, ClientInv

(* What the room says: an entry that is replaced is a copy that fits.      *)
LEMMA HeardFits ==
  ASSUME CanvasInv, UNCHANGED <<vars, connected, edits, aborts, drops>>,
         settle' \in BOOLEAN, net' \subseteq net,
         snap' = [k \in Slots |-> snap'[k]],
         \A k \in Slots : snap'[k] = snap[k] \/ snap'[k] = Free,
         UNCHANGED <<dragging, editing, unsent, lastSeq, requests>>,
         drops = 0 => connected,
         entry' \in Table,
         \A a \in Assets : \/ entry'[a] = entry[a]
                           \/ entry'[a] = NoRow
                           \/ CopyFits(a, entry'[a]) /\ NoNews(a, entry'[a].seq)
  PROVE  CanvasInv'
  <1>0. NetFits /\ SnapsFit /\ ClientInv
    BY DEF CanvasInv
  <1>1. StoreInv' /\ RowsDrawn' /\ JobsFit' /\ Ages /\ GoesOn
    BY TableRests, RestGoesOn DEF vars
  <1>2. NetFits' /\ SnapsFit' /\ RequestsFit'
    BY <1>0, <1>1, NetKept, SnapsKept, RequestsKept DEF ClientInv
  <1>3. EntriesFit'
    <2>1. ASSUME NEW a \in Assets, entry'[a] # NoRow, NEW e, NEW s,
                 e = entry'[a], s = e.seq
          PROVE  /\ CopyFits(a, e)'
                 /\ Unharmed' => NoNews(a, s)' \/ OnItsWay(a, s)'
      <3>1. /\ CopyFits(a, e)
            /\ Unharmed => NoNews(a, s) \/ OnItsWay(a, s)
        BY <1>0, <2>1 DEF ClientInv, EntriesFit
      <3>2. s \in 0..MaxSeq /\ Known(a)
        BY <2>1, <3>1 DEF CopyFits, Row
      <3>3. CopyFits(a, e)'
        BY <1>1, <3>1, CopyFitsStill
      <3> QED BY <1>1, <3>1, <3>2, <3>3 DEF Ages, GoesOn, Unharmed
    <2> QED BY <2>1 DEF EntriesFit
  <1>4. NothingYet' /\ CountersTypeOK' /\ HandsTypeOK'
    BY <1>0 DEF ClientInv, NothingYet, CountersTypeOK, HandsTypeOK
  <1> QED BY <1>1, <1>2, <1>3, <1>4 DEF CanvasInv, ClientInv

(* A delta is merged into a copy of the row, and the copy stays one.       *)
LEMMA MergeFits ==
  ASSUME NEW a \in Assets, NEW old, CopyFits(a, old), NEW patch \in Patch,
         NEW visible \in BOOLEAN, NEW seq \in 0..MaxSeq,
         NEW new, new = Merge(old, patch, visible, seq)
  PROVE  CopyFits(a, new) /\ new.seq = seq
  <1>1. old \in Row
    BY DEF CopyFits
  <1>2. new \in Row /\ new.seq = seq
    <2>1. new \in Row
      BY <1>1, MergeIsRow
    <2> QED BY <1>1, <2>1 DEF Merge, Row
  <1>3. (Drawn(old) => Drawn(new)) /\ new.type = old.type
    BY <1>1 DEF Drawn, Merge, Row, Else
  <1> QED BY <1>2, <1>3 DEF CopyFits

LEMMA DeliverFits ==
  ASSUME CanvasInv, Deliver
  PROVE  CanvasInv'
  <1>0. NetFits /\ SnapsFit /\ ClientInv
    BY DEF CanvasInv
  <1>1. PICK m \in net : ApplyRemote(m) \/ ApplyAdded(m) \/ ApplyDeleted(m)
    BY DEF Deliver
  <1>2. MessageFits(m) /\ m.asset \in Assets
    BY <1>0 DEF NetFits, MessageFits, Delta, Added, Deleted
  <1>3. /\ UNCHANGED <<vars, snap, connected, edits, aborts, drops>>
        /\ UNCHANGED <<dragging, editing, unsent, lastSeq, requests>>
        /\ net' \subseteq net /\ settle' \in BOOLEAN
    BY <1>0, <1>1 DEF Deliver, ApplyRemote, ApplyAdded, ApplyDeleted, Arrive, ClientInv,
                      CountersTypeOK
  <1>4. drops = 0 => connected
    BY <1>0, <1>1 DEF ClientInv, NothingYet
  <1>5. /\ entry' \in Table
        /\ \A a \in Assets : \/ entry'[a] = entry[a]
                             \/ entry'[a] = NoRow
                             \/ CopyFits(a, entry'[a]) /\ NoNews(a, entry'[a].seq)
    <2>1. CASE UNCHANGED entry
      BY <1>0, <2>1 DEF ClientInv, EntriesFit
    <2>2. CASE ApplyRemote(m) /\ ~Ignores(m)
      <3>1. m.kind = "delta" /\ entry[m.asset] # NoRow
        BY <2>2 DEF ApplyRemote, Ignores
      <3>2. /\ m.patch \in Patch /\ m.visible \in BOOLEAN /\ m.seq \in 0..MaxSeq
            /\ NoNews(m.asset, m.seq)
        BY <1>2, <3>1, MaxSeqAssumption DEF MessageFits, Delta, Added, Deleted, Seqs
      <3>3. PICK new : /\ new = Merge(entry[m.asset], m.patch, m.visible, m.seq)
                       /\ entry' = [entry EXCEPT ![m.asset] = new]
        BY <2>2 DEF ApplyRemote
      <3>4. CopyFits(m.asset, new) /\ new.seq = m.seq
        BY <1>0, <1>2, <3>1, <3>2, <3>3, MergeFits DEF ClientInv, EntriesFit
      <3>5. new \in Row
        BY <3>4 DEF CopyFits
      <3> QED BY <1>0, <1>2, <3>2, <3>3, <3>4, <3>5 DEF ClientInv, EntriesFit, Table
    <2>3. CASE ApplyAdded(m)
      <3>1. CopyFits(m.asset, m.row) /\ m.row.seq = 0 /\ m.row \in Row
        BY <1>2, <2>3 DEF ApplyAdded, MessageFits, CopyFits
      <3>2. NoNews(m.asset, 0)
        <4>1. Known(m.asset) /\ (row[m.asset] # NoRow => row[m.asset] \in Row)
          BY <1>2, <3>1 DEF CopyFits, CanvasInv, StoreInv, TypeOK
        <4>2. Whole(m.asset) => 0 <= row[m.asset].seq
          BY <4>1, MaxSeqAssumption DEF Whole, Row
        <4> QED BY <4>1, <4>2 DEF NoNews
      <3> QED BY <1>0, <1>2, <2>3, <3>1, <3>2 DEF ApplyAdded, ClientInv, EntriesFit, Table
    <2>4. CASE ApplyDeleted(m)
      BY <1>0, <1>2, <2>4 DEF ApplyDeleted, ClientInv, EntriesFit, Table
    <2> QED BY <1>1, <2>1, <2>2, <2>3, <2>4 DEF ApplyRemote
  <1> QED BY <1>0, <1>3, <1>4, <1>5, HeardFits DEF SnapsFit

LEMMA SetAssetsFits ==
  ASSUME CanvasInv, NEW k \in Slots, SetAssets(k)
  PROVE  CanvasInv'
  <1>0. SnapsFit /\ ClientInv
    BY DEF CanvasInv
  <1>1. /\ UNCHANGED <<vars, net, connected, settle, edits, aborts, drops>>
        /\ UNCHANGED <<dragging, editing, unsent, lastSeq, requests>>
        /\ snap[k] \notin {Free, Asked} /\ snap' = [snap EXCEPT ![k] = Free]
    BY DEF SetAssets, SnapshotArrives
  <1>2. TableFits(snap[k])
    BY <1>0, <1>1 DEF SnapsFit
  <1>3. drops = 0 => connected
    BY <1>0, <1>1 DEF ClientInv, NothingYet
  <1>4. /\ entry' \in Table
        /\ \A a \in Assets : \/ entry'[a] = entry[a]
                             \/ entry'[a] = NoRow
                             \/ CopyFits(a, entry'[a]) /\ NoNews(a, entry'[a].seq)
    <2>1. entry \in Table /\ snap[k] \in Table
      BY <1>0, <1>2 DEF ClientInv, EntriesFit, TableFits
    <2>2. entry' = [a \in Assets |-> entry'[a]]
      BY DEF SetAssets, ApplyAll, StopAtRemnant
    <2>3. \A a \in Assets : entry'[a] \in {entry[a], snap[k][a]}
      BY DEF SetAssets, ApplyAll, StopAtRemnant
    <2>4. entry' \in Table
      BY <2>1, <2>2, <2>3 DEF Table
    <2> QED BY <1>2, <2>3, <2>4 DEF TableFits
  <1>5. settle' \in BOOLEAN /\ snap' = [i \in Slots |-> snap'[i]]
        /\ \A i \in Slots : snap'[i] = snap[i] \/ snap'[i] = Free
    BY <1>0, <1>1 DEF ClientInv, CountersTypeOK, SnapsFit
  <1> QED BY <1>1, <1>3, <1>4, <1>5, HeardFits

----------------------------------------------------------------------------
(* The user's edits.                                                       *)

(* The table, the connection and what comes from it are left alone; one    *)
(* entry changes, and a seq that is new is on its way if there is a socket.*)
LEMMA EditFits ==
  ASSUME CanvasInv, UNCHANGED <<vars, channelVars>>, HandsTypeOK',
         requests \subseteq requests', RequestsFit',
         NEW a \in Assets, entry[a] # NoRow,
         NEW e, entry' = [entry EXCEPT ![a] = e], CopyFits(a, e),
         e.seq = entry[a].seq \/ NoNews(a, e.seq) \/ (connected => OnItsWay(a, e.seq)')
  PROVE  CanvasInv'
  <1>0. NetFits /\ SnapsFit /\ ClientInv
    BY DEF CanvasInv
  <1>1. StoreInv' /\ RowsDrawn' /\ JobsFit' /\ Ages /\ GoesOn
    BY TableRests, RestGoesOn DEF vars
  <1>2. NetFits' /\ SnapsFit'
    BY <1>0, <1>1, NetKept, SnapsKept DEF SnapsFit, channelVars
  <1>3. drops = 0 => connected
    BY <1>0 DEF ClientInv, NothingYet
  <1>4. EntriesFit'
    <2>1. entry' \in Table
      BY <1>0 DEF ClientInv, EntriesFit, Table, CopyFits
    <2>2. ASSUME NEW b \in Assets, entry'[b] # NoRow, NEW f, NEW s,
                 f = entry'[b], s = f.seq
          PROVE  /\ CopyFits(b, f)'
                 /\ Unharmed' => NoNews(b, s)' \/ OnItsWay(b, s)'
      <3>1. CASE b # a \/ (b = a /\ e.seq = entry[a].seq)
        <4>1. CopyFits(b, f) /\ (Unharmed => NoNews(b, s) \/ OnItsWay(b, s))
          BY <1>0, <2>2, <3>1 DEF ClientInv, EntriesFit, Table
        <4>2. s \in 0..MaxSeq /\ Known(b)
          BY <2>2, <4>1 DEF CopyFits, Row
        <4>3. CopyFits(b, f)'
          BY <1>1, <4>1, CopyFitsStill
        <4> QED BY <1>1, <4>1, <4>2, <4>3 DEF Ages, GoesOn, Unharmed, channelVars
      <3>2. CASE b = a /\ (connected => OnItsWay(a, e.seq)')
        <4>1. f = e
          BY <1>0, <2>2, <3>2 DEF ClientInv, EntriesFit, Table
        <4>2. CopyFits(b, f)'
          BY <1>1, <3>2, <4>1, CopyFitsStill
        <4> QED BY <1>3, <2>2, <3>2, <4>1, <4>2 DEF Unharmed, channelVars
      <3>3. CASE b = a /\ NoNews(a, e.seq)
        <4>1. f = e /\ s \in 0..MaxSeq
          BY <1>0, <2>2, <3>3 DEF ClientInv, EntriesFit, Table, CopyFits, Row
        <4>2. CopyFits(b, f)' /\ NoNews(b, s)'
          BY <1>1, <2>2, <3>3, <4>1, CopyFitsStill DEF Ages
        <4> QED BY <4>2
      <3> QED BY <3>1, <3>2, <3>3
    <2> QED BY <2>1, <2>2 DEF EntriesFit
  <1>5. NothingYet' /\ CountersTypeOK'
    BY <1>0, <1>3 DEF ClientInv, NothingYet, CountersTypeOK, channelVars
  <1> QED BY <1>1, <1>2, <1>4, <1>5 DEF CanvasInv, ClientInv

(* The hands move, the entries stay.                                       *)
LEMMA HandsFit ==
  ASSUME CanvasInv, UNCHANGED <<vars, channelVars, entry, requests>>, HandsTypeOK'
  PROVE  CanvasInv'
  <1>0. NetFits /\ SnapsFit /\ ClientInv
    BY DEF CanvasInv
  <1>1. StoreInv' /\ RowsDrawn' /\ JobsFit' /\ Ages /\ GoesOn
    BY TableRests, RestGoesOn DEF vars
  <1>2. NetFits' /\ SnapsFit' /\ RequestsFit' /\ EntriesFit'
    BY <1>0, <1>1, NetKept, SnapsKept, RequestsKept, EntriesKept
       DEF ClientInv, SnapsFit, channelVars, Unharmed
  <1>3. NothingYet' /\ CountersTypeOK'
    BY <1>0 DEF ClientInv, NothingYet, CountersTypeOK, channelVars
  <1> QED BY <1>1, <1>2, <1>3 DEF CanvasInv, ClientInv

(* What the hands hold.                                                    *)
GraspTypeOK ==
  /\ dragging \in Gesture \cup {None}
  /\ editing \in Assets \cup {None}
  /\ unsent \subseteq Assets

(* An entry that is changed without a seq of its own.                      *)
LEMMA ChangeFits ==
  ASSUME CanvasInv, UNCHANGED <<vars, channelVars>>, GraspTypeOK',
         NEW a \in Assets, entry[a] # NoRow, NEW e, CopyFits(a, e),
         e.seq = entry[a].seq, ChangeOnly(a, e)
  PROVE  CanvasInv'
  <1>1. HandsTypeOK'
    BY DEF CanvasInv, ClientInv, ChangeOnly, HandsTypeOK, GraspTypeOK
  <1>2. RequestsFit'
    BY TableRests, RequestsKept DEF CanvasInv, ClientInv, ChangeOnly
  <1> QED BY <1>1, <1>2, EditFits DEF ChangeOnly

(* An entry that is stamped and sent, with a message that can be parsed.   *)
LEMMA StampFits ==
  ASSUME CanvasInv, UNCHANGED <<vars, channelVars>>, GraspTypeOK',
         NEW a \in Assets, entry[a] # NoRow, NEW e, CopyFits(a, e),
         NEW kind \in {"move", "resize", "update"}, NEW patch \in Patch,
         a \notin deleted => /\ kind # "update" => patch.x # Missing
                             /\ kind = "resize" => patch.width # Missing,
         NEW stamps, stamps \subseteq NextSeq, StampAndSend(kind, a, e, patch, stamps)
  PROVE  CanvasInv'
  <1>1. PICK seq \in stamps :
          /\ lastSeq' = seq
          /\ entry' = [entry EXCEPT ![a] = [e EXCEPT !.seq = seq]]
          /\ requests' = IF connected
                           THEN requests \cup {[kind |-> kind, asset |-> a,
                                                patch |-> patch, seq |-> seq]}
                           ELSE requests
    BY DEF StampAndSend
  <1>2. seq \in Seqs /\ seq \in 0..MaxSeq
    <2>1. seq \in (lastSeq + 1)..MaxSeq /\ lastSeq \in 0..MaxSeq
      BY <1>1 DEF NextSeq, CanvasInv, ClientInv, HandsTypeOK
    <2> QED BY <2>1, MaxSeqAssumption DEF Seqs
  <1>3. PICK q : q = [kind |-> kind, asset |-> a, patch |-> patch, seq |-> seq]
    OBVIOUS
  <1>4. /\ q \in Request /\ q.kind = kind /\ q.asset = a
        /\ q.patch = patch /\ q.seq = seq
    BY <1>2, <1>3 DEF Request
  <1>5. RequestFits(q)
    BY <1>4 DEF RequestFits, Parses, CopyFits
  <1>6. Ages
    BY TableRests
  <1>7. RequestsFit'
    <2> SUFFICES ASSUME NEW r \in requests' PROVE RequestFits(r)'
      BY DEF RequestsFit
    <2>1. RequestFits(r)
      BY <1>1, <1>3, <1>5 DEF CanvasInv, ClientInv, RequestsFit
    <2> QED BY <1>6, <2>1, RequestFitsStill
  <1>8. HandsTypeOK'
    BY <1>1, <1>2 DEF HandsTypeOK, GraspTypeOK
  <1>9. PICK f : f = [e EXCEPT !.seq = seq]
    OBVIOUS
  <1>10. CopyFits(a, f) /\ f.seq = seq
    <2>1. /\ f \in Row /\ f.seq = seq
          /\ f.x = e.x /\ f.width = e.width /\ f.type = e.type
      BY <1>2, <1>9 DEF CopyFits, Row
    <2> QED BY <2>1 DEF CopyFits, Drawn
  <1>11. connected => OnItsWay(a, seq)'
    BY <1>1, <1>3, <1>4 DEF OnItsWay
  <1> QED BY <1>1, <1>7, <1>8, <1>9, <1>10, <1>11, EditFits

(* The messages an entry is sent with.                                     *)
LEMMA PatchOfFits ==
  ASSUME NEW a, NEW e, CopyFits(a, e), NEW kind \in {"move", "resize", "update"}
  PROVE  /\ PatchOf(kind, e) \in Patch
         /\ a \notin deleted => /\ kind # "update" => PatchOf(kind, e).x # Missing
                                /\ kind = "resize" => PatchOf(kind, e).width # Missing
  <1>1. e \in Row /\ (a \notin deleted => Drawn(e))
    BY DEF CopyFits
  <1>2. CASE kind = "move"
    BY <1>1, <1>2 DEF PatchOf, Carry, Patch, Row, OrMissing, Drawn
  <1>3. CASE kind = "resize"
    BY <1>1, <1>3 DEF PatchOf, Carry, Patch, Row, OrMissing, Drawn
  <1>4. CASE kind = "update"
    BY <1>1, <1>4 DEF PatchOf, Carry, Patch, Row, OrMissing, Drawn
  <1> QED BY <1>2, <1>3, <1>4

(* What an edit makes of an entry is a copy that fits.                     *)
LEMMA PlacedFits ==
  ASSUME NEW a, NEW e, CopyFits(a, e), NEW x \in Positions, NEW f, f = [e EXCEPT !.x = x]
  PROVE  CopyFits(a, f) /\ f.seq = e.seq
  <1>1. f \in Row /\ f.seq = e.seq /\ f.x = x /\ f.width = e.width /\ f.type = e.type
    BY DEF CopyFits, Row, OrMissing
  <1> QED BY <1>1, SentinelAssumption DEF CopyFits, Drawn

LEMMA SizedFits ==
  ASSUME NEW a, NEW e, CopyFits(a, e), NEW w \in Widths, NEW f, f = [e EXCEPT !.width = w]
  PROVE  CopyFits(a, f) /\ f.seq = e.seq
  <1>1. f \in Row /\ f.seq = e.seq /\ f.x = e.x /\ f.width = w /\ f.type = e.type
    BY DEF CopyFits, Row, OrMissing
  <1> QED BY <1>1, SentinelAssumption DEF CopyFits, Drawn

LEMMA HiddenFits ==
  ASSUME NEW a, NEW e, CopyFits(a, e), NEW hidden \in BOOLEAN,
         NEW f, f = [e EXCEPT !.hidden = hidden]
  PROVE  CopyFits(a, f)
  <1>1. f \in Row /\ f.x = e.x /\ f.width = e.width /\ f.type = e.type
    BY DEF CopyFits, Row, OrMissing
  <1> QED BY <1>1 DEF CopyFits, Drawn

(* Every edit changes at most one entry, and keeps its seq or stamps and   *)
(* sends it.                                                               *)
Changes ==
  \E a \in Assets, e \in Row :
    /\ entry[a] # NoRow /\ CopyFits(a, e) /\ e.seq = entry[a].seq
    /\ ChangeOnly(a, e)

Sends ==
  \E a \in Assets, e \in Row, kind \in {"move", "resize", "update"}, patch \in Patch,
     stamps \in SUBSET NextSeq :
    /\ entry[a] # NoRow /\ CopyFits(a, e)
    /\ a \notin deleted => /\ kind # "update" => patch.x # Missing
                           /\ kind = "resize" => patch.width # Missing
    /\ StampAndSend(kind, a, e, patch, stamps)

(* The edit of a remnant's clip throws before it is sent.                  *)
Throws ==
  \E a \in Assets, e \in Row, seq \in 0..MaxSeq :
    /\ entry[a] # NoRow /\ a \in deleted /\ CopyFits(a, e)
    /\ entry' = [entry EXCEPT ![a] = e]
    /\ lastSeq' = seq /\ UNCHANGED requests
    /\ seq = lastSeq => e.seq = entry[a].seq

Leaves == UNCHANGED <<entry, lastSeq, requests>>

LEMMA ThrowsFits ==
  ASSUME CanvasInv, UNCHANGED <<vars, channelVars>>, GraspTypeOK', Throws
  PROVE  CanvasInv'
  <1>1. PICK a \in Assets, e \in Row, seq \in 0..MaxSeq :
          /\ entry[a] # NoRow /\ a \in deleted /\ CopyFits(a, e)
          /\ entry' = [entry EXCEPT ![a] = e]
          /\ lastSeq' = seq /\ UNCHANGED requests
    BY DEF Throws
  <1>2. NoNews(a, e.seq)
    BY <1>1 DEF NoNews, CopyFits, Whole, CanvasInv, StoreInv, RemnantIffDeleted
  <1>3. HandsTypeOK'
    BY <1>1 DEF HandsTypeOK, GraspTypeOK
  <1>4. RequestsFit'
    BY <1>1, TableRests, RequestsKept DEF CanvasInv, ClientInv
  <1> QED BY <1>1, <1>2, <1>3, <1>4, EditFits

LEMMA SetFieldsThrowsActs ==
  ASSUME CanvasInv, NEW a \in Assets, entry[a] # NoRow, SetFieldsThrows(a)
  PROVE  Throws
  <1>1. PICK old : old = entry[a]
    OBVIOUS
  <1>2. CopyFits(a, old) /\ a \in deleted
    BY <1>1 DEF CanvasInv, ClientInv, EntriesFit, CopyFits, SetFieldsThrows, Remnant
  <1>3. old \in Row /\ lastSeq \in 0..MaxSeq /\ entry = [b \in Assets |-> entry[b]]
    BY <1>2 DEF CopyFits, CanvasInv, ClientInv, HandsTypeOK, EntriesFit, Table
  <1>4. \A e \in Row : CopyFits(a, e)
    BY <1>2 DEF CopyFits
  <1>5. \A seq \in NextSeq : seq \in 0..MaxSeq /\ seq # lastSeq
    BY <1>3, MaxSeqAssumption DEF NextSeq
  <1>6. ASSUME NEW x \in Positions, NEW seq \in NextSeq, lastSeq' = seq,
               entry' = [entry EXCEPT ![a].x = x, ![a].seq = seq]
        PROVE  Throws
    <2>1. PICK e : e = [old EXCEPT !.x = x, !.seq = seq]
      OBVIOUS
    <2>2. e \in Row /\ entry' = [entry EXCEPT ![a] = e]
      BY <1>1, <1>3, <1>5, <1>6, <2>1 DEF Row, OrMissing
    <2> QED BY <1>2, <1>4, <1>5, <1>6, <2>2 DEF Throws, SetFieldsThrows
  <1>7. ASSUME NEW w \in Widths, NEW seq \in NextSeq, lastSeq' = seq,
               entry' = [entry EXCEPT ![a].width = w, ![a].seq = seq]
        PROVE  Throws
    <2>1. PICK e : e = [old EXCEPT !.width = w, !.seq = seq]
      OBVIOUS
    <2>2. e \in Row /\ entry' = [entry EXCEPT ![a] = e]
      BY <1>1, <1>3, <1>5, <1>7, <2>1 DEF Row, OrMissing
    <2> QED BY <1>2, <1>4, <1>5, <1>7, <2>2 DEF Throws, SetFieldsThrows
  <1>8. ASSUME NEW hidden \in Hiddens, lastSeq' = lastSeq,
               entry' = [entry EXCEPT ![a].hidden = hidden]
        PROVE  Throws
    <2>1. PICK e : e = [old EXCEPT !.hidden = hidden]
      OBVIOUS
    <2>2. e \in Row /\ e.seq = old.seq /\ entry' = [entry EXCEPT ![a] = e]
      BY <1>1, <1>3, <1>8, <2>1, GeometryAssumption DEF Row, OrMissing
    <2> QED BY <1>1, <1>2, <1>3, <1>4, <1>8, <2>2 DEF Throws, SetFieldsThrows
  <1> QED BY <1>6, <1>7, <1>8 DEF SetFieldsThrows

LEMMA SendsWhole ==
  ASSUME NEW a \in Assets, entry[a] # NoRow, NEW e, CopyFits(a, e),
         NEW kind \in {"move", "resize", "update"}, NEW stamps, stamps \subseteq NextSeq,
         StampAndSend(kind, a, e, PatchOf(kind, e), stamps)
  PROVE  Sends
  <1>1. PICK patch : patch = PatchOf(kind, e)
    OBVIOUS
  <1>2. /\ patch \in Patch
        /\ a \notin deleted => /\ kind # "update" => patch.x # Missing
                               /\ kind = "resize" => patch.width # Missing
    BY <1>1, PatchOfFits
  <1>3. e \in Row /\ StampAndSend(kind, a, e, patch, stamps)
    BY <1>1 DEF CopyFits
  <1> QED BY <1>2, <1>3 DEF Sends

LEMMA PointerActs ==
  ASSUME CanvasInv, Pointer
  PROVE  /\ UNCHANGED <<vars, channelVars>> /\ GraspTypeOK'
         /\ Leaves \/ Changes \/ Sends \/ Throws
  <1>0. /\ EntriesFit /\ GraspTypeOK /\ SpareSeq \subseteq NextSeq
        /\ \A a \in Assets : entry[a] # NoRow => CopyFits(a, entry[a])
    BY DEF CanvasInv, ClientInv, HandsTypeOK, GraspTypeOK, EntriesFit, SpareSeq
  <1>1. PICK a \in Assets :
          \/ \E how \in {"move", "resize"} : MouseDown(how, a)
          \/ \E x \in Positions, w \in Widths : MouseMove(a, x, w)
          \/ SetFields(a)
          \/ BeginInlineTextEdit(a)
          \/ \E w \in Widths : Keystroke(a, w)
    BY DEF Pointer
  <1>2. ASSUME NEW how \in {"move", "resize"}, MouseDown(how, a)
        PROVE  UNCHANGED <<vars, channelVars>> /\ GraspTypeOK' /\ Leaves
    BY <1>0, <1>2 DEF MouseDown, GraspTypeOK, Gesture, Leaves
  <1>3. ASSUME NEW x \in Positions, NEW w \in Widths, MouseMove(a, x, w)
        PROVE  UNCHANGED <<vars, channelVars>> /\ GraspTypeOK' /\ (Changes \/ Sends)
    <2>0. PICK moved : moved = [entry[a] EXCEPT !.x = x, !.width = w]
      OBVIOUS
    <2>1. PICK how \in {"move", "resize"} :
            /\ moved = [entry[a] EXCEPT !.x = x, !.width = w]
            /\ \/ ChangeOnly(a, moved)
               \/ StampAndSend(how, a, moved, PatchOf(how, moved), SpareSeq)
      BY <1>3, <2>0 DEF MouseMove
    <2>a. PICK e : e = entry[a]
      OBVIOUS
    <2>b. entry[a] # NoRow /\ CopyFits(a, e)
      BY <1>0, <1>3, <2>a DEF MouseMove
    <2>2. entry[a] # NoRow /\ CopyFits(a, moved) /\ moved.seq = entry[a].seq
      <3>1. moved = [e EXCEPT !.x = x, !.width = w]
        BY <2>1, <2>a
      <3>2. /\ moved \in Row /\ moved.seq = e.seq /\ moved.type = e.type
            /\ moved.x = x /\ moved.width = w
        BY <2>b, <3>1 DEF CopyFits, Row, OrMissing
      <3>3. CopyFits(a, moved)
        BY <2>b, <3>2, SentinelAssumption DEF CopyFits, Drawn
      <3> QED BY <2>a, <2>b, <3>2, <3>3
    <2>3. moved \in Row
      BY <2>2 DEF CopyFits
    <2>4. Changes \/ Sends
      BY <1>0, <2>1, <2>2, <2>3, SendsWhole DEF Changes
    <2> QED BY <1>0, <1>3, <2>4 DEF MouseMove, GraspTypeOK
  <1>4. CASE SetFields(a)
    <2>1. UNCHANGED <<vars, channelVars>> /\ GraspTypeOK' /\ entry[a] # NoRow
      BY <1>0, <1>4 DEF SetFields, GraspTypeOK
    <2>2. PICK old : old = entry[a] /\ CopyFits(a, old)
      BY <1>0, <2>1
    <2>3. ASSUME NEW x \in Positions, SetPosition(a, x) PROVE Sends
      <3>1. PICK e : e = [entry[a] EXCEPT !.x = x]
        OBVIOUS
      <3>2. CopyFits(a, e) /\ StampAndSend("move", a, e, PatchOf("move", e), NextSeq)
        <4>1. CopyFits(a, e)
          BY <2>2, <3>1, PlacedFits
        <4> QED BY <2>3, <3>1, <4>1 DEF SetPosition
      <3> QED BY <2>1, <3>2, SendsWhole
    <2>4. ASSUME NEW w \in Widths, SetSize(a, w) PROVE Sends
      <3>1. PICK e : e = [entry[a] EXCEPT !.width = w]
        OBVIOUS
      <3>2. CopyFits(a, e) /\ StampAndSend("resize", a, e, PatchOf("resize", e), NextSeq)
        <4>1. CopyFits(a, e)
          BY <2>2, <3>1, SizedFits
        <4> QED BY <2>4, <3>1, <4>1 DEF SetSize
      <3> QED BY <2>1, <3>2, SendsWhole
    <2>5. ASSUME NEW hidden \in Hiddens, PatchAsset(a, hidden) PROVE Sends
      <3>1. PICK e, p : /\ e = [entry[a] EXCEPT !.hidden = hidden]
                        /\ p = Carry(Missing, Missing, hidden)
        OBVIOUS
      <3>2. CopyFits(a, e)
        BY <2>2, <3>1, HiddenFits, GeometryAssumption
      <3>3. StampAndSend("update", a, e, p, NextSeq)
        BY <2>5, <3>1 DEF PatchAsset
      <3>4. p \in Patch
        BY <3>1, CarryIsPatch, GeometryAssumption DEF OrMissing
      <3>5. e \in Row
        BY <3>2 DEF CopyFits
      <3> QED BY <2>1, <3>2, <3>3, <3>4, <3>5 DEF Sends
    <2>6. SetFieldsThrows(a) => Throws
      BY <2>1, SetFieldsThrowsActs
    <2> QED BY <1>4, <2>1, <2>3, <2>4, <2>5, <2>6 DEF SetFields
  <1>5. CASE BeginInlineTextEdit(a)
    BY <1>0, <1>5 DEF BeginInlineTextEdit, GraspTypeOK, Leaves
  <1>6. ASSUME NEW w \in Widths, Keystroke(a, w)
        PROVE  UNCHANGED <<vars, channelVars>> /\ GraspTypeOK' /\ (Changes \/ Sends)
    <2>1. PICK e : /\ e = [entry[a] EXCEPT !.width = w]
                   /\ \/ SendFullText(a, e, SpareSeq)
                      \/ ChangeOnly(a, e) /\ unsent' = unsent \cup {a}
      BY <1>6 DEF Keystroke
    <2>a. PICK old : old = entry[a]
      OBVIOUS
    <2>b. entry[a] # NoRow /\ CopyFits(a, old)
      BY <1>0, <1>6, <2>a DEF Keystroke
    <2>2. entry[a] # NoRow /\ CopyFits(a, e) /\ e.seq = entry[a].seq
      BY <2>1, <2>a, <2>b, SizedFits
    <2>3. e \in Row
      BY <2>2 DEF CopyFits
    <2>4. Changes \/ Sends
      BY <1>0, <2>1, <2>2, <2>3, SendsWhole DEF Changes, SendFullText
    <2>5. unsent' \subseteq Assets
      BY <1>0, <2>1 DEF SendFullText, GraspTypeOK
    <2> QED BY <1>0, <1>6, <2>4, <2>5 DEF Keystroke, GraspTypeOK
  <1> QED BY <1>1, <1>2, <1>3, <1>4, <1>5, <1>6

LEMMA ReleaseActs ==
  ASSUME CanvasInv, Release \/ Trailing
  PROVE  UNCHANGED <<vars, channelVars>> /\ GraspTypeOK' /\ (Leaves \/ Sends)
  <1>0. /\ GraspTypeOK /\ SpareSeq \subseteq NextSeq
        /\ \A a \in Assets : entry[a] # NoRow => CopyFits(a, entry[a])
    BY DEF CanvasInv, ClientInv, HandsTypeOK, GraspTypeOK, EntriesFit, SpareSeq
  <1>1. CASE MouseUp
    <2>1. PICK g \in Gesture : dragging = g
      BY <1>0, <1>1 DEF MouseUp, GraspTypeOK
    <2>2. g.asset \in Assets /\ g.how \in {"move", "resize", "update"}
      BY <2>1 DEF Gesture
    <2>3. Leaves \/ Sends
      BY <1>0, <1>1, <2>1, <2>2, SendsWhole DEF MouseUp, Leaves
    <2> QED BY <1>0, <1>1, <2>3 DEF MouseUp, GraspTypeOK
  <1>2. CASE Blur
    <2>1. PICK a \in Assets : editing = a
      BY <1>0, <1>2 DEF Blur, GraspTypeOK
    <2>2. Leaves \/ Sends
      BY <1>0, <1>2, <2>1, SendsWhole DEF Blur, SendFullText, Leaves
    <2>3. unsent' \subseteq Assets
      BY <1>0, <1>2 DEF Blur, SendFullText, GraspTypeOK
    <2> QED BY <1>0, <1>2, <2>2, <2>3 DEF Blur, GraspTypeOK
  <1>3. ASSUME NEW a \in Assets, TrailingSend(a)
        PROVE  UNCHANGED <<vars, channelVars>> /\ GraspTypeOK' /\ (Leaves \/ Sends)
    <2>1. Leaves \/ Sends
      BY <1>0, <1>3, SendsWhole DEF TrailingSend, SendFullText, Leaves
    <2>2. unsent' \subseteq Assets
      BY <1>0, <1>3 DEF TrailingSend, SendFullText, GraspTypeOK
    <2> QED BY <1>0, <1>3, <2>1, <2>2 DEF TrailingSend, GraspTypeOK
  <1> QED BY <1>1, <1>2, <1>3 DEF Release, Trailing

LEMMA UserStepFits ==
  ASSUME CanvasInv, Pointer \/ Release \/ Trailing
  PROVE  CanvasInv'
  <1>1. /\ UNCHANGED <<vars, channelVars>> /\ GraspTypeOK'
        /\ Leaves \/ Changes \/ Sends \/ Throws
    BY PointerActs, ReleaseActs
  <1>2. CASE Leaves
    <2>1. HandsTypeOK'
      BY <1>1, <1>2 DEF Leaves, GraspTypeOK, HandsTypeOK, CanvasInv, ClientInv
    <2> QED BY <1>1, <1>2, <2>1, HandsFit DEF Leaves
  <1>3. CASE Changes
    BY <1>1, <1>3, ChangeFits DEF Changes
  <1>4. CASE Sends
    <2>1. PICK a \in Assets, e \in Row, kind \in {"move", "resize", "update"},
               patch \in Patch, stamps \in SUBSET NextSeq :
            /\ entry[a] # NoRow /\ CopyFits(a, e)
            /\ a \notin deleted => /\ kind # "update" => patch.x # Missing
                                   /\ kind = "resize" => patch.width # Missing
            /\ StampAndSend(kind, a, e, patch, stamps)
      BY <1>4 DEF Sends
    <2> QED BY <1>1, <2>1, StampFits
  <1>5. CASE Throws
    BY <1>1, <1>5, ThrowsFits
  <1> QED BY <1>1, <1>2, <1>3, <1>4, <1>5

----------------------------------------------------------------------------
(* Every step of the room, the channel and the canvas keeps the invariant. *)
THEOREM CanvasNextInv == CanvasInv /\ [CanvasNext]_allVars => CanvasInv'
  <1> SUFFICES ASSUME CanvasInv, [CanvasNext]_allVars PROVE CanvasInv'
    OBVIOUS
  <1>1. CASE UNCHANGED allVars
    <2>1. HandsTypeOK'
      BY <1>1 DEF allVars, canvasVars, CanvasInv, ClientInv, HandsTypeOK
    <2> QED BY <1>1, <2>1, HandsFit DEF allVars, canvasVars
  <1> QED BY <1>1, UserStepFits, TakeRequestFits, LoseConnectionFits, DeliverFits,
             SetAssetsFits, ConnectionFits, ServerStepFits, RefuseRequestFits
          DEF CanvasNext

LEMMA CanvasInvHolds ==
  ASSUME CanvasInv
  PROVE  CanvasTypeOK /\ AheadOnlyWhilePending
  <1>1. CanvasTypeOK
    <2>1. TypeOK
      BY DEF CanvasInv, StoreInv
    <2>2. ChannelTypeOK
      BY DEF CanvasInv, ClientInv, CountersTypeOK, ChannelTypeOK, NetFits, MessageFits,
             SnapsFit, TableFits
    <2>3. entry \in Table /\ requests \subseteq Request
      BY DEF CanvasInv, ClientInv, EntriesFit, RequestsFit, RequestFits
    <2> QED BY <2>1, <2>2, <2>3 DEF CanvasTypeOK, CanvasInv, ClientInv, HandsTypeOK
  <1>2. AheadOnlyWhilePending
    <2> SUFFICES ASSUME drops = 0, aborts = 0,
                        NEW a \in Assets, Whole(a), entry[a] # NoRow,
                        entry[a].seq > row[a].seq, ~OnItsWay(a, entry[a].seq)
                 PROVE  FALSE
      BY DEF AheadOnlyWhilePending, Stranded
    <2>1. entry[a].seq <= row[a].seq
      BY DEF CanvasInv, ClientInv, EntriesFit, Unharmed, NoNews
    <2>2. entry[a].seq \in Nat /\ row[a].seq \in Nat
      BY MaxSeqAssumption DEF CanvasInv, ClientInv, EntriesFit, CopyFits, Whole, StoreInv,
                              TypeOK, Row
    <2> QED BY <2>1, <2>2
  <1> QED BY <1>1, <1>2

(* canvas.ts:649-683: an entry ahead of its row belongs to an edit that is *)
(* on its way, as long as nothing has dropped the connection or failed;    *)
(* and whatever arrives in whatever order, every entry is a row.           *)
THEOREM CanvasInvariance == CanvasSpec => [](CanvasTypeOK /\ AheadOnlyWhilePending)
  BY CanvasInvHolds, CanvasInitInv, CanvasNextInv, PTL DEF CanvasSpec

----------------------------------------------------------------------------
(* Nothing from the room goes backwards.                                   *)
Backwards(a) ==
  /\ lastSeq' = lastSeq
  /\ entry[a] # NoRow /\ entry'[a] # NoRow
  /\ entry'[a].seq < entry[a].seq

LEMMA EntrySeqs ==
  ASSUME CanvasInv, NEW a \in Assets, entry[a] # NoRow
  PROVE  entry[a] \in Row /\ entry[a].seq \in Nat
  BY MaxSeqAssumption DEF CanvasInv, ClientInv, EntriesFit, CopyFits, Row

(* An edit that stamps a seq raises lastSeq, the others keep the seq.      *)
LEMMA UserStepsForward ==
  ASSUME CanvasInv, Pointer \/ Release \/ Trailing, NEW a \in Assets
  PROVE  ~Backwards(a)
  <1>0. entry = [b \in Assets |-> entry[b]] /\ (entry[a] # NoRow => entry[a].seq \in Nat)
    BY EntrySeqs DEF CanvasInv, ClientInv, EntriesFit, Table
  <1>1. CASE Leaves
    BY <1>0, <1>1 DEF Leaves, Backwards
  <1>2. CASE Changes
    BY <1>0, <1>2 DEF Changes, ChangeOnly, Backwards
  <1>3. CASE Sends
    <2>1. PICK seq \in NextSeq : lastSeq' = seq
      BY <1>3 DEF Sends, StampAndSend
    <2>2. lastSeq \in 0..MaxSeq /\ seq \in (lastSeq + 1)..MaxSeq
      BY <2>1 DEF NextSeq, CanvasInv, ClientInv, HandsTypeOK
    <2>3. lastSeq' # lastSeq
      BY <2>1, <2>2
    <2> QED BY <2>3 DEF Backwards
  <1>4. CASE Throws
    BY <1>0, <1>4 DEF Throws, Backwards
  <1> QED BY <1>1, <1>2, <1>3, <1>4, PointerActs, ReleaseActs

LEMMA DeliverForward ==
  ASSUME CanvasInv, Deliver, NEW a \in Assets, Backwards(a)
  PROVE  entry'[a].seq = 0
  <1>0. entry \in Table /\ entry[a].seq \in Nat
    BY EntrySeqs DEF CanvasInv, ClientInv, EntriesFit, Backwards
  <1>1. PICK m \in net : ApplyRemote(m) \/ ApplyAdded(m) \/ ApplyDeleted(m)
    BY DEF Deliver
  <1>2. MessageFits(m)
    BY DEF CanvasInv, NetFits
  <1>3. CASE entry'[a] = entry[a]
    BY <1>0, <1>3 DEF Backwards
  <1>4. CASE ApplyRemote(m) /\ ~Ignores(m) /\ a = m.asset
    <2>1. /\ entry'[a] = Merge(entry[a], m.patch, m.visible, m.seq)
          /\ ~(m.seq < entry[a].seq)
      BY <1>0, <1>4 DEF ApplyRemote, Ignores, Table, Backwards
    <2>2. entry[a] \in Row
      BY EntrySeqs DEF Backwards
    <2>3. entry'[a].seq = m.seq
      BY <2>1, <2>2 DEF Merge, Row
    <2> QED BY <2>1, <2>3 DEF Backwards
  <1>5. CASE ApplyAdded(m) /\ a = m.asset
    BY <1>0, <1>2, <1>5 DEF ApplyAdded, MessageFits, Table
  <1>6. CASE ApplyDeleted(m) /\ a = m.asset
    BY <1>0, <1>6 DEF ApplyDeleted, Table, Backwards
  <1>7. a # m.asset \/ (ApplyRemote(m) /\ Ignores(m)) => entry'[a] = entry[a]
    BY <1>0, <1>1 DEF ApplyRemote, ApplyAdded, ApplyDeleted, Table
  <1> QED BY <1>1, <1>3, <1>4, <1>5, <1>6, <1>7

LEMMA SetAssetsForward ==
  ASSUME CanvasInv, NEW k \in Slots, SetAssets(k), NEW a \in Assets
  PROVE  ~Backwards(a)
  <1>1. \/ entry'[a] = entry[a]
        \/ entry'[a] = snap[k][a] /\ ~Keeps(a, snap[k][a])
    BY DEF SetAssets, ApplyAll, StopAtRemnant, Taken
  <1>2. CASE entry'[a] = entry[a]
    <2>1. entry[a] # NoRow => entry[a].seq \in Nat
      BY EntrySeqs
    <2> QED BY <1>2, <2>1 DEF Backwards
  <1>3. CASE entry'[a] = snap[k][a] /\ ~Keeps(a, snap[k][a])
    BY <1>3 DEF Keeps, Backwards
  <1> QED BY <1>1, <1>2, <1>3

LEMMA CanvasForward ==
  ASSUME CanvasInv, [CanvasNext]_allVars, NEW a \in Assets, Backwards(a)
  PROVE  entry'[a].seq = 0
  <1>1. entry[a].seq \in Nat
    BY EntrySeqs DEF Backwards
  <1>2. CASE UNCHANGED entry
    BY <1>1, <1>2 DEF Backwards
  <1>3. CASE Pointer \/ Release \/ Trailing
    BY <1>3, UserStepsForward
  <1>4. CASE Deliver
    BY <1>4, DeliverForward
  <1>5. ASSUME NEW k \in Slots, SetAssets(k) PROVE FALSE
    BY <1>5, SetAssetsForward
  <1> QED BY <1>2, <1>3, <1>4, <1>5
          DEF CanvasNext, TakeRequest, RefuseRequest, LoseConnection, canvasVars, allVars

(* canvas.ts:649-683: however broadcasts, snapshots and edits interleave,  *)
(* an entry is never replaced by an older one, but for the addition that   *)
(* started it.                                                             *)
THEOREM CanvasMovesForward == CanvasSpec => NeverBackwards
  <1>1. CanvasInv /\ [CanvasNext]_allVars =>
          [\A a \in Assets :
             (/\ lastSeq' = lastSeq
              /\ entry[a] # NoRow /\ entry'[a] # NoRow
              /\ entry'[a].seq < entry[a].seq)
             => entry'[a].seq = 0]_allVars
    BY CanvasForward DEF Backwards
  <1> QED BY <1>1, CanvasInitInv, CanvasNextInv, PTL DEF CanvasSpec, NeverBackwards

----------------------------------------------------------------------------
(* TextEditing.  The row is what the last write that won has made it, and  *)
(* an editor's stamps only rise.                                           *)
StampsFit ==
  /\ textRow.seq = wrote.seq
  /\ wrote.words # Absent => textRow.words = wrote.words
  /\ wrote.style # Absent => textRow.style = wrote.style
  /\ \A p \in posts : p.seq <= clock[p.from]
  /\ wrote.from # Absent => wrote.seq <= clock[wrote.from]

(* The typist's copy has the text, and unless a send is to come, the last  *)
(* of the typist's sends has it too, and has not been refused.             *)
TextIsLast(q) ==
  /\ q.from = typed.by /\ q.words = typed.words /\ q.seq <= clock[q.from]
  /\ q \in posts \/ (textRow.words = typed.words /\ q.seq <= textRow.seq)
  /\ \A p \in posts \cup {wrote} :
       (p.from = typed.by /\ p.words # Absent /\ p # q) => p.seq < q.seq

TextFits ==
  ~textExcused =>
    IF typed.by = Absent THEN textRow.words = typed.words
    ELSE /\ draft[typed.by].words = typed.words
         /\ typed.by \in trailing \/ \E q \in Posts : TextIsLast(q)

(* The same of the style, which is sent at once.                           *)
StyleIsLast(q) ==
  /\ q.from = styled.by /\ q.style = styled.style /\ q.seq <= clock[q.from]
  /\ q \in posts \/ (textRow.style = styled.style /\ q.seq <= textRow.seq)
  /\ \A p \in posts \cup {wrote} :
       (p.from = styled.by /\ p.style # Absent /\ p # q) => p.seq < q.seq

StyleFits ==
  ~styleExcused =>
    IF styled.by = Absent THEN textRow.style = styled.style
    ELSE /\ draft[styled.by].style = styled.style
         /\ \E q \in Posts : StyleIsLast(q)

EditingInv == TextTypeOK /\ StampsFit /\ TextFits /\ StyleFits

(* Nobody has typed yet, and the row is as it was.                         *)
THEOREM EditingInitInv == TextInit => EditingInv
  <1> SUFFICES ASSUME TextInit PROVE EditingInv
    OBVIOUS
  <1>1. 0 \in TextSeqs /\ 0 \in 0..MaxStrokes
    BY TextBoundsAssumption DEF TextSeqs
  <1>2. textRow \in TextRows
    BY <1>1, TextAssumption DEF TextInit, TextRows
  <1>3. TextTypeOK
    BY <1>1, <1>2, TextAssumption DEF TextInit, TextTypeOK
  <1>4. StampsFit
    BY DEF TextInit, StampsFit, NoPost
  <1>5. TextFits /\ StyleFits
    BY DEF TextInit, TextFits, StyleFits
  <1> QED BY <1>3, <1>4, <1>5 DEF EditingInv

(* What a send does: a message above all of its sender's, of the copy.     *)
SendsPost(w, d, n) ==
  /\ n \in Posts /\ n.from = w
  /\ clock[w] < n.seq
  /\ clock' = [clock EXCEPT ![w] = n.seq]
  /\ draft' = [draft EXCEPT ![w] = [d EXCEPT !.seq = n.seq]]
  /\ posts' = posts \cup {n}

LEMMA StampSends ==
  ASSUME TextTypeOK, NEW w \in Writers, NEW d \in TextRows,
         NEW words \in Texts \cup {Absent}, NEW style \in Styles \cup {Absent},
         StampAndPost(w, d, words, style)
  PROVE  \E n \in Posts : SendsPost(w, d, n) /\ n.words = words /\ n.style = style
  <1>1. PICK seq \in (clock[w] + 1)..TextMaxSeq :
          /\ clock' = [clock EXCEPT ![w] = seq]
          /\ Draft(w, [d EXCEPT !.seq = seq])
          /\ posts' = posts \cup {[from |-> w, seq |-> seq, words |-> words, style |-> style]}
    BY DEF StampAndPost
  <1>2. clock[w] \in Nat /\ seq \in TextSeqs /\ clock[w] < seq
    BY TextBoundsAssumption DEF TextTypeOK, TextSeqs
  <1> DEFINE n == [from |-> w, seq |-> seq, words |-> words, style |-> style]
  <1>3. n \in Posts
    BY <1>2 DEF Posts
  <1>4. SendsPost(w, d, n)
    BY <1>1, <1>2, <1>3 DEF SendsPost, Draft
  <1> QED BY <1>3, <1>4

(* Types of what a send leaves.                                            *)
LEMMA SendTypes ==
  ASSUME TextTypeOK, StampsFit, NEW w \in Writers, NEW d \in TextRows, NEW n,
         SendsPost(w, d, n)
  PROVE  /\ clock' \in [Writers -> TextSeqs]
         /\ draft' \in [Writers -> TextRows]
         /\ posts' \subseteq Posts
         /\ \A p \in posts' : p.seq <= clock'[p.from]
         /\ \A v \in Writers : clock[v] <= clock'[v]
         /\ \A p \in posts : p.from = w => p.seq < n.seq
         /\ wrote.from = w => wrote.seq < n.seq
         /\ wrote.from # Absent => wrote.seq <= clock'[wrote.from]
  <1>1. n.seq \in TextSeqs /\ clock \in [Writers -> TextSeqs] /\ TextSeqs \subseteq Nat
    BY TextBoundsAssumption DEF SendsPost, Posts, TextTypeOK, TextSeqs
  <1>2. clock' \in [Writers -> TextSeqs] /\ posts' \subseteq Posts
    BY <1>1 DEF SendsPost, TextTypeOK
  <1>3. draft' \in [Writers -> TextRows]
    BY <1>1 DEF SendsPost, TextTypeOK, TextRows
  <1>4. /\ clock'[w] = n.seq
        /\ \A v \in Writers : v # w => clock'[v] = clock[v]
        /\ \A v \in Writers : clock[v] <= clock'[v]
    BY <1>1 DEF SendsPost
  <1>5. \A p \in posts : /\ p.seq \in Nat /\ p.from \in Writers
                         /\ p.seq <= clock[p.from]
    BY <1>1 DEF TextTypeOK, Posts, StampsFit
  <1>6. \A p \in posts' : p.seq <= clock'[p.from]
    <2> SUFFICES ASSUME NEW p \in posts' PROVE p.seq <= clock'[p.from]
      OBVIOUS
    <2>1. CASE p \in posts
      <3>1. clock[p.from] \in Nat /\ clock'[p.from] \in Nat /\ clock[p.from] <= clock'[p.from]
        BY <1>1, <1>2, <1>4, <1>5, <2>1
      <3> QED BY <1>5, <2>1, <3>1
    <2>2. CASE p = n
      BY <1>1, <1>4, <2>2 DEF SendsPost
    <2> QED BY <2>1, <2>2 DEF SendsPost
  <1>7. \A p \in posts : p.from = w => p.seq < n.seq
    BY <1>1, <1>5 DEF SendsPost
  <1>8. wrote.seq \in Nat /\ wrote.from \in Writers \cup {Absent}
    <2>1. CASE wrote \in Posts
      BY <1>1, <2>1 DEF Posts
    <2>2. CASE wrote = NoPost
      BY <2>2 DEF NoPost
    <2> QED BY <2>1, <2>2 DEF TextTypeOK
  <1>9. wrote.from = w => wrote.seq < n.seq
    BY <1>1, <1>8, TextAssumption DEF SendsPost, StampsFit
  <1>10. wrote.from # Absent => wrote.seq <= clock'[wrote.from]
    <2> SUFFICES ASSUME wrote.from # Absent PROVE wrote.seq <= clock'[wrote.from]
      OBVIOUS
    <2>1. wrote.from \in Writers /\ wrote.seq <= clock[wrote.from]
      BY <1>8 DEF StampsFit
    <2>2. clock[wrote.from] \in Nat /\ clock'[wrote.from] \in Nat
      BY <1>1, <1>2, <2>1
    <2> QED BY <1>4, <1>8, <2>1, <2>2
  <1> QED BY <1>2, <1>3, <1>4, <1>6, <1>7, <1>9, <1>10

(* A step that is no business of the text typed last leaves it safe.       *)
LEMMA TextKept ==
  ASSUME TextTypeOK, TextTypeOK', TextFits,
         typed' = typed,
         textExcused => textExcused',
         (typed.by # Absent /\ ~textExcused') => draft'[typed.by].words = typed.words,
         (typed.by = Absent /\ ~textExcused') => textRow'.words = typed.words,
         typed.by \in trailing => typed.by \in trailing',
         \A v \in Writers : clock[v] <= clock'[v],
         \A q \in Posts : (~textExcused' /\ TextIsLast(q)) =>
            q \in posts' \/ (textRow'.words = typed.words /\ q.seq <= textRow'.seq),
         \A p \in posts' \cup {wrote'} :
            (p.from = typed.by /\ p.words # Absent) => p \in posts \cup {wrote}
  PROVE  TextFits'
  <1> SUFFICES ASSUME ~textExcused', typed.by # Absent, typed.by \notin trailing
               PROVE  \E q \in Posts : TextIsLast(q)'
    BY DEF TextFits
  <1>1. PICK q \in Posts : TextIsLast(q)
    BY DEF TextFits
  <1>2. q.seq <= clock'[q.from]
    <2>1. q.from \in Writers /\ q.seq \in Nat
      BY TextBoundsAssumption DEF Posts, TextSeqs
    <2>2. clock[q.from] \in Nat /\ clock'[q.from] \in Nat
      BY <2>1, TextBoundsAssumption DEF TextTypeOK, TextSeqs
    <2> QED BY <1>1, <2>1, <2>2 DEF TextIsLast
  <1>3. TextIsLast(q)'
    BY <1>1, <1>2 DEF TextIsLast
  <1> QED BY <1>3

(* The same of the style picked last.                                      *)
LEMMA StyleKept ==
  ASSUME TextTypeOK, TextTypeOK', StyleFits,
         styled' = styled,
         styleExcused => styleExcused',
         (styled.by # Absent /\ ~styleExcused') => draft'[styled.by].style = styled.style,
         (styled.by = Absent /\ ~styleExcused') => textRow'.style = styled.style,
         \A v \in Writers : clock[v] <= clock'[v],
         \A q \in Posts : (~styleExcused' /\ StyleIsLast(q)) =>
            q \in posts' \/ (textRow'.style = styled.style /\ q.seq <= textRow'.seq),
         \A p \in posts' \cup {wrote'} :
            (p.from = styled.by /\ p.style # Absent) => p \in posts \cup {wrote}
  PROVE  StyleFits'
  <1> SUFFICES ASSUME ~styleExcused', styled.by # Absent
               PROVE  \E q \in Posts : StyleIsLast(q)'
    BY DEF StyleFits
  <1>1. PICK q \in Posts : StyleIsLast(q)
    BY DEF StyleFits
  <1>2. q.seq <= clock'[q.from]
    <2>1. q.from \in Writers /\ q.seq \in Nat
      BY TextBoundsAssumption DEF Posts, TextSeqs
    <2>2. clock[q.from] \in Nat /\ clock'[q.from] \in Nat
      BY <2>1, TextBoundsAssumption DEF TextTypeOK, TextSeqs
    <2> QED BY <1>1, <2>1, <2>2 DEF StyleIsLast
  <1>3. StyleIsLast(q)'
    BY <1>1, <1>2 DEF StyleIsLast
  <1> QED BY <1>3

(* The sender's own last send is the message just sent, if it has the text.*)
LEMMA TextResent ==
  ASSUME TextTypeOK, TextTypeOK', StampsFit,
         NEW w \in Writers, NEW d \in TextRows, NEW n,
         SendsPost(w, d, n), n.words = d.words,
         typed'.by = w, typed'.words = d.words, wrote' = wrote
  PROVE  TextFits'
  <1> USE SendTypes
  <1>1. n \in Posts /\ n.from = w /\ n \in posts' /\ posts' = posts \cup {n}
    BY DEF SendsPost
  <1>2. draft'[w].words = d.words
    BY DEF SendsPost, TextTypeOK, TextRows
  <1>3. n.seq <= clock'[n.from]
    BY <1>1
  <1>4. \A p \in posts' \cup {wrote'} :
          (p.from = w /\ p.words # Absent /\ p # n) => p.seq < n.seq
    BY <1>1
  <1>5. TextIsLast(n)'
    BY <1>1, <1>3, <1>4 DEF TextIsLast
  <1>6. w # Absent
    BY TextAssumption
  <1> QED BY <1>1, <1>2, <1>5, <1>6 DEF TextFits

(* Every send carries the sender's style, or leaves the style alone.       *)
LEMMA StyleResent ==
  ASSUME TextTypeOK, TextTypeOK', StampsFit,
         NEW w \in Writers, NEW d \in TextRows, NEW n,
         SendsPost(w, d, n), n.style = d.style,
         styled'.by = w, styled'.style = d.style, wrote' = wrote
  PROVE  StyleFits'
  <1> USE SendTypes
  <1>1. n \in Posts /\ n.from = w /\ n \in posts' /\ posts' = posts \cup {n}
    BY DEF SendsPost
  <1>2. draft'[w].style = d.style
    BY DEF SendsPost, TextTypeOK, TextRows
  <1>3. n.seq <= clock'[n.from]
    BY <1>1
  <1>4. \A p \in posts' \cup {wrote'} :
          (p.from = w /\ p.style # Absent /\ p # n) => p.seq < n.seq
    BY <1>1
  <1>5. StyleIsLast(n)'
    BY <1>1, <1>3, <1>4 DEF StyleIsLast
  <1>6. w # Absent
    BY TextAssumption
  <1> QED BY <1>1, <1>2, <1>5, <1>6 DEF StyleFits

(* A send that is somebody else's, or leaves the text alone.               *)
LEMMA TextUntouchedBySend ==
  ASSUME TextTypeOK, TextTypeOK', StampsFit, TextFits,
         NEW w \in Writers, NEW d \in TextRows, NEW n,
         SendsPost(w, d, n),
         w # typed.by \/ (n.words = Absent /\ d.words = draft[w].words),
         typed.by \in trailing => typed.by \in trailing',
         typed' = typed, textExcused' = textExcused, textRow' = textRow, wrote' = wrote
  PROVE  TextFits'
  <1>1. \A v \in Writers : clock[v] <= clock'[v]
    BY SendTypes
  <1>2. posts' = posts \cup {n} /\ n.from = w
    BY DEF SendsPost
  <1>3. (typed.by # Absent /\ ~textExcused') => draft'[typed.by].words = typed.words
    <2> SUFFICES ASSUME typed.by # Absent, ~textExcused
                 PROVE  draft'[typed.by].words = typed.words
      OBVIOUS
    <2>1. typed.by \in Writers /\ draft[typed.by].words = typed.words
      BY DEF TextTypeOK, TextFits
    <2>2. draft' = [draft EXCEPT ![w] = [d EXCEPT !.seq = n.seq]]
      BY DEF SendsPost
    <2> QED BY <2>1, <2>2 DEF TextTypeOK, TextRows
  <1>4. (typed.by = Absent /\ ~textExcused') => textRow'.words = typed.words
    BY DEF TextFits
  <1>5. \A q \in Posts : (~textExcused' /\ TextIsLast(q)) =>
           q \in posts' \/ (textRow'.words = typed.words /\ q.seq <= textRow'.seq)
    BY <1>2 DEF TextIsLast
  <1>6. \A p \in posts' \cup {wrote'} :
           (p.from = typed.by /\ p.words # Absent) => p \in posts \cup {wrote}
    BY <1>2
  <1> QED BY <1>1, <1>3, <1>4, <1>5, <1>6, TextKept

(* The same of the style.                                                  *)
LEMMA StyleUntouchedBySend ==
  ASSUME TextTypeOK, TextTypeOK', StampsFit, StyleFits,
         NEW w \in Writers, NEW d \in TextRows, NEW n,
         SendsPost(w, d, n),
         w # styled.by \/ (n.style = Absent /\ d.style = draft[w].style),
         styled' = styled, styleExcused' = styleExcused, textRow' = textRow, wrote' = wrote
  PROVE  StyleFits'
  <1>1. \A v \in Writers : clock[v] <= clock'[v]
    BY SendTypes
  <1>2. posts' = posts \cup {n} /\ n.from = w
    BY DEF SendsPost
  <1>3. (styled.by # Absent /\ ~styleExcused') => draft'[styled.by].style = styled.style
    <2> SUFFICES ASSUME styled.by # Absent, ~styleExcused
                 PROVE  draft'[styled.by].style = styled.style
      OBVIOUS
    <2>1. styled.by \in Writers /\ draft[styled.by].style = styled.style
      BY DEF TextTypeOK, StyleFits
    <2>2. draft' = [draft EXCEPT ![w] = [d EXCEPT !.seq = n.seq]]
      BY DEF SendsPost
    <2> QED BY <2>1, <2>2 DEF TextTypeOK, TextRows
  <1>4. (styled.by = Absent /\ ~styleExcused') => textRow'.style = styled.style
    BY DEF StyleFits
  <1>5. \A q \in Posts : (~styleExcused' /\ StyleIsLast(q)) =>
           q \in posts' \/ (textRow'.style = styled.style /\ q.seq <= textRow'.seq)
    BY <1>2 DEF StyleIsLast
  <1>6. \A p \in posts' \cup {wrote'} :
           (p.from = styled.by /\ p.style # Absent) => p \in posts \cup {wrote}
    BY <1>2
  <1> QED BY <1>1, <1>3, <1>4, <1>5, <1>6, StyleKept

(* Steps that touch no copy, no message to the server and no row.          *)
LEMMA IdleFits ==
  ASSUME EditingInv, TextTypeOK',
         UNCHANGED <<textRow, draft, clock, posts, history, wrote>>,
         typed.by \in trailing => typed.by \in trailing'
  PROVE  EditingInv'
  <1> USE DEF EditingInv, history
  <1>1. StampsFit'
    BY DEF StampsFit
  <1>2. \A v \in Writers : clock[v] <= clock'[v]
    BY TextBoundsAssumption DEF TextTypeOK, TextSeqs
  <1>3. TextFits'
    BY <1>2, TextKept DEF TextFits, TextIsLast
  <1>4. StyleFits'
    BY <1>2, StyleKept DEF StyleFits, StyleIsLast
  <1> QED BY <1>1, <1>3, <1>4

LEMMA IdleStepFits ==
  ASSUME EditingInv, NEW w \in Writers,
         \/ \E where \in {"inline", "sidebar"} : BeginTextEdit(w, where)
         \/ ThrottleEnds(w)
         \/ AnswerSnapshotTo(w)
  PROVE  EditingInv'
  <1> USE DEF EditingInv
  <1>1. CASE \E where \in {"inline", "sidebar"} : BeginTextEdit(w, where)
    <2>1. TextTypeOK'
      BY <1>1 DEF BeginTextEdit, TextTypeOK, wires, history
    <2> QED BY <1>1, <2>1, IdleFits DEF BeginTextEdit
  <1>2. CASE ThrottleEnds(w)
    <2>1. TextTypeOK'
      BY <1>2 DEF ThrottleEnds, TextTypeOK, wires, history
    <2> QED BY <1>2, <2>1, IdleFits DEF ThrottleEnds
  <1>3. CASE AnswerSnapshotTo(w)
    <2>1. TextTypeOK'
      BY <1>3 DEF AnswerSnapshotTo, TextTypeOK, desk, history
    <2> QED BY <1>3, <2>1, IdleFits DEF AnswerSnapshotTo, desk
  <1> QED BY <1>1, <1>2, <1>3

(* A send keeps the types and the stamps in order.                         *)
LEMMA SendTypeOK ==
  ASSUME TextTypeOK, StampsFit, NEW w \in Writers, NEW d \in TextRows, NEW n,
         SendsPost(w, d, n),
         session' \in [Writers -> {"none", "inline", "sidebar"}],
         trailing' \subseteq Writers, throttled' \subseteq Writers,
         strokes' \in 0..MaxStrokes,
         typed' \in [by : Writers \cup {Absent}, words : Texts],
         styled' \in [by : Writers \cup {Absent}, style : Styles],
         {textExcused', styleExcused'} \subseteq BOOLEAN,
         UNCHANGED <<textRow, letters, backlog, wrote>>
  PROVE  TextTypeOK' /\ StampsFit'
  <1>1. TextTypeOK'
    BY SendTypes DEF TextTypeOK
  <1>2. StampsFit'
    BY SendTypes DEF StampsFit
  <1> QED BY <1>1, <1>2

(* The throttled send, at whatever moment: the whole copy goes out.        *)
LEMMA FullSendFits ==
  ASSUME EditingInv, NEW w \in Writers,
         SendFullTextPatch(w, draft[w]),
         session' \in [Writers -> {"none", "inline", "sidebar"}],
         UNCHANGED <<textRow, wires, strokes, history, wrote>>
  PROVE  EditingInv'
  <1> USE DEF EditingInv
  <1>1. draft[w] \in TextRows /\ draft[w].words \in Texts /\ draft[w].style \in Styles
    BY DEF TextTypeOK, TextRows
  <1>2. PICK n \in Posts : /\ SendsPost(w, draft[w], n)
                           /\ n.words = draft[w].words /\ n.style = draft[w].style
    BY <1>1, StampSends DEF SendFullTextPatch
  <1>3. TextTypeOK' /\ StampsFit'
    BY <1>1, <1>2, SendTypeOK DEF SendFullTextPatch, TextTypeOK, wires, history
  <1>4. typed.by \in trailing /\ typed.by # w => typed.by \in trailing'
    BY DEF SendFullTextPatch
  <1>5. TextFits'
    <2>1. CASE typed.by = w /\ ~textExcused
      <3>1. typed'.by = w /\ typed'.words = draft[w].words
        BY <2>1, TextAssumption DEF TextFits, history
      <3> QED BY <1>1, <1>2, <1>3, <3>1, TextResent
    <2>2. CASE typed.by # w
      BY <1>1, <1>2, <1>3, <1>4, <2>2, TextUntouchedBySend DEF history
    <2>3. CASE textExcused
      BY <2>3 DEF TextFits, history
    <2> QED BY <2>1, <2>2, <2>3 DEF TextTypeOK
  <1>6. StyleFits'
    <2>1. CASE styled.by = w /\ ~styleExcused
      <3>1. styled'.by = w /\ styled'.style = draft[w].style
        BY <2>1, TextAssumption DEF StyleFits, history
      <3> QED BY <1>1, <1>2, <1>3, <3>1, StyleResent
    <2>2. CASE styled.by # w
      BY <1>1, <1>2, <1>3, <2>2, StyleUntouchedBySend DEF history
    <2>3. CASE styleExcused
      BY <2>3 DEF StyleFits, history
    <2> QED BY <2>1, <2>2, <2>3 DEF TextTypeOK
  <1> QED BY <1>3, <1>5, <1>6

LEMMA TrailingFits ==
  ASSUME EditingInv, NEW w \in Writers, TrailingFires(w) \/ EndTextEdit(w)
  PROVE  EditingInv'
  <1> USE DEF EditingInv
  <1>1. CASE TrailingFires(w)
    BY <1>1, FullSendFits DEF TrailingFires, TextTypeOK
  <1>2. CASE EndTextEdit(w) /\ w \in trailing
    <2>1. session' \in [Writers -> {"none", "inline", "sidebar"}]
      BY <1>2 DEF EndTextEdit, TextTypeOK
    <2> QED BY <1>2, <2>1, FullSendFits DEF EndTextEdit, FlushPendingTextPatch
  <1>3. CASE EndTextEdit(w) /\ w \notin trailing
    <2>1. TextTypeOK'
      BY <1>3 DEF EndTextEdit, FlushPendingTextPatch, TextTypeOK, wires, history
    <2> QED BY <1>3, <2>1, IdleFits DEF EndTextEdit, FlushPendingTextPatch
  <1> QED BY <1>1, <1>2, <1>3

(* A keystroke, sent at once or with a send to come.                       *)
LEMMA TypeTextFits ==
  ASSUME EditingInv, NEW w \in Writers, NEW words \in Texts, TypeText(w, words)
  PROVE  EditingInv'
  <1> USE DEF EditingInv
  <1> DEFINE d == [draft[w] EXCEPT !.words = words]
  <1>1. /\ draft[w] \in TextRows /\ d \in TextRows
        /\ d.words = words /\ d.style = draft[w].style /\ d.style \in Styles
    BY DEF TextTypeOK, TextRows
  <1>2. /\ typed' = [by |-> w, words |-> words] /\ textExcused' = FALSE
        /\ UNCHANGED <<textRow, session, wires, styled, wrote, styleExcused>>
        /\ strokes' \in 0..MaxStrokes
    BY TextBoundsAssumption DEF TypeText, Stroke, TextTypeOK
  <1>3. CASE w \in throttled
    <2>1. /\ draft' = [draft EXCEPT ![w] = d] /\ trailing' = trailing \cup {w}
          /\ UNCHANGED <<throttled, clock, posts>>
      BY <1>3 DEF TypeText, Draft
    <2>2. TextTypeOK'
      BY <1>1, <1>2, <2>1 DEF TextTypeOK, wires
    <2>3. StampsFit'
      BY <1>2, <2>1 DEF StampsFit
    <2>4. draft'[w].words = words
      BY <1>1, <2>1 DEF TextTypeOK
    <2>5. TextFits'
      BY <1>2, <2>1, <2>4, TextAssumption DEF TextFits
    <2>6. \A v \in Writers : draft'[v].style = draft[v].style /\ clock[v] <= clock'[v]
      BY <1>1, <2>1, TextBoundsAssumption DEF TextTypeOK, TextSeqs
    <2>7. styled.by # Absent => styled.by \in Writers
      BY DEF TextTypeOK
    <2>8. StyleFits'
      BY <1>2, <2>1, <2>2, <2>6, <2>7, StyleKept DEF StyleFits, StyleIsLast
    <2> QED BY <2>2, <2>3, <2>5, <2>8
  <1>4. CASE w \notin throttled
    <2>1. SendFullTextPatch(w, d)
      BY <1>4 DEF TypeText
    <2>2. PICK n \in Posts : /\ SendsPost(w, d, n)
                             /\ n.words = d.words /\ n.style = d.style
      BY <1>1, <2>1, StampSends DEF SendFullTextPatch
    <2>3. trailing' \subseteq Writers /\ throttled' \subseteq Writers
      BY <2>1 DEF SendFullTextPatch, TextTypeOK
    <2>4. TextTypeOK' /\ StampsFit'
      BY <1>1, <1>2, <2>2, <2>3, SendTypeOK DEF TextTypeOK, wires
    <2>5. TextFits'
      BY <1>1, <1>2, <2>2, <2>4, TextResent
    <2>6. StyleFits'
      <3>1. CASE styled.by = w /\ ~styleExcused
        <4>1. styled'.by = w /\ styled'.style = d.style
          BY <1>1, <1>2, <3>1, TextAssumption DEF StyleFits
        <4> QED BY <1>1, <1>2, <2>2, <2>4, <4>1, StyleResent
      <3>2. CASE styled.by # w
        BY <1>1, <1>2, <2>2, <2>4, <3>2, StyleUntouchedBySend
      <3>3. CASE styleExcused
        BY <1>2, <3>3 DEF StyleFits
      <3> QED BY <3>1, <3>2, <3>3 DEF TextTypeOK
    <2> QED BY <2>4, <2>5, <2>6
  <1> QED BY <1>3, <1>4

(* A style that is picked, and a move: neither says anything of the text.  *)
LEMMA PickStyleFits ==
  ASSUME EditingInv, NEW w \in Writers, NEW style \in Styles, PickStyle(w, style)
  PROVE  EditingInv'
  <1> USE DEF EditingInv
  <1> DEFINE d == [draft[w] EXCEPT !.style = style]
  <1>1. d \in TextRows /\ d.style = style /\ d.words = draft[w].words
    BY DEF TextTypeOK, TextRows
  <1>2. PICK n \in Posts : /\ SendsPost(w, d, n)
                           /\ n.words = Absent /\ n.style = style
    BY <1>1, StampSends DEF PickStyle
  <1>3. /\ styled' = [by |-> w, style |-> style] /\ styleExcused' = FALSE
        /\ UNCHANGED <<textRow, desk, wires, typed, wrote, textExcused>>
        /\ strokes' \in 0..MaxStrokes
    BY TextBoundsAssumption DEF PickStyle, Stroke, TextTypeOK
  <1>4. TextTypeOK' /\ StampsFit'
    BY <1>1, <1>2, <1>3, SendTypeOK DEF TextTypeOK, desk, wires
  <1>5. TextFits'
    BY <1>1, <1>2, <1>3, <1>4, TextUntouchedBySend DEF desk
  <1>6. StyleFits'
    BY <1>1, <1>2, <1>3, <1>4, StyleResent
  <1> QED BY <1>4, <1>5, <1>6

LEMMA NudgeFits ==
  ASSUME EditingInv, NEW w \in Writers, Nudge(w)
  PROVE  EditingInv'
  <1> USE DEF EditingInv
  <1>1. draft[w] \in TextRows
    BY DEF TextTypeOK
  <1>2. PICK n \in Posts : /\ SendsPost(w, draft[w], n)
                           /\ n.words = Absent /\ n.style = Absent
    BY <1>1, StampSends DEF Nudge
  <1>3. /\ UNCHANGED <<textRow, desk, wires, history, wrote>>
        /\ strokes' \in 0..MaxStrokes
    BY TextBoundsAssumption DEF Nudge, Stroke, TextTypeOK
  <1>4. TextTypeOK' /\ StampsFit'
    BY <1>1, <1>2, <1>3, SendTypeOK DEF TextTypeOK, desk, wires, history
  <1>5. TextFits'
    BY <1>1, <1>2, <1>3, <1>4, TextUntouchedBySend DEF desk, history
  <1>6. StyleFits'
    BY <1>1, <1>2, <1>3, <1>4, StyleUntouchedBySend DEF history
  <1> QED BY <1>4, <1>5, <1>6

(* A write that wins against the last text of another editor excuses it;   *)
(* an older one of the same editor cannot win against the last one, which  *)
(* has a larger seq.                                                       *)
LEMMA ProcessPostFits ==
  ASSUME EditingInv, NEW p \in posts, ProcessPost(p)
  PROVE  EditingInv'
  <1> USE DEF EditingInv
  <1>1. /\ p \in Posts /\ p.seq \in TextSeqs /\ p.seq \in Nat
        /\ p.from \in Writers /\ p.from # Absent
        /\ p.words \in Texts \cup {Absent} /\ p.style \in Styles \cup {Absent}
    BY TextAssumption, TextBoundsAssumption DEF TextTypeOK, Posts, TextSeqs
  <1>2. /\ textRow \in TextRows /\ textRow.seq \in TextSeqs /\ textRow.seq \in Nat
        /\ textRow.words \in Texts /\ textRow.style \in Styles
    BY TextBoundsAssumption DEF TextTypeOK, TextRows, TextSeqs
  <1>3. /\ textRow'.seq = p.seq /\ textRow.seq < p.seq
        /\ textRow'.words = OrKept(p.words, textRow.words)
        /\ textRow'.style = OrKept(p.style, textRow.style)
        /\ textRow' = Patched(textRow, p)
    BY <1>1, <1>2 DEF ProcessPost, IsNewer, Patched
  <1>4. posts' = posts \ {p} /\ wrote' = p
    BY DEF ProcessPost
  <1>5. UNCHANGED <<draft, desk, clock, backlog, strokes, typed, styled>>
    BY DEF ProcessPost
  <1>6. LetterOf(p) \in Letters /\ textRow' \in TextRows
    BY <1>1, <1>2, <1>3 DEF LetterOf, Letters, Patched, TextRows, OrKept
  <1>7. {textExcused', styleExcused'} \subseteq BOOLEAN
    BY DEF ProcessPost, TextTypeOK
  <1>8. letters' = [w \in Writers |-> letters[w] \cup {LetterOf(p)}]
    BY DEF ProcessPost
  <1>9. TextTypeOK'
    BY <1>1, <1>4, <1>5, <1>6, <1>7, <1>8 DEF TextTypeOK, desk
  <1>10. StampsFit'
    BY <1>1, <1>3, <1>4, <1>5 DEF StampsFit, OrKept
  <1>11. \A v \in Writers : clock[v] <= clock'[v]
    BY <1>5, TextBoundsAssumption DEF TextTypeOK, TextSeqs
  <1>12. TextFits'
    <2>1. textExcused => textExcused'
      BY DEF ProcessPost
    <2>2. ~textExcused' => (p.from = typed.by \/ p.words \in {Absent, typed.words})
      BY DEF ProcessPost, Overtaken, Other
    <2>3. (typed.by = Absent /\ ~textExcused') => textRow'.words = typed.words
      BY <1>1, <1>3, <2>1, <2>2 DEF TextFits, OrKept
    <2>4. ASSUME NEW q \in Posts, ~textExcused', TextIsLast(q)
          PROVE  q \in posts' \/ (textRow'.words = typed.words /\ q.seq <= textRow'.seq)
      <3>1. q.seq \in Nat /\ q.words = typed.words /\ q.from = typed.by
        BY <2>4, TextBoundsAssumption DEF Posts, TextIsLast, TextSeqs
      <3>2. CASE q = p
        <4>1. typed.words \in Texts /\ typed.words # Absent
          BY TextAssumption DEF TextTypeOK
        <4> QED BY <1>1, <1>3, <3>1, <3>2, <4>1 DEF OrKept
      <3>3. CASE q # p /\ q \in posts
        BY <1>4, <3>3
      <3>4. CASE q # p /\ q \notin posts
        <4>1. textRow.words = typed.words /\ q.seq <= textRow.seq
          BY <2>4, <3>4 DEF TextIsLast
        <4>2. q.seq <= textRow'.seq /\ q.seq < p.seq
          BY <1>1, <1>2, <1>3, <3>1, <4>1
        <4>3. ~(p.from = typed.by /\ p.words # Absent)
          BY <1>1, <2>4, <3>1, <3>4, <4>2 DEF TextIsLast
        <4>4. textRow'.words = typed.words
          BY <1>3, <2>2, <2>4, <4>1, <4>3 DEF OrKept
        <4> QED BY <4>2, <4>4
      <3> QED BY <3>2, <3>3, <3>4
    <2>5. (typed.by # Absent /\ ~textExcused') => draft'[typed.by].words = typed.words
      BY <1>5, <2>1 DEF TextFits
    <2>6. \A r \in posts' \cup {wrote'} : r \in posts \cup {wrote}
      BY <1>4
    <2> QED BY <1>5, <1>9, <1>11, <2>1, <2>3, <2>4, <2>5, <2>6, TextKept DEF desk
  <1>13. StyleFits'
    <2>1. styleExcused => styleExcused'
      BY DEF ProcessPost
    <2>2. ~styleExcused' => (p.from = styled.by \/ p.style \in {Absent, styled.style})
      BY DEF ProcessPost, Overtaken, Other
    <2>3. (styled.by = Absent /\ ~styleExcused') => textRow'.style = styled.style
      BY <1>1, <1>3, <2>1, <2>2 DEF StyleFits, OrKept
    <2>4. ASSUME NEW q \in Posts, ~styleExcused', StyleIsLast(q)
          PROVE  q \in posts' \/ (textRow'.style = styled.style /\ q.seq <= textRow'.seq)
      <3>1. q.seq \in Nat /\ q.style = styled.style /\ q.from = styled.by
        BY <2>4, TextBoundsAssumption DEF Posts, StyleIsLast, TextSeqs
      <3>2. CASE q = p
        <4>1. styled.style \in Styles /\ styled.style # Absent
          BY TextAssumption DEF TextTypeOK
        <4> QED BY <1>1, <1>3, <3>1, <3>2, <4>1 DEF OrKept
      <3>3. CASE q # p /\ q \in posts
        BY <1>4, <3>3
      <3>4. CASE q # p /\ q \notin posts
        <4>1. textRow.style = styled.style /\ q.seq <= textRow.seq
          BY <2>4, <3>4 DEF StyleIsLast
        <4>2. q.seq <= textRow'.seq /\ q.seq < p.seq
          BY <1>1, <1>2, <1>3, <3>1, <4>1
        <4>3. ~(p.from = styled.by /\ p.style # Absent)
          BY <1>1, <2>4, <3>1, <3>4, <4>2 DEF StyleIsLast
        <4>4. textRow'.style = styled.style
          BY <1>3, <2>2, <2>4, <4>1, <4>3 DEF OrKept
        <4> QED BY <4>2, <4>4
      <3> QED BY <3>2, <3>3, <3>4
    <2>5. (styled.by # Absent /\ ~styleExcused') => draft'[styled.by].style = styled.style
      BY <1>5, <2>1 DEF StyleFits
    <2>6. \A r \in posts' \cup {wrote'} : r \in posts \cup {wrote}
      BY <1>4
    <2> QED BY <1>5, <1>9, <1>11, <2>1, <2>3, <2>4, <2>5, <2>6, StyleKept
  <1> QED BY <1>9, <1>10, <1>12, <1>13

(* The last text's own message is refused only because of a write that     *)
(* does not carry the text, or is another editor's; or it is lost.         *)
LEMMA GonePostFits ==
  ASSUME EditingInv, NEW p \in posts, RefusePost(p) \/ LosePost(p)
  PROVE  EditingInv'
  <1> USE DEF EditingInv
  <1>1. /\ posts' = posts \ {p}
        /\ UNCHANGED <<textRow, draft, desk, clock, wires, typed, styled, wrote>>
        /\ strokes' \in 0..MaxStrokes
    BY TextBoundsAssumption DEF RefusePost, LosePost, Stroke, TextTypeOK
  <1>2. /\ textExcused => textExcused'
        /\ styleExcused => styleExcused'
        /\ {textExcused', styleExcused'} \subseteq BOOLEAN
    BY DEF RefusePost, LosePost, TextTypeOK
  <1>3. TextTypeOK'
    BY <1>1, <1>2 DEF TextTypeOK, desk, wires
  <1>4. StampsFit'
    BY <1>1 DEF StampsFit
  <1>5. /\ \A v \in Writers : clock[v] <= clock'[v]
        /\ textRow.seq \in Nat
        /\ typed.words # Absent /\ styled.style # Absent
    BY <1>1, TextAssumption, TextBoundsAssumption DEF TextTypeOK, TextSeqs, TextRows
  <1>6. /\ textRow' = textRow /\ draft' = draft /\ typed' = typed /\ styled' = styled
        /\ wrote' = wrote /\ TextTypeOK /\ TextFits /\ StyleFits
    BY <1>1 DEF EditingInv
  <1>7. TextFits'
    <2>1. ASSUME NEW q \in Posts, ~textExcused', TextIsLast(q)
          PROVE  q \in posts' \/ (textRow'.words = typed.words /\ q.seq <= textRow'.seq)
      <3>1. /\ q.seq \in Nat /\ q.from = typed.by /\ q.words = typed.words
            /\ q \in posts \/ (textRow.words = typed.words /\ q.seq <= textRow.seq)
        BY <2>1, TextBoundsAssumption DEF TextIsLast, Posts, TextSeqs
      <3>2. CASE q = p /\ RefusePost(p)
        <4>1. wrote.from = q.from /\ wrote.words # Absent
          BY <2>1, <3>1, <3>2 DEF RefusePost, Outrun
        <4>2. q.seq <= textRow.seq
          BY <1>5, <3>1, <3>2 DEF RefusePost, IsNewer
        <4>3. wrote = q
          BY <1>5, <2>1, <3>1, <4>1, <4>2 DEF TextIsLast, StampsFit
        <4> QED BY <1>1, <3>1, <4>1, <4>2, <4>3 DEF StampsFit
      <3>3. CASE q = p /\ LosePost(p)
        BY <1>5, <2>1, <3>1, <3>3 DEF LosePost, Undelivered
      <3>4. CASE q # p
        BY <1>1, <3>1, <3>4
      <3> QED BY <3>2, <3>3, <3>4
    <2>2. /\ (typed.by # Absent /\ ~textExcused') => draft'[typed.by].words = typed.words
          /\ (typed.by = Absent /\ ~textExcused') => textRow'.words = typed.words
      BY <1>2, <1>6 DEF TextFits
    <2>3. typed.by \in trailing => typed.by \in trailing'
      BY <1>1 DEF desk
    <2>4. \A r \in posts' \cup {wrote'} : r \in posts \cup {wrote}
      BY <1>1
    <2> QED BY <1>2, <1>3, <1>5, <1>6, <2>1, <2>2, <2>3, <2>4, TextKept
  <1>8. StyleFits'
    <2>1. ASSUME NEW q \in Posts, ~styleExcused', StyleIsLast(q)
          PROVE  q \in posts' \/ (textRow'.style = styled.style /\ q.seq <= textRow'.seq)
      <3>1. /\ q.seq \in Nat /\ q.from = styled.by /\ q.style = styled.style
            /\ q \in posts \/ (textRow.style = styled.style /\ q.seq <= textRow.seq)
        BY <2>1, TextBoundsAssumption DEF StyleIsLast, Posts, TextSeqs
      <3>2. CASE q = p /\ RefusePost(p)
        <4>1. wrote.from = q.from /\ wrote.style # Absent
          BY <2>1, <3>1, <3>2 DEF RefusePost, Outrun
        <4>2. q.seq <= textRow.seq
          BY <1>5, <3>1, <3>2 DEF RefusePost, IsNewer
        <4>3. wrote = q
          BY <1>5, <2>1, <3>1, <4>1, <4>2 DEF StyleIsLast, StampsFit
        <4> QED BY <1>1, <3>1, <4>1, <4>2, <4>3 DEF StampsFit
      <3>3. CASE q = p /\ LosePost(p)
        BY <1>5, <2>1, <3>1, <3>3 DEF LosePost, Undelivered
      <3>4. CASE q # p
        BY <1>1, <3>1, <3>4
      <3> QED BY <3>2, <3>3, <3>4
    <2>2. /\ (styled.by # Absent /\ ~styleExcused') => draft'[styled.by].style = styled.style
          /\ (styled.by = Absent /\ ~styleExcused') => textRow'.style = styled.style
      BY <1>2, <1>6 DEF StyleFits
    <2>3. \A r \in posts' \cup {wrote'} : r \in posts \cup {wrote}
      BY <1>1
    <2> QED BY <1>2, <1>3, <1>5, <1>6, <2>1, <2>2, <2>3, StyleKept
  <1> QED BY <1>3, <1>4, <1>7, <1>8

(* What arrives changes copies only, and the typist's text in them not     *)
(* without an excuse.                                                      *)
LEMMA TakeFits ==
  ASSUME EditingInv, TextTypeOK', NEW w \in Writers, NEW d \in TextRows, Take(w, d),
         UNCHANGED <<textRow, desk, clock, posts, typed, styled, wrote>>
  PROVE  EditingInv'
  <1> USE DEF EditingInv
  <1>1. StampsFit'
    BY DEF StampsFit
  <1>2. \A v \in Writers : clock[v] <= clock'[v]
    BY TextBoundsAssumption DEF TextTypeOK, TextSeqs
  <1>3. draft' = [draft EXCEPT ![w] = d]
    BY DEF Take, Draft
  <1>4. /\ textExcused => textExcused'
        /\ styleExcused => styleExcused'
        /\ ~textExcused' => ~Overwritten(w, typed.by, d.words, typed.words)
        /\ ~styleExcused' => ~Overwritten(w, styled.by, d.style, styled.style)
    BY DEF Take
  <1>5. /\ typed.by # Absent => typed.by \in Writers
        /\ styled.by # Absent => styled.by \in Writers
    BY DEF TextTypeOK
  <1>6. TextFits'
    <2>1. (typed.by # Absent /\ ~textExcused') => draft'[typed.by].words = typed.words
      <3> SUFFICES ASSUME typed.by # Absent, ~textExcused'
                   PROVE  draft'[typed.by].words = typed.words
        OBVIOUS
      <3>1. typed.by \in Writers /\ draft[typed.by].words = typed.words
        BY <1>4, <1>5 DEF TextFits
      <3>2. typed.by = w => d.words = typed.words
        BY <1>4 DEF Overwritten
      <3> QED BY <1>3, <3>1, <3>2 DEF TextTypeOK
    <2>2. typed.by \in trailing => typed.by \in trailing'
      BY DEF desk
    <2>3. (typed.by = Absent /\ ~textExcused') => textRow'.words = typed.words
      BY <1>4 DEF TextFits
    <2>4. ASSUME NEW q \in Posts, TextIsLast(q)
          PROVE  q \in posts' \/ (textRow'.words = typed.words /\ q.seq <= textRow'.seq)
      BY <2>4 DEF TextIsLast
    <2>5. \A p \in posts' \cup {wrote'} : p \in posts \cup {wrote}
      OBVIOUS
    <2>6. typed' = typed
      OBVIOUS
    <2> QED BY <1>2, <1>4, <2>1, <2>2, <2>3, <2>4, <2>5, <2>6, TextKept
  <1>7. StyleFits'
    <2>1. (styled.by # Absent /\ ~styleExcused') => draft'[styled.by].style = styled.style
      <3> SUFFICES ASSUME styled.by # Absent, ~styleExcused'
                   PROVE  draft'[styled.by].style = styled.style
        OBVIOUS
      <3>1. styled.by \in Writers /\ draft[styled.by].style = styled.style
        BY <1>4, <1>5 DEF StyleFits
      <3>2. styled.by = w => d.style = styled.style
        BY <1>4 DEF Overwritten
      <3> QED BY <1>3, <3>1, <3>2 DEF TextTypeOK
    <2>2. (styled.by = Absent /\ ~styleExcused') => textRow'.style = styled.style
      BY <1>4 DEF StyleFits
    <2>3. ASSUME NEW q \in Posts, StyleIsLast(q)
          PROVE  q \in posts' \/ (textRow'.style = styled.style /\ q.seq <= textRow'.seq)
      BY <2>3 DEF StyleIsLast
    <2>4. \A p \in posts' \cup {wrote'} : p \in posts \cup {wrote}
      OBVIOUS
    <2>5. styled' = styled
      OBVIOUS
    <2> QED BY <1>2, <1>4, <2>1, <2>2, <2>3, <2>4, <2>5, StyleKept
  <1> QED BY <1>1, <1>6, <1>7

LEMMA ArrivalFits ==
  ASSUME EditingInv, NEW w \in Writers,
         TakeDigest(w) \/ \E l \in letters[w] : HearLetter(w, l)
  PROVE  EditingInv'
  <1> USE DEF EditingInv
  <1>1. CASE TakeDigest(w)
    <2> DEFINE d == IF backlog.row.seq < draft[w].seq \/ session[w] = "inline"
                      THEN draft[w] ELSE backlog.row
    <2>1. d \in TextRows
      BY <1>1 DEF TakeDigest, TextTypeOK
    <2>2. Take(w, d)
      BY <1>1 DEF TakeDigest
    <2>3. TextTypeOK'
      <3>1. draft' \in [Writers -> TextRows]
        BY <2>1, <2>2 DEF Take, Draft, TextTypeOK
      <3>2. {textExcused', styleExcused'} \subseteq BOOLEAN
        BY <2>2 DEF Take, TextTypeOK
      <3>3. /\ backlog' = Absent
            /\ UNCHANGED <<textRow, desk, clock, posts, letters, strokes, typed, styled,
                           wrote>>
        BY <1>1 DEF TakeDigest
      <3> QED BY <3>1, <3>2, <3>3 DEF TextTypeOK, desk
    <2>4. UNCHANGED <<textRow, desk, clock, posts, typed, styled, wrote>>
      BY <1>1 DEF TakeDigest
    <2> QED BY <2>1, <2>2, <2>3, <2>4, TakeFits
  <1>2. ASSUME NEW l \in letters[w], HearLetter(w, l) PROVE EditingInv'
    <2> DEFINE d == IF l.seq < draft[w].seq THEN draft[w] ELSE Patched(draft[w], l)
    <2>1. d \in TextRows
      <3>1. l \in Letters /\ draft[w] \in TextRows
        BY DEF TextTypeOK
      <3>2. Patched(draft[w], l) \in TextRows
        BY <3>1 DEF Letters, TextRows, Patched, OrKept
      <3> QED BY <3>1, <3>2
    <2>2. Take(w, d)
      BY <1>2 DEF HearLetter
    <2>3. TextTypeOK'
      <3>1. draft' \in [Writers -> TextRows]
        BY <2>1, <2>2 DEF Take, Draft, TextTypeOK
      <3>2. {textExcused', styleExcused'} \subseteq BOOLEAN
        BY <2>2 DEF Take, TextTypeOK
      <3>3. /\ letters' = [letters EXCEPT ![w] = letters[w] \ {l}]
            /\ UNCHANGED <<textRow, desk, clock, posts, backlog, strokes, typed, styled,
                           wrote>>
        BY <1>2 DEF HearLetter
      <3>4. letters' \in [Writers -> SUBSET Letters]
        BY <3>3 DEF TextTypeOK
      <3> QED BY <3>1, <3>2, <3>3, <3>4 DEF TextTypeOK, desk
    <2>4. UNCHANGED <<textRow, desk, clock, posts, typed, styled, wrote>>
      BY <1>2 DEF HearLetter
    <2> QED BY <2>1, <2>2, <2>3, <2>4, TakeFits
  <1> QED BY <1>1, <1>2

(* Every step keeps the invariant.                                         *)
THEOREM EditingNextInv == EditingInv /\ [TextNext]_textVars => EditingInv'
  <1> SUFFICES ASSUME EditingInv, [TextNext]_textVars PROVE EditingInv'
    OBVIOUS
  <1>1. ASSUME NEW w \in Writers, NEW words \in Texts, TypeText(w, words)
        PROVE  EditingInv'
    BY <1>1, TypeTextFits
  <1>2. ASSUME NEW w \in Writers, NEW style \in Styles, PickStyle(w, style)
        PROVE  EditingInv'
    BY <1>2, PickStyleFits
  <1>3. ASSUME NEW w \in Writers,
               \/ \E where \in {"inline", "sidebar"} : BeginTextEdit(w, where)
               \/ ThrottleEnds(w) \/ AnswerSnapshotTo(w)
        PROVE  EditingInv'
    BY <1>3, IdleStepFits
  <1>4. ASSUME NEW w \in Writers, TrailingFires(w) \/ EndTextEdit(w)
        PROVE  EditingInv'
    BY <1>4, TrailingFits
  <1>5. ASSUME NEW w \in Writers, Nudge(w) PROVE EditingInv'
    BY <1>5, NudgeFits
  <1>6. ASSUME NEW w \in Writers, TakeDigest(w) \/ \E l \in letters[w] : HearLetter(w, l)
        PROVE  EditingInv'
    BY <1>6, ArrivalFits
  <1>7. ASSUME NEW p \in posts, ProcessPost(p) PROVE EditingInv'
    BY <1>7, ProcessPostFits
  <1>8. ASSUME NEW p \in posts, RefusePost(p) \/ LosePost(p) PROVE EditingInv'
    BY <1>8, GonePostFits
  <1>9. CASE UNCHANGED textVars
    <2>1. TextTypeOK'
      BY <1>9 DEF EditingInv, TextTypeOK, textVars
    <2> QED BY <1>9, <2>1, IdleFits DEF textVars, history
  <1> QED BY <1>1, <1>2, <1>3, <1>4, <1>5, <1>6, <1>7, <1>8, <1>9 DEF TextNext

LEMMA EditingInvHolds ==
  ASSUME EditingInv
  PROVE  TextTypeOK /\ LastEditsAreKept
  <1>1. TypedTextIsKept
    BY DEF EditingInv, TextFits, TextIsLast, TypedTextIsKept
  <1>2. PickedStyleIsKept
    BY DEF EditingInv, StyleFits, StyleIsLast, PickedStyleIsKept
  <1> QED BY <1>1, <1>2 DEF EditingInv, LastEditsAreKept

(* canvas.ts:907-919, 928-936: for any number of editors, texts and        *)
(* messages in any order, the last text typed and the last style picked    *)
(* are lost only by one of the four accidents.                             *)
THEOREM LastEditsStay == TextSpec => [](TextTypeOK /\ LastEditsAreKept)
  BY EditingInvHolds, EditingInitInv, EditingNextInv, PTL DEF TextSpec

----------------------------------------------------------------------------
(* The table under the canvas is the table of AssetStore.                  *)

(* A message that parses is one of those AssetStore receives, if a client  *)
(* may hide an object and show it.                                         *)
LEMMA AcceptIsReceive ==
  ASSUME Hiddens = BOOLEAN, NEW h \in Handlers, NEW q \in Request, Parses(q), Accept(h, q)
  PROVE  Receive(h)
  <1>1. PICK a \in Assets, seq \in Seqs, x \in OrMissing(Positions),
             width \in OrMissing(Widths), hidden \in OrMissing(Hiddens) :
          /\ a = q.asset /\ seq = q.seq
          /\ x = q.patch.x /\ width = q.patch.width /\ hidden = q.patch.hidden
    BY DEF Request, Patch
  <1>2. \/ q.kind = "move" /\ ReadMove(h, a, x, seq)
        \/ q.kind = "resize" /\ ReadResize(h, a, x, width, seq)
        \/ q.kind = "update" /\ ReadUpdate(h, a, width, hidden, seq)
    <2>1. q.kind \in {"move", "resize", "update"}
      BY DEF Request
    <2> QED BY <1>1, <2>1 DEF Accept
  <1>3. q.kind # "update" => x \in Positions
    BY <1>1 DEF Parses, OrMissing
  <1>4. q.kind = "resize" => width \in Widths
    BY <1>1 DEF Parses, OrMissing
  <1> QED BY <1>2, <1>3, <1>4 DEF Receive

LEMMA CanvasStepRefines ==
  ASSUME Hiddens = BOOLEAN, CanvasInv, [CanvasNext]_allVars
  PROVE  [Next]_vars
  <1>1. ASSUME NEW h \in Handlers, NEW q \in requests, TakeRequest(h, q)
        PROVE  [Next]_vars
    <2>1. q \in Request
      BY DEF CanvasInv, ClientInv, RequestsFit, RequestFits
    <2>2. CASE Parses(q) /\ row[q.asset] # NoRow
      <3>1. Accept(h, q)
        BY <1>1, <2>2 DEF TakeRequest
      <3> QED BY <2>1, <2>2, <3>1, AcceptIsReceive DEF Next
    <2>3. CASE ~(Parses(q) /\ row[q.asset] # NoRow)
      BY <1>1, <2>3 DEF TakeRequest
    <2> QED BY <2>2, <2>3
  <1>2. ASSUME NEW h \in Handlers, ServerStep(h)
        PROVE  [Next]_vars
    BY <1>2 DEF ServerStep, Edit, Store, Publish, Fail, Next, Proceed
  <1>3. CASE Pointer \/ Release \/ Trailing
    BY <1>3, PointerActs, ReleaseActs
  <1>4. CASE \/ LoseConnection \/ Deliver \/ Open \/ TimerStep \/ UNCHANGED allVars
             \/ \E q \in requests : RefuseRequest(q)
    BY <1>4 DEF LoseConnection, Disconnect, Deliver, ApplyRemote, ApplyAdded, ApplyDeleted,
       Arrive, Open, TimerStep, SettleFires, FallbackFires, RefuseRequest, allVars
  <1>5. ASSUME NEW k \in Slots, SetAssets(k) \/ AnswerSnapshot(k)
        PROVE  UNCHANGED vars
    BY <1>5 DEF SetAssets, SnapshotArrives, AnswerSnapshot
  <1> QED BY <1>1, <1>2, <1>3, <1>4, <1>5 DEF CanvasNext

(* message.ts:150-244: whatever an editor's canvas sends, whenever it      *)
(* connects and is answered, the table behind it is the one of AssetStore; *)
(* so all that is proved of the table holds under the canvas.              *)
THEOREM CanvasImplementsStore ==
  ASSUME Hiddens = BOOLEAN
  PROVE  CanvasSpec => Spec
  <1>1. CanvasInit => Init
    BY DEF CanvasInit
  <1>2. CanvasInv /\ [CanvasNext]_allVars => [Next]_vars
    BY CanvasStepRefines
  <1> QED BY <1>1, <1>2, CanvasInitInv, CanvasNextInv, PTL DEF CanvasSpec, Spec

----------------------------------------------------------------------------
(* The canvas and the text, each by itself.                                *)

LEMMA EditorsStep ==
  ASSUME CanvasInv, EditingInv, [UnionNext]_unionVars
  PROVE  CanvasInv' /\ EditingInv'
  <1>1. [CanvasNext]_allVars /\ [TextNext]_textVars
    BY DEF UnionNext, unionVars
  <1> QED BY <1>1, CanvasNextInv, EditingNextInv

(* The invariants of the run MCEditors, for any number of assets, editors  *)
(* and invocations: state and messages are well typed, only an edit on its *)
(* way puts an entry ahead of its row, the last edits are kept, and no step*)
(* replaces an entry by an older one.                                      *)
THEOREM EditorsInvariance ==
  UnionSpec => /\ [](EditingTypeOK /\ AheadOnlyWhilePending /\ LastEditsAreKept)
               /\ NeverBackwards
  <1>1. UnionInit => CanvasInv /\ EditingInv
    BY CanvasInitInv, EditingInitInv DEF UnionInit
  <1>2. CanvasInv /\ EditingInv /\ [UnionNext]_unionVars => (CanvasInv /\ EditingInv)'
    BY EditorsStep
  <1>3. CanvasInv /\ EditingInv => EditingTypeOK /\ AheadOnlyWhilePending /\ LastEditsAreKept
    BY CanvasInvHolds, EditingInvHolds DEF EditingTypeOK
  <1>4. UnionInit => CanvasInit
    BY DEF UnionInit
  <1>5. [UnionNext]_unionVars => [CanvasNext]_allVars
    BY DEF UnionNext, unionVars
  <1> QED BY <1>1, <1>2, <1>3, <1>4, <1>5, CanvasMovesForward, PTL DEF UnionSpec, CanvasSpec
=============================================================================
