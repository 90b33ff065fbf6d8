-------------------------- MODULE AssetStoreProofs --------------------------
(***************************************************************************)
(* Theorems of AssetStore, and of its history in AssetVisibility, for      *)
(* every set of assets and invocations, every geometry and every bound on  *)
(* seq.                                                                    *)
(***************************************************************************)
EXTENDS AssetVisibility, TLAPS

(* visible is a flag whatever the coordinates and hidden are.              *)
LEMMA VisibleIsBoolean ==
  \A x, width, hidden : Visible(x, width, hidden) \in BOOLEAN
  BY DEF Visible, Intersects

(* What a write makes of a row is a row again.                             *)
LEMMA MergeIsRow ==
  ASSUME NEW old \in Row, NEW patch \in Patch,
         NEW visible \in BOOLEAN, NEW seq \in 0..MaxSeq
  PROVE  Merge(old, patch, visible, seq) \in Row
  BY DEF Merge, Row, Patch, Else, OrMissing

(* The empty item UpdateItem starts from is a row.                         *)
LEMMA BlankIsRow == Blank \in Row
  BY MaxSeqAssumption DEF Blank, Row, OrMissing

(* A message's fields, each given or missing, make a patch.                *)
LEMMA CarryIsPatch ==
  ASSUME NEW x \in OrMissing(Positions), NEW width \in OrMissing(Widths),
         NEW hidden \in OrMissing(BOOLEAN)
  PROVE  Carry(x, width, hidden) \in Patch
  BY DEF Carry, Patch

(* Starting an invocation puts a well-formed, unfinished job in job[h].    *)
LEMMA StartMakesJob ==
  ASSUME NEW h \in Handlers, NEW op \in {"put", "write", "delete"},
         NEW a \in Assets, NEW p \in Patch, NEW v \in BOOLEAN,
         NEW s \in 0..MaxSeq, Start(h, op, a, p, v, s)
  PROVE  \E j \in Job : /\ j.op = op /\ ~j.done /\ j.asset = a
                        /\ j.patch = p /\ j.seq = s
                        /\ job[h] = Idle /\ job' = [job EXCEPT ![h] = j]
  <1> DEFINE j == [op |-> op, done |-> FALSE, asset |-> a, patch |-> p,
                   visible |-> v, seq |-> s]
  <1>1. j \in Job
    BY DEF Job
  <1> QED BY <1>1 DEF Start

(* Invocation h was idle and starts a job of this kind on a: a put with a  *)
(* place and a width, a write with the seq a client stamped.               *)
Started(h, op, a) ==
  \E j \in Job : /\ j.op = op /\ ~j.done /\ j.asset = a
                 /\ op = "put" => j.patch.x # Missing /\ j.patch.width # Missing
                 /\ op = "write" => j.seq \in Seqs
                 /\ job[h] = Idle /\ job' = [job EXCEPT ![h] = j]

(* Whatever the message, receiving it leaves the table alone and starts a  *)
(* put of an id nobody has added, a write of a row that exists, or a       *)
(* delete.                                                                 *)
LEMMA ReceiveStarts ==
  ASSUME NEW h \in Handlers, Receive(h)
  PROVE  /\ UNCHANGED <<row, deleted, accepted>>
         /\ \E a \in Assets :
              \/ a \notin added /\ added' = added \cup {a} /\ Started(h, "put", a)
              \/ row[a] # NoRow /\ added' = added /\ Started(h, "write", a)
              \/ added' = added /\ Started(h, "delete", a)
  <1>0. /\ 0 \in 0..MaxSeq /\ Seqs \subseteq 0..MaxSeq /\ FALSE \in BOOLEAN
        /\ \A S : S \subseteq OrMissing(S) /\ Missing \in OrMissing(S)
    BY MaxSeqAssumption DEF Seqs, OrMissing
  <1>1. ASSUME NEW a \in Assets, NEW x \in Positions, NEW w \in Widths,
               NEW hid \in OrMissing(Hiddens), BeginAdd(h, a, x, w, hid)
        PROVE  Started(h, "put", a)
    <2>1. Carry(x, w, Else(hid, FALSE)) \in Patch
      BY <1>0, CarryIsPatch, GeometryAssumption DEF Else, OrMissing
    <2>2. Start(h, "put", a, Carry(x, w, Else(hid, FALSE)), Visible(x, w, hid), 0)
      BY <1>1 DEF BeginAdd
    <2>3. ASSUME NEW p \in Patch, NEW v \in BOOLEAN, Start(h, "put", a, p, v, 0),
                 p.x # Missing, p.width # Missing
          PROVE  Started(h, "put", a)
      BY <1>0, <2>3, StartMakesJob DEF Started
    <2>4. PICK p : p = Carry(x, w, Else(hid, FALSE))
      OBVIOUS
    <2>5. p.x # Missing /\ p.width # Missing
      BY <2>4, SentinelAssumption DEF Carry
    <2> QED BY <2>1, <2>2, <2>3, <2>4, <2>5, VisibleIsBoolean, Zenon
  <1>2. ASSUME NEW a \in Assets, NEW x \in Positions, NEW s \in Seqs,
               ReadMove(h, a, x, s)
        PROVE  Started(h, "write", a)
    <2>1. Carry(x, Missing, Missing) \in Patch
      BY <1>0, CarryIsPatch
    <2> QED BY <1>0, <1>2, <2>1, StartMakesJob, VisibleIsBoolean DEF ReadMove, Started
  <1>3. ASSUME NEW a \in Assets, NEW x \in Positions, NEW w \in Widths,
               NEW s \in Seqs, ReadResize(h, a, x, w, s)
        PROVE  Started(h, "write", a)
    <2>1. Carry(x, w, Missing) \in Patch
      BY <1>0, CarryIsPatch
    <2> QED BY <1>0, <1>3, <2>1, StartMakesJob, VisibleIsBoolean DEF ReadResize, Started
  <1>4. ASSUME NEW a \in Assets, NEW w \in OrMissing(Widths),
               NEW hid \in OrMissing(Hiddens), NEW s \in Seqs,
               ReadUpdate(h, a, w, hid, s)
        PROVE  Started(h, "write", a)
    <2>1. Carry(Missing, w, hid) \in Patch
      BY <1>0, CarryIsPatch, GeometryAssumption DEF OrMissing
    <2> QED BY <1>0, <1>4, <2>1, StartMakesJob, VisibleIsBoolean DEF ReadUpdate, Started
  <1>5. ASSUME NEW a \in Assets, BeginDelete(h, a)
        PROVE  Started(h, "delete", a)
    <2>1. Carry(Missing, Missing, Missing) \in Patch
      BY <1>0, CarryIsPatch
    <2>2. Start(h, "delete", a, Carry(Missing, Missing, Missing), FALSE, 0)
      BY <1>5 DEF BeginDelete
    <2>3. ASSUME NEW v \in BOOLEAN,
                 Start(h, "delete", a, Carry(Missing, Missing, Missing), v, 0)
          PROVE  Started(h, "delete", a)
      BY <1>0, <2>1, <2>3, StartMakesJob DEF Started
    <2> QED BY <1>0, <2>2, <2>3, Zenon
  <1> QED
    BY <1>1, <1>2, <1>3, <1>4, <1>5
    DEF Receive, BeginAdd, ReadMove, ReadResize, ReadUpdate, BeginDelete

----------------------------------------------------------------------------
(* The row carries the newest accepted seq, and what the writes in flight  *)
(* and the deletes have left behind is consistent:                         *)
(*   - a Put in flight is the only one for its asset and finds no row;     *)
(*   - a row, a write in flight and a delete presuppose an add;            *)
(*   - a write in flight that finds no row anymore is one whose row was    *)
(*     deleted.                                                            *)
InFlight(h, op, a) == Pending(h, op) /\ job[h].asset = a

PutIsFirst ==
  \A h \in Handlers, a \in Assets :
    InFlight(h, "put", a) =>
      /\ a \in added /\ row[a] = NoRow /\ a \notin deleted
      /\ \A g \in Handlers : /\ InFlight(g, "put", a) => g = h
                             /\ ~InFlight(g, "write", a)

RowsWereAdded ==
  \A a \in Assets : row[a] # NoRow \/ a \in deleted => a \in added

WritesHadRow ==
  \A h \in Handlers, a \in Assets :
    InFlight(h, "write", a) =>
      a \in added /\ (row[a] = NoRow => a \in deleted)

StoreInv == /\ TypeOK
        /\ SeqIsNewest
        /\ PutIsFirst
        /\ RowsWereAdded
        /\ WritesHadRow
        /\ RemnantIffDeleted

(* The empty room satisfies the invariant.                                 *)
THEOREM StoreInitInv == Init => StoreInv
  <1> SUFFICES ASSUME Init PROVE StoreInv
    OBVIOUS
  <1>1. TypeOK
    BY DEF Init, TypeOK
  <1>2. SeqIsNewest /\ RemnantIffDeleted
    BY DEF Init, SeqIsNewest, RemnantIffDeleted
  <1>3. PutIsFirst /\ RowsWereAdded /\ WritesHadRow
    BY DEF Init, PutIsFirst, RowsWereAdded, WritesHadRow, InFlight, Pending
  <1> QED BY <1>1, <1>2, <1>3 DEF StoreInv

(* A step that starts no job, writes no row and can only end jobs or move  *)
(* them to "announce" keeps the invariant.                                 *)
LEMMA QuietStep ==
  ASSUME StoreInv, NEW h \in Handlers, job[h] # Idle,
         UNCHANGED <<row, added, deleted, accepted>>,
         Stop(h)
  PROVE  StoreInv'
  <1>1. TypeOK'
    BY DEF StoreInv, TypeOK, Stop
  <1>2. SeqIsNewest' /\ RowsWereAdded' /\ RemnantIffDeleted'
    BY DEF StoreInv, SeqIsNewest, RowsWereAdded, RemnantIffDeleted
  <1>3. \A g \in Handlers, p \in {"put", "write"}, a \in Assets :
          InFlight(g, p, a)' => InFlight(g, p, a)
    BY DEF StoreInv, TypeOK, Stop, InFlight, Pending
  <1>4. PutIsFirst' /\ WritesHadRow'
    BY <1>3 DEF StoreInv, PutIsFirst, WritesHadRow
  <1> QED BY <1>1, <1>2, <1>4 DEF StoreInv

(* Starting a job keeps the invariant.                                     *)
LEMMA StartStep ==
  ASSUME StoreInv, NEW h \in Handlers, NEW a \in Assets,
         UNCHANGED <<row, deleted, accepted>>,
         \/ a \notin added /\ added' = added \cup {a} /\ Started(h, "put", a)
         \/ row[a] # NoRow /\ added' = added /\ Started(h, "write", a)
         \/ added' = added /\ Started(h, "delete", a)
  PROVE  StoreInv'
  <1>0. UNCHANGED <<row, deleted, accepted>>
    OBVIOUS
  <1>1. \/ a \notin added /\ added' = added \cup {a} /\ Started(h, "put", a)
        \/ row[a] # NoRow /\ added' = added /\ Started(h, "write", a)
        \/ added' = added /\ Started(h, "delete", a)
    OBVIOUS
  <1>2. added \subseteq added' /\ added' \in SUBSET Assets
    BY <1>1 DEF StoreInv, TypeOK
  <1>3. PICK p \in {"put", "write", "delete"}, j \in Job :
          /\ p = "put" => a \notin added /\ a \in added'
          /\ p = "write" => row[a] # NoRow
          /\ j.op = p /\ ~j.done /\ j.asset = a
          /\ job[h] = Idle /\ job' = [job EXCEPT ![h] = j]
    BY <1>1 DEF Started
  <1>4. TypeOK'
    BY <1>0, <1>2, <1>3 DEF StoreInv, TypeOK
  <1>5. SeqIsNewest' /\ RowsWereAdded' /\ RemnantIffDeleted'
    BY <1>0, <1>2 DEF StoreInv, SeqIsNewest, RowsWereAdded, RemnantIffDeleted
  <1>6. \A g \in Handlers, q \in {"put", "write"}, b \in Assets :
          InFlight(g, q, b)' => \/ g # h /\ InFlight(g, q, b)
                                \/ g = h /\ q = p /\ b = a
    BY <1>3 DEF StoreInv, TypeOK, InFlight, Pending
  <1>7. ~\E g \in Handlers : InFlight(g, "put", a) /\ p \in {"put", "write"}
    BY <1>3 DEF StoreInv, PutIsFirst
  <1>8. p = "put" => /\ row[a] = NoRow /\ a \notin deleted
                     /\ \A g \in Handlers : ~InFlight(g, "write", a)
    BY <1>3 DEF StoreInv, RowsWereAdded, WritesHadRow
  <1>9. PutIsFirst'
    BY <1>0, <1>2, <1>3, <1>6, <1>7, <1>8 DEF StoreInv, PutIsFirst
  <1>10. WritesHadRow'
    BY <1>0, <1>2, <1>3, <1>6 DEF StoreInv, WritesHadRow, RowsWereAdded
  <1> QED BY <1>4, <1>5, <1>9, <1>10 DEF StoreInv

(* Receiving a message keeps the invariant.                                *)
LEMMA ReceiveStep ==
  ASSUME StoreInv, NEW h \in Handlers, Receive(h)
  PROVE  StoreInv'
  BY ReceiveStarts, StartStep

(* The Put of asset:add keeps the invariant: it is the first and only put. *)
LEMMA PutStep ==
  ASSUME StoreInv, NEW h \in Handlers, PutRow(h)
  PROVE  StoreInv'
  <1> DEFINE a == job[h].asset
             new == NewRow(job[h])
  <1>1. /\ job[h] \in Job /\ a \in Assets /\ InFlight(h, "put", a)
        /\ row' = [row EXCEPT ![a] = new]
        /\ accepted' = [accepted EXCEPT ![a] = {0}]
        /\ added' = added /\ deleted' = deleted
        /\ job' = [job EXCEPT ![h].done = TRUE]
    BY DEF PutRow, MarkDone, StoreInv, TypeOK, InFlight, Pending, Job
  <1>2. new \in Row
    BY <1>1, MaxSeqAssumption DEF NewRow, Job, Patch, Row, OrMissing
  <1>3. /\ row[a] = NoRow /\ a \notin deleted /\ a \in added
        /\ new # NoRow /\ new.seq = 0 /\ new.type # Missing
    BY <1>1, <1>2, SentinelAssumption DEF StoreInv, PutIsFirst, NewRow
  <1>4. TypeOK'
    <2>1. job' \in [Handlers -> Job \cup {Idle}]
      BY <1>1 DEF StoreInv, TypeOK, Job
    <2>2. row' \in [Assets -> Row \cup {NoRow}]
      BY <1>1, <1>2 DEF StoreInv, TypeOK
    <2> QED BY <1>1, <2>1, <2>2, MaxSeqAssumption DEF StoreInv, TypeOK
  <1>5. SeqIsNewest'
    BY <1>1, <1>3 DEF StoreInv, TypeOK, SeqIsNewest
  <1>6. \A g \in Handlers, q \in {"put", "write"}, b \in Assets :
          InFlight(g, q, b)' => g # h /\ InFlight(g, q, b)
    BY <1>1, SentinelAssumption DEF StoreInv, TypeOK, InFlight, Pending, Job
  <1>7. PutIsFirst' /\ WritesHadRow'
    BY <1>1, <1>6 DEF StoreInv, TypeOK, PutIsFirst, WritesHadRow
  <1>8. RowsWereAdded' /\ RemnantIffDeleted'
    BY <1>1, <1>3 DEF StoreInv, TypeOK, RowsWereAdded, RemnantIffDeleted
  <1> QED BY <1>4, <1>5, <1>7, <1>8 DEF StoreInv

(* A conditional write keeps the invariant: its seq is the new largest, and *)
(* a row it re-creates belongs to a deleted asset.                         *)
LEMMA WriteStep ==
  ASSUME StoreInv, NEW h \in Handlers, WriteRow(h)
  PROVE  StoreInv'
  <1> DEFINE a == job[h].asset
             old == IF row[a] = NoRow THEN Blank ELSE row[a]
             new == Merge(old, job[h].patch, job[h].visible, job[h].seq)
  <1>1. /\ job[h] \in Job /\ a \in Assets /\ InFlight(h, "write", a)
        /\ row[a] # NoRow => row[a].seq < job[h].seq
        /\ row' = [row EXCEPT ![a] = new]
        /\ accepted' = [accepted EXCEPT ![a] = @ \cup {job[h].seq}]
        /\ added' = added /\ deleted' = deleted
        /\ job' = [job EXCEPT ![h].done = TRUE]
    BY DEF WriteRow, WriteWins, MarkDone, StoreInv, TypeOK, InFlight, Pending, Job
  <1>2. old \in Row
    BY <1>1, BlankIsRow DEF StoreInv, TypeOK
  <1>3. new \in Row
    <2>1. /\ job[h].patch \in Patch /\ job[h].visible \in BOOLEAN
          /\ job[h].seq \in 0..MaxSeq
      BY <1>1 DEF Job
    <2> QED BY <1>2, <2>1, MergeIsRow
  <1>4. new # NoRow /\ new.seq = job[h].seq /\ new.type = old.type
    BY <1>2, <1>3, SentinelAssumption DEF Merge, Row
  <1>5. TypeOK'
    <2>1. job' \in [Handlers -> Job \cup {Idle}]
      BY <1>1 DEF StoreInv, TypeOK, Job
    <2>2. row' \in [Assets -> Row \cup {NoRow}]
      BY <1>1, <1>3 DEF StoreInv, TypeOK
    <2>3. accepted' \in [Assets -> SUBSET (0..MaxSeq)]
      BY <1>1 DEF StoreInv, TypeOK, Job
    <2> QED BY <1>1, <2>1, <2>2, <2>3 DEF StoreInv, TypeOK
  <1>6. SeqIsNewest'
    <2>1. ASSUME NEW s \in accepted[a], s # job[h].seq
          PROVE  s <= job[h].seq
      BY <1>1, <2>1 DEF StoreInv, TypeOK, SeqIsNewest, Row, Job
    <2> QED BY <1>1, <1>4, <2>1 DEF StoreInv, TypeOK, SeqIsNewest, Job
  <1>7. \A g \in Handlers, q \in {"put", "write"}, b \in Assets :
          InFlight(g, q, b)' => g # h /\ InFlight(g, q, b)
    BY <1>1 DEF StoreInv, TypeOK, InFlight, Pending, Job
  <1>8. PutIsFirst' /\ WritesHadRow'
    BY <1>1, <1>4, <1>7 DEF StoreInv, TypeOK, PutIsFirst, WritesHadRow
  <1>9. RowsWereAdded'
    BY <1>1 DEF StoreInv, TypeOK, RowsWereAdded, WritesHadRow
  <1>10. RemnantIffDeleted'
    <2>1. new.type = Missing <=> a \in deleted
      <3>1. CASE row[a] = NoRow
        BY <1>1, <1>4, <3>1 DEF StoreInv, WritesHadRow, Blank
      <3>2. CASE row[a] # NoRow
        BY <1>1, <1>4, <3>2 DEF StoreInv, RemnantIffDeleted
      <3> QED BY <3>1, <3>2
    <2> QED BY <1>1, <2>1 DEF StoreInv, TypeOK, RemnantIffDeleted
  <1> QED BY <1>5, <1>6, <1>8, <1>9, <1>10 DEF StoreInv

(* A delete keeps the invariant: row and history are emptied together.     *)
LEMMA DeleteStep ==
  ASSUME StoreInv, NEW h \in Handlers, DeleteRow(h)
  PROVE  StoreInv'
  <1> DEFINE a == job[h].asset
  <1>1. /\ job[h] \in Job /\ a \in Assets /\ InFlight(h, "delete", a)
        /\ row' = [row EXCEPT ![a] = NoRow]
        /\ accepted' = [accepted EXCEPT ![a] = {}]
        /\ added' = added
        /\ deleted' = IF row[a] = NoRow THEN deleted ELSE deleted \cup {a}
        /\ job' = [job EXCEPT ![h].done = TRUE]
    BY DEF DeleteRow, MarkDone, StoreInv, TypeOK, InFlight, Pending, Job
  <1>2. TypeOK'
    <2>1. job' \in [Handlers -> Job \cup {Idle}]
      BY <1>1 DEF StoreInv, TypeOK, Job
    <2> QED BY <1>1, <2>1 DEF StoreInv, TypeOK
  <1>3. SeqIsNewest'
    BY <1>1 DEF StoreInv, TypeOK, SeqIsNewest
  <1>4. \A g \in Handlers, q \in {"put", "write"}, b \in Assets :
          InFlight(g, q, b)' => g # h /\ InFlight(g, q, b)
    BY <1>1 DEF StoreInv, TypeOK, InFlight, Pending, Job
  <1>5. PutIsFirst'
    BY <1>1, <1>4 DEF StoreInv, TypeOK, PutIsFirst
  <1>6. WritesHadRow'
    BY <1>1, <1>4 DEF StoreInv, TypeOK, WritesHadRow
  <1>7. RowsWereAdded' /\ RemnantIffDeleted'
    BY <1>1 DEF StoreInv, TypeOK, RowsWereAdded, RemnantIffDeleted
  <1> QED BY <1>2, <1>3, <1>5, <1>6, <1>7 DEF StoreInv

(* Broadcasting, dropping and aborting keep the invariant.                 *)
LEMMA AnnounceStep ==
  ASSUME StoreInv, NEW h \in Handlers, Announce(h) \/ DropStale(h) \/ Abort(h)
  PROVE  StoreInv'
  BY QuietStep DEF Announce, DropStale, Abort, Pending

(* Every step of every invocation keeps the invariant.                     *)
THEOREM StoreNextInv == StoreInv /\ [Next]_vars => StoreInv'
  <1> SUFFICES ASSUME StoreInv, [Next]_vars PROVE StoreInv'
    OBVIOUS
  <1>1. CASE UNCHANGED vars
    BY <1>1 DEF vars, StoreInv, TypeOK, SeqIsNewest, PutIsFirst, RowsWereAdded,
                WritesHadRow, RemnantIffDeleted, InFlight, Pending
  <1>2. ASSUME NEW h \in Handlers, Receive(h) \/ Proceed(h)
        PROVE  StoreInv'
    BY <1>2, ReceiveStep, PutStep, WriteStep, DeleteStep, AnnounceStep DEF Proceed
  <1> QED BY <1>1, <1>2 DEF Next

(* The rows, jobs and histories keep their types, the row's seq stays the  *)
(* newest of those accepted, and remnants arise only from deletes.         *)
THEOREM StoreInvariance == Spec => [](TypeOK /\ SeqIsNewest /\ RemnantIffDeleted)
  <1>1. StoreInv => TypeOK /\ SeqIsNewest /\ RemnantIffDeleted
    BY DEF StoreInv
  <1> QED BY <1>1, StoreInitInv, StoreNextInv, PTL DEF Spec

(* No two accepted writes of one row carry the same seq.                   *)
THEOREM SeqNeverReused == Spec => NoSeqReuse
  <1>1. ASSUME StoreInv, [Next]_vars, NEW h \in Handlers,
               Pending(h, "write"), job'[h] # Idle, job'[h].done
        PROVE  job[h].seq \notin accepted[job[h].asset]
    <2>a. job[h] \in Job /\ job \in [Handlers -> Job \cup {Idle}]
      BY <1>1 DEF Pending, StoreInv, TypeOK
    <2>b. job'[h] # job[h]
      BY <1>1 DEF Pending
    <2>1. PICK g \in Handlers : Receive(g) \/ Proceed(g)
      BY <1>1, <2>b DEF Next, vars
    <2>2. g = h
      <3>1. Receive(g) => g = h
        BY <2>a, <2>b, ReceiveStarts DEF Started
      <3>2. MarkDone(g) \/ Stop(g) => g = h
        BY <2>a, <2>b DEF MarkDone, Stop
      <3>3. Proceed(g) => MarkDone(g) \/ Stop(g)
        BY DEF Proceed, PutRow, WriteRow, DropStale, DeleteRow, Announce, Abort
      <3> QED BY <2>1, <3>1, <3>2, <3>3
    <2>3. WriteRow(h)
      <3>1. ~Receive(h)
        BY <1>1, ReceiveStarts DEF Started, Pending
      <3>2. ~(PutRow(h) \/ DeleteRow(h) \/ Announce(h))
        BY <1>1 DEF PutRow, DeleteRow, Announce, Pending
      <3>3. ~(DropStale(h) \/ Abort(h))
        BY <1>1, <2>a DEF DropStale, Abort, Stop
      <3> QED BY <2>1, <2>2, <3>1, <3>2, <3>3 DEF Proceed
    <2> DEFINE a == job[h].asset
               s == job[h].seq
    <2>4. a \in Assets /\ s \in 0..MaxSeq
      BY <2>a DEF Job
    <2>5. row[a] # NoRow => row[a].seq \in 0..MaxSeq /\ row[a].seq < s
      BY <1>1, <2>3, <2>4 DEF WriteRow, WriteWins, Pending, StoreInv, TypeOK, Row
    <2>6. row[a] # NoRow => \A r \in accepted[a] : r <= row[a].seq /\ r \in 0..MaxSeq
      BY <1>1, <2>4 DEF StoreInv, TypeOK, SeqIsNewest
    <2>7. row[a] = NoRow => accepted[a] = {}
      BY <1>1, <2>4 DEF StoreInv, SeqIsNewest
    <2> HIDE DEF a, s
    <2>8. s \notin accepted[a]
      BY <2>4, <2>5, <2>6, <2>7, MaxSeqAssumption
    <2> QED BY <2>8 DEF a, s
  <1>2. StoreInv /\ [Next]_vars => [\A h \in Handlers : FreshWrite(h)]_vars
    BY <1>1 DEF FreshWrite
  <1> QED BY <1>2, StoreInitInv, StoreNextInv, PTL DEF Spec, NoSeqReuse

(* Every step of the store is a step of the abstract register or leaves    *)
(* the rows alone.                                                         *)
LEMMA RowStepRefines ==
  ASSUME StoreInv, [Next]_vars
  PROVE  [Register!Next]_row
  <1>1. CASE UNCHANGED row
    BY <1>1
  <1>2. ASSUME NEW h \in Handlers, PutRow(h)
        PROVE  Register!Next
    <2> DEFINE a == job[h].asset
    <2>1. /\ a \in Assets /\ row[a] = NoRow
          /\ \A b \in Assets \ {a} : row'[b] = row[b]
      BY <1>2 DEF PutRow, Pending, StoreInv, TypeOK, Job, PutIsFirst, InFlight, Pending
    <2>2. row'[a] # NoRow
      <3>1. row'[a] = NewRow(job[h])
        BY <1>2, <2>1 DEF PutRow, Pending, StoreInv, TypeOK
      <3>2. job[h] \in Job
        BY <1>2 DEF PutRow, Pending, StoreInv, TypeOK
      <3>3. row'[a] \in Row
        BY <3>1, <3>2, MaxSeqAssumption DEF NewRow, Job, Patch, Row, OrMissing
      <3> QED BY <3>3, SentinelAssumption
    <2> QED BY <2>1, <2>2 DEF Register!Next, Register!Fill
  <1>3. ASSUME NEW h \in Handlers, WriteRow(h)
        PROVE  Register!Next
    <2> DEFINE a == job[h].asset
               old == IF row[a] = NoRow THEN Blank ELSE row[a]
               new == Merge(old, job[h].patch, job[h].visible, job[h].seq)
    <2>1. /\ a \in Assets /\ job[h].seq \in 0..MaxSeq
          /\ job[h].patch \in Patch /\ job[h].visible \in BOOLEAN
          /\ row[a] # NoRow => row[a].seq < job[h].seq
          /\ row'[a] = new
          /\ \A b \in Assets \ {a} : row'[b] = row[b]
      BY <1>3 DEF WriteRow, WriteWins, Pending, StoreInv, TypeOK, Job
    <2>2. old \in Row
      BY <2>1, BlankIsRow DEF StoreInv, TypeOK
    <2>3. new \in Row
      BY <2>1, <2>2, MergeIsRow
    <2>4. new # NoRow /\ new.seq = job[h].seq
      BY <2>2, <2>3, SentinelAssumption DEF Merge, Row
    <2>5. row[a] # NoRow => row[a].seq \in 0..MaxSeq
      BY <2>1 DEF StoreInv, TypeOK, Row
    <2>6. Register!Fill(a) \/ Register!Advance(a)
      BY <2>1, <2>4, <2>5 DEF Register!Fill, Register!Advance
    <2> QED BY <2>1, <2>6 DEF Register!Next
  <1>4. ASSUME NEW h \in Handlers, DeleteRow(h), ~UNCHANGED row
        PROVE  Register!Next
    <2> DEFINE a == job[h].asset
    <2>1. /\ a \in Assets
          /\ row' = [row EXCEPT ![a] = NoRow]
      BY <1>4 DEF DeleteRow, Pending, StoreInv, TypeOK, Job
    <2>2. row[a] # NoRow
      BY <1>4, <2>1 DEF StoreInv, TypeOK
    <2> QED BY <2>1, <2>2 DEF StoreInv, TypeOK, Register!Next, Register!Clear
  <1>5. ASSUME NEW h \in Handlers,
               Receive(h) \/ DropStale(h) \/ Announce(h) \/ Abort(h)
        PROVE  UNCHANGED row
    BY <1>5, ReceiveStarts DEF DropStale, Announce, Abort
  <1> QED
    BY <1>1, <1>2, <1>3, <1>4, <1>5 DEF Next, Proceed, vars

(* Detailed invocations implement the seq-guarded register, for every      *)
(* interleaving and every number of them.                                  *)
THEOREM StoreRefinesRegister == Spec => RowsAreSeqRegisters
  <1>1. Init => Register!Init
    BY DEF Init, Register!Init
  <1>2. StoreInv /\ [Next]_vars => [Register!Next]_row
    BY RowStepRefines
  <1> QED
    BY <1>1, <1>2, StoreInitInv, StoreNextInv, PTL
    DEF Spec, RowsAreSeqRegisters, Register!Spec

----------------------------------------------------------------------------
(* The visible flag.  An invocation that is not outdated has computed the  *)
(* flag of what its write will make of the box that is there.              *)
Fits(j, b) ==
  j.visible = Visible(Else(j.patch.x, b.x), Else(j.patch.width, b.width),
                      Else(j.patch.hidden, b.hidden))

PutFits(j) == j.visible = Visible(j.patch.x, j.patch.width, j.patch.hidden)

Prepared(j) == /\ j.op = "write" => Fits(j, BoxOf(row[j.asset]))
               /\ j.op = "put" => PutFits(j)

FlagsFit ==
  \A h \in Handlers :
    /\ (Writing(h) /\ h \notin outdated) => Fits(job[h], BoxOf(row[job[h].asset]))
    /\ Pending(h, "put") => PutFits(job[h])

VisibilityInv == StoreInv /\ FlagsFit /\ VisibleIsRight

(* Nothing is shown and nothing runs at the start.                         *)
LEMMA VisibilityInitInv == VisibilityInit => VisibilityInv
  BY StoreInitInv DEF VisibilityInit, VisibilityInv, FlagsFit, VisibleIsRight, Init, Writing,
                 Pending

(* What an invocation has computed when it starts.                         *)
LEMMA ReadFits ==
  ASSUME StoreInv, NEW h \in Handlers, Receive(h)
  PROVE  /\ row' = row
         /\ \E j : job' = [job EXCEPT ![h] = j] /\ Prepared(j)
  <1>1. row' = row
    BY ReceiveStarts
  <1>2. ASSUME NEW a \in Assets, NEW op, NEW p, NEW v, NEW s, Start(h, op, a, p, v, s),
               NEW j, j = [op |-> op, done |-> FALSE, asset |-> a, patch |-> p,
                           visible |-> v, seq |-> s],
               Prepared(j)
        PROVE  \E k : job' = [job EXCEPT ![h] = k] /\ Prepared(k)
    BY <1>2 DEF Start
  <1>3. ASSUME NEW a \in Assets, NEW x \in Positions, NEW w \in Widths,
               NEW hid \in OrMissing(Hiddens), BeginAdd(h, a, x, w, hid)
        PROVE  \E k : job' = [job EXCEPT ![h] = k] /\ Prepared(k)
    <2>1. PICK j : j = [op |-> "put", done |-> FALSE, asset |-> a,
                        patch |-> Carry(x, w, Else(hid, FALSE)),
                        visible |-> Visible(x, w, hid), seq |-> 0]
      OBVIOUS
    <2>2. Missing # TRUE
      BY SentinelAssumption
    <2>3. Visible(x, w, hid) = Visible(x, w, Else(hid, FALSE))
      BY <2>2 DEF Visible, Else
    <2>4. Prepared(j)
      BY <2>1, <2>3 DEF Prepared, PutFits, Carry
    <2> QED BY <1>2, <1>3, <2>1, <2>4 DEF BeginAdd
  <1>4. ASSUME NEW a \in Assets, row[a] # NoRow, NEW p, NEW v, NEW s,
               Start(h, "write", a, p, v, s),
               v = Visible(Else(p.x, row[a].x), Else(p.width, row[a].width),
                           Else(p.hidden, row[a].hidden))
        PROVE  \E k : job' = [job EXCEPT ![h] = k] /\ Prepared(k)
    <2>1. PICK j : j = [op |-> "write", done |-> FALSE, asset |-> a, patch |-> p,
                        visible |-> v, seq |-> s]
      OBVIOUS
    <2>2. Prepared(j)
      BY <1>4, <2>1 DEF Prepared, Fits, BoxOf, Carry
    <2> QED BY <1>2, <1>4, <2>1, <2>2
  <1>5. \A S, v : (v \in S /\ Missing \notin S) => \A d : Else(v, d) = v
    BY DEF Else
  <1>6. Missing \notin Positions /\ Missing \notin Widths
    BY SentinelAssumption
  <1>7. ASSUME NEW a \in Assets, NEW x \in Positions, NEW s \in Seqs, ReadMove(h, a, x, s)
        PROVE  \E k : job' = [job EXCEPT ![h] = k] /\ Prepared(k)
    <2>1. PICK p : p = Carry(x, Missing, Missing)
      OBVIOUS
    <2>2. Else(p.x, row[a].x) = x /\ Else(p.width, row[a].width) = row[a].width
          /\ Else(p.hidden, row[a].hidden) = row[a].hidden
      BY <1>6, <2>1 DEF Carry, Else
    <2> QED BY <1>4, <1>7, <2>1, <2>2 DEF ReadMove
  <1>8. ASSUME NEW a \in Assets, NEW x \in Positions, NEW w \in Widths, NEW s \in Seqs,
               ReadResize(h, a, x, w, s)
        PROVE  \E k : job' = [job EXCEPT ![h] = k] /\ Prepared(k)
    <2>1. PICK p : p = Carry(x, w, Missing)
      OBVIOUS
    <2>2. Else(p.x, row[a].x) = x /\ Else(p.width, row[a].width) = w
          /\ Else(p.hidden, row[a].hidden) = row[a].hidden
      BY <1>6, <2>1 DEF Carry, Else
    <2> QED BY <1>4, <1>8, <2>1, <2>2 DEF ReadResize
  <1>9. ASSUME NEW a \in Assets, NEW w \in OrMissing(Widths),
               NEW hid \in OrMissing(Hiddens), NEW s \in Seqs, ReadUpdate(h, a, w, hid, s)
        PROVE  \E k : job' = [job EXCEPT ![h] = k] /\ Prepared(k)
    <2>1. PICK p : p = Carry(Missing, w, hid)
      OBVIOUS
    <2>2. Else(p.x, row[a].x) = row[a].x /\ p.width = w /\ p.hidden = hid
      BY <2>1 DEF Carry, Else
    <2> QED BY <1>4, <1>9, <2>1, <2>2 DEF ReadUpdate
  <1>10. ASSUME NEW a \in Assets, BeginDelete(h, a)
         PROVE  \E k : job' = [job EXCEPT ![h] = k] /\ Prepared(k)
    <2>1. PICK j : j = [op |-> "delete", done |-> FALSE, asset |-> a,
                        patch |-> Carry(Missing, Missing, Missing),
                        visible |-> FALSE, seq |-> 0]
      OBVIOUS
    <2>2. Prepared(j)
      BY <2>1 DEF Prepared
    <2> QED BY <1>2, <1>10, <2>1, <2>2 DEF BeginDelete
  <1> QED BY <1>1, <1>3, <1>7, <1>8, <1>9, <1>10 DEF Receive

(* Whatever the step, an unfinished job has just been prepared or is the   *)
(* same as before.                                                         *)
LEMMA JobsStep ==
  ASSUME StoreInv, Next, NEW g \in Handlers, job'[g] # Idle, ~job'[g].done
  PROVE  job'[g] = job[g] \/ (row' = row /\ Prepared(job'[g]))
  <1>1. PICK h \in Handlers : Receive(h) \/ Proceed(h)
    BY DEF Next
  <1>2. job \in [Handlers -> Job \cup {Idle}]
    BY DEF StoreInv, TypeOK
  <1>3. CASE Receive(h)
    BY <1>2, <1>3, ReadFits
  <1>4. CASE Proceed(h)
    <2>1. (MarkDone(h) /\ job[h] \in Job) \/ Stop(h)
      BY <1>2, <1>4 DEF Proceed, PutRow, WriteRow, DropStale, DeleteRow, Announce, Abort,
                        Pending
    <2> QED BY <1>2, <2>1 DEF MarkDone, Stop, Job
  <1> QED BY <1>1, <1>3, <1>4

(* What the flag of a row is after a write that was not outdated.          *)
LEMMA MergedFlag ==
  ASSUME NEW old \in Row, NEW j, Fits(j, BoxOf(old)), old # NoRow, NEW new,
         new = Merge(old, j.patch, j.visible, j.seq)
  PROVE  new.visible = Visible(new.x, new.width, new.hidden)
  BY DEF Fits, BoxOf, Carry, Merge, Row

(* Every step keeps the flags right.                                       *)
LEMMA VisibilityStep ==
  ASSUME VisibilityInv, VisibilityNext
  PROVE  VisibilityInv'
  <1>1. StoreInv /\ StoreInv' /\ Next /\ Watch
    BY StoreNextInv DEF VisibilityInv, VisibilityNext
  <1>2. FlagsFit'
    <2> SUFFICES ASSUME NEW h \in Handlers
                 PROVE  /\ (Writing(h)' /\ h \notin outdated')
                             => Fits(job'[h], BoxOf(row'[job'[h].asset]))
                        /\ Pending(h, "put")' => PutFits(job'[h])
      BY DEF FlagsFit, Fits, PutFits, BoxOf
    <2>1. ASSUME Writing(h)', h \notin outdated'
          PROVE  Fits(job'[h], BoxOf(row'[job'[h].asset]))
      <3>1. job'[h] # Idle /\ job'[h].op = "write" /\ ~job'[h].done
        BY <2>1 DEF Writing, Pending
      <3>2. CASE row' = row /\ Prepared(job'[h])
        BY <3>1, <3>2 DEF Prepared
      <3>3. CASE job'[h] = job[h]
        <4>1. Writing(h)
          BY <3>1, <3>3 DEF Writing, Pending
        <4>2. h \notin outdated /\ ~Reboxed(job[h].asset)
          BY <1>1, <2>1, <3>3, <4>1 DEF Watch
        <4> QED BY <3>3, <4>1, <4>2 DEF Reboxed, VisibilityInv, FlagsFit
      <3> QED BY <1>1, <3>1, <3>2, <3>3, JobsStep
    <2>2. ASSUME Pending(h, "put")' PROVE PutFits(job'[h])
      <3>1. job'[h] # Idle /\ job'[h].op = "put" /\ ~job'[h].done
        BY <2>2 DEF Pending
      <3>2. job'[h] = job[h] => Pending(h, "put")
        BY <3>1 DEF Pending
      <3> QED BY <1>1, <3>1, <3>2, JobsStep DEF Prepared, VisibilityInv, FlagsFit
    <2> QED BY <2>1, <2>2
  <1>3. VisibleIsRight'
    <2> SUFFICES ASSUME NEW a \in Assets, row'[a] # NoRow, a \notin skewed'
                 PROVE  row'[a].visible = Visible(row'[a].x, row'[a].width, row'[a].hidden)
      BY DEF VisibleIsRight, Visible, Intersects
    <2>1. CASE row'[a] = row[a]
      <3>1. a \notin skewed
        BY <1>1, <2>1 DEF Watch
      <3> QED BY <2>1, <3>1 DEF VisibilityInv, VisibleIsRight
    <2>2. CASE row'[a] # row[a]
      <3>1. PICK h \in Handlers : Receive(h) \/ Proceed(h)
        BY <1>1 DEF Next
      <3>2. PutRow(h) \/ WriteRow(h) \/ DeleteRow(h)
        BY <1>1, <2>2, <3>1, ReadFits DEF Proceed, DropStale, Announce, Abort
      <3>3. job[h] \in Job /\ job \in [Handlers -> Job \cup {Idle}]
            /\ row \in [Assets -> Row \cup {NoRow}]
        BY <1>1, <3>2 DEF StoreInv, TypeOK, PutRow, WriteRow, DeleteRow, Pending
      <3>4. CASE DeleteRow(h)
        BY <2>2, <3>3, <3>4 DEF DeleteRow, Job
      <3>5. CASE PutRow(h)
        <4>1. Pending(h, "put") /\ job[h].asset = a /\ row'[a] = NewRow(job[h])
          BY <2>2, <3>3, <3>5 DEF PutRow, Job
        <4>2. PutFits(job[h])
          BY <4>1 DEF VisibilityInv, FlagsFit
        <4> QED BY <4>1, <4>2 DEF PutFits, NewRow
      <3>6. CASE WriteRow(h)
        <4> DEFINE old == IF row[a] = NoRow THEN Blank ELSE row[a]
        <4>1. /\ Writing(h) /\ job[h].asset = a
              /\ row'[a] = Merge(old, job[h].patch, job[h].visible, job[h].seq)
              /\ job'[h] # Idle /\ job'[h].done
          <5>1. Pending(h, "write") /\ MarkDone(h) /\ job[h].asset = a
            BY <2>2, <3>3, <3>6 DEF WriteRow, Job
          <5>2. row'[a] = Merge(old, job[h].patch, job[h].visible, job[h].seq)
            BY <3>3, <3>6, <5>1 DEF WriteRow
          <5>3. job'[h] = [job[h] EXCEPT !.done = TRUE]
            BY <3>3, <5>1 DEF MarkDone
          <5>4. job'[h] \in Job /\ job'[h].done
            BY <3>3, <5>3 DEF Job
          <5>5. job'[h] # Idle
            BY <5>4, SentinelAssumption
          <5> QED BY <5>1, <5>2, <5>4, <5>5 DEF Writing
        <4>2. h \notin outdated
          BY <1>1, <2>2, <4>1 DEF Watch, HasWritten
        <4>3. Fits(job[h], BoxOf(row[a]))
          BY <4>1, <4>2 DEF VisibilityInv, FlagsFit
        <4>4. old \in Row /\ old # NoRow /\ BoxOf(old) = BoxOf(row[a])
          <5>1. Blank \in Row /\ Blank # NoRow
            BY BlankIsRow, SentinelAssumption
          <5>2. BoxOf(Blank) = BoxOf(NoRow)
            BY <5>1 DEF BoxOf, Blank, Carry
          <5> QED BY <3>3, <5>1, <5>2
        <4> HIDE DEF old
        <4>5. Fits(job[h], BoxOf(old))
          BY <4>3, <4>4
        <4> QED BY <4>1, <4>4, <4>5, MergedFlag
      <3> QED BY <3>2, <3>4, <3>5, <3>6
    <2> QED BY <2>1, <2>2
  <1> QED BY <1>1, <1>2, <1>3 DEF VisibilityInv

LEMMA VisibilityNextInv ==
  ASSUME VisibilityInv, [VisibilityNext]_visibilityVars
  PROVE  VisibilityInv'
  <1>1. ASSUME UNCHANGED visibilityVars PROVE VisibilityInv'
    <2>1. StoreInv'
      BY <1>1, StoreNextInv DEF visibilityVars, VisibilityInv
    <2> QED BY <1>1, <2>1 DEF visibilityVars, vars, VisibilityInv, FlagsFit,
                              VisibleIsRight, Writing, Pending
  <1> QED BY <1>1, VisibilityStep

(* roomState.ts:190-206: for any number of assets and invocations, the flag*)
(* of a row is that of its box unless its last write was overtaken between *)
(* its read and its write, and a row lacks its attributes only if it came  *)
(* back after a delete.                                                    *)
THEOREM RowsStaySound == VisibilitySpec => []RowsAreSound
  <1>1. VisibilityInv /\ [VisibilityNext]_visibilityVars => VisibilityInv'
    BY VisibilityNextInv
  <1>2. VisibilityInv => RowsAreSound
    BY DEF VisibilityInv, StoreInv, RowsAreSound
  <1> QED BY <1>1, <1>2, VisibilityInitInv, PTL DEF VisibilitySpec
============================================================================
