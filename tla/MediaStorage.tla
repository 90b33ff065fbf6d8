---------------------------- MODULE MediaStorage ----------------------------
(***************************************************************************)
(* The objects in S3 and the asset rows that name them by their s3Key:     *)
(* uploads (services/upload-url, upload.ts, main.ts), asset:add and        *)
(* asset:delete (message.ts), duplicates, and the daily retention job      *)
(* (services/retention-job).  No object has a count of references: whoever *)
(* deletes one decides from rows it has read before.                       *)
(*                                                                         *)
(* Abstracted: a row is its room, its key, whether its size is known and   *)
(* whether it has not been used for long.  Only assets with media.  A row  *)
(* that a late write re-creates (module AssetStore) names no object.       *)
(***************************************************************************)
EXTENDS Naturals, FiniteSets, FiniteSetsExt

CONSTANTS
  Places,      \* rooms
  Media,       \* s3Keys, fresh at every upload
  Home,        \* Home[k]: the room in whose prefix key k is
  Size,        \* Size[k]: bytes
  Quota,       \* ROOM_STORAGE_QUOTA_BYTES
  AssetIds,    \* ids of asset rows
  Workers,     \* concurrent invocations of the WebSocket handler
  NoAsset, NoKey, NoChore

ASSUME MediaAssumption ==
  Home \in [Media -> Places] /\ Size \in [Media -> Nat \ {0}] /\ Quota \in Nat \ {0}

VARIABLES
  stored,      \* the objects
  placed,      \* placed[a]: the row of a, or NoAsset
  copies,      \* <<r, k>>: a canvas of room r may have an asset with key k
  upload,      \* upload[k]: how far the upload of k is
  viewing,     \* the room the uploading client shows
  chore,       \* chore[h]: what invocation h does next, or NoChore
  sweep,       \* the retention job
  lateAdds,    \* history: keys a row was put for after the decision to delete
  strays,      \* history: keys whose object somebody failed to delete or place
  rushed       \* history: an upload was admitted before all sizes were known, or
               \* media that no row named any more was duplicated

mediaVars ==
  <<stored, placed, copies, upload, viewing, chore, sweep, lateAdds, strays, rushed>>

----------------------------------------------------------------------------
MediaRow == [room : Places, key : Media, sized : BOOLEAN, old : BOOLEAN]

Chore == [step : {"head", "put", "drop", "check", "erase"}, room : Places,
          id : AssetIds, key : Media, sized : BOOLEAN]

Sweep == [phase : {"idle", "scan", "delete"}, unseen : SUBSET AssetIds,
          seen : [AssetIds -> Media \cup {NoKey}], stale : SUBSET AssetIds,
          victim : Media \cup {NoKey}]

MediaTypeOK ==
  /\ stored \subseteq Media
  /\ placed \in [AssetIds -> MediaRow \cup {NoAsset}]
  /\ copies \subseteq Places \X Media
  /\ upload \in [Media -> {"none", "presigned", "fetching", "stored", "ended"}]
  /\ viewing \in Places
  /\ chore \in [Workers -> Chore \cup {NoChore}]
  /\ sweep \in Sweep
  /\ lateAdds \subseteq Media
  /\ strays \subseteq Media
  /\ rushed \in BOOLEAN

ASSUME StorageAssumption ==
  IsFiniteSet(AssetIds) /\ NoAsset \notin MediaRow /\ NoKey \notin Media /\ NoChore \notin Chore

Rested ==
  [phase |-> "idle", unseen |-> {}, seen |-> [a \in AssetIds |-> NoKey],
   stale |-> {}, victim |-> NoKey]

MediaInit ==
  /\ stored = {}
  /\ placed = [a \in AssetIds |-> NoAsset]
  /\ copies = {}
  /\ upload = [k \in Media |-> "none"]
  /\ viewing \in Places
  /\ chore = [h \in Workers |-> NoChore]
  /\ sweep = Rested
  /\ lateAdds = {}
  /\ strays = {}
  /\ rushed = FALSE

----------------------------------------------------------------------------
Has(a) == placed[a] # NoAsset

(* listAssets, and isS3KeyReferencedElsewhere: rows of one room.           *)
RowsOf(r) == {a \in AssetIds : Has(a) /\ placed[a].room = r}
References(r, k) == {a \in RowsOf(r) : placed[a].key = k}

(* sumRoomStorageBytes: each key of known size once.                       *)
Total(S) == MapThenSumSet(LAMBDA k : Size[k], S)
SizedKeys(r) == {k \in Media : \E a \in References(r, k) : placed[a].sized}
UsedBytes(r) == Total(SizedKeys(r))

Working(h, step) == chore[h] # NoChore /\ chore[h].step = step
Advance(h, step) == chore' = [chore EXCEPT ![h].step = step]
Done(h) == chore' = [chore EXCEPT ![h] = NoChore]

Unplaced(k) ==
  \/ upload[k] \in {"presigned", "fetching", "stored"}
  \/ \E h \in Workers : chore[h] # NoChore /\ chore[h].key = k /\ chore[h].step \in {"head", "put"}

----------------------------------------------------------------------------
(* The client.                                                             *)

EnterPlace(r) ==
  /\ viewing # r
  /\ viewing' = r
  /\ UNCHANGED <<stored, placed, copies, upload, chore, sweep, lateAdds, strays, rushed>>

(* Mutant of QuotaLeft: > for >=.                                          *)
QuotaLeftToo(r) == UsedBytes(r) <= Quota

QuotaLeft(r) == UsedBytes(r) < Quota

(* GET /assets/upload-url and POST /assets/upload-from-url admit by what   *)
(* the rows add up to now; the room is the one shown.                      *)
Admit(k, stage) ==
  /\ upload[k] = "none"
  /\ viewing = Home[k]
  /\ QuotaLeft(viewing)
  /\ upload' = [upload EXCEPT ![k] = stage]
  /\ rushed' = (\/ rushed
                \/ \E j \in Media \ {k} : Unplaced(j)
                \/ \E a \in RowsOf(viewing) : ~placed[a].sized)
  /\ UNCHANGED <<stored, placed, copies, viewing, chore, sweep, lateAdds, strays>>

PresignUpload(k) == Admit(k, "presigned")
AskUploadFromUrl(k) == Admit(k, "fetching")

(* The client PUTs the file to the signed URL ...                          *)
PutFile(k) ==
  /\ upload[k] = "presigned"
  /\ stored' = stored \cup {k}
  /\ upload' = [upload EXCEPT ![k] = "stored"]
  /\ UNCHANGED <<placed, copies, viewing, chore, sweep, lateAdds, strays, rushed>>

(* ... or the Lambda has fetched the URL and puts what it got.             *)
PutFetched(k) ==
  /\ upload[k] = "fetching"
  /\ stored' = stored \cup {k}
  /\ upload' = [upload EXCEPT ![k] = "stored"]
  /\ UNCHANGED <<placed, copies, viewing, chore, sweep, lateAdds, strays, rushed>>

(* A failed request; or the upload ends when the client shows no room, or  *)
(* has been closed: nothing is sent then.                                  *)
AbandonUpload(k) ==
  /\ upload[k] \in {"presigned", "fetching", "stored"}
  /\ upload' = [upload EXCEPT ![k] = "ended"]
  /\ strays' = strays \cup {k}
  /\ UNCHANGED <<stored, placed, copies, viewing, chore, sweep, lateAdds, rushed>>

NewChore(h, step, r, a, k) ==
  /\ chore[h] = NoChore
  /\ chore' = [chore EXCEPT ![h] =
                 [step |-> step, room |-> r, id |-> a, key |-> k, sized |-> FALSE]]

(* Ids are fresh UUIDs; one that nobody remembers any more is as good.     *)
Unused(a) ==
  /\ ~Has(a)
  /\ sweep.seen[a] = NoKey
  /\ \A h \in Workers : chore[h] # NoChore => chore[h].id # a

(* Mutant of AcceptsKey: the prefix is not looked at.                      *)
AcceptsAnyKey(r, k) == TRUE

(* asset:add: the key must be under the room's prefix.                     *)
AcceptsKey(r, k) == Home[k] = r

(* placeUploadedAsset: in the room shown now, whatever room it was for.    *)
PlaceUpload(h, a, k) ==
  /\ upload[k] = "stored"
  /\ Unused(a)
  /\ upload' = [upload EXCEPT ![k] = "ended"]
  /\ IF AcceptsKey(viewing, k)
       THEN NewChore(h, "head", viewing, a, k) /\ UNCHANGED strays
       ELSE strays' = strays \cup {k} /\ UNCHANGED chore
  /\ UNCHANGED <<stored, placed, copies, viewing, sweep, lateAdds, rushed>>

(* duplicateAsset takes the key from its own canvas, which may still show  *)
(* an asset whose row, or whose object even, is gone.                      *)
DuplicateAsset(h, b, k) ==
  /\ <<viewing, k>> \in copies
  /\ AcceptsKey(viewing, k)
  /\ Unused(b)
  /\ NewChore(h, "head", viewing, b, k)
  /\ rushed' = (rushed \/ References(viewing, k) = {})
  /\ UNCHANGED <<stored, placed, copies, upload, viewing, sweep, lateAdds, strays>>

----------------------------------------------------------------------------
(* asset:add and asset:delete.                                             *)

(* fetchFileSize; undefined if the object is gone, or the request fails.   *)
FetchFileSize(h, known) ==
  /\ Working(h, "head")
  /\ known => chore[h].key \in stored
  /\ chore' = [chore EXCEPT ![h].step = "put", ![h].sized = known]
  /\ UNCHANGED <<stored, placed, copies, upload, viewing, sweep, lateAdds, strays, rushed>>

(* A row for key k comes too late for those who have seen there is none.   *)
TooLate(a, k) ==
  \/ k \notin stored
  \/ \E g \in Workers : Working(g, "erase") /\ chore[g].key = k
  \/ sweep.phase # "idle" /\ a \notin sweep.unseen

PutAssetRow(h) ==
  /\ Working(h, "put")
  /\ LET c == chore[h] IN
       /\ placed' = [placed EXCEPT ![c.id] =
                       [room |-> c.room, key |-> c.key, sized |-> c.sized, old |-> FALSE]]
       /\ copies' = copies \cup {<<c.room, c.key>>}
       /\ lateAdds' = IF TooLate(c.id, c.key) THEN lateAdds \cup {c.key} ELSE lateAdds
  /\ Done(h)
  /\ UNCHANGED <<stored, upload, viewing, sweep, strays, rushed>>

(* asset:delete reads the row, ...                                         *)
ReadForDelete(h, a) ==
  /\ Has(a)
  /\ NewChore(h, "drop", placed[a].room, a, placed[a].key)
  /\ UNCHANGED <<stored, placed, copies, upload, viewing, sweep, lateAdds, strays, rushed>>

(* ... deletes it, ...                                                     *)
DropAssetRow(h) ==
  /\ Working(h, "drop")
  /\ placed' = [placed EXCEPT ![chore[h].id] = NoAsset]
  /\ strays' = IF sweep.seen[chore[h].id] # NoKey THEN strays \cup {chore[h].key} ELSE strays
  /\ Advance(h, "check")
  /\ UNCHANGED <<stored, copies, upload, viewing, sweep, lateAdds, rushed>>

(* Mutant of CheckReferences: without looking at the other rows.           *)
CheckNothing(h) ==
  /\ Working(h, "check")
  /\ Advance(h, "erase")
  /\ UNCHANGED <<stored, placed, copies, upload, viewing, sweep, lateAdds, strays, rushed>>

(* Mutant of CheckReferences: any other row of the room will do.           *)
CheckAnyRow(h) ==
  /\ Working(h, "check")
  /\ IF RowsOf(chore[h].room) \ {chore[h].id} = {} THEN Advance(h, "erase") ELSE Done(h)
  /\ UNCHANGED <<stored, placed, copies, upload, viewing, sweep, lateAdds, strays, rushed>>

(* ... looks whether another row of the room has the key, ...              *)
CheckReferences(h) ==
  /\ Working(h, "check")
  /\ IF References(chore[h].room, chore[h].key) \ {chore[h].id} = {}
       THEN Advance(h, "erase")
       ELSE Done(h)
  /\ UNCHANGED <<stored, placed, copies, upload, viewing, sweep, lateAdds, strays, rushed>>

(* ... and if there was none deletes the object, ...                       *)
EraseObject(h) ==
  /\ Working(h, "erase")
  /\ stored' = stored \ {chore[h].key}
  /\ Done(h)
  /\ UNCHANGED <<placed, copies, upload, viewing, sweep, lateAdds, strays, rushed>>

(* ... which is not tried again.  Nor is anything else that throws.        *)
AbortChore(h) ==
  /\ chore[h] # NoChore
  /\ strays' = IF chore[h].step = "drop" THEN strays ELSE strays \cup {chore[h].key}
  /\ Done(h)
  /\ UNCHANGED <<stored, placed, copies, upload, viewing, sweep, lateAdds, rushed>>

(* Any move, resize or update writes lastUsedAt; 60 days pass.             *)
UseAsset(a) ==
  /\ Has(a)
  /\ placed[a].old
  /\ placed' = [placed EXCEPT ![a].old = FALSE]
  /\ UNCHANGED <<stored, copies, upload, viewing, chore, sweep, lateAdds, strays, rushed>>

AgeAsset(a) ==
  /\ Has(a)
  /\ ~placed[a].old
  /\ placed' = [placed EXCEPT ![a].old = TRUE]
  /\ UNCHANGED <<stored, copies, upload, viewing, chore, sweep, lateAdds, strays, rushed>>

----------------------------------------------------------------------------
(* Mutant of ScanRow: the whole row is taken for its key.                  *)
ScanWholeRow(a) ==
  /\ sweep.phase = "scan"
  /\ a \in sweep.unseen
  /\ sweep' = [sweep EXCEPT !.unseen = @ \ {a}, !.seen[a] = placed[a]]
  /\ UNCHANGED <<stored, placed, copies, upload, viewing, chore, lateAdds, strays, rushed>>

(* The retention job scans the table page by page, ...                     *)
StartSweep ==
  /\ sweep.phase = "idle"
  /\ sweep' = [Rested EXCEPT !.phase = "scan", !.unseen = AssetIds]
  /\ UNCHANGED <<stored, placed, copies, upload, viewing, chore, lateAdds, strays, rushed>>

ScanRow(a) ==
  /\ sweep.phase = "scan"
  /\ a \in sweep.unseen
  /\ sweep' = [sweep EXCEPT
       !.phase = IF sweep.unseen = {a} THEN "delete" ELSE "scan",
       !.unseen = @ \ {a},
       !.seen[a] = IF Has(a) THEN placed[a].key ELSE NoKey,
       !.stale = IF Has(a) /\ placed[a].old THEN @ \cup {a} ELSE @]
  /\ UNCHANGED <<stored, placed, copies, upload, viewing, chore, lateAdds, strays, rushed>>

(* refCountByS3Key: the rows seen with key k and not deleted by the job.   *)
Remaining(k) == Cardinality({a \in AssetIds : sweep.seen[a] = k})

(* ... and deletes the stale rows as they were then; with the last of a    *)
(* key, its object is to go.                                               *)
SweepRow(a) ==
  /\ sweep.phase = "delete"
  /\ sweep.victim = NoKey
  /\ a \in sweep.stale
  /\ placed' = [placed EXCEPT ![a] = NoAsset]
  /\ sweep' = [sweep EXCEPT !.stale = @ \ {a}, !.seen[a] = NoKey,
       !.victim = IF Remaining(sweep.seen[a]) = 1 THEN sweep.seen[a] ELSE NoKey]
  /\ UNCHANGED <<stored, copies, upload, viewing, chore, lateAdds, strays, rushed>>

SweepObject ==
  /\ sweep.victim # NoKey
  /\ stored' = stored \ {sweep.victim}
  /\ sweep' = [sweep EXCEPT !.victim = NoKey]
  /\ UNCHANGED <<placed, copies, upload, viewing, chore, lateAdds, strays, rushed>>

EndSweep ==
  /\ sweep.phase = "delete"
  /\ sweep.victim = NoKey
  /\ sweep.stale = {}
  /\ sweep' = Rested
  /\ UNCHANGED <<stored, placed, copies, upload, viewing, chore, lateAdds, strays, rushed>>

(* It throws, or takes more than five minutes.                             *)
AbortSweep ==
  /\ sweep.phase # "idle"
  /\ strays' = strays \cup ({sweep.victim} \ {NoKey})
  /\ sweep' = Rested
  /\ UNCHANGED <<stored, placed, copies, upload, viewing, chore, lateAdds, rushed>>

----------------------------------------------------------------------------
MediaNext ==
  \/ \E r \in Places : EnterPlace(r)
  \/ \E k \in Media : \/ PresignUpload(k) \/ AskUploadFromUrl(k) \/ PutFile(k)
                      \/ PutFetched(k) \/ AbandonUpload(k)
  \/ \E h \in Workers :
       \/ \E a \in AssetIds, k \in Media : PlaceUpload(h, a, k)
       \/ \E b \in AssetIds, k \in Media : DuplicateAsset(h, b, k)
       \/ \E a \in AssetIds : ReadForDelete(h, a)
       \/ \E known \in BOOLEAN : FetchFileSize(h, known)
       \/ PutAssetRow(h) \/ DropAssetRow(h) \/ CheckReferences(h) \/ EraseObject(h)
       \/ AbortChore(h)
  \/ \E a \in AssetIds : UseAsset(a) \/ AgeAsset(a) \/ ScanRow(a) \/ SweepRow(a)
  \/ StartSweep \/ SweepObject \/ EndSweep \/ AbortSweep

MediaSpec == MediaInit /\ [][MediaNext]_mediaVars

----------------------------------------------------------------------------
(* Properties.                                                             *)

(* message.ts:245-248, retention-job:37-45: no object is deleted from      *)
(* under a row that names it, duplicates, concurrent deletions and the     *)
(* retention job included, unless the row was put when the decision to     *)
(* delete had already been taken.                                          *)
NoObjectMissing ==
  \A a \in AssetIds :
    Has(a) => placed[a].key \in stored \cup lateAdds

(* message.ts:95-103: a row names media of its own room only, though an    *)
(* upload is placed wherever its client is when it ends: nothing but the   *)
(* rows of one room is searched before an object is deleted.               *)
MediaStaysHome == \A a \in AssetIds : Has(a) => placed[a].room = Home[placed[a].key]

(* message.ts:252-253: an object that no row names is about to be placed   *)
(* or deleted, or somebody failed half-way, or a row that the retention    *)
(* job had counted was deleted by a user meanwhile.                        *)
NoObjectStray ==
  \A k \in stored :
    (\A a \in AssetIds : ~Has(a) \/ placed[a].key # k) =>
      \/ k \in strays
      \/ upload[k] = "stored"
      \/ \E h \in Workers : chore[h] # NoChore /\ chore[h].key = k
      \/ sweep.victim = k

(* Objects and the rows that name them go together.                        *)
RowsMatchObjects == NoObjectMissing /\ NoObjectStray

(* upload-url/index.ts:72-77: the check is coarse by one file, and by no   *)
(* more: unless uploads were admitted side by side, or a size could not be *)
(* read, or an editor duplicated media from a canvas that still showed it  *)
(* when no row named it any more, a room without one of its files is below *)
(* its quota.                                                              *)
QuotaExceededByOne ==
  rushed \/ \A r \in Places :
    \/ UsedBytes(r) < Quota
    \/ \E k \in SizedKeys(r) : UsedBytes(r) < Quota + Size[k]
=============================================================================
