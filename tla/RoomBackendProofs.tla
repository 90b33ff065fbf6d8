------------------------- MODULE RoomBackendProofs -------------------------
(***************************************************************************)
(* Proofs about MediaStorage, for any number of rooms, objects, rows and   *)
(* invocations, each of which may stop anywhere: objects and the rows that *)
(* name them go together, a row names media of its own room only, and a    *)
(* quota is exceeded by one file at most.  With AssetStoreProofs and       *)
(* RoomTableProofs they give what MCRoomBackend checks of a small backend, *)
(* for every backend.                                                      *)
(***************************************************************************)
EXTENDS MCRoomBackend, AssetStoreProofs, RoomTableProofs, FiniteSetTheorems,
        WellFoundedInduction, TLAPS

(* Whoever deletes object k takes it from no row that was put in time.     *)
Condemned(k) == \A a \in AssetIds : (Has(a) /\ placed[a].key = k) => k \in lateAdds

(* What an invocation has read still holds at its next step: ids are fresh,*)
(* so nobody else brings a row back.                                       *)
ChoreFits(h) ==
  LET c == chore[h] IN
    /\ c.room = Home[c.key]
    /\ c.step \in {"head", "put"} =>
         /\ sweep.seen[c.id] = NoKey
         /\ \A g \in Workers \ {h} : chore[g] # NoChore => chore[g].id # c.id
    /\ c.step # "drop" => ~Has(c.id)
    /\ (c.step = "drop" /\ Has(c.id)) => placed[c.id].key = c.key
    /\ c.step = "erase" => Condemned(c.key)

ChoresFit == \A h \in Workers : chore[h] # NoChore => ChoreFits(h)

(* What the retention job has seen of row a: its key, if the row is there, *)
(* and of a row deleted since, an object that may be left over.            *)
SeenFits(a) ==
  /\ (Has(a) /\ sweep.seen[a] # NoKey) => placed[a].key = sweep.seen[a]
  /\ (~Has(a) /\ sweep.seen[a] # NoKey) => sweep.seen[a] \in strays
  /\ (Has(a) /\ sweep.phase # "idle" /\ a \notin sweep.unseen) =>
       sweep.seen[a] = placed[a].key \/ placed[a].key \in lateAdds
  /\ a \in sweep.stale => sweep.seen[a] # NoKey /\ a \notin sweep.unseen

SweepFits ==
  /\ \A a \in AssetIds : SeenFits(a)
  /\ sweep.phase = "delete" => sweep.unseen = {}
  /\ sweep.phase # "delete" => sweep.victim = NoKey
  /\ sweep.victim # NoKey => Condemned(sweep.victim)

(* NoObjectStray, without counting on an invocation that has read a row    *)
(* and not deleted it yet.                                                 *)
Named(k) == \E a \in AssetIds : Has(a) /\ placed[a].key = k

Accounted(k) ==
  \/ Named(k)
  \/ k \in strays
  \/ upload[k] = "stored"
  \/ \E h \in Workers : chore[h] # NoChore /\ chore[h].key = k /\ chore[h].step # "drop"
  \/ sweep.victim = k

AllAccounted == \A k \in stored : Accounted(k)

MediaInv ==
  /\ MediaTypeOK
  /\ MediaStaysHome
  /\ NoObjectMissing
  /\ ChoresFit
  /\ SweepFits
  /\ AllAccounted

(* At the start there is neither an object nor a row.                      *)
THEOREM MediaInitInv == MediaInit => MediaInv
  <1> SUFFICES ASSUME MediaInit PROVE MediaInv
    OBVIOUS
  <1>1. Rested \in Sweep /\ Rested.phase = "idle" /\ Rested.victim = NoKey
        /\ Rested.stale = {} /\ \A a \in AssetIds : Rested.seen[a] = NoKey
    BY DEF Rested, Sweep
  <1>2. MediaTypeOK
    BY <1>1 DEF MediaInit, MediaTypeOK
  <1>3. \A a \in AssetIds : ~Has(a)
    BY DEF MediaInit, Has
  <1>4. SweepFits
    BY <1>1, <1>3 DEF MediaInit, SweepFits, SeenFits
  <1>5. MediaStaysHome /\ NoObjectMissing /\ ChoresFit /\ AllAccounted
    BY <1>3 DEF MediaInit, MediaStaysHome, NoObjectMissing, ChoresFit, AllAccounted
  <1> QED BY <1>2, <1>4, <1>5 DEF MediaInv

----------------------------------------------------------------------------
(* What is what.                                                           *)

LEMMA RowFacts ==
  ASSUME MediaTypeOK, NEW a \in AssetIds, Has(a)
  PROVE  placed[a] \in MediaRow /\ placed[a].key \in Media /\ placed[a].room \in Places
  BY DEF MediaTypeOK, Has, MediaRow

LEMMA ChoreFacts ==
  ASSUME MediaTypeOK, NEW h \in Workers, chore[h] # NoChore
  PROVE  /\ chore[h] \in Chore
         /\ chore[h].id \in AssetIds /\ chore[h].key \in Media /\ chore[h].room \in Places
         /\ chore[h].step \in {"head", "put", "drop", "check", "erase"}
  BY DEF MediaTypeOK, Chore

LEMMA SweepFacts ==
  ASSUME MediaTypeOK
  PROVE  /\ sweep.phase \in {"idle", "scan", "delete"}
         /\ sweep.unseen \in SUBSET AssetIds /\ sweep.stale \in SUBSET AssetIds
         /\ sweep.seen \in [AssetIds -> Media \cup {NoKey}]
         /\ sweep.victim \in Media \cup {NoKey}
  BY DEF MediaTypeOK, Sweep

----------------------------------------------------------------------------
(* Steps that leave rows, chores and the job alone.                        *)

LEMMA UploadKeeps ==
  ASSUME MediaInv, MediaTypeOK', UNCHANGED <<placed, chore, sweep, lateAdds>>,
         stored \subseteq stored', strays \subseteq strays',
         \A k \in stored' :
           (k \in stored /\ (upload[k] = "stored" => upload'[k] = "stored" \/ k \in strays'))
             \/ upload'[k] = "stored"
  PROVE  MediaInv'
  <1>1. MediaStaysHome'
    BY DEF MediaInv, MediaStaysHome, Has
  <1>2. NoObjectMissing'
    BY DEF MediaInv, NoObjectMissing, Has
  <1>3. ChoresFit'
    BY DEF MediaInv, ChoresFit, ChoreFits, Condemned, Has
  <1>4. SweepFits'
    BY DEF MediaInv, SweepFits, SeenFits, Condemned, Has
  <1>5. AllAccounted'
    BY DEF MediaInv, AllAccounted, Accounted, Named, Has
  <1> QED BY <1>1, <1>2, <1>3, <1>4, <1>5 DEF MediaInv

LEMMA UploadStepKeeps ==
  ASSUME MediaInv, NEW k \in Media,
         \/ PresignUpload(k) \/ AskUploadFromUrl(k) \/ PutFile(k) \/ PutFetched(k)
         \/ AbandonUpload(k)
  PROVE  MediaInv'
  <1>1. CASE PresignUpload(k) \/ AskUploadFromUrl(k)
    <2>1. PICK stage \in {"presigned", "fetching"} : Admit(k, stage)
      BY <1>1 DEF PresignUpload, AskUploadFromUrl
    <2>2. rushed' \in BOOLEAN
      BY <2>1 DEF Admit
    <2>3. MediaTypeOK'
      BY <2>1, <2>2 DEF Admit, MediaInv, MediaTypeOK
    <2>4. UNCHANGED <<stored, placed, copies, chore, sweep, lateAdds, strays>>
          /\ \A j \in Media : upload[j] = "stored" => upload'[j] = "stored"
      BY <2>1 DEF Admit, MediaInv, MediaTypeOK
    <2> QED BY <2>3, <2>4, UploadKeeps DEF MediaInv, MediaTypeOK
  <1>2. CASE PutFile(k) \/ PutFetched(k)
    <2>1. /\ UNCHANGED <<placed, copies, viewing, chore, sweep, lateAdds, strays, rushed>>
          /\ stored' = stored \cup {k} /\ upload' = [upload EXCEPT ![k] = "stored"]
      BY <1>2 DEF PutFile, PutFetched
    <2>2. MediaTypeOK' /\ \A j \in Media : upload'[j] = IF j = k THEN "stored" ELSE upload[j]
      BY <2>1 DEF MediaInv, MediaTypeOK
    <2> QED BY <2>1, <2>2, UploadKeeps DEF MediaInv, MediaTypeOK
  <1>3. CASE AbandonUpload(k)
    <2>1. MediaTypeOK'
      BY <1>3 DEF AbandonUpload, MediaInv, MediaTypeOK
    <2>2. UNCHANGED <<placed, chore, sweep, lateAdds, stored>> /\ strays' = strays \cup {k}
          /\ \A j \in Media : upload'[j] = IF j = k THEN "ended" ELSE upload[j]
      BY <1>3 DEF AbandonUpload, MediaInv, MediaTypeOK
    <2> QED BY <2>1, <2>2, UploadKeeps DEF MediaInv, MediaTypeOK
  <1> QED BY <1>1, <1>2, <1>3

----------------------------------------------------------------------------
(* Invocations that read, or start, or delete an object.                   *)

(* What c may do next, as ChoreFits says of an invocation's chore.         *)
MayFit(h, c) ==
  /\ c.room = Home[c.key]
  /\ c.step \in {"head", "put"} =>
       /\ sweep.seen[c.id] = NoKey
       /\ \A g \in Workers \ {h} : chore[g] # NoChore => chore[g].id # c.id
  /\ c.step # "drop" => ~Has(c.id)
  /\ (c.step = "drop" /\ Has(c.id)) => placed[c.id].key = c.key
  /\ c.step = "erase" => Condemned(c.key)

(* The id of a row that is about to be put is nobody else's.               *)
LeavesIds(h, c) ==
  \A g \in Workers \ {h} :
    (chore[g] # NoChore /\ chore[g].step \in {"head", "put"}) => chore[g].id # c.id

LEMMA OneChore ==
  ASSUME MediaInv, NEW h \in Workers, NEW c \in Chore \cup {NoChore},
         chore' = [chore EXCEPT ![h] = c], UNCHANGED <<placed, sweep, lateAdds>>,
         strays \subseteq strays',
         c # NoChore => MayFit(h, c) /\ LeavesIds(h, c)
  PROVE  MediaStaysHome' /\ ChoresFit' /\ SweepFits'
  <1>1. chore'[h] = c /\ \A g \in Workers \ {h} : chore'[g] = chore[g]
    BY DEF MediaInv, MediaTypeOK
  <1>2. MediaStaysHome' /\ SweepFits'
    BY DEF MediaInv, MediaStaysHome, SweepFits, SeenFits, Condemned, Has
  <1>3. ASSUME NEW g \in Workers, chore'[g] # NoChore
        PROVE  ChoreFits(g)'
    <2>1. CASE g = h
      BY <1>1, <1>3, <2>1 DEF MayFit, ChoreFits, Condemned, Has
    <2>2. CASE g # h
      <3>1. chore[g] # NoChore /\ ChoreFits(g) /\ chore'[g] = chore[g]
        BY <1>1, <1>3, <2>2 DEF MediaInv, ChoresFit
      <3>2. ASSUME chore[g].step \in {"head", "put"}, NEW f \in Workers \ {g},
                   chore'[f] # NoChore
            PROVE  chore'[f].id # chore[g].id
        BY <1>1, <2>2, <3>1, <3>2 DEF ChoreFits, LeavesIds
      <3> QED BY <3>1, <3>2 DEF ChoreFits, Condemned, Has
    <2> QED BY <2>1, <2>2
  <1> QED BY <1>2, <1>3 DEF ChoresFit

(* Objects stay accounted for if what h did is.                            *)
LEMMA ChoreAccounts ==
  ASSUME MediaInv, NEW h \in Workers, NEW c \in Chore \cup {NoChore},
         chore' = [chore EXCEPT ![h] = c], UNCHANGED <<placed, sweep>>,
         strays \subseteq strays', stored' \subseteq stored,
         \A k \in stored' :
           \/ Accounted(k)'
           \/ /\ upload[k] = "stored" => upload'[k] = "stored"
              /\ chore[h] = NoChore \/ chore[h].step = "drop" \/ chore[h].key # k
  PROVE  AllAccounted'
  <1>1. chore'[h] = c /\ \A g \in Workers \ {h} : chore'[g] = chore[g]
    BY DEF MediaInv, MediaTypeOK
  <1>2. ASSUME NEW k \in stored', ~Accounted(k)'
        PROVE  FALSE
    <2>1. k \in stored /\ Accounted(k)
      BY <1>2 DEF MediaInv, AllAccounted
    <2>2. k \notin strays /\ upload[k] # "stored" /\ sweep.victim # k
      BY <1>2 DEF Accounted
    <2>3. ~Named(k)
      BY <1>2 DEF Accounted, Named, Has
    <2>4. PICK g \in Workers : chore[g] # NoChore /\ chore[g].key = k /\ chore[g].step # "drop"
      BY <2>1, <2>2, <2>3 DEF Accounted
    <2>5. g # h
      BY <1>2, <2>4
    <2> QED BY <1>1, <1>2, <2>4, <2>5 DEF Accounted
  <1> QED BY <1>2 DEF AllAccounted

(* An id that nobody remembers fits a new row.                             *)
LEMMA FreshFits ==
  ASSUME MediaInv, NEW h \in Workers, NEW a \in AssetIds, Unused(a), NEW k \in Media,
         NEW r \in Places, r = Home[k], chore[h] = NoChore,
         NEW c \in Chore,
         c = [step |-> "head", room |-> r, id |-> a, key |-> k, sized |-> FALSE]
  PROVE  MayFit(h, c) /\ LeavesIds(h, c)
  BY DEF Unused, MayFit, LeavesIds

(* An upload is placed, or rejected.                                       *)
LEMMA PlaceUploadKeeps ==
  ASSUME MediaInv, NEW h \in Workers, NEW a \in AssetIds, NEW k \in Media,
         PlaceUpload(h, a, k)
  PROVE  MediaInv'
  <1> DEFINE new == [step |-> "head", room |-> viewing, id |-> a, key |-> k, sized |-> FALSE]
  <1>1. upload' = [upload EXCEPT ![k] = "ended"] /\ Unused(a)
        /\ UNCHANGED <<stored, placed, copies, viewing, sweep, lateAdds, rushed>>
    BY DEF PlaceUpload
  <1>2. CASE AcceptsKey(viewing, k)
    <2>1. chore[h] = NoChore /\ chore' = [chore EXCEPT ![h] = new] /\ UNCHANGED strays
      BY <1>2 DEF PlaceUpload, NewChore
    <2>2. new \in Chore /\ new.key = k /\ new.step = "head"
      BY DEF MediaInv, MediaTypeOK, Chore
    <2>3. viewing \in Places /\ viewing = Home[k]
      BY <1>2 DEF AcceptsKey, MediaInv, MediaTypeOK
    <2>4. MayFit(h, new) /\ LeavesIds(h, new)
      BY <1>1, <2>1, <2>2, <2>3, FreshFits
    <2> HIDE DEF new
    <2>5. MediaTypeOK'
      BY <1>1, <2>1, <2>2 DEF MediaInv, MediaTypeOK
    <2>6. MediaStaysHome' /\ ChoresFit' /\ SweepFits'
      BY <1>1, <2>1, <2>2, <2>4, OneChore
    <2>7. chore'[h] = new
      BY <2>1 DEF MediaInv, MediaTypeOK
    <2>8. Accounted(k)'
      BY <2>2, <2>5, <2>7, StorageAssumption DEF Accounted, MediaTypeOK
    <2>9. \A j \in stored : j # k => upload'[j] = upload[j]
      BY <1>1 DEF MediaInv, MediaTypeOK
    <2>10. AllAccounted'
      BY <1>1, <2>1, <2>2, <2>8, <2>9, ChoreAccounts
    <2>11. NoObjectMissing'
      BY <1>1 DEF MediaInv, NoObjectMissing, Has
    <2> QED BY <2>5, <2>6, <2>10, <2>11 DEF MediaInv
  <1>3. CASE ~AcceptsKey(viewing, k)
    <2>1. strays' = strays \cup {k} /\ UNCHANGED chore
      BY <1>3 DEF PlaceUpload
    <2>2. MediaTypeOK' /\ \A j \in Media : upload'[j] = IF j = k THEN "ended" ELSE upload[j]
      BY <1>1, <2>1 DEF MediaInv, MediaTypeOK
    <2> QED BY <1>1, <2>1, <2>2, UploadKeeps DEF MediaInv, MediaTypeOK
  <1> QED BY <1>2, <1>3

(* A row for a key that the canvas knows, whatever has become of it.       *)
LEMMA DuplicateKeeps ==
  ASSUME MediaInv, NEW h \in Workers, NEW k \in Media, NEW b \in AssetIds,
         DuplicateAsset(h, b, k)
  PROVE  MediaInv'
  <1>1. PICK r \in Places :
          /\ r = viewing /\ r = Home[k]
          /\ chore[h] = NoChore /\ Unused(b)
          /\ chore' = [chore EXCEPT ![h] =
               [step |-> "head", room |-> r, id |-> b, key |-> k, sized |-> FALSE]]
          /\ UNCHANGED <<stored, placed, copies, upload, viewing, sweep, lateAdds, strays>>
          /\ rushed' \in BOOLEAN
    BY DEF DuplicateAsset, NewChore, AcceptsKey, MediaInv, MediaTypeOK
  <1> DEFINE new == [step |-> "head", room |-> r, id |-> b, key |-> k, sized |-> FALSE]
  <1>2. new \in Chore
    BY DEF Chore
  <1>3. MayFit(h, new) /\ LeavesIds(h, new)
    BY <1>1, <1>2, FreshFits
  <1>4. chore' = [chore EXCEPT ![h] = new]
    BY <1>1
  <1> HIDE DEF new
  <1>5. MediaTypeOK'
    BY <1>1, <1>2, <1>4 DEF MediaInv, MediaTypeOK
  <1>6. MediaStaysHome' /\ ChoresFit' /\ SweepFits'
    BY <1>1, <1>2, <1>3, <1>4, OneChore
  <1>7. AllAccounted'
    BY <1>1, <1>2, <1>4, ChoreAccounts
  <1>8. NoObjectMissing'
    BY <1>1 DEF MediaInv, NoObjectMissing, Has
  <1> QED BY <1>5, <1>6, <1>7, <1>8 DEF MediaInv

(* asset:delete has read the row.                                          *)
LEMMA ReadForDeleteKeeps ==
  ASSUME MediaInv, NEW h \in Workers, NEW a \in AssetIds, ReadForDelete(h, a)
  PROVE  MediaInv'
  <1>1. PICK k \in Media, r \in Places :
          /\ Has(a) /\ k = placed[a].key /\ r = placed[a].room /\ chore[h] = NoChore
          /\ chore' = [chore EXCEPT ![h] =
               [step |-> "drop", room |-> r, id |-> a, key |-> k, sized |-> FALSE]]
          /\ UNCHANGED <<stored, placed, copies, upload, viewing, sweep, lateAdds, strays, rushed>>
    BY RowFacts DEF ReadForDelete, NewChore, MediaInv
  <1> DEFINE new == [step |-> "drop", room |-> r, id |-> a, key |-> k, sized |-> FALSE]
  <1>2. new \in Chore
    BY DEF Chore
  <1>3. r = Home[k]
    BY <1>1 DEF MediaInv, MediaStaysHome
  <1>4. MayFit(h, new)
    BY <1>1, <1>3 DEF MayFit
  <1>5. LeavesIds(h, new)
    BY <1>1 DEF LeavesIds, MediaInv, ChoresFit, ChoreFits
  <1>6. chore' = [chore EXCEPT ![h] = new]
    BY <1>1
  <1> HIDE DEF new
  <1>7. MediaTypeOK'
    BY <1>1, <1>2, <1>6 DEF MediaInv, MediaTypeOK
  <1>8. MediaStaysHome' /\ ChoresFit' /\ SweepFits'
    BY <1>1, <1>2, <1>4, <1>5, <1>6, OneChore
  <1>9. AllAccounted'
    BY <1>1, <1>2, <1>6, ChoreAccounts
  <1>10. NoObjectMissing'
    BY <1>1 DEF MediaInv, NoObjectMissing, Has
  <1> QED BY <1>7, <1>8, <1>9, <1>10 DEF MediaInv

(* The size is asked for.                                                  *)
LEMMA FetchKeeps ==
  ASSUME MediaInv, NEW h \in Workers, NEW known \in BOOLEAN, FetchFileSize(h, known)
  PROVE  MediaInv'
  <1>1. chore[h] # NoChore /\ chore[h].step = "head" /\ chore[h] \in Chore /\ ChoreFits(h)
    BY ChoreFacts DEF FetchFileSize, Working, MediaInv, ChoresFit
  <1> DEFINE new == [chore[h] EXCEPT !.step = "put", !.sized = known]
  <1>2. /\ new \in Chore /\ new.step = "put" /\ new.id = chore[h].id
        /\ new.key = chore[h].key /\ new.room = chore[h].room
    BY <1>1 DEF Chore
  <1>3. chore' = [chore EXCEPT ![h] = new]
        /\ UNCHANGED <<stored, placed, copies, upload, viewing, sweep, lateAdds, strays, rushed>>
    BY DEF FetchFileSize
  <1> HIDE DEF new
  <1>4. MayFit(h, new) /\ LeavesIds(h, new)
    <2>1. MayFit(h, new)
      BY <1>1, <1>2 DEF ChoreFits, MayFit
    <2>2. LeavesIds(h, new)
      BY <1>1, <1>2 DEF LeavesIds, ChoreFits, MediaInv, ChoresFit
    <2> QED BY <2>1, <2>2
  <1>5. MediaTypeOK' /\ chore'[h] = new
    BY <1>2, <1>3 DEF MediaInv, MediaTypeOK
  <1>6. MediaStaysHome' /\ ChoresFit' /\ SweepFits'
    BY <1>2, <1>3, <1>4, OneChore
  <1>7. \A k \in stored : chore[h].key = k => Accounted(k)'
    BY <1>2, <1>5, StorageAssumption DEF Accounted
  <1>8. AllAccounted'
    BY <1>2, <1>3, <1>7, ChoreAccounts
  <1>9. NoObjectMissing'
    BY <1>3 DEF MediaInv, NoObjectMissing, Has
  <1> QED BY <1>5, <1>6, <1>8, <1>9 DEF MediaInv

(* Whoever is done with an object that a row names leaves it to that row;  *)
(* who finds no row in the room finds none at all.                         *)
LEMMA CheckKeeps ==
  ASSUME MediaInv, NEW h \in Workers, CheckReferences(h)
  PROVE  MediaInv'
  <1>1. /\ chore[h] # NoChore /\ chore[h].step = "check" /\ chore[h] \in Chore
        /\ chore[h].id \in AssetIds /\ chore[h].key \in Media /\ ChoreFits(h)
    BY ChoreFacts DEF CheckReferences, Working, MediaInv, ChoresFit
  <1>2. UNCHANGED <<stored, placed, copies, upload, viewing, sweep, lateAdds, strays, rushed>>
    BY DEF CheckReferences
  <1>3. NoObjectMissing'
    BY <1>2 DEF MediaInv, NoObjectMissing, Has
  <1>4. CASE References(chore[h].room, chore[h].key) \ {chore[h].id} = {}
    <2> DEFINE new == [chore[h] EXCEPT !.step = "erase"]
    <2>1. /\ new \in Chore /\ new.step = "erase" /\ new.id = chore[h].id
          /\ new.key = chore[h].key /\ new.room = chore[h].room
      BY <1>1 DEF Chore
    <2>2. chore' = [chore EXCEPT ![h] = new]
      BY <1>4 DEF CheckReferences, Advance
    <2>3. Condemned(chore[h].key)
      <3> SUFFICES ASSUME NEW a \in AssetIds, Has(a), placed[a].key = chore[h].key
                   PROVE  FALSE
        BY DEF Condemned
      <3>1. placed[a].room = chore[h].room
        BY <1>1 DEF MediaInv, MediaStaysHome, ChoreFits
      <3>2. a \in References(chore[h].room, chore[h].key)
        BY <3>1 DEF References, RowsOf
      <3>3. a # chore[h].id
        BY <1>1 DEF ChoreFits
      <3> QED BY <1>4, <3>2, <3>3
    <2> HIDE DEF new
    <2>4. MayFit(h, new) /\ LeavesIds(h, new)
      <3>1. MayFit(h, new)
        BY <1>1, <2>1, <2>3 DEF ChoreFits, MayFit
      <3>2. LeavesIds(h, new)
        BY <1>1, <2>1 DEF LeavesIds, ChoreFits, MediaInv, ChoresFit
      <3> QED BY <3>1, <3>2
    <2>5. MediaTypeOK' /\ chore'[h] = new
      BY <1>2, <2>1, <2>2 DEF MediaInv, MediaTypeOK
    <2>6. MediaStaysHome' /\ ChoresFit' /\ SweepFits'
      BY <1>2, <2>1, <2>2, <2>4, OneChore
    <2>7. \A k \in stored : chore[h].key = k => Accounted(k)'
      BY <2>1, <2>5, StorageAssumption DEF Accounted
    <2>8. AllAccounted'
      BY <1>2, <2>1, <2>2, <2>7, ChoreAccounts
    <2> QED BY <1>3, <2>5, <2>6, <2>8 DEF MediaInv
  <1>5. CASE References(chore[h].room, chore[h].key) \ {chore[h].id} # {}
    <2>1. chore' = [chore EXCEPT ![h] = NoChore]
      BY <1>5 DEF CheckReferences, Done
    <2>2. Named(chore[h].key)
      BY <1>5 DEF References, RowsOf, Named
    <2>3. MediaTypeOK'
      BY <1>2, <2>1 DEF MediaInv, MediaTypeOK
    <2>4. MediaStaysHome' /\ ChoresFit' /\ SweepFits'
      BY <1>2, <2>1, OneChore
    <2>5. \A k \in stored : chore[h].key = k => Accounted(k)'
      BY <1>2, <2>2 DEF Accounted, Named, Has
    <2>6. AllAccounted'
      BY <1>2, <2>1, <2>5, ChoreAccounts
    <2> QED BY <1>3, <2>3, <2>4, <2>6 DEF MediaInv
  <1> QED BY <1>4, <1>5

(* The object goes, from under no row that was put in time.                *)
LEMMA EraseKeeps ==
  ASSUME MediaInv, NEW h \in Workers, EraseObject(h)
  PROVE  MediaInv'
  <1>1. PICK k \in Media : k = chore[h].key /\ chore[h] # NoChore /\ Condemned(k)
    BY ChoreFacts DEF EraseObject, Working, MediaInv, ChoresFit, ChoreFits
  <1>2. /\ stored' = stored \ {k} /\ chore' = [chore EXCEPT ![h] = NoChore]
        /\ UNCHANGED <<placed, copies, upload, viewing, sweep, lateAdds, strays, rushed>>
    BY <1>1 DEF EraseObject, Done
  <1>3. MediaTypeOK'
    BY <1>2 DEF MediaInv, MediaTypeOK
  <1>4. MediaStaysHome' /\ ChoresFit' /\ SweepFits'
    BY <1>2, OneChore
  <1>5. AllAccounted'
    BY <1>1, <1>2, ChoreAccounts
  <1>6. NoObjectMissing'
    BY <1>1, <1>2 DEF MediaInv, NoObjectMissing, Condemned, Has
  <1> QED BY <1>3, <1>4, <1>5, <1>6 DEF MediaInv

(* What throws leaves an object behind, unless the row is still to be read.*)
LEMMA AbortChoreKeeps ==
  ASSUME MediaInv, NEW h \in Workers, AbortChore(h)
  PROVE  MediaInv'
  <1>1. PICK k \in Media : k = chore[h].key /\ chore[h] # NoChore
    BY ChoreFacts DEF AbortChore, MediaInv
  <1>2. /\ strays' = IF chore[h].step = "drop" THEN strays ELSE strays \cup {k}
        /\ chore' = [chore EXCEPT ![h] = NoChore]
        /\ UNCHANGED <<stored, placed, copies, upload, viewing, sweep, lateAdds, rushed>>
    BY <1>1 DEF AbortChore, Done
  <1>3. MediaTypeOK'
    BY <1>2 DEF MediaInv, MediaTypeOK
  <1>4. MediaStaysHome' /\ ChoresFit' /\ SweepFits'
    BY <1>2, OneChore
  <1>5. chore[h].step # "drop" => Accounted(k)'
    BY <1>2 DEF Accounted
  <1>6. AllAccounted'
    BY <1>1, <1>2, <1>5, ChoreAccounts
  <1>7. NoObjectMissing'
    BY <1>2 DEF MediaInv, NoObjectMissing, Has
  <1> QED BY <1>3, <1>4, <1>6, <1>7 DEF MediaInv

----------------------------------------------------------------------------
(* Steps that change the rows.                                             *)

(* A row is put: whoever counts on there being none is told by lateAdds.   *)
LEMMA PutKeeps ==
  ASSUME MediaInv, NEW h \in Workers, PutAssetRow(h)
  PROVE  MediaInv'
  <1>1. /\ chore[h] # NoChore /\ chore[h].step = "put" /\ chore[h] \in Chore /\ ChoreFits(h)
        /\ chore[h].id \in AssetIds /\ chore[h].key \in Media
    BY ChoreFacts DEF PutAssetRow, Working, MediaInv, ChoresFit
  <1>2. PICK a \in AssetIds, k \in Media, new \in MediaRow :
          /\ a = chore[h].id /\ k = chore[h].key /\ new.key = k /\ new.room = Home[k]
          /\ placed' = [placed EXCEPT ![a] = new]
          /\ lateAdds' = IF TooLate(a, k) THEN lateAdds \cup {k} ELSE lateAdds
    <2> DEFINE new == [room |-> chore[h].room, key |-> chore[h].key,
                       sized |-> chore[h].sized, old |-> FALSE]
    <2>1. new \in MediaRow
      BY <1>1 DEF Chore, MediaRow
    <2>2. new.key = chore[h].key /\ new.room = Home[chore[h].key]
      BY <1>1 DEF ChoreFits
    <2>3. placed' = [placed EXCEPT ![chore[h].id] = new]
      BY DEF PutAssetRow
    <2>4. lateAdds' = IF TooLate(chore[h].id, chore[h].key)
                        THEN lateAdds \cup {chore[h].key} ELSE lateAdds
      BY DEF PutAssetRow
    <2> HIDE DEF new
    <2> QED BY <1>1, <2>1, <2>2, <2>3, <2>4
  <1>3. /\ chore' = [chore EXCEPT ![h] = NoChore]
        /\ UNCHANGED <<stored, upload, viewing, sweep, strays, rushed>>
        /\ copies' \subseteq Places \X Media
    BY <1>1 DEF PutAssetRow, Done, Chore, MediaInv, MediaTypeOK
  <1>4. /\ ~Has(a) /\ sweep.seen[a] = NoKey
        /\ \A g \in Workers \ {h} : chore[g] # NoChore => chore[g].id # a
    BY <1>1, <1>2 DEF ChoreFits
  <1>5. /\ placed'[a] = new /\ new # NoAsset
        /\ \A b \in AssetIds \ {a} : placed'[b] = placed[b]
    BY <1>2, StorageAssumption DEF MediaInv, MediaTypeOK
  <1>6. chore'[h] = NoChore /\ \A g \in Workers \ {h} : chore'[g] = chore[g]
    BY <1>3 DEF MediaInv, MediaTypeOK
  <1>7. MediaTypeOK'
    BY <1>2, <1>3 DEF MediaInv, MediaTypeOK
  <1>8. MediaStaysHome'
    BY <1>2, <1>5 DEF MediaInv, MediaStaysHome, Has
  <1>9. k \in stored \/ k \in lateAdds'
    BY <1>2 DEF TooLate
  <1>10. NoObjectMissing'
    BY <1>2, <1>3, <1>5, <1>9 DEF MediaInv, NoObjectMissing, Has
  <1>11. ASSUME NEW j, Condemned(j), j = k => k \in lateAdds'
         PROVE  \A b \in AssetIds : (Has(b)' /\ placed'[b].key = j) => j \in lateAdds'
    BY <1>2, <1>5, <1>11 DEF Condemned, Has
  <1>12. ASSUME NEW g \in Workers, chore'[g] # NoChore
         PROVE  ChoreFits(g)'
    <2>1. g # h /\ chore'[g] = chore[g] /\ chore[g] # NoChore /\ ChoreFits(g)
      BY <1>6, <1>12 DEF MediaInv, ChoresFit
    <2>2. chore[g].id # a /\ chore[g].id \in AssetIds
      BY <1>4, <2>1, ChoreFacts DEF MediaInv
    <2>3. placed'[chore[g].id] = placed[chore[g].id]
      BY <1>5, <2>2
    <2>4. ASSUME chore[g].step = "erase"
          PROVE  \A b \in AssetIds :
                   (Has(b)' /\ placed'[b].key = chore[g].key) => chore[g].key \in lateAdds'
      <3>1. Condemned(chore[g].key)
        BY <2>1, <2>4 DEF ChoreFits
      <3>2. chore[g].key = k => k \in lateAdds'
        BY <1>2, <2>1, <2>4 DEF TooLate, Working
      <3> QED BY <1>11, <3>1, <3>2
    <2>5. chore[g].step \in {"head", "put"} =>
            \A f \in Workers \ {g} : chore'[f] # NoChore => chore'[f].id # chore[g].id
      BY <1>6, <2>1 DEF ChoreFits
    <2> QED BY <1>3, <2>1, <2>3, <2>4, <2>5 DEF ChoreFits, Condemned, Has
  <1>13. SweepFits'
    <2>1. ASSUME NEW b \in AssetIds
          PROVE  SeenFits(b)'
      <3>1. SeenFits(b)
        BY DEF MediaInv, SweepFits
      <3>2. CASE b = a
        <4>1. (sweep.phase # "idle" /\ a \notin sweep.unseen) => k \in lateAdds'
          BY <1>2 DEF TooLate
        <4>2. (a \in sweep.stale)' => a \in sweep.stale
          BY <1>3
        <4> QED BY <1>2, <1>3, <1>4, <1>5, <3>1, <3>2, <4>1, <4>2 DEF SeenFits, Has
      <3>3. CASE b # a
        BY <1>2, <1>3, <1>5, <3>1, <3>3 DEF SeenFits, Has
      <3> QED BY <3>2, <3>3
    <2>2. ASSUME sweep.victim # NoKey
          PROVE  \A b \in AssetIds :
                   (Has(b)' /\ placed'[b].key = sweep.victim) => sweep.victim \in lateAdds'
      <3>1. Condemned(sweep.victim) /\ sweep.phase = "delete" /\ sweep.unseen = {}
        BY <2>2 DEF MediaInv, SweepFits
      <3>2. k \in lateAdds'
        BY <1>2, <3>1 DEF TooLate
      <3> QED BY <1>11, <3>1, <3>2
    <2> QED BY <1>3, <2>1, <2>2 DEF MediaInv, SweepFits, Condemned, Has
  <1>14. ASSUME NEW j \in stored
         PROVE  Accounted(j)'
    <2>1. Accounted(j)
      BY DEF MediaInv, AllAccounted
    <2>2. CASE j = k
      BY <1>2, <1>5, <2>2 DEF Accounted, Named, Has
    <2>3. CASE j # k
      <3>1. Named(j) => Named(j)'
        BY <1>4, <1>5 DEF Named, Has
      <3>2. \A g \in Workers : chore[g].key = j => g # h
        BY <1>2, <2>3
      <3> QED BY <1>3, <1>6, <2>1, <3>1, <3>2 DEF Accounted
    <2> QED BY <2>2, <2>3
  <1> QED BY <1>3, <1>7, <1>8, <1>10, <1>12, <1>13, <1>14
          DEF MediaInv, ChoresFit, AllAccounted

(* A row goes: who has seen it, or is at work on it, answers for its key.  *)
LEMMA RowGone ==
  ASSUME MediaInv, NEW a \in AssetIds, placed' = [placed EXCEPT ![a] = NoAsset],
         UNCHANGED <<stored, lateAdds>>
  PROVE  /\ ~Has(a)' /\ MediaStaysHome' /\ NoObjectMissing'
         /\ \A b \in AssetIds \ {a} : placed'[b] = placed[b]
         /\ \A b \in AssetIds : Has(b)' => Has(b) /\ placed'[b] = placed[b]
         /\ \A j : Condemned(j) =>
              \A b \in AssetIds : (Has(b)' /\ placed'[b].key = j) => j \in lateAdds
  <1>1. placed'[a] = NoAsset /\ \A b \in AssetIds \ {a} : placed'[b] = placed[b]
    BY DEF MediaInv, MediaTypeOK
  <1>2. \A b \in AssetIds : Has(b)' => Has(b) /\ placed'[b] = placed[b]
    BY <1>1 DEF Has
  <1>3. MediaStaysHome' /\ NoObjectMissing'
    BY <1>2 DEF MediaInv, MediaStaysHome, NoObjectMissing
  <1> QED BY <1>1, <1>2, <1>3 DEF Has, Condemned

LEMMA DropKeeps ==
  ASSUME MediaInv, NEW h \in Workers, DropAssetRow(h)
  PROVE  MediaInv'
  <1>1. /\ chore[h] # NoChore /\ chore[h].step = "drop" /\ chore[h] \in Chore /\ ChoreFits(h)
        /\ chore[h].id \in AssetIds /\ chore[h].key \in Media
    BY ChoreFacts DEF DropAssetRow, Working, MediaInv, ChoresFit
  <1>2. PICK a \in AssetIds, k \in Media, c \in Chore :
          /\ a = chore[h].id /\ k = chore[h].key
          /\ c.step = "check" /\ c.id = a /\ c.key = k /\ c.room = Home[k]
          /\ chore' = [chore EXCEPT ![h] = c]
    <2> DEFINE c == [chore[h] EXCEPT !.step = "check"]
    <2>1. /\ c \in Chore /\ c.step = "check" /\ c.id = chore[h].id
          /\ c.key = chore[h].key /\ c.room = chore[h].room
      BY <1>1 DEF Chore
    <2>2. chore' = [chore EXCEPT ![h] = c]
      BY DEF DropAssetRow, Advance
    <2> HIDE DEF c
    <2> QED BY <1>1, <2>1, <2>2 DEF ChoreFits
  <1>3. /\ placed' = [placed EXCEPT ![a] = NoAsset]
        /\ strays' = IF sweep.seen[a] # NoKey THEN strays \cup {k} ELSE strays
        /\ UNCHANGED <<stored, copies, upload, viewing, sweep, lateAdds, rushed>>
    BY <1>2 DEF DropAssetRow
  <1>4. /\ ~Has(a)' /\ MediaStaysHome' /\ NoObjectMissing'
        /\ \A b \in AssetIds \ {a} : placed'[b] = placed[b]
        /\ \A b \in AssetIds : Has(b)' => Has(b) /\ placed'[b] = placed[b]
        /\ \A j : Condemned(j) =>
             \A b \in AssetIds : (Has(b)' /\ placed'[b].key = j) => j \in lateAdds
    BY <1>3, RowGone
  <1>5. c # NoChore /\ chore'[h] = c /\ \A g \in Workers \ {h} : chore'[g] = chore[g]
    BY <1>2, StorageAssumption DEF MediaInv, MediaTypeOK
  <1>6. MediaTypeOK'
    BY <1>2, <1>3 DEF MediaInv, MediaTypeOK
  <1>7. \A g \in Workers \ {h} :
          (chore[g] # NoChore /\ chore[g].step \in {"head", "put"}) => chore[g].id # a
    BY <1>1, <1>2 DEF MediaInv, ChoresFit, ChoreFits
  <1>8. ASSUME NEW g \in Workers, chore'[g] # NoChore
        PROVE  ChoreFits(g)'
    <2>1. CASE g = h
      BY <1>2, <1>4, <1>5, <2>1 DEF ChoreFits
    <2>2. CASE g # h
      <3>1. /\ chore'[g] = chore[g] /\ chore[g] # NoChore /\ ChoreFits(g)
            /\ chore[g].id \in AssetIds
        BY <1>5, <1>8, <2>2, ChoreFacts DEF MediaInv, ChoresFit
      <3>2. chore[g].step \in {"head", "put"} =>
              \A f \in Workers \ {g} : chore'[f] # NoChore => chore'[f].id # chore[g].id
        BY <1>2, <1>5, <1>7, <2>2, <3>1 DEF ChoreFits
      <3> QED BY <1>3, <1>4, <3>1, <3>2 DEF ChoreFits, Condemned
    <2> QED BY <2>1, <2>2
  <1>9. SweepFits'
    <2>1. ASSUME NEW b \in AssetIds
          PROVE  SeenFits(b)'
      <3>1. SeenFits(b)
        BY DEF MediaInv, SweepFits
      <3>2. CASE b = a /\ sweep.seen[a] # NoKey
        <4>1. Has(a) => k = sweep.seen[a]
          BY <1>1, <1>2, <3>1, <3>2 DEF ChoreFits, SeenFits
        <4>2. sweep.seen[a] \in strays'
          BY <1>3, <3>1, <3>2, <4>1 DEF SeenFits
        <4> QED BY <1>3, <1>4, <3>1, <3>2, <4>2 DEF SeenFits
      <3>3. CASE b = a /\ sweep.seen[a] = NoKey
        BY <1>3, <1>4, <3>1, <3>3 DEF SeenFits
      <3>4. CASE b # a
        BY <1>3, <1>4, <3>1, <3>4 DEF SeenFits, Has
      <3> QED BY <3>2, <3>3, <3>4
    <2> QED BY <1>3, <1>4, <2>1 DEF MediaInv, SweepFits, Condemned
  <1>10. ASSUME NEW j \in stored
         PROVE  Accounted(j)'
    <2>1. Accounted(j)
      BY DEF MediaInv, AllAccounted
    <2>2. Has(a) => placed[a].key = k
      BY <1>1, <1>2 DEF ChoreFits
    <2>3. CASE j = k
      BY <1>2, <1>5, <2>3 DEF Accounted
    <2>4. CASE j # k
      <3>1. Named(j) => Named(j)'
        BY <1>4, <2>2, <2>4 DEF Named, Has
      <3>2. \A g \in Workers : chore[g].key = j => g # h
        BY <1>2, <2>4
      <3> QED BY <1>3, <1>5, <2>1, <3>1, <3>2 DEF Accounted
    <2> QED BY <2>3, <2>4
  <1> QED BY <1>3, <1>4, <1>6, <1>8, <1>9, <1>10 DEF MediaInv, ChoresFit, AllAccounted

(* A row is used, or ages.                                                 *)
LEMMA AgeKeeps ==
  ASSUME MediaInv, NEW a \in AssetIds, UseAsset(a) \/ AgeAsset(a)
  PROVE  MediaInv'
  <1>1. PICK new \in MediaRow :
          /\ Has(a) /\ new.key = placed[a].key /\ new.room = placed[a].room
          /\ placed' = [placed EXCEPT ![a] = new]
    <2>1. PICK o \in BOOLEAN : Has(a) /\ placed' = [placed EXCEPT ![a].old = o]
      BY DEF UseAsset, AgeAsset
    <2>2. placed[a] \in MediaRow
      BY <2>1, RowFacts DEF MediaInv
    <2> DEFINE new == [placed[a] EXCEPT !.old = o]
    <2>3. new \in MediaRow /\ new.key = placed[a].key /\ new.room = placed[a].room
      BY <2>2 DEF MediaRow
    <2>4. placed' = [placed EXCEPT ![a] = new]
      BY <2>1
    <2> HIDE DEF new
    <2> QED BY <2>1, <2>3, <2>4
  <1>2. UNCHANGED <<stored, copies, upload, viewing, chore, sweep, lateAdds, strays, rushed>>
    BY DEF UseAsset, AgeAsset
  <1>3. MediaTypeOK'
    BY <1>1, <1>2 DEF MediaInv, MediaTypeOK
  <1>4. \A b \in AssetIds : /\ Has(b)' <=> Has(b)
                            /\ Has(b) => /\ placed'[b].key = placed[b].key
                                         /\ placed'[b].room = placed[b].room
    BY <1>1, StorageAssumption DEF MediaInv, MediaTypeOK, Has
  <1>5. MediaStaysHome' /\ NoObjectMissing'
    BY <1>2, <1>4 DEF MediaInv, MediaStaysHome, NoObjectMissing
  <1>6. \A j : Condemned(j) => \A b \in AssetIds :
                 (Has(b)' /\ placed'[b].key = j) => j \in lateAdds
    BY <1>4 DEF Condemned
  <1>7. ASSUME NEW g \in Workers, chore[g] # NoChore
        PROVE  ChoreFits(g)'
    <2>1. ChoreFits(g) /\ chore[g].id \in AssetIds
      BY <1>7, ChoreFacts DEF MediaInv, ChoresFit
    <2> QED BY <1>2, <1>4, <1>6, <2>1 DEF ChoreFits, Condemned
  <1>8. \A b \in AssetIds : SeenFits(b)'
    BY <1>2, <1>4 DEF MediaInv, SweepFits, SeenFits
  <1>9. SweepFits'
    BY <1>2, <1>6, <1>8 DEF MediaInv, SweepFits, Condemned
  <1>10. ASSUME NEW j \in stored
         PROVE  Accounted(j)'
    <2>1. Named(j) => Named(j)'
      BY <1>4 DEF Named
    <2> QED BY <1>2, <2>1 DEF MediaInv, AllAccounted, Accounted
  <1> QED BY <1>2, <1>3, <1>5, <1>7, <1>9, <1>10 DEF MediaInv, ChoresFit, AllAccounted

----------------------------------------------------------------------------
(* The retention job.                                                      *)

(* What the job has read concerns nobody who is to put a row.              *)
LEMMA JobStep ==
  ASSUME MediaInv, UNCHANGED <<placed, chore, lateAdds>>, stored' \subseteq stored,
         \A h \in Workers :
           (chore[h] # NoChore /\ chore[h].step \in {"head", "put"})
             => sweep'.seen[chore[h].id] = NoKey
  PROVE  MediaStaysHome' /\ ChoresFit'
  <1>1. MediaStaysHome'
    BY DEF MediaInv, MediaStaysHome, Has
  <1>2. ASSUME NEW h \in Workers, chore[h] # NoChore
        PROVE  ChoreFits(h)'
    BY <1>2 DEF MediaInv, ChoresFit, ChoreFits, Condemned, Has
  <1> QED BY <1>1, <1>2 DEF ChoresFit

LEMMA RestedFacts ==
  /\ Rested \in Sweep /\ Rested.phase = "idle" /\ Rested.victim = NoKey
  /\ Rested.stale = {} /\ \A a \in AssetIds : Rested.seen[a] = NoKey
  BY DEF Rested, Sweep

LEMMA StartKeeps ==
  ASSUME MediaInv, StartSweep
  PROVE  MediaInv'
  <1>1. /\ sweep' \in Sweep /\ sweep'.phase = "scan" /\ sweep'.victim = NoKey
        /\ sweep'.stale = {} /\ sweep'.unseen = AssetIds
        /\ \A a \in AssetIds : sweep'.seen[a] = NoKey
    BY RestedFacts DEF StartSweep, Sweep
  <1>2. UNCHANGED <<stored, placed, copies, upload, viewing, chore, lateAdds, strays, rushed>>
        /\ sweep.phase = "idle" /\ sweep.victim = NoKey
    BY DEF StartSweep, MediaInv, SweepFits
  <1>3. MediaTypeOK'
    BY <1>1, <1>2 DEF MediaInv, MediaTypeOK
  <1>4. MediaStaysHome' /\ ChoresFit'
    BY <1>1, <1>2, JobStep, ChoreFacts DEF MediaInv
  <1>5. SweepFits'
    BY <1>1 DEF SweepFits, SeenFits
  <1>6. NoObjectMissing' /\ \A k \in stored : k # NoKey
    BY <1>2, StorageAssumption DEF MediaInv, NoObjectMissing, Has, MediaTypeOK
  <1>7. AllAccounted'
    BY <1>2, <1>6 DEF MediaInv, AllAccounted, Accounted, Named, Has
  <1> QED BY <1>3, <1>4, <1>5, <1>6, <1>7 DEF MediaInv

LEMMA ScanKeeps ==
  ASSUME MediaInv, NEW a \in AssetIds, ScanRow(a)
  PROVE  MediaInv'
  <1>1. PICK key \in Media \cup {NoKey} :
          key = (IF Has(a) THEN placed[a].key ELSE NoKey)
    BY RowFacts DEF MediaInv
  <1>2. /\ sweep \in Sweep /\ sweep.phase = "scan" /\ sweep.victim = NoKey
        /\ sweep' = [sweep EXCEPT
             !.phase = IF sweep.unseen = {a} THEN "delete" ELSE "scan",
             !.unseen = @ \ {a},
             !.seen[a] = key,
             !.stale = IF Has(a) /\ placed[a].old THEN @ \cup {a} ELSE @]
        /\ UNCHANGED <<stored, placed, copies, upload, viewing, chore, lateAdds, strays, rushed>>
    BY <1>1 DEF ScanRow, MediaInv, SweepFits, MediaTypeOK
  <1>3. /\ sweep' \in Sweep
        /\ sweep'.phase = IF sweep.unseen = {a} THEN "delete" ELSE "scan"
        /\ sweep'.unseen = sweep.unseen \ {a}
        /\ sweep'.seen = [sweep.seen EXCEPT ![a] = key]
        /\ sweep'.victim = NoKey
        /\ sweep'.stale \subseteq sweep.stale \cup (IF Has(a) THEN {a} ELSE {})
    BY <1>2 DEF Sweep
  <1>4. sweep'.seen[a] = key /\ \A b \in AssetIds \ {a} : sweep'.seen[b] = sweep.seen[b]
    BY <1>3, SweepFacts DEF MediaInv
  <1>5. MediaTypeOK'
    BY <1>2, <1>3 DEF MediaInv, MediaTypeOK
  <1>6. MediaStaysHome' /\ ChoresFit'
    <2>1. ASSUME NEW h \in Workers, chore[h] # NoChore, chore[h].step \in {"head", "put"}
          PROVE  sweep'.seen[chore[h].id] = NoKey
      <3>1. chore[h].id \in AssetIds /\ ~Has(chore[h].id) /\ sweep.seen[chore[h].id] = NoKey
        BY <2>1, ChoreFacts DEF MediaInv, ChoresFit, ChoreFits
      <3> QED BY <1>1, <1>4, <3>1
    <2> QED BY <1>2, <2>1, JobStep
  <1>7. ASSUME NEW b \in AssetIds
        PROVE  SeenFits(b)'
    <2>1. SeenFits(b)
      BY DEF MediaInv, SweepFits
    <2>2. CASE b = a
      <3>1. Has(a) => key # NoKey /\ key = placed[a].key
        BY <1>1, RowFacts, StorageAssumption DEF MediaInv
      <3>2. ~Has(a) => key = NoKey
        BY <1>1
      <3>4. a \in sweep'.stale => Has(a) \/ a \in sweep.stale
        BY <1>3
      <3>5. a \notin sweep.stale /\ a \notin sweep'.unseen
        BY <1>3, <2>1, <2>2 DEF ScanRow, SeenFits
      <3> QED BY <1>2, <1>4, <2>2, <3>1, <3>2, <3>4, <3>5 DEF SeenFits, Has
    <2>3. CASE b # a
      <3>1. b \in sweep'.stale => b \in sweep.stale
        BY <1>3, <2>3
      <3>2. b \notin sweep'.unseen => b \notin sweep.unseen
        BY <1>3, <2>3
      <3> QED BY <1>2, <1>4, <2>1, <2>3, <3>1, <3>2 DEF SeenFits, Has
    <2> QED BY <2>2, <2>3
  <1>8. SweepFits'
    BY <1>3, <1>7 DEF SweepFits
  <1>9. NoObjectMissing' /\ AllAccounted'
    BY <1>2, <1>3 DEF MediaInv, NoObjectMissing, AllAccounted, Accounted, Named, Has
  <1> QED BY <1>5, <1>6, <1>8, <1>9 DEF MediaInv

(* The one key a row is counted for is the last: no other row that was     *)
(* seen has it, and what was put since is known to be late.                *)
LEMMA LastOfKey ==
  ASSUME MediaInv, NEW a \in AssetIds, SweepRow(a), NEW k \in Media,
         k = sweep.seen[a], Remaining(k) = 1, NEW b \in AssetIds \ {a},
         Has(b), placed[b].key = k
  PROVE  k \in lateAdds
  <1> DEFINE those == {c \in AssetIds : sweep.seen[c] = k}
  <1>1. IsFiniteSet(those)
    BY StorageAssumption, FS_Subset
  <1>2. PICK x : those = {x}
    BY <1>1, FS_Singleton DEF Remaining
  <1>3. sweep.seen[b] # k
    BY <1>2
  <1>4. sweep.phase = "delete" /\ sweep.unseen = {}
    BY DEF SweepRow, MediaInv, SweepFits
  <1>5. sweep.seen[b] = placed[b].key \/ placed[b].key \in lateAdds
    BY <1>4 DEF MediaInv, SweepFits, SeenFits
  <1> QED BY <1>3, <1>5

(* Unless it is the last, somebody else answers for the object.            *)
LEMMA NotLastOfKey ==
  ASSUME MediaInv, NEW a \in AssetIds, NEW k \in Media, k = sweep.seen[a], Remaining(k) # 1
  PROVE  \E b \in AssetIds \ {a} : sweep.seen[b] = k
  <1> SUFFICES ASSUME \A b \in AssetIds \ {a} : sweep.seen[b] # k
               PROVE  FALSE
    OBVIOUS
  <1>1. {c \in AssetIds : sweep.seen[c] = k} = {a}
    OBVIOUS
  <1> QED BY <1>1, FS_Singleton DEF Remaining

LEMMA SweepRowKeeps ==
  ASSUME MediaInv, NEW a \in AssetIds, SweepRow(a)
  PROVE  MediaInv'
  <1>1. PICK k \in Media : k = sweep.seen[a]
    BY SweepFacts DEF SweepRow, MediaInv, SweepFits, SeenFits
  <1>2. /\ placed' = [placed EXCEPT ![a] = NoAsset]
        /\ sweep \in Sweep /\ sweep.phase = "delete" /\ sweep.unseen = {}
        /\ sweep.victim = NoKey
        /\ sweep' = [sweep EXCEPT !.stale = @ \ {a}, !.seen[a] = NoKey,
                       !.victim = IF Remaining(k) = 1 THEN k ELSE NoKey]
        /\ UNCHANGED <<stored, copies, upload, viewing, chore, lateAdds, strays, rushed>>
    BY <1>1 DEF SweepRow, MediaInv, SweepFits, MediaTypeOK
  <1>3. /\ sweep' \in Sweep /\ sweep'.phase = "delete" /\ sweep'.unseen = {}
        /\ sweep'.seen = [sweep.seen EXCEPT ![a] = NoKey]
        /\ sweep'.victim = IF Remaining(k) = 1 THEN k ELSE NoKey
        /\ sweep'.stale = sweep.stale \ {a}
    BY <1>2 DEF Sweep
  <1>4. sweep'.seen[a] = NoKey /\ \A b \in AssetIds \ {a} : sweep'.seen[b] = sweep.seen[b]
    BY <1>3, SweepFacts DEF MediaInv
  <1>5. /\ ~Has(a)' /\ MediaStaysHome' /\ NoObjectMissing'
        /\ \A b \in AssetIds \ {a} : placed'[b] = placed[b]
        /\ \A b \in AssetIds : Has(b)' => Has(b) /\ placed'[b] = placed[b]
        /\ \A j : Condemned(j) =>
             \A b \in AssetIds : (Has(b)' /\ placed'[b].key = j) => j \in lateAdds
    BY <1>2, RowGone
  <1>6. MediaTypeOK'
    BY <1>2, <1>3 DEF MediaInv, MediaTypeOK
  <1>7. ASSUME NEW h \in Workers, chore[h] # NoChore
        PROVE  ChoreFits(h)'
    <2>1. ChoreFits(h) /\ chore[h].id \in AssetIds
      BY <1>7, ChoreFacts DEF MediaInv, ChoresFit
    <2>2. sweep.seen[chore[h].id] = NoKey => sweep'.seen[chore[h].id] = NoKey
      BY <1>4, <2>1
    <2> QED BY <1>2, <1>5, <2>1, <2>2 DEF ChoreFits, Condemned
  <1>8. ASSUME NEW b \in AssetIds
        PROVE  SeenFits(b)'
    <2>1. SeenFits(b)
      BY DEF MediaInv, SweepFits
    <2>2. CASE b = a
      BY <1>3, <1>4, <1>5, <2>2 DEF SeenFits
    <2>3. CASE b # a
      BY <1>2, <1>3, <1>4, <1>5, <2>1, <2>3 DEF SeenFits, Has
    <2> QED BY <2>2, <2>3
  <1>9. SweepFits'
    <2>1. ASSUME Remaining(k) = 1, NEW b \in AssetIds, Has(b)', placed'[b].key = k
          PROVE  k \in lateAdds
      <3>1. b # a /\ Has(b) /\ placed[b].key = k
        BY <1>5, <2>1
      <3> QED BY <1>1, <2>1, <3>1, LastOfKey
    <2> QED BY <1>2, <1>3, <1>8, <2>1 DEF SweepFits, Condemned
  <1>10. ASSUME NEW j \in stored
         PROVE  Accounted(j)'
    <2>1. Accounted(j) /\ j # NoKey
      BY StorageAssumption DEF MediaInv, AllAccounted, MediaTypeOK
    <2>2. CASE j = k
      <3>1. CASE Remaining(k) = 1
        BY <1>3, <2>2, <3>1 DEF Accounted
      <3>2. CASE Remaining(k) # 1
        <4>1. PICK b \in AssetIds \ {a} : sweep.seen[b] = k
          BY <1>1, <3>2, NotLastOfKey
        <4>2. CASE Has(b)
          <5>1. placed[b].key = k
            BY <2>1, <2>2, <4>1, <4>2 DEF MediaInv, SweepFits, SeenFits
          <5> QED BY <1>5, <2>2, <4>1, <4>2, <5>1 DEF Accounted, Named, Has
        <4>3. CASE ~Has(b)
          <5>1. k \in strays
            BY <2>1, <2>2, <4>1, <4>3 DEF MediaInv, SweepFits, SeenFits
          <5> QED BY <1>2, <2>2, <5>1 DEF Accounted
        <4> QED BY <4>2, <4>3
      <3> QED BY <3>1, <3>2
    <2>3. CASE j # k
      <3>1. Has(a) => placed[a].key = k
        BY <1>1, StorageAssumption DEF MediaInv, SweepFits, SeenFits
      <3>2. Named(j) => Named(j)'
        BY <1>5, <2>3, <3>1 DEF Named, Has
      <3> QED BY <1>2, <2>1, <3>2 DEF Accounted
    <2> QED BY <2>2, <2>3
  <1> QED BY <1>2, <1>5, <1>6, <1>7, <1>9, <1>10 DEF MediaInv, ChoresFit, AllAccounted

(* The object of a key whose last row went.                                *)
LEMMA SweepObjectKeeps ==
  ASSUME MediaInv, SweepObject
  PROVE  MediaInv'
  <1>1. PICK k \in Media : k = sweep.victim /\ Condemned(k)
    BY SweepFacts DEF SweepObject, MediaInv, SweepFits
  <1>2. /\ sweep \in Sweep /\ sweep' = [sweep EXCEPT !.victim = NoKey] /\ stored' = stored \ {k}
        /\ UNCHANGED <<placed, copies, upload, viewing, chore, lateAdds, strays, rushed>>
    BY <1>1 DEF SweepObject, MediaInv, MediaTypeOK
  <1>3. /\ sweep' \in Sweep /\ sweep'.victim = NoKey /\ sweep'.phase = sweep.phase
        /\ sweep'.unseen = sweep.unseen /\ sweep'.seen = sweep.seen
        /\ sweep'.stale = sweep.stale
    BY <1>2 DEF Sweep
  <1>4. MediaTypeOK'
    BY <1>2, <1>3 DEF MediaInv, MediaTypeOK
  <1>5. MediaStaysHome' /\ ChoresFit'
    BY <1>2, <1>3, JobStep DEF MediaInv, ChoresFit, ChoreFits
  <1>6. SweepFits'
    BY <1>2, <1>3 DEF MediaInv, SweepFits, SeenFits, Has
  <1>7. NoObjectMissing'
    BY <1>1, <1>2 DEF MediaInv, NoObjectMissing, Condemned, Has
  <1>8. AllAccounted'
    BY <1>1, <1>2 DEF MediaInv, AllAccounted, Accounted, Named, Has
  <1> QED BY <1>4, <1>5, <1>6, <1>7, <1>8 DEF MediaInv

(* The job ends, or throws and leaves the object it was to delete.         *)
LEMMA EndKeeps ==
  ASSUME MediaInv, EndSweep \/ AbortSweep
  PROVE  MediaInv'
  <1>1. /\ sweep' = Rested /\ strays \subseteq strays' /\ strays' \subseteq Media
        /\ sweep.victim = NoKey \/ sweep.victim \in strays'
        /\ UNCHANGED <<stored, placed, copies, upload, viewing, chore, lateAdds, rushed>>
    BY SweepFacts DEF EndSweep, AbortSweep, MediaInv, MediaTypeOK
  <1>2. MediaTypeOK'
    BY <1>1, RestedFacts DEF MediaInv, MediaTypeOK
  <1>3. MediaStaysHome' /\ ChoresFit'
    BY <1>1, RestedFacts, JobStep, ChoreFacts DEF MediaInv
  <1>4. SweepFits'
    BY <1>1, RestedFacts DEF SweepFits, SeenFits
  <1>5. NoObjectMissing' /\ \A k \in stored : k # NoKey
    BY <1>1, StorageAssumption DEF MediaInv, NoObjectMissing, Has, MediaTypeOK
  <1>6. AllAccounted'
    BY <1>1, <1>5 DEF MediaInv, AllAccounted, Accounted, Named, Has
  <1> QED BY <1>2, <1>3, <1>4, <1>5, <1>6 DEF MediaInv

(* The induction step.                                                     *)
THEOREM MediaNextInv == MediaInv /\ [MediaNext]_mediaVars => MediaInv'
  <1> SUFFICES ASSUME MediaInv, [MediaNext]_mediaVars PROVE MediaInv'
    OBVIOUS
  <1>1. ASSUME NEW r \in Places, EnterPlace(r)
        PROVE  MediaInv'
    <2>1. UNCHANGED <<stored, placed, copies, upload, chore, sweep, lateAdds, strays, rushed>>
      BY <1>1 DEF EnterPlace
    <2>2. MediaTypeOK'
      BY <1>1, <2>1 DEF EnterPlace, MediaInv, MediaTypeOK
    <2> QED BY <2>1, <2>2, UploadKeeps
  <1>2. CASE UNCHANGED mediaVars
    <2>1. /\ UNCHANGED <<stored, placed, copies, upload, chore, sweep, lateAdds, strays>>
          /\ UNCHANGED <<viewing, rushed>>
      BY <1>2 DEF mediaVars
    <2>2. MediaTypeOK'
      BY <2>1 DEF MediaInv, MediaTypeOK
    <2> QED BY <2>1, <2>2, UploadKeeps
  <1>3. ASSUME NEW k \in Media,
               \/ PresignUpload(k) \/ AskUploadFromUrl(k) \/ PutFile(k) \/ PutFetched(k)
               \/ AbandonUpload(k)
        PROVE  MediaInv'
    BY <1>3, UploadStepKeeps
  <1>4. ASSUME NEW h \in Workers,
               \/ \E a \in AssetIds, k \in Media : PlaceUpload(h, a, k)
               \/ \E b \in AssetIds, k \in Media : DuplicateAsset(h, b, k)
               \/ \E a \in AssetIds : ReadForDelete(h, a)
               \/ \E known \in BOOLEAN : FetchFileSize(h, known)
               \/ PutAssetRow(h) \/ DropAssetRow(h) \/ CheckReferences(h) \/ EraseObject(h)
               \/ AbortChore(h)
        PROVE  MediaInv'
    BY <1>4, PlaceUploadKeeps, DuplicateKeeps, ReadForDeleteKeeps, FetchKeeps, PutKeeps,
       DropKeeps, CheckKeeps, EraseKeeps, AbortChoreKeeps
  <1>5. ASSUME NEW a \in AssetIds, UseAsset(a) \/ AgeAsset(a) \/ ScanRow(a) \/ SweepRow(a)
        PROVE  MediaInv'
    BY <1>5, AgeKeeps, ScanKeeps, SweepRowKeeps
  <1> QED BY <1>1, <1>2, <1>3, <1>4, <1>5, StartKeeps, SweepObjectKeeps, EndKeeps
          DEF MediaNext

LEMMA MediaInvMatches ==
  ASSUME MediaInv
  PROVE  RowsMatchObjects
  <1> SUFFICES ASSUME NEW k \in stored, \A a \in AssetIds : ~Has(a) \/ placed[a].key # k
               PROVE  \/ k \in strays
                      \/ upload[k] = "stored"
                      \/ \E h \in Workers : chore[h] # NoChore /\ chore[h].key = k
                      \/ sweep.victim = k
    BY DEF MediaInv, RowsMatchObjects, NoObjectStray
  <1> QED BY DEF MediaInv, AllAccounted, Accounted, Named

(* message.ts:245-253, retention-job:37-45: duplicates, deletions side by  *)
(* side and the retention job included, no object goes from under a row    *)
(* that was put in time, and none is left that nobody answers for.         *)
THEOREM ObjectsAndRowsMatch == MediaSpec => []RowsMatchObjects
  BY MediaInitInv, MediaNextInv, MediaInvMatches, PTL DEF MediaSpec

(* message.ts:95-103: a row names media of its own room only, wherever its *)
(* upload has ended.                                                       *)
THEOREM RowsNameOwnMedia == MediaSpec => []MediaStaysHome
  <1>1. MediaInv => MediaStaysHome
    BY DEF MediaInv
  <1> QED BY MediaInitInv, MediaNextInv, <1>1, PTL DEF MediaSpec
----------------------------------------------------------------------------
(* Sums of sizes.  Total is a recursive function over the subsets of a     *)
(* finite set; that it is defined, and that the order in which it takes    *)
(* elements does not matter, follows from a smallest counterexample.       *)

LEMMA SmallestSubset ==
  ASSUME NEW S, IsFiniteSet(S), NEW F, F \subseteq SUBSET S, F # {}
  PROVE  \E m \in F : \A t \in SUBSET m : t # m => t \notin F
  <1>1. IsWellFoundedOn(StrictSubsetOrdering(S), FiniteSubsetsOf(S))
    BY FS_StrictSubsetOrderingWellFounded
  <1>2. F \subseteq FiniteSubsetsOf(S)
    BY FS_Subset DEF FiniteSubsetsOf
  <1>3. PICK m \in F : \A t \in F : ~(<<t, m>> \in StrictSubsetOrdering(S))
    BY <1>1, <1>2, WFMin
  <1>4. ASSUME NEW t \in SUBSET m, t # m, t \in F
        PROVE  FALSE
    BY <1>2, <1>3, <1>4 DEF StrictSubsetOrdering
  <1> QED BY <1>4

(* The element a sum takes next, and what makes g the sums of subsets of S.*)
First(s) == CHOOSE x \in s : TRUE

Adder(g, S) ==
  g = [s \in SUBSET S |-> IF s = {} THEN 0 ELSE Size[First(s)] + g[s \ {First(s)}]]

LEMMA FirstFact == ASSUME NEW s, s # {} PROVE First(s) \in s
  BY DEF First

LEMMA TotalIsAdder ==
  ASSUME NEW S
  PROVE  Total(S) = (CHOOSE g : Adder(g, S))[S]
  BY DEF Total, MapThenSumSet, MapThenFoldSet, Adder, First

LEMMA AddersAgree ==
  ASSUME NEW S, IsFiniteSet(S), NEW T, NEW g, NEW h, Adder(g, S), Adder(h, T),
         NEW u \in SUBSET S, u \in SUBSET T
  PROVE  g[u] = h[u]
  <1> DEFINE F == {s \in SUBSET u : g[s] # h[s]}
  <1> SUFFICES ASSUME F # {} PROVE FALSE
    OBVIOUS
  <1>1. IsFiniteSet(u)
    BY FS_Subset
  <1>0. F \subseteq SUBSET u /\ F # {}
    OBVIOUS
  <1> HIDE DEF F
  <1>2. PICK m \in F : \A t \in SUBSET m : t # m => t \notin F
    BY <1>0, <1>1, SmallestSubset
  <1> USE DEF F
  <1>3. \A s \in SUBSET u :
           /\ g[s] = IF s = {} THEN 0 ELSE Size[First(s)] + g[s \ {First(s)}]
           /\ h[s] = IF s = {} THEN 0 ELSE Size[First(s)] + h[s \ {First(s)}]
    BY DEF Adder
  <1>4. m # {}
    BY <1>2, <1>3
  <1>5. m \ {First(m)} \in SUBSET m /\ m \ {First(m)} # m
    BY <1>4, FirstFact
  <1>6. g[m \ {First(m)}] = h[m \ {First(m)}]
    BY <1>2, <1>5
  <1> QED BY <1>2, <1>3, <1>4, <1>6

LEMMA AdderTotals ==
  ASSUME NEW S, IsFiniteSet(S), NEW g, Adder(g, S), NEW s \in SUBSET S
  PROVE  Total(s) = g[s]
  <1> DEFINE h == [t \in SUBSET s |-> g[t]]
  <1>1. \A t \in SUBSET s : g[t] = IF t = {} THEN 0 ELSE Size[First(t)] + g[t \ {First(t)}]
    BY DEF Adder
  <1>2. \A t \in SUBSET s : h[t] = IF t = {} THEN 0 ELSE Size[First(t)] + h[t \ {First(t)}]
    BY <1>1
  <1>3. Adder(h, s)
    BY <1>2 DEF Adder
  <1>4. Adder(CHOOSE f : Adder(f, s), s)
    BY <1>3
  <1>5. (CHOOSE f : Adder(f, s))[s] = g[s]
    BY <1>4, AddersAgree
  <1> QED BY <1>5, TotalIsAdder

LEMMA AdderExists ==
  ASSUME NEW S, IsFiniteSet(S)
  PROVE  \E g : Adder(g, S)
  <1> DEFINE F == {s \in SUBSET S : ~\E g : Adder(g, s)}
  <1> SUFFICES ASSUME F # {} PROVE FALSE
    OBVIOUS
  <1>0. F \subseteq SUBSET S /\ F # {}
    OBVIOUS
  <1> HIDE DEF F
  <1>1. PICK m \in F : \A t \in SUBSET m : t # m => t \notin F
    BY <1>0, SmallestSubset
  <1> USE DEF F
  <1> DEFINE g == [s \in SUBSET m |-> IF s = {} THEN 0 ELSE Size[First(s)] + Total(s \ {First(s)})]
  <1>2. ASSUME NEW u \in SUBSET m, u # m
        PROVE  g[u] = Total(u)
    <2>1. IsFiniteSet(u)
      BY FS_Subset
    <2>2. PICK h : Adder(h, u)
      BY <1>1, <1>2
    <2>3. \A t \in SUBSET u : Total(t) = h[t]
      BY <2>1, <2>2, AdderTotals
    <2>4. h[u] = IF u = {} THEN 0 ELSE Size[First(u)] + h[u \ {First(u)}]
      BY <2>2 DEF Adder
    <2> QED BY <2>3, <2>4
  <1>3. \A s \in SUBSET m : s # {} => g[s \ {First(s)}] = Total(s \ {First(s)})
    BY <1>2, FirstFact
  <1>4. \A s \in SUBSET m : g[s] = IF s = {} THEN 0 ELSE Size[First(s)] + g[s \ {First(s)}]
    BY <1>3
  <1>5. Adder(g, m)
    BY <1>4 DEF Adder
  <1> QED BY <1>1, <1>5

LEMMA TotalUnrolled ==
  ASSUME NEW S, IsFiniteSet(S)
  PROVE  Total(S) = IF S = {} THEN 0 ELSE Size[First(S)] + Total(S \ {First(S)})
  <1>1. PICK g : Adder(g, S)
    BY AdderExists
  <1>2. \A s \in SUBSET S : Total(s) = g[s]
    BY <1>1, AdderTotals
  <1>3. g[S] = IF S = {} THEN 0 ELSE Size[First(S)] + g[S \ {First(S)}]
    BY <1>1 DEF Adder
  <1> QED BY <1>2, <1>3

LEMMA TotalType ==
  ASSUME NEW S, IsFiniteSet(S), S \subseteq Media
  PROVE  Total(S) \in Nat
  <1> DEFINE F == {s \in SUBSET S : Total(s) \notin Nat}
  <1> SUFFICES ASSUME F # {} PROVE FALSE
    OBVIOUS
  <1>0. F \subseteq SUBSET S /\ F # {}
    OBVIOUS
  <1> HIDE DEF F
  <1>1. PICK m \in F : \A t \in SUBSET m : t # m => t \notin F
    BY <1>0, SmallestSubset
  <1> USE DEF F
  <1>2. Total(m) = IF m = {} THEN 0 ELSE Size[First(m)] + Total(m \ {First(m)})
    BY FS_Subset, TotalUnrolled
  <1>3. m # {} => First(m) \in m /\ Size[First(m)] \in Nat
    BY FirstFact, MediaAssumption
  <1>4. m # {} => Total(m \ {First(m)}) \in Nat
    BY <1>1, <1>3
  <1> QED BY <1>1, <1>2, <1>3, <1>4

(* Any element may be taken out first.                                     *)
LEMMA TotalTakeOut ==
  ASSUME NEW S, IsFiniteSet(S), S \subseteq Media, NEW x \in S
  PROVE  Total(S) = Size[x] + Total(S \ {x})
  <1> DEFINE F == {s \in SUBSET S : \E y \in s : Total(s) # Size[y] + Total(s \ {y})}
  <1> SUFFICES ASSUME F # {} PROVE FALSE
    OBVIOUS
  <1>0. F \subseteq SUBSET S /\ F # {}
    OBVIOUS
  <1> HIDE DEF F
  <1>1. PICK m \in F : \A t \in SUBSET m : t # m => t \notin F
    BY <1>0, SmallestSubset
  <1> USE DEF F
  <1>2. PICK y \in m : Total(m) # Size[y] + Total(m \ {y})
    BY <1>1
  <1>3. PICK c \in m : c = First(m)
    BY <1>2, FirstFact
  <1>4. Total(m) = Size[c] + Total(m \ {c})
    BY <1>2, <1>3, FS_Subset, TotalUnrolled
  <1>5. y # c
    BY <1>2, <1>4
  <1>6. PICK rest \in Nat : rest = Total((m \ {c}) \ {y})
    BY FS_Subset, TotalType
  <1>7. Total(m \ {c}) = Size[y] + rest
    BY <1>1, <1>5, <1>6
  <1>8. (m \ {y}) \ {c} = (m \ {c}) \ {y}
    OBVIOUS
  <1>9. Total(m \ {y}) = Size[c] + rest
    <2>1. Total(m \ {y}) = Size[c] + Total((m \ {y}) \ {c})
      BY <1>1, <1>5
    <2> QED BY <2>1, <1>6, <1>8
  <1>10. Size[c] \in Nat /\ Size[y] \in Nat
    BY MediaAssumption
  <1>11. Size[c] + (Size[y] + rest) = Size[y] + (Size[c] + rest)
    BY <1>6, <1>10
  <1> QED BY <1>2, <1>4, <1>7, <1>9, <1>11

LEMMA TotalMonotone ==
  ASSUME NEW S, IsFiniteSet(S), S \subseteq Media, NEW T \in SUBSET S
  PROVE  Total(T) <= Total(S)
  <1> DEFINE F == {s \in SUBSET S : T \subseteq s /\ ~(Total(T) <= Total(s))}
  <1> SUFFICES ASSUME F # {} PROVE FALSE
    OBVIOUS
  <1>0. F \subseteq SUBSET S /\ F # {}
    OBVIOUS
  <1> HIDE DEF F
  <1>1. PICK m \in F : \A t \in SUBSET m : t # m => t \notin F
    BY <1>0, SmallestSubset
  <1> USE DEF F
  <1>2. IsFiniteSet(m) /\ IsFiniteSet(T) /\ Total(m) \in Nat /\ Total(T) \in Nat
    BY FS_Subset, TotalType
  <1>3. PICK x \in m : x \notin T
    <2>1. Total(T) <= Total(T) /\ T \subseteq m
      BY <1>1, <1>2
    <2>2. T # m
      BY <1>1, <2>1
    <2> QED BY <2>1, <2>2
  <1>4. Total(m) = Size[x] + Total(m \ {x})
    BY <1>2, TotalTakeOut
  <1>5. Total(T) <= Total(m \ {x})
    BY <1>1, <1>3
  <1>6. Size[x] \in Nat /\ Total(m \ {x}) \in Nat
    BY <1>2, MediaAssumption, FS_Subset, TotalType
  <1>7. Total(T) <= Total(m)
    BY <1>2, <1>4, <1>5, <1>6
  <1> QED BY <1>1, <1>7

----------------------------------------------------------------------------
(* The quota.                                                              *)

(* The keys that may come to count in room r without another upload being  *)
(* admitted: those named by a row, and those still on their way to one.    *)
Potential(r) == {k \in Media : Home[k] = r /\ (Named(k) \/ Unplaced(k))}

OneTooMany(S) == Total(S) < Quota \/ \E k \in S : Total(S \ {k}) < Quota

(* Sizes that are not known yet are counted in: an invocation that reads   *)
(* one later takes the sum no further than this.                           *)
QuotaKept == rushed \/ \A r \in Places : IsFiniteSet(Potential(r)) /\ OneTooMany(Potential(r))

LEMMA SmallerIsNoMore ==
  ASSUME NEW S, IsFiniteSet(S), S \subseteq Media, OneTooMany(S), NEW T \in SUBSET S
  PROVE  OneTooMany(T)
  <1>1. IsFiniteSet(T) /\ Total(T) \in Nat /\ Total(S) \in Nat /\ Quota \in Nat
    BY FS_Subset, TotalType, MediaAssumption
  <1>2. CASE Total(S) < Quota
    <2>1. Total(T) <= Total(S)
      BY TotalMonotone
    <2> QED BY <1>1, <1>2, <2>1 DEF OneTooMany
  <1>3. ASSUME NEW k \in S, Total(S \ {k}) < Quota
        PROVE  OneTooMany(T)
    <2>1. IsFiniteSet(S \ {k}) /\ S \ {k} \subseteq Media /\ T \ {k} \in SUBSET (S \ {k})
      BY FS_Subset
    <2>2. Total(T \ {k}) <= Total(S \ {k})
      BY <2>1, TotalMonotone
    <2>3. Total(T \ {k}) \in Nat /\ Total(S \ {k}) \in Nat
      BY <2>1, FS_Subset, TotalType
    <2>4. Total(T \ {k}) < Quota
      BY <1>1, <1>3, <2>2, <2>3
    <2>5. k \notin T => T \ {k} = T
      OBVIOUS
    <2> QED BY <2>4, <2>5 DEF OneTooMany
  <1> QED BY <1>2, <1>3 DEF OneTooMany

LEMMA SmallerPotentialKeeps ==
  ASSUME QuotaKept, rushed' = rushed, \A r \in Places : Potential(r)' \subseteq Potential(r)
  PROVE  QuotaKept'
  <1> SUFFICES ASSUME ~rushed, NEW r \in Places
               PROVE  IsFiniteSet(Potential(r)') /\ OneTooMany(Potential(r)')
    BY DEF QuotaKept
  <1>1. IsFiniteSet(Potential(r)) /\ OneTooMany(Potential(r)) /\ Potential(r) \subseteq Media
    BY DEF QuotaKept, Potential
  <1> QED BY <1>1, FS_Subset, SmallerIsNoMore

(* The sum that the quota is compared with is the sum of these, or less.   *)
LEMMA SizedIsPotential ==
  ASSUME MediaInv, NEW r \in Places
  PROVE  SizedKeys(r) \subseteq Potential(r)
  <1> SUFFICES ASSUME NEW k \in Media, NEW a \in AssetIds, Has(a), placed[a].room = r,
                      placed[a].key = k
               PROVE  k \in Potential(r)
    BY DEF SizedKeys, References, RowsOf
  <1> QED BY DEF MediaInv, MediaStaysHome, Potential, Named

(* An upload that is admitted while everything has its place and its size  *)
(* is the one by which the room may exceed its quota.                      *)
LEMMA AdmitKeepsQuota ==
  ASSUME MediaInv, QuotaKept, NEW k \in Media, NEW stage \in {"presigned", "fetching"},
         Admit(k, stage)
  PROVE  QuotaKept'
  <1> SUFFICES ASSUME ~rushed' PROVE QuotaKept'
    BY DEF QuotaKept
  <1>0. PICK here \in Places : here = viewing
    BY DEF MediaInv, MediaTypeOK
  <1>1. /\ upload' = [upload EXCEPT ![k] = stage] /\ UNCHANGED <<placed, chore>>
        /\ ~rushed /\ here = Home[k] /\ UsedBytes(here) < Quota
        /\ \A j \in Media \ {k} : ~Unplaced(j)
        /\ \A a \in RowsOf(here) : placed[a].sized
    BY <1>0 DEF Admit, QuotaLeft
  <1>2. \A j \in Media \ {k} : upload'[j] = upload[j]
    BY <1>1 DEF MediaInv, MediaTypeOK
  <1>3. \A j \in Media \ {k} : ~Unplaced(j)'
    BY <1>1, <1>2 DEF Unplaced
  <1>4. \A j : Named(j)' <=> Named(j)
    BY <1>1 DEF Named, Has
  <1>5. ASSUME NEW r \in Places, r # here
        PROVE  Potential(r)' \subseteq Potential(r)
    BY <1>1, <1>3, <1>4, <1>5 DEF Potential
  <1>6. Potential(here)' \ {k} \subseteq SizedKeys(here)
    <2> SUFFICES ASSUME NEW j \in Media \ {k}, Named(j), Home[j] = here
                 PROVE  j \in SizedKeys(here)
      BY <1>3, <1>4 DEF Potential
    <2>1. PICK a \in AssetIds : Has(a) /\ placed[a].key = j
      BY DEF Named
    <2>2. placed[a].room = here
      BY <2>1 DEF MediaInv, MediaStaysHome
    <2> QED BY <1>1, <2>1, <2>2 DEF SizedKeys, References, RowsOf
  <1> DEFINE all == Potential(here)'
  <1>7. all \subseteq Media
    BY DEF Potential
  <1>8. IsFiniteSet(all) /\ OneTooMany(all)
    <2> HIDE DEF all
    <2>1. IsFiniteSet(SizedKeys(here)) /\ SizedKeys(here) \subseteq Media
      BY <1>1, SizedIsPotential, FS_Subset DEF QuotaKept, SizedKeys
    <2>2. all \ {k} \in SUBSET SizedKeys(here)
      BY <1>6 DEF all
    <2>3. IsFiniteSet(all \ {k})
      BY <2>1, <2>2, FS_Subset
    <2>4. IsFiniteSet((all \ {k}) \cup {k})
      BY <2>3, FS_AddElement
    <2>5. all \subseteq (all \ {k}) \cup {k}
      OBVIOUS
    <2>6. IsFiniteSet(all)
      BY <2>4, <2>5, FS_Subset
    <2>7. Total(all \ {k}) <= Total(SizedKeys(here))
      BY <2>1, <2>2, TotalMonotone
    <2>8. /\ Total(all \ {k}) \in Nat /\ Total(SizedKeys(here)) \in Nat /\ Quota \in Nat
          /\ Total(SizedKeys(here)) < Quota
      BY <1>1, <1>7, <2>1, <2>3, TotalType, MediaAssumption DEF UsedBytes
    <2>9. Total(all \ {k}) < Quota
      BY <2>7, <2>8
    <2>10. k \notin all => all \ {k} = all
      OBVIOUS
    <2> QED BY <2>6, <2>9, <2>10 DEF OneTooMany
  <1>9. ASSUME NEW r \in Places
        PROVE  IsFiniteSet(Potential(r)') /\ OneTooMany(Potential(r)')
    <2>1. CASE r = here
      BY <1>8, <2>1
    <2>2. CASE r # here
      <3>1. IsFiniteSet(Potential(r)) /\ OneTooMany(Potential(r)) /\ Potential(r) \subseteq Media
        BY <1>1 DEF QuotaKept, Potential
      <3> QED BY <1>5, <2>2, <3>1, FS_Subset, SmallerIsNoMore
    <2> QED BY <2>1, <2>2
  <1> QED BY <1>9 DEF QuotaKept

(* Nothing else brings a key that was not on its way.                      *)
LEMMA NoNewKeys ==
  ASSUME \A k \in Media : (Named(k) \/ Unplaced(k))' => Named(k) \/ Unplaced(k)
  PROVE  \A r \in Places : Potential(r)' \subseteq Potential(r)
  BY DEF Potential

LEMMA NextKeepsQuota ==
  ASSUME MediaInv, QuotaKept, [MediaNext]_mediaVars
  PROVE  QuotaKept'
  <1>1. ASSUME NEW k \in Media, PresignUpload(k) \/ AskUploadFromUrl(k)
        PROVE  QuotaKept'
    BY <1>1, AdmitKeepsQuota DEF PresignUpload, AskUploadFromUrl
  <1>2. ASSUME UNCHANGED <<placed, chore, rushed>>,
               \A k \in Media : upload'[k] \in {"presigned", "fetching", "stored"} =>
                                upload[k] \in {"presigned", "fetching", "stored"}
        PROVE  QuotaKept'
    <2>1. \A k \in Media : (Named(k) \/ Unplaced(k))' => Named(k) \/ Unplaced(k)
      BY <1>2 DEF Named, Unplaced, Has
    <2> QED BY <1>2, <2>1, NoNewKeys, SmallerPotentialKeeps
  <1>3. ASSUME NEW k \in Media, PutFile(k) \/ PutFetched(k) \/ AbandonUpload(k)
        PROVE  QuotaKept'
    <2>1. /\ UNCHANGED <<placed, chore, rushed>>
          /\ upload[k] \in {"presigned", "fetching", "stored"}
          /\ \E stage : upload' = [upload EXCEPT ![k] = stage]
      BY <1>3 DEF PutFile, PutFetched, AbandonUpload
    <2>2. \A j \in Media : j # k => upload'[j] = upload[j]
      BY <2>1 DEF MediaInv, MediaTypeOK
    <2> QED BY <2>1, <2>2, <1>2
  (* An invocation takes a key that is on its way or named already.        *)
  <1>4. ASSUME NEW h \in Workers, UNCHANGED <<placed, rushed>>,
               \A k \in Media : upload'[k] \in {"presigned", "fetching", "stored"} =>
                                upload[k] \in {"presigned", "fetching", "stored"},
               \A g \in Workers : g # h => chore'[g] = chore[g],
               (chore'[h] # NoChore /\ chore'[h].step \in {"head", "put"}) =>
                  Named(chore'[h].key) \/ Unplaced(chore'[h].key)
        PROVE  QuotaKept'
    <2>1. ASSUME NEW k \in Media, NEW g \in Workers, chore'[g] # NoChore, chore'[g].key = k,
                 chore'[g].step \in {"head", "put"}
          PROVE  Named(k) \/ Unplaced(k)
      BY <1>4, <2>1 DEF Unplaced
    <2>2. \A k \in Media : Unplaced(k)' => Named(k) \/ Unplaced(k)
      BY <1>4, <2>1 DEF Unplaced
    <2>3. \A k \in Media : Named(k)' => Named(k)
      BY <1>4 DEF Named, Has
    <2> QED BY <1>4, <2>2, <2>3, NoNewKeys, SmallerPotentialKeeps
  <1>5. ASSUME NEW h \in Workers, NEW a \in AssetIds, NEW k \in Media, PlaceUpload(h, a, k)
        PROVE  QuotaKept'
    <2>1. /\ UNCHANGED <<placed, rushed>> /\ upload' = [upload EXCEPT ![k] = "ended"]
          /\ Unplaced(k)
      BY <1>5 DEF PlaceUpload, Unplaced
    <2>2. \A j \in Media : upload'[j] = IF j = k THEN "ended" ELSE upload[j]
      BY <2>1 DEF MediaInv, MediaTypeOK
    <2>3. (UNCHANGED chore) \/
          \E c : c.key = k /\ c.step = "head" /\ chore' = [chore EXCEPT ![h] = c]
      BY <1>5 DEF PlaceUpload, NewChore
    <2>4. CASE UNCHANGED chore
      BY <1>2, <2>1, <2>2, <2>4
    <2>5. ASSUME NEW c, c.key = k, chore' = [chore EXCEPT ![h] = c]
          PROVE  QuotaKept'
      <3>1. chore'[h] = c /\ \A g \in Workers : g # h => chore'[g] = chore[g]
        BY <2>5 DEF MediaInv, MediaTypeOK
      <3> QED BY <1>4, <2>1, <2>2, <2>5, <3>1
    <2> QED BY <2>3, <2>4, <2>5
  <1>6. ASSUME NEW h \in Workers, NEW c, UNCHANGED <<placed, upload, rushed>>,
               Named(c.key), chore' = [chore EXCEPT ![h] = c]
        PROVE  QuotaKept'
    <2>1. chore'[h] = c /\ \A g \in Workers : g # h => chore'[g] = chore[g]
      BY <1>6 DEF MediaInv, MediaTypeOK
    <2> QED BY <1>4, <1>6, <2>1
  <1>r. ASSUME NEW h \in Workers, NEW a \in AssetIds, ReadForDelete(h, a)
        PROVE  QuotaKept'
    <2>1. /\ UNCHANGED <<placed, upload, rushed>> /\ Named(placed[a].key)
          /\ \E c : c.key = placed[a].key /\ chore' = [chore EXCEPT ![h] = c]
      BY <1>r DEF ReadForDelete, NewChore, Named
    <2> QED BY <1>6, <2>1
  (* What is duplicated is named still, or the run is counted as rushed.   *)
  <1>d. ASSUME NEW h \in Workers, NEW b \in AssetIds, NEW k \in Media, DuplicateAsset(h, b, k)
        PROVE  QuotaKept'
    <2> SUFFICES ASSUME ~rushed' PROVE QuotaKept'
      BY DEF QuotaKept
    <2>1. /\ UNCHANGED <<placed, upload>> /\ rushed' = (rushed \/ References(viewing, k) = {})
          /\ \E c : c.key = k /\ chore' = [chore EXCEPT ![h] = c]
      BY <1>d DEF DuplicateAsset, NewChore
    <2>2. ~rushed /\ References(viewing, k) # {}
      BY <2>1
    <2>3. Named(k)
      BY <2>2 DEF References, RowsOf, Named
    <2>4. rushed' = rushed
      BY <2>1, <2>2 DEF MediaInv, MediaTypeOK
    <2>5. PICK c : c.key = k /\ chore' = [chore EXCEPT ![h] = c]
      BY <2>1
    <2>6. placed' = placed /\ upload' = upload /\ Named(c.key)
      BY <2>1, <2>3, <2>5
    <2> QED BY ONLY <1>6, <2>4, <2>5, <2>6
  <1>7. ASSUME NEW h \in Workers, NEW known \in BOOLEAN, FetchFileSize(h, known)
        PROVE  QuotaKept'
    <2>1. /\ UNCHANGED <<placed, upload, rushed>> /\ chore[h] \in Chore /\ Working(h, "head")
          /\ chore' = [chore EXCEPT ![h].step = "put", ![h].sized = known]
      BY <1>7, ChoreFacts DEF FetchFileSize, Working, MediaInv
    <2>2. chore'[h].key = chore[h].key /\ \A g \in Workers : g # h => chore'[g] = chore[g]
      BY <2>1 DEF MediaInv, MediaTypeOK, Chore
    <2>3. Unplaced(chore[h].key)
      BY <2>1 DEF Unplaced, Working
    <2> QED BY <1>4, <2>1, <2>2, <2>3
  (* Steps that end a chore, or take it to one that puts no row.           *)
  <1>8. ASSUME NEW h \in Workers, UNCHANGED <<upload, rushed>>,
               \A g \in Workers : g # h => chore'[g] = chore[g],
               chore'[h] # NoChore => chore'[h].step \in {"check", "erase"},
               \A k \in Media : Named(k)' => Named(k) \/ Unplaced(k)
        PROVE  QuotaKept'
    <2>1. \A k \in Media : Unplaced(k)' => Unplaced(k)
      BY <1>8 DEF Unplaced
    <2> QED BY <1>8, <2>1, NoNewKeys, SmallerPotentialKeeps
  <1>9. ASSUME NEW h \in Workers, PutAssetRow(h)
        PROVE  QuotaKept'
    <2>1. /\ UNCHANGED <<upload, rushed>> /\ chore' = [chore EXCEPT ![h] = NoChore]
          /\ Unplaced(chore[h].key) /\ chore[h] \in Chore /\ chore[h].id \in AssetIds
      BY <1>9, ChoreFacts DEF PutAssetRow, Done, Working, Unplaced, MediaInv
    <2>2. PICK sized : placed' = [placed EXCEPT ![chore[h].id] = [room |-> chore[h].room,
                                    key |-> chore[h].key, sized |-> sized, old |-> FALSE]]
      BY <1>9 DEF PutAssetRow
    <2>3. chore'[h] = NoChore /\ \A g \in Workers : g # h => chore'[g] = chore[g]
      BY <2>1 DEF MediaInv, MediaTypeOK
    <2>4. \A a \in AssetIds : Has(a)' => \/ Has(a) /\ placed'[a] = placed[a]
                                        \/ placed'[a].key = chore[h].key
      BY <2>1, <2>2 DEF Has, MediaInv, MediaTypeOK
    <2>5. \A k \in Media : Named(k)' => Named(k) \/ Unplaced(k)
      BY <2>1, <2>4 DEF Named, Has
    <2> QED BY <1>8, <2>1, <2>3, <2>5
  <1>10. ASSUME NEW h \in Workers, DropAssetRow(h)
         PROVE  QuotaKept'
    <2>1. /\ UNCHANGED <<upload, rushed>> /\ chore' = [chore EXCEPT ![h].step = "check"]
          /\ chore[h] \in Chore /\ placed' = [placed EXCEPT ![chore[h].id] = NoAsset]
      BY <1>10, ChoreFacts DEF DropAssetRow, Advance, Working, MediaInv
    <2>2. chore'[h].step = "check" /\ \A g \in Workers : g # h => chore'[g] = chore[g]
      BY <2>1 DEF MediaInv, MediaTypeOK, Chore
    <2>3. \A k \in Media : Named(k)' => Named(k)
      BY <2>1 DEF Named, Has, MediaInv, MediaTypeOK
    <2> QED BY <1>8, <2>1, <2>2, <2>3
  <1>11. ASSUME NEW h \in Workers, CheckReferences(h) \/ EraseObject(h) \/ AbortChore(h)
         PROVE  QuotaKept'
    <2>1. /\ UNCHANGED <<placed, upload, rushed>> /\ chore[h] \in Chore
          /\ \/ chore' = [chore EXCEPT ![h] = NoChore]
             \/ chore' = [chore EXCEPT ![h].step = "erase"]
      BY <1>11, ChoreFacts DEF CheckReferences, EraseObject, AbortChore, Advance, Done, Working,
         MediaInv
    <2>2. /\ chore'[h] # NoChore => chore'[h].step \in {"check", "erase"}
          /\ \A g \in Workers : g # h => chore'[g] = chore[g]
      BY <2>1 DEF MediaInv, MediaTypeOK, Chore
    <2>3. \A k \in Media : Named(k)' => Named(k)
      BY <2>1 DEF Named, Has
    <2> QED BY <1>8, <2>1, <2>2, <2>3
  (* The retention job and the clock take rows away, or leave their keys.  *)
  <1>12. ASSUME UNCHANGED <<upload, chore, rushed>>, NEW a \in AssetIds,
                (UNCHANGED placed) \/ (placed' = [placed EXCEPT ![a] = NoAsset])
                \/ (Has(a) /\ \E old : placed' = [placed EXCEPT ![a].old = old])
         PROVE  QuotaKept'
    <2>1. \A b \in AssetIds : Has(b)' => Has(b) /\ placed'[b].key = placed[b].key
      <3>1. CASE UNCHANGED placed
        BY <3>1 DEF Has
      <3>2. CASE placed' = [placed EXCEPT ![a] = NoAsset]
        BY <3>2 DEF Has, MediaInv, MediaTypeOK
      <3>3. ASSUME Has(a), NEW old, placed' = [placed EXCEPT ![a].old = old]
            PROVE  \A b \in AssetIds : Has(b)' => Has(b) /\ placed'[b].key = placed[b].key
        <4>1. placed[a] \in MediaRow
          BY <3>3, RowFacts DEF MediaInv
        <4>2. placed'[a].key = placed[a].key /\ \A b \in AssetIds : b # a => placed'[b] = placed[b]
          BY <3>3, <4>1 DEF MediaInv, MediaTypeOK, MediaRow
        <4> QED BY <3>3, <4>2 DEF Has
      <3> QED BY <1>12, <3>1, <3>2, <3>3
    <2>2. \A k \in Media : (Named(k) \/ Unplaced(k))' => Named(k) \/ Unplaced(k)
      BY <1>12, <2>1 DEF Named, Unplaced
    <2> QED BY <1>12, <2>2, NoNewKeys, SmallerPotentialKeeps
  <1>13. ASSUME NEW a \in AssetIds, UseAsset(a) \/ AgeAsset(a) \/ ScanRow(a) \/ SweepRow(a)
         PROVE  QuotaKept'
    <2>1. UNCHANGED <<upload, chore, rushed>>
      BY <1>13 DEF UseAsset, AgeAsset, ScanRow, SweepRow
    <2>2. (UNCHANGED placed) \/ (placed' = [placed EXCEPT ![a] = NoAsset])
          \/ (Has(a) /\ \E old : placed' = [placed EXCEPT ![a].old = old])
      BY <1>13 DEF UseAsset, AgeAsset, ScanRow, SweepRow
    <2> QED BY <1>12, <2>1, <2>2
  <1>14. ASSUME \/ \E r \in Places : EnterPlace(r)
                \/ StartSweep \/ SweepObject \/ EndSweep \/ AbortSweep
                \/ UNCHANGED mediaVars
         PROVE  QuotaKept'
    <2>1. UNCHANGED <<placed, upload, chore, rushed>>
      BY <1>14 DEF EnterPlace, StartSweep, SweepObject, EndSweep, AbortSweep, mediaVars
    <2> QED BY <1>2, <2>1
  <1> QED BY <1>1, <1>3, <1>5, <1>r, <1>d, <1>7, <1>9, <1>10, <1>11, <1>13, <1>14
          DEF MediaNext

LEMMA InitKeepsQuota == MediaInit => QuotaKept
  <1> SUFFICES ASSUME MediaInit, NEW r \in Places
               PROVE  IsFiniteSet(Potential(r)) /\ OneTooMany(Potential(r))
    BY DEF QuotaKept
  <1>1. Potential(r) = {}
    BY DEF MediaInit, Potential, Named, Unplaced, Has
  <1>2. IsFiniteSet({}) /\ Total({}) = 0
    BY FS_EmptySet, TotalUnrolled
  <1>3. 0 < Quota
    BY MediaAssumption
  <1> QED BY <1>1, <1>2, <1>3 DEF OneTooMany

LEMMA QuotaFollows ==
  ASSUME MediaInv, QuotaKept
  PROVE  QuotaExceededByOne
  <1> SUFFICES ASSUME ~rushed, NEW r \in Places
               PROVE  \/ UsedBytes(r) < Quota
                      \/ \E k \in SizedKeys(r) : UsedBytes(r) < Quota + Size[k]
    BY DEF QuotaExceededByOne
  <1>1. /\ IsFiniteSet(Potential(r)) /\ OneTooMany(Potential(r)) /\ Potential(r) \subseteq Media
        /\ SizedKeys(r) \in SUBSET Potential(r)
    BY SizedIsPotential DEF QuotaKept, Potential
  <1>2. OneTooMany(SizedKeys(r)) /\ IsFiniteSet(SizedKeys(r)) /\ SizedKeys(r) \subseteq Media
    BY <1>1, SmallerIsNoMore, FS_Subset
  <1>3. ASSUME NEW k \in SizedKeys(r), Total(SizedKeys(r) \ {k}) < Quota
        PROVE  UsedBytes(r) < Quota + Size[k]
    <2>1. Total(SizedKeys(r)) = Size[k] + Total(SizedKeys(r) \ {k})
      BY <1>2, TotalTakeOut
    <2>2. Total(SizedKeys(r) \ {k}) \in Nat
      BY <1>2, FS_Subset, TotalType
    <2>3. Size[k] \in Nat /\ Quota \in Nat
      BY <1>2, MediaAssumption
    <2>4. Total(SizedKeys(r)) < Quota + Size[k]
      BY <1>3, <2>1, <2>2, <2>3
    <2> QED BY <2>4 DEF UsedBytes
  <1> QED BY <1>2, <1>3 DEF OneTooMany, UsedBytes

(* upload-url/index.ts:72-77: the check is coarse by one file and by no    *)
(* more, whatever the sizes, for any number of rooms and of uploads.       *)
THEOREM QuotaHoldsButForOne == MediaSpec => []QuotaExceededByOne
  <1>1. MediaInit => MediaInv /\ QuotaKept
    BY MediaInitInv, InitKeepsQuota
  <1>2. MediaInv /\ QuotaKept /\ [MediaNext]_mediaVars => (MediaInv /\ QuotaKept)'
    BY MediaNextInv, NextKeepsQuota
  <1>3. MediaInv /\ QuotaKept => QuotaExceededByOne
    BY QuotaFollows
  <1> QED BY <1>1, <1>2, <1>3, PTL DEF MediaSpec

----------------------------------------------------------------------------
(* The three parts of the backend, each by itself or none at work.         *)

BackendInv ==
  /\ VisibilityInv
  /\ RoomInv /\ RoomTypeOK
  /\ MediaInv /\ QuotaKept

LEMMA BackendStep ==
  ASSUME BackendInv, [UnionNext]_unionVars
  PROVE  BackendInv'
  <1>1. [VisibilityNext]_visibilityVars /\ [RoomNext]_roomVars /\ [MediaNext]_mediaVars
    BY DEF UnionNext, unionVars
  <1>2. VisibilityInv'
    BY <1>1, VisibilityNextInv DEF BackendInv
  <1>3. RoomInv' /\ RoomTypeOK'
    BY <1>1, RoomNextInv, RoomTypeStep DEF BackendInv, StepKeeps
  <1>4. MediaInv' /\ QuotaKept'
    BY <1>1, MediaNextInv, NextKeepsQuota DEF BackendInv
  <1> QED BY <1>2, <1>3, <1>4 DEF BackendInv

(* The invariants of the run MCRoomBackend, for any number of assets,      *)
(* rooms, objects, variables and invocations: rows and invocations are     *)
(* well typed, rows whole and their flags right, keys and rows kept,       *)
(* objects and rows together, media at home and quotas held; its rows and  *)
(* settings are seq-guarded registers, and births are kept.                *)
THEOREM BackendInvariance ==
  UnionSpec =>
    /\ [](/\ BackendTypeOK /\ RowsAreSound /\ KeyedItemIsKept
          /\ RowsMatchObjects /\ MediaStaysHome /\ QuotaExceededByOne)
    /\ RowsAreSeqRegisters /\ SettingsAreRegisters /\ CreatedAtKept
  <1>1. UnionInit => BackendInv
    <2> SUFFICES ASSUME UnionInit PROVE BackendInv
      OBVIOUS
    <2>1. VisibilityInv /\ RoomInv /\ MediaInv /\ QuotaKept
      BY VisibilityInitInv, RoomInitInv, MediaInitInv, InitKeepsQuota DEF UnionInit
    <2>2. RoomTypeOK
      BY RoomInitTyped DEF UnionInit
    <2> QED BY <2>1, <2>2 DEF BackendInv
  <1>2. BackendInv /\ [UnionNext]_unionVars => BackendInv'
    BY BackendStep
  <1>3. BackendInv => /\ BackendTypeOK /\ RowsAreSound /\ KeyedItemIsKept
                      /\ RowsMatchObjects /\ MediaStaysHome /\ QuotaExceededByOne
    <2> SUFFICES ASSUME BackendInv
                 PROVE  /\ BackendTypeOK /\ RowsAreSound /\ KeyedItemIsKept
                        /\ RowsMatchObjects /\ MediaStaysHome /\ QuotaExceededByOne
      OBVIOUS
    <2>1. BackendTypeOK
      BY DEF BackendInv, BackendTypeOK, VisibilityInv, StoreInv, MediaInv
    <2>2. RowsAreSound
      BY DEF BackendInv, VisibilityInv, StoreInv, RowsAreSound
    <2>3. KeyedItemIsKept
      BY DEF BackendInv, RoomInv, ItemInv, KeyedItemIsKept
    <2>4. RowsMatchObjects /\ MediaStaysHome
      BY MediaInvMatches DEF BackendInv, MediaInv
    <2>5. QuotaExceededByOne
      BY QuotaFollows DEF BackendInv
    <2> QED BY <2>1, <2>2, <2>3, <2>4, <2>5
  <1>4. UnionInit => Init /\ RoomInit
    BY DEF UnionInit, VisibilityInit
  <1>5. [UnionNext]_unionVars => [Next]_vars /\ [RoomNext]_roomVars
    BY DEF UnionNext, unionVars, VisibilityNext, visibilityVars
  <1>6. UnionSpec => Spec /\ RoomSpec
    BY <1>4, <1>5, PTL DEF UnionSpec, Spec, RoomSpec
  <1>7. UnionSpec => [](/\ BackendTypeOK /\ RowsAreSound /\ KeyedItemIsKept
                       /\ RowsMatchObjects /\ MediaStaysHome /\ QuotaExceededByOne)
    BY <1>1, <1>2, <1>3, PTL DEF UnionSpec
  <1> QED BY <1>6, <1>7, StoreRefinesRegister, SettingsRefineRegister, BirthsAreKept, PTL
=============================================================================
