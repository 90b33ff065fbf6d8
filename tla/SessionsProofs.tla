--------------------------- MODULE SessionsProofs ---------------------------
(***************************************************************************)
(* Proofs about Presence and RoomSessions, each on its own.  For any       *)
(* number of sockets: rows of the connections table are not left behind.   *)
(* For any number of rooms, visits, dashboards under way and uploads: one  *)
(* connection is live, the view is the one of the URL, and media lands in  *)
(* its room.                                                               *)
(***************************************************************************)
EXTENDS MCSessions, FiniteSetTheorems, TLAPS

(* Presence: the rows left behind are counted by the calls that failed,    *)
(* and the handlers of every connection are somewhere.                     *)
PresenceInv ==
  /\ server \in [Sockets -> Progress]
  /\ rows \subseteq Sockets
  /\ IsFiniteSet(rows)
  /\ faults \in Nat
  /\ RowsHaveConnections

(* There are no rows at the start.                                         *)
THEOREM PresenceInitInv == PresenceInit => PresenceInv
  <1> SUFFICES ASSUME PresenceInit PROVE PresenceInv
    OBVIOUS
  <1>1. Leftover = {} /\ rows = {} /\ faults = 0
    BY DEF PresenceInit, Leftover
  <1>2. IsFiniteSet(rows) /\ Cardinality(Leftover) = 0
    BY <1>1, FS_EmptySet
  <1> QED BY <1>1, <1>2 DEF PresenceInit, PresenceInv, Progress, RowsHaveConnections

(* A step that leaves no new row behind ...                                *)
LEMMA NoRowLeft ==
  ASSUME PresenceInv, server' \in [Sockets -> Progress], rows' \subseteq Sockets,
         IsFiniteSet(rows'), Leftover' \subseteq Leftover, faults' = faults
  PROVE  PresenceInv'
  <1>1. IsFiniteSet(Leftover)
    BY FS_Subset DEF PresenceInv, Leftover
  <1>2. Cardinality(Leftover') <= Cardinality(Leftover)
        /\ Cardinality(Leftover) \in Nat /\ Cardinality(Leftover') \in Nat
    BY <1>1, FS_Subset, FS_CardinalityType
  <1> QED BY <1>2 DEF PresenceInv, RowsHaveConnections

(* ... and one that fails, and leaves one.                                 *)
LEMMA OneRowLeft ==
  ASSUME PresenceInv, server' \in [Sockets -> Progress], rows' = rows,
         NEW s \in Sockets, Leftover' \subseteq Leftover \cup {s}, faults' = faults + 1
  PROVE  PresenceInv'
  <1>1. IsFiniteSet(Leftover)
    BY FS_Subset DEF PresenceInv, Leftover
  <1>2. IsFiniteSet(Leftover \cup {s})
        /\ Cardinality(Leftover \cup {s}) <= Cardinality(Leftover) + 1
    <2>1. Cardinality(Leftover) \in Nat
      BY <1>1, FS_CardinalityType
    <2>2. /\ IsFiniteSet(Leftover \cup {s})
          /\ Cardinality(Leftover \cup {s})
               = IF s \in Leftover THEN Cardinality(Leftover) ELSE Cardinality(Leftover) + 1
      BY <1>1, FS_AddElement, Zenon
    <2> QED BY <2>1, <2>2
  <1>3. Cardinality(Leftover') <= Cardinality(Leftover \cup {s})
    BY <1>2, FS_Subset
  <1>4. /\ Cardinality(Leftover) \in Nat
        /\ Cardinality(Leftover \cup {s}) \in Nat
        /\ Cardinality(Leftover') \in Nat
    BY <1>1, <1>2, FS_Subset, FS_CardinalityType
  <1> QED BY <1>2, <1>3, <1>4 DEF PresenceInv, RowsHaveConnections

(* Every step of the client, the handlers and the watcher keeps it.        *)
THEOREM PresenceNextInv == PresenceInv /\ [PresenceNext]_allVars => PresenceInv'
  <1> SUFFICES ASSUME PresenceInv, [PresenceNext]_allVars PROVE PresenceInv'
    OBVIOUS
  <1>1. CASE UNCHANGED <<server, rows, faults>>
    BY <1>1 DEF PresenceInv, RowsHaveConnections, Leftover
  <1>2. ASSUME NEW s \in Sockets, PutConnection(s) \/ AnnounceJoined(s)
        PROVE  PresenceInv'
    <2>1. rows' \subseteq rows \cup {s} /\ faults' = faults
      BY <1>2 DEF PutConnection, AnnounceJoined
    <2>2. server' \in [Sockets -> Progress] /\ Leftover' \subseteq Leftover
      BY <1>2 DEF PutConnection, AnnounceJoined, Reach, PresenceInv, Progress, Leftover
    <2>3. IsFiniteSet(rows') /\ rows' \subseteq Sockets
      BY <2>1, FS_AddElement, FS_Subset DEF PresenceInv
    <2> QED BY <2>1, <2>2, <2>3, NoRowLeft
  <1>3. ASSUME NEW s \in Sockets, DeleteConnection(s) \/ AnnounceLeft(s) \/ SweepGone(s)
        PROVE  PresenceInv'
    <2>1. rows' \subseteq rows /\ faults' = faults
      BY <1>3 DEF DeleteConnection, AnnounceLeft, SweepGone
    <2>2. server' \in [Sockets -> Progress] /\ Leftover' \subseteq Leftover
      BY <1>3 DEF DeleteConnection, AnnounceLeft, SweepGone, Reach, PresenceInv, Progress,
                  Leftover
    <2>3. IsFiniteSet(rows') /\ rows' \subseteq Sockets
      BY <2>1, FS_Subset DEF PresenceInv
    <2> QED BY <2>1, <2>2, <2>3, NoRowLeft
  <1>4. ASSUME NEW s \in Sockets, FailConnect(s) \/ MissDisconnect(s)
        PROVE  PresenceInv'
    <2>1. rows' = rows /\ faults' = faults + 1
      BY <1>4 DEF FailConnect, MissDisconnect
    <2>2. server' \in [Sockets -> Progress] /\ Leftover' \subseteq Leftover \cup {s}
      BY <1>4 DEF FailConnect, MissDisconnect, Reach, PresenceInv, Progress, Leftover
    <2> QED BY <2>1, <2>2, OneRowLeft
  <1>6. CASE ClientStep
    BY <1>1, <1>6 DEF ClientStep, serverVars
  <1>7. CASE WatcherStep
    BY <1>1, <1>7 DEF WatcherStep, AddPresence, RemovePresence, ListPresence, SetPresence
  <1>8. CASE UNCHANGED allVars
    BY <1>1, <1>8 DEF allVars, serverVars
  <1> QED BY <1>2, <1>3, <1>4, <1>6, <1>7, <1>8 DEF PresenceNext, ServerStep

(* connections.ts, disconnect.ts: however sockets are swapped and handlers *)
(* interleave, there are no more rows of connections that are over than    *)
(* calls that have failed.                                                 *)
THEOREM RowsGoWithConnections == PresenceSpec => []RowsHaveConnections
  <1>1. PresenceInv => RowsHaveConnections
    BY DEF PresenceInv
  <1> QED BY <1>1, PresenceInitInv, PresenceNextInv, PTL DEF PresenceSpec

(* The client's sockets stay what they are ...                             *)
LEMMA SocketsStayTyped ==
  ASSUME TypeOK, [Next]_vars
  PROVE  TypeOK'
  <1>1. CASE UNCHANGED vars
    BY <1>1 DEF vars, TypeOK
  <1>2. ASSUME NEW s \in Sockets, OnOpen(s) PROVE TypeOK'
    BY <1>2 DEF OnOpen, TypeOK
  <1>3. ASSUME NEW s \in Sockets, Break(s) PROVE TypeOK'
    BY <1>3 DEF Break, TypeOK
  <1>4. ASSUME NEW s \in Sockets, OnClose(s) PROVE TypeOK'
    BY <1>4 DEF OnClose, ScheduleRetry, TypeOK
  <1>5. ASSUME OpenAttempt \/ UNCHANGED <<sock, pending>>
        PROVE  /\ sock' \in [Sockets -> {"free", "connecting", "open", "closing"}]
               /\ pending' \in Sockets \cup {None}
    BY <1>5 DEF OpenAttempt, TypeOK
  <1>6. CASE RetryFires \/ ProactiveFires \/ WatchdogTick
    BY <1>5, <1>6 DEF RetryFires, ProactiveFires, WatchdogTick, TypeOK
  <1>7. CASE LoseRetryTimer \/ Stop
    BY <1>7 DEF LoseRetryTimer, Stop, TypeOK
  <1> QED BY <1>1, <1>2, <1>3, <1>4, <1>6, <1>7 DEF Next

(* ... and it never starts two attempts in one step.                       *)
LEMMA OneAttemptAtATime ==
  ASSUME TypeOK, Next
  PROVE  Cardinality({s \in Sockets : sock[s] = "free" /\ sock'[s] = "connecting"}) \in Nat
  <1> DEFINE started == {s \in Sockets : sock[s] = "free" /\ sock'[s] = "connecting"}
  <1>1. \E s : started \subseteq {s}
    <2>1. CASE OpenAttempt
      BY <2>1 DEF OpenAttempt, TypeOK
    <2>2. CASE UNCHANGED sock
      BY <2>2
    <2>3. ASSUME NEW s \in Sockets, OnOpen(s) \/ Break(s) \/ OnClose(s) PROVE started = {}
      BY <2>3 DEF OnOpen, Break, OnClose, TypeOK
    <2>4. CASE Stop
      BY <2>4 DEF Stop
    <2> QED BY <2>1, <2>2, <2>3, <2>4
            DEF Next, RetryFires, ProactiveFires, WatchdogTick, LoseRetryTimer
  <1>2. IsFiniteSet(started)
    BY <1>1, FS_Subset, FS_Singleton
  <1> QED BY <1>2, FS_CardinalityType

(* Behind the handlers the client is the one of ResilientConnection: a     *)
(* $connect that fails is an attempt that breaks.                          *)
LEMMA PresenceStepRefines ==
  ASSUME TypeOK, [PresenceNext]_allVars
  PROVE  [Next]_vars
  <1>1. ASSUME NEW s \in Sockets, FailConnect(s) PROVE [Next]_vars
    <2>1. CASE sock[s] = "connecting"
      <3>1. Break(s)
        BY <1>1, <2>1 DEF FailConnect, Break
      <3> QED BY <3>1 DEF Next
    <2>2. CASE sock[s] # "connecting"
      <3>1. UNCHANGED sock
        BY <1>1, <2>2 DEF FailConnect, TypeOK
      <3> QED BY <1>1, <3>1 DEF FailConnect, vars
    <2> QED BY <2>1, <2>2
  <1>2. ASSUME NEW s \in Sockets, ServerStep(s), ~FailConnect(s) PROVE UNCHANGED vars
    BY <1>2 DEF ServerStep, PutConnection, AnnounceJoined, DeleteConnection, AnnounceLeft,
       MissDisconnect, SweepGone
  <1>3. CASE WatcherStep \/ UNCHANGED allVars
    BY <1>3 DEF WatcherStep, AddPresence, RemovePresence, ListPresence, SetPresence, allVars
  <1> QED BY <1>1, <1>2, <1>3 DEF PresenceNext, ClientStep

(* connection.ts: the sockets that come and go under the connections table *)
(* are those of ResilientConnection; so all that is proved of a connection *)
(* holds while the handlers run.                                           *)
THEOREM PresenceImplementsConnection == PresenceSpec => Spec
  <1>1. PresenceInit => Init
    BY DEF PresenceInit
  <1>2. Init => TypeOK
    BY DEF Init, TypeOK
  <1>3. TypeOK /\ [PresenceNext]_allVars => [Next]_vars /\ TypeOK'
    BY PresenceStepRefines, SocketsStayTyped
  <1> QED BY <1>1, <1>2, <1>3, PTL DEF PresenceSpec, Spec

(* The counts are counts because the table is finite: a connection is put  *)
(* at a time.                                                              *)
NewsTypeOK ==
  /\ news \subseteq News
  /\ IsFiniteSet(rows)
  /\ shown \in Nat
  /\ snapshot \in Nat \cup {None}

CountsTypeOK == attempts \in 0..MaxAttempts /\ faults \in 0..MaxFaults

LEMMA NewsStayTyped ==
  ASSUME NewsTypeOK, [PresenceNext]_allVars
  PROVE  NewsTypeOK'
  <1>1. ASSUME NEW s \in Sockets, ServerStep(s) PROVE NewsTypeOK'
    <2>1. rows' \subseteq rows \cup {s}
      BY <1>1 DEF ServerStep, PutConnection, AnnounceJoined, DeleteConnection, AnnounceLeft,
         FailConnect, MissDisconnect, SweepGone
    <2>2. IsFiniteSet(rows')
      BY <2>1, FS_AddElement, FS_Subset DEF NewsTypeOK
    <2>3. UNCHANGED <<shown, snapshot>>
      BY <1>1 DEF ServerStep, PutConnection, AnnounceJoined, DeleteConnection, AnnounceLeft,
         FailConnect, MissDisconnect, SweepGone
    <2>4. news' \subseteq News
      BY <1>1 DEF ServerStep, PutConnection, AnnounceJoined, DeleteConnection, AnnounceLeft,
         FailConnect, MissDisconnect, SweepGone, NewsTypeOK, News
    <2> QED BY <2>2, <2>3, <2>4 DEF NewsTypeOK
  <1>2. CASE WatcherStep
    <2>1. Cardinality(rows) \in Nat
      BY FS_CardinalityType DEF NewsTypeOK
    <2>2. UNCHANGED rows /\ news' \subseteq news
      BY <1>2 DEF WatcherStep, AddPresence, RemovePresence, ListPresence, SetPresence
    <2>3. shown' \in Nat /\ snapshot' \in Nat \cup {None}
      BY <1>2, <2>1
         DEF WatcherStep, AddPresence, RemovePresence, ListPresence, SetPresence, NewsTypeOK
    <2> QED BY <2>2, <2>3 DEF NewsTypeOK
  <1>3. CASE ClientStep \/ UNCHANGED allVars
    <2>1. UNCHANGED <<rows, news, shown, snapshot>>
      BY <1>3 DEF ClientStep, allVars, serverVars
    <2> QED BY <2>1 DEF NewsTypeOK
  <1> QED BY <1>1, <1>2, <1>3 DEF PresenceNext

LEMMA CountsStayTyped ==
  ASSUME TypeOK, CountsTypeOK, [PresenceNext]_allVars
  PROVE  CountsTypeOK'
  <1>1. CASE UNCHANGED <<attempts, faults>>
    BY <1>1 DEF CountsTypeOK
  <1>2. CASE ClientStep
    <2>1. PICK n \in Nat : attempts' = attempts + n /\ attempts' <= MaxAttempts
      BY <1>2, OneAttemptAtATime DEF ClientStep
    <2>2. UNCHANGED faults
      BY <1>2 DEF ClientStep, serverVars
    <2> QED BY <2>1, <2>2, AttemptAssumption DEF CountsTypeOK
  <1>3. ASSUME NEW s \in Sockets, FailConnect(s) \/ MissDisconnect(s) PROVE CountsTypeOK'
    BY <1>3, AttemptAssumption DEF FailConnect, MissDisconnect, CountsTypeOK
  <1>4. ASSUME NEW s \in Sockets, ServerStep(s), ~(FailConnect(s) \/ MissDisconnect(s))
        PROVE  UNCHANGED <<attempts, faults>>
    BY <1>4 DEF ServerStep, PutConnection, AnnounceJoined, DeleteConnection, AnnounceLeft,
       SweepGone
  <1>5. CASE WatcherStep \/ UNCHANGED allVars
    BY <1>1, <1>5 DEF WatcherStep, AddPresence, RemovePresence, ListPresence, SetPresence,
       allVars, serverVars
  <1> QED BY <1>1, <1>2, <1>3, <1>4, <1>5 DEF PresenceNext

(* connections.ts, connectedUsers.ts: sockets, handlers, broadcasts and    *)
(* the counts of the panel stay well typed.                                *)
THEOREM PresenceStaysTyped == PresenceSpec => []PresenceTypeOK
  <1> DEFINE Inv == TypeOK /\ PresenceInv /\ NewsTypeOK /\ CountsTypeOK
  <1>1. PresenceInit => Inv
    <2> SUFFICES ASSUME PresenceInit PROVE Inv
      OBVIOUS
    <2>1. NewsTypeOK
      BY FS_EmptySet DEF PresenceInit, NewsTypeOK
    <2>2. CountsTypeOK
      BY AttemptAssumption DEF PresenceInit, CountsTypeOK
    <2> QED BY <2>1, <2>2, PresenceInitInv DEF PresenceInit, Init, TypeOK
  <1>2. Inv /\ [PresenceNext]_allVars => Inv'
    BY PresenceNextInv, PresenceStepRefines, SocketsStayTyped, NewsStayTyped, CountsStayTyped
  <1>3. Inv => PresenceTypeOK
    BY DEF PresenceInv, NewsTypeOK, CountsTypeOK, PresenceTypeOK
  <1> QED BY <1>1, <1>2, <1>3, PTL DEF PresenceSpec

----------------------------------------------------------------------------
(* RoomSessions.                                                           *)

(* What ViewMatchesUrl rests on: as long as no room was opened while a     *)
(* dashboard was on its way, and no address saved over a room, dashboards  *)
(* are on their way to the dashboard only.                                 *)
ViewFollows ==
  (~left /\ ~crossed) =>
    /\ Here(url)
    /\ picker = "hidden" <=> url # Dashboard
    /\ (loadings > 0 \/ refetching) => url = Dashboard

HeaderFollows == current # NoSession => header \in {Dashboard, current.room}

(* A file is placed by the step that ends its upload.                      *)
PlacedWhenDone == \A p \in placed : upload[p[1]].stage = "done"

CountersTypeOK ==
  /\ visit \in 0..MaxVisits
  /\ loadings \in 0..MaxDashboards
  /\ outages \in 0..MaxOutages

NavigationTypeOK ==
  /\ url \in Locations /\ visited \subseteq Locations /\ url \in visited
  /\ current \in SessionIds \cup {NoSession}
  /\ live \subseteq SessionIds
  /\ up \in BOOLEAN /\ settings \in BOOLEAN /\ refetching \in BOOLEAN
  /\ crossed \in BOOLEAN
  /\ lapsed \in BOOLEAN /\ left \in BOOLEAN
  /\ picker \in {"hidden", "loading", "listed"}
  /\ header \in Locations
  /\ lookups \subseteq Chambers \ {OwnChamber}

FilesTypeOK == upload \in [Files -> Uploads] /\ placed \subseteq Files \X Chambers

ViewInv ==
  CountersTypeOK /\ NavigationTypeOK /\ OneLiveSession /\ ViewFollows /\ HeaderFollows
FilesInv == FilesTypeOK /\ PlacedWhenDone /\ UploadsLandAtHome
SessionsInv == ViewInv /\ FilesInv

(* The dashboard is not a room, so there being a session shows in its room.*)
LEMMA SessionHasRoom ==
  ASSUME NEW c \in SessionIds \cup {NoSession}
  PROVE  c # NoSession <=> c.room # Dashboard
  BY ChamberAssumption DEF SessionIds, NoSession

(* At the start the dashboard waits for its list.                          *)
THEOREM SessionsInitInv == SessionsInit => SessionsInv
  <1> SUFFICES ASSUME SessionsInit PROVE SessionsInv
    OBVIOUS
  <1>0. CountersTypeOK
    BY VisitAssumption DEF SessionsInit, CountersTypeOK
  <1>1. NavigationTypeOK
    BY ChamberAssumption DEF SessionsInit, NavigationTypeOK, Locations
  <1>2. ViewInv
    BY <1>0, <1>1, ChamberAssumption
    DEF ViewInv, SessionsInit, OneLiveSession, ViewFollows, HeaderFollows, Here, NoSession
  <1>3. FilesInv
    BY DEF FilesInv, FilesTypeOK, SessionsInit, Uploads, IdleUpload, PlacedWhenDone,
           UploadsLandAtHome
  <1> QED BY <1>2, <1>3 DEF SessionsInv

(* The uploads do not depend on the view.                                  *)
LEMMA FilesKept ==
  ASSUME FilesInv, UNCHANGED files
  PROVE  FilesInv'
  BY DEF FilesInv, FilesTypeOK, PlacedWhenDone, UploadsLandAtHome, files

(* showRoomView ends the connection of the room it leaves, and puts the    *)
(* room in the place of everything.                                        *)
LEMMA ShowRoomKeeps ==
  ASSUME ViewInv, NEW r \in Chambers, ShowRoom(r), ~left,
         url' = r, visited' \in {visited, visited \cup {r}}, url' \in visited',
         UNCHANGED <<loadings, modal, outages, lapsed, left>>
  PROVE  ViewInv'
  <1> USE ChamberAssumption, VisitAssumption
  <1>1. visit' \in 1..MaxVisits /\ current' = [room |-> r, visit |-> visit']
    BY DEF ShowRoom, ViewInv, CountersTypeOK
  <1>2. current' \in SessionIds /\ current'.room = r
    BY <1>1 DEF SessionIds
  <1>3. live' = {current'}
    BY DEF ShowRoom, ViewInv, OneLiveSession
  <1>4. CountersTypeOK' /\ NavigationTypeOK'
    <2>1. CountersTypeOK'
      BY <1>1 DEF ViewInv, CountersTypeOK
    <2>2. NavigationTypeOK'
      BY <1>2, <1>3 DEF ViewInv, NavigationTypeOK, ShowRoom, Locations, modal
    <2> QED BY <2>1, <2>2
  <1>5. OneLiveSession'
    BY <1>3 DEF OneLiveSession
  <1>6. ViewFollows'
    BY <1>2 DEF ViewFollows, ShowRoom, Here, modal
  <1>7. HeaderFollows'
    BY <1>2 DEF HeaderFollows, ShowRoom
  <1> QED BY <1>4, <1>5, <1>6, <1>7 DEF ViewInv

(* Once the session is torn down nothing is live.                          *)
LEMMA TeardownEnds ==
  ASSUME ViewInv, Teardown
  PROVE  current' = NoSession /\ up' = FALSE /\ live' = {}
  BY DEF ViewInv, OneLiveSession, Teardown

(* showDashboardView, called where the URL is, or becomes, the dashboard's *)
(* or for a room that was opened behind its back.                          *)
LEMMA ShowDashboardKeeps ==
  ASSUME ViewInv, ShowDashboard, ~left,
         url' = Dashboard \/ (refetching /\ url' = url),
         url' \in Locations, visited' \subseteq Locations, url' \in visited',
         refetching' = refetching \/ refetching' = FALSE, settings' = settings,
         UNCHANGED <<visit, header, crossed, lookups, outages, lapsed, left>>
  PROVE  ViewInv'
  <1>1. current' = NoSession /\ up' = FALSE /\ live' = {}
    BY TeardownEnds DEF ShowDashboard
  <1>2. CountersTypeOK' /\ NavigationTypeOK'
    <2>1. CountersTypeOK'
      BY VisitAssumption DEF ViewInv, CountersTypeOK, ShowDashboard
    <2>2. NavigationTypeOK'
      BY <1>1 DEF ViewInv, NavigationTypeOK, ShowDashboard
    <2> QED BY <2>1, <2>2
  <1>3. OneLiveSession' /\ HeaderFollows'
    BY <1>1 DEF OneLiveSession, HeaderFollows
  <1>4. ~crossed => url' = Dashboard
    BY DEF ViewInv, ViewFollows
  <1>5. ViewFollows'
    BY <1>1, <1>4 DEF ViewFollows, Here, NoSession, ShowDashboard
  <1> QED BY <1>2, <1>3, <1>5 DEF ViewInv

(* A list, a failed list and the settings leave the session alone; an      *)
(* address is saved over a room only if that has been noted.               *)
LEMMA ListKeeps ==
  ASSUME SessionsInv,
         ListArrives \/ ListFails \/ OpenSettings \/ CloseSettings \/ SaveEmail \/ RefetchFails
  PROVE  SessionsInv'
  <1> USE DEF ListArrives, ListFails, OpenSettings, CloseSettings, SaveEmail, RefetchFails
  <1>1. UNCHANGED <<url, visited, current, visit, live, up, header, lookups, lapsed, left>>
    BY DEF navigation, cookie
  <1>2. CountersTypeOK' /\ NavigationTypeOK'
    <2>1. CountersTypeOK'
      BY <1>1, VisitAssumption DEF SessionsInv, ViewInv, CountersTypeOK
    <2>2. NavigationTypeOK'
      BY <1>1 DEF SessionsInv, ViewInv, NavigationTypeOK, navigation, modal
    <2> QED BY <2>1, <2>2
  <1>3. OneLiveSession' /\ HeaderFollows'
    BY <1>1 DEF SessionsInv, ViewInv, OneLiveSession, HeaderFollows
  <1>4. ViewFollows'
    <2>1. CASE SaveEmail
      <3>1. ~crossed' => ~crossed /\ current = NoSession
        BY <2>1
      <3>2. (~left /\ ~crossed') => url = Dashboard
        BY <3>1 DEF SessionsInv, ViewInv, ViewFollows, Here, NoSession
      <3> QED BY <2>1, <3>1, <3>2, <1>1 DEF SessionsInv, ViewInv, ViewFollows, Here
    <2>2. CASE ListArrives
      BY <1>1, <2>2
      DEF SessionsInv, ViewInv, CountersTypeOK, ViewFollows, Here, modal
    <2>3. CASE ListFails
      BY <1>1, <2>3
      DEF SessionsInv, ViewInv, CountersTypeOK, ViewFollows, Here, navigation, modal
    <2>4. CASE OpenSettings \/ CloseSettings \/ RefetchFails
      BY <1>1, <2>4 DEF SessionsInv, ViewInv, ViewFollows, Here, navigation
    <2> QED BY <2>1, <2>2, <2>3, <2>4
  <1>5. UNCHANGED files
    OBVIOUS
  <1> QED BY <1>2, <1>3, <1>4, <1>5, FilesKept DEF SessionsInv, ViewInv

(* A room picked from the dashboard.                                       *)
LEMMA PickRoomKeeps ==
  ASSUME SessionsInv, NEW r \in Chambers, PickRoom(r)
  PROVE  SessionsInv'
  <1>1. ViewInv'
    BY ShowRoomKeeps DEF PickRoom, Visit, SessionsInv, cookie
  <1> QED BY <1>1, FilesKept DEF PickRoom, SessionsInv

(* The button, and an e-mail address that has been saved.                  *)
LEMMA DashboardKeeps ==
  ASSUME SessionsInv, GoToDashboard \/ RefetchArrives
  PROVE  SessionsInv'
  <1>1. UNCHANGED files
    BY DEF GoToDashboard, RefetchArrives
  <1>2. ViewInv'
    <2>1. CASE GoToDashboard
      BY <2>1, ShowDashboardKeeps
      DEF GoToDashboard, Visit, SessionsInv, ViewInv, NavigationTypeOK, Locations, modal, cookie
    <2>2. CASE RefetchArrives
      BY <2>2, ShowDashboardKeeps DEF RefetchArrives, SessionsInv, ViewInv, NavigationTypeOK, cookie
    <2> QED BY <2>1, <2>2
  <1> QED BY <1>1, <1>2, FilesKept DEF SessionsInv

(* The browser's buttons.                                                  *)
LEMMA GoBackKeeps ==
  ASSUME SessionsInv, NEW u \in Locations, GoBack(u)
  PROVE  SessionsInv'
  <1>1. url' = u /\ visited' = visited /\ url' \in visited'
    BY DEF GoBack
  <1>2. ViewInv'
    <2>1. CASE u = Dashboard
      BY <1>1, <2>1, ShowDashboardKeeps
      DEF GoBack, SessionsInv, ViewInv, NavigationTypeOK, Locations, modal, cookie
    <2>2. CASE u # Dashboard
      <3>1. u \in Chambers /\ ShowRoom(u) /\ UNCHANGED loadings
        BY <2>2 DEF GoBack, Locations
      <3> QED BY <1>1, <3>1, ShowRoomKeeps DEF GoBack, SessionsInv, cookie
    <2> QED BY <2>1, <2>2
  <1> QED BY <1>2, FilesKept DEF GoBack, SessionsInv

(* The owner's name is shown if its room is still there.                   *)
LEMMA OwnerArrivesKeeps ==
  ASSUME SessionsInv, NEW r \in Chambers, OwnerArrives(r)
  PROVE  SessionsInv'
  <1>1. ViewInv'
    BY DEF SessionsInv, ViewInv, CountersTypeOK, NavigationTypeOK, OneLiveSession, ViewFollows,
           HeaderFollows, Here, OwnerArrives, Locations, modal, cookie
  <1> QED BY <1>1, FilesKept DEF OwnerArrives, SessionsInv

(* Drops and reconnects change nothing but whether there is a socket.      *)
LEMMA ConnectionKeeps ==
  ASSUME SessionsInv, LoseConnection \/ OpenConnection
  PROVE  SessionsInv'
  <1>1. CountersTypeOK'
    BY VisitAssumption
    DEF SessionsInv, ViewInv, CountersTypeOK, LoseConnection, OpenConnection, waiting
  <1>2. up' \in BOOLEAN
        /\ UNCHANGED <<url, visited, current, live, picker, loadings, settings, refetching,
                       header, lookups, crossed, lapsed, left>>
    BY DEF LoseConnection, OpenConnection, waiting, cookie
  <1>3. NavigationTypeOK'
    BY <1>2 DEF SessionsInv, ViewInv, NavigationTypeOK
  <1>4. OneLiveSession' /\ ViewFollows' /\ HeaderFollows'
    BY <1>2 DEF SessionsInv, ViewInv, OneLiveSession, ViewFollows, HeaderFollows, Here
  <1> QED BY <1>1, <1>3, <1>4, FilesKept DEF LoseConnection, OpenConnection, SessionsInv, ViewInv

(* A session that lapses ends the page's session when this is noticed.     *)
LEMMA LapseKeeps ==
  ASSUME SessionsInv, SessionLapses \/ PollSession
  PROVE  SessionsInv'
  <1>1. CASE SessionLapses
    <2>1. ViewInv'
      BY <1>1 DEF SessionsInv, ViewInv, CountersTypeOK, NavigationTypeOK, OneLiveSession,
                  ViewFollows, HeaderFollows, Here, SessionLapses, navigation, waiting
    <2> QED BY <1>1, <2>1, FilesKept DEF SessionLapses, SessionsInv
  <1>2. CASE PollSession
    <2>1. current' = NoSession /\ up' = FALSE /\ live' = {}
      BY <1>2, TeardownEnds DEF PollSession, SessionsInv
    <2>2. ViewInv'
      BY <1>2, <2>1 DEF SessionsInv, ViewInv, CountersTypeOK, NavigationTypeOK, OneLiveSession,
                        ViewFollows, HeaderFollows, PollSession, waiting
    <2> QED BY <1>2, <2>2, FilesKept DEF PollSession, SessionsInv
  <1> QED BY <1>1, <1>2

(* Nothing of the view depends on the uploads.                             *)
LEMMA ViewKept ==
  ASSUME ViewInv, UNCHANGED <<navigation, waiting, outages, cookie>>
  PROVE  ViewInv'
  BY DEF ViewInv, CountersTypeOK, NavigationTypeOK, OneLiveSession, ViewFollows,
         HeaderFollows, Here, navigation, waiting, cookie

(* An upload is for the room that is shown when it begins.                 *)
LEMMA BeginUploadKeeps ==
  ASSUME SessionsInv, NEW f \in Files, BeginUpload(f)
  PROVE  SessionsInv'
  <1> DEFINE new == [stage |-> "running", from |-> current]
  <1>1. new \in Uploads
    BY DEF BeginUpload, SessionsInv, ViewInv, NavigationTypeOK, Uploads
  <1>2. upload' = [upload EXCEPT ![f] = new] /\ upload[f].stage = "idle" /\ placed' = placed
    BY DEF BeginUpload, IdleUpload
  <1>3. new.stage = "running"
    OBVIOUS
  <1> HIDE DEF new
  <1>4. FilesInv'
    BY <1>1, <1>2, <1>3
    DEF SessionsInv, FilesInv, FilesTypeOK, PlacedWhenDone, UploadsLandAtHome
  <1> QED BY <1>4, ViewKept DEF BeginUpload, SessionsInv

(* The result goes to the session there is now; it is done at once only if *)
(* there is none, or no socket.                                            *)
LEMMA PlaceResultKeeps ==
  ASSUME SessionsInv, NEW f \in Files, PlaceResult(f)
  PROVE  SessionsInv'
  <1> DEFINE new == [stage |-> IF current # NoSession /\ up THEN "sent" ELSE "done",
                     from |-> upload[f].from, into |-> current, up |-> up]
  <1>1. upload[f].stage = "running" /\ upload[f].from \in SessionIds
    BY DEF PlaceResult, SessionsInv, FilesInv, FilesTypeOK, Uploads
  <1>2. new \in Uploads
    BY <1>1 DEF SessionsInv, ViewInv, NavigationTypeOK, Uploads
  <1>3. upload' = [upload EXCEPT ![f] = new] /\ placed' = placed
    BY DEF PlaceResult
  <1>4. new.stage = "done" => new.into.room # new.from.room \/ ~new.up
    <2>1. upload[f].from.room # Dashboard
      BY <1>1, ChamberAssumption DEF SessionIds
    <2> QED BY <2>1 DEF NoSession
  <1> HIDE DEF new
  <1>5. FilesInv'
    BY <1>1, <1>2, <1>3, <1>4
    DEF SessionsInv, FilesInv, FilesTypeOK, PlacedWhenDone, UploadsLandAtHome
  <1> QED BY <1>5, ViewKept DEF PlaceResult, SessionsInv

(* A lost message leaves nothing behind either.                            *)
LEMMA AddIsLostKeeps ==
  ASSUME SessionsInv, NEW f \in Files, AddIsLost(f)
  PROVE  SessionsInv'
  <1> DEFINE new == [stage |-> "lost"]
  <1>1. new \in Uploads /\ new.stage = "lost"
    BY DEF Uploads
  <1>2. upload' = [upload EXCEPT ![f] = new] /\ upload[f].stage = "sent" /\ placed' = placed
    BY DEF AddIsLost
  <1> HIDE DEF new
  <1>3. FilesInv'
    BY <1>1, <1>2 DEF SessionsInv, FilesInv, FilesTypeOK, PlacedWhenDone, UploadsLandAtHome
  <1> QED BY <1>3, ViewKept DEF AddIsLost, SessionsInv

(* A failed upload was running, and is nowhere.                            *)
LEMMA UploadFailsKeeps ==
  ASSUME SessionsInv, NEW f \in Files, UploadFails(f)
  PROVE  SessionsInv'
  <1> DEFINE new == [stage |-> "failed"]
  <1>1. new \in Uploads /\ new.stage = "failed"
    BY DEF Uploads
  <1>2. upload' = [upload EXCEPT ![f] = new] /\ upload[f].stage = "running"
        /\ placed' = placed
    BY DEF UploadFails
  <1> HIDE DEF new
  <1>3. FilesInv'
    BY <1>1, <1>2 DEF SessionsInv, FilesInv, FilesTypeOK, PlacedWhenDone, UploadsLandAtHome
  <1> QED BY <1>3, ViewKept DEF UploadFails, SessionsInv

(* asset:add is refused outside the media's room.                          *)
LEMMA AddArrivesKeeps ==
  ASSUME SessionsInv, NEW f \in Files, AddArrives(f)
  PROVE  SessionsInv'
  <1> DEFINE old == upload[f]
             new == [old EXCEPT !.stage = "done"]
  <1>1. old \in [stage : {"sent", "done"}, from : SessionIds,
                 into : SessionIds \cup {NoSession}, up : BOOLEAN] /\ old.stage = "sent"
    BY DEF AddArrives, SessionsInv, FilesInv, FilesTypeOK, Uploads
  <1>2. new \in Uploads /\ new.stage = "done" /\ new.from = old.from /\ new.into = old.into
    BY <1>1 DEF Uploads
  <1>3. upload' = [upload EXCEPT ![f] = new]
    BY DEF AddArrives
  <1>4. placed' = IF old.into.room = old.from.room
                    THEN placed \cup {<<f, old.from.room>>} ELSE placed
    BY DEF AddArrives
  <1>5. old.from.room \in Chambers
    BY <1>1 DEF SessionIds
  <1> HIDE DEF old, new
  <1>6. upload' \in [Files -> Uploads] /\ upload'[f] = new
        /\ \A g \in Files : g # f => upload'[g] = upload[g]
    BY <1>2, <1>3 DEF SessionsInv, FilesInv, FilesTypeOK
  <1>7. FilesTypeOK'
    BY <1>4, <1>5, <1>6 DEF SessionsInv, FilesInv, FilesTypeOK
  <1>8. PlacedWhenDone'
    BY <1>2, <1>4, <1>6 DEF SessionsInv, FilesInv, FilesTypeOK, PlacedWhenDone
  <1>9. UploadsLandAtHome'
    <2>1. \A p \in placed' : p[2] = upload'[p[1]].from.room
      BY <1>2, <1>4, <1>6 DEF SessionsInv, FilesInv, FilesTypeOK, UploadsLandAtHome, old
    <2>2. \A g \in Files : upload'[g].stage = "done" =>
            \/ <<g, upload'[g].from.room>> \in placed'
            \/ upload'[g].into.room # upload'[g].from.room
            \/ ~upload'[g].up
      BY <1>2, <1>4, <1>6 DEF SessionsInv, FilesInv, UploadsLandAtHome
    <2> QED BY <2>1, <2>2 DEF UploadsLandAtHome
  <1>10. FilesInv'
    BY <1>7, <1>8, <1>9 DEF FilesInv
  <1> QED BY <1>10, ViewKept DEF AddArrives, SessionsInv

(* Every step keeps the invariant.                                         *)
THEOREM SessionsNextInv == SessionsInv /\ [SessionsNext]_sessionVars => SessionsInv'
  <1> SUFFICES ASSUME SessionsInv, [SessionsNext]_sessionVars PROVE SessionsInv'
    OBVIOUS
  <1>1. CASE \/ ListArrives \/ ListFails
             \/ OpenSettings \/ CloseSettings \/ SaveEmail \/ RefetchFails
    BY <1>1, ListKeeps
  <1>2. CASE GoToDashboard \/ RefetchArrives
    BY <1>2, DashboardKeeps
  <1>3. ASSUME NEW r \in Chambers, PickRoom(r) \/ OwnerArrives(r) PROVE SessionsInv'
    BY <1>3, PickRoomKeeps, OwnerArrivesKeeps
  <1>4. ASSUME NEW u \in Locations, GoBack(u) PROVE SessionsInv'
    BY <1>4, GoBackKeeps
  <1>5. ASSUME NEW f \in Files,
               BeginUpload(f) \/ PlaceResult(f) \/ UploadFails(f) \/ AddArrives(f)
                 \/ AddIsLost(f)
        PROVE  SessionsInv'
    BY <1>5, BeginUploadKeeps, PlaceResultKeeps, UploadFailsKeeps, AddArrivesKeeps,
       AddIsLostKeeps
  <1>6. CASE LoseConnection \/ OpenConnection
    BY <1>6, ConnectionKeeps
  <1>7. CASE SessionLapses \/ PollSession
    BY <1>7, LapseKeeps
  <1>8. CASE UNCHANGED sessionVars
    <2>1. UNCHANGED files /\ UNCHANGED <<navigation, waiting, outages, cookie>>
      BY <1>8 DEF sessionVars, files, navigation, waiting, cookie
    <2> QED BY <2>1, FilesKept, ViewKept DEF SessionsInv
  <1> QED BY <1>1, <1>2, <1>3, <1>4, <1>5, <1>6, <1>7, <1>8 DEF SessionsNext

(* main.ts:100-104, 274-283: however rooms are left, no connection but the *)
(* current session's goes on.                                              *)
THEOREM SessionsAreExclusive == SessionsSpec => [](SessionsTypeOK /\ OneLiveSession)
  <1>1. SessionsInv => SessionsTypeOK /\ OneLiveSession
    BY DEF SessionsInv, ViewInv, FilesInv, FilesTypeOK, CountersTypeOK, NavigationTypeOK,
           SessionsTypeOK
  <1> QED BY <1>1, SessionsInitInv, SessionsNextInv, PTL DEF SessionsSpec

(* main.ts:298-314, 353-365, 757-769: the view is the one of the URL,      *)
(* unless a room was opened while a dashboard was on its way, or an e-mail *)
(* address was saved over a room; the header is the room's.                *)
THEOREM ViewIsOfUrl == SessionsSpec => []ViewMatchesUrl
  <1>1. SessionsInv => ViewMatchesUrl
    BY DEF SessionsInv, ViewInv, ViewFollows, HeaderFollows, ViewMatchesUrl
  <1> QED BY <1>1, SessionsInitInv, SessionsNextInv, PTL DEF SessionsSpec

(* main.ts:475-528, message.ts:58-71, 95-103: media lands nowhere but in   *)
(* the room that it was uploaded for, and there unless the user had left,  *)
(* the connection was down, or the message was lost.                       *)
THEOREM UploadsAreHome == SessionsSpec => []UploadsLandAtHome
  <1>1. SessionsInv => UploadsLandAtHome
    BY DEF SessionsInv, FilesInv
  <1> QED BY <1>1, SessionsInitInv, SessionsNextInv, PTL DEF SessionsSpec

----------------------------------------------------------------------------
(* The two of them, each by itself.                                        *)
LEMMA PartsByThemselves == UnionSpec => PresenceSpec /\ SessionsSpec
  <1>1. UnionInit => PresenceInit /\ SessionsInit
    BY DEF UnionInit
  <1>2. [UnionNext]_unionVars => [PresenceNext]_allVars /\ [SessionsNext]_sessionVars
    BY DEF UnionNext, unionVars
  <1> QED BY <1>1, <1>2, PTL DEF UnionSpec, PresenceSpec, SessionsSpec

(* The invariants of the run Sessions, for any number of sockets, rooms,   *)
(* visits and uploads: connections and sessions are well typed, no row is  *)
(* left behind, one session is live, the view is the one of the URL, and   *)
(* media lands in its room, with the exceptions that the invariants name.  *)
THEOREM VisitInvariance ==
  UnionSpec => [](VisitTypeOK /\ RowsHaveConnections /\ OneLiveSession
                    /\ ViewMatchesUrl /\ UploadsLandAtHome)
  <1>1. PresenceTypeOK /\ SessionsTypeOK => VisitTypeOK
    BY DEF VisitTypeOK
  <1> QED BY <1>1, PartsByThemselves, PresenceStaysTyped, RowsGoWithConnections,
             SessionsAreExclusive, ViewIsOfUrl, UploadsAreHome, PTL
=============================================================================
