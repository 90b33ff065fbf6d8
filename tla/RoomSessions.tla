---------------------------- MODULE RoomSessions ----------------------------
(***************************************************************************)
(* Navigation in the control UI (main.ts): which room session is alive,    *)
(* what the URL says, whether the dashboard is shown, and the answers that *)
(* come back after the user has gone on: the lists of rooms, the refetched *)
(* session, the owner's name, the uploads, the session poll.               *)
(*                                                                         *)
(* Abstracted: what a session holds besides its connection; the lists      *)
(* themselves; a page that is left (login) does nothing more.  The back    *)
(* and forward buttons go to any URL visited before.  Bounds, besides the  *)
(* constants: one e-mail address is saved at a time.                       *)
(***************************************************************************)
EXTENDS Naturals

CONSTANTS
  Chambers,     \* room ids
  OwnChamber,   \* session.personalRoomId
  Files,        \* uploads
  Dashboard,    \* the URL without a room; no session
  MaxVisits,    \* bound on the rooms entered
  MaxDashboards,   \* bound on the showDashboardView calls that wait for their list
  MaxOutages    \* bound on the drops of a connection and failed lists

ASSUME ChamberAssumption == OwnChamber \in Chambers /\ Dashboard \notin Chambers
ASSUME VisitAssumption ==
  MaxVisits \in Nat /\ MaxDashboards \in Nat \ {0} /\ MaxOutages \in Nat

VARIABLES
  url,         \* the room the URL names, or Dashboard
  visited,     \* URLs in the browser's history
  current,     \* the session: its room and which visit it is
  visit,       \* rooms entered so far
  live,        \* sessions whose connection has not been stopped
  up,          \* the current session's connection has a socket
  picker,      \* "hidden", "loading" or "listed"
  loadings,    \* showDashboardView calls waiting for listRooms
  settings,    \* the settings modal is open
  refetching,  \* changeEmail or the checkSession after it is under way
  header,      \* whose room the header says it is: a room, or Dashboard for "..."
  lookups,     \* rooms whose owner is being looked up
  upload,      \* upload[f]: its stage, its room, and where it was placed
  placed,      \* asset:add messages the room has accepted: file and room
  outages,
  crossed,     \* history: a room was opened while a dashboard was on its way, or
               \* an e-mail address was saved over a room
  lapsed,      \* the session cookie is no longer good
  left         \* the page went back to the login form

sessionVars == <<url, visited, current, visit, live, up, picker, loadings, settings,
                 refetching, header, lookups, upload, placed, outages, crossed, lapsed, left>>

navigation == <<url, visited, current, visit, live, up, picker, header, crossed>>
waiting == <<loadings, settings, refetching, lookups>>
modal == <<settings, refetching>>
cookie == <<lapsed, left>>
files == <<upload, placed>>

----------------------------------------------------------------------------
NoSession == [room |-> Dashboard, visit |-> 0]
IdleUpload == [stage |-> "idle"]
Locations == Chambers \cup {Dashboard}
SessionIds == [room : Chambers, visit : 1..MaxVisits]
Uploads ==
  [stage : {"idle", "failed", "lost"}] \cup [stage : {"running"}, from : SessionIds]
    \cup [stage : {"sent", "done"}, from : SessionIds,
          into : SessionIds \cup {NoSession}, up : BOOLEAN]

SessionsTypeOK ==
  /\ url \in Locations /\ visited \subseteq Locations /\ url \in visited
  /\ current \in SessionIds \cup {NoSession}
  /\ visit \in 0..MaxVisits
  /\ live \subseteq SessionIds
  /\ up \in BOOLEAN /\ settings \in BOOLEAN /\ refetching \in BOOLEAN
  /\ crossed \in BOOLEAN
  /\ lapsed \in BOOLEAN /\ left \in BOOLEAN
  /\ picker \in {"hidden", "loading", "listed"}
  /\ loadings \in 0..MaxDashboards
  /\ header \in Locations
  /\ lookups \subseteq Chambers \ {OwnChamber}
  /\ upload \in [Files -> Uploads]
  /\ placed \subseteq Files \X Chambers
  /\ outages \in 0..MaxOutages

SessionsInit ==
  /\ url = Dashboard /\ visited = {Dashboard}
  /\ current = NoSession /\ visit = 0 /\ live = {} /\ up = FALSE
  /\ picker = "loading" /\ loadings = 1 /\ settings = FALSE /\ refetching = FALSE
  /\ header = Dashboard /\ lookups = {}
  /\ upload = [f \in Files |-> IdleUpload] /\ placed = {}
  /\ outages = 0 /\ crossed = FALSE /\ lapsed = FALSE /\ left = FALSE

Here(r) == current.room = r

----------------------------------------------------------------------------
(* Views.                                                                  *)

(* Mutant of Teardown: the connection is left open.                        *)
TeardownHalf ==
  /\ current' = NoSession
  /\ up' = FALSE
  /\ UNCHANGED live

(* teardownCurrentRoom.                                                    *)
Teardown ==
  /\ current' = NoSession
  /\ up' = FALSE
  /\ live' = live \ {current}

(* Mutant of ShowRoom: the dashboard stays where it is.                    *)
ShowRoomBehind(r) ==
  LET new == [room |-> r, visit |-> visit + 1] IN
    /\ visit < MaxVisits
    /\ visit' = visit + 1
    /\ current' = new
    /\ live' = (live \ {current}) \cup {new}
    /\ up' = FALSE
    /\ header' = IF r = OwnChamber THEN r ELSE Dashboard
    /\ lookups' = IF r = OwnChamber THEN lookups ELSE lookups \cup {r}
    /\ crossed' = (crossed \/ loadings > 0 \/ refetching)
    /\ UNCHANGED picker

(* showRoomView: what there was is torn down, the dashboard hidden, and    *)
(* enterRoom builds the session, connects, and asks for the owner's name.  *)
ShowRoom(r) ==
  LET new == [room |-> r, visit |-> visit + 1] IN
    /\ visit < MaxVisits
    /\ visit' = visit + 1
    /\ current' = new
    /\ live' = (live \ {current}) \cup {new}
    /\ up' = FALSE
    /\ picker' = "hidden"
    /\ header' = IF r = OwnChamber THEN r ELSE Dashboard
    /\ lookups' = IF r = OwnChamber THEN lookups ELSE lookups \cup {r}
    /\ crossed' = (crossed \/ loadings > 0 \/ refetching)

(* showDashboardView up to its first await.                                *)
ShowDashboard ==
  /\ loadings < MaxDashboards
  /\ loadings' = loadings + 1
  /\ Teardown
  /\ picker' = "loading"

(* Mutant of Visit: the entry of the history is replaced.                  *)
VisitInPlace(u) ==
  /\ url' = u
  /\ UNCHANGED visited

Visit(u) ==
  /\ url' = u
  /\ visited' = visited \cup {u}

(* listRooms and the announcement are here: pickRoom renders, and shows,   *)
(* the dashboard, whatever has happened since.                             *)
ListArrives ==
  /\ ~left
  /\ loadings > 0
  /\ loadings' = loadings - 1
  /\ picker' = "listed"
  /\ UNCHANGED <<url, visited, current, visit, live, up, header, crossed, modal, lookups,
                 files, outages, cookie>>

(* A request that fails leaves "Loading" behind.                           *)
ListFails ==
  /\ ~left
  /\ loadings > 0
  /\ outages < MaxOutages
  /\ outages' = outages + 1
  /\ loadings' = loadings - 1
  /\ UNCHANGED <<navigation, modal, lookups, files, cookie>>

(* A row of the dashboard: pushState, showRoomView.                        *)
PickRoom(r) ==
  /\ ~left
  /\ picker = "listed"
  /\ Visit(r)
  /\ ShowRoom(r)
  /\ UNCHANGED <<loadings, modal, files, outages, cookie>>

GoToDashboard ==
  /\ ~left
  /\ current # NoSession
  /\ Visit(Dashboard)
  /\ ShowDashboard
  /\ UNCHANGED <<visit, header, crossed, modal, lookups, files, outages, cookie>>

(* popstate: the URL has changed already.                                  *)
GoBack(u) ==
  /\ ~left
  /\ u \in visited \ {url}
  /\ url' = u
  /\ IF u = Dashboard
       THEN ShowDashboard /\ UNCHANGED <<visit, header, crossed, lookups>>
       ELSE ShowRoom(u) /\ UNCHANGED loadings
  /\ UNCHANGED <<visited, modal, files, outages, cookie>>

(* The settings modal opens from the dashboard ...                         *)
OpenSettings ==
  /\ ~left
  /\ picker = "listed"
  /\ ~settings
  /\ settings' = TRUE
  /\ UNCHANGED <<navigation, loadings, refetching, lookups, files, outages, cookie>>

(* ... and stays, whatever is shown behind it, until it is closed.         *)
CloseSettings ==
  /\ ~left
  /\ settings
  /\ settings' = FALSE
  /\ UNCHANGED <<navigation, loadings, refetching, lookups, files, outages, cookie>>

(* A new e-mail address is saved ...                                       *)
SaveEmail ==
  /\ ~left
  /\ settings
  /\ ~refetching
  /\ refetching' = TRUE
  /\ crossed' = (crossed \/ current # NoSession)
  /\ UNCHANGED <<url, visited, current, visit, live, up, picker, header, loadings, settings,
                 lookups, files, outages, cookie>>

(* ... and the dashboard is shown when the session has been read, in the   *)
(* place of whatever is shown by then.                                     *)
RefetchArrives ==
  /\ ~left
  /\ refetching
  /\ refetching' = FALSE
  /\ ShowDashboard
  /\ UNCHANGED <<url, visited, visit, header, crossed, settings, lookups, files, outages,
                 cookie>>

(* The address is refused, or one of the two calls fails.                  *)
RefetchFails ==
  /\ ~left
  /\ refetching
  /\ refetching' = FALSE
  /\ UNCHANGED <<navigation, loadings, settings, lookups, files, outages, cookie>>

----------------------------------------------------------------------------
(* The header.                                                             *)

(* Mutant of OwnerArrives: without asking which room is shown now.         *)
OwnerArrivesAnyway(r) ==
  /\ r \in lookups
  /\ lookups' = lookups \ {r}
  /\ header' = r
  /\ UNCHANGED <<url, visited, current, visit, live, up, picker, loadings, modal,
                 crossed, files, outages, cookie>>

OwnerArrives(r) ==
  /\ r \in lookups
  /\ lookups' = lookups \ {r}
  /\ header' = IF Here(r) THEN r ELSE header
  /\ UNCHANGED <<url, visited, current, visit, live, up, picker, loadings, modal,
                 crossed, files, outages, cookie>>

----------------------------------------------------------------------------
(* Uploads.                                                                *)

(* handleUpload, handleUploadFromUrl: for the room that is shown.          *)
BeginUpload(f) ==
  /\ ~left
  /\ current # NoSession
  /\ upload[f] = IdleUpload
  /\ upload' = [upload EXCEPT ![f] = [stage |-> "running", from |-> current]]
  /\ UNCHANGED <<navigation, waiting, placed, outages, cookie>>

(* placeUploadedAsset sends asset:add through the session there is now, if *)
(* there is one and its connection has a socket; the indicator succeeds    *)
(* in any case.                                                            *)
PlaceResult(f) ==
  /\ ~left
  /\ upload[f].stage = "running"
  /\ upload' =
       [upload EXCEPT ![f] =
          [stage |-> IF current # NoSession /\ up THEN "sent" ELSE "done",
           from |-> upload[f].from, into |-> current, up |-> up]]
  /\ UNCHANGED <<navigation, waiting, placed, outages, cookie>>

UploadFails(f) ==
  /\ ~left
  /\ upload[f].stage = "running"
  /\ upload' = [upload EXCEPT ![f] = [stage |-> "failed"]]
  /\ UNCHANGED <<navigation, waiting, placed, outages, cookie>>

(* Mutant of AddArrives: any media is placed in any room.                  *)
AddArrivesAnyway(f) ==
  /\ upload[f].stage = "sent"
  /\ upload' = [upload EXCEPT ![f].stage = "done"]
  /\ placed' = placed \cup {<<f, upload[f].into.room>>}
  /\ UNCHANGED <<navigation, waiting, outages, cookie>>

(* asset:add: the media has to be of the room it is placed in.             *)
AddArrives(f) ==
  /\ upload[f].stage = "sent"
  /\ upload' = [upload EXCEPT ![f].stage = "done"]
  /\ placed' = IF upload[f].into.room = upload[f].from.room
                 THEN placed \cup {<<f, upload[f].into.room>>} ELSE placed
  /\ UNCHANGED <<navigation, waiting, outages, cookie>>

(* The message is lost with the connection, is refused because that has no *)
(* row or no user name, or its handler throws: nobody is told.             *)
AddIsLost(f) ==
  /\ upload[f].stage = "sent"
  /\ upload' = [upload EXCEPT ![f] = [stage |-> "lost"]]
  /\ UNCHANGED <<navigation, waiting, placed, outages, cookie>>

LoseConnection ==
  /\ ~left
  /\ up
  /\ outages < MaxOutages
  /\ outages' = outages + 1
  /\ up' = FALSE
  /\ UNCHANGED <<url, visited, current, visit, live, picker, header, crossed, waiting,
                 files, cookie>>

OpenConnection ==
  /\ ~left
  /\ current # NoSession
  /\ ~up
  /\ up' = TRUE
  /\ UNCHANGED <<url, visited, current, visit, live, picker, header, crossed, waiting,
                 files, outages, cookie>>

----------------------------------------------------------------------------
(* The session poll.                                                       *)

SessionLapses ==
  /\ ~lapsed
  /\ lapsed' = TRUE
  /\ UNCHANGED <<navigation, waiting, files, outages, left>>

(* Mutant of PollSession: only a page in a room is left.                   *)
PollSessionInRoom ==
  /\ ~left
  /\ lapsed
  /\ current # NoSession
  /\ left' = TRUE
  /\ Teardown
  /\ UNCHANGED <<url, visited, visit, picker, header, crossed, waiting, files, outages,
                 lapsed>>

(* A 401: forceReauth.                                                     *)
PollSession ==
  /\ ~left
  /\ lapsed
  /\ left' = TRUE
  /\ Teardown
  /\ UNCHANGED <<url, visited, visit, picker, header, crossed, waiting, files, outages,
                 lapsed>>

----------------------------------------------------------------------------
SessionsNext ==
  \/ ListArrives \/ ListFails \/ GoToDashboard
  \/ OpenSettings \/ CloseSettings \/ SaveEmail \/ RefetchArrives \/ RefetchFails
  \/ \E r \in Chambers : PickRoom(r) \/ OwnerArrives(r)
  \/ \E u \in Locations : GoBack(u)
  \/ \E f \in Files :
       BeginUpload(f) \/ PlaceResult(f) \/ UploadFails(f) \/ AddArrives(f) \/ AddIsLost(f)
  \/ LoseConnection \/ OpenConnection
  \/ SessionLapses \/ PollSession

SessionsSpec == SessionsInit /\ [][SessionsNext]_sessionVars

(* Requests are answered, the session is polled.                           *)
SessionsFairness ==
  /\ WF_sessionVars(ListArrives)
  /\ WF_sessionVars(RefetchArrives)
  /\ WF_sessionVars(PollSession)
  /\ \A r \in Chambers : WF_sessionVars(OwnerArrives(r))

SessionsFairSpec == SessionsSpec /\ SessionsFairness

----------------------------------------------------------------------------
(* Properties.                                                             *)

(* main.ts:100-104, 274-283: however rooms are left (the button, another   *)
(* room, the browser's buttons, a late dashboard, the login form), no      *)
(* connection but the current session's goes on.                           *)
OneLiveSession == live \subseteq {current}

(* main.ts:298-314, 353-365, 757-769: the URL names the room that is shown,*)
(* or else the dashboard is shown alone; unless a room was opened while a  *)
(* dashboard was on its way (then it appears over that room, or in its     *)
(* place), or an e-mail address was saved over a room, which the browser's *)
(* buttons showed while the settings were open (then the dashboard takes   *)
(* its place).  The header never says that the room is another one's.      *)
ViewMatchesUrl ==
  /\ (~left /\ ~crossed) => /\ Here(url)
                            /\ picker = "hidden" <=> url # Dashboard
  /\ current # NoSession => header \in {Dashboard, current.room}

(* main.ts:475-528 and message.ts:58-71, 95-103: media is in the room it   *)
(* was uploaded for, and in no other, whichever session its result went    *)
(* through; and an upload the page reports as a success is there, unless   *)
(* the user had left that room, or its connection was down, when it was    *)
(* placed, or else the message was lost on its way ("lost").               *)
UploadsLandAtHome ==
  /\ \A p \in placed : p[2] = upload[p[1]].from.room
  /\ \A f \in Files :
       upload[f].stage = "done" =>
         \/ <<f, upload[f].from.room>> \in placed
         \/ upload[f].into.room # upload[f].from.room
         \/ ~upload[f].up

(* main.ts:121-127, 233-262: a page whose session has lapsed goes to the   *)
(* login form, whatever it shows.                                          *)
LapseIsNoticed == lapsed ~> (left /\ live = {})
=============================================================================
