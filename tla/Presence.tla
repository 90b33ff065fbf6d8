------------------------------ MODULE Presence ------------------------------
(***************************************************************************)
(* The connections table, the $connect and $disconnect handlers, and the   *)
(* list of connected users another member looks at (connections.ts,        *)
(* connect.ts, disconnect.ts; control-ui/src/connectedUsers.ts), driven by *)
(* one logged-in client whose sockets come and go as ResilientConnection   *)
(* says.  All its sockets carry the same username and connectedAt, so the  *)
(* watcher's list is the number of times that pair is in it.               *)
(***************************************************************************)
EXTENDS ResilientConnection, Naturals, FiniteSets

CONSTANTS
  MaxAttempts,  \* bound on the client's connection attempts
  MaxFaults     \* bound on failed $connect and missed $disconnect calls

ASSUME AttemptAssumption == MaxAttempts \in Nat \ {0} /\ MaxFaults \in Nat

VARIABLES
  server,      \* server[s]: how far the handlers are with connection s
  rows,        \* connections with a row in the table
  news,        \* presence broadcasts on their way to the watcher
  shown,       \* how often the watcher's list has the session
  snapshot,    \* presence count on its way to the watcher, or None
  attempts, faults

serverVars == <<server, rows, news, shown, snapshot, faults>>
allVars == <<vars, serverVars, attempts>>

(* "none": not known; "put": $connect has written the row; "up": $connect  *)
(* has returned; "left": $disconnect has deleted the row.                  *)
Progress == {"none", "put", "up", "left"}

News == [what : {"joined", "left"}, from : Sockets]

PresenceTypeOK ==
  /\ TypeOK
  /\ server \in [Sockets -> Progress]
  /\ rows \subseteq Sockets
  /\ news \subseteq News
  /\ shown \in Nat
  /\ snapshot \in Nat \cup {None}
  /\ attempts \in 0..MaxAttempts /\ faults \in 0..MaxFaults

PresenceInit ==
  /\ Init
  /\ server = [s \in Sockets |-> "none"]
  /\ rows = {} /\ news = {} /\ shown = 0 /\ snapshot = None
  /\ attempts = 1 /\ faults = 0

Reach(s, from, to) == server[s] = from /\ server' = [server EXCEPT ![s] = to]

----------------------------------------------------------------------------
(* $connect: the row first, then presence:joined to the others.            *)
PutConnection(s) ==
  /\ sock[s] = "connecting"
  /\ Reach(s, "none", "put")
  /\ rows' = rows \cup {s}
  /\ UNCHANGED <<vars, news, shown, snapshot, attempts, faults>>

AnnounceJoined(s) ==
  /\ Reach(s, "put", "up")
  /\ news' = news \cup {[what |-> "joined", from |-> s]}
  /\ UNCHANGED <<vars, rows, shown, snapshot, attempts, faults>>

(* The broadcast throws: the handshake is refused, the row stays.          *)
FailConnect(s) ==
  /\ faults < MaxFaults
  /\ faults' = faults + 1
  /\ Reach(s, "put", "none")
  /\ sock' = [sock EXCEPT ![s] = IF @ = "connecting" THEN "closing" ELSE @]
  /\ UNCHANGED <<socket, pending, retryTimer, reconnectTimer, closedByUs>>
  /\ UNCHANGED <<rows, news, shown, snapshot, attempts>>

(* Mutant of DeleteConnection: the row stays.                              *)
DeleteConnectionNot(s) ==
  /\ sock[s] \in {"closing", "free"}
  /\ Reach(s, "up", IF s \in rows THEN "left" ELSE "none")
  /\ UNCHANGED <<vars, rows, news, shown, snapshot, attempts, faults>>

(* $disconnect reads the row, deletes it, and broadcasts only if it found  *)
(* one.                                                                    *)
DeleteConnection(s) ==
  /\ sock[s] \in {"closing", "free"}
  /\ Reach(s, "up", IF s \in rows THEN "left" ELSE "none")
  /\ rows' = rows \ {s}
  /\ UNCHANGED <<vars, news, shown, snapshot, attempts, faults>>

AnnounceLeft(s) ==
  /\ Reach(s, "left", "none")
  /\ news' = news \cup {[what |-> "left", from |-> s]}
  /\ UNCHANGED <<vars, rows, shown, snapshot, attempts, faults>>

(* The client goes away without a $disconnect.                             *)
MissDisconnect(s) ==
  /\ faults < MaxFaults
  /\ faults' = faults + 1
  /\ sock[s] \in {"closing", "free"}
  /\ Reach(s, "up", "none")
  /\ UNCHANGED <<vars, rows, news, shown, snapshot, attempts>>

(* sendTo: another invocation's broadcast reaches a connection that is not *)
(* active, not yet (connect.ts:97-104) or no more: GoneException, and the  *)
(* row goes without a word to anybody.                                     *)
Active(s) == server[s] = "up" /\ sock[s] \in {"connecting", "open"}

SweepGone(s) ==
  /\ s \in rows
  /\ ~Active(s)
  /\ rows' = rows \ {s}
  /\ UNCHANGED <<vars, server, news, shown, snapshot, attempts, faults>>

----------------------------------------------------------------------------
(* The watcher's panel: addPresence, removePresence, setPresence.          *)
AddPresence(m) ==
  /\ m \in news /\ m.what = "joined"
  /\ news' = news \ {m}
  /\ shown' = shown + 1
  /\ UNCHANGED <<vars, server, rows, snapshot, attempts, faults>>

(* Mutant of RemovePresence: one entry is taken off, there or not.         *)
RemoveOne(m) ==
  /\ m \in news /\ m.what = "left"
  /\ news' = news \ {m}
  /\ shown' = shown - 1
  /\ UNCHANGED <<vars, server, rows, snapshot, attempts, faults>>

(* Every entry with this username and connectedAt goes.                    *)
RemovePresence(m) ==
  /\ m \in news /\ m.what = "left"
  /\ news' = news \ {m}
  /\ shown' = 0
  /\ UNCHANGED <<vars, server, rows, snapshot, attempts, faults>>

(* A snapshot the watcher asked for (its fallback interval, its refresh    *)
(* button): listPresence, then the reply.                                  *)
ListPresence ==
  /\ snapshot = None
  /\ snapshot' = Cardinality(rows)
  /\ UNCHANGED <<vars, server, rows, news, shown, attempts, faults>>

(* Mutant of SetPresence: the snapshot only adds.                          *)
SetPresenceGrowing ==
  /\ snapshot # None
  /\ shown' = IF snapshot > shown THEN snapshot ELSE shown
  /\ snapshot' = None
  /\ UNCHANGED <<vars, server, rows, news, attempts, faults>>

SetPresence ==
  /\ snapshot # None
  /\ shown' = snapshot
  /\ snapshot' = None
  /\ UNCHANGED <<vars, server, rows, news, attempts, faults>>

----------------------------------------------------------------------------
(* The client's own steps: the socket opens once $connect has returned,    *)
(* and a new attempt is a connection the server has not heard of.          *)
Forgotten(s) ==
  server[s] = "none" /\ s \notin rows /\ \A m \in news : m.from # s

ClientStep ==
  /\ Next
  /\ \A s \in Sockets : sock'[s] = "open" => server[s] = "up"
  /\ LET started == {s \in Sockets : sock[s] = "free" /\ sock'[s] = "connecting"} IN
       /\ \A s \in started : Forgotten(s)
       /\ attempts' = attempts + Cardinality(started)
       /\ attempts' <= MaxAttempts
  /\ UNCHANGED serverVars

ServerStep(s) ==
  \/ PutConnection(s) \/ AnnounceJoined(s) \/ DeleteConnection(s) \/ AnnounceLeft(s)
  \/ FailConnect(s) \/ MissDisconnect(s) \/ SweepGone(s)

WatcherStep ==
  \/ \E m \in news : AddPresence(m) \/ RemovePresence(m)
  \/ ListPresence \/ SetPresence

PresenceNext == ClientStep \/ WatcherStep \/ \E s \in Sockets : ServerStep(s)

PresenceSpec == PresenceInit /\ [][PresenceNext]_allVars

(* Handlers that were invoked run, broadcasts and replies arrive, and the  *)
(* watcher's three-minute interval comes round.                            *)
PresenceFairness ==
  /\ \A s \in Sockets : WF_allVars(AnnounceJoined(s))
  /\ \A s \in Sockets : WF_allVars(DeleteConnection(s))
  /\ \A s \in Sockets : WF_allVars(AnnounceLeft(s))
  /\ WF_allVars(\E m \in news : AddPresence(m) \/ RemovePresence(m))
  /\ WF_allVars(ListPresence)
  /\ WF_allVars(SetPresence)

FairPresence == PresenceSpec /\ PresenceFairness

----------------------------------------------------------------------------
(* Properties.                                                             *)

(* Rows of connections that are over.                                      *)
Leftover == {s \in rows : server[s] \notin {"put", "up"}}

(* connect.ts:75-111, disconnect.ts, connections.ts: the handlers delete   *)
(* what they put, however their steps interleave with one another and with *)
(* broadcasts: a $connect that failed after its Put, and a $disconnect     *)
(* that never came, leave one row behind each at most, nothing else does.  *)
RowsHaveConnections == Cardinality(Leftover) <= faults

(* main.ts:102-120: however joins, leaves and snapshots were reordered,    *)
(* the panel ends up with the table's list once the client settles.        *)
PanelConverges == <>[](shown = Cardinality(rows))

(* connections.ts:34: "One row per connected control-ui session".          *)
OpenConnectionHasRow ==
  \A s \in Sockets : Active(s) /\ sock[s] = "open" => s \in rows
============================================================================
