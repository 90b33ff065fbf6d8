----------------------------- MODULE MCSessions -----------------------------
(* Model checking of Presence (one swap or reconnect, with the sockets it  *)
(* takes and one to spare) and of RoomSessions.  A behaviour is of one of  *)
(* the two, the variables of the other keep their initial values.  The     *)
(* sockets are interchangeable, so it does not matter which is the first.  *)
EXTENDS Presence, RoomSessions

VARIABLE part

unionVars == <<part, allVars, sessionVars>>

UnionInit ==
  /\ part \in {"presence", "sessions"}
  /\ PresenceInit
  /\ pending = CHOOSE s \in Sockets : TRUE
  /\ SessionsInit

UnionNext ==
  /\ UNCHANGED part
  /\ \/ part = "presence" /\ PresenceNext /\ UNCHANGED sessionVars
     \/ part = "sessions" /\ SessionsNext /\ UNCHANGED allVars

(* The fairness of each part, said so that it asks nothing of the other.   *)
UnionFairness ==
  /\ \A s \in Sockets : WF_allVars(part = "presence" /\ AnnounceJoined(s))
  /\ \A s \in Sockets : WF_allVars(part = "presence" /\ DeleteConnection(s))
  /\ \A s \in Sockets : WF_allVars(part = "presence" /\ AnnounceLeft(s))
  /\ WF_allVars(part = "presence" /\ \E m \in news : AddPresence(m) \/ RemovePresence(m))
  /\ WF_allVars(part = "presence" /\ ListPresence)
  /\ WF_allVars(part = "presence" /\ SetPresence)
  /\ WF_sessionVars(part = "sessions" /\ ListArrives)
  /\ WF_sessionVars(part = "sessions" /\ RefetchArrives)
  /\ WF_sessionVars(part = "sessions" /\ PollSession)
  /\ \A r \in Chambers : WF_sessionVars(part = "sessions" /\ OwnerArrives(r))

UnionSpec == UnionInit /\ [][UnionNext]_unionVars /\ UnionFairness

(* Connections and room sessions are well typed.                           *)
VisitTypeOK == PresenceTypeOK /\ SessionsTypeOK

(* However it was replaced, a connection's presence comes out right, and a *)
(* session that is over ends all of its page's rooms.                      *)
VisitsSettle == PanelConverges /\ LapseIsNoticed
============================================================================
