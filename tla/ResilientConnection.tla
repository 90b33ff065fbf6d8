------------------------- MODULE ResilientConnection -------------------------
(***************************************************************************)
(* The client's WebSocket (packages/ws-client/src/connection.ts): a live   *)
(* socket, an attempt to replace it (the proactive swap, or a retry after  *)
(* a drop), the timers that start attempts, and stop().                    *)
(*                                                                         *)
(* A socket's callbacks run one at a time, in any order the network allows.*)
(* The delays themselves (and retryAttempt, which only picks one) are left *)
(* out: a timer that is armed runs out at any later time.                  *)
(***************************************************************************)

CONSTANTS
  Sockets,     \* WebSocket objects; one is reused when its close is over
  None,        \* undefined
  TimersMayBeLost   \* the host may drop a pending retry timer

ASSUME NoneAssumption == None \notin Sockets
ASSUME LossAssumption == TimersMayBeLost \in BOOLEAN

VARIABLES
  sock,        \* sock[s]: "free", "connecting", "open" or "closing"
  socket,      \* the confirmed-live socket, or None
  pending,     \* the attempt in flight, or None
  retryTimer,  \* "none", "armed", or "lost": set, but never to run out
  reconnectTimer,   \* the proactive swap is scheduled
  closedByUs

vars == <<sock, socket, pending, retryTimer, reconnectTimer, closedByUs>>

TypeOK ==
  /\ sock \in [Sockets -> {"free", "connecting", "open", "closing"}]
  /\ socket \in Sockets \cup {None}
  /\ pending \in Sockets \cup {None}
  /\ retryTimer \in {"none", "armed", "lost"}
  /\ reconnectTimer \in BOOLEAN
  /\ closedByUs \in BOOLEAN

----------------------------------------------------------------------------
(* start(): the first attempt.                                             *)
Init ==
  /\ pending \in Sockets
  /\ sock = [s \in Sockets |-> IF s = pending THEN "connecting" ELSE "free"]
  /\ socket = None
  /\ retryTimer = "none"
  /\ reconnectTimer = FALSE
  /\ closedByUs = FALSE

(* Mutant of OpenAttempt: attempts are stacked.                            *)
OpenStacked ==
  \E s \in Sockets :
    /\ sock[s] = "free"
    /\ sock' = [sock EXCEPT ![s] = "connecting"]
    /\ pending' = s

(* open(): one attempt at a time.                                          *)
OpenAttempt ==
  IF pending # None
    THEN UNCHANGED <<sock, pending>>
    ELSE \E s \in Sockets :
           /\ sock[s] = "free"
           /\ sock' = [sock EXCEPT ![s] = "connecting"]
           /\ pending' = s

ScheduleRetry ==
  retryTimer' = IF retryTimer = "none" THEN "armed" ELSE retryTimer

(* Mutant of OnOpen: the next swap is not scheduled.                       *)
OnOpenOnce(s) ==
  /\ sock[s] = "connecting"
  /\ sock' = [t \in Sockets |-> IF t = s THEN "open"
                                ELSE IF t = socket /\ sock[t] = "open" THEN "closing"
                                ELSE sock[t]]
  /\ pending' = None
  /\ socket' = s
  /\ UNCHANGED <<retryTimer, reconnectTimer, closedByUs>>

(* onopen: the new socket goes live, then the old one is closed.           *)
OnOpen(s) ==
  /\ sock[s] = "connecting"
  /\ sock' = [t \in Sockets |-> IF t = s THEN "open"
                                ELSE IF t = socket /\ sock[t] = "open" THEN "closing"
                                ELSE sock[t]]
  /\ pending' = None
  /\ socket' = s
  /\ reconnectTimer' = TRUE
  /\ UNCHANGED <<retryTimer, closedByUs>>

(* Mutant of Break: onerror does not close.                                *)
BreakUnclosed(s) ==
  /\ sock[s] \in {"connecting", "open"}
  /\ sock' = [sock EXCEPT ![s] = "errored"]
  /\ UNCHANGED <<socket, pending, retryTimer, reconnectTimer, closedByUs>>

(* The handshake is refused or times out, or an open socket is dropped by  *)
(* the network or the gateway; onerror closes.  onclose is still to come.  *)
Break(s) ==
  /\ sock[s] \in {"connecting", "open"}
  /\ sock' = [sock EXCEPT ![s] = "closing"]
  /\ UNCHANGED <<socket, pending, retryTimer, reconnectTimer, closedByUs>>

(* Mutants of OnClose: a failed attempt is not retried (as it once was);   *)
(* a failed attempt is never forgotten.                                    *)
OnCloseNoRetry(s) ==
  /\ sock[s] = "closing"
  /\ sock' = [sock EXCEPT ![s] = "free"]
  /\ pending' = IF pending = s /\ ~closedByUs THEN None ELSE pending
  /\ IF socket = s /\ ~closedByUs
       THEN socket' = None /\ ScheduleRetry
       ELSE UNCHANGED <<socket, retryTimer>>
  /\ UNCHANGED <<reconnectTimer, closedByUs>>

OnCloseStillPending(s) ==
  /\ sock[s] = "closing"
  /\ sock' = [sock EXCEPT ![s] = "free"]
  /\ socket' = IF socket = s THEN None ELSE socket
  /\ IF s \in {pending, socket} THEN ScheduleRetry ELSE UNCHANGED retryTimer
  /\ UNCHANGED <<pending, reconnectTimer, closedByUs>>

OnClose(s) ==
  /\ sock[s] = "closing"
  /\ sock' = [sock EXCEPT ![s] = "free"]
  /\ \/ closedByUs /\ UNCHANGED <<socket, pending, retryTimer>>
     \/ /\ ~closedByUs /\ pending = s
        /\ pending' = None
        /\ ScheduleRetry
        /\ UNCHANGED socket
     \/ /\ ~closedByUs /\ pending # s /\ socket = s
        /\ socket' = None
        /\ ScheduleRetry
        /\ UNCHANGED pending
     \/ /\ ~closedByUs /\ pending # s /\ socket # s    \* a swapped-out socket
        /\ UNCHANGED <<socket, pending, retryTimer>>
  /\ UNCHANGED <<reconnectTimer, closedByUs>>

(* Mutant of RetryFires: stop() does not clear the timer.                  *)
RetryFiresStopped ==
  /\ retryTimer = "armed"
  /\ retryTimer' = "none"
  /\ OpenAttempt
  /\ UNCHANGED <<socket, reconnectTimer, closedByUs>>

RetryFires ==
  /\ ~closedByUs
  /\ retryTimer = "armed"
  /\ retryTimer' = "none"
  /\ OpenAttempt
  /\ UNCHANGED <<socket, reconnectTimer, closedByUs>>

ProactiveFires ==
  /\ ~closedByUs
  /\ reconnectTimer
  /\ reconnectTimer' = FALSE
  /\ OpenAttempt
  /\ UNCHANGED <<socket, retryTimer, closedByUs>>

(* The watchdog's guard reads the handle: a lost timer is still a handle.  *)
NothingUnderWay == socket = None /\ pending = None /\ retryTimer = "none"

WatchdogTick ==
  /\ ~closedByUs
  /\ IF NothingUnderWay THEN OpenAttempt ELSE UNCHANGED <<sock, pending>>
  /\ UNCHANGED <<socket, retryTimer, reconnectTimer, closedByUs>>

(* connection.ts:13-15: OBS's embedded browser can suspend or drop timers. *)
LoseRetryTimer ==
  /\ TimersMayBeLost
  /\ retryTimer = "armed"
  /\ retryTimer' = "lost"
  /\ UNCHANGED <<sock, socket, pending, reconnectTimer, closedByUs>>

(* stop(): clears the timers, closes both sockets.                         *)
Stop ==
  /\ ~closedByUs
  /\ closedByUs' = TRUE
  /\ sock' = [s \in Sockets |-> IF s \in {pending, socket} /\ sock[s] # "free"
                                  THEN "closing" ELSE sock[s]]
  /\ UNCHANGED <<socket, pending, retryTimer, reconnectTimer>>

Next ==
  \/ \E s \in Sockets : OnOpen(s) \/ Break(s) \/ OnClose(s)
  \/ RetryFires \/ ProactiveFires \/ WatchdogTick \/ LoseRetryTimer \/ Stop

Spec == Init /\ [][Next]_vars

(* Close events are delivered, timers that are armed run out, and among    *)
(* infinitely many attempts one gets through.                              *)
Fairness ==
  /\ \A s \in Sockets : WF_vars(OnClose(s))
  /\ SF_vars(\E s \in Sockets : OnOpen(s))
  /\ WF_vars(RetryFires)
  /\ WF_vars(WatchdogTick)

FairSpec == Spec /\ Fairness

----------------------------------------------------------------------------
(* Properties.                                                             *)

(* connection.ts:29-36: socket is only ever a socket that opened, pending  *)
(* only one that has not; every socket that is connecting or open is one   *)
(* of the two, so a swap leaks none and a room has at most two at a time.  *)
NoOrphans ==
  \A s \in Sockets :
    /\ sock[s] = "connecting" => pending = s
    /\ sock[s] = "open" => socket = s /\ pending # s

(* connection.ts:11-13: "The retry chain above should make this            *)
(* unreachable": until stop() there is a socket, an attempt or a retry.    *)
ChainUnbroken == ~closedByUs => ~NothingUnderWay

(* A live socket is always going to be replaced before the gateway's limit:*)
(* a swap is scheduled, is being attempted, or is to be retried.           *)
SwapIsComing ==
  ~closedByUs /\ socket # None
    => reconnectTimer \/ pending # None \/ retryTimer # "none"

(* connection.ts:11-36: whatever opens, closes, swaps and retries come in  *)
(* between, nothing is leaked, given up or left to run into the limit.     *)
ConnectionHolds == NoOrphans /\ ChainUnbroken /\ SwapIsComing

(* After stop() nothing comes to life again.                               *)
StoppedForGood ==
  [][closedByUs => /\ closedByUs'
                   /\ \A s \in Sockets :
                        sock'[s] \in {"connecting", "open"} => sock'[s] = sock[s]]_vars

(* connection.ts:96-111: whatever fails, a client that was not stopped     *)
(* gets a socket that opened, unless the host dropped a retry timer.       *)
Recovers ==
  [](~closedByUs => <>(socket # None \/ closedByUs \/ retryTimer = "lost"))

(* connection.ts:11-15: the watchdog is there because "a lost retry timer  *)
(* would otherwise leave the browser source looking broken".               *)
WatchdogRecovers == [](~closedByUs => <>(socket # None \/ closedByUs))
============================================================================
