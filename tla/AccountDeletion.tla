-------------------------- MODULE AccountDeletion --------------------------
(***************************************************************************)
(* Sessions and the end of an account (cascade.ts, and the routes of       *)
(* index.ts and store.ts that log in and out, change the password or the   *)
(* address, and delete).  One user name with one room of its own; every    *)
(* request is an invocation of its own, which may stop at any await, and   *)
(* nothing locks the account while its rows are deleted one by one.        *)
(*                                                                         *)
(* Abstracted: a row is its table and its key.  A password is a number, a  *)
(* new one at every registration and change.  A scan is one page.  A token *)
(* that expires is one that logs out.                                      *)
(***************************************************************************)
EXTENDS Naturals

CONSTANTS
  Requests,      \* concurrent invocations
  SessionTokens, \* session tokens, fresh UUIDs
  Pictures,      \* assets of the own room, each with its object
  Guests,        \* members of the own room besides its owner, by invite
  Me,            \* the owner's key in the memberships of the own room
  MaxPasswords,  \* bound on the passwords chosen
  MaxRequests,   \* bound on the requests made
  FirstToken,    \* the token of the session it starts with
  NoUser, NoWork, NoToken

ASSUME CountAssumption == MaxPasswords \in Nat \ {0} /\ MaxRequests \in Nat
ASSUME MeAssumption == Me \notin Guests /\ FirstToken \in SessionTokens

VARIABLES
  user,       \* the row of the account, or NoUser
  rows,       \* everything else that belongs to it: <<table, key>>
  issued,     \* history: issued[t] is the password token t was given for, or 0
  work,       \* work[h]: what invocation h does next, or NoWork
  joining,    \* guests who have redeemed an invite and have no membership yet
  passwords,  \* passwords chosen so far
  requests,   \* requests made so far
  overtaken,  \* history: tokens given to an invocation that had been overtaken
  late,       \* history: rows written when a deletion had been past them
  cut         \* history: "room": a deletion stopped between the owner's
              \* membership and the room; "tokens": a revocation stopped

counters == <<passwords, requests>>
history == <<overtaken, late, cut>>
deletionVars == <<user, rows, issued, work, joining, counters, history>>

----------------------------------------------------------------------------
Of(kind, keys) == {kind} \X keys

Belongings ==
  Of("picture", Pictures) \cup Of("object", Pictures) \cup Of("invite", Guests)
    \cup Of("member", Guests \cup {Me}) \cup Of("room", {Me})
    \cup Of("elsewhere", {Me}) \cup Of("link", {Me}) \cup Of("session", SessionTokens)

User == [password : 0..MaxPasswords, whole : BOOLEAN]

CascadeStages ==
  {"memberships", "walk", "pictures", "invites", "members", "sessions", "links"}

Stages ==
  CascadeStages \cup {"login", "change", "revoke", "revoking", "address", "mail", "touch"}

Work == [step : Stages, mine : SUBSET Belongings, list : SUBSET Belongings,
         password : 0..MaxPasswords, token : SessionTokens \cup {NoToken},
         overtaken : BOOLEAN]

ASSUME SentinelAssumption == NoUser \notin User /\ NoWork \notin Work

DeletionTypeOK ==
  /\ user \in User \cup {NoUser}
  /\ rows \subseteq Belongings
  /\ issued \in [SessionTokens -> 0..MaxPasswords]
  /\ work \in [Requests -> Work \cup {NoWork}]
  /\ joining \subseteq Guests
  /\ passwords \in 0..MaxPasswords
  /\ requests \in 0..MaxRequests
  /\ overtaken \subseteq SessionTokens
  /\ late \subseteq Belongings
  /\ cut \subseteq {"room", "tokens"}

Rows(kinds) == {x \in rows : x[1] \in kinds}

LoggedIn(t) == <<"session", t>> \in rows

(* A verified account, logged in once, with its room in use, and a mod     *)
(* elsewhere.                                                              *)
DeletionInit ==
  /\ user = [password |-> 1, whole |-> TRUE]
  /\ issued = [t \in SessionTokens |-> IF t = FirstToken THEN 1 ELSE 0]
  /\ rows = Belongings \ ( Of("member", Guests) \cup Of("link", {Me})
                            \cup Of("session", SessionTokens \ {FirstToken}) )
  /\ work = [h \in Requests |-> NoWork]
  /\ joining = {}
  /\ passwords = 1
  /\ requests = 0
  /\ overtaken = {}
  /\ late = {}
  /\ cut = {}

----------------------------------------------------------------------------
(* Invocations.                                                            *)

Does(h, step) == work[h] # NoWork /\ work[h].step = step

Started(step, t) ==
  [step |-> step, mine |-> {}, list |-> {}, token |-> t, overtaken |-> FALSE,
   password |-> IF user = NoUser THEN 0 ELSE user.password]

Start(h, w) ==
  /\ work[h] = NoWork
  /\ requests < MaxRequests
  /\ requests' = requests + 1
  /\ work' = [work EXCEPT ![h] = w]

GoOn(h, step, list) == work' = [work EXCEPT ![h].step = step, ![h].list = list]
End(h) == work' = [work EXCEPT ![h] = NoWork]

(* Bookkeeping: h goes on with list, the others are overtaken.             *)
Overtake(h, w) ==
  work' = [g \in Requests |->
             IF g = h THEN w
             ELSE IF work[g] = NoWork THEN NoWork ELSE [work[g] EXCEPT !.overtaken = TRUE]]

Deleting(h) == work[h] # NoWork /\ work[h].step \in CascadeStages

(* Rows written while a deletion runs, or after one, may be missed by it.  *)
LateWith(new) ==
  IF \/ user = NoUser \/ <<"member", Me>> \notin rows
     \/ \E h \in Requests : Deleting(h) /\ work[h].step # "memberships"
    THEN late \cup (new \ rows) ELSE late

----------------------------------------------------------------------------
(* POST /auth/login: the password is checked against the row just read.    *)
Login(h) ==
  /\ user # NoUser
  /\ user.password # 0
  /\ Start(h, Started("login", NoToken))
  /\ UNCHANGED <<user, rows, issued, joining, passwords, history>>

(* createSession, the last call of the requests that log in.               *)
CreateSession(h, t) ==
  /\ \/ Does(h, "login")
     \/ Does(h, "revoking") /\ work[h].list = {}
  /\ issued[t] = 0
  /\ rows' = rows \cup {<<"session", t>>}
  /\ issued' = [issued EXCEPT ![t] = work[h].password]
  /\ overtaken' = IF work[h].overtaken THEN overtaken \cup {t} ELSE overtaken
  /\ late' = LateWith({<<"session", t>>})
  /\ End(h)
  /\ UNCHANGED <<user, joining, counters, cut>>

(* POST /auth/register: the row under the condition that there is none.    *)
RegisterAgain(h) ==
  /\ user = NoUser
  /\ passwords < MaxPasswords
  /\ passwords' = passwords + 1
  /\ user' = [password |-> passwords + 1, whole |-> TRUE]
  /\ work[h] = NoWork
  /\ requests < MaxRequests
  /\ requests' = requests + 1
  /\ Overtake(h, [Started("login", NoToken) EXCEPT !.password = passwords + 1])
  /\ UNCHANGED <<rows, issued, joining, history>>

(* POST /auth/logout, and the expiry of the row.                           *)
Logout(t) ==
  /\ LoggedIn(t)
  /\ rows' = rows \ {<<"session", t>>}
  /\ UNCHANGED <<user, issued, work, joining, counters, history>>

(* GET /auth/session reads the session and the account ...                 *)
CheckSession(h, t) ==
  /\ LoggedIn(t)
  /\ user # NoUser
  /\ Start(h, Started("touch", t))
  /\ UNCHANGED <<user, rows, issued, joining, passwords, history>>

(* Mutant of TouchSession: without attribute_exists(sessionToken).         *)
TouchAnyway(h) ==
  /\ Does(h, "touch")
  /\ rows' = rows \cup {<<"session", work[h].token>>}
  /\ End(h)
  /\ UNCHANGED <<user, issued, joining, counters, history>>

(* ... and then extends the session, if it is still there.                 *)
TouchSession(h) ==
  /\ Does(h, "touch")
  /\ End(h)
  /\ UNCHANGED <<user, rows, issued, joining, counters, history>>

----------------------------------------------------------------------------
(* POST /auth/change-password: session and password are checked ...        *)
ChangePassword(h, t) ==
  /\ LoggedIn(t)
  /\ user # NoUser
  /\ user.password # 0
  /\ Start(h, Started("change", NoToken))
  /\ UNCHANGED <<user, rows, issued, joining, passwords, history>>

(* ... the new one is written (an UpdateItem: into an empty row if need    *)
(* be) ...                                                                 *)
UpdateAccountPassword(h) ==
  /\ Does(h, "change")
  /\ passwords < MaxPasswords
  /\ passwords' = passwords + 1
  /\ user' = [password |-> passwords + 1, whole |-> user # NoUser /\ user.whole]
  /\ Overtake(h, [work[h] EXCEPT !.step = "revoke", !.password = passwords + 1])
  /\ UNCHANGED <<rows, issued, joining, requests, history>>

(* Mutant of RevokeSessions: nothing is found.                             *)
RevokeNone(h) ==
  /\ Does(h, "revoke")
  /\ GoOn(h, "revoking", {})
  /\ UNCHANGED <<user, rows, issued, joining, counters, history>>

(* ... and every session found is deleted, before one is created.          *)
RevokeSessions(h) ==
  /\ Does(h, "revoke")
  /\ GoOn(h, "revoking", Rows({"session"}))
  /\ UNCHANGED <<user, rows, issued, joining, counters, history>>

(* POST /auth/change-email.                                                *)
ChangeAddress(h, t) ==
  /\ LoggedIn(t)
  /\ Start(h, Started("address", NoToken))
  /\ UNCHANGED <<user, rows, issued, joining, passwords, history>>

(* Mutant of WriteAddress: the row is put anew, without the password.      *)
WriteAddressAnew(h) ==
  /\ Does(h, "address")
  /\ user' = [whole |-> FALSE]
  /\ GoOn(h, "mail", {})
  /\ UNCHANGED <<rows, issued, joining, counters, history>>

(* updateAccountEmail: an UpdateItem too.                                  *)
WriteAddress(h) ==
  /\ Does(h, "address")
  /\ user' = IF user = NoUser THEN [password |-> 0, whole |-> FALSE] ELSE user
  /\ GoOn(h, "mail", {})
  /\ UNCHANGED <<rows, issued, joining, counters, history>>

WriteLink(h) ==
  /\ Does(h, "mail")
  /\ rows' = rows \cup {<<"link", Me>>}
  /\ late' = LateWith({<<"link", Me>>})
  /\ End(h)
  /\ UNCHANGED <<user, issued, joining, counters, overtaken, cut>>

----------------------------------------------------------------------------
(* What the members of the own room do meanwhile.                          *)

(* A connection outlives the membership it was opened with: asset:add,     *)
(* whose getOrCreateRoom makes the room if it is gone.                     *)
AddPicture(p) ==
  /\ <<"picture", p>> \notin rows
  /\ LET new == {<<"picture", p>>, <<"object", p>>, <<"room", Me>>} IN
       rows' = rows \cup new /\ late' = LateWith(new)
  /\ UNCHANGED <<user, issued, work, joining, counters, overtaken, cut>>

(* An invite is redeemed under the condition that it exists ...            *)
RedeemVoucher(g) ==
  /\ <<"invite", g>> \in rows
  /\ <<"member", g>> \notin rows
  /\ joining' = joining \cup {g}
  /\ UNCHANGED <<user, rows, issued, work, counters, history>>

(* ... and the membership is put, without one.                             *)
Join(g) ==
  /\ g \in joining
  /\ joining' = joining \ {g}
  /\ rows' = rows \cup {<<"member", g>>}
  /\ late' = LateWith({<<"member", g>>})
  /\ UNCHANGED <<user, issued, work, counters, overtaken, cut>>

----------------------------------------------------------------------------
(* DELETE /auth/account, and deleteAccountCascade.                         *)

DeleteAccount(h, t) ==
  /\ LoggedIn(t)
  /\ user # NoUser
  /\ user.password # 0
  /\ Start(h, Started("memberships", NoToken))
  /\ UNCHANGED <<user, rows, issued, joining, passwords, history>>

ListMemberships(h) ==
  /\ Does(h, "memberships")
  /\ work' = [work EXCEPT
       ![h].step = "walk",
       ![h].mine = Rows({"elsewhere"}) \cup (rows \cap {<<"member", Me>>})]
  /\ UNCHANGED <<user, rows, issued, joining, counters, history>>

(* A membership of somebody else's room.                                   *)
LeaveRoom(h) ==
  /\ Does(h, "walk")
  /\ <<"elsewhere", Me>> \in work[h].mine
  /\ rows' = rows \ {<<"elsewhere", Me>>}
  /\ work' = [work EXCEPT ![h].mine = @ \ {<<"elsewhere", Me>>}]
  /\ UNCHANGED <<user, issued, joining, counters, history>>

(* deleteOwnedRoom, one list after the other; the next is read when the    *)
(* last is done.                                                           *)
ListRoomAssets(h) ==
  /\ Does(h, "walk")
  /\ <<"member", Me>> \in work[h].mine
  /\ work' = [work EXCEPT
       ![h].step = "pictures",
       ![h].mine = @ \ {<<"member", Me>>},
       ![h].list = {x \in Belongings :
                      x[1] \in {"picture", "object"} /\ <<"picture", x[2]>> \in rows}]
  /\ UNCHANGED <<user, rows, issued, joining, counters, history>>

ListInvites(h) ==
  /\ Does(h, "pictures")
  /\ work[h].list = {}
  /\ GoOn(h, "invites", Rows({"invite"}))
  /\ UNCHANGED <<user, rows, issued, joining, counters, history>>

ListMembers(h) ==
  /\ Does(h, "invites")
  /\ work[h].list = {}
  /\ GoOn(h, "members", Rows({"member"}))
  /\ UNCHANGED <<user, rows, issued, joining, counters, history>>

EraseRoom(h) ==
  /\ Does(h, "members")
  /\ work[h].list = {}
  /\ rows' = rows \ {<<"room", Me>>}
  /\ GoOn(h, "walk", {})
  /\ UNCHANGED <<user, issued, joining, counters, history>>

(* One row of the list; the objects go before the assets.                  *)
EraseListed(h, x) ==
  /\ Deleting(h) \/ Does(h, "revoking")
  /\ x \in work[h].list
  /\ x[1] = "picture" => \A y \in work[h].list : y[1] # "object"
  /\ rows' = rows \ {x}
  /\ work' = [work EXCEPT ![h].list = @ \ {x}]
  /\ UNCHANGED <<user, issued, joining, counters, history>>

(* deleteS3Object catches its failure: the object stays.                   *)
KeepObject(h, x) ==
  /\ Does(h, "pictures")
  /\ x \in work[h].list
  /\ x[1] = "object"
  /\ work' = [work EXCEPT ![h].list = @ \ {x}]
  /\ late' = late \cup {x}
  /\ UNCHANGED <<user, rows, issued, joining, counters, overtaken, cut>>

(* Mutant of ScanSessions: before the rooms have been walked.              *)
ScanSessionsFirst(h) ==
  /\ Does(h, "walk")
  /\ GoOn(h, "sessions", Rows({"session"}))
  /\ UNCHANGED <<user, rows, issued, joining, counters, history>>

ScanSessions(h) ==
  /\ Does(h, "walk")
  /\ work[h].mine = {}
  /\ GoOn(h, "sessions", Rows({"session"}))
  /\ UNCHANGED <<user, rows, issued, joining, counters, history>>

ScanLinks(h) ==
  /\ Does(h, "sessions")
  /\ work[h].list = {}
  /\ GoOn(h, "links", Rows({"link"}))
  /\ UNCHANGED <<user, rows, issued, joining, counters, history>>

EraseAccount(h) ==
  /\ Does(h, "links")
  /\ work[h].list = {}
  /\ user' = NoUser
  /\ Overtake(h, NoWork)
  /\ UNCHANGED <<rows, issued, joining, counters, history>>

(* A call throws, or the invocation times out; nothing is undone.          *)
Stop(h) ==
  /\ work[h] # NoWork
  /\ cut' = cut \cup (IF Does(h, "members") /\ <<"member", Me>> \notin rows THEN {"room"} ELSE {})
                \cup (IF Does(h, "revoke") \/ Does(h, "revoking") THEN {"tokens"} ELSE {})
  /\ End(h)
  /\ UNCHANGED <<user, rows, issued, joining, counters, overtaken, late>>

----------------------------------------------------------------------------
Answer(h) ==
  \/ Login(h) \/ RegisterAgain(h)
  \/ \E t \in SessionTokens :
       \/ CreateSession(h, t) \/ CheckSession(h, t) \/ ChangePassword(h, t)
       \/ ChangeAddress(h, t) \/ DeleteAccount(h, t)
  \/ TouchSession(h)
  \/ UpdateAccountPassword(h) \/ RevokeSessions(h) \/ WriteAddress(h) \/ WriteLink(h)

Cascade(h) ==
  \/ ListMemberships(h) \/ LeaveRoom(h) \/ ListRoomAssets(h) \/ ListInvites(h)
  \/ ListMembers(h) \/ EraseRoom(h) \/ ScanSessions(h) \/ ScanLinks(h) \/ EraseAccount(h)
  \/ \E x \in Belongings : EraseListed(h, x) \/ KeepObject(h, x)

DeletionNext ==
  \/ \E h \in Requests : Answer(h) \/ Cascade(h) \/ Stop(h)
  \/ \E t \in SessionTokens : Logout(t)
  \/ \E p \in Pictures : AddPicture(p)
  \/ \E g \in Guests : RedeemVoucher(g) \/ Join(g)

DeletionSpec == DeletionInit /\ [][DeletionNext]_deletionVars

----------------------------------------------------------------------------
(* Properties.                                                             *)

(* index.ts:274-278: a token given for an earlier password does not        *)
(* outlive the change, nor the account (a later account of that name would *)
(* inherit it), unless the request it was given to had been overtaken by   *)
(* the change, or came behind a deletion's scan, or the revocation stopped *)
(* half-way.                                                               *)
OldTokensEnd ==
  \A t \in SessionTokens :
    (LoggedIn(t) /\ (user = NoUser \/ issued[t] # user.password)) =>
      \/ t \in overtaken \/ <<"session", t>> \in late
      \/ "tokens" \in cut
      \/ \E h \in Requests :
           Does(h, "revoke") \/ (work[h] # NoWork /\ <<"session", t>> \in work[h].list)

(* store.ts:117-122: a session that has ended is never resurrected by the  *)
(* renewal that found it alive.                                            *)
SessionsStayEnded ==
  [][\A t \in SessionTokens :
       (issued[t] # 0 /\ ~LoggedIn(t)) => ~LoggedIn(t)']_deletionVars

(* cascade.ts:16-21: the account's row goes last, so that whatever stops   *)
(* half-way can be retried: once it is gone nothing of the account is left *)
(* but what was written behind a deletion's back, and the room with its    *)
(* members if a deletion stopped when the owner's membership was gone.     *)
NothingLeft ==
  (user = NoUser /\ ~\E h \in Requests : Deleting(h)) =>
    \A x \in rows : x \in late \/ ("room" \in cut /\ x[1] \in {"member", "room"})
============================================================================
