------------------------------ MODULE Accounts ------------------------------
(***************************************************************************)
(* Accounts, e-mail verification, personal rooms, memberships and invites  *)
(* (services/accounts/src/index.ts, store.ts).  Every request runs in a    *)
(* Lambda invocation of its own; what it reads in one call and writes in a *)
(* later one, other invocations may have changed in between.               *)
(*                                                                         *)
(* Left out: passwords and sessions (a request comes from an account that  *)
(* exists) and the deletion of accounts.  A link or an invite that expires *)
(* is one that is not used.                                                *)
(***************************************************************************)
EXTENDS Naturals, FiniteSets

CONSTANTS
  Users,       \* usernames
  Emails,      \* addresses
  Rooms,       \* room ids, fresh UUIDs
  Tokens,      \* verification tokens, fresh UUIDs
  Invites,     \* invite tokens, fresh UUIDs
  Handlers,    \* concurrent Lambda invocations
  None,        \* no account, no address, no room, ...
  Skips        \* values SKIP_EMAIL_VERIFICATION takes from deployment to deployment

ASSUME NoneAssumption ==
  /\ None \notin Users \cup Emails \cup Rooms \cup Tokens \cup Invites
ASSUME SkipAssumption == Skips \subseteq BOOLEAN /\ Skips # {}

VARIABLES
  account,     \* account[u]: the row of u, or None
  link,        \* link[t]: the verification of token t, or None before it is made
  role,        \* role[u][r]: the membership row: "owner", "mod" or "none"
  invite,      \* invite[i]: the invite, or None before it is created
  job,         \* job[h]: what invocation h does next, or None
  failed       \* history: some invocation has failed half-way

vars == <<account, link, role, invite, job, failed>>

OrNone(S) == S \cup {None}

Account == [email : OrNone(Emails), emailVerified : BOOLEAN,
            personalRoomId : OrNone(Rooms)]
Link == [username : Users, email : Emails, present : BOOLEAN]
Invite == [room : Rooms, redeemedBy : OrNone(Users), present : BOOLEAN]

Steps == {"create", "email", "mail", "account", "owner", "mark", "own", "discard",
          "redeem", "member", "attach", "revoke"}

Job == [next : Steps, user : Users, email : OrNone(Emails),
        token : OrNone(Tokens), invite : OrNone(Invites), room : OrNone(Rooms)]

ASSUME RowAssumption == None \notin Account \cup Link \cup Invite \cup Job

TypeOK ==
  /\ account \in [Users -> OrNone(Account)]
  /\ link \in [Tokens -> OrNone(Link)]
  /\ role \in [Users -> [Rooms -> {"owner", "mod", "none"}]]
  /\ invite \in [Invites -> OrNone(Invite)]
  /\ job \in [Handlers -> OrNone(Job)]
  /\ failed \in BOOLEAN

Init ==
  /\ account = [u \in Users |-> None]
  /\ link = [t \in Tokens |-> None]
  /\ role = [u \in Users |-> [r \in Rooms |-> "none"]]
  /\ invite = [i \in Invites |-> None]
  /\ job = [h \in Handlers |-> None]
  /\ failed = FALSE

----------------------------------------------------------------------------
(* Invocations.                                                            *)

Blank(next, u) ==
  [next |-> next, user |-> u, email |-> None, token |-> None, invite |-> None,
   room |-> None]

Begin(h, j) == job[h] = None /\ job' = [job EXCEPT ![h] = j]
At(h, step) == job[h] # None /\ job[h].next = step
Continue(h, step) == job' = [job EXCEPT ![h].next = step]
Return(h) == job' = [job EXCEPT ![h] = None]

Fresh(r) ==
  \A u \in Users : account[u] # None => account[u].personalRoomId # r

(* getEmailOwner: the accounts that have this address verified.            *)
EmailOwners(e) ==
  {u \in Users : account[u] # None /\ account[u].email = e /\ account[u].emailVerified}

(* It returns the first it finds, in the order of the index.               *)
Found(e) == IF EmailOwners(e) = {} THEN {None} ELSE EmailOwners(e)

(* What follows once an address is set: its verification, by mail or not.  *)
Verification == {IF skip THEN "mark" ELSE "mail" : skip \in Skips}

VerifyNext(h) ==
  IF job[h].email = None THEN Return(h)
  ELSE \E step \in Verification : Continue(h, step)

----------------------------------------------------------------------------
(* POST /auth/register: nobody may own the address; then the row, under    *)
(* the condition that there is none.                                       *)
Register(h, u, e) ==
  /\ e = None \/ EmailOwners(e) = {}
  /\ Begin(h, [Blank("create", u) EXCEPT !.email = e])
  /\ UNCHANGED <<account, link, role, invite, failed>>

(* Mutant of CreateAccount: the row without emailVerified.                 *)
CreateUnflagged(h) ==
  /\ At(h, "create")
  /\ LET u == job[h].user IN
       /\ account[u] = None
       /\ account' = [account EXCEPT ![u] = [email |-> job[h].email, personalRoomId |-> None]]
       /\ VerifyNext(h)
  /\ UNCHANGED <<link, role, invite, failed>>

CreateAccount(h) ==
  /\ At(h, "create")
  /\ LET u == job[h].user IN
       IF account[u] = None
         THEN /\ account' = [account EXCEPT ![u] =
                   [email |-> job[h].email, emailVerified |-> FALSE,
                    personalRoomId |-> None]]
              /\ VerifyNext(h)
         ELSE Return(h) /\ UNCHANGED account
  /\ UNCHANGED <<link, role, invite, failed>>

(* POST /auth/change-email                                                 *)
ChangeEmail(h, u, e) ==
  /\ account[u] # None
  /\ e # None => \E owner \in Found(e) : owner \in {None, u}
  /\ Begin(h, [Blank("email", u) EXCEPT !.email = e])
  /\ UNCHANGED <<account, link, role, invite, failed>>

UpdateAccountEmail(h) ==
  /\ At(h, "email")
  /\ account' = [account EXCEPT ![job[h].user] =
                    [email |-> job[h].email, emailVerified |-> FALSE,
                     personalRoomId |-> @.personalRoomId]]
  /\ VerifyNext(h)
  /\ UNCHANGED <<link, role, invite, failed>>

(* POST /auth/resend-verification                                          *)
Resend(h, u) ==
  /\ account[u] # None
  /\ account[u].email # None
  /\ ~account[u].emailVerified
  /\ \E step \in Verification :
       Begin(h, [Blank(step, u) EXCEPT !.email = account[u].email])
  /\ UNCHANGED <<account, link, role, invite, failed>>

(* createVerification; the mail with the token goes out afterwards.        *)
CreateVerification(h, t) ==
  /\ At(h, "mail")
  /\ link[t] = None
  /\ link' = [link EXCEPT ![t] = [username |-> job[h].user, email |-> job[h].email,
                                  present |-> TRUE]]
  /\ Return(h)
  /\ UNCHANGED <<account, role, invite, failed>>

----------------------------------------------------------------------------
(* GET /auth/verify: the link must be there, and for the account's current *)
(* address, and nobody else may own that; then the room, its owner, and    *)
(* only then the end of the link.                                          *)
Verify(h, t) ==
  /\ link[t] # None
  /\ link[t].present
  /\ Begin(h, [Blank("account", link[t].username)
                EXCEPT !.email = link[t].email, !.token = t])
  /\ UNCHANGED <<account, link, role, invite, failed>>

ReadAccount(h) ==
  /\ At(h, "account")
  /\ Continue(h, IF account[job[h].user].email = job[h].email THEN "owner" ELSE "discard")
  /\ UNCHANGED <<account, link, role, invite, failed>>

CheckOwner(h) ==
  /\ At(h, "owner")
  /\ \E owner \in Found(job[h].email) :
       Continue(h, IF owner \in {None, job[h].user} THEN "mark" ELSE "discard")
  /\ UNCHANGED <<account, link, role, invite, failed>>

(* markEmailVerified returns the room, whose owner's row comes next.        *)
WriteOwnerNext(h, r) ==
  job' = [job EXCEPT ![h] =
            [Blank("own", job[h].user) EXCEPT !.token = job[h].token, !.room = r]]

(* Mutant of MarkEmailVerified: without attribute_not_exists(...).         *)
MarkAnew(h, r) ==
  /\ At(h, "mark")
  /\ Fresh(r)
  /\ account' = [account EXCEPT ![job[h].user] =
                    [email |-> @.email, emailVerified |-> TRUE, personalRoomId |-> r]]
  /\ WriteOwnerNext(h, r)
  /\ UNCHANGED <<link, role, invite, failed>>

(* markEmailVerified: the first time a room is assigned, later kept (the   *)
(* condition that fails, the second write and the read of the room are one *)
(* step: nothing changes a room in between).  It does not look at the      *)
(* address again.                                                          *)
MarkEmailVerified(h, r) ==
  /\ At(h, "mark")
  /\ LET u == job[h].user
         own == account[u].personalRoomId
     IN  /\ IF own = None THEN Fresh(r) ELSE r = own
         /\ account' = [account EXCEPT ![u] =
                           [email |-> @.email, emailVerified |-> TRUE,
                            personalRoomId |-> r]]
         /\ WriteOwnerNext(h, r)
  /\ UNCHANGED <<link, role, invite, failed>>

(* Mutant of PutOwner: skipped on a second click.                          *)
PutOwnerNot(h) ==
  /\ At(h, "own")
  /\ IF job[h].token = None THEN Return(h) ELSE Continue(h, "discard")
  /\ UNCHANGED <<account, role, link, invite, failed>>

PutOwner(h) ==
  /\ At(h, "own")
  /\ role' = [role EXCEPT ![job[h].user][job[h].room] = "owner"]
  /\ IF job[h].token = None THEN Return(h) ELSE Continue(h, "discard")
  /\ UNCHANGED <<account, link, invite, failed>>

DeleteVerification(h) ==
  /\ At(h, "discard")
  /\ link' = [link EXCEPT ![job[h].token].present = FALSE]
  /\ Return(h)
  /\ UNCHANGED <<account, role, invite, failed>>

----------------------------------------------------------------------------
(* POST, DELETE /auth/rooms/{roomId}/invites: the owner's.  (Nothing that  *)
(* is modelled takes an owner's row away, so reading it and acting on it   *)
(* is one step.)                                                           *)
CreateInvite(u, r, i) ==
  /\ role[u][r] = "owner"
  /\ invite[i] = None
  /\ invite' = [invite EXCEPT ![i] = [room |-> r, redeemedBy |-> None, present |-> TRUE]]
  /\ UNCHANGED <<account, link, role, job, failed>>

DeleteInvite(u, i) ==
  /\ invite[i] # None
  /\ invite[i].present
  /\ role[u][invite[i].room] = "owner"
  /\ invite' = [invite EXCEPT ![i].present = FALSE]
  /\ UNCHANGED <<account, link, role, job, failed>>

(* POST /auth/invites/{inviteToken}/redeem                                 *)
Redeem(h, u, i) ==
  /\ account[u] # None
  /\ invite[i] # None
  /\ invite[i].present
  /\ Begin(h, [Blank("redeem", u) EXCEPT !.invite = i, !.room = invite[i].room])
  /\ UNCHANGED <<account, link, role, invite, failed>>

(* Mutant of RedeemInvite: no attribute_not_exists(redeemedBy).            *)
RedeemAgain(h) ==
  /\ At(h, "redeem")
  /\ invite[job[h].invite].present
  /\ invite' = [invite EXCEPT ![job[h].invite].redeemedBy = job[h].user]
  /\ Continue(h, "member")
  /\ UNCHANGED <<account, link, role, failed>>

RedeemInvite(h) ==
  /\ At(h, "redeem")
  /\ LET i == job[h].invite IN
       IF invite[i].present /\ invite[i].redeemedBy = None
         THEN /\ invite' = [invite EXCEPT ![i].redeemedBy = job[h].user]
              /\ Continue(h, "member")
         ELSE Return(h) /\ UNCHANGED invite
  /\ UNCHANGED <<account, link, role, failed>>

(* Mutant of ReadMembership: the owner's own row is not looked at.         *)
ReadMembershipNot(h) ==
  /\ At(h, "member")
  /\ Continue(h, "attach")
  /\ UNCHANGED <<account, link, role, invite, failed>>

ReadMembership(h) ==
  /\ At(h, "member")
  /\ IF role[job[h].user][job[h].room] = "owner" THEN Return(h) ELSE Continue(h, "attach")
  /\ UNCHANGED <<account, link, role, invite, failed>>

PutMod(h) ==
  /\ At(h, "attach")
  /\ role' = [role EXCEPT ![job[h].user][job[h].room] = "mod"]
  /\ Return(h)
  /\ UNCHANGED <<account, link, invite, failed>>

(* DELETE /auth/rooms/{roomId}/members/{username}                          *)
Revoke(h, u, r, target) ==
  /\ role[u][r] = "owner"
  /\ role[target][r] # "owner"
  /\ Begin(h, [Blank("revoke", target) EXCEPT !.room = r])
  /\ UNCHANGED <<account, link, role, invite, failed>>

DeleteMembership(h) ==
  /\ At(h, "revoke")
  /\ role' = [role EXCEPT ![job[h].user][job[h].room] = "none"]
  /\ Return(h)
  /\ UNCHANGED <<account, link, invite, failed>>

----------------------------------------------------------------------------
(* A call fails or the invocation times out; nothing is undone.            *)
Fail(h) ==
  /\ job[h] # None
  /\ Return(h)
  /\ failed' = TRUE
  /\ UNCHANGED <<account, link, role, invite>>

Request(h) ==
  \/ \E u \in Users, e \in OrNone(Emails) : Register(h, u, e) \/ ChangeEmail(h, u, e)
  \/ \E u \in Users : Resend(h, u)
  \/ \E t \in Tokens : Verify(h, t)
  \/ \E u \in Users, i \in Invites : Redeem(h, u, i)
  \/ \E u, target \in Users, r \in Rooms : Revoke(h, u, r, target)

Proceed(h) ==
  \/ CreateAccount(h) \/ UpdateAccountEmail(h) \/ ReadAccount(h) \/ CheckOwner(h)
  \/ PutOwner(h)
  \/ \E t \in Tokens : CreateVerification(h, t)
  \/ \E r \in Rooms : MarkEmailVerified(h, r)
  \/ DeleteVerification(h)
  \/ RedeemInvite(h) \/ ReadMembership(h) \/ PutMod(h) \/ DeleteMembership(h)

Next ==
  \/ \E h \in Handlers : Request(h) \/ Proceed(h) \/ Fail(h)
  \/ \E u \in Users, r \in Rooms, i \in Invites : CreateInvite(u, r, i)
  \/ \E u \in Users, i \in Invites : DeleteInvite(u, i)

Spec == Init /\ [][Next]_vars

----------------------------------------------------------------------------
(* Properties.                                                             *)

(* store.ts:250-255: however often and however concurrently links are      *)
(* clicked, an account's room, once assigned, is never another.            *)
RoomIsKept ==
  [][\A u \in Users :
       (account[u] # None /\ account[u].personalRoomId # None)
         => account'[u].personalRoomId = account[u].personalRoomId]_vars

(* index.ts:316-345: the room an account was given is its own, owner's row *)
(* included: it has the row, or the invocation that assigned the room is   *)
(* about to write it, or one has failed half-way.  Nobody else owns it.    *)
RoomIsOwned ==
  \A u \in Users, r \in Rooms :
    LET personal == account[u] # None /\ account[u].personalRoomId = r
    IN  /\ role[u][r] = "owner" => personal
        /\ (personal /\ role[u][r] # "owner") =>
             \/ failed
             \/ \E h \in Handlers : At(h, "own") /\ job[h].user = u /\ job[h].room = r

(* index.ts:522-528, 606-612: the owner's row is never deleted or turned   *)
(* into a mod's, though redeeming and revoking read it in one call and     *)
(* write in another: a room has its owner before it has an invite.         *)
OwnerStaysOwner ==
  [][\A u \in Users, r \in Rooms : role[u][r] = "owner" => role'[u][r] = "owner"]_vars

(* An account's room and a room's owner are for good.                      *)
OwnershipIsKept == RoomIsKept /\ OwnerStaysOwner

(* store.ts:428-431: an invite is redeemed once, even by requests that     *)
(* race: every mod has an invite of the room that is theirs alone.         *)
ModsWereInvited ==
  \A u \in Users, r \in Rooms :
    role[u][r] = "mod" =>
      \E i \in Invites :
        invite[i] # None /\ invite[i].room = r /\ invite[i].redeemedBy = u

(* index.ts:336-337: "One email per room -- authoritative check (also      *)
(* covers a race between two accounts verifying the same address)."        *)
OneOwnerPerEmail == \A e \in Emails : Cardinality(EmailOwners(e)) <= 1
============================================================================
