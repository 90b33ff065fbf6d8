--------------------------- MODULE AccountsProofs ---------------------------
(***************************************************************************)
(* The accounts service, part by part: first the theorems of Accounts for  *)
(* every number of users, rooms, tokens, invites and invocations, then     *)
(* those of AccountDeletion for every number of requests, sessions, assets *)
(* and guests.                                                             *)
(***************************************************************************)
EXTENDS MCAccountsBackend, TLAPS

----------------------------------------------------------------------------
(* What an invocation has read still holds when it writes, because the     *)
(* tables only grow: accounts, links and invites stay (deleted links and   *)
(* invites are remembered as such), a room once assigned, a redeemer once  *)
(* named and an owner's row are never changed.                             *)
AccountsGrow ==
  \A u \in Users :
    account[u] # None =>
      /\ account'[u] # None
      /\ account[u].personalRoomId # None =>
           account'[u].personalRoomId = account[u].personalRoomId

LinksGrow == \A t \in Tokens : link[t] # None => link'[t] # None

InvitesGrow ==
  \A i \in Invites :
    invite[i] # None =>
      /\ invite'[i] # None
      /\ invite'[i].room = invite[i].room
      /\ invite[i].redeemedBy # None =>
           invite'[i].redeemedBy = invite[i].redeemedBy

OwnersGrow ==
  \A u \in Users, r \in Rooms : role[u][r] = "owner" => role'[u][r] = "owner"

Grows == AccountsGrow /\ LinksGrow /\ InvitesGrow /\ OwnersGrow

----------------------------------------------------------------------------
(* What an invocation may rely on at its next step.                        *)
Owned(r, u) == \E v \in Users \ {u} : role[v][r] = "owner"

JobMatches(j) ==
  /\ j.next \notin {"create", "revoke"} => account[j.user] # None
  /\ j.next = "mail" => j.email # None
  /\ j.next \in {"account", "owner", "discard"} => j.token # None
  /\ j.token # None => link[j.token] # None
  /\ j.next = "own" => j.room # None /\ account[j.user].personalRoomId = j.room
  /\ j.next \in {"redeem", "member", "attach"} =>
       j.invite # None /\ invite[j.invite] # None /\ j.room = invite[j.invite].room
  /\ j.next \in {"member", "attach"} => invite[j.invite].redeemedBy = j.user
  /\ j.next \in {"attach", "revoke"} => j.room # None /\ Owned(j.room, j.user)

JobsMatch == \A h \in Handlers : job[h] # None => JobMatches(job[h])

LinksHaveAccounts ==
  \A t \in Tokens : link[t] # None => account[link[t].username] # None

InvitesHaveOwners ==
  \A i \in Invites : invite[i] # None => \E v \in Users : role[v][invite[i].room] = "owner"

RoomsDiffer ==
  \A u, v \in Users :
    (account[u] # None /\ account[v] # None /\ account[u].personalRoomId # None
       /\ account[u].personalRoomId = account[v].personalRoomId) => u = v

AccountsInv == /\ TypeOK
        /\ JobsMatch
        /\ LinksHaveAccounts
        /\ InvitesHaveOwners
        /\ RoomsDiffer
        /\ RoomIsOwned
        /\ ModsWereInvited

(* The empty tables satisfy the invariant.                                 *)
THEOREM AccountsInitInv == Init => AccountsInv
  BY DEF Init, AccountsInv, TypeOK, OrNone, JobsMatch, LinksHaveAccounts, InvitesHaveOwners,
         RoomsDiffer, RoomIsOwned, ModsWereInvited

----------------------------------------------------------------------------
(* A job that matches the tables matches them when they have grown.        *)
LEMMA MatchesStill ==
  ASSUME NEW j \in Job, JobMatches(j), Grows
  PROVE  JobMatches(j)'
  <1> USE DEF Job, OrNone
  <1>1. (j.next \notin {"create", "revoke"} => account[j.user] # None)'
    BY DEF JobMatches, Grows, AccountsGrow
  <1>2. (j.token # None => link[j.token] # None)'
    BY DEF JobMatches, Grows, LinksGrow
  <1>3. (j.next = "own" => j.room # None /\ account[j.user].personalRoomId = j.room)'
    BY DEF JobMatches, Grows, AccountsGrow
  <1>4. (j.next \in {"redeem", "member", "attach"} =>
          j.invite # None /\ invite[j.invite] # None /\ j.room = invite[j.invite].room)'
    BY DEF JobMatches, Grows, InvitesGrow
  <1>5. (j.next \in {"member", "attach"} => invite[j.invite].redeemedBy = j.user)'
    BY NoneAssumption DEF JobMatches, Grows, InvitesGrow
  <1>6. (j.next \in {"attach", "revoke"} => j.room # None /\ Owned(j.room, j.user))'
    BY DEF JobMatches, Grows, OwnersGrow, Owned
  <1> QED BY <1>1, <1>2, <1>3, <1>4, <1>5, <1>6 DEF JobMatches

(* One invocation goes on, the others wait.                                *)
LEMMA JobsStillMatch ==
  ASSUME TypeOK, JobsMatch, Grows, NEW h \in Handlers, NEW j \in OrNone(Job),
         job' = [job EXCEPT ![h] = j], j # None => JobMatches(j)'
  PROVE  (job \in [Handlers -> OrNone(Job)] /\ JobsMatch)'
  <1>1. job' \in [Handlers -> OrNone(Job)]
    BY DEF TypeOK
  <1>2. ASSUME NEW g \in Handlers, (job[g] # None)'
        PROVE  JobMatches(job[g])'
    <2>1. CASE g = h
      <3>1. job'[g] = j
        BY <2>1 DEF TypeOK
      <3> QED BY <1>2, <3>1 DEF JobMatches, Owned
    <2>2. CASE g # h
      <3>1. job'[g] = job[g] /\ job[g] \in Job
        BY <1>2, <2>2 DEF TypeOK, OrNone
      <3>2. JobMatches(job[g])
        BY <1>2, <3>1 DEF JobsMatch
      <3>3. ASSUME NEW k \in Job, k = job[g] PROVE JobMatches(k)'
        <4>1. JobMatches(k)
          BY <3>2, <3>3
        <4> QED BY <4>1, MatchesStill
      <3> QED BY <3>1, <3>3 DEF JobMatches, Owned
    <2> QED BY <2>1, <2>2
  <1> QED BY <1>1, <1>2 DEF JobsMatch

----------------------------------------------------------------------------
(* Steps that leave the tables alone: a request arrives, an invocation     *)
(* reads, returns or fails.  The one that is to write an owner's row may   *)
(* only go if it fails.                                                    *)
LEMMA TablesAlone ==
  ASSUME AccountsInv, UNCHANGED <<account, link, role, invite>>,
         NEW h \in Handlers, NEW j \in OrNone(Job),
         job' = [job EXCEPT ![h] = j], j # None => JobMatches(j),
         UNCHANGED failed \/ failed' = TRUE,
         At(h, "own") => failed'
  PROVE  AccountsInv' /\ Grows
  <1>1. Grows
    BY DEF Grows, AccountsGrow, LinksGrow, InvitesGrow, OwnersGrow
  <1>2. (job \in [Handlers -> OrNone(Job)] /\ JobsMatch)'
    <2>1. j # None => JobMatches(j)'
      BY DEF JobMatches, Owned
    <2> QED BY <1>1, <2>1, JobsStillMatch DEF AccountsInv
  <1>3. TypeOK'
    BY <1>2 DEF AccountsInv, TypeOK
  <1>4. (LinksHaveAccounts /\ InvitesHaveOwners /\ RoomsDiffer /\ ModsWereInvited)'
    BY DEF AccountsInv, LinksHaveAccounts, InvitesHaveOwners, RoomsDiffer, ModsWereInvited
  <1>5. RoomIsOwned'
    <2>1. \A g \in Handlers : At(g, "own") /\ ~failed' => job'[g] = job[g]
      BY DEF AccountsInv, TypeOK
    <2> QED BY <2>1 DEF AccountsInv, RoomIsOwned, At, TypeOK
  <1> QED BY <1>1, <1>2, <1>3, <1>4, <1>5 DEF AccountsInv

(* The two say what the same request is about.                             *)
SameRequest(j, k) ==
  /\ j.user = k.user /\ j.email = k.email /\ j.token = k.token
  /\ j.invite = k.invite /\ j.room = k.room

LEMMA ContinueMakesJob ==
  ASSUME TypeOK, NEW h \in Handlers, job[h] # None, NEW step \in Steps,
         Continue(h, step)
  PROVE  \E j \in Job : /\ job' = [job EXCEPT ![h] = j]
                        /\ j.next = step /\ SameRequest(j, job[h])
  <1> DEFINE j == [next |-> step, user |-> job[h].user, email |-> job[h].email,
                   token |-> job[h].token, invite |-> job[h].invite,
                   room |-> job[h].room]
  <1>1. job[h] \in Job
    BY DEF TypeOK, OrNone
  <1>2. j \in Job
    BY <1>1 DEF Job
  <1>3. job' = [job EXCEPT ![h] = j]
    <2>1. [job[h] EXCEPT !.next = step] = j
      BY <1>1 DEF Job
    <2>2. job' = [job EXCEPT ![h] = [job[h] EXCEPT !.next = step]]
      BY DEF Continue, TypeOK
    <2> QED BY <2>1, <2>2
  <1> QED BY <1>2, <1>3 DEF SameRequest

(* Whatever the request, its invocation may rely on what it has read.      *)
LEMMA RequestMatches ==
  ASSUME AccountsInv, NEW h \in Handlers, Request(h)
  PROVE  /\ UNCHANGED <<account, link, role, invite, failed>>
         /\ job[h] = None
         /\ \E j \in Job : job' = [job EXCEPT ![h] = j] /\ JobMatches(j)
  <1> DEFINE Starts == /\ UNCHANGED <<account, link, role, invite, failed>>
                       /\ job[h] = None
                       /\ \E j \in Job : job' = [job EXCEPT ![h] = j] /\ JobMatches(j)
  <1>1. ASSUME NEW u \in Users, NEW e \in OrNone(Emails), Register(h, u, e)
        PROVE  Starts
    <2> DEFINE j == [Blank("create", u) EXCEPT !.email = e]
    <2>1. j \in Job /\ JobMatches(j)
      BY <1>1 DEF Blank, Job, Steps, OrNone, JobMatches
    <2> QED BY <1>1, <2>1 DEF Register, Begin
  <1>2. ASSUME NEW u \in Users, NEW e \in OrNone(Emails), ChangeEmail(h, u, e)
        PROVE  Starts
    <2> DEFINE j == [Blank("email", u) EXCEPT !.email = e]
    <2>1. j \in Job /\ JobMatches(j)
      BY <1>2 DEF ChangeEmail, Blank, Job, Steps, OrNone, JobMatches
    <2> QED BY <1>2, <2>1 DEF ChangeEmail, Begin
  <1>3. ASSUME NEW u \in Users, Resend(h, u)
        PROVE  Starts
    <2>1. account[u] \in Account
      BY <1>3 DEF Resend, AccountsInv, TypeOK, OrNone
    <2>2. PICK step \in Verification :
            Begin(h, [Blank(step, u) EXCEPT !.email = account[u].email])
      BY <1>3 DEF Resend
    <2> DEFINE j == [Blank(step, u) EXCEPT !.email = account[u].email]
    <2>3. step \in {"mark", "mail"}
      BY DEF Verification
    <2>4. j \in Job /\ JobMatches(j)
      BY <1>3, <2>1, <2>3 DEF Resend, Blank, Job, Steps, OrNone, Account, JobMatches
    <2> QED BY <1>3, <2>2, <2>4 DEF Resend, Begin
  <1>4. ASSUME NEW t \in Tokens, Verify(h, t)
        PROVE  Starts
    <2> DEFINE j == [Blank("account", link[t].username)
                       EXCEPT !.email = link[t].email, !.token = t]
    <2>1. link[t] \in Link /\ account[link[t].username] # None
      BY <1>4 DEF Verify, AccountsInv, TypeOK, OrNone, LinksHaveAccounts
    <2>2. j \in Job /\ JobMatches(j)
      BY <1>4, <2>1, NoneAssumption
      DEF Verify, Blank, Job, Steps, OrNone, Link, JobMatches
    <2> QED BY <1>4, <2>2 DEF Verify, Begin
  <1>5. ASSUME NEW u \in Users, NEW i \in Invites, Redeem(h, u, i)
        PROVE  Starts
    <2> DEFINE j == [Blank("redeem", u) EXCEPT !.invite = i, !.room = invite[i].room]
    <2>1. invite[i] \in Invite
      BY <1>5 DEF Redeem, AccountsInv, TypeOK, OrNone
    <2>2. j \in Job /\ JobMatches(j)
      BY <1>5, <2>1, NoneAssumption
      DEF Redeem, Blank, Job, Steps, OrNone, Invite, JobMatches
    <2> QED BY <1>5, <2>2 DEF Redeem, Begin
  <1>6. ASSUME NEW u \in Users, NEW target \in Users, NEW r \in Rooms,
               Revoke(h, u, r, target)
        PROVE  Starts
    <2> DEFINE j == [Blank("revoke", target) EXCEPT !.room = r]
    <2>1. j \in Job /\ JobMatches(j)
      BY <1>6, NoneAssumption
      DEF Revoke, Blank, Job, Steps, OrNone, JobMatches, Owned
    <2> QED BY <1>6, <2>1 DEF Revoke, Begin
  <1> QED BY <1>1, <1>2, <1>3, <1>4, <1>5, <1>6 DEF Request

(* The job of h is a job, and matches the tables.                          *)
LEMMA AtMatches ==
  ASSUME AccountsInv, NEW h \in Handlers, NEW step \in Steps, At(h, step)
  PROVE  /\ job[h] \in Job /\ job[h] # None /\ job[h].next = step
         /\ JobMatches(job[h])
  BY DEF AccountsInv, TypeOK, OrNone, JobsMatch, At

(* An invocation that has finished or failed.                              *)
LEMMA ReturnKeeps ==
  ASSUME AccountsInv, NEW h \in Handlers, Return(h),
         UNCHANGED <<account, link, role, invite>>,
         UNCHANGED failed \/ failed' = TRUE, At(h, "own") => failed'
  PROVE  AccountsInv' /\ Grows
  BY TablesAlone DEF Return, OrNone

(* The reads of GET /auth/verify and of redeeming.                         *)
LEMMA ReadKeeps ==
  ASSUME AccountsInv, NEW h \in Handlers,
         ReadAccount(h) \/ CheckOwner(h) \/ ReadMembership(h)
  PROVE  AccountsInv' /\ Grows
  <1>1. ASSUME NEW before \in {"account", "owner"}, At(h, before),
               NEW step \in {"owner", "mark", "discard"}, Continue(h, step),
               UNCHANGED <<account, link, role, invite, failed>>
        PROVE  AccountsInv' /\ Grows
    <2>1. /\ job[h] # None /\ job[h].next = before /\ JobMatches(job[h])
      BY <1>1, AtMatches DEF Steps
    <2>2. PICK j \in Job : /\ job' = [job EXCEPT ![h] = j]
                           /\ j.next = step /\ SameRequest(j, job[h])
      BY <1>1, <2>1, ContinueMakesJob DEF AccountsInv, Steps
    <2>3. JobMatches(j)
      BY <1>1, <2>1, <2>2 DEF JobMatches, SameRequest
    <2>4. ~At(h, "own")
      BY <1>1 DEF At
    <2> QED BY <1>1, <2>2, <2>3, <2>4, TablesAlone DEF OrNone
  <1>2. CASE ReadAccount(h)
    BY <1>1, <1>2 DEF ReadAccount
  <1>3. CASE CheckOwner(h)
    BY <1>1, <1>3 DEF CheckOwner
  <1>4. CASE ReadMembership(h)
    <2>1. /\ job[h] \in Job /\ job[h] # None /\ job[h].next = "member"
          /\ JobMatches(job[h])
      BY <1>4, AtMatches DEF ReadMembership, Steps
    <2>2. ~At(h, "own")
      BY <2>1 DEF At
    <2>3. CASE role[job[h].user][job[h].room] = "owner"
      BY <1>4, <2>2, <2>3, ReturnKeeps DEF ReadMembership
    <2>4. CASE role[job[h].user][job[h].room] # "owner"
      <3>1. PICK j \in Job : /\ job' = [job EXCEPT ![h] = j]
                             /\ j.next = "attach" /\ SameRequest(j, job[h])
        BY <1>4, <2>1, <2>4, ContinueMakesJob DEF ReadMembership, AccountsInv, Steps
      <3>2. /\ job[h].invite \in Invites
            /\ invite[job[h].invite] \in Invite
            /\ invite[job[h].invite] # None
            /\ job[h].room = invite[job[h].invite].room
        BY <2>1 DEF JobMatches, Job, OrNone, AccountsInv, TypeOK
      <3>3. job[h].room # None /\ Owned(job[h].room, job[h].user)
        BY <2>4, <3>2, NoneAssumption DEF AccountsInv, InvitesHaveOwners, Owned, Invite
      <3>4. JobMatches(j)
        BY <2>1, <3>1, <3>3 DEF JobMatches, SameRequest
      <3> QED BY <1>4, <2>2, <3>1, <3>4, TablesAlone DEF ReadMembership, OrNone
    <2> QED BY <2>3, <2>4
  <1> QED BY <1>2, <1>3, <1>4

----------------------------------------------------------------------------
(* The account's table.                                                    *)

(* After an address is set its verification begins, or the request is over.*)
LEMMA VerifyNextMatches ==
  ASSUME AccountsInv, NEW h \in Handlers, NEW step \in {"create", "email"}, At(h, step),
         VerifyNext(h), account'[job[h].user] # None, UNCHANGED <<link, invite>>
  PROVE  \E j \in OrNone(Job) :
           job' = [job EXCEPT ![h] = j] /\ (j # None => JobMatches(j)')
  <1>1. job[h] \in Job /\ job[h] # None /\ JobMatches(job[h])
    BY AtMatches DEF Steps
  <1>2. CASE job[h].email = None
    BY <1>2 DEF VerifyNext, Return, OrNone
  <1>3. CASE job[h].email # None
    <2>1. PICK next \in {"mark", "mail"} : Continue(h, next)
      BY <1>3 DEF VerifyNext, Verification
    <2>2. PICK j \in Job : /\ job' = [job EXCEPT ![h] = j]
                           /\ j.next = next /\ SameRequest(j, job[h])
      BY <1>1, <2>1, ContinueMakesJob DEF AccountsInv, Steps
    <2>3. JobMatches(j)'
      BY <1>1, <1>3, <2>2 DEF JobMatches, SameRequest
    <2> QED BY <2>2, <2>3 DEF OrNone
  <1> QED BY <1>2, <1>3

(* A new row of the account keeps the room of the old one; if it brings a  *)
(* room, no account has it, and its owner's row is what h writes next.     *)
LEMMA AccountKeeps ==
  ASSUME AccountsInv, UNCHANGED <<link, role, invite, failed>>,
         NEW u \in Users, NEW new \in Account, account' = [account EXCEPT ![u] = new],
         NEW h \in Handlers, ~At(h, "own"), NEW j \in OrNone(Job),
         job' = [job EXCEPT ![h] = j], j # None => JobMatches(j)',
         \/ account[u] # None /\ new.personalRoomId = account[u].personalRoomId
         \/ account[u] = None /\ new.personalRoomId = None
         \/ /\ account[u] # None /\ account[u].personalRoomId = None
            /\ new.personalRoomId \in Rooms /\ Fresh(new.personalRoomId)
            /\ j # None /\ j.next = "own" /\ j.user = u /\ j.room = new.personalRoomId
  PROVE  AccountsInv' /\ Grows
  <1> USE RowAssumption, NoneAssumption
  <1>1. /\ account'[u] = new /\ new # None
        /\ \A v \in Users \ {u} : account'[v] = account[v]
    BY DEF AccountsInv, TypeOK
  <1>2. Grows
    BY <1>1 DEF Grows, AccountsGrow, LinksGrow, InvitesGrow, OwnersGrow
  <1>3. (job \in [Handlers -> OrNone(Job)] /\ JobsMatch)'
    BY <1>2, JobsStillMatch DEF AccountsInv
  <1>4. TypeOK'
    BY <1>3 DEF AccountsInv, TypeOK, OrNone
  <1>5. LinksHaveAccounts'
    BY <1>1 DEF AccountsInv, LinksHaveAccounts, TypeOK, OrNone, Link
  <1>6. (InvitesHaveOwners /\ ModsWereInvited)'
    BY DEF AccountsInv, InvitesHaveOwners, ModsWereInvited
  <1>7. RoomsDiffer'
    BY <1>1 DEF AccountsInv, RoomsDiffer, Fresh
  <1>8. RoomIsOwned'
    <2>1. \A g \in Handlers : At(g, "own") => job'[g] = job[g]
      BY DEF AccountsInv, TypeOK
    <2>2. job'[h] = j
      BY DEF AccountsInv, TypeOK
    <2>3. ASSUME NEW v \in Users \ {u}, NEW r \in Rooms
          PROVE  (LET personal == account[v] # None /\ account[v].personalRoomId = r
                  IN  /\ role[v][r] = "owner" => personal
                      /\ (personal /\ role[v][r] # "owner") =>
                           \/ failed
                           \/ \E g \in Handlers :
                                At(g, "own") /\ job[g].user = v /\ job[g].room = r)'
      BY <1>1, <2>1 DEF AccountsInv, RoomIsOwned, At
    <2>4. ASSUME NEW r \in Rooms
          PROVE  (LET personal == account[u] # None /\ account[u].personalRoomId = r
                  IN  /\ role[u][r] = "owner" => personal
                      /\ (personal /\ role[u][r] # "owner") =>
                           \/ failed
                           \/ \E g \in Handlers :
                                At(g, "own") /\ job[g].user = u /\ job[g].room = r)'
      BY <1>1, <2>1, <2>2 DEF AccountsInv, RoomIsOwned, At
    <2> QED BY <2>3, <2>4 DEF RoomIsOwned
  <1> QED BY <1>2, <1>3, <1>4, <1>5, <1>6, <1>7, <1>8 DEF AccountsInv

LEMMA CreateAccountKeeps ==
  ASSUME AccountsInv, NEW h \in Handlers, CreateAccount(h)
  PROVE  AccountsInv' /\ Grows
  <1> DEFINE u == job[h].user
  <1>1. job[h] \in Job /\ ~At(h, "own")
    BY AtMatches DEF CreateAccount, Steps, At
  <1>2. CASE account[u] # None
    BY <1>1, <1>2, ReturnKeeps DEF CreateAccount
  <1>3. CASE account[u] = None
    <2> DEFINE new == [email |-> job[h].email, emailVerified |-> FALSE,
                       personalRoomId |-> None]
    <2>1. u \in Users /\ new \in Account
      BY <1>1 DEF Job, Account, OrNone
    <2>2. account' = [account EXCEPT ![u] = new] /\ VerifyNext(h)
      BY <1>3 DEF CreateAccount
    <2>3. account'[u] # None
      BY <2>1, <2>2, RowAssumption DEF AccountsInv, TypeOK
    <2>4. PICK j \in OrNone(Job) :
            job' = [job EXCEPT ![h] = j] /\ (j # None => JobMatches(j)')
      BY <2>2, <2>3, VerifyNextMatches DEF CreateAccount
    <2>5. new.personalRoomId = None
      OBVIOUS
    <2> HIDE DEF new
    <2> QED BY <1>1, <1>3, <2>1, <2>2, <2>4, <2>5, AccountKeeps DEF CreateAccount
  <1> QED BY <1>2, <1>3

LEMMA UpdateAccountEmailKeeps ==
  ASSUME AccountsInv, NEW h \in Handlers, UpdateAccountEmail(h)
  PROVE  AccountsInv' /\ Grows
  <1> DEFINE u == job[h].user
             new == [email |-> job[h].email, emailVerified |-> FALSE,
                     personalRoomId |-> account[u].personalRoomId]
  <1>1. job[h] \in Job /\ ~At(h, "own") /\ account[u] # None
    BY AtMatches DEF UpdateAccountEmail, Steps, At, JobMatches
  <1>2. u \in Users /\ account[u] \in Account
    BY <1>1 DEF Job, AccountsInv, TypeOK, OrNone
  <1>3. new \in Account /\ new.personalRoomId = account[u].personalRoomId
    BY <1>1, <1>2 DEF Job, Account
  <1>4. account' = [account EXCEPT ![u] = new]
    BY DEF UpdateAccountEmail
  <1>5. account'[u] # None
    BY <1>2, <1>3, <1>4, RowAssumption DEF AccountsInv, TypeOK
  <1>6. PICK j \in OrNone(Job) :
          job' = [job EXCEPT ![h] = j] /\ (j # None => JobMatches(j)')
    BY <1>5, VerifyNextMatches DEF UpdateAccountEmail
  <1> HIDE DEF new
  <1> QED BY <1>1, <1>2, <1>3, <1>4, <1>6, AccountKeeps DEF UpdateAccountEmail

LEMMA MarkEmailVerifiedKeeps ==
  ASSUME AccountsInv, NEW h \in Handlers, NEW r \in Rooms, MarkEmailVerified(h, r)
  PROVE  AccountsInv' /\ Grows
  <1> DEFINE u == job[h].user
             new == [email |-> account[u].email, emailVerified |-> TRUE,
                     personalRoomId |-> r]
  <1>1. /\ job[h] \in Job /\ ~At(h, "own") /\ account[u] # None
        /\ job[h].token # None => link[job[h].token] # None
    BY AtMatches DEF MarkEmailVerified, Steps, At, JobMatches
  <1>2. u \in Users /\ account[u] \in Account
    BY <1>1 DEF Job, AccountsInv, TypeOK, OrNone
  <1>3. new \in Account /\ new.personalRoomId = r
    BY <1>2 DEF Account, OrNone
  <1>4. account' = [account EXCEPT ![u] = new]
    BY DEF MarkEmailVerified
  <1>5. PICK j \in Job : /\ j # None /\ j.next = "own" /\ j.user = u /\ j.room = r
                         /\ j.token = job[h].token
                         /\ job' = [job EXCEPT ![h] = j]
    <2> DEFINE j == [Blank("own", u) EXCEPT !.token = job[h].token, !.room = r]
    <2>1. /\ j \in Job /\ j.next = "own" /\ j.user = u /\ j.room = r
          /\ j.token = job[h].token
      BY <1>1, <1>2 DEF Blank, Job, Steps, OrNone
    <2>2. job' = [job EXCEPT ![h] = j]
      BY DEF MarkEmailVerified, WriteOwnerNext
    <2> HIDE DEF j
    <2> QED BY <2>1, <2>2, RowAssumption
  <1>6. account'[u] = new
    BY <1>2, <1>4 DEF AccountsInv, TypeOK
  <1>7. UNCHANGED <<link, role, invite, failed>>
    BY DEF MarkEmailVerified
  <1>8. \/ new.personalRoomId = account[u].personalRoomId
        \/ account[u].personalRoomId = None /\ Fresh(r)
    BY <1>3 DEF MarkEmailVerified
  <1> HIDE DEF new
  <1>9. JobMatches(j)'
    BY <1>1, <1>3, <1>5, <1>6, <1>7, NoneAssumption, RowAssumption DEF JobMatches
  <1> QED BY <1>1, <1>2, <1>3, <1>4, <1>5, <1>7, <1>8, <1>9, AccountKeeps DEF OrNone

----------------------------------------------------------------------------
(* The links' table.                                                       *)
LEMMA CreateVerificationKeeps ==
  ASSUME AccountsInv, NEW h \in Handlers, NEW t \in Tokens, CreateVerification(h, t)
  PROVE  AccountsInv' /\ Grows
  <1> DEFINE new == [username |-> job[h].user, email |-> job[h].email, present |-> TRUE]
  <1>1. /\ job[h] \in Job /\ ~At(h, "own") /\ account[job[h].user] # None
        /\ job[h].email # None
    BY AtMatches DEF CreateVerification, Steps, At, JobMatches
  <1>2. new \in Link /\ new # None /\ new.username = job[h].user
    <2>1. new \in Link
      BY <1>1 DEF Job, OrNone, Link
    <2> QED BY <2>1, RowAssumption
  <1>3. link' = [link EXCEPT ![t] = new]
    BY DEF CreateVerification
  <1> HIDE DEF new
  <1>4. link' \in [Tokens -> OrNone(Link)] /\ link'[t] = new
    BY <1>2, <1>3 DEF AccountsInv, TypeOK, OrNone
  <1>5. LinksHaveAccounts'
    BY <1>1, <1>2, <1>3, <1>4 DEF CreateVerification, AccountsInv, TypeOK, LinksHaveAccounts
  <1>6. Grows
    BY <1>2, <1>3
    DEF CreateVerification, AccountsInv, TypeOK,
        Grows, AccountsGrow, LinksGrow, InvitesGrow, OwnersGrow
  <1>7. (job \in [Handlers -> OrNone(Job)] /\ JobsMatch)'
    BY <1>6, JobsStillMatch DEF CreateVerification, Return, AccountsInv, OrNone
  <1>8. (InvitesHaveOwners /\ RoomsDiffer /\ ModsWereInvited)'
    BY DEF CreateVerification, AccountsInv, InvitesHaveOwners, RoomsDiffer, ModsWereInvited
  <1>9. RoomIsOwned'
    <2>1. \A g \in Handlers : At(g, "own") => job'[g] = job[g]
      BY <1>1 DEF CreateVerification, Return, AccountsInv, TypeOK
    <2> QED BY <2>1 DEF CreateVerification, AccountsInv, RoomIsOwned, At
  <1> QED
    BY <1>4, <1>5, <1>6, <1>7, <1>8, <1>9 DEF CreateVerification, AccountsInv, TypeOK

LEMMA DeleteVerificationKeeps ==
  ASSUME AccountsInv, NEW h \in Handlers, DeleteVerification(h)
  PROVE  AccountsInv' /\ Grows
  <1> DEFINE t == job[h].token
  <1>1. job[h] \in Job /\ ~At(h, "own") /\ t # None /\ link[t] # None
    BY AtMatches DEF DeleteVerification, Steps, At, JobMatches
  <1>2. t \in Tokens /\ link[t] \in Link
    BY <1>1 DEF Job, AccountsInv, TypeOK, OrNone
  <1>3. PICK new \in Link : /\ link' = [link EXCEPT ![t] = new]
                            /\ new.username = link[t].username /\ new # None
    <2> DEFINE n == [link[t] EXCEPT !.present = FALSE]
    <2>1. link' = [link EXCEPT ![t] = n]
      BY DEF DeleteVerification, AccountsInv, TypeOK
    <2>2. n \in Link /\ n.username = link[t].username
      BY <1>2 DEF Link
    <2> HIDE DEF n
    <2> QED BY <2>1, <2>2, RowAssumption
  <1>4. link' \in [Tokens -> OrNone(Link)] /\ link'[t] = new
    BY <1>2, <1>3 DEF AccountsInv, TypeOK, OrNone
  <1>5. LinksHaveAccounts'
    BY <1>1, <1>2, <1>3, <1>4 DEF DeleteVerification, AccountsInv, TypeOK, LinksHaveAccounts
  <1>6. Grows
    BY <1>2, <1>3
    DEF DeleteVerification, AccountsInv, TypeOK,
        Grows, AccountsGrow, LinksGrow, InvitesGrow, OwnersGrow
  <1>7. (job \in [Handlers -> OrNone(Job)] /\ JobsMatch)'
    BY <1>6, JobsStillMatch DEF DeleteVerification, Return, AccountsInv, OrNone
  <1>8. (InvitesHaveOwners /\ RoomsDiffer /\ ModsWereInvited)'
    BY DEF DeleteVerification, AccountsInv, InvitesHaveOwners, RoomsDiffer, ModsWereInvited
  <1>9. RoomIsOwned'
    <2>1. \A g \in Handlers : At(g, "own") => job'[g] = job[g]
      BY <1>1 DEF DeleteVerification, Return, AccountsInv, TypeOK
    <2> QED BY <2>1 DEF DeleteVerification, AccountsInv, RoomIsOwned, At
  <1> QED
    BY <1>4, <1>5, <1>6, <1>7, <1>8, <1>9 DEF DeleteVerification, AccountsInv, TypeOK

----------------------------------------------------------------------------
(* The memberships' table.                                                 *)

(* Who sees another's owner row in a room has none there.                  *)
LEMMA OneOwner ==
  ASSUME AccountsInv, NEW u \in Users, NEW r \in Rooms, Owned(r, u)
  PROVE  role[u][r] # "owner"
  BY NoneAssumption DEF AccountsInv, Owned, RoomIsOwned, RoomsDiffer

LEMMA PutOwnerKeeps ==
  ASSUME AccountsInv, NEW h \in Handlers, PutOwner(h)
  PROVE  AccountsInv' /\ Grows
  <1> DEFINE u == job[h].user
             r == job[h].room
  <1>1. /\ job[h] \in Job /\ job[h] # None /\ job[h].next = "own"
        /\ JobMatches(job[h])
    BY AtMatches DEF PutOwner, Steps
  <1>2. /\ u \in Users /\ r \in Rooms /\ account[u] # None
        /\ account[u].personalRoomId = r
    BY <1>1 DEF JobMatches, Job, OrNone
  <1>3. /\ role' \in [Users -> [Rooms -> {"owner", "mod", "none"}]]
        /\ \A v \in Users, s \in Rooms :
             role'[v][s] = IF v = u /\ s = r THEN "owner" ELSE role[v][s]
    BY <1>2 DEF PutOwner, AccountsInv, TypeOK
  <1>4. Grows
    BY <1>3
    DEF PutOwner, Grows, AccountsGrow, LinksGrow, InvitesGrow, OwnersGrow
  <1>5. PICK j \in OrNone(Job) :
          job' = [job EXCEPT ![h] = j] /\ (j # None => JobMatches(j)')
    <2>1. CASE job[h].token = None
      BY <2>1 DEF PutOwner, Return, OrNone
    <2>2. CASE job[h].token # None
      <3>1. PICK j \in Job : /\ job' = [job EXCEPT ![h] = j]
                             /\ j.next = "discard" /\ SameRequest(j, job[h])
        BY <1>1, <2>2, ContinueMakesJob DEF PutOwner, AccountsInv, Steps
      <3>2. JobMatches(j)'
        BY <1>1, <2>2, <3>1 DEF PutOwner, JobMatches, SameRequest
      <3> QED BY <3>1, <3>2 DEF OrNone
    <2> QED BY <2>1, <2>2
  <1>6. (job \in [Handlers -> OrNone(Job)] /\ JobsMatch)'
    BY <1>4, <1>5, JobsStillMatch DEF AccountsInv
  <1>7. (LinksHaveAccounts /\ RoomsDiffer)'
    BY DEF PutOwner, AccountsInv, LinksHaveAccounts, RoomsDiffer
  <1>8. (InvitesHaveOwners /\ ModsWereInvited)'
    BY <1>3, RowAssumption
    DEF PutOwner, AccountsInv, InvitesHaveOwners, ModsWereInvited, TypeOK, OrNone, Invite
  <1>9. RoomIsOwned'
    <2>1. \A g \in Handlers \ {h} : job'[g] = job[g]
      BY <1>5 DEF AccountsInv, TypeOK
    <2> QED BY <1>1, <1>2, <1>3, <2>1 DEF PutOwner, AccountsInv, RoomIsOwned, At
  <1> QED
    BY <1>3, <1>4, <1>6, <1>7, <1>8, <1>9 DEF PutOwner, AccountsInv, TypeOK

(* A mod's row is written or deleted where there is no owner's row.        *)
LEMMA ModKeeps ==
  ASSUME AccountsInv, NEW h \in Handlers, PutMod(h) \/ DeleteMembership(h)
  PROVE  AccountsInv' /\ Grows
  <1> DEFINE u == job[h].user
             r == job[h].room
  <1>1. /\ job[h] \in Job /\ ~At(h, "own")
        /\ job[h].next \in {"attach", "revoke"} /\ JobMatches(job[h])
    BY AtMatches DEF PutMod, DeleteMembership, Steps, At
  <1>2. u \in Users /\ r \in Rooms /\ role[u][r] # "owner"
    BY <1>1, OneOwner DEF JobMatches, Job, OrNone
  <1>3. PICK new \in {"mod", "none"} :
          /\ role' = [role EXCEPT ![u][r] = new]
          /\ new = "mod" => job[h].next = "attach"
    BY DEF PutMod, DeleteMembership, At
  <1>4. /\ role' \in [Users -> [Rooms -> {"owner", "mod", "none"}]]
        /\ \A v \in Users, s \in Rooms :
             role'[v][s] = IF v = u /\ s = r THEN new ELSE role[v][s]
    BY <1>2, <1>3 DEF AccountsInv, TypeOK
  <1>5. job' = [job EXCEPT ![h] = None] /\ UNCHANGED <<account, link, invite, failed>>
    BY DEF PutMod, DeleteMembership, Return
  <1>6. Grows
    BY <1>2, <1>4, <1>5 DEF Grows, AccountsGrow, LinksGrow, InvitesGrow, OwnersGrow
  <1>7. (job \in [Handlers -> OrNone(Job)] /\ JobsMatch)'
    BY <1>5, <1>6, JobsStillMatch DEF AccountsInv, OrNone
  <1>8. (LinksHaveAccounts /\ RoomsDiffer)'
    BY <1>5 DEF AccountsInv, LinksHaveAccounts, RoomsDiffer
  <1>9. InvitesHaveOwners'
    BY <1>2, <1>4, <1>5, RowAssumption
    DEF AccountsInv, InvitesHaveOwners, TypeOK, OrNone, Invite
  <1>10. ModsWereInvited'
    BY <1>1, <1>3, <1>4, <1>5 DEF AccountsInv, ModsWereInvited, JobMatches, Job, OrNone
  <1>11. RoomIsOwned'
    <2>1. \A g \in Handlers : At(g, "own") => job'[g] = job[g]
      BY <1>1, <1>5 DEF AccountsInv, TypeOK
    <2> QED BY <1>2, <1>4, <1>5, <2>1 DEF AccountsInv, RoomIsOwned, At
  <1> QED
    BY <1>4, <1>5, <1>6, <1>7, <1>8, <1>9, <1>10, <1>11 DEF AccountsInv, TypeOK

----------------------------------------------------------------------------
(* The invites' table.                                                     *)

(* A new row of invite i is of a room with an owner, or of the same room   *)
(* and with the same redeemer, if any.                                     *)
LEMMA InviteKeeps ==
  ASSUME AccountsInv, UNCHANGED <<account, link, role, failed>>,
         NEW i \in Invites, NEW new \in Invite, invite' = [invite EXCEPT ![i] = new],
         \/ invite[i] = None /\ \E v \in Users : role[v][new.room] = "owner"
         \/ /\ invite[i] # None /\ new.room = invite[i].room
            /\ invite[i].redeemedBy # None => new.redeemedBy = invite[i].redeemedBy,
         Grows => (job \in [Handlers -> OrNone(Job)] /\ JobsMatch)',
         \A g \in Handlers : At(g, "own") => job'[g] = job[g]
  PROVE  AccountsInv' /\ Grows
  <1> USE RowAssumption
  <1>1. /\ invite' \in [Invites -> OrNone(Invite)] /\ invite'[i] = new /\ new # None
        /\ \A k \in Invites \ {i} : invite'[k] = invite[k]
    BY DEF AccountsInv, TypeOK, OrNone
  <1>2. Grows
    BY <1>1 DEF Grows, AccountsGrow, LinksGrow, InvitesGrow, OwnersGrow
  <1>3. (LinksHaveAccounts /\ RoomsDiffer)'
    BY DEF AccountsInv, LinksHaveAccounts, RoomsDiffer
  <1>4. InvitesHaveOwners'
    BY <1>1 DEF AccountsInv, InvitesHaveOwners
  <1>5. ModsWereInvited'
    BY <1>1, NoneAssumption DEF AccountsInv, ModsWereInvited
  <1>6. RoomIsOwned'
    BY DEF AccountsInv, RoomIsOwned, At
  <1> QED BY <1>1, <1>2, <1>3, <1>4, <1>5, <1>6 DEF AccountsInv, TypeOK

LEMMA OwnersInviteKeeps ==
  ASSUME AccountsInv, NEW u \in Users, NEW r \in Rooms, NEW i \in Invites,
         CreateInvite(u, r, i) \/ DeleteInvite(u, i)
  PROVE  AccountsInv' /\ Grows
  <1>1. UNCHANGED job
    BY DEF CreateInvite, DeleteInvite
  <1>2. ASSUME Grows PROVE (job \in [Handlers -> OrNone(Job)] /\ JobsMatch)'
    <2>1. ASSUME NEW h \in Handlers, (job[h] # None)' PROVE JobMatches(job[h])'
      <3>1. job[h] \in Job /\ JobMatches(job[h])
        BY <1>1, <2>1 DEF AccountsInv, TypeOK, OrNone, JobsMatch
      <3>2. ASSUME NEW k \in Job, k = job[h] PROVE JobMatches(k)'
        <4>1. JobMatches(k)
          BY <3>1, <3>2
        <4> QED BY <1>2, <4>1, MatchesStill
      <3> QED BY <1>1, <3>1, <3>2 DEF JobMatches, Owned
    <2> QED BY <1>1, <2>1 DEF AccountsInv, TypeOK, JobsMatch
  <1>3. CASE CreateInvite(u, r, i)
    <2> DEFINE new == [room |-> r, redeemedBy |-> None, present |-> TRUE]
    <2>1. new \in Invite /\ new.room = r
      BY DEF Invite, OrNone
    <2>2. invite' = [invite EXCEPT ![i] = new]
      BY <1>3 DEF CreateInvite
    <2> HIDE DEF new
    <2> QED BY <1>1, <1>2, <1>3, <2>1, <2>2, InviteKeeps DEF CreateInvite
  <1>4. CASE DeleteInvite(u, i)
    <2> DEFINE new == [invite[i] EXCEPT !.present = FALSE]
    <2>1. invite' = [invite EXCEPT ![i] = new]
      BY <1>4 DEF DeleteInvite, AccountsInv, TypeOK
    <2>2. invite[i] \in Invite
      BY <1>4 DEF DeleteInvite, AccountsInv, TypeOK, OrNone
    <2>3. /\ new \in Invite /\ new.room = invite[i].room
          /\ new.redeemedBy = invite[i].redeemedBy
      BY <2>2 DEF Invite
    <2> HIDE DEF new
    <2> QED BY <1>1, <1>2, <1>4, <2>1, <2>3, InviteKeeps DEF DeleteInvite
  <1> QED BY <1>3, <1>4

LEMMA RedeemInviteKeeps ==
  ASSUME AccountsInv, NEW h \in Handlers, RedeemInvite(h)
  PROVE  AccountsInv' /\ Grows
  <1> DEFINE i == job[h].invite
  <1>1. /\ job[h] \in Job /\ ~At(h, "own") /\ job[h] # None /\ job[h].next = "redeem"
        /\ JobMatches(job[h])
    BY AtMatches DEF RedeemInvite, Steps, At
  <1>2. i \in Invites /\ invite[i] \in Invite /\ invite[i] # None
    BY <1>1 DEF JobMatches, Job, OrNone, AccountsInv, TypeOK
  <1>3. CASE ~(invite[i].present /\ invite[i].redeemedBy = None)
    BY <1>1, <1>3, ReturnKeeps DEF RedeemInvite
  <1>4. CASE invite[i].present /\ invite[i].redeemedBy = None
    <2> DEFINE new == [invite[i] EXCEPT !.redeemedBy = job[h].user]
    <2>1. invite' = [invite EXCEPT ![i] = new] /\ Continue(h, "member")
      BY <1>2, <1>4 DEF RedeemInvite, AccountsInv, TypeOK
    <2>2. job[h].user \in Users
      BY <1>1 DEF Job
    <2>3. /\ new \in Invite /\ new.room = invite[i].room
          /\ new.redeemedBy = job[h].user
      BY <1>2, <2>2 DEF Invite, OrNone
    <2> HIDE DEF new
    <2>4. PICK j \in Job : /\ job' = [job EXCEPT ![h] = j]
                           /\ j.next = "member" /\ SameRequest(j, job[h])
      BY <1>1, <2>1, ContinueMakesJob DEF AccountsInv, Steps
    <2>5. invite'[i] = new /\ new # None
      BY <1>2, <2>1, <2>3, RowAssumption DEF AccountsInv, TypeOK
    <2>6. JobMatches(j)'
      BY <1>1, <2>3, <2>4, <2>5 DEF RedeemInvite, JobMatches, SameRequest
    <2>7. Grows => (job \in [Handlers -> OrNone(Job)] /\ JobsMatch)'
      BY <2>4, <2>6, JobsStillMatch DEF AccountsInv, OrNone
    <2>8. \A g \in Handlers : At(g, "own") => job'[g] = job[g]
      BY <1>1, <2>4 DEF AccountsInv, TypeOK
    <2> QED
      BY <1>2, <1>4, <2>1, <2>3, <2>7, <2>8, InviteKeeps DEF RedeemInvite
  <1> QED BY <1>3, <1>4

----------------------------------------------------------------------------
(* No step breaks the invariant, and the tables only grow.                 *)
THEOREM AccountsNextInv == AccountsInv /\ [Next]_vars => AccountsInv' /\ Grows
  <1> SUFFICES ASSUME AccountsInv, [Next]_vars PROVE AccountsInv' /\ Grows
    OBVIOUS
  <1>1. ASSUME NEW h \in Handlers, Request(h) PROVE AccountsInv' /\ Grows
    <2>1. PICK j \in Job : job' = [job EXCEPT ![h] = j] /\ JobMatches(j)
      BY <1>1, RequestMatches
    <2>2. UNCHANGED <<account, link, role, invite, failed>> /\ ~At(h, "own")
      BY <1>1, RequestMatches DEF At
    <2> QED BY <2>1, <2>2, TablesAlone DEF OrNone
  <1>2. ASSUME NEW h \in Handlers, Proceed(h) PROVE AccountsInv' /\ Grows
    BY <1>2, ReadKeeps, CreateAccountKeeps, UpdateAccountEmailKeeps,
       MarkEmailVerifiedKeeps, CreateVerificationKeeps, DeleteVerificationKeeps,
       PutOwnerKeeps, ModKeeps, RedeemInviteKeeps
    DEF Proceed
  <1>3. ASSUME NEW h \in Handlers, Fail(h) PROVE AccountsInv' /\ Grows
    BY <1>3, ReturnKeeps DEF Fail
  <1>4. ASSUME NEW u \in Users, NEW r \in Rooms, NEW i \in Invites, CreateInvite(u, r, i)
        PROVE  AccountsInv' /\ Grows
    BY <1>4, OwnersInviteKeeps
  <1>5. ASSUME NEW u \in Users, NEW i \in Invites, DeleteInvite(u, i)
        PROVE  AccountsInv' /\ Grows
    <2>1. PICK r \in Rooms : TRUE
      <3>1. invite[i] \in Invite
        BY <1>5 DEF DeleteInvite, AccountsInv, TypeOK, OrNone
      <3> QED BY <3>1 DEF Invite
    <2> QED BY <1>5, <2>1, OwnersInviteKeeps
  <1>6. CASE UNCHANGED vars
    <2>1. Grows
      BY <1>6 DEF vars, Grows, AccountsGrow, LinksGrow, InvitesGrow, OwnersGrow
    <2>2. AccountsInv'
      BY <1>6
      DEF vars, AccountsInv, TypeOK, JobsMatch, JobMatches, Owned, LinksHaveAccounts,
          InvitesHaveOwners, RoomsDiffer, RoomIsOwned, ModsWereInvited, At
    <2> QED BY <2>1, <2>2
  <1> QED BY <1>1, <1>2, <1>3, <1>4, <1>5, <1>6 DEF Next

(* Every account owns the room it was given, alone, and a mod has an       *)
(* invite of the room that nobody else has used: for any number of people  *)
(* and of concurrent invocations that may stop anywhere.                   *)
THEOREM AccountsInvariance == Spec => [](TypeOK /\ RoomIsOwned /\ ModsWereInvited)
  <1>1. AccountsInv => TypeOK /\ RoomIsOwned /\ ModsWereInvited
    BY DEF AccountsInv
  <1> QED BY <1>1, AccountsInitInv, AccountsNextInv, PTL DEF Spec

(* store.ts:428-431: a mod has redeemed an invite of the room that is      *)
(* theirs alone, whatever requests race for it.                            *)
THEOREM InvitesAreSpentOnce == Spec => []ModsWereInvited
  BY AccountsInvariance, PTL

(* A room once assigned is never another, and an owner's row is never      *)
(* deleted or overwritten, by any interleaving of clicks, redemptions and  *)
(* revocations.                                                            *)
THEOREM OwnershipIsFinal == Spec => OwnershipIsKept
  <1> DEFINE Kept == \A u \in Users :
               (account[u] # None /\ account[u].personalRoomId # None)
                 => account'[u].personalRoomId = account[u].personalRoomId
             Stays == \A u \in Users, r \in Rooms :
               role[u][r] = "owner" => role'[u][r] = "owner"
  <1>1. Grows => Kept /\ Stays
    BY DEF Grows, AccountsGrow, OwnersGrow
  <1>2. AccountsInv /\ [Next]_vars => [Kept]_vars /\ [Stays]_vars
    BY <1>1, AccountsNextInv
  <1>3. Spec => [][Kept]_vars /\ [][Stays]_vars
    BY <1>2, AccountsInitInv, AccountsNextInv, PTL DEF Spec
  <1> QED BY <1>3 DEF OwnershipIsKept, RoomIsKept, OwnerStaysOwner

----------------------------------------------------------------------------
(* AccountDeletion.                                                        *)

(* A deletion that has listed the memberships covers rows stage by stage:  *)
(* what is behind a stage is gone, on the list in hand, or was written     *)
(* behind its back.                                                        *)
PastStages == CascadeStages \ {"memberships"}

Listed(step) ==
  CASE step = "pictures" -> {"picture", "object"}
    [] step = "invites" -> {"invite"}
    [] step = "members" -> {"member"}
    [] step \in {"sessions", "revoking"} -> {"session"}
    [] step = "links" -> {"link"}
    [] OTHER -> {}

Behind(step) ==
  CASE step = "pictures" -> {"picture", "object"}
    [] step = "invites" -> {"picture", "object", "invite"}
    [] step = "members" -> {"picture", "object", "invite", "member"}
    [] step = "sessions" -> {"session"}
    [] step = "links" -> {"session", "link"}
    [] OTHER -> {}

Owner == <<"member", Me>>
Elsewhere == <<"elsewhere", Me>>

CascadeFits(w) ==
  /\ Elsewhere \in rows => Elsewhere \in w.mine
  /\ Owner \in rows => Owner \in w.mine \/ w.step \in {"pictures", "invites", "members"}
  /\ \A x \in rows : x[1] \in Behind(w.step) => x \in late \/ x \in w.list
  /\ w.step \in {"sessions", "links"} => w.mine = {}

(* What an invocation was given is current unless it has been overtaken.   *)
PasswordFits(w) ==
  (w.step \in {"login", "revoke", "revoking"} /\ ~w.overtaken) =>
    user # NoUser /\ w.password = user.password

ListFits(w) == \A x \in w.list : x[1] \in Listed(w.step)

Fits(w) == /\ ListFits(w)
           /\ PasswordFits(w)
           /\ w.step \in PastStages => CascadeFits(w)

WorkFits == \A h \in Requests : work[h] # NoWork => Fits(work[h])

(* An object whose asset is gone has been kept by a failure.               *)
ObjectsHavePictures ==
  \A p \in Pictures :
    <<"object", p>> \in rows => <<"picture", p>> \in rows \/ <<"object", p>> \in late

(* The owner's membership comes down behind the assets and the invites,    *)
(* and with the members and the room in hand.                              *)
OwnerGone ==
  Owner \notin rows =>
    \A x \in rows :
      /\ x[1] \in {"picture", "object", "invite"} => x \in late
      /\ x[1] \in {"member", "room"} =>
           \/ x \in late \/ "room" \in cut
           \/ \E h \in Requests :
                Does(h, "members") /\ (x[1] = "member" => x \in work[h].list)

(* The account comes down behind all memberships, sessions and links.      *)
UserGone ==
  user = NoUser =>
    /\ Owner \notin rows /\ Elsewhere \notin rows
    /\ \A x \in rows : x[1] \in {"session", "link"} => x \in late

(* OldTokensEnd, without the help of a deletion's list.                    *)
Excused(t) ==
  \/ t \in overtaken \/ <<"session", t>> \in late \/ "tokens" \in cut
  \/ \E h \in Requests :
       \/ Does(h, "revoke")
       \/ Does(h, "revoking") /\ <<"session", t>> \in work[h].list

TokensFit ==
  \A t \in SessionTokens :
    (LoggedIn(t) /\ (user = NoUser \/ issued[t] # user.password)) => Excused(t)

DeletionInv == /\ DeletionTypeOK
               /\ WorkFits
               /\ ObjectsHavePictures
               /\ Owner \notin late
               /\ OwnerGone
               /\ UserGone
               /\ TokensFit

----------------------------------------------------------------------------
(* What a step may do to the rows: a row is only written behind the backs  *)
(* of those it concerns if it is marked as late, and what the walk starts  *)
(* from is never written.                                                  *)
Moves ==
  /\ late \subseteq late'
  /\ \A x \in rows' \ rows :
       /\ x[1] \notin {"elsewhere", "invite"} /\ x # Owner
       /\ \/ x \in late'
          \/ /\ user # NoUser /\ Owner \in rows
             /\ \A h \in Requests : work[h] # NoWork => work[h].step \notin PastStages

UserStays == user # NoUser => user' = user

(* An invocation that the properties count on stays at its list.           *)
StaysAt(steps, w, v) ==
  (w # NoWork /\ w.step \in steps) =>
    v # NoWork /\ v.step = w.step /\ \A x \in w.list : x \in rows' => x \in v.list

DutyKept(w, v) == StaysAt({"members", "revoke", "revoking"}, w, v)

TablesTypeOK ==
  /\ user \in User \cup {NoUser}
  /\ rows \subseteq Belongings
  /\ issued \in [SessionTokens -> 0..MaxPasswords]
  /\ joining \subseteq Guests
  /\ passwords \in 0..MaxPasswords
  /\ requests \in 0..MaxRequests
  /\ overtaken \subseteq SessionTokens
  /\ late \subseteq Belongings
  /\ cut \subseteq {"room", "tokens"}

(* What is written through LateWith only moves the rows as it may.         *)
LEMMA WritesMove ==
  ASSUME NEW new, rows' = rows \cup new, late' = LateWith(new),
         \A x \in new : x[1] \notin {"elsewhere", "invite"} /\ x # Owner
  PROVE  Moves
  BY DEF Moves, LateWith, Deleting, PastStages, CascadeStages, Owner

(* What is deleted moves nothing in.                                       *)
LEMMA DeletesMove ==
  ASSUME rows' \subseteq rows, late \subseteq late'
  PROVE  Moves
  BY DEF Moves

----------------------------------------------------------------------------
(* An invocation that waits, overtaken or not, still fits.                 *)
LEMMA OtherFits ==
  ASSUME DeletionInv, Moves, NEW g \in Requests, work[g] # NoWork, NEW v \in Work,
         v.step = work[g].step, v.list = work[g].list, v.mine = work[g].mine,
         \/ v.overtaken
         \/ UserStays /\ v.password = work[g].password /\ v.overtaken = work[g].overtaken
  PROVE  Fits(v)'
  <1>1. Fits(work[g])
    BY DEF DeletionInv, WorkFits
  <1>2. ListFits(v)'
    BY <1>1 DEF Fits, ListFits
  <1>3. PasswordFits(v)'
    BY <1>1 DEF Fits, PasswordFits, UserStays
  <1>4. ASSUME v.step \in PastStages PROVE CascadeFits(v)'
    <2>1. CascadeFits(work[g])
      BY <1>1, <1>4 DEF Fits
    <2>2. \A x \in rows' \ rows : x \in late'
      BY <1>4 DEF Moves
    <2>3. Elsewhere \in rows' => Elsewhere \in rows
      BY DEF Moves, Elsewhere
    <2>4. Owner \in rows' => Owner \in rows
      BY DEF Moves
    <2>5. late \subseteq late'
      BY DEF Moves
    <2> QED BY <2>1, <2>2, <2>3, <2>4, <2>5 DEF CascadeFits, Owner, Elsewhere
  <1> QED BY <1>2, <1>3, <1>4 DEF Fits

(* One invocation takes a step, the others wait.                           *)
LEMMA TurnFits ==
  ASSUME DeletionInv, Moves, UserStays, NEW h \in Requests, NEW w \in Work \cup {NoWork},
         work' = [work EXCEPT ![h] = w], w # NoWork => Fits(w)'
  PROVE  work' \in [Requests -> Work \cup {NoWork}] /\ WorkFits'
  <1>1. work \in [Requests -> Work \cup {NoWork}]
    BY DEF DeletionInv, DeletionTypeOK
  <1>2. ASSUME NEW g \in Requests, NEW v, v = work'[g], v # NoWork
        PROVE  Fits(v)'
    <2>1. CASE g = h
      BY <1>1, <1>2, <2>1
    <2>2. CASE g # h
      <3>1. v = work[g] /\ v \in Work
        BY <1>1, <1>2, <2>2
      <3> QED BY <1>2, <3>1, OtherFits
    <2> QED BY <2>1, <2>2
  <1>3. WorkFits'
    BY <1>2 DEF WorkFits, Fits, ListFits, PasswordFits, CascadeFits
  <1> QED BY <1>1, <1>3

(* One invocation takes a step that overtakes the others.                  *)
LEMMA OvertakeFits ==
  ASSUME DeletionInv, Moves, NEW h \in Requests, NEW w \in Work \cup {NoWork},
         Overtake(h, w), w # NoWork => Fits(w)'
  PROVE  /\ work' \in [Requests -> Work \cup {NoWork}]
         /\ WorkFits'
         /\ \A g \in Requests \ {h} :
              /\ work[g] = NoWork => work'[g] = NoWork
              /\ work[g] # NoWork =>
                   /\ work'[g] # NoWork /\ work'[g].step = work[g].step
                   /\ work'[g].list = work[g].list
  <1>1. work \in [Requests -> Work \cup {NoWork}]
    BY DEF DeletionInv, DeletionTypeOK
  <1>2. ASSUME NEW g \in Requests, g # h, work[g] # NoWork
        PROVE  \E v \in Work :
                 /\ work'[g] = v /\ v.step = work[g].step /\ v.list = work[g].list
                 /\ v.mine = work[g].mine /\ v.overtaken
    <2> DEFINE u == work[g]
               v == [u EXCEPT !.overtaken = TRUE]
    <2>1. u \in Work
      BY <1>1, <1>2
    <2>2. v \in Work /\ v.step = u.step /\ v.list = u.list /\ v.mine = u.mine /\ v.overtaken
      BY <2>1 DEF Work
    <2>3. work'[g] = v
      BY <1>2 DEF Overtake
    <2> QED BY <2>2, <2>3
  <1>3. \A g \in Requests \ {h} : work[g] = NoWork => work'[g] = NoWork
    BY DEF Overtake
  <1>4. work'[h] = w
    BY DEF Overtake
  <1>5. work' \in [Requests -> Work \cup {NoWork}]
    <2>1. \A g \in Requests : work'[g] \in Work \cup {NoWork}
      BY <1>2, <1>3, <1>4
    <2>2. \E f : work' = [g \in Requests |-> f[g]]
      <3> WITNESS work'
      <3> QED BY DEF Overtake
    <2> QED BY <2>1, <2>2
  <1>6. ASSUME NEW g \in Requests, NEW v, v = work'[g], v # NoWork
        PROVE  Fits(v)'
    <2>1. CASE g = h
      BY <1>4, <1>6, <2>1
    <2>2. CASE g # h
      <3>1. work[g] # NoWork
        BY <1>3, <1>6, <2>2
      <3>2. PICK u \in Work : /\ work'[g] = u /\ u.step = work[g].step
                              /\ u.list = work[g].list /\ u.mine = work[g].mine
                              /\ u.overtaken
        BY <1>2, <2>2, <3>1
      <3>3. Fits(u)'
        BY <3>1, <3>2, OtherFits
      <3> QED BY <1>6, <3>2, <3>3
    <2> QED BY <2>1, <2>2
  <1>7. WorkFits'
    BY <1>6 DEF WorkFits, Fits, ListFits, PasswordFits, CascadeFits
  <1>8. NoWork \notin Work
    BY SentinelAssumption
  <1> QED BY <1>2, <1>3, <1>5, <1>7, <1>8

----------------------------------------------------------------------------
(* Where the deletions of members go on, the room stays covered.           *)
LEMMA OwnerStaysGone ==
  ASSUME DeletionInv, Moves, cut \subseteq cut', Owner \in rows => Owner \in rows',
         \A h \in Requests : StaysAt({"members"}, work[h], work'[h])
  PROVE  OwnerGone'
  <1> SUFFICES ASSUME Owner \notin rows', NEW x \in rows'
               PROVE  /\ x[1] \in {"picture", "object", "invite"} => x \in late'
                      /\ x[1] \in {"member", "room"} =>
                           \/ x \in late' \/ "room" \in cut'
                           \/ \E h \in Requests :
                                /\ Does(h, "members")'
                                /\ x[1] = "member" => x \in work'[h].list
    BY DEF OwnerGone, Owner
  <1>1. CASE x \notin rows
    BY <1>1 DEF Moves
  <1>2. CASE x \in rows
    BY <1>2 DEF DeletionInv, OwnerGone, Moves, StaysAt, Does
  <1> QED BY <1>1, <1>2

LEMMA UserStaysGone ==
  ASSUME DeletionInv, Moves, UserStays
  PROVE  UserGone'
  BY DEF DeletionInv, UserGone, UserStays, Moves, Owner, Elsewhere

(* Where the revocations go on and no session is made, old tokens end.     *)
LEMMA TokensStayExcused ==
  ASSUME DeletionInv, Moves, UserStays, issued' = issued,
         overtaken \subseteq overtaken', cut \subseteq cut',
         \A x \in rows' \ rows : x[1] # "session",
         \A h \in Requests : StaysAt({"revoke", "revoking"}, work[h], work'[h])
  PROVE  TokensFit'
  <1> SUFFICES ASSUME NEW t \in SessionTokens, LoggedIn(t)',
                      user' = NoUser \/ issued'[t] # user'.password
               PROVE  Excused(t)'
    BY DEF TokensFit
  <1>1. LoggedIn(t)
    BY DEF LoggedIn
  <1>2. Excused(t)
    BY <1>1 DEF DeletionInv, TokensFit, UserStays
  <1> QED BY <1>2 DEF Excused, Moves, StaysAt, Does, LoggedIn

----------------------------------------------------------------------------
(* What a step must leave in order for the invariant, apart from the       *)
(* invocations.                                                            *)
Orderly ==
  /\ TablesTypeOK' /\ Moves /\ UserStays
  /\ issued' = issued /\ overtaken \subseteq overtaken' /\ cut \subseteq cut'
  /\ \A x \in rows' \ rows : x[1] # "session"
  /\ Owner \in rows => Owner \in rows'
  /\ Owner \notin late'
  /\ ObjectsHavePictures'

(* A step of one invocation that keeps its duty.                           *)
LEMMA Turn ==
  ASSUME DeletionInv, Orderly, NEW h \in Requests, NEW w \in Work \cup {NoWork},
         work' = [work EXCEPT ![h] = w], w # NoWork => Fits(w)', DutyKept(work[h], w)
  PROVE  DeletionInv'
  <1>1. work' \in [Requests -> Work \cup {NoWork}] /\ WorkFits'
    BY TurnFits DEF Orderly
  <1>2. \A g \in Requests : DutyKept(work[g], work'[g])
    BY DEF DutyKept, StaysAt, DeletionInv, DeletionTypeOK
  <1>3. OwnerGone'
    BY <1>2, OwnerStaysGone DEF Orderly, DutyKept, StaysAt
  <1>4. UserGone'
    BY UserStaysGone DEF Orderly
  <1>5. TokensFit'
    BY <1>2, TokensStayExcused DEF Orderly, DutyKept, StaysAt
  <1> QED BY <1>1, <1>3, <1>4, <1>5
          DEF Orderly, DeletionInv, DeletionTypeOK, TablesTypeOK, Owner

(* A step of nobody.                                                       *)
LEMMA Idle ==
  ASSUME DeletionInv, Orderly, work' = work
  PROVE  DeletionInv'
  <1>1. work \in [Requests -> Work \cup {NoWork}]
    BY DEF DeletionInv, DeletionTypeOK
  <1>2. ASSUME NEW g \in Requests, NEW v, v = work[g], v # NoWork
        PROVE  Fits(v)'
    <2>1. v \in Work
      BY <1>1, <1>2
    <2> QED BY <1>2, <2>1, OtherFits DEF Orderly
  <1>3. WorkFits'
    BY <1>2 DEF WorkFits, Fits, ListFits, PasswordFits, CascadeFits
  <1>4. OwnerGone'
    BY OwnerStaysGone DEF Orderly, StaysAt
  <1>5. UserGone'
    BY UserStaysGone DEF Orderly
  <1>6. TokensFit'
    BY TokensStayExcused DEF Orderly, StaysAt
  <1> QED BY <1>1, <1>3, <1>4, <1>5, <1>6
          DEF Orderly, DeletionInv, DeletionTypeOK, TablesTypeOK, Owner

(* A step that only reads.                                                 *)
LEMMA Reads ==
  ASSUME DeletionInv, UNCHANGED <<user, rows, issued, joining, passwords, history>>,
         requests' \in 0..MaxRequests
  PROVE  Orderly
  BY DEF Orderly, DeletionInv, DeletionTypeOK, TablesTypeOK, Moves, UserStays, history,
         ObjectsHavePictures, Owner

----------------------------------------------------------------------------
(* The requests.                                                           *)
LEMMA StartsFit ==
  ASSUME DeletionInv, NEW h \in Requests, NEW t \in SessionTokens \cup {NoToken},
         NEW step \in {"login", "touch", "change", "address", "memberships"},
         step = "login" => user # NoUser,
         Start(h, Started(step, t)),
         UNCHANGED <<user, rows, issued, joining, passwords, history>>
  PROVE  DeletionInv'
  <1>1. Started(step, t) \in Work
    <2>1. user = NoUser \/ user.password \in 0..MaxPasswords
      BY DEF DeletionInv, DeletionTypeOK, User
    <2> QED BY <2>1, CountAssumption DEF Started, Work, Stages, CascadeStages
  <1>2. PICK w \in Work : w = Started(step, t)
    BY <1>1
  <1>3. requests' \in 0..MaxRequests
    BY CountAssumption DEF Start, DeletionInv, DeletionTypeOK
  <1>4. Orderly
    BY <1>3, Reads
  <1>5. Fits(w)'
    BY <1>2 DEF Fits, ListFits, PasswordFits, Started, PastStages, CascadeStages
  <1>6. work' = [work EXCEPT ![h] = w] /\ DutyKept(work[h], w)
    BY <1>2 DEF Start, DutyKept, StaysAt
  <1> QED BY <1>4, <1>5, <1>6, Turn

----------------------------------------------------------------------------
(* An invocation that goes on keeps the rest of its record.                *)
LEMMA GoOnMakes ==
  ASSUME DeletionInv, NEW h \in Requests, work[h] # NoWork, NEW step \in Stages,
         NEW list \in SUBSET Belongings, GoOn(h, step, list)
  PROVE  \E w \in Work : /\ work' = [work EXCEPT ![h] = w]
                         /\ w.step = step /\ w.list = list /\ w.mine = work[h].mine
                         /\ w.password = work[h].password
                         /\ w.overtaken = work[h].overtaken
  <1> DEFINE v == work[h]
             w == [v EXCEPT !.step = step, !.list = list]
  <1>1. v \in Work
    BY DEF DeletionInv, DeletionTypeOK
  <1>2. /\ w \in Work /\ w.step = step /\ w.list = list /\ w.mine = v.mine
        /\ w.password = v.password /\ w.overtaken = v.overtaken
    BY <1>1 DEF Work
  <1>3. work' = [work EXCEPT ![h] = w]
    BY DEF GoOn, DeletionInv, DeletionTypeOK
  <1> QED BY <1>2, <1>3

(* An invocation that only reads and goes on to what fits.                 *)
LEMMA ReadsOn ==
  ASSUME DeletionInv, UNCHANGED <<user, rows, issued, joining, counters, history>>,
         NEW h \in Requests, NEW w \in Work \cup {NoWork},
         work' = [work EXCEPT ![h] = w], w # NoWork => Fits(w), DutyKept(work[h], w)
  PROVE  DeletionInv'
  <1>1. requests' \in 0..MaxRequests /\ UNCHANGED <<user, rows, issued, joining, passwords,
                                                    history>>
    BY DEF counters, DeletionInv, DeletionTypeOK
  <1>2. Orderly
    BY <1>1, Reads
  <1>3. w # NoWork => Fits(w)'
    BY DEF Fits, ListFits, PasswordFits, CascadeFits, history, Owner, Elsewhere
  <1> QED BY <1>2, <1>3, Turn

----------------------------------------------------------------------------
(* The stages of a deletion, each of which covers what the one before has  *)
(* deleted and what it lists.                                              *)
LEMMA ListMembershipsFits ==
  ASSUME DeletionInv, NEW h \in Requests, ListMemberships(h)
  PROVE  DeletionInv'
  <1> DEFINE mine == Rows({"elsewhere"}) \cup (rows \cap {Owner})
             v == [work[h] EXCEPT !.step = "walk", !.mine = mine]
  <1>1. work[h] # NoWork /\ work[h] \in Work /\ Fits(work[h])
    BY DEF ListMemberships, Does, DeletionInv, DeletionTypeOK, WorkFits
  <1>2. work[h].step = "memberships" /\ work[h].list = {}
    BY <1>1 DEF ListMemberships, Does, Fits, ListFits, Listed
  <1>3. mine \in SUBSET Belongings
    BY DEF Rows, DeletionInv, DeletionTypeOK
  <1>4. v \in Work /\ v.step = "walk" /\ v.list = {} /\ v.mine = mine
    BY <1>1, <1>2, <1>3 DEF Work, Stages, CascadeStages
  <1>5. work' = [work EXCEPT ![h] = v]
    BY DEF ListMemberships, Owner, DeletionInv, DeletionTypeOK
  <1>6. PICK w \in Work : /\ work' = [work EXCEPT ![h] = w]
                          /\ w.step = "walk" /\ w.list = {} /\ w.mine = mine
    BY <1>4, <1>5
  <1>7. Elsewhere[1] = "elsewhere"
    BY DEF Elsewhere
  <1>8. Fits(w)
    BY <1>6, <1>7 DEF Fits, ListFits, PasswordFits, CascadeFits, Listed, Behind, Rows, Owner
  <1>9. DutyKept(work[h], w)
    BY <1>2 DEF DutyKept, StaysAt
  <1>10. UNCHANGED <<user, rows, issued, joining, counters, history>>
    BY DEF ListMemberships
  <1> QED BY <1>6, <1>8, <1>9, <1>10, ReadsOn

LEMMA ListRoomAssetsFits ==
  ASSUME DeletionInv, NEW h \in Requests, ListRoomAssets(h)
  PROVE  DeletionInv'
  <1> DEFINE mine == work[h].mine \ {Owner}
             list == {x \in Belongings : /\ x[1] \in {"picture", "object"}
                                         /\ <<"picture", x[2]>> \in rows}
             v == [work[h] EXCEPT !.step = "pictures", !.mine = mine, !.list = list]
  <1>1. work[h] # NoWork /\ work[h] \in Work /\ Fits(work[h])
    BY DEF ListRoomAssets, Does, DeletionInv, DeletionTypeOK, WorkFits
  <1>2. work[h].step = "walk" /\ CascadeFits(work[h])
    BY <1>1 DEF ListRoomAssets, Does, Fits, PastStages, CascadeStages
  <1>3. v \in Work /\ v.step = "pictures" /\ v.list = list /\ v.mine = mine
    BY <1>1 DEF Work, Stages, CascadeStages
  <1>4. work' = [work EXCEPT ![h] = v]
    BY DEF ListRoomAssets, Owner, DeletionInv, DeletionTypeOK
  <1>5. PICK w \in Work : /\ work' = [work EXCEPT ![h] = w]
                          /\ w.step = "pictures" /\ w.list = list /\ w.mine = mine
    BY <1>3, <1>4
  <1>6. ASSUME NEW x \in rows, x[1] \in {"picture", "object"}
        PROVE  x \in late \/ x \in list
    <2>1. x \in Belongings /\ rows \subseteq Belongings
      BY DEF DeletionInv, DeletionTypeOK
    <2>2. \E p \in Pictures : x = <<"picture", p>> \/ x = <<"object", p>>
      BY <1>6, <2>1 DEF Belongings, Of
    <2> QED BY <2>1, <2>2 DEF DeletionInv, ObjectsHavePictures
  <1>7. Fits(w)
    <2>1. ListFits(w)
      BY <1>5 DEF ListFits, Listed
    <2>2. PasswordFits(w)
      BY <1>5 DEF PasswordFits
    <2>3. CascadeFits(w)
      BY <1>2, <1>5, <1>6 DEF CascadeFits, Behind, Elsewhere, Owner
    <2> QED BY <2>1, <2>2, <2>3 DEF Fits
  <1>8. DutyKept(work[h], w)
    BY <1>2 DEF DutyKept, StaysAt
  <1>9. UNCHANGED <<user, rows, issued, joining, counters, history>>
    BY DEF ListRoomAssets
  <1> QED BY <1>5, <1>7, <1>8, <1>9, ReadsOn

(* From a stage that is done to one that lists the rows of one kind.       *)
LEMMA NextStage ==
  ASSUME DeletionInv, NEW h \in Requests, NEW from \in PastStages, Does(h, from),
         NEW to \in {"invites", "members", "sessions", "links"}, NEW kind,
         Listed(to) = {kind}, Behind(to) \subseteq Behind(from) \cup {kind},
         from # "members", work[h].list = {}, GoOn(h, to, Rows({kind})),
         to \in {"sessions", "links"} => from \in {"walk", "sessions"} /\ work[h].mine = {},
         UNCHANGED <<user, rows, issued, joining, counters, history>>
  PROVE  DeletionInv'
  <1>1. work[h] # NoWork /\ work[h].step = from /\ CascadeFits(work[h])
    BY DEF Does, DeletionInv, WorkFits, Fits
  <1>2. Rows({kind}) \in SUBSET Belongings /\ to \in Stages
    BY DEF Rows, DeletionInv, DeletionTypeOK, Stages, CascadeStages
  <1>3. PICK list \in SUBSET Belongings : list = Rows({kind})
    BY <1>2
  <1>4. PICK w \in Work : /\ work' = [work EXCEPT ![h] = w]
                          /\ w.step = to /\ w.list = list /\ w.mine = work[h].mine
    <2>1. GoOn(h, to, list)
      BY <1>3
    <2> QED BY <1>1, <1>2, <2>1, GoOnMakes
  <1>5. \A x \in rows : x[1] \in Behind(to) => x \in late \/ x \in list
    BY <1>1, <1>3 DEF CascadeFits, Rows
  <1>6. Elsewhere \in rows => Elsewhere \in w.mine
    BY <1>1, <1>4 DEF CascadeFits
  <1>7. Owner \in rows => Owner \in w.mine \/ w.step \in {"pictures", "invites", "members"}
    BY <1>1, <1>4 DEF CascadeFits
  <1>8. Fits(w)
    <2>1. ListFits(w)
      BY <1>3, <1>4 DEF ListFits, Rows
    <2>2. PasswordFits(w)
      BY <1>4 DEF PasswordFits
    <2>3. CascadeFits(w)
      BY <1>4, <1>5, <1>6, <1>7 DEF CascadeFits
    <2> QED BY <2>1, <2>2, <2>3 DEF Fits
  <1>9. DutyKept(work[h], w)
    BY <1>1 DEF DutyKept, StaysAt, PastStages, CascadeStages
  <1> QED BY <1>4, <1>8, <1>9, ReadsOn

LEMMA ListsFit ==
  ASSUME DeletionInv, NEW h \in Requests,
         ListInvites(h) \/ ListMembers(h) \/ ScanSessions(h) \/ ScanLinks(h)
  PROVE  DeletionInv'
  <1> USE DEF PastStages, CascadeStages, Listed, Behind
  <1>1. CASE ListInvites(h)
    BY <1>1, NextStage DEF ListInvites
  <1>2. CASE ListMembers(h)
    BY <1>2, NextStage DEF ListMembers
  <1>3. CASE ScanSessions(h)
    <2>1. work[h].list = {}
      BY <1>3 DEF ScanSessions, Does, DeletionInv, WorkFits, Fits, ListFits
    <2> QED BY <1>3, <2>1, NextStage DEF ScanSessions
  <1>4. CASE ScanLinks(h)
    <2>1. work[h].mine = {}
      BY <1>4 DEF ScanLinks, Does, DeletionInv, WorkFits, Fits, CascadeFits
    <2> QED BY <1>4, <2>1, NextStage DEF ScanLinks
  <1> QED BY <1>1, <1>2, <1>3, <1>4

----------------------------------------------------------------------------
(* The deletions of rows.                                                  *)

(* A row that is neither the owner's nor an asset's may go at any time.    *)
LEMMA RowsGo ==
  ASSUME DeletionInv, NEW gone, rows' = rows \ gone, Owner \notin gone,
         \A x \in gone : x[1] # "picture",
         UNCHANGED <<user, issued, joining, counters, history>>
  PROVE  Orderly
  <1>1. Moves
    BY DeletesMove DEF history
  <1>2. ObjectsHavePictures'
    BY DEF DeletionInv, ObjectsHavePictures, history
  <1> QED BY <1>1, <1>2 DEF Orderly, DeletionInv, DeletionTypeOK, TablesTypeOK, counters,
             history, UserStays, Owner

LEMMA LeaveRoomFits ==
  ASSUME DeletionInv, NEW h \in Requests, LeaveRoom(h)
  PROVE  DeletionInv'
  <1> DEFINE mine == work[h].mine \ {Elsewhere}
             v == [work[h] EXCEPT !.mine = mine]
  <1>1. work[h] # NoWork /\ work[h] \in Work /\ Fits(work[h])
    BY DEF LeaveRoom, Does, DeletionInv, DeletionTypeOK, WorkFits
  <1>2. work[h].step = "walk" /\ CascadeFits(work[h])
    BY <1>1 DEF LeaveRoom, Does, Fits, PastStages, CascadeStages
  <1>3. v \in Work /\ v.step = "walk" /\ v.list = work[h].list /\ v.mine = mine
    BY <1>1, <1>2 DEF Work
  <1>4. work' = [work EXCEPT ![h] = v]
    BY DEF LeaveRoom, Elsewhere, DeletionInv, DeletionTypeOK
  <1>5. PICK w \in Work : /\ work' = [work EXCEPT ![h] = w] /\ w.step = "walk"
                          /\ w.list = work[h].list /\ w.mine = mine
    BY <1>3, <1>4
  <1>6. Orderly
    <2>1. PICK gone : gone = {Elsewhere}
      OBVIOUS
    <2>2. rows' = rows \ gone /\ Owner \notin gone /\ \A x \in gone : x[1] # "picture"
      BY <2>1 DEF LeaveRoom, Owner, Elsewhere
    <2>3. UNCHANGED <<user, issued, joining, counters, history>>
      BY DEF LeaveRoom
    <2> QED BY <2>1, <2>2, <2>3, RowsGo
  <1>7. Fits(w)'
    <2>1. ListFits(w)'
      BY <1>1, <1>2, <1>5 DEF Fits, ListFits
    <2>2. PasswordFits(w)'
      BY <1>5 DEF PasswordFits
    <2>3. Elsewhere # Owner
      BY DEF Elsewhere, Owner
    <2>4. CascadeFits(w)'
      BY <1>2, <1>5, <2>3 DEF CascadeFits, Behind, LeaveRoom, Elsewhere, Owner
    <2> QED BY <2>1, <2>2, <2>4 DEF Fits
  <1>8. DutyKept(work[h], w)
    BY <1>2 DEF DutyKept, StaysAt
  <1> QED BY <1>5, <1>6, <1>7, <1>8, Turn

(* A step of one invocation for which two of the promises are shown apart. *)
LEMMA TurnApart ==
  ASSUME DeletionInv, TablesTypeOK', Moves, UserStays, Owner \notin late',
         ObjectsHavePictures', OwnerGone', TokensFit',
         NEW h \in Requests, NEW w \in Work \cup {NoWork},
         work' = [work EXCEPT ![h] = w], w # NoWork => Fits(w)'
  PROVE  DeletionInv'
  <1>1. work' \in [Requests -> Work \cup {NoWork}] /\ WorkFits'
    BY TurnFits
  <1>2. UserGone'
    BY UserStaysGone
  <1> QED BY <1>1, <1>2 DEF DeletionInv, DeletionTypeOK, TablesTypeOK, Owner

LEMMA EraseRoomFits ==
  ASSUME DeletionInv, NEW h \in Requests, EraseRoom(h)
  PROVE  DeletionInv'
  <1>1. work[h] # NoWork /\ Fits(work[h]) /\ work[h].step = "members" /\ work[h].list = {}
    BY DEF EraseRoom, Does, DeletionInv, WorkFits
  <1>2. CascadeFits(work[h])
    BY <1>1 DEF Fits, PastStages, CascadeStages
  <1>3. PICK w \in Work : /\ work' = [work EXCEPT ![h] = w]
                          /\ w.step = "walk" /\ w.list = {} /\ w.mine = work[h].mine
    BY <1>1, GoOnMakes DEF EraseRoom, Stages, CascadeStages
  <1>4. UNCHANGED <<user, issued, joining, counters, history>>
    BY DEF EraseRoom
  <1>5. Orderly
    <2>1. PICK gone : gone = {<<"room", Me>>}
      OBVIOUS
    <2>2. rows' = rows \ gone /\ Owner \notin gone /\ \A x \in gone : x[1] # "picture"
      BY <2>1 DEF EraseRoom, Owner
    <2> QED BY <1>4, <2>2, RowsGo
  <1>6. Owner \notin rows
    <2>1. Owner[1] = "member" /\ Owner \notin late
      BY DEF Owner, DeletionInv
    <2> QED BY <1>1, <1>2, <2>1 DEF CascadeFits, Behind
  <1>7. OwnerGone'
    <2>1. ASSUME NEW x \in rows', x[1] \in {"picture", "object", "invite"}
          PROVE  x \in late'
      BY <1>4, <1>6, <2>1 DEF EraseRoom, DeletionInv, OwnerGone, history
    <2>2. ASSUME NEW x \in rows', x[1] = "member" PROVE x \in late'
      BY <1>1, <1>2, <1>4, <2>2 DEF EraseRoom, CascadeFits, Behind, history
    <2>3. ASSUME NEW x \in rows' PROVE x[1] # "room"
      <3>1. x \in Belongings /\ x # <<"room", Me>>
        BY DEF EraseRoom, DeletionInv, DeletionTypeOK
      <3> QED BY <3>1 DEF Belongings, Of
    <2> QED BY <2>1, <2>2, <2>3 DEF OwnerGone, Owner
  <1>8. TokensFit'
    <2>1. \A g \in Requests : StaysAt({"revoke", "revoking"}, work[g], work'[g])
      BY <1>1, <1>3 DEF StaysAt, DeletionInv, DeletionTypeOK
    <2> QED BY <1>5, <2>1, TokensStayExcused DEF Orderly
  <1>9. Fits(w)'
    <2>1. Elsewhere \in rows' => Elsewhere \in w.mine
      BY <1>2, <1>3 DEF EraseRoom, CascadeFits, Elsewhere
    <2>2. Owner \notin rows'
      BY <1>6 DEF EraseRoom
    <2> QED BY <1>3, <2>1, <2>2
            DEF Fits, ListFits, PasswordFits, CascadeFits, Behind, Elsewhere, Owner
  <1> QED BY <1>3, <1>5, <1>7, <1>8, <1>9, TurnApart DEF Orderly

LEMMA EraseListedFits ==
  ASSUME DeletionInv, NEW h \in Requests, NEW x \in Belongings, EraseListed(h, x)
  PROVE  DeletionInv'
  <1> DEFINE v == [work[h] EXCEPT !.list = @ \ {x}]
  <1>1. work[h] # NoWork /\ work[h] \in Work /\ Fits(work[h]) /\ x \in work[h].list
    BY DEF EraseListed, Deleting, Does, DeletionInv, DeletionTypeOK, WorkFits
  <1>2. x[1] \in Listed(work[h].step)
    BY <1>1 DEF Fits, ListFits
  <1>3. /\ v \in Work /\ v.step = work[h].step /\ v.list = work[h].list \ {x}
        /\ v.mine = work[h].mine /\ v.password = work[h].password
        /\ v.overtaken = work[h].overtaken
    BY <1>1 DEF Work
  <1>4. work' = [work EXCEPT ![h] = v]
    BY DEF EraseListed, DeletionInv, DeletionTypeOK
  <1>5. PICK w \in Work :
          /\ work' = [work EXCEPT ![h] = w]
          /\ w.step = work[h].step /\ w.list = work[h].list \ {x} /\ w.mine = work[h].mine
          /\ w.password = work[h].password /\ w.overtaken = work[h].overtaken
    BY <1>3, <1>4
  <1>6. rows' = rows \ {x} /\ UNCHANGED <<user, issued, joining, counters, history>>
    BY DEF EraseListed
  <1>7. Moves /\ UserStays /\ TablesTypeOK'
    BY <1>6, DeletesMove
       DEF UserStays, TablesTypeOK, DeletionInv, DeletionTypeOK, counters, history
  <1>8. Fits(w)'
    <2>1. ListFits(w)' /\ PasswordFits(w)'
      BY <1>1, <1>5, <1>6 DEF Fits, ListFits, PasswordFits
    <2>2. ASSUME w.step \in PastStages PROVE CascadeFits(w)'
      <3>1. CascadeFits(work[h])
        BY <1>1, <1>5, <2>2 DEF Fits
      <3> QED BY <1>5, <1>6, <3>1 DEF CascadeFits, history, Owner, Elsewhere
    <2> QED BY <2>1, <2>2 DEF Fits
  <1>9. \A g \in Requests : DutyKept(work[g], work'[g])
    <2>1. w # NoWork
      BY SentinelAssumption
    <2>2. ASSUME NEW g \in Requests PROVE DutyKept(work[g], work'[g])
      <3>1. CASE g = h
        <4>1. work'[g] = w /\ work[g] = work[h]
          BY <1>5, <3>1 DEF DeletionInv, DeletionTypeOK
        <4> QED BY <1>5, <1>6, <2>1, <4>1 DEF DutyKept, StaysAt
      <3>2. CASE g # h
        BY <1>5, <3>2 DEF DutyKept, StaysAt, DeletionInv, DeletionTypeOK
      <3> QED BY <3>1, <3>2
    <2> QED BY <2>2
  <1>10. ObjectsHavePictures'
    <2> SUFFICES ASSUME NEW p \in Pictures, <<"object", p>> \in rows'
                 PROVE  <<"picture", p>> \in rows' \/ <<"object", p>> \in late'
      BY DEF ObjectsHavePictures
    <2>1. CASE x # <<"picture", p>>
      BY <1>6, <2>1 DEF DeletionInv, ObjectsHavePictures, history
    <2>2. CASE x = <<"picture", p>>
      <3>1. work[h].step = "pictures" /\ CascadeFits(work[h])
        BY <1>1, <1>2, <2>2 DEF Listed, Fits, PastStages, CascadeStages
      <3>2. <<"object", p>> \notin work[h].list
        BY <2>2 DEF EraseListed
      <3> QED BY <1>6, <3>1, <3>2 DEF CascadeFits, Behind, history
    <2> QED BY <2>1, <2>2
  <1>11. OwnerGone'
    <2>1. CASE x # Owner
      BY <1>6, <1>7, <1>9, <2>1, OwnerStaysGone DEF DutyKept, StaysAt, history
    <2>2. CASE x = Owner
      <3>1. work[h].step = "members" /\ CascadeFits(work[h])
        BY <1>1, <1>2, <2>2 DEF Owner, Listed, Fits, PastStages, CascadeStages
      <3>2. work'[h] = w
        BY <1>5 DEF DeletionInv, DeletionTypeOK
      <3>3. ASSUME NEW y \in rows', y[1] \in {"picture", "object", "invite"}
            PROVE  y \in late'
        <4>1. y \in late \/ y \in work[h].list
          BY <1>6, <3>1, <3>3 DEF CascadeFits, Behind
        <4>2. y \notin work[h].list
          BY <1>1, <3>1, <3>3 DEF Fits, ListFits, Listed
        <4> QED BY <1>6, <4>1, <4>2 DEF history
      <3>4. ASSUME NEW y \in rows', y[1] = "member" PROVE y \in late' \/ y \in w.list
        BY <1>5, <1>6, <3>1, <3>4 DEF CascadeFits, Behind, history
      <3>5. Does(h, "members")'
        BY <1>1, <1>5, <3>1, <3>2, SentinelAssumption DEF Does
      <3> QED BY <3>2, <3>3, <3>4, <3>5 DEF OwnerGone, Owner
    <2> QED BY <2>1, <2>2
  <1>12. TokensFit'
    BY <1>6, <1>7, <1>9, TokensStayExcused DEF DutyKept, StaysAt, history
  <1>13. Owner \notin late'
    BY <1>6 DEF DeletionInv, history, Owner
  <1> QED BY <1>5, <1>7, <1>8, <1>10, <1>11, <1>12, <1>13, TurnApart

LEMMA KeepObjectFits ==
  ASSUME DeletionInv, NEW h \in Requests, NEW x \in Belongings, KeepObject(h, x)
  PROVE  DeletionInv'
  <1> DEFINE v == [work[h] EXCEPT !.list = @ \ {x}]
  <1>1. work[h] # NoWork /\ work[h] \in Work /\ Fits(work[h]) /\ work[h].step = "pictures"
    BY DEF KeepObject, Does, DeletionInv, DeletionTypeOK, WorkFits
  <1>2. /\ v \in Work /\ v.step = "pictures" /\ v.list = work[h].list \ {x}
        /\ v.mine = work[h].mine
    BY <1>1 DEF Work
  <1>3. work' = [work EXCEPT ![h] = v]
    BY DEF KeepObject, DeletionInv, DeletionTypeOK
  <1>4. PICK w \in Work :
          /\ work' = [work EXCEPT ![h] = w] /\ w.step = "pictures"
          /\ w.list = work[h].list \ {x} /\ w.mine = work[h].mine
    BY <1>2, <1>3
  <1>5. UNCHANGED <<user, rows, issued, joining, counters, overtaken, cut>>
        /\ late' = late \cup {x} /\ x[1] = "object"
    BY DEF KeepObject
  <1>6. Orderly
    <2>1. Owner[1] = "member"
      BY DEF Owner
    <2>2. Moves
      BY <1>5, DeletesMove
    <2> QED BY <1>5, <2>1, <2>2 DEF Orderly, DeletionInv, DeletionTypeOK, TablesTypeOK,
               counters, UserStays, ObjectsHavePictures, Owner
  <1>7. Fits(w)'
    <2>1. CascadeFits(work[h])
      BY <1>1 DEF Fits, PastStages, CascadeStages
    <2>2. CascadeFits(w)'
      BY <1>1, <1>4, <1>5, <2>1 DEF CascadeFits, Elsewhere, Owner
    <2> QED BY <1>1, <1>4, <2>2 DEF Fits, ListFits, PasswordFits
  <1>8. DutyKept(work[h], w)
    BY <1>1 DEF DutyKept, StaysAt
  <1> QED BY <1>4, <1>6, <1>7, <1>8, Turn

(* The scan of a revocation has every session there is, and takes over the *)
(* excuse of having been about to scan.                                    *)
LEMMA RevokeSessionsFits ==
  ASSUME DeletionInv, NEW h \in Requests, RevokeSessions(h)
  PROVE  DeletionInv'
  <1>1. work[h] # NoWork /\ Fits(work[h]) /\ work[h].step = "revoke"
    BY DEF RevokeSessions, Does, DeletionInv, WorkFits
  <1>2. PICK list \in SUBSET Belongings : list = Rows({"session"})
    BY DEF Rows, DeletionInv, DeletionTypeOK
  <1>3. PICK w \in Work : /\ work' = [work EXCEPT ![h] = w] /\ w.step = "revoking"
                          /\ w.list = list /\ w.password = work[h].password
                          /\ w.overtaken = work[h].overtaken
    BY <1>1, <1>2, GoOnMakes DEF RevokeSessions, Stages, CascadeStages
  <1>4. UNCHANGED <<user, rows, issued, joining, counters, history>>
    BY DEF RevokeSessions
  <1>5. Orderly
    <2>1. requests' \in 0..MaxRequests /\ UNCHANGED <<user, rows, issued, joining,
                                                      passwords, history>>
      BY <1>4 DEF counters, DeletionInv, DeletionTypeOK
    <2> QED BY <2>1, Reads
  <1>6. Fits(w)'
    <2>1. Fits(w)
      BY <1>1, <1>2, <1>3 DEF Fits, ListFits, PasswordFits, Listed, Rows, PastStages,
                              CascadeStages
    <2> QED BY <1>3, <1>4, <2>1
            DEF Fits, ListFits, PasswordFits, PastStages, CascadeStages
  <1>7. \A g \in Requests : g # h => work'[g] = work[g]
    BY <1>3 DEF DeletionInv, DeletionTypeOK
  <1>8. work'[h] = w /\ w # NoWork
    BY <1>3, SentinelAssumption DEF DeletionInv, DeletionTypeOK
  <1>9. OwnerGone'
    <2>1. \A g \in Requests : StaysAt({"members"}, work[g], work'[g])
      BY <1>1, <1>7 DEF StaysAt
    <2> QED BY <1>5, <2>1, OwnerStaysGone DEF Orderly
  <1>10. TokensFit'
    <2> SUFFICES ASSUME NEW t \in SessionTokens, LoggedIn(t)' PROVE Excused(t)'
      BY DEF TokensFit
    <2>1. <<"session", t>> \in w.list
      BY <1>2, <1>3, <1>4 DEF LoggedIn, Rows
    <2> QED BY <1>3, <1>8, <2>1 DEF Excused, Does
  <1> QED BY <1>3, <1>5, <1>6, <1>9, <1>10, TurnApart DEF Orderly

(* An invocation that ends has nothing left to be right about.             *)
LEMMA EndMakes ==
  ASSUME NEW h \in Requests, End(h)
  PROVE  \E w \in Work \cup {NoWork} : work' = [work EXCEPT ![h] = w] /\ w = NoWork
  BY DEF End

LEMMA StopFits ==
  ASSUME DeletionInv, NEW h \in Requests, Stop(h)
  PROVE  DeletionInv'
  <1>1. PICK w \in Work \cup {NoWork} : work' = [work EXCEPT ![h] = w] /\ w = NoWork
    BY EndMakes DEF Stop
  <1>2. /\ work[h] # NoWork
        /\ UNCHANGED <<user, rows, issued, joining, counters, overtaken, late>>
    BY DEF Stop
  <1>3. cut \subseteq cut' /\ cut' \subseteq {"room", "tokens"}
    BY DEF Stop, DeletionInv, DeletionTypeOK
  <1>4. Orderly
    BY <1>2, <1>3 DEF Orderly, DeletionInv, DeletionTypeOK, TablesTypeOK, Moves, UserStays,
       counters, ObjectsHavePictures, Owner
  <1>5. \A g \in Requests : g # h => work'[g] = work[g]
    BY <1>1 DEF DeletionInv, DeletionTypeOK
  <1>6. OwnerGone'
    <2>1. CASE work[h].step = "members" /\ Owner \notin rows
      <3>1. "room" \in cut'
        BY <1>2, <2>1 DEF Stop, Does, Owner
      <3>2. \A x \in rows' : x[1] \in {"picture", "object", "invite"} => x \in late'
        BY <1>2, <2>1 DEF DeletionInv, OwnerGone
      <3> QED BY <3>1, <3>2 DEF OwnerGone
    <2>2. CASE work[h].step # "members"
      <3>1. \A g \in Requests : StaysAt({"members"}, work[g], work'[g])
        BY <1>5, <2>2 DEF StaysAt
      <3> QED BY <1>4, <3>1, OwnerStaysGone DEF Orderly
    <2>3. CASE Owner \in rows
      BY <1>2, <2>3 DEF OwnerGone, Owner
    <2> QED BY <2>1, <2>2, <2>3
  <1>7. TokensFit'
    <2>1. CASE work[h].step \in {"revoke", "revoking"}
      <3>1. "tokens" \in cut'
        BY <1>2, <2>1 DEF Stop, Does
      <3> QED BY <3>1 DEF TokensFit, Excused
    <2>2. CASE work[h].step \notin {"revoke", "revoking"}
      <3>1. \A g \in Requests : StaysAt({"revoke", "revoking"}, work[g], work'[g])
        BY <1>5, <2>2 DEF StaysAt
      <3> QED BY <1>4, <3>1, TokensStayExcused DEF Orderly
    <2> QED BY <2>1, <2>2
  <1> QED BY <1>1, <1>4, <1>6, <1>7, TurnApart DEF Orderly

----------------------------------------------------------------------------
(* A session is opened with a password that was current when its request   *)
(* was last looked at: it still is, or the request has been overtaken.     *)
LEMMA CreateSessionFits ==
  ASSUME DeletionInv, NEW h \in Requests, NEW t \in SessionTokens, CreateSession(h, t)
  PROVE  DeletionInv'
  <1>1. /\ work[h] # NoWork /\ work[h] \in Work /\ Fits(work[h])
        /\ work[h].step \in {"login", "revoking"}
        /\ work[h].step = "revoking" => work[h].list = {}
    BY DEF CreateSession, Does, DeletionInv, DeletionTypeOK, WorkFits
  <1>2. PICK w \in Work \cup {NoWork} : work' = [work EXCEPT ![h] = w] /\ w = NoWork
    BY EndMakes DEF CreateSession
  <1>3. PICK new : new = {<<"session", t>>}
    OBVIOUS
  <1>4. /\ rows' = rows \cup new /\ late' = LateWith(new)
        /\ issued' = [issued EXCEPT ![t] = work[h].password]
        /\ overtaken' = IF work[h].overtaken THEN overtaken \cup {t} ELSE overtaken
        /\ UNCHANGED <<user, joining, counters, cut>>
    BY <1>3 DEF CreateSession
  <1>5. Moves
    <2>1. \A x \in new : x[1] \notin {"elsewhere", "invite"} /\ x # Owner
      BY <1>3 DEF Owner
    <2> QED BY <1>4, <2>1, WritesMove
  <1>6. new \subseteq Belongings
    BY <1>3 DEF Belongings, Of
  <1>7. TablesTypeOK'
    <2>1. issued' \in [SessionTokens -> 0..MaxPasswords]
      BY <1>1, <1>4 DEF DeletionInv, DeletionTypeOK, Work
    <2>2. late' \subseteq late \cup new
      BY <1>4 DEF LateWith
    <2> QED BY <1>4, <1>6, <2>1, <2>2
            DEF TablesTypeOK, DeletionInv, DeletionTypeOK, counters
  <1>8. UserStays
    BY <1>4 DEF UserStays
  <1>9. Owner \notin late'
    BY <1>3, <1>4 DEF LateWith, DeletionInv, Owner
  <1>10. ObjectsHavePictures'
    BY <1>3, <1>4, <1>5 DEF ObjectsHavePictures, DeletionInv, Moves
  <1>11. \A g \in Requests : g # h => work'[g] = work[g]
    BY <1>2 DEF DeletionInv, DeletionTypeOK
  <1>12. OwnerGone'
    <2>1. \A g \in Requests : StaysAt({"members"}, work[g], work'[g])
      BY <1>1, <1>11 DEF StaysAt
    <2>2. Owner \in rows => Owner \in rows'
      BY <1>4
    <2> QED BY <1>4, <1>5, <2>1, <2>2, OwnerStaysGone
  <1>13. TokensFit'
    <2> SUFFICES ASSUME NEW s \in SessionTokens, LoggedIn(s)',
                        user' = NoUser \/ issued'[s] # user'.password
                 PROVE  Excused(s)'
      BY DEF TokensFit
    <2>1. CASE s = t
      <3>1. issued'[s] = work[h].password
        BY <1>4, <2>1 DEF DeletionInv, DeletionTypeOK
      <3>2. work[h].overtaken
        BY <1>1, <1>4, <3>1 DEF Fits, PasswordFits
      <3> QED BY <1>4, <2>1, <3>2 DEF Excused
    <2>2. CASE s # t
      <3>1. LoggedIn(s)
        BY <1>3, <1>4, <2>2 DEF LoggedIn
      <3>2. issued'[s] = issued[s]
        BY <1>4, <2>2 DEF DeletionInv, DeletionTypeOK
      <3>3. Excused(s)
        BY <1>4, <3>1, <3>2 DEF DeletionInv, TokensFit
      <3>4. late \subseteq late'
        BY <1>5 DEF Moves
      <3> QED BY <1>1, <1>4, <1>11, <3>3, <3>4 DEF Excused, Does
    <2> QED BY <2>1, <2>2
  <1> QED BY <1>2, <1>5, <1>7, <1>8, <1>9, <1>10, <1>12, <1>13, TurnApart

(* The steps that overtake: the others keep their steps and their lists.   *)
LEMMA Overtaking ==
  ASSUME DeletionInv, TablesTypeOK', UNCHANGED <<rows, issued, history>>,
         NEW h \in Requests, NEW w \in Work \cup {NoWork}, Overtake(h, w),
         w # NoWork => Fits(w)',
         work[h] # NoWork => work[h].step \notin {"members", "revoke", "revoking"},
         UserGone', TokensFit'
  PROVE  DeletionInv'
  <1>1. Moves
    BY DeletesMove DEF history
  <1>2. /\ work' \in [Requests -> Work \cup {NoWork}] /\ WorkFits'
        /\ \A g \in Requests \ {h} :
             work[g] # NoWork => /\ work'[g] # NoWork /\ work'[g].step = work[g].step
                                 /\ work'[g].list = work[g].list
    BY <1>1, OvertakeFits
  <1>3. OwnerGone'
    <2>1. \A g \in Requests : StaysAt({"members"}, work[g], work'[g])
      BY <1>2 DEF StaysAt
    <2> QED BY <1>1, <2>1, OwnerStaysGone DEF history
  <1>4. ObjectsHavePictures' /\ Owner \notin late'
    BY DEF DeletionInv, ObjectsHavePictures, history, Owner
  <1> QED BY <1>2, <1>3, <1>4 DEF DeletionInv, DeletionTypeOK, TablesTypeOK, Owner

(* An overtaking step after which the excuses are those from before.       *)
LEMMA ExcusesKept ==
  ASSUME DeletionInv, UNCHANGED <<rows, issued, history>>,
         NEW h \in Requests, NEW w \in Work \cup {NoWork}, Overtake(h, w),
         w # NoWork => Fits(w)',
         work[h] # NoWork => work[h].step \notin {"members", "revoke", "revoking"},
         NEW t \in SessionTokens, Excused(t)
  PROVE  Excused(t)'
  <1>1. Moves
    BY DeletesMove DEF history
  <1>2. \A g \in Requests \ {h} :
          work[g] # NoWork => /\ work'[g] # NoWork /\ work'[g].step = work[g].step
                              /\ work'[g].list = work[g].list
    BY <1>1, OvertakeFits
  <1> QED BY <1>2 DEF Excused, Does, history

LEMMA RegisterAgainFits ==
  ASSUME DeletionInv, NEW h \in Requests, RegisterAgain(h)
  PROVE  DeletionInv'
  <1> DEFINE v == [Started("login", NoToken) EXCEPT !.password = passwords + 1]
  <1>1. passwords + 1 \in 0..MaxPasswords /\ requests + 1 \in 0..MaxRequests
    BY CountAssumption DEF RegisterAgain, DeletionInv, DeletionTypeOK
  <1>2. v \in Work /\ v.step = "login" /\ v.list = {} /\ v.password = passwords + 1
    BY <1>1, CountAssumption DEF Started, RegisterAgain, Work, Stages, CascadeStages
  <1>3. PICK w \in Work : Overtake(h, w) /\ w.step = "login" /\ w.list = {}
                          /\ w.password = passwords + 1
    BY <1>2 DEF RegisterAgain
  <1>4. PICK n : n = passwords + 1 /\ user' = [password |-> n, whole |-> TRUE]
    BY DEF RegisterAgain
  <1>5. user' \in User /\ user' # NoUser /\ user'.password = n
    <2>1. n \in 0..MaxPasswords
      BY <1>1, <1>4
    <2>2. user' \in User
      BY <1>4, <2>1 DEF User
    <2> QED BY <1>4, <2>2, SentinelAssumption
  <1>6. TablesTypeOK'
    BY <1>1, <1>5
       DEF RegisterAgain, TablesTypeOK, DeletionInv, DeletionTypeOK, history
  <1>7. Fits(w)'
    BY <1>3, <1>4, <1>5 DEF Fits, ListFits, PasswordFits, PastStages, CascadeStages
  <1>8. work[h] = NoWork /\ user = NoUser /\ UNCHANGED <<rows, issued, history>>
    BY DEF RegisterAgain
  <1>9. UserGone'
    BY <1>5 DEF UserGone
  <1>10. TokensFit'
    <2> SUFFICES ASSUME NEW t \in SessionTokens, LoggedIn(t)' PROVE Excused(t)'
      BY DEF TokensFit
    <2>1. Excused(t)
      BY <1>8 DEF DeletionInv, TokensFit, LoggedIn
    <2> QED BY <1>3, <1>7, <1>8, <2>1, ExcusesKept
  <1> QED BY <1>3, <1>6, <1>7, <1>8, <1>9, <1>10, Overtaking

LEMMA UpdateAccountPasswordFits ==
  ASSUME DeletionInv, NEW h \in Requests, UpdateAccountPassword(h)
  PROVE  DeletionInv'
  <1> DEFINE v == [work[h] EXCEPT !.step = "revoke", !.password = passwords + 1]
  <1>1. /\ work[h] # NoWork /\ work[h] \in Work /\ Fits(work[h]) /\ work[h].step = "change"
    BY DEF UpdateAccountPassword, Does, DeletionInv, DeletionTypeOK, WorkFits
  <1>2. work[h].list = {}
    BY <1>1 DEF Fits, ListFits, Listed
  <1>3. passwords + 1 \in 0..MaxPasswords
    BY CountAssumption DEF UpdateAccountPassword, DeletionInv, DeletionTypeOK
  <1>4. v \in Work /\ v.step = "revoke" /\ v.list = {} /\ v.password = passwords + 1
    BY <1>1, <1>2, <1>3 DEF Work, Stages, CascadeStages
  <1>5. PICK w \in Work : Overtake(h, w) /\ w.step = "revoke" /\ w.list = {}
                          /\ w.password = passwords + 1
    BY <1>4 DEF UpdateAccountPassword
  <1>6. PICK n \in Nat, whole \in BOOLEAN :
          n = passwords + 1 /\ user' = [password |-> n, whole |-> whole]
    <2>1. PICK b \in BOOLEAN : b = (user # NoUser /\ user.whole)
      OBVIOUS
    <2>2. user' = [password |-> passwords + 1, whole |-> b]
      BY <2>1 DEF UpdateAccountPassword
    <2> QED BY <1>3, <2>2
  <1>7. user' \in User /\ user' # NoUser /\ user'.password = n
    <2>1. n \in 0..MaxPasswords
      BY <1>3, <1>6
    <2>2. user' \in User
      BY <1>6, <2>1 DEF User
    <2> QED BY <1>6, <2>2, SentinelAssumption
  <1>8. TablesTypeOK'
    BY <1>3, <1>7
       DEF UpdateAccountPassword, TablesTypeOK, DeletionInv, DeletionTypeOK, history
  <1>9. Fits(w)'
    BY <1>5, <1>6, <1>7 DEF Fits, ListFits, PasswordFits, PastStages, CascadeStages
  <1>10. UNCHANGED <<rows, issued, history>>
    BY DEF UpdateAccountPassword
  <1>11. UserGone'
    BY <1>7 DEF UserGone
  <1>12. TokensFit'
    <2>1. Does(h, "revoke")'
      BY <1>5, SentinelAssumption DEF Does, Overtake
    <2> QED BY <2>1 DEF TokensFit, Excused
  <1> QED BY <1>1, <1>5, <1>8, <1>9, <1>10, <1>11, <1>12, Overtaking

(* When the account's row goes, the stages have seen to all the rest.      *)
LEMMA EraseAccountFits ==
  ASSUME DeletionInv, NEW h \in Requests, EraseAccount(h)
  PROVE  DeletionInv'
  <1>1. work[h] # NoWork /\ work[h].step = "links" /\ work[h].list = {} /\ Fits(work[h])
    BY DEF EraseAccount, Does, DeletionInv, WorkFits
  <1>2. CascadeFits(work[h])
    BY <1>1 DEF Fits, PastStages, CascadeStages
  <1>3. UNCHANGED <<rows, issued, joining, counters, history>> /\ user' = NoUser
    BY DEF EraseAccount
  <1>4. UserGone'
    BY <1>1, <1>2, <1>3 DEF UserGone, CascadeFits, Behind, history, Owner, Elsewhere
  <1>5. TokensFit'
    <2> SUFFICES ASSUME NEW t \in SessionTokens, LoggedIn(t)'
                 PROVE  <<"session", t>> \in late'
      BY DEF TokensFit, Excused
    <2> QED BY <1>4, <1>3 DEF UserGone, LoggedIn
  <1>6. TablesTypeOK'
    BY <1>3 DEF TablesTypeOK, DeletionInv, DeletionTypeOK, counters, history
  <1>7. PICK w \in Work \cup {NoWork} : Overtake(h, w) /\ w = NoWork
    BY DEF EraseAccount
  <1> QED BY <1>1, <1>3, <1>4, <1>5, <1>6, <1>7, Overtaking

(* An address may make the row of an account anew, with no password.       *)
LEMMA WriteAddressFits ==
  ASSUME DeletionInv, NEW h \in Requests, WriteAddress(h)
  PROVE  DeletionInv'
  <1>1. work[h] # NoWork /\ work[h].step = "address"
    BY DEF WriteAddress, Does
  <1>2. PICK w \in Work : /\ work' = [work EXCEPT ![h] = w] /\ w.step = "mail"
                          /\ w.list = {}
    BY <1>1, GoOnMakes DEF WriteAddress, Stages, CascadeStages
  <1>3. UserStays /\ user' \in User \cup {NoUser}
    BY CountAssumption
       DEF WriteAddress, UserStays, User, DeletionInv, DeletionTypeOK
  <1>4. UNCHANGED <<rows, issued, joining, counters, history>>
    BY DEF WriteAddress
  <1>5. Orderly
    <2>1. Moves
      BY <1>4, DeletesMove DEF history
    <2> QED BY <1>3, <1>4, <2>1 DEF Orderly, DeletionInv, DeletionTypeOK, TablesTypeOK,
               counters, history, ObjectsHavePictures, Owner
  <1>6. Fits(w)'
    BY <1>2 DEF Fits, ListFits, PasswordFits, PastStages, CascadeStages
  <1>7. DutyKept(work[h], w)
    BY <1>1 DEF DutyKept, StaysAt
  <1> QED BY <1>2, <1>5, <1>6, <1>7, Turn

----------------------------------------------------------------------------
(* Rows that are written meanwhile.                                        *)
LEMMA WritesAreOrderly ==
  ASSUME DeletionInv, NEW new \in SUBSET Belongings,
         \A x \in new : x[1] \in {"picture", "object", "room", "member", "link"},
         Owner \notin new,
         \A p \in Pictures : <<"object", p>> \in new => <<"picture", p>> \in new,
         rows' = rows \cup new, late' = LateWith(new), joining' \subseteq Guests,
         UNCHANGED <<user, issued, counters, overtaken, cut>>
  PROVE  Orderly
  <1>1. Moves
    BY WritesMove
  <1>2. late' \subseteq late \cup new
    BY DEF LateWith
  <1>3. ObjectsHavePictures'
    BY <1>1 DEF ObjectsHavePictures, DeletionInv, Moves
  <1>4. Owner \notin late'
    BY <1>2 DEF DeletionInv, Owner
  <1> QED BY <1>1, <1>2, <1>3, <1>4
          DEF Orderly, DeletionInv, DeletionTypeOK, TablesTypeOK, counters, UserStays

LEMMA WriteLinkFits ==
  ASSUME DeletionInv, NEW h \in Requests, WriteLink(h)
  PROVE  DeletionInv'
  <1>1. PICK w \in Work \cup {NoWork} : work' = [work EXCEPT ![h] = w] /\ w = NoWork
    BY EndMakes DEF WriteLink
  <1>2. PICK new \in SUBSET Belongings : new = {<<"link", Me>>}
    <2>1. <<"link", Me>> \in Belongings
      BY DEF Belongings, Of
    <2> QED BY <2>1
  <1>3. Orderly
    <2>1. Owner \notin new
      BY <1>2 DEF Owner
    <2> QED BY <1>2, <2>1, WritesAreOrderly DEF WriteLink, DeletionInv, DeletionTypeOK
  <1>4. DutyKept(work[h], w)
    BY DEF WriteLink, Does, DutyKept, StaysAt
  <1> QED BY <1>1, <1>3, <1>4, Turn

LEMMA TouchSessionFits ==
  ASSUME DeletionInv, NEW h \in Requests, TouchSession(h)
  PROVE  DeletionInv'
  <1>1. PICK w \in Work \cup {NoWork} : work' = [work EXCEPT ![h] = w] /\ w = NoWork
    BY EndMakes DEF TouchSession
  <1>2. DutyKept(work[h], w)
    BY DEF TouchSession, Does, DutyKept, StaysAt
  <1> QED BY <1>1, <1>2, ReadsOn DEF TouchSession

LEMMA OthersFit ==
  ASSUME DeletionInv,
         \/ \E t \in SessionTokens : Logout(t)
         \/ \E p \in Pictures : AddPicture(p)
         \/ \E g \in Guests : RedeemVoucher(g) \/ Join(g)
  PROVE  DeletionInv'
  <1>1. ASSUME NEW t \in SessionTokens, Logout(t) PROVE DeletionInv'
    <2>1. PICK gone : gone = {<<"session", t>>}
      OBVIOUS
    <2>2. rows' = rows \ gone /\ Owner \notin gone /\ \A x \in gone : x[1] # "picture"
      BY <1>1, <2>1 DEF Logout, Owner
    <2>3. UNCHANGED <<user, issued, joining, counters, history, work>>
      BY <1>1 DEF Logout
    <2> QED BY <2>2, <2>3, RowsGo, Idle
  <1>2. ASSUME NEW p \in Pictures, AddPicture(p) PROVE DeletionInv'
    <2>1. PICK new \in SUBSET Belongings :
            new = {<<"picture", p>>, <<"object", p>>, <<"room", Me>>}
      <3>1. {<<"picture", p>>, <<"object", p>>, <<"room", Me>>} \subseteq Belongings
        BY DEF Belongings, Of
      <3> QED BY <3>1
    <2>2. Owner \notin new
      BY <2>1 DEF Owner
    <2>3. Orderly
      BY <1>2, <2>1, <2>2, WritesAreOrderly DEF AddPicture, DeletionInv, DeletionTypeOK
    <2> QED BY <1>2, <2>3, Idle DEF AddPicture
  <1>3. ASSUME NEW g \in Guests, RedeemVoucher(g) PROVE DeletionInv'
    <2>1. Moves
      BY <1>3, DeletesMove DEF RedeemVoucher, history
    <2>2. Orderly
      BY <1>3, <2>1 DEF RedeemVoucher, Orderly, DeletionInv, DeletionTypeOK,
         TablesTypeOK, UserStays, counters, history, ObjectsHavePictures, Owner
    <2> QED BY <1>3, <2>2, Idle DEF RedeemVoucher
  <1>4. ASSUME NEW g \in Guests, Join(g) PROVE DeletionInv'
    <2>1. PICK new \in SUBSET Belongings : new = {<<"member", g>>}
      <3>1. <<"member", g>> \in Belongings
        BY DEF Belongings, Of
      <3> QED BY <3>1
    <2>2. Owner \notin new
      BY <2>1, MeAssumption DEF Owner
    <2>3. joining' \subseteq Guests
      BY <1>4 DEF Join, DeletionInv, DeletionTypeOK
    <2>4. Orderly
      BY <1>4, <2>1, <2>2, <2>3, WritesAreOrderly DEF Join
    <2> QED BY <1>4, <2>4, Idle DEF Join
  <1> QED BY <1>1, <1>2, <1>3, <1>4

----------------------------------------------------------------------------
(* The account in use at the start satisfies the invariant ...             *)
THEOREM DeletionInitInv == DeletionInit => DeletionInv
  <1> SUFFICES ASSUME DeletionInit PROVE DeletionInv
    OBVIOUS
  <1>1. rows \subseteq Belongings
    BY DEF DeletionInit
  <1>2. user \in User /\ user # NoUser /\ user.password = 1
    <2>1. user \in User
      BY CountAssumption DEF DeletionInit, User
    <2> QED BY <2>1, SentinelAssumption DEF DeletionInit
  <1>3. issued \in [SessionTokens -> 0..MaxPasswords]
    BY CountAssumption DEF DeletionInit
  <1>4. DeletionTypeOK
    BY <1>1, <1>2, <1>3, CountAssumption DEF DeletionInit, DeletionTypeOK
  <1>5. Owner \in rows
    BY MeAssumption DEF DeletionInit, Belongings, Of, Owner
  <1>6. ObjectsHavePictures
    BY DEF DeletionInit, ObjectsHavePictures, Belongings, Of
  <1>7. TokensFit
    <2> SUFFICES ASSUME NEW t \in SessionTokens, LoggedIn(t) PROVE issued[t] = 1
      BY <1>2 DEF TokensFit
    <2> QED BY DEF DeletionInit, LoggedIn, Of
  <1> QED BY <1>2, <1>4, <1>5, <1>6, <1>7
          DEF DeletionInit, DeletionInv, WorkFits, OwnerGone, UserGone

(* ... and every step keeps it.                                            *)
THEOREM DeletionNextInv == DeletionInv /\ [DeletionNext]_deletionVars => DeletionInv'
  <1> SUFFICES ASSUME DeletionInv, [DeletionNext]_deletionVars PROVE DeletionInv'
    OBVIOUS
  <1>1. ASSUME NEW h \in Requests, Answer(h) PROVE DeletionInv'
    <2>1. CASE Login(h)
      BY <2>1, StartsFit DEF Login
    <2>2. ASSUME NEW t \in SessionTokens, CheckSession(h, t) PROVE DeletionInv'
      BY <2>2, StartsFit DEF CheckSession
    <2>3. ASSUME NEW t \in SessionTokens, ChangePassword(h, t) PROVE DeletionInv'
      BY <2>3, StartsFit DEF ChangePassword
    <2>4. ASSUME NEW t \in SessionTokens, ChangeAddress(h, t) PROVE DeletionInv'
      BY <2>4, StartsFit DEF ChangeAddress
    <2>5. ASSUME NEW t \in SessionTokens, DeleteAccount(h, t) PROVE DeletionInv'
      BY <2>5, StartsFit DEF DeleteAccount
    <2> QED BY <1>1, <2>1, <2>2, <2>3, <2>4, <2>5, RegisterAgainFits, CreateSessionFits,
               TouchSessionFits, UpdateAccountPasswordFits, RevokeSessionsFits,
               WriteAddressFits, WriteLinkFits DEF Answer
  <1>2. ASSUME NEW h \in Requests, Cascade(h) PROVE DeletionInv'
    BY <1>2, ListMembershipsFits, LeaveRoomFits, ListRoomAssetsFits, ListsFit,
       EraseRoomFits, EraseAccountFits, EraseListedFits, KeepObjectFits DEF Cascade
  <1>3. ASSUME NEW h \in Requests, Stop(h) PROVE DeletionInv'
    BY <1>3, StopFits
  <1>4. CASE UNCHANGED deletionVars
    <2>1. Orderly /\ work' = work
      BY <1>4 DEF deletionVars, counters, history, Orderly, DeletionInv, DeletionTypeOK,
         TablesTypeOK, Moves, UserStays, ObjectsHavePictures, Owner
    <2> QED BY <2>1, Idle
  <1> QED BY <1>1, <1>2, <1>3, <1>4, OthersFit DEF DeletionNext

(* index.ts:274-278: whatever requests run beside a change of password or  *)
(* a deletion, wherever they stop: no token outlives its password or its   *)
(* account, but for the exceptions that OldTokensEnd names.                *)
THEOREM NoTokenOutlives == DeletionSpec => []OldTokensEnd
  <1>1. DeletionInv => OldTokensEnd
    BY DEF DeletionInv, TokensFit, OldTokensEnd, Excused, Does
  <1> QED BY <1>1, DeletionInitInv, DeletionNextInv, PTL DEF DeletionSpec

(* cascade.ts: nothing is left of an account that is gone, but for what    *)
(* NothingLeft excepts.                                                    *)
THEOREM NothingOutlives == DeletionSpec => []NothingLeft
  <1>1. DeletionInv => NothingLeft
    <2> SUFFICES ASSUME DeletionInv, user = NoUser, ~\E h \in Requests : Deleting(h),
                        NEW x \in rows
                 PROVE  x \in late \/ ("room" \in cut /\ x[1] \in {"member", "room"})
      BY DEF NothingLeft
    <2>1. x # Elsewhere /\ Owner \notin rows /\ (x[1] \in {"session", "link"} => x \in late)
      BY DEF DeletionInv, UserGone
    <2>2. x[1] \in {"picture", "object", "invite"} => x \in late
      BY <2>1 DEF DeletionInv, OwnerGone
    <2>3. x[1] \in {"member", "room"} => x \in late \/ "room" \in cut
      BY <2>1 DEF DeletionInv, OwnerGone, Deleting, Does, CascadeStages
    <2>4. x \in Belongings
      BY DEF DeletionInv, DeletionTypeOK
    <2> QED BY <2>1, <2>2, <2>3, <2>4 DEF Belongings, Of, Elsewhere
  <1> QED BY <1>1, DeletionInitInv, DeletionNextInv, PTL DEF DeletionSpec

(* store.ts:117-122: no request brings a session back that has ended.      *)
THEOREM EndedSessionsStayEnded == DeletionSpec => SessionsStayEnded
  <1>1. ASSUME [DeletionNext]_deletionVars
        PROVE  [\A t \in SessionTokens :
                 (issued[t] # 0 /\ ~LoggedIn(t)) => ~LoggedIn(t)']_deletionVars
    <2> SUFFICES ASSUME NEW t \in SessionTokens, issued[t] # 0, LoggedIn(t)'
                 PROVE  LoggedIn(t)
      OBVIOUS
    <2>1. ASSUME NEW h \in Requests, NEW s \in SessionTokens, CreateSession(h, s)
          PROVE  LoggedIn(t)
      BY <2>1 DEF CreateSession, LoggedIn
    <2>2. CASE rows' \subseteq rows
      BY <2>2 DEF LoggedIn
    <2>3. ASSUME NEW h \in Requests, WriteLink(h) PROVE LoggedIn(t)
      BY <2>3 DEF WriteLink, LoggedIn
    <2>4. ASSUME NEW p \in Pictures, AddPicture(p) PROVE LoggedIn(t)
      BY <2>4 DEF AddPicture, LoggedIn
    <2>5. ASSUME NEW g \in Guests, Join(g) PROVE LoggedIn(t)
      BY <2>5 DEF Join, LoggedIn
    <2>6. \/ rows' \subseteq rows
          \/ \E h \in Requests : WriteLink(h) \/ \E s \in SessionTokens : CreateSession(h, s)
          \/ \E p \in Pictures : AddPicture(p)
          \/ \E g \in Guests : Join(g)
      <3>1. ASSUME NEW h \in Requests, Answer(h)
            PROVE  \/ rows' \subseteq rows \/ WriteLink(h)
                   \/ \E s \in SessionTokens : CreateSession(h, s)
        BY <3>1 DEF Answer, Login, RegisterAgain, CheckSession, ChangePassword,
           ChangeAddress, DeleteAccount, TouchSession, UpdateAccountPassword,
           RevokeSessions, WriteAddress
      <3>2. ASSUME NEW h \in Requests, Cascade(h) PROVE rows' \subseteq rows
        BY <3>2 DEF Cascade, ListMemberships, LeaveRoom, ListRoomAssets, ListInvites,
           ListMembers, EraseRoom, ScanSessions, ScanLinks, EraseAccount, EraseListed,
           KeepObject
      <3> QED BY <1>1, <3>1, <3>2
              DEF DeletionNext, deletionVars, Stop, Logout, RedeemVoucher
    <2> QED BY <2>1, <2>2, <2>3, <2>4, <2>5, <2>6
  <1> QED BY <1>1, PTL DEF DeletionSpec, SessionsStayEnded

----------------------------------------------------------------------------
(* The two of them, each by itself.                                        *)
THEOREM DeletionStaysTyped == DeletionSpec => []DeletionTypeOK
  <1>1. DeletionInv => DeletionTypeOK
    BY DEF DeletionInv
  <1> QED BY <1>1, DeletionInitInv, DeletionNextInv, PTL DEF DeletionSpec

LEMMA PartsByThemselves == UnionSpec => Spec /\ DeletionSpec
  <1>1. UnionInit => Init /\ DeletionInit
    BY DEF UnionInit
  <1>2. [UnionNext]_unionVars => [Next]_vars /\ [DeletionNext]_deletionVars
    BY DEF UnionNext, unionVars
  <1> QED BY <1>1, <1>2, PTL DEF UnionSpec, Spec, DeletionSpec

(* The invariants of the run MCAccountsBackend, for any number of users,   *)
(* rooms, tokens and requests: the tables and the requests at work on them *)
(* are well typed, every room has its owner, a mod has redeemed an invite  *)
(* of its own, tokens end with the password they were issued under, and    *)
(* nothing but what is excepted outlives its account; and what its steps   *)
(* never do: take a room from its owner, or bring back an ended session.   *)
THEOREM ServiceInvariance ==
  UnionSpec =>
    /\ [](ServiceTypeOK /\ RoomIsOwned /\ ModsWereInvited /\ OldTokensEnd /\ NothingLeft)
    /\ OwnershipIsKept /\ SessionsStayEnded
  <1>1. TypeOK /\ DeletionTypeOK => ServiceTypeOK
    BY DEF ServiceTypeOK
  <1> QED BY <1>1, PartsByThemselves, AccountsInvariance, DeletionStaysTyped, NoTokenOutlives,
             NothingOutlives, OwnershipIsFinal, EndedSessionsStayEnded, PTL
============================================================================
