------------------------------ MODULE Accounts ------------------------------
(***************************************************************************)
(* One person's account: signing in under the login throttle, requesting   *)
(* and redeeming password resets, and accepting invitations, which may     *)
(* activate the account with a first password.  Every request handler      *)
(* reads, hashes or sends, and writes in steps of its own, so that several *)
(* of them overlap as in the code.  What is refused, or fails before it      *)
(* wrote anything, goes no further: it stays in the stage it had reached.   *)
(***************************************************************************)
EXTENDS Naturals, FiniteSets

CONSTANTS
  Attempt, Ip,          \* sign-in attempts, and the addresses they come from
  Request,              \* reset requests; each may issue the token of its name
  Redeemer,             \* redemptions in flight
  Invitation, OrgOf,    \* invitations to the person, and their organizations
  Password,
  PairLimit, AccountLimit, LoginWindow,
  Wait,                 \* the timeout of the throttle's transaction
  Retention,
  ResetLimit, ResetWindow, TTL,
  MaxNow,               \* bound on the clock
  None

ASSUME AccountsAssumption ==
  /\ {PairLimit, AccountLimit, ResetLimit} \subseteq Nat \ {0}
  /\ {LoginWindow, Wait, Retention, ResetWindow, TTL, MaxNow} \subseteq Nat
  /\ LoginWindow + Wait <= Retention
  /\ None \notin Password \cup Ip \cup Request

VARIABLES
  now,
  user,        \* the User row
  attempt,     \* the sign-in attempts and the sessions they opened
  counted,     \* the attempts with a LoginAttempt row
  request,     \* the reset requests
  ticket,      \* the PasswordResetToken rows
  redeemer,    \* the redemptions in flight
  invitation   \* the Invitation rows and their acceptance in flight

vars == <<now, user, attempt, counted, request, ticket, redeemer, invitation>>

-----------------------------------------------------------------------------
(* Signing in. *)

\* The address may be unknown; limits are checked against the time the attempt came in, before its locks.
Arrive(a, ip) ==
  /\ attempt[a].stage = "new"
  /\ attempt' = [attempt EXCEPT ![a] = [@ EXCEPT !.stage = "arrived", !.stamp = now, !.ip = ip]]
  /\ UNCHANGED <<now, user, counted, request, ticket, redeemer, invitation>>

\* The rows that count against an attempt.
Recent(a) == {b \in counted : attempt[b].stamp + LoginWindow >= attempt[a].stamp}

SameIp(a) == {b \in Recent(a) : attempt[b].ip = attempt[a].ip}

Admitted(a) ==
  /\ attempt[a].ip # None => Cardinality(SameIp(a)) < PairLimit
  /\ Cardinality(Recent(a)) < AccountLimit

\* reserveLoginAttempt, its two advisory locks making it one step; too long a
\* wait for them refuses the attempt as a limit does.
Reserve(a) ==
  /\ attempt[a].stage = "arrived"
  /\ Admitted(a) /\ now <= attempt[a].stamp + Wait
  /\ counted' = counted \cup {a}
  /\ attempt' = [attempt EXCEPT ![a].stage = "reserved"]
  /\ UNCHANGED <<now, user, request, ticket, redeemer, invitation>>

\* Mutant: the sweep keeps what is within the window, not what may still count.
SweepByWindow ==
  /\ counted' = {a \in counted : attempt[a].stamp + LoginWindow >= now}
  /\ counted' # counted
  /\ UNCHANGED <<now, user, attempt, request, ticket, redeemer, invitation>>

\* sweepExpiredLoginAttempts.
Sweep ==
  /\ counted' = {a \in counted : attempt[a].stamp + Retention >= now}
  /\ counted' # counted
  /\ UNCHANGED <<now, user, attempt, request, ticket, redeemer, invitation>>

\* verifyCredentials: hash, version and standing are of one read; bcrypt, which
\* comes after it, only decides what was read.  Here the password that was typed
\* is the account's; an attempt with a wrong one stays reserved, and counted.
Verify(a) ==
  /\ attempt[a].stage = "reserved"
  /\ user.standing = "active" /\ user.password # None
  /\ attempt' = [attempt EXCEPT ![a] =
       [@ EXCEPT !.stage = "verified", !.password = user.password, !.version = user.version]]
  /\ UNCHANGED <<now, user, counted, request, ticket, redeemer, invitation>>

\* Mutant: the token takes the version the account has by now.
SignInFresh(a) ==
  /\ attempt[a].stage = "verified"
  /\ counted' \in {counted, counted \ {a}}
  /\ attempt' = [attempt EXCEPT ![a].stage = "signed", ![a].version = user.version]
  /\ UNCHANGED <<now, user, request, ticket, redeemer, invitation>>

\* releaseLoginReservation, which may fail, and the token signInJwtCallback
\* makes of the version that was read with the password.
SignIn(a) ==
  /\ attempt[a].stage = "verified"
  /\ counted' \in {counted, counted \ {a}}
  /\ attempt' = [attempt EXCEPT ![a].stage = "signed"]
  /\ UNCHANGED <<now, user, request, ticket, redeemer, invitation>>

sessionCredentialsCurrent(a) ==
  /\ attempt[a].stage = "signed"
  /\ user.standing = "active" /\ attempt[a].version = user.version

-----------------------------------------------------------------------------
(* Requesting a reset. *)

Ask(r) ==
  /\ request[r].stage = "new"
  /\ request' = [request EXCEPT ![r].stage = "asked", ![r].stamp = now]
  /\ UNCHANGED <<now, user, attempt, counted, ticket, redeemer, invitation>>

\* A request that was admitted has its PasswordResetRequest row for good.
Claimed == {r \in Request : request[r].admitted}

claimResetRequest(r) ==
  /\ request[r].stage = "asked"
  /\ Cardinality({q \in Claimed : request[q].stamp + ResetWindow >= request[r].stamp}) < ResetLimit
  /\ request' = [request EXCEPT ![r].stage = "claimed", ![r].admitted = TRUE]
  /\ UNCHANGED <<now, user, attempt, counted, ticket, redeemer, invitation>>

Unused == {r \in Request : ticket[r].state = "unused"}

AllUsed == [r \in Request |-> IF r \in Unused THEN [ticket[r] EXCEPT !.state = "used"] ELSE ticket[r]]

\* Mutant: a request over the limit issues its token all the same.
IssueUnclaimed(r) ==
  /\ request[r].stage \in {"asked", "claimed"} /\ user.standing = "active"
  /\ ticket' = [AllUsed EXCEPT ![r] = [state |-> "unused", until |-> now + TTL]]
  /\ \E s \in {"scheduled", "unsent"} : request' = [request EXCEPT ![r].stage = s]
  /\ UNCHANGED <<now, user, attempt, counted, redeemer, invitation>>

\* issueResetToken under the user's lock, for an active account; then the
\* delivery is scheduled, or cannot be.
issueResetToken(r) ==
  /\ request[r].stage = "claimed" /\ user.standing = "active"
  /\ ticket' = [AllUsed EXCEPT ![r] = [state |-> "unused", until |-> now + TTL]]
  /\ \E s \in {"scheduled", "unsent"} : request' = [request EXCEPT ![r].stage = s]
  /\ UNCHANGED <<now, user, attempt, counted, redeemer, invitation>>

\* The after-response delivery: the email is accepted, or may have been; or it
\* is refused, or was never attempted.
deliverResetEmail(r) ==
  /\ request[r].stage = "scheduled"
  /\ \/ request' = [request EXCEPT ![r].stage = "over", ![r].mailed = TRUE]
     \/ request' = [request EXCEPT ![r].stage = "unsent"]
  /\ UNCHANGED <<now, user, attempt, counted, ticket, redeemer, invitation>>

\* Mutant: the cleanup ends every unused token of the account.
InvalidateAll(r) ==
  /\ request[r].stage = "unsent"
  /\ request' = [request EXCEPT ![r].stage = "over"]
  /\ ticket' = AllUsed
  /\ UNCHANGED <<now, user, attempt, counted, redeemer, invitation>>

\* It touches its own token only.
invalidateIssuedToken(r) ==
  /\ request[r].stage = "unsent"
  /\ request' = [request EXCEPT ![r].stage = "over"]
  /\ ticket' = [ticket EXCEPT ![r].state = IF @ = "unused" THEN "used" ELSE @]
  /\ UNCHANGED <<now, user, attempt, counted, redeemer, invitation>>

-----------------------------------------------------------------------------
(* Redeeming a reset. *)

Redeemable(r) ==
  /\ ticket[r].state = "unused" /\ now < ticket[r].until
  /\ user.standing = "active"

Idle == [stage |-> "idle", ticket |-> None]

\* The first read, which is not authoritative, and the hash.
ReadTicket(h, r) ==
  /\ redeemer[h] = Idle
  /\ request[r].mailed /\ Redeemable(r)
  /\ redeemer' = [redeemer EXCEPT ![h] = [stage |-> "hashing", ticket |-> r]]
  /\ UNCHANGED <<now, user, attempt, counted, request, ticket, invitation>>

\* Mutant: the transaction trusts the first read.
RedeemUnchecked(h, p) ==
  /\ redeemer[h].stage = "hashing"
  /\ redeemer' = [redeemer EXCEPT ![h] = Idle]
  /\ ticket' = AllUsed
  /\ user' = [user EXCEPT !.password = p, !.version = @ + 1]
  /\ UNCHANGED <<now, attempt, counted, request, invitation>>

\* The transaction, under the user's lock.
Redeem(h, p) ==
  /\ redeemer[h].stage = "hashing"
  /\ redeemer' = [redeemer EXCEPT ![h] = Idle]
  /\ \/ /\ Redeemable(redeemer[h].ticket)
        /\ ticket' = AllUsed
        /\ user' = [user EXCEPT !.password = p, !.version = @ + 1]
     \/ UNCHANGED <<ticket, user>>
  /\ UNCHANGED <<now, attempt, counted, request, invitation>>

-----------------------------------------------------------------------------
(* Accepting an invitation. *)

\* The account is read before the transaction: only one that is not active is
\* given the password that was chosen.
ReadInvitation(i) ==
  /\ invitation[i].state = "open" /\ invitation[i].stage = "idle"
  /\ invitation' = [invitation EXCEPT ![i] =
       [@ EXCEPT !.stage = "hashing", !.found = user.standing]]
  /\ UNCHANGED <<now, user, attempt, counted, request, ticket, redeemer>>

\* The consumption, and the end of the organization's other invitations.
Consumed(i) ==
  [j \in Invitation |->
     IF j = i THEN [invitation[j] EXCEPT !.state = "used", !.stage = "idle", !.found = "none"]
     ELSE IF OrgOf[j] = OrgOf[i] /\ invitation[j].state = "open"
          THEN [invitation[j] EXCEPT !.state = "revoked"]
          ELSE invitation[j]]

\* The transaction: a new account is created, which a unique address may
\* refuse, a placeholder activated, an active account left as it is.
acceptInvitation(i, p) ==
  LET found == invitation[i].found IN
  /\ invitation[i].stage = "hashing" /\ invitation[i].state = "open"
  /\ found = "none" => user.standing = "none"
  /\ invitation' = Consumed(i)
  /\ user' = IF found = "active" THEN user
             ELSE [user EXCEPT !.standing = "active", !.password = p]
  /\ UNCHANGED <<now, attempt, counted, request, ticket, redeemer>>

\* Used, revoked or expired by the time the lock is held, or a failure.
NotAccepted(i) ==
  /\ invitation[i].stage = "hashing"
  /\ invitation' = [invitation EXCEPT ![i] = [@ EXCEPT !.stage = "idle", !.found = "none"]]
  /\ UNCHANGED <<now, user, attempt, counted, request, ticket, redeemer>>

-----------------------------------------------------------------------------
Tick ==
  /\ now < MaxNow
  /\ now' = now + 1
  /\ UNCHANGED <<user, attempt, counted, request, ticket, redeemer, invitation>>

\* No account, a placeholder with a password nobody knows, or an active one.
Init ==
  /\ now = 0
  /\ \/ \E s \in {"none", "placeholder"} : user = [standing |-> s, password |-> None, version |-> 0]
     \/ \E p \in Password : user = [standing |-> "active", password |-> p, version |-> 0]
  /\ attempt = [a \in Attempt |-> [stage |-> "new", ip |-> None, stamp |-> 0, password |-> None, version |-> 0]]
  /\ counted = {}
  /\ request = [r \in Request |-> [stage |-> "new", stamp |-> 0, admitted |-> FALSE, mailed |-> FALSE]]
  /\ ticket = [r \in Request |-> [state |-> "none", until |-> 0]]
  /\ redeemer = [h \in Redeemer |-> Idle]
  /\ invitation = [i \in Invitation |->
       [state |-> "open", stage |-> "idle", found |-> "none"]]

Next ==
  \/ \E a \in Attempt :
       (\E ip \in Ip \cup {None} : Arrive(a, ip)) \/ Reserve(a) \/ Verify(a) \/ SignIn(a)
  \/ \E r \in Request :
       \/ Ask(r) \/ claimResetRequest(r) \/ issueResetToken(r)
       \/ deliverResetEmail(r) \/ invalidateIssuedToken(r)
  \/ \E h \in Redeemer :
       (\E r \in Request : ReadTicket(h, r)) \/ \E p \in Password : Redeem(h, p)
  \/ \E i \in Invitation :
       ReadInvitation(i) \/ NotAccepted(i) \/ \E p \in Password : acceptInvitation(i, p)
  \/ Sweep \/ Tick

Spec == Init /\ [][Next]_vars

-----------------------------------------------------------------------------
(* Properties. *)

UserType == [standing : {"none", "placeholder", "active"}, password : Password \cup {None}, version : Nat]
AttemptType == [stage : {"new", "arrived", "reserved", "verified", "signed"},
                ip : Ip \cup {None}, stamp : 0..MaxNow, password : Password \cup {None}, version : Nat]
RequestType == [stage : {"new", "asked", "claimed", "scheduled", "unsent", "over"},
                stamp : 0..MaxNow, admitted : BOOLEAN, mailed : BOOLEAN]
TicketType == [state : {"none", "unused", "used"}, until : Nat]
InvitationType == [state : {"open", "used", "revoked"}, stage : {"idle", "hashing"},
                   found : {"none", "placeholder", "active"}]

\* The variables have their types, and a token belongs to a request that was
\* admitted.
TypeOK ==
  /\ now \in 0..MaxNow
  /\ user \in UserType
  /\ attempt \in [Attempt -> AttemptType]
  /\ counted \subseteq {a \in Attempt : attempt[a].stage \in {"reserved", "verified", "signed"}}
  /\ request \in [Request -> RequestType]
  /\ ticket \in [Request -> TicketType]
  /\ redeemer \in [Redeemer -> [stage : {"idle", "hashing"}, ticket : Request \cup {None}]]
  /\ invitation \in [Invitation -> InvitationType]
  /\ \A r \in Request : ticket[r].state # "none" => request[r].admitted

\* The passwords being checked or found wrong, those of a window of time, and the
\* resets of one.
Open == {a \in Attempt : attempt[a].stage = "reserved"}

Guesses(t) == {a \in Open : t <= attempt[a].stamp /\ attempt[a].stamp <= t + LoginWindow}

Resets(t) == {r \in Claimed : t <= request[r].stamp /\ request[r].stamp <= t + ResetWindow}

\* In any window of time, however the attempts overlap and whichever succeed,
\* the passwords being checked or found wrong are within the limits of the
\* account and of its pair with an address, and the resets within theirs.
ThrottlesHold ==
  \A t \in 0..MaxNow :
    /\ Cardinality(Guesses(t)) <= AccountLimit
    /\ \A ip \in Ip : Cardinality({a \in Guesses(t) : attempt[a].ip = ip}) <= PairLimit
    /\ Cardinality(Resets(t)) <= ResetLimit

\* A session that is let in was opened with the password the account has now,
\* whatever was reset between the check of the password and the session.
OldPasswordOut ==
  \A a \in Attempt : sessionCredentialsCurrent(a) => attempt[a].password = user.password

\* A link that was sent works until it is redeemed or a newer one is issued:
\* the late cleanup of an older request leaves it alone.
MailedLinkLasts ==
  [][\A r \in Unused :
       request[r].mailed /\ ticket'[r].state = "used"
         => \/ user'.version # user.version
            \/ \E q \in Request : ticket[q].state = "none" /\ ticket'[q].state = "unused"]_vars

\* Requests, deliveries and redemptions implement ResetTicket.
Reset == INSTANCE ResetTicket
           WITH Ticket <- Request, clock <- now, epoch <- user.version,
                good <- {[ticket |-> r, until |-> ticket[r].until] : r \in Unused},
                spent <- {r \in Request : ticket[r].state # "none"}

ResetContract == Reset!Spec

\* accept-invitation/actions.ts says of an active account that "the password is
\* NEVER touched": only a reset, which ends the sessions, changes it.
PasswordIsTheirs ==
  [][user.standing = "active" /\ user'.password # user.password
       => user'.version # user.version]_vars
=============================================================================
