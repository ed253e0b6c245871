--------------------------- MODULE AccountsProofs ---------------------------
(***************************************************************************)
(* What holds of one person's account for any number of attempts,          *)
(* requests, redemptions and invitations, and for any limits and windows.  *)
(***************************************************************************)
EXTENDS Accounts, FiniteSetTheorems, TLAPS

\* A request has a ticket only once it was claimed, and is mailed only at its end;
\* one ticket at most is unused; a redemption in flight is one of a ticket.
TicketsFollowRequests ==
  /\ \A r \in Request :
       /\ request[r].stage \in {"new", "asked", "claimed"} => ticket[r].state = "none"
       /\ request[r].stage \in {"new", "asked"} => ~request[r].admitted
       /\ request[r].stage = "claimed" => request[r].admitted
       /\ request[r].mailed => request[r].stage = "over"
  /\ \A r, q \in Unused : r = q
  /\ \A h \in Redeemer : redeemer[h].stage = "hashing" => redeemer[h].ticket \in Request

\* An attempt whose row was swept is too old to share a window with one that may
\* still be admitted.
SweptAreOld ==
  /\ IsFiniteSet(counted) /\ IsFiniteSet(Open) /\ IsFiniteSet(Claimed)
  /\ \A a \in Attempt : attempt[a].stamp <= now
  /\ \A a \in Open \ counted : attempt[a].stamp + Retention < now

IInv == TypeOK /\ TicketsFollowRequests /\ SweptAreOld /\ ThrottlesHold

\* All invitations are of one organization.
OneOrganization == \A i, j \in Invitation : OrgOf[i] = OrgOf[j]

\* A password was checked only while the account was active, and is the account's
\* for as long as the version is; who found the account not active, and may still
\* accept, finds it so to the end.
CheckedAreCurrent ==
  \A a \in Attempt : attempt[a].stage \in {"verified", "signed"} =>
    /\ user.standing = "active" /\ attempt[a].version <= user.version
    /\ attempt[a].version = user.version => attempt[a].password = user.password

FirstPasswordIsFirst ==
  \A i \in Invitation :
    invitation[i].stage = "hashing" /\ invitation[i].state = "open" /\ invitation[i].found # "active"
      => user.standing # "active"

CInv == CheckedAreCurrent /\ FirstPasswordIsFirst

-----------------------------------------------------------------------------
LEMMA Limits ==
  /\ PairLimit \in Nat /\ PairLimit > 0 /\ AccountLimit \in Nat /\ AccountLimit > 0
  /\ ResetLimit \in Nat /\ ResetLimit > 0
  /\ LoginWindow \in Nat /\ Wait \in Nat /\ Retention \in Nat /\ LoginWindow + Wait <= Retention
  /\ ResetWindow \in Nat /\ TTL \in Nat /\ MaxNow \in Nat
  /\ None \notin Password /\ None \notin Ip /\ None \notin Request
  BY AccountsAssumption

LEMMA InitIsInductive == Init => IInv
  <1> SUFFICES ASSUME Init PROVE IInv
    OBVIOUS
  <1> USE Limits DEF Init
  <1>1. TypeOK
    BY DEF TypeOK, UserType, AttemptType, RequestType, TicketType, InvitationType, Idle
  <1>2. TicketsFollowRequests
    BY DEF TicketsFollowRequests, Unused, Idle
  <1>3. counted = {} /\ Open = {} /\ Claimed = {}
    BY DEF Open, Claimed
  <1>4. SweptAreOld
    BY <1>3, FS_EmptySet DEF SweptAreOld
  <1>5. ThrottlesHold
    <2>1. ASSUME NEW t \in 0..MaxNow
          PROVE  Cardinality(Guesses(t)) = 0 /\ Cardinality(Resets(t)) = 0
      <3>1. Guesses(t) = {} /\ Resets(t) = {}
        BY <1>3 DEF Guesses, Resets
      <3>2. QED
        BY <3>1, FS_EmptySet
    <2>2. ASSUME NEW t \in 0..MaxNow, NEW ip \in Ip
          PROVE  Cardinality({a \in Guesses(t) : attempt[a].ip = ip}) = 0
      <3>1. {a \in Guesses(t) : attempt[a].ip = ip} = {}
        BY <1>3 DEF Guesses
      <3>2. QED
        BY <3>1, FS_EmptySet
    <2>3. QED
      BY <2>1, <2>2, Limits DEF ThrottlesHold
  <1>6. QED
    BY <1>1, <1>2, <1>4, <1>5 DEF IInv

-----------------------------------------------------------------------------
(* Types. *)

\* One row of a table is replaced by another of its type.
LEMMA RowsAreTyped ==
  ASSUME NEW S, NEW T, NEW f \in [S -> T], NEW x \in S, NEW v \in T
  PROVE  [f EXCEPT ![x] = v] \in [S -> T]
  OBVIOUS

\* The token that is issued takes the place of every unused one.
LEMMA IssueIsTyped ==
  ASSUME TypeOK
  PROVE  /\ AllUsed \in [Request -> TicketType]
         /\ \A q \in Request : /\ AllUsed[q].state = IF ticket[q].state = "none" THEN "none" ELSE "used"
                               /\ AllUsed[q].until = ticket[q].until
  <1>1. ASSUME NEW q \in Request
        PROVE  /\ AllUsed[q] \in TicketType
               /\ AllUsed[q].state = IF ticket[q].state = "none" THEN "none" ELSE "used"
               /\ AllUsed[q].until = ticket[q].until
    <2>1. ticket[q] \in TicketType
      BY DEF TypeOK
    <2>2. AllUsed[q] = IF ticket[q].state = "unused" THEN [ticket[q] EXCEPT !.state = "used"] ELSE ticket[q]
      BY DEF AllUsed, Unused
    <2>3. QED
      BY <2>1, <2>2 DEF TicketType
  <1>2. AllUsed = [r \in Request |-> AllUsed[r]]
    BY DEF AllUsed
  <1>3. QED
    BY <1>1, <1>2

LEMMA ConsumedIsTyped ==
  ASSUME TypeOK, NEW i \in Invitation
  PROVE  Consumed(i) \in [Invitation -> InvitationType]
  <1>1. ASSUME NEW j \in Invitation
        PROVE  /\ [invitation[j] EXCEPT !.state = "used", !.stage = "idle", !.found = "none"] \in InvitationType
               /\ [invitation[j] EXCEPT !.state = "revoked"] \in InvitationType
               /\ invitation[j] \in InvitationType
    BY DEF TypeOK, InvitationType
  <1>2. QED
    BY <1>1 DEF Consumed

\* A reset gives the account another password and ends the sessions.
LEMMA NewPassword ==
  ASSUME TypeOK, NEW p \in Password
  PROVE  LET new == [user EXCEPT !.password = p, !.version = @ + 1]
         IN  /\ new \in UserType /\ new.standing = user.standing
             /\ new.version = user.version + 1 /\ new.version # user.version
  <1>1. user \in UserType /\ user.version \in Nat
    BY DEF TypeOK, UserType
  <1>2. \A n \in Nat : [user EXCEPT !.password = p, !.version = n] \in UserType
    BY <1>1 DEF UserType
  <1>3. user.version + 1 \in Nat /\ user.version + 1 # user.version
    BY <1>1
  <1>4. [user EXCEPT !.password = p, !.version = user.version + 1] \in UserType
    BY <1>2, <1>3
  <1>5. QED
    BY <1>1, <1>3, <1>4 DEF UserType

LEMMA TypeStep ==
  ASSUME IInv, [Next]_vars
  PROVE  TypeOK'
  <1>0. TypeOK /\ TicketsFollowRequests
    BY DEF IInv
  <1> USE <1>0, Limits
  <1>1. ASSUME NEW a \in Attempt, NEW ip \in Ip \cup {None}, Arrive(a, ip) PROVE TypeOK'
    <2>1. attempt[a] \in AttemptType /\ now \in 0..MaxNow
      BY DEF TypeOK
    <2>2. [attempt[a] EXCEPT !.stage = "arrived", !.stamp = now, !.ip = ip] \in AttemptType
      BY <2>1 DEF AttemptType
    <2>3. QED
      BY <1>1, <2>2, RowsAreTyped DEF TypeOK, Arrive
  <1>2. ASSUME NEW a \in Attempt, Reserve(a) PROVE TypeOK'
    <2>1. [attempt[a] EXCEPT !.stage = "reserved"] \in AttemptType
      BY DEF TypeOK, AttemptType
    <2>2. QED
      BY <1>2, <2>1, RowsAreTyped DEF TypeOK, Reserve
  <1>3. ASSUME NEW a \in Attempt, Verify(a) PROVE TypeOK'
    <2>1. attempt[a] \in AttemptType /\ user.password \in Password \cup {None} /\ user.version \in Nat
      BY DEF TypeOK, UserType
    <2>2. [attempt[a] EXCEPT !.stage = "verified", !.password = user.password,
                             !.version = user.version] \in AttemptType
      BY <2>1 DEF AttemptType
    <2>3. QED
      BY <1>3, <2>2, RowsAreTyped DEF TypeOK, Verify
  <1>4. ASSUME NEW a \in Attempt, SignIn(a) PROVE TypeOK'
    <2>1. [attempt[a] EXCEPT !.stage = "signed"] \in AttemptType
      BY DEF TypeOK, AttemptType
    <2>2. QED
      BY <1>4, <2>1, RowsAreTyped DEF TypeOK, SignIn
  <1>5. ASSUME NEW r \in Request, Ask(r) PROVE TypeOK'
    <2>1. [request[r] EXCEPT !.stage = "asked", !.stamp = now] \in RequestType
      BY DEF TypeOK, RequestType
    <2>2. request' = [request EXCEPT ![r] = [request[r] EXCEPT !.stage = "asked", !.stamp = now]]
      BY <1>5 DEF TypeOK, Ask
    <2>3. QED
      BY <1>5, <2>1, <2>2, RowsAreTyped DEF TypeOK, Ask
  <1>6. ASSUME NEW r \in Request, claimResetRequest(r) PROVE TypeOK'
    <2>1. [request[r] EXCEPT !.stage = "claimed", !.admitted = TRUE] \in RequestType
      BY DEF TypeOK, RequestType
    <2>2. request' = [request EXCEPT ![r] = [request[r] EXCEPT !.stage = "claimed", !.admitted = TRUE]]
      BY <1>6 DEF TypeOK, claimResetRequest
    <2>3. QED
      BY <1>6, <2>1, <2>2, RowsAreTyped DEF TypeOK, claimResetRequest
  <1>7. ASSUME NEW r \in Request, issueResetToken(r) PROVE TypeOK'
    <2>1. [state |-> "unused", until |-> now + TTL] \in TicketType
      BY DEF TypeOK, TicketType
    <2>2. ticket' \in [Request -> TicketType]
      BY <1>7, <2>1, IssueIsTyped, RowsAreTyped DEF issueResetToken
    <2>3. PICK s \in {"scheduled", "unsent"} : request' = [request EXCEPT ![r].stage = s]
      BY <1>7 DEF issueResetToken
    <2>4. [request[r] EXCEPT !.stage = s] \in RequestType
      BY DEF TypeOK, RequestType
    <2>5. request' \in [Request -> RequestType]
      BY <2>3, <2>4, RowsAreTyped DEF TypeOK
    <2>6. \A q \in Request : /\ request'[q].admitted = request[q].admitted
                             /\ q # r => (ticket'[q].state = "none" <=> ticket[q].state = "none")
      BY <1>7, <2>3, IssueIsTyped DEF issueResetToken, TypeOK, RequestType
    <2>7. request[r].admitted
      BY <1>7 DEF issueResetToken, TicketsFollowRequests
    <2>8. QED
      BY <1>7, <2>2, <2>5, <2>6, <2>7 DEF TypeOK, issueResetToken
  <1>8. ASSUME NEW r \in Request, deliverResetEmail(r) PROVE TypeOK'
    <2>1. /\ [request[r] EXCEPT !.stage = "over", !.mailed = TRUE] \in RequestType
          /\ [request[r] EXCEPT !.stage = "unsent"] \in RequestType
      BY DEF TypeOK, RequestType
    <2>2. \/ request' = [request EXCEPT ![r] = [request[r] EXCEPT !.stage = "over", !.mailed = TRUE]]
          \/ request' = [request EXCEPT ![r] = [request[r] EXCEPT !.stage = "unsent"]]
      BY <1>8 DEF TypeOK, deliverResetEmail
    <2>3. ASSUME NEW q \in Request PROVE request'[q].admitted = request[q].admitted
      <3>1. request[q] \in RequestType /\ request \in [Request -> RequestType]
        BY DEF TypeOK
      <3>2. CASE q = r
        <4>1. /\ [request[r] EXCEPT !.stage = "over", !.mailed = TRUE].admitted = request[r].admitted
              /\ [request[r] EXCEPT !.stage = "unsent"].admitted = request[r].admitted
          BY <3>1, <3>2 DEF RequestType
        <4>2. QED
          BY <2>2, <3>1, <3>2, <4>1
      <3>3. CASE q # r
        BY <2>2, <3>1, <3>3
      <3>4. QED
        BY <3>2, <3>3
    <2>4. request' \in [Request -> RequestType]
      BY <2>1, <2>2, RowsAreTyped DEF TypeOK
    <2>5. QED
      BY <1>8, <2>3, <2>4 DEF TypeOK, deliverResetEmail
  <1>9. ASSUME NEW r \in Request, invalidateIssuedToken(r) PROVE TypeOK'
    <2>1. [request[r] EXCEPT !.stage = "over"] \in RequestType
      BY DEF TypeOK, RequestType
    <2>2. \E s \in {"none", "unused", "used"} :
            /\ ticket' = [ticket EXCEPT ![r] = [ticket[r] EXCEPT !.state = s]]
            /\ s = "none" <=> ticket[r].state = "none"
      BY <1>9 DEF TypeOK, TicketType, invalidateIssuedToken
    <2>3. \A s \in {"none", "unused", "used"} : [ticket[r] EXCEPT !.state = s] \in TicketType
      BY DEF TypeOK, TicketType
    <2>4. ticket' \in [Request -> TicketType] /\ request' \in [Request -> RequestType]
      BY <1>9, <2>1, <2>2, <2>3, RowsAreTyped DEF TypeOK, invalidateIssuedToken
    <2>5. \A q \in Request : /\ request'[q].admitted = request[q].admitted
                             /\ ticket'[q].state = "none" <=> ticket[q].state = "none"
      BY <1>9, <2>2 DEF TypeOK, RequestType, TicketType, invalidateIssuedToken
    <2>6. QED
      BY <1>9, <2>4, <2>5 DEF TypeOK, invalidateIssuedToken
  <1>10. ASSUME NEW h \in Redeemer, NEW r \in Request, ReadTicket(h, r) PROVE TypeOK'
    BY <1>10 DEF TypeOK, ReadTicket
  <1>11. ASSUME NEW h \in Redeemer, NEW p \in Password, Redeem(h, p) PROVE TypeOK'
    <2>1. user' \in UserType /\ ticket' \in [Request -> TicketType]
      BY <1>11, NewPassword, IssueIsTyped DEF TypeOK, Redeem
    <2>2. \A q \in Request : ticket'[q].state = "none" <=> ticket[q].state = "none"
      BY <1>11, IssueIsTyped DEF Redeem
    <2>3. redeemer' \in [Redeemer -> [stage : {"idle", "hashing"}, ticket : Request \cup {None}]]
      BY <1>11 DEF TypeOK, Redeem, Idle
    <2>4. QED
      BY <1>11, <2>1, <2>2, <2>3 DEF TypeOK, Redeem
  <1>12. ASSUME NEW i \in Invitation, ReadInvitation(i) PROVE TypeOK'
    <2>1. [invitation[i] EXCEPT !.stage = "hashing", !.found = user.standing] \in InvitationType
      BY DEF TypeOK, InvitationType, UserType
    <2>2. QED
      BY <1>12, <2>1, RowsAreTyped DEF TypeOK, ReadInvitation
  <1>13. ASSUME NEW i \in Invitation, NotAccepted(i) PROVE TypeOK'
    <2>1. [invitation[i] EXCEPT !.stage = "idle", !.found = "none"] \in InvitationType
      BY DEF TypeOK, InvitationType
    <2>2. QED
      BY <1>13, <2>1, RowsAreTyped DEF TypeOK, NotAccepted
  <1>14. ASSUME NEW i \in Invitation, NEW p \in Password, acceptInvitation(i, p) PROVE TypeOK'
    <2>1. user' \in UserType
      BY <1>14 DEF TypeOK, UserType, acceptInvitation
    <2>2. QED
      BY <1>14, <2>1, ConsumedIsTyped DEF TypeOK, acceptInvitation
  <1>15. CASE Sweep
    BY <1>15 DEF TypeOK, Sweep
  <1>16. CASE Tick
    BY <1>16 DEF TypeOK, Tick
  <1>17. CASE UNCHANGED vars
    BY <1>17 DEF TypeOK, vars
  <1>18. QED
    BY <1>1, <1>2, <1>3, <1>4, <1>5, <1>6, <1>7, <1>8, <1>9, <1>10, <1>11, <1>12, <1>13, <1>14,
       <1>15, <1>16, <1>17 DEF Next

-----------------------------------------------------------------------------
(* Tickets. *)

LEMMA TicketStep ==
  ASSUME IInv, [Next]_vars
  PROVE  TicketsFollowRequests'
  <1>0. TypeOK /\ TicketsFollowRequests
    BY DEF IInv
  <1> USE <1>0 DEF TypeOK, TicketsFollowRequests, Unused, TicketType, RequestType
  <1>1. ASSUME NEW r \in Request, Ask(r) PROVE TicketsFollowRequests'
    BY <1>1 DEF Ask
  <1>2. ASSUME NEW r \in Request, claimResetRequest(r) PROVE TicketsFollowRequests'
    BY <1>2 DEF claimResetRequest
  <1>3. ASSUME NEW r \in Request, issueResetToken(r) PROVE TicketsFollowRequests'
    <2>1. \A q \in Request : q # r => ticket'[q].state \in {"none", "used"} /\ request'[q] = request[q]
                                      /\ (ticket[q].state = "none" => ticket'[q].state = "none")
      BY <1>3, IssueIsTyped DEF issueResetToken
    <2>2. request'[r].stage \in {"scheduled", "unsent"} /\ request'[r].mailed = request[r].mailed
          /\ request'[r].admitted = request[r].admitted
      BY <1>3 DEF issueResetToken
    <2>3. QED
      BY <1>3, <2>1, <2>2 DEF issueResetToken
  <1>4. ASSUME NEW r \in Request, deliverResetEmail(r) PROVE TicketsFollowRequests'
    <2>1. /\ request'[r].stage \in {"over", "unsent"} /\ (request'[r].mailed => request'[r].stage = "over")
          /\ \A q \in Request : q # r => request'[q] = request[q]
      BY <1>4 DEF deliverResetEmail
    <2>2. QED
      BY <1>4, <2>1 DEF deliverResetEmail
  <1>5. ASSUME NEW r \in Request, invalidateIssuedToken(r) PROVE TicketsFollowRequests'
    BY <1>5 DEF invalidateIssuedToken
  <1>6. ASSUME NEW h \in Redeemer, NEW r \in Request, ReadTicket(h, r) PROVE TicketsFollowRequests'
    BY <1>6 DEF ReadTicket
  <1>7. ASSUME NEW h \in Redeemer, NEW p \in Password, Redeem(h, p) PROVE TicketsFollowRequests'
    BY <1>7, IssueIsTyped DEF Redeem, Idle
  <1>8. CASE UNCHANGED <<request, ticket, redeemer>>
    BY <1>8
  <1>9. QED
    BY <1>1, <1>2, <1>3, <1>4, <1>5, <1>6, <1>7, <1>8
    DEF Next, Arrive, Reserve, Verify, SignIn, ReadInvitation, NotAccepted, acceptInvitation,
        Sweep, Tick, vars

-----------------------------------------------------------------------------
(* Throttles. *)

\* What fits in a set that was below its limit, and one element more, is within
\* the limit.
LEMMA OneMore ==
  ASSUME NEW n \in Nat, NEW S, IsFiniteSet(S), Cardinality(S) < n, NEW x, NEW T \in SUBSET (S \cup {x})
  PROVE  Cardinality(T) <= n
  <1>1. /\ IsFiniteSet(S \cup {x}) /\ Cardinality(S) \in Nat /\ Cardinality(S \cup {x}) \in Nat
        /\ Cardinality(S \cup {x}) <= Cardinality(S) + 1
    BY FS_AddElement, FS_CardinalityType
  <1>2. Cardinality(T) <= Cardinality(S \cup {x}) /\ Cardinality(T) \in Nat
    BY <1>1, FS_Subset, FS_CardinalityType
  <1>3. QED
    BY <1>1, <1>2

LEMMA NoMore ==
  ASSUME NEW n \in Nat, NEW S, IsFiniteSet(S), Cardinality(S) <= n, NEW T \in SUBSET S
  PROVE  Cardinality(T) <= n
  BY FS_Subset, FS_CardinalityType

\* An attempt that is admitted is checked against every other one of any window
\* it is in: none of them was swept.
LEMMA WindowsAreRecent ==
  ASSUME IInv, NEW a \in Attempt, Reserve(a), NEW t \in 0..MaxNow,
         t <= attempt[a].stamp, attempt[a].stamp <= t + LoginWindow
  PROVE  /\ Guesses(t) \subseteq Recent(a)
         /\ attempt[a].ip # None => {b \in Guesses(t) : attempt[b].ip = attempt[a].ip} \subseteq SameIp(a)
  <1>1. ASSUME NEW b \in Guesses(t)
        PROVE  b \in Recent(a)
    <2>1. /\ now <= attempt[a].stamp + Wait /\ t <= attempt[b].stamp /\ b \in Open
          /\ {attempt[a].stamp, attempt[b].stamp, now} \subseteq Nat /\ b \in Attempt
      BY <1>1 DEF Reserve, Guesses, Open, IInv, TypeOK, AttemptType
    <2>2. attempt[b].stamp + LoginWindow >= attempt[a].stamp
      BY <2>1, Limits
    <2>3. ~(attempt[b].stamp + Retention < now)
      BY <2>1, <2>2, Limits
    <2>4. b \in counted
      BY <2>1, <2>3 DEF IInv, SweptAreOld
    <2>5. QED
      BY <2>2, <2>4 DEF Recent
  <1>2. QED
    BY <1>1 DEF SameIp

\* Windows keep no more than they had, unless an attempt or a request is admitted.
LEMMA GuessesShrink ==
  ASSUME IInv, Open' \subseteq Open,
         \A a \in Open : attempt'[a].stamp = attempt[a].stamp /\ attempt'[a].ip = attempt[a].ip
  PROVE  /\ IsFiniteSet(Open')
         /\ \A t \in 0..MaxNow :
              /\ Cardinality(Guesses(t)') <= AccountLimit
              /\ \A ip \in Ip : Cardinality({a \in Guesses(t)' : attempt'[a].ip = ip}) <= PairLimit
  <1>1. IsFiniteSet(Open) /\ ThrottlesHold
    BY DEF IInv, SweptAreOld
  <1>2. ASSUME NEW t \in 0..MaxNow
        PROVE  /\ IsFiniteSet(Guesses(t)) /\ Guesses(t)' \subseteq Guesses(t)
               /\ Cardinality(Guesses(t)') <= AccountLimit
    <2>1. IsFiniteSet(Guesses(t)) /\ Guesses(t)' \subseteq Guesses(t)
      BY <1>1, FS_Subset DEF Guesses
    <2>2. QED
      BY <1>1, <2>1, NoMore, Limits DEF ThrottlesHold
  <1>3. ASSUME NEW t \in 0..MaxNow, NEW ip \in Ip
        PROVE  Cardinality({a \in Guesses(t)' : attempt'[a].ip = ip}) <= PairLimit
    <2> DEFINE From == {a \in Guesses(t) : attempt[a].ip = ip}
    <2>1. IsFiniteSet(From) /\ Cardinality(From) <= PairLimit
      BY <1>1, <1>2, FS_Subset DEF ThrottlesHold
    <2>2. {a \in Guesses(t)' : attempt'[a].ip = ip} \subseteq From
      BY <1>2 DEF Guesses
    <2> HIDE DEF From
    <2>3. QED
      BY <2>1, <2>2, NoMore, Limits
  <1>4. QED
    BY <1>1, <1>2, <1>3, FS_Subset

LEMMA ResetsShrink ==
  ASSUME IInv, Claimed' \subseteq Claimed, \A r \in Claimed : request'[r].stamp = request[r].stamp
  PROVE  /\ IsFiniteSet(Claimed')
         /\ \A t \in 0..MaxNow : Cardinality(Resets(t)') <= ResetLimit
  <1>1. IsFiniteSet(Claimed) /\ ThrottlesHold
    BY DEF IInv, SweptAreOld
  <1>2. ASSUME NEW t \in 0..MaxNow
        PROVE  Cardinality(Resets(t)') <= ResetLimit
    <2>1. IsFiniteSet(Resets(t)) /\ Resets(t)' \subseteq Resets(t)
      BY <1>1, FS_Subset DEF Resets
    <2>2. QED
      BY <1>1, <2>1, NoMore, Limits DEF ThrottlesHold
  <1>3. QED
    BY <1>1, <1>2, FS_Subset

\* An attempt is admitted: the windows it is in were below their limits.
LEMMA ReserveStep ==
  ASSUME IInv, NEW a \in Attempt, Reserve(a)
  PROVE  SweptAreOld' /\ ThrottlesHold'
  <1>0. TypeOK /\ SweptAreOld /\ ThrottlesHold /\ a \notin Open
    BY DEF IInv, Reserve, Open
  <1>1. /\ attempt' \in [Attempt -> AttemptType]
        /\ Open' = Open \cup {a} /\ counted' = counted \cup {a} /\ Claimed' = Claimed
        /\ now' = now /\ request' = request
        /\ \A b \in Attempt : attempt'[b].stamp = attempt[b].stamp /\ attempt'[b].ip = attempt[b].ip
    <2>1. [attempt[a] EXCEPT !.stage = "reserved"] \in AttemptType
      BY <1>0 DEF TypeOK, AttemptType
    <2>2. QED
      BY <1>0, <2>1 DEF TypeOK, AttemptType, Reserve, Open, Claimed
  <1>2. SweptAreOld'
    <2>1. IsFiniteSet(Open') /\ IsFiniteSet(counted') /\ IsFiniteSet(Claimed')
      BY <1>0, <1>1, FS_AddElement DEF SweptAreOld
    <2>2. \A b \in Open' \ counted' : b \in Open \ counted /\ b \in Attempt
      BY <1>1 DEF Open
    <2>3. QED
      BY <1>0, <1>1, <2>1, <2>2 DEF SweptAreOld
  <1>3. ASSUME NEW t \in 0..MaxNow
        PROVE  /\ Cardinality(Guesses(t)') <= AccountLimit
               /\ \A ip \in Ip : Cardinality({b \in Guesses(t)' : attempt'[b].ip = ip}) <= PairLimit
    <2>1. CASE ~(t <= attempt[a].stamp /\ attempt[a].stamp <= t + LoginWindow)
      <3>1. Guesses(t)' = Guesses(t)
        <4>1. \A b \in Open' : b \in Attempt
          BY DEF Open
        <4>2. QED
          BY <1>1, <2>1, <4>1 DEF Guesses
      <3>2. \A ip \in Ip : {b \in Guesses(t)' : attempt'[b].ip = ip} = {b \in Guesses(t) : attempt[b].ip = ip}
        BY <1>1, <3>1 DEF Guesses, Open
      <3>3. QED
        BY <1>0, <3>1, <3>2 DEF ThrottlesHold
    <2>2. CASE t <= attempt[a].stamp /\ attempt[a].stamp <= t + LoginWindow
      <3>1. Guesses(t)' \subseteq Recent(a) \cup {a}
        <4>1. \A b \in Open' : b \in Attempt
          BY DEF Open
        <4>2. Guesses(t)' \subseteq Guesses(t) \cup {a}
          BY <1>1, <4>1 DEF Guesses
        <4>3. QED
          BY <2>2, <4>2, WindowsAreRecent
      <3>2. IsFiniteSet(Recent(a)) /\ IsFiniteSet(SameIp(a))
        BY <1>0, FS_Subset DEF SweptAreOld, Recent, SameIp
      <3>3. Cardinality(Recent(a)) < AccountLimit
        BY DEF Reserve, Admitted
      <3>4. ASSUME NEW ip \in Ip
            PROVE  Cardinality({b \in Guesses(t)' : attempt'[b].ip = ip}) <= PairLimit
        <4>1. CASE attempt[a].ip = ip
          <5>1. {b \in Guesses(t)' : attempt'[b].ip = ip} \subseteq SameIp(a) \cup {a}
            BY <1>1, <3>1, <4>1 DEF Recent, SameIp, Guesses, Open
          <5>2. Cardinality(SameIp(a)) < PairLimit
            BY <4>1, Limits DEF Reserve, Admitted
          <5>3. QED
            BY <3>2, <5>1, <5>2, OneMore, Limits
        <4>2. CASE attempt[a].ip # ip
          <5>1. {b \in Guesses(t)' : attempt'[b].ip = ip} = {b \in Guesses(t) : attempt[b].ip = ip}
            BY <1>1, <4>2 DEF Guesses, Open
          <5>2. QED
            BY <1>0, <5>1 DEF ThrottlesHold
        <4>3. QED
          BY <4>1, <4>2
      <3>5. QED
        BY <3>1, <3>2, <3>3, <3>4, OneMore, Limits
    <2>3. QED
      BY <2>1, <2>2
  <1>4. \A t \in 0..MaxNow : Cardinality(Resets(t)') <= ResetLimit
    BY <1>0, <1>1 DEF Resets, ThrottlesHold
  <1>5. QED
    BY <1>2, <1>3, <1>4 DEF ThrottlesHold

\* A reset request is admitted: the windows it is in were below their limit.
LEMMA ClaimStep ==
  ASSUME IInv, NEW r \in Request, claimResetRequest(r)
  PROVE  SweptAreOld' /\ ThrottlesHold'
  <1> DEFINE Earlier == {q \in Claimed : request[q].stamp + ResetWindow >= request[r].stamp}
  <1>0. TypeOK /\ SweptAreOld /\ ThrottlesHold
    BY DEF IInv
  <1>1. /\ Claimed' = Claimed \cup {r} /\ attempt' = attempt /\ counted' = counted /\ now' = now
        /\ \A q \in Request : request'[q].stamp = request[q].stamp
    BY <1>0 DEF TypeOK, RequestType, claimResetRequest, Claimed
  <1>2. Open' = Open /\ \A t \in 0..MaxNow : Guesses(t)' = Guesses(t)
    BY <1>1 DEF Open, Guesses
  <1>3. SweptAreOld'
    BY <1>0, <1>1, <1>2, FS_AddElement DEF SweptAreOld
  <1>4. IsFiniteSet(Earlier) /\ Cardinality(Earlier) < ResetLimit
    BY <1>0, FS_Subset DEF SweptAreOld, claimResetRequest
  <1>5. ASSUME NEW t \in 0..MaxNow
        PROVE  Cardinality(Resets(t)') <= ResetLimit
    <2>1. CASE t <= request[r].stamp /\ request[r].stamp <= t + ResetWindow
      <3>1. ASSUME NEW q \in Claimed, t <= request[q].stamp
            PROVE  request[q].stamp + ResetWindow >= request[r].stamp
        BY <1>0, <2>1, <3>1, Limits DEF TypeOK, RequestType, Claimed
      <3>2. Resets(t)' \subseteq Earlier \cup {r}
        BY <1>1, <3>1 DEF Resets, Claimed
      <3> HIDE DEF Earlier
      <3>3. QED
        BY <1>4, <3>2, OneMore, Limits
    <2>2. CASE ~(t <= request[r].stamp /\ request[r].stamp <= t + ResetWindow)
      <3>1. Resets(t)' = Resets(t)
        BY <1>1, <2>2 DEF Resets, Claimed
      <3>2. QED
        BY <1>0, <3>1 DEF ThrottlesHold
    <2>3. QED
      BY <2>1, <2>2
  <1>6. QED
    BY <1>0, <1>1, <1>2, <1>3, <1>5 DEF ThrottlesHold

LEMMA ThrottleStep ==
  ASSUME IInv, [Next]_vars
  PROVE  SweptAreOld' /\ ThrottlesHold'
  <1>0. TypeOK /\ TicketsFollowRequests /\ SweptAreOld /\ ThrottlesHold
    BY DEF IInv
  \* What is enough of a step that admits nobody.
  <1> DEFINE
        OpenShrinks == /\ Open' \subseteq Open /\ now' \in Nat /\ now <= now'
                       /\ \A a \in Attempt : attempt'[a].stamp <= now'
                       /\ \A a \in Open : attempt'[a].stamp = attempt[a].stamp /\ attempt'[a].ip = attempt[a].ip
                       /\ counted' \subseteq counted
                       /\ \A a \in (counted \cap Open') \ counted' : attempt[a].stamp + Retention < now
        ClaimedKeep == Claimed' \subseteq Claimed /\ \A r \in Claimed : request'[r].stamp = request[r].stamp
  <1>1. ASSUME OpenShrinks, ClaimedKeep PROVE SweptAreOld' /\ ThrottlesHold'
    <2>1. \A a \in Open' \ counted' : attempt[a].stamp + Retention < now
      BY <1>0, <1>1 DEF SweptAreOld
    <2>2. \A a \in Open' \ counted' : attempt'[a].stamp + Retention < now'
      <3>1. ASSUME NEW a \in Open' \ counted' PROVE attempt'[a].stamp + Retention < now'
        <4>1. a \in Open /\ a \in Attempt
          BY <1>1 DEF Open
        <4>2. attempt'[a].stamp = attempt[a].stamp /\ attempt[a].stamp + Retention < now /\ now <= now'
              /\ now' \in Nat
          BY <1>1, <2>1, <3>1, <4>1
        <4>3. attempt[a].stamp \in Nat /\ now \in Nat
          BY <1>0, <4>1 DEF TypeOK, AttemptType
        <4>4. QED
          BY <4>2, <4>3, Limits
      <3>2. QED
        BY <3>1
    <2>3. IsFiniteSet(counted')
      BY <1>0, <1>1, FS_Subset DEF SweptAreOld
    <2>4. QED
      BY <1>1, <2>2, <2>3, GuessesShrink, ResetsShrink DEF SweptAreOld, ThrottlesHold
  <1>2. ASSUME UNCHANGED <<now, attempt, counted>> PROVE OpenShrinks
    BY <1>0, <1>2 DEF TypeOK, SweptAreOld, Open
  <1>3. ASSUME UNCHANGED request PROVE ClaimedKeep
    BY <1>3 DEF Claimed
  <1>4. ASSUME NEW a \in Attempt, NEW ip \in Ip \cup {None}, Arrive(a, ip) PROVE OpenShrinks
    BY <1>0, <1>4 DEF TypeOK, AttemptType, SweptAreOld, Open, Arrive
  <1>5. ASSUME NEW a \in Attempt, Verify(a) PROVE OpenShrinks
    BY <1>0, <1>5 DEF TypeOK, AttemptType, SweptAreOld, Open, Verify
  <1>6. ASSUME NEW a \in Attempt, SignIn(a) PROVE OpenShrinks
    BY <1>0, <1>6 DEF TypeOK, AttemptType, SweptAreOld, Open, SignIn
  <1>7. ASSUME Sweep PROVE OpenShrinks
    BY <1>0, <1>7, Limits DEF TypeOK, AttemptType, SweptAreOld, Open, Sweep
  <1>8. ASSUME Tick PROVE OpenShrinks
    BY <1>0, <1>8 DEF TypeOK, AttemptType, SweptAreOld, Open, Tick
  <1>9. ASSUME NEW r \in Request, \/ Ask(r) \/ issueResetToken(r) \/ deliverResetEmail(r)
                                  \/ invalidateIssuedToken(r)
        PROVE  ClaimedKeep
    BY <1>0, <1>9 DEF TypeOK, RequestType, TicketsFollowRequests, Claimed, Ask, issueResetToken,
         deliverResetEmail, invalidateIssuedToken
  <1> HIDE DEF OpenShrinks, ClaimedKeep
  <1>10. ASSUME NEW a \in Attempt, \/ \E ip \in Ip \cup {None} : Arrive(a, ip)
                                   \/ Verify(a) \/ SignIn(a)
         PROVE  SweptAreOld' /\ ThrottlesHold'
    BY <1>1, <1>3, <1>4, <1>5, <1>6, <1>10 DEF Arrive, Verify, SignIn
  <1>11. ASSUME NEW r \in Request, \/ Ask(r) \/ issueResetToken(r) \/ deliverResetEmail(r)
                                   \/ invalidateIssuedToken(r)
         PROVE  SweptAreOld' /\ ThrottlesHold'
    BY <1>1, <1>2, <1>9, <1>11 DEF Ask, issueResetToken, deliverResetEmail, invalidateIssuedToken
  <1>12. ASSUME Sweep \/ Tick PROVE SweptAreOld' /\ ThrottlesHold'
    BY <1>1, <1>3, <1>7, <1>8, <1>12 DEF Sweep, Tick
  <1>13. ASSUME UNCHANGED <<now, attempt, counted, request>> PROVE SweptAreOld' /\ ThrottlesHold'
    BY <1>1, <1>2, <1>3, <1>13
  <1>14. ASSUME NEW h \in Redeemer, \/ \E r \in Request : ReadTicket(h, r)
                                    \/ \E p \in Password : Redeem(h, p)
         PROVE  SweptAreOld' /\ ThrottlesHold'
    BY <1>13, <1>14 DEF ReadTicket, Redeem
  <1>15. ASSUME NEW i \in Invitation, \/ ReadInvitation(i) \/ NotAccepted(i)
                                      \/ \E p \in Password : acceptInvitation(i, p)
         PROVE  SweptAreOld' /\ ThrottlesHold'
    BY <1>13, <1>15 DEF ReadInvitation, NotAccepted, acceptInvitation
  <1>16. CASE UNCHANGED vars
    BY <1>13, <1>16 DEF vars
  <1>17. QED
    BY ReserveStep, ClaimStep, <1>10, <1>11, <1>12, <1>14, <1>15, <1>16 DEF Next

-----------------------------------------------------------------------------
(* Passwords and sessions. *)

LEMMA SessionStep ==
  ASSUME IInv, CInv, OneOrganization, [Next]_vars
  PROVE  CInv'
  <1>0. TypeOK
    BY DEF IInv
  <1> USE <1>0 DEF CInv, CheckedAreCurrent, FirstPasswordIsFirst
  <1>1. ASSUME NEW a \in Attempt, UNCHANGED <<user, invitation>>,
               \A b \in Attempt : attempt'[b].stage \in {"verified", "signed"} =>
                 \/ /\ attempt[b].stage \in {"verified", "signed"}
                    /\ attempt'[b].version = attempt[b].version
                    /\ attempt'[b].password = attempt[b].password
                 \/ /\ user.standing = "active" /\ attempt'[b].version = user.version
                    /\ attempt'[b].password = user.password
        PROVE  CInv'
    BY <1>1 DEF TypeOK, UserType
  <1>2. ASSUME NEW a \in Attempt, \/ \E ip \in Ip \cup {None} : Arrive(a, ip)
                                  \/ Reserve(a) \/ Verify(a) \/ SignIn(a)
        PROVE  CInv'
    <2>1. attempt \in [Attempt -> AttemptType]
      BY DEF TypeOK
    <2>2. \A b \in Attempt : attempt'[b].stage \in {"verified", "signed"} =>
            \/ /\ attempt[b].stage \in {"verified", "signed"}
               /\ attempt'[b].version = attempt[b].version
               /\ attempt'[b].password = attempt[b].password
            \/ /\ user.standing = "active" /\ attempt'[b].version = user.version
               /\ attempt'[b].password = user.password
      <3>1. ASSUME NEW ip \in Ip \cup {None}, Arrive(a, ip)
            PROVE  /\ attempt'[a].stage = "arrived"
                   /\ \A b \in Attempt \ {a} : attempt'[b] = attempt[b]
        BY <2>1, <3>1 DEF AttemptType, Arrive
      <3>2. ASSUME Reserve(a)
            PROVE  /\ attempt'[a].stage = "reserved"
                   /\ \A b \in Attempt \ {a} : attempt'[b] = attempt[b]
        BY <2>1, <3>2 DEF AttemptType, Reserve
      <3>3. ASSUME Verify(a)
            PROVE  /\ user.standing = "active" /\ attempt'[a].version = user.version
                   /\ attempt'[a].password = user.password
                   /\ \A b \in Attempt \ {a} : attempt'[b] = attempt[b]
        BY <2>1, <3>3 DEF AttemptType, Verify
      <3>4. ASSUME SignIn(a)
            PROVE  /\ attempt[a].stage = "verified" /\ attempt'[a].version = attempt[a].version
                   /\ attempt'[a].password = attempt[a].password
                   /\ \A b \in Attempt \ {a} : attempt'[b] = attempt[b]
        BY <2>1, <3>4 DEF AttemptType, SignIn
      <3>5. QED
        BY <1>2, <3>1, <3>2, <3>3, <3>4
    <2>3. QED
      BY <1>1, <1>2, <2>2 DEF Arrive, Reserve, Verify, SignIn
  <1>3. ASSUME NEW h \in Redeemer, NEW p \in Password, Redeem(h, p) PROVE CInv'
    <2>1. /\ UNCHANGED <<attempt, invitation>>
          /\ \/ user' = user
             \/ /\ user.standing = "active" /\ user'.standing = "active"
                /\ user.version \in Nat /\ user'.version = user.version + 1
      BY <1>3 DEF Redeem, Redeemable, TypeOK, UserType
    <2>2. \A a \in Attempt : attempt[a].version \in Nat
      BY DEF TypeOK, AttemptType
    <2>3. QED
      BY <2>1, <2>2
  <1>4. ASSUME NEW i \in Invitation, ReadInvitation(i) PROVE CInv'
    <2>1. /\ UNCHANGED <<attempt, user>>
          /\ \A j \in Invitation : j # i => invitation'[j] = invitation[j]
          /\ invitation'[i].found = user.standing
      BY <1>4 DEF ReadInvitation, TypeOK, InvitationType
    <2>2. QED
      BY <2>1
  <1>5. ASSUME NEW i \in Invitation, NotAccepted(i) PROVE CInv'
    <2>1. /\ UNCHANGED <<attempt, user>>
          /\ \A j \in Invitation : j # i => invitation'[j] = invitation[j]
          /\ invitation'[i].stage = "idle"
      BY <1>5 DEF NotAccepted, TypeOK, InvitationType
    <2>2. QED
      BY <2>1
  <1>6. ASSUME NEW i \in Invitation, NEW p \in Password, acceptInvitation(i, p) PROVE CInv'
    <2>1. \A j \in Invitation : invitation'[j].state # "open"
      <3>1. ASSUME NEW j \in Invitation PROVE Consumed(i)[j].state # "open"
        <4>1. invitation[j] \in InvitationType /\ OrgOf[j] = OrgOf[i]
          BY DEF TypeOK, OneOrganization
        <4>2. QED
          BY <4>1 DEF Consumed, InvitationType
      <3>2. QED
        BY <1>6, <3>1 DEF acceptInvitation
    <2>2. CASE invitation[i].found = "active"
      BY <1>6, <2>1, <2>2 DEF acceptInvitation
    <2>3. CASE invitation[i].found # "active"
      BY <1>6, <2>1, <2>3 DEF acceptInvitation
    <2>4. QED
      BY <2>2, <2>3
  <1>7. ASSUME UNCHANGED <<attempt, user, invitation>> PROVE CInv'
    BY <1>7
  <1>8. QED
    <2>1. ASSUME NEW r \in Request, \/ Ask(r) \/ claimResetRequest(r) \/ issueResetToken(r)
                                    \/ deliverResetEmail(r) \/ invalidateIssuedToken(r)
          PROVE  CInv'
      BY <1>7, <2>1 DEF Ask, claimResetRequest, issueResetToken, deliverResetEmail, invalidateIssuedToken
    <2>2. ASSUME NEW h \in Redeemer, NEW r \in Request, ReadTicket(h, r) PROVE CInv'
      BY <1>7, <2>2 DEF ReadTicket
    <2>3. CASE Sweep \/ Tick \/ UNCHANGED vars
      BY <1>7, <2>3 DEF Sweep, Tick, vars
    <2> HIDE DEF CInv
    <2>4. QED
      BY <1>2, <1>3, <1>4, <1>5, <1>6, <2>1, <2>2, <2>3 DEF Next

-----------------------------------------------------------------------------
(* Theorems. *)

LEMMA InductiveStep == IInv /\ [Next]_vars => IInv'
  BY TypeStep, TicketStep, ThrottleStep DEF IInv

LEMMA Invariance == Spec => []IInv
  BY InitIsInductive, InductiveStep, PTL DEF Spec

\* The rows keep their types, and a token belongs to a request that was admitted.
THEOREM Types == Spec => []TypeOK
  <1>1. IInv => TypeOK
    BY DEF IInv
  <1>2. QED
    BY <1>1, Invariance, PTL

\* The limits on guessing and on resets hold in every window of time, although
\* rows are swept and released: what the sweep of the rows may forget is too old
\* for anyone who may still be admitted.
THEOREM Throttled == Spec => []ThrottlesHold
  <1>1. IInv => ThrottlesHold
    BY DEF IInv
  <1>2. QED
    BY <1>1, Invariance, PTL

\* With the invitations of one organization, no session outlives the password it
\* was opened with.
THEOREM OldPasswordIsOut == OneOrganization => (Spec => []OldPasswordOut)
  <1> SUFFICES ASSUME OneOrganization PROVE Spec => []OldPasswordOut
    OBVIOUS
  <1>1. Init => CInv
    BY DEF Init, CInv, CheckedAreCurrent, FirstPasswordIsFirst
  <1>2. IInv /\ CInv /\ [Next]_vars => CInv'
    BY SessionStep
  <1>3. CInv => OldPasswordOut
    BY DEF CInv, CheckedAreCurrent, OldPasswordOut, sessionCredentialsCurrent
  <1>4. QED
    BY <1>1, <1>2, <1>3, Invariance, PTL DEF Spec

\* What one step does to a ticket that was mailed.
LEMMA MailedStep ==
  ASSUME IInv, [Next]_vars, NEW r \in Unused, request[r].mailed, ticket'[r].state = "used"
  PROVE  \/ user'.version # user.version
         \/ \E q \in Request : ticket[q].state = "none" /\ ticket'[q].state = "unused"
  <1>0. TypeOK /\ TicketsFollowRequests /\ r \in Request /\ ticket[r].state = "unused"
    BY DEF IInv, Unused
  <1>1. ASSUME NEW q \in Request, issueResetToken(q)
        PROVE  ticket[q].state = "none" /\ ticket'[q].state = "unused"
    BY <1>0, <1>1, IssueIsTyped DEF issueResetToken, TicketsFollowRequests
  <1>2. ASSUME NEW q \in Request, invalidateIssuedToken(q) PROVE FALSE
    <2>1. q # r
      BY <1>0, <1>2 DEF invalidateIssuedToken, TicketsFollowRequests
    <2>2. QED
      BY <1>0, <1>2, <2>1 DEF invalidateIssuedToken, TypeOK
  <1>3. ASSUME NEW h \in Redeemer, NEW p \in Password, Redeem(h, p) PROVE user'.version # user.version
    BY <1>0, <1>3, NewPassword DEF Redeem
  <1>4. ticket' # ticket
    BY <1>0
  <1>5. QED
    BY <1>1, <1>2, <1>3, <1>4
    DEF Next, Arrive, Reserve, Verify, SignIn, Sweep, Ask, claimResetRequest, deliverResetEmail,
        ReadTicket, ReadInvitation, NotAccepted, acceptInvitation, Tick, vars

\* A link that was sent ends only when it is redeemed or a newer one is issued.
THEOREM MailedLinksLast == Spec => MailedLinkLasts
  <1>1. IInv /\ [Next]_vars =>
          [\A r \in Unused : request[r].mailed /\ ticket'[r].state = "used"
             => \/ user'.version # user.version
                \/ \E q \in Request : ticket[q].state = "none" /\ ticket'[q].state = "unused"]_vars
    BY MailedStep
  <1>2. QED
    BY <1>1, Invariance, PTL DEF Spec, MailedLinkLasts

-----------------------------------------------------------------------------
(* The reset as the abstract specification has it. *)

good == {[ticket |-> r, until |-> ticket[r].until] : r \in Unused}
spent == {r \in Request : ticket[r].state # "none"}

LEMMA ResetStep ==
  ASSUME IInv, [Next]_vars
  PROVE  [Reset!Next]_(Reset!vars)
  <1>0. TypeOK /\ TicketsFollowRequests
    BY DEF IInv
  <1>1. ASSUME NEW r \in Request, issueResetToken(r) PROVE Reset!Issue(r)
    <2>1. /\ ticket[r].state = "none" /\ ticket'[r] = [state |-> "unused", until |-> now + TTL]
          /\ \A q \in Request : q # r =>
               /\ ticket'[q].state # "unused"
               /\ ticket'[q].state = "none" <=> ticket[q].state = "none"
      BY <1>0, <1>1, IssueIsTyped DEF issueResetToken, TicketsFollowRequests
    <2>2. Unused' = {r}
      BY <2>1 DEF Unused
    <2>3. good' = {[ticket |-> r, until |-> now + TTL]}
      BY <2>1, <2>2 DEF good
    <2>4. spent' = spent \cup {r} /\ r \notin spent
      BY <2>1 DEF spent
    <2>5. QED
      BY <1>1, <2>3, <2>4 DEF Reset!Issue, good, spent, issueResetToken
  <1>2. ASSUME NEW r \in Request, invalidateIssuedToken(r) PROVE Reset!Withdraw \/ UNCHANGED Reset!vars
    <2>1. spent' = spent
      BY <1>0, <1>2 DEF spent, invalidateIssuedToken, TypeOK, TicketType
    <2>2. CASE ticket[r].state = "unused"
      <3>1. Unused' = {}
        BY <1>0, <1>2, <2>2 DEF invalidateIssuedToken, TypeOK, TicketType, TicketsFollowRequests, Unused
      <3>2. good' = {}
        BY <3>1 DEF good
      <3>3. QED
        BY <1>2, <2>1, <3>2 DEF Reset!Withdraw, good, spent, invalidateIssuedToken
    <2>3. CASE ticket[r].state # "unused"
      <3>1. ticket' = ticket
        BY <1>0, <1>2, <2>3 DEF invalidateIssuedToken, TypeOK, TicketType
      <3>2. now' = now /\ user' = user
        BY <1>2 DEF invalidateIssuedToken
      <3>3. QED
        BY <3>1, <3>2 DEF Reset!vars, Unused
    <2>4. QED
      BY <2>2, <2>3
  <1>3. ASSUME NEW h \in Redeemer, NEW p \in Password, Redeem(h, p)
        PROVE  Reset!Redeem \/ UNCHANGED Reset!vars
    <2>1. CASE UNCHANGED <<ticket, user>>
      BY <1>3, <2>1 DEF Redeem, Reset!vars, Unused
    <2>2. CASE /\ Redeemable(redeemer[h].ticket) /\ ticket' = AllUsed
               /\ user' = [user EXCEPT !.password = p, !.version = @ + 1]
      <3> DEFINE t == redeemer[h].ticket
      <3>1. t \in Unused /\ now < ticket[t].until
        BY <1>0, <1>3, <2>2 DEF Redeem, Redeemable, TicketsFollowRequests, Unused
      <3>2. [ticket |-> t, until |-> ticket[t].until] \in good
        BY <3>1 DEF good
      <3>3. \E g \in good : now < g.until
        BY <3>1, <3>2
      <3>4. Unused' = {} /\ spent' = spent
        BY <2>2, IssueIsTyped, <1>0 DEF Unused, spent
      <3>5. good' = {}
        BY <3>4 DEF good
      <3>6. user'.version = user.version + 1
        BY <1>0, <2>2 DEF TypeOK, UserType
      <3>7. QED
        BY <1>3, <3>3, <3>4, <3>5, <3>6 DEF Reset!Redeem, good, spent, Redeem
    <2>3. QED
      BY <1>3, <2>1, <2>2 DEF Redeem
  <1>4. ASSUME Tick PROVE Reset!Pass
    BY <1>4 DEF Tick, Reset!Pass, Unused
  <1>5. ASSUME NEW i \in Invitation, NEW p \in Password, acceptInvitation(i, p) PROVE UNCHANGED Reset!vars
    <2>1. user'.version = user.version
      BY <1>0, <1>5 DEF acceptInvitation, TypeOK, UserType
    <2>2. QED
      BY <1>5, <2>1 DEF acceptInvitation, Reset!vars, Unused
  <1>6. ASSUME UNCHANGED <<now, user, ticket>> PROVE UNCHANGED Reset!vars
    BY <1>6 DEF Reset!vars, Unused
  <1>7. CASE UNCHANGED vars
    BY <1>6, <1>7 DEF vars
  <1>8. QED
    BY <1>1, <1>2, <1>3, <1>4, <1>5, <1>6, <1>7
    DEF Reset!Next, Next, Arrive, Reserve, Verify, SignIn, Sweep, Ask, claimResetRequest,
        deliverResetEmail, ReadTicket, ReadInvitation, NotAccepted

\* Requests, deliveries and redemptions keep the promise of ResetTicket: one good
\* link at most, good once and until its time, and the epoch of the credentials
\* advanced exactly by its redemption.
THEOREM ResetImplemented == Spec => ResetContract
  <1>1. Init => Reset!Init
    BY DEF Init, Reset!Init, Unused
  <1>2. IInv /\ [Next]_vars => [Reset!Next]_(Reset!vars)
    BY ResetStep
  <1>3. QED
    BY <1>1, <1>2, Invariance, PTL DEF Spec, ResetContract, Reset!Spec
=============================================================================
