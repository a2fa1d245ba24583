---------------------------- MODULE SessionProofs -----------------------------
(***************************************************************************)
(* Proofs about Session, for every limit and lifetime, every number of     *)
(* sessions, passwords and reset tokens, and whichever calls are           *)
(* overtaken.                                                              *)
(***************************************************************************)
EXTENDS Session, SequenceTheorems, TLAPS

\* A token of this version is good only for the password it was issued on.
Proves(version, proved) ==
    /\ version \in Nat /\ proved \in Nat
    /\ version <= account.tokenVersion
    /\ version = account.tokenVersion => proved = account.password

\* What a plan holds is of the type of what it read, and still there.
PlanTyped(p) ==
    \/ p.op = "login" /\ Proves(p.tokenVersion, p.proved)
    \/ p.op = "wrong" /\ p.failed \in 0..MaxFailed
    \/ p.op = "refresh" /\ p.session \in DOMAIN sessions
    \/ p.op = "reset" /\ p.token \in DOMAIN resets
    \/ p.op = "change"

RecordsTyped ==
    /\ account \in Accounts
    /\ sessions \in Seq(Sessions)
    /\ resets \in Seq(Resets)

Blank == sessions = <<>> /\ resets = <<>>

\* Of the account and its records.
Credentials ==
    /\ RecordsTyped
    /\ account.status = "NONE" => Blank
    /\ \A s \in DOMAIN sessions : Proves(sessions[s].tokenVersion, sessions[s].proved)

\* Of the slow call.
SlowTyped ==
    \/ slow = NoPlan
    \/ account.status # "NONE" /\ PlanTyped(slow)

SessionInv ==
    /\ kind \in {"staff", "customer"}
    /\ overtaken \in BOOLEAN
    /\ Credentials
    /\ SlowTyped

\* Sessions stay, with the credentials they have.
SameCredentials ==
    \A s \in DOMAIN sessions :
      /\ s \in DOMAIN sessions'
      /\ sessions'[s].tokenVersion = sessions[s].tokenVersion
      /\ sessions'[s].proved = sessions[s].proved

\* No step loses a record, changes the credentials of a session, or lets the
\* version of the account stay when its password changes.
Grows ==
    /\ RecordsTyped'
    /\ SameCredentials
    /\ DOMAIN resets \subseteq DOMAIN resets'
    /\ account.status # "NONE" => account'.status # "NONE"
    /\ account'.status = "NONE" => Blank'
    /\ \/ account.status = "NONE" /\ account'.tokenVersion = account.tokenVersion
       \/ account'.tokenVersion = account.tokenVersion /\ account'.password = account.password
       \/ account'.tokenVersion = account.tokenVersion + 1
    /\ \A s \in DOMAIN sessions' :
         s \notin DOMAIN sessions =>
           Proves(sessions[s].tokenVersion, sessions[s].proved)'

-----------------------------------------------------------------------------
(***************************************************************************)
(* Sequences of records.                                                   *)
(***************************************************************************)
LEMMA ReplacedSession ==
    ASSUME NEW q \in Seq(Sessions), NEW s \in DOMAIN q, NEW e \in Sessions
    PROVE  /\ [q EXCEPT ![s] = e] \in Seq(Sessions)
           /\ Len([q EXCEPT ![s] = e]) = Len(q)
           /\ DOMAIN [q EXCEPT ![s] = e] = DOMAIN q
           /\ \A t \in DOMAIN q : [q EXCEPT ![s] = e][t] = IF t = s THEN e ELSE q[t]
<1>1. s \in 1..Len(q)
  OBVIOUS
<1>2. QED
  BY <1>1, ExceptSeq

\* Ending a session changes nothing else of it.
LEMMA EndedSession ==
    ASSUME sessions \in Seq(Sessions), NEW s \in DOMAIN sessions,
           NEW x, x = [sessions EXCEPT ![s] = [@ EXCEPT !.revoked = TRUE]]
    PROVE  /\ x \in Seq(Sessions)
           /\ Len(x) = Len(sessions)
           /\ DOMAIN x = DOMAIN sessions
           /\ x[s].revoked
           /\ \A t \in DOMAIN sessions :
                /\ x[t].family = sessions[t].family
                /\ x[t].tokenVersion = sessions[t].tokenVersion
                /\ x[t].proved = sessions[t].proved
                /\ t # s => x[t] = sessions[t]
<1> DEFINE e == [sessions[s] EXCEPT !.revoked = TRUE]
<1>1. sessions[s] \in Sessions
  OBVIOUS
<1>2. e \in Sessions
  BY <1>1 DEF Sessions
<1>3. x = [sessions EXCEPT ![s] = e]
  OBVIOUS
<1>4. /\ e.family = sessions[s].family /\ e.tokenVersion = sessions[s].tokenVersion
      /\ e.proved = sessions[s].proved /\ e.revoked
  BY <1>1 DEF Sessions
<1> HIDE DEF e
<1>5. /\ x \in Seq(Sessions) /\ Len(x) = Len(sessions)
      /\ DOMAIN x = DOMAIN sessions
      /\ \A t \in DOMAIN sessions : x[t] = IF t = s THEN e ELSE sessions[t]
  <2> DEFINE y == [sessions EXCEPT ![s] = e]
  <2>1. /\ y \in Seq(Sessions) /\ Len(y) = Len(sessions)
        /\ DOMAIN y = DOMAIN sessions
        /\ \A t \in DOMAIN sessions : y[t] = IF t = s THEN e ELSE sessions[t]
    BY <1>2, ReplacedSession
  <2>2. x = y
    BY <1>3
  <2> HIDE DEF y
  <2>3. QED
    BY <2>1, <2>2
<1>6. QED
  BY <1>4, <1>5

\* Nor does ending all of them.
LEMMA EndedSessions ==
    ASSUME sessions \in Seq(Sessions), RevokeAll
    PROVE  /\ sessions' \in Seq(Sessions)
           /\ Len(sessions') = Len(sessions)
           /\ DOMAIN sessions' = DOMAIN sessions
           /\ \A t \in DOMAIN sessions :
                /\ sessions'[t].revoked
                /\ sessions'[t].family = sessions[t].family
                /\ sessions'[t].tokenVersion = sessions[t].tokenVersion
                /\ sessions'[t].proved = sessions[t].proved
<1> DEFINE e(t) == [sessions[t] EXCEPT !.revoked = TRUE]
<1>1. \A t \in DOMAIN sessions :
        /\ e(t) \in Sessions /\ e(t).revoked
        /\ e(t).family = sessions[t].family /\ e(t).tokenVersion = sessions[t].tokenVersion
        /\ e(t).proved = sessions[t].proved
  <2> TAKE t \in DOMAIN sessions
  <2>1. sessions[t] \in Sessions
    OBVIOUS
  <2>2. QED
    BY <2>1 DEF Sessions
<1>2. sessions' = [t \in 1..Len(sessions) |-> e(t)]
  BY DEF RevokeAll
<1> HIDE DEF e
<1>3. QED
  BY <1>1, <1>2

LEMMA NewSessionTyped ==
    ASSUME NEW f \in Nat, NEW v \in Nat, NEW p \in Nat
    PROVE  /\ NewSession(f, v, p) \in Sessions
           /\ NewSession(f, v, p).family = f
           /\ NewSession(f, v, p).tokenVersion = v
           /\ NewSession(f, v, p).proved = p
BY LivesAssumption DEF NewSession, Sessions

LEMMA AppendSession ==
    ASSUME NEW x \in Seq(Sessions), NEW e \in Sessions
    PROVE  /\ Append(x, e) \in Seq(Sessions)
           /\ Len(Append(x, e)) = Len(x) + 1
           /\ DOMAIN Append(x, e) = DOMAIN x \cup {Len(x) + 1}
           /\ Append(x, e)[Len(x) + 1] = e
           /\ \A t \in DOMAIN x : Append(x, e)[t] = x[t]
OBVIOUS

-----------------------------------------------------------------------------
(***************************************************************************)
(* Every write grows the records.                                          *)
(***************************************************************************)
\* Writes of the account that leave its password and version alone.
SameSecret ==
    /\ account' \in Accounts
    /\ account'.tokenVersion = account.tokenVersion
    /\ account'.password = account.password
    /\ account.status # "NONE" => account'.status # "NONE"

LEMMA NewLoginGrows ==
    ASSUME Credentials, account.status # "NONE", SameSecret, UNCHANGED resets,
           NEW p, Proves(p.tokenVersion, p.proved), NewLogin(p)
    PROVE  Grows
<1> DEFINE e == NewSession(Len(sessions) + 1, p.tokenVersion, p.proved)
<1>1. sessions \in Seq(Sessions) /\ resets \in Seq(Resets)
  BY DEF Credentials, RecordsTyped
<1>2. Len(sessions) + 1 \in Nat
  BY <1>1
<1>3. e \in Sessions /\ e.tokenVersion = p.tokenVersion /\ e.proved = p.proved
  BY <1>2, NewSessionTyped DEF Proves
<1>4. sessions' = Append(sessions, e)
  BY DEF NewLogin
<1> HIDE DEF e
<1>5. /\ sessions' \in Seq(Sessions)
      /\ DOMAIN sessions' = DOMAIN sessions \cup {Len(sessions) + 1}
      /\ sessions'[Len(sessions) + 1] = e
      /\ \A t \in DOMAIN sessions : sessions'[t] = sessions[t]
  BY <1>1, <1>3, <1>4, AppendSession
<1>6. \A s \in DOMAIN sessions' :
        s \notin DOMAIN sessions => Proves(sessions[s].tokenVersion, sessions[s].proved)'
  BY <1>3, <1>5 DEF Proves, SameSecret
<1>7. SameCredentials
  BY <1>5 DEF SameCredentials
<1>8. QED
  BY <1>1, <1>5, <1>6, <1>7 DEF Grows, SameSecret, RecordsTyped

LEMMA RotateGrows ==
    ASSUME Credentials, NEW s \in DOMAIN sessions, account.status # "NONE", Rotate(s)
    PROVE  Grows
<1> DEFINE x == [sessions EXCEPT ![s].revoked = TRUE]
           e == NewSession(sessions[s].family, sessions[s].tokenVersion, sessions[s].proved)
<1>1. sessions \in Seq(Sessions) /\ resets \in Seq(Resets) /\ account \in Accounts
  BY DEF Credentials, RecordsTyped
<1>2. sessions[s] \in Sessions
  BY <1>1
<1>3. sessions[s].family \in Nat /\ sessions[s].tokenVersion \in Nat /\ sessions[s].proved \in Nat
  BY <1>2 DEF Sessions
<1>4. /\ e \in Sessions /\ e.tokenVersion = sessions[s].tokenVersion
      /\ e.proved = sessions[s].proved
  BY <1>3, NewSessionTyped
<1>5. x \in Seq(Sessions) /\ Len(x) = Len(sessions) /\ DOMAIN x = DOMAIN sessions
  BY <1>1, EndedSession
<1>6. \A t \in DOMAIN sessions : /\ x[t].tokenVersion = sessions[t].tokenVersion
                                 /\ x[t].proved = sessions[t].proved
  BY <1>1, EndedSession
<1>7. sessions' = Append(x, e) /\ UNCHANGED <<account, resets>>
  BY DEF Rotate
<1> HIDE DEF x, e
<1>8. /\ sessions' \in Seq(Sessions)
      /\ DOMAIN sessions' = DOMAIN sessions \cup {Len(sessions) + 1}
      /\ sessions'[Len(sessions) + 1] = e
      /\ \A t \in DOMAIN sessions : sessions'[t] = x[t]
  BY SMTT(30), <1>4, <1>5, <1>7, AppendSession
<1>9. Proves(sessions[s].tokenVersion, sessions[s].proved)
  BY DEF Credentials
<1>10. \A t \in DOMAIN sessions' :
        t \notin DOMAIN sessions => Proves(sessions[t].tokenVersion, sessions[t].proved)'
  BY <1>4, <1>7, <1>8, <1>9 DEF Proves
<1>11. SameCredentials
  BY <1>6, <1>8 DEF SameCredentials
<1>12. QED
  BY <1>1, <1>7, <1>8, <1>10, <1>11 DEF Grows, RecordsTyped

LEMMA SetPasswordGrows ==
    ASSUME Credentials, account.status # "NONE", SetPassword,
           resets' \in Seq(Resets), DOMAIN resets \subseteq DOMAIN resets'
    PROVE  Grows /\ account'.tokenVersion = account.tokenVersion + 1
<1>1. account \in Accounts /\ sessions \in Seq(Sessions) /\ resets \in Seq(Resets)
  BY DEF Credentials, RecordsTyped
<1>2. account' = [account EXCEPT !.password = account.password + 1,
                                 !.tokenVersion = account.tokenVersion + 1]
  BY DEF SetPassword, NextVersion
<1>3. /\ account' \in Accounts /\ account'.status = account.status
      /\ account'.tokenVersion = account.tokenVersion + 1
  <2>1. account.password + 1 \in Nat /\ account.tokenVersion + 1 \in Nat
    BY <1>1 DEF Accounts
  <2> DEFINE x == account.password + 1
             y == account.tokenVersion + 1
  <2>2. account' = [account EXCEPT !.password = x, !.tokenVersion = y]
    BY <1>2
  <2>3. x \in Nat /\ y \in Nat
    BY <2>1
  <2> HIDE DEF x, y
  <2>4. account' = [status |-> account.status, password |-> x, tokenVersion |-> y,
                    failed |-> account.failed, locked |-> account.locked]
    BY <1>1, <2>2 DEF Accounts
  <2>5. account' \in Accounts /\ account'.status = account.status /\ account'.tokenVersion = y
    BY <1>1, <2>3, <2>4 DEF Accounts
  <2>6. QED
    BY <2>5 DEF y
<1>4. RevokeAll
  BY DEF SetPassword
<1>5. sessions' \in Seq(Sessions) /\ DOMAIN sessions' = DOMAIN sessions
  BY <1>1, <1>4, EndedSessions
<1>6. SameCredentials
  <2>1. \A t \in DOMAIN sessions : /\ sessions'[t].tokenVersion = sessions[t].tokenVersion
                                   /\ sessions'[t].proved = sessions[t].proved
    BY <1>1, <1>4, EndedSessions
  <2>2. QED
    BY <1>5, <2>1 DEF SameCredentials
<1>7. \A s \in DOMAIN sessions' :
        s \notin DOMAIN sessions => Proves(sessions[s].tokenVersion, sessions[s].proved)'
  BY <1>5
<1>8. RecordsTyped'
  BY <1>3, <1>5 DEF RecordsTyped
<1>9. QED
  BY <1>3, <1>6, <1>7, <1>8 DEF Grows

LEMMA ReplacedReset ==
    ASSUME NEW q \in Seq(Resets), NEW r \in DOMAIN q, NEW e \in Resets
    PROVE  /\ [q EXCEPT ![r] = e] \in Seq(Resets)
           /\ DOMAIN [q EXCEPT ![r] = e] = DOMAIN q
           /\ \A t \in DOMAIN q : [q EXCEPT ![r] = e][t] = IF t = r THEN e ELSE q[t]
<1>1. r \in 1..Len(q)
  OBVIOUS
<1>2. QED
  BY <1>1, ExceptSeq

LEMMA UsedReset ==
    ASSUME NEW a \in Resets, NEW x \in Nat,
           NEW b, b = [a EXCEPT !.used = TRUE, !.uses = x]
    PROVE  b \in Resets /\ b.used /\ b.uses = x
<1>1. b = [life |-> a.life, used |-> TRUE, uses |-> x]
  BY DEF Resets
<1>2. QED
  BY <1>1 DEF Resets

\* A reset token is used up.
LEMMA RedeemTyped ==
    ASSUME resets \in Seq(Resets), NEW r \in DOMAIN resets, Redeem(r)
    PROVE  /\ resets' \in Seq(Resets)
           /\ DOMAIN resets' = DOMAIN resets
           /\ resets'[r].used /\ resets'[r].uses = resets[r].uses + 1
           /\ \A t \in DOMAIN resets \ {r} : resets'[t] = resets[t]
<1> DEFINE e == [resets[r] EXCEPT !.used = TRUE, !.uses = resets[r].uses + 1]
           y == [resets EXCEPT ![r] = e]
<1>1. resets[r] \in Resets
  OBVIOUS
<1>2. e \in Resets /\ e.used /\ e.uses = resets[r].uses + 1
  <2>1. resets[r].uses + 1 \in Nat
    BY <1>1 DEF Resets
  <2>2. QED
    BY <1>1, <2>1, UsedReset
<1>3. resets' = y
  BY DEF Redeem
<1> HIDE DEF e
<1>4. /\ y \in Seq(Resets) /\ DOMAIN y = DOMAIN resets
      /\ \A t \in DOMAIN resets : y[t] = IF t = r THEN e ELSE resets[t]
  BY <1>2, ReplacedReset
<1> HIDE DEF y
<1>5. QED
  BY <1>2, <1>3, <1>4

-----------------------------------------------------------------------------
LEMMA AccountGrows ==
    ASSUME Credentials, account.status # "NONE", SameSecret,
           UNCHANGED <<sessions, resets>>
    PROVE  Grows
<1>1. RecordsTyped'
  BY DEF Credentials, RecordsTyped, SameSecret
<1>2. SameCredentials
  BY DEF SameCredentials
<1>3. QED
  BY <1>1, <1>2 DEF Grows, SameSecret

LEMMA StaffLoginGrows ==
    ASSUME Credentials, account.status # "NONE",
           NEW p, Proves(p.tokenVersion, p.proved), StaffLogin(p)
    PROVE  Grows
<1>1. account \in Accounts
  BY DEF Credentials, RecordsTyped
<1>2. account' = [account EXCEPT !.failed = 0, !.locked = 0]
  BY DEF StaffLogin
<1>3. account' = [status |-> account.status, password |-> account.password,
                  tokenVersion |-> account.tokenVersion, failed |-> 0, locked |-> 0]
  BY <1>1, <1>2 DEF Accounts
<1>4. 0 \in 0..MaxFailed /\ 0 \in 0..LockLife
  BY LivesAssumption
<1>5. SameSecret
  BY <1>1, <1>3, <1>4 DEF SameSecret, Accounts
<1>6. QED
  BY <1>5, NewLoginGrows DEF StaffLogin

LEMMA WrongPasswordGrows ==
    ASSUME Credentials, account.status # "NONE",
           NEW p, p.failed \in 0..MaxFailed, WrongPassword(p)
    PROVE  Grows
<1> DEFINE failed == IF p.failed < MaxFailed THEN p.failed + 1 ELSE MaxFailed
           locked == IF failed >= MaxFailed THEN LockLife ELSE 0
<1>1. account \in Accounts
  BY DEF Credentials, RecordsTyped
<1>2. failed \in 0..MaxFailed /\ locked \in 0..LockLife
  BY LivesAssumption
<1>3. account' = [account EXCEPT !.failed = failed, !.locked = locked]
  BY DEF WrongPassword
<1> HIDE DEF failed, locked
<1>4. account' = [status |-> account.status, password |-> account.password,
                  tokenVersion |-> account.tokenVersion, failed |-> failed, locked |-> locked]
  BY <1>1, <1>3 DEF Accounts
<1>5. SameSecret
  BY <1>1, <1>2, <1>4 DEF SameSecret, Accounts
<1>6. QED
  BY <1>5, AccountGrows DEF WrongPassword

LEMMA WriteGrows ==
    ASSUME Credentials, account.status # "NONE", NEW p, PlanTyped(p), Write(p)
    PROVE  Grows
<1>1. resets \in Seq(Resets) /\ account \in Accounts
  BY DEF Credentials, RecordsTyped
<1>2. CASE StaffLogin(p)
  <2>1. Proves(p.tokenVersion, p.proved)
    BY <1>2 DEF PlanTyped, StaffLogin
  <2>2. QED
    BY <1>2, <2>1, StaffLoginGrows
<1>3. CASE WrongPassword(p)
  <2>1. p.failed \in 0..MaxFailed
    BY <1>3 DEF PlanTyped, WrongPassword
  <2>2. QED
    BY <1>3, <2>1, WrongPasswordGrows
<1>4. CASE CustomerLogin(p)
  <2>1. Proves(p.tokenVersion, p.proved)
    BY <1>4 DEF PlanTyped, CustomerLogin
  <2>2. SameSecret
    BY <1>1, <1>4 DEF SameSecret, CustomerLogin
  <2>3. QED
    BY <1>4, <2>1, <2>2, NewLoginGrows DEF CustomerLogin
<1>5. CASE StaffRefresh(p) \/ CustomerRefresh(p)
  <2>1. p.session \in DOMAIN sessions /\ Rotate(p.session)
    BY <1>5 DEF PlanTyped, StaffRefresh, CustomerRefresh
  <2>2. QED
    BY <2>1, RotateGrows
<1>6. CASE StaffReset(p) \/ CustomerReset(p)
  <2>1. p.token \in DOMAIN resets /\ SetPassword /\ Redeem(p.token)
    BY <1>6 DEF PlanTyped, StaffReset, CustomerReset
  <2>2. resets' \in Seq(Resets) /\ DOMAIN resets' = DOMAIN resets
    BY <1>1, <2>1, RedeemTyped
  <2>3. QED
    BY <2>1, <2>2, SetPasswordGrows
<1>7. CASE StaffChange(p) \/ CustomerChange(p)
  BY <1>1, <1>7, SetPasswordGrows DEF StaffChange, CustomerChange
<1>8. QED
  BY <1>2, <1>3, <1>4, <1>5, <1>6, <1>7 DEF Write

\* A plan is made of what is there.
LEMMA PlansTyped ==
    ASSUME Credentials, NEW p \in Plans
    PROVE  account.status # "NONE" /\ PlanTyped(p)
<1>1. /\ account \in Accounts /\ resets \in Seq(Resets)
      /\ account.status = "NONE" => Blank
  BY DEF Credentials, RecordsTyped
<1>2. CASE p \in StaffPlans \cup CustomerPlans
  <2>1. p = RightPlan \/ p = WrongPlan
    BY <1>2 DEF StaffPlans, CustomerPlans
  <2>2. account.status # "NONE"
    BY <1>2 DEF StaffPlans, CustomerPlans, MayTry
  <2>3. CASE p = RightPlan
    BY <1>1, <2>2, <2>3 DEF RightPlan, PlanTyped, Proves, Accounts
  <2>4. CASE p = WrongPlan
    BY <1>1, <2>2, <2>4 DEF WrongPlan, PlanTyped, Accounts
  <2>5. QED
    BY <2>1, <2>3, <2>4
<1>3. CASE p \in RefreshPlans
  BY <1>3 DEF RefreshPlans, Refreshable, PlanTyped
<1>4. CASE p \in ResetPlans
  BY <1>1, <1>4 DEF ResetPlans, Blank, PlanTyped
<1>5. CASE p \in ChangePlans
  BY <1>5 DEF ChangePlans, Accepted, StaffAccepted, CustomerAccepted, PlanTyped
<1>6. QED
  BY <1>2, <1>3, <1>4, <1>5 DEF Plans

LEMMA CreatedGrows ==
    ASSUME Credentials, CreateUser \/ Register
    PROVE  Grows
<1>1. /\ account \in Accounts /\ account.status = "NONE"
      /\ sessions = <<>> /\ resets \in Seq(Resets) /\ resets' = resets
  BY DEF Credentials, RecordsTyped, Blank, CreateUser, Register
<1>2. account' = [account EXCEPT !.status = "ACTIVE", !.password = 1]
  BY DEF CreateUser, Register
<1>3. account' = [status |-> "ACTIVE", password |-> 1, tokenVersion |-> account.tokenVersion,
                  failed |-> account.failed, locked |-> account.locked]
  BY <1>1, <1>2 DEF Accounts
<1>4. /\ account' \in Accounts /\ account'.status # "NONE" /\ account'.password = 1
      /\ account'.tokenVersion = account.tokenVersion /\ account.tokenVersion \in Nat
  BY <1>1, <1>3 DEF Accounts
<1>5. SameCredentials
  BY <1>1 DEF SameCredentials
<1> DEFINE e == NewSession(1, account.tokenVersion, 1)
<1>6. e \in Sessions /\ e.tokenVersion = account.tokenVersion /\ e.proved = 1
  BY <1>4, NewSessionTyped
<1> HIDE DEF e
<1>7. sessions' = <<>> \/ sessions' = <<e>>
  BY <1>1 DEF CreateUser, Register, e
<1>8. /\ sessions' \in Seq(Sessions)
      /\ \A s \in DOMAIN sessions' : sessions'[s] = e
  <2>1. CASE sessions' = <<>>
    BY <2>1
  <2>2. CASE sessions' = <<e>>
    <3>1. <<e>> \in Seq(Sessions) /\ Len(<<e>>) = 1 /\ <<e>>[1] = e
      BY <1>6
    <3>2. QED
      BY <2>2, <3>1
  <2>3. QED
    BY <1>7, <2>1, <2>2
<1>9. \A s \in DOMAIN sessions' :
        s \notin DOMAIN sessions => Proves(sessions[s].tokenVersion, sessions[s].proved)'
  BY <1>4, <1>6, <1>8 DEF Proves
<1>10. RecordsTyped'
  BY <1>1, <1>4, <1>8 DEF RecordsTyped
<1>11. QED
  BY <1>1, <1>4, <1>5, <1>9, <1>10 DEF Grows

LEMMA SetStatusGrows ==
    ASSUME Credentials, SetStatus
    PROVE  Grows
<1>1. account \in Accounts
  BY DEF Credentials, RecordsTyped
<1>2. PICK status \in {"ACTIVE", "SUSPENDED"} : account' = [account EXCEPT !.status = status]
  BY DEF SetStatus
<1>3. account' = [status |-> status, password |-> account.password,
                  tokenVersion |-> account.tokenVersion, failed |-> account.failed,
                  locked |-> account.locked]
  BY <1>1, <1>2 DEF Accounts
<1>4. SameSecret
  BY <1>1, <1>3 DEF SameSecret, Accounts
<1>5. QED
  BY <1>4, AccountGrows DEF SetStatus

\* Of an account that has sessions.
LEMMA EndedGrows ==
    ASSUME Credentials, NEW s \in DOMAIN sessions,
           EndSession(s) \/ RevokeAll, UNCHANGED <<account, resets>>
    PROVE  Grows
<1>1. /\ account \in Accounts /\ sessions \in Seq(Sessions) /\ resets \in Seq(Resets)
      /\ account.status # "NONE"
  BY DEF Credentials, RecordsTyped, Blank
<1>2. /\ sessions' \in Seq(Sessions) /\ DOMAIN sessions' = DOMAIN sessions
      /\ \A t \in DOMAIN sessions : /\ sessions'[t].tokenVersion = sessions[t].tokenVersion
                                    /\ sessions'[t].proved = sessions[t].proved
  <2>1. CASE EndSession(s)
    <3> DEFINE x == [sessions EXCEPT ![s].revoked = TRUE]
    <3>1. x \in Seq(Sessions) /\ DOMAIN x = DOMAIN sessions
      BY <1>1, EndedSession
    <3>2. \A t \in DOMAIN sessions : /\ x[t].tokenVersion = sessions[t].tokenVersion
                                     /\ x[t].proved = sessions[t].proved
      BY <1>1, EndedSession
    <3>3. sessions' = x
      BY <2>1 DEF EndSession
    <3> HIDE DEF x
    <3>4. QED
      BY <3>1, <3>2, <3>3
  <2>2. CASE RevokeAll
    BY <1>1, <2>2, EndedSessions
  <2>3. QED
    BY <2>1, <2>2
<1>3. SameCredentials
  BY <1>2 DEF SameCredentials
<1>4. QED
  BY <1>1, <1>2, <1>3 DEF Grows, RecordsTyped

LEMMA IssueResetGrows ==
    ASSUME Credentials, IssueReset
    PROVE  Grows
<1> DEFINE e == [life |-> ResetLife, used |-> FALSE, uses |-> 0]
<1>1. account \in Accounts /\ sessions \in Seq(Sessions) /\ resets \in Seq(Resets)
  BY DEF Credentials, RecordsTyped
<1>2. e \in Resets
  BY LivesAssumption DEF Resets
<1>3. resets' = Append(resets, e) /\ UNCHANGED <<account, sessions>>
  BY DEF IssueReset
<1> HIDE DEF e
<1>4. resets' \in Seq(Resets) /\ DOMAIN resets \subseteq DOMAIN resets'
  BY <1>1, <1>2, <1>3
<1>5. SameCredentials
  BY <1>3 DEF SameCredentials
<1>6. account.status # "NONE"
  BY DEF IssueReset
<1>7. QED
  BY <1>1, <1>3, <1>4, <1>5, <1>6 DEF Grows, RecordsTyped

LEMMA LessTyped ==
    ASSUME NEW n \in Nat, NEW i \in 0..n
    PROVE  Less(i) \in 0..n
BY DEF Less

\* What time leaves of the sessions and the reset tokens.
LEMMA TickTyped ==
    ASSUME RecordsTyped, Tick
    PROVE  /\ sessions' \in Seq(Sessions) /\ DOMAIN sessions' = DOMAIN sessions
           /\ \A s \in DOMAIN sessions :
                /\ sessions'[s].family = sessions[s].family
                /\ sessions'[s].tokenVersion = sessions[s].tokenVersion
                /\ sessions'[s].proved = sessions[s].proved
                /\ sessions'[s].revoked = sessions[s].revoked
           /\ resets' \in Seq(Resets) /\ DOMAIN resets' = DOMAIN resets
           /\ \A r \in DOMAIN resets :
                /\ resets'[r].used = resets[r].used
                /\ resets'[r].uses = resets[r].uses
<1> USE LivesAssumption
<1> DEFINE e(s) == [sessions[s] EXCEPT !.access = Less(sessions[s].access),
                                       !.refresh = Less(sessions[s].refresh)]
           f(r) == [resets[r] EXCEPT !.life = Less(resets[r].life)]
<1>1. sessions \in Seq(Sessions) /\ resets \in Seq(Resets)
  BY DEF RecordsTyped
<1>2. \A s \in DOMAIN sessions :
        /\ e(s) \in Sessions
        /\ e(s).family = sessions[s].family /\ e(s).tokenVersion = sessions[s].tokenVersion
        /\ e(s).proved = sessions[s].proved /\ e(s).revoked = sessions[s].revoked
  <2> TAKE s \in DOMAIN sessions
  <2> DEFINE access == Less(sessions[s].access)
             refresh == Less(sessions[s].refresh)
  <2>1. sessions[s] \in Sessions
    BY <1>1
  <2>2. access \in 0..AccessLife /\ refresh \in 0..RefreshLife
    BY <2>1, LessTyped DEF Sessions
  <2>3. e(s) = [sessions[s] EXCEPT !.access = access, !.refresh = refresh]
    OBVIOUS
  <2> HIDE DEF access, refresh, e
  <2>4. e(s) = [family |-> sessions[s].family, tokenVersion |-> sessions[s].tokenVersion,
                proved |-> sessions[s].proved, revoked |-> sessions[s].revoked,
                access |-> access, refresh |-> refresh]
    BY <2>1, <2>3 DEF Sessions
  <2>5. QED
    BY <2>1, <2>2, <2>4 DEF Sessions
<1>3. \A r \in DOMAIN resets :
        f(r) \in Resets /\ f(r).used = resets[r].used /\ f(r).uses = resets[r].uses
  <2> TAKE r \in DOMAIN resets
  <2>1. resets[r] \in Resets
    BY <1>1
  <2>2. Less(resets[r].life) \in 0..ResetLife
    BY <2>1, LessTyped DEF Resets
  <2>3. QED
    BY <2>1, <2>2 DEF Resets
<1>4. /\ sessions' = [s \in 1..Len(sessions) |-> e(s)]
      /\ resets' = [r \in 1..Len(resets) |-> f(r)]
  <2>1. /\ sessions' = [s \in DOMAIN sessions |-> e(s)]
        /\ resets' = [r \in DOMAIN resets |-> f(r)]
    BY DEF Tick
  <2>2. DOMAIN sessions = 1..Len(sessions) /\ DOMAIN resets = 1..Len(resets)
    BY <1>1
  <2>3. QED
    BY <2>1, <2>2
<1> HIDE DEF e, f
<1>5. QED
  BY <1>1, <1>2, <1>3, <1>4

LEMMA TickGrows ==
    ASSUME Credentials, Tick
    PROVE  Grows
<1>1. /\ RecordsTyped
      /\ account.status = "NONE" => Blank
  BY DEF Credentials
<1>2. account \in Accounts /\ sessions \in Seq(Sessions) /\ resets \in Seq(Resets)
  BY <1>1 DEF RecordsTyped
<1> DEFINE locked == Less(account.locked)
<1>3. locked \in 0..LockLife
  BY <1>2, LessTyped, LivesAssumption DEF Accounts
<1>4. account' = [account EXCEPT !.locked = locked]
  BY DEF Tick
<1> HIDE DEF locked
<1>5. /\ account' \in Accounts /\ account'.status = account.status
      /\ account'.password = account.password /\ account'.tokenVersion = account.tokenVersion
  BY <1>2, <1>3, <1>4 DEF Accounts
<1>6. /\ sessions' \in Seq(Sessions) /\ DOMAIN sessions' = DOMAIN sessions
      /\ \A s \in DOMAIN sessions :
           /\ sessions'[s].tokenVersion = sessions[s].tokenVersion
           /\ sessions'[s].proved = sessions[s].proved
      /\ resets' \in Seq(Resets) /\ DOMAIN resets' = DOMAIN resets
  BY <1>1, TickTyped
<1>7. SameCredentials
  BY <1>6 DEF SameCredentials
<1>8. account'.status = "NONE" => Blank'
  BY <1>1, <1>2, <1>5, <1>6 DEF Blank
<1>9. QED
  BY <1>5, <1>6, <1>7, <1>8 DEF Grows, RecordsTyped

LEMMA AloneGrows ==
    ASSUME Credentials, Alone
    PROVE  Grows
<1>1. CASE \E p \in Plans : Write(p)
  <2>1. PICK p \in Plans : Write(p)
    BY <1>1
  <2>2. account.status # "NONE" /\ PlanTyped(p)
    BY PlansTyped
  <2>3. QED
    BY <2>1, <2>2, WriteGrows
<1>2. CASE CreateUser \/ Register
  BY <1>2, CreatedGrows
<1>3. CASE SetStatus
  BY <1>3, SetStatusGrows
<1>4. CASE AdminReset
  <2>1. resets \in Seq(Resets)
    BY DEF Credentials, RecordsTyped
  <2>2. QED
    BY <1>4, <2>1, SetPasswordGrows DEF AdminReset
<1>5. CASE Logout \/ RevokeSession \/ LogoutAll
  <2>1. UNCHANGED <<account, resets>>
    BY <1>5 DEF Logout, RevokeSession, LogoutAll
  <2>2. \E s \in DOMAIN sessions : EndSession(s) \/ RevokeAll
    BY <1>5 DEF Logout, RevokeSession, LogoutAll, LoggedIn
  <2>3. QED
    BY <2>1, <2>2, EndedGrows
<1>6. CASE StaffForgot \/ CustomerForgot
  BY <1>6, IssueResetGrows DEF StaffForgot, CustomerForgot
<1>7. QED
  BY <1>1, <1>2, <1>3, <1>4, <1>5, <1>6 DEF Alone

-----------------------------------------------------------------------------
(***************************************************************************)
(* The invariant.                                                          *)
(***************************************************************************)
LEMMA GrownCredentials ==
    ASSUME Credentials, Grows
    PROVE  Credentials'
<1>1. /\ RecordsTyped' /\ SameCredentials
      /\ account'.status = "NONE" => Blank'
      /\ account.status = "NONE" => Blank
  BY DEF Credentials, Grows
<1>2. account \in Accounts /\ account' \in Accounts
  BY <1>1 DEF Credentials, RecordsTyped
<1>3. account.tokenVersion \in Nat /\ account'.tokenVersion \in Nat
  BY <1>2 DEF Accounts
<1>4. \A s \in DOMAIN sessions' : Proves(sessions[s].tokenVersion, sessions[s].proved)'
  <2> TAKE s \in DOMAIN sessions'
  <2>1. CASE s \notin DOMAIN sessions
    BY <2>1 DEF Grows
  <2>2. CASE s \in DOMAIN sessions
    <3>1. account.status # "NONE"
      BY <1>1, <2>2 DEF Blank
    <3>2. Proves(sessions[s].tokenVersion, sessions[s].proved)
      BY <2>2 DEF Credentials
    <3>3. sessions'[s].tokenVersion = sessions[s].tokenVersion /\ sessions'[s].proved = sessions[s].proved
      BY <1>1, <2>2 DEF SameCredentials
    <3>4. \/ account'.tokenVersion = account.tokenVersion /\ account'.password = account.password
          \/ account'.tokenVersion = account.tokenVersion + 1
      BY <3>1 DEF Grows
    <3>5. QED
      BY <1>3, <3>2, <3>3, <3>4 DEF Proves
  <2>3. QED
    BY <2>1, <2>2
<1>5. QED
  BY <1>1, <1>4 DEF Credentials

\* A plan goes stale, never wrong.
LEMMA GrownSlow ==
    ASSUME Credentials, Grows, SlowTyped, slow' = slow
    PROVE  SlowTyped'
<1>1. CASE slow = NoPlan
  BY <1>1 DEF SlowTyped
<1>2. CASE account.status # "NONE" /\ PlanTyped(slow)
  <2>1. account'.status # "NONE"
    BY <1>2 DEF Grows
  <2>2. \/ account'.tokenVersion = account.tokenVersion /\ account'.password = account.password
        \/ account'.tokenVersion = account.tokenVersion + 1
    BY <1>2 DEF Grows
  <2>3. account.tokenVersion \in Nat
    BY DEF Credentials, RecordsTyped, Accounts
  <2>4. Proves(slow.tokenVersion, slow.proved) => Proves(slow.tokenVersion, slow.proved)'
    BY <2>2, <2>3 DEF Proves
  <2>5. DOMAIN sessions \subseteq DOMAIN sessions' /\ DOMAIN resets \subseteq DOMAIN resets'
    BY DEF Grows, SameCredentials
  <2>6. PlanTyped(slow)'
    BY <1>2, <2>4, <2>5 DEF PlanTyped
  <2>7. QED
    BY <2>1, <2>6 DEF SlowTyped
<1>3. QED
  BY <1>1, <1>2 DEF SlowTyped

LEMMA SessionInvInit == Init => SessionInv
<1> SUFFICES ASSUME Init
             PROVE  SessionInv
  OBVIOUS
<1>1. account \in Accounts
  BY LivesAssumption DEF Init, Accounts
<1>2. RecordsTyped
  BY <1>1 DEF Init, RecordsTyped
<1>3. Credentials
  BY <1>2 DEF Init, Credentials, Blank
<1>4. QED
  BY <1>3 DEF Init, SessionInv, SlowTyped

LEMMA SessionInvNext == SessionInv /\ [Next]_vars => SessionInv'
<1> SUFFICES ASSUME SessionInv, [Next]_vars
             PROVE  SessionInv'
  OBVIOUS
<1>1. /\ Credentials /\ SlowTyped
      /\ kind \in {"staff", "customer"} /\ overtaken \in BOOLEAN
  BY DEF SessionInv
<1>2. ASSUME Grows, UNCHANGED <<kind, slow, overtaken>>
      PROVE  SessionInv'
  <2>1. Credentials'
    BY <1>1, <1>2, GrownCredentials
  <2>2. SlowTyped'
    BY <1>1, <1>2, GrownSlow
  <2>3. QED
    BY <1>1, <1>2, <2>1, <2>2 DEF SessionInv
<1>3. ASSUME UNCHANGED <<account, sessions, resets>>
      PROVE  Credentials'
  BY <1>1, <1>3 DEF Credentials, RecordsTyped, Blank, Proves
<1>4. CASE Alone
  <2>1. Grows
    BY <1>1, <1>4, AloneGrows
  <2>2. QED
    BY <1>2, <1>4, <2>1 DEF Alone
<1>5. CASE Pause
  <2>1. UNCHANGED <<kind, account, sessions, resets, overtaken>> /\ slow' \in Plans
    BY <1>5 DEF Pause, records
  <2>2. account.status # "NONE" /\ PlanTyped(slow')
    BY <1>1, <2>1, PlansTyped
  <2>3. SlowTyped'
    BY <2>1, <2>2 DEF SlowTyped, PlanTyped, Proves
  <2>4. QED
    BY <1>1, <1>3, <2>1, <2>3 DEF SessionInv
<1>6. CASE Resume
  <2>1. slow' = NoPlan /\ kind' = kind /\ overtaken' \in BOOLEAN
    BY <1>1, <1>6 DEF Resume
  <2>2. SlowTyped'
    BY <2>1 DEF SlowTyped
  <2>3. CASE Write(slow)
    <3>1. account.status # "NONE" /\ PlanTyped(slow)
      BY <1>1, <1>6 DEF SlowTyped, Resume
    <3>2. Credentials'
      BY <1>1, <2>3, <3>1, WriteGrows, GrownCredentials
    <3>3. QED
      BY <1>1, <2>1, <2>2, <3>2 DEF SessionInv
  <2>4. CASE UNCHANGED records
    BY <1>1, <1>3, <2>1, <2>2, <2>4 DEF SessionInv, records
  <2>5. QED
    BY <1>6, <2>3, <2>4 DEF Resume
<1>7. CASE Tick
  <2>1. Grows
    BY <1>1, <1>7, TickGrows
  <2>2. QED
    BY <1>2, <1>7, <2>1 DEF Tick
<1>8. CASE UNCHANGED vars
  <2>1. UNCHANGED <<kind, account, sessions, resets, slow, overtaken>>
    BY <1>8 DEF vars, records
  <2>2. SlowTyped'
    BY <1>1, <2>1 DEF SlowTyped, PlanTyped, Proves
  <2>3. QED
    BY <1>1, <1>3, <2>1, <2>2 DEF SessionInv
<1>9. QED
  BY <1>4, <1>5, <1>6, <1>7, <1>8 DEF Next

LEMMA SessionInvProved ==
    SessionInv => CurrentPasswordProved
<1> SUFFICES ASSUME SessionInv
             PROVE  CurrentPasswordProved
  OBVIOUS
<1>1. slow.op \in {"none", "login", "wrong", "refresh", "reset", "change"}
  BY DEF SessionInv, SlowTyped, NoPlan, PlanTyped
<1>2. TypeOK
  BY <1>1 DEF SessionInv, Credentials, RecordsTyped, TypeOK
<1>3. \A s \in DOMAIN sessions : Current(s) => sessions[s].proved = account.password
  BY DEF SessionInv, Credentials, Proves, Current
<1>4. QED
  BY <1>2, <1>3 DEF CurrentPasswordProved, Refreshable, Accepted, CustomerAccepted

\* Whatever calls are overtaken, nothing can be refreshed, and no customer's
\* request accepted, on a login made with an earlier password (refresh,
\* authenticateCustomer).
THEOREM SessionPasswordProved == Spec => []CurrentPasswordProved
<1>1. Init => SessionInv
  BY SessionInvInit
<1>2. SessionInv /\ [Next]_vars => SessionInv'
  BY SessionInvNext
<1>3. SessionInv => CurrentPasswordProved
  BY SessionInvProved
<1>4. QED
  BY <1>1, <1>2, <1>3, PTL DEF Spec

-----------------------------------------------------------------------------
(***************************************************************************)
(* Rotation, when no call has been overtaken.                              *)
(***************************************************************************)
\* A family is numbered after its first session.
Families == \A s \in DOMAIN sessions : sessions[s].family \in DOMAIN sessions

OneEach ==
    \A s, t \in DOMAIN sessions :
      /\ ~sessions[s].revoked
      /\ ~sessions[t].revoked
      /\ sessions[s].family = sessions[t].family
      => s = t

NoneOlder == \A s \in DOMAIN sessions : ~sessions[s].revoked => Current(s)

\* A token has set no password before it is used.
UsedOnce == \A r \in DOMAIN resets : resets[r].uses = (IF resets[r].used THEN 1 ELSE 0)

OnceInv ==
    /\ SessionInv
    /\ Families
    /\ ~overtaken => OneEach /\ NoneOlder /\ UsedOnce

SameVersion == account'.tokenVersion = account.tokenVersion

LEMMA NewLoginOnce ==
    ASSUME sessions \in Seq(Sessions), Families, SameVersion,
           NEW p, Proves(p.tokenVersion, p.proved), NewLogin(p)
    PROVE  /\ Families'
           /\ OneEach => OneEach'
           /\ NoneOlder /\ p.tokenVersion = account.tokenVersion => NoneOlder'
<1> DEFINE n == Len(sessions) + 1
           e == NewSession(n, p.tokenVersion, p.proved)
<1>1. n \in Nat /\ n \notin DOMAIN sessions
  OBVIOUS
<1>2. e \in Sessions /\ e.tokenVersion = p.tokenVersion /\ e.family = n
  BY <1>1, NewSessionTyped DEF Proves
<1>3. sessions' = Append(sessions, e)
  BY DEF NewLogin
<1> HIDE DEF e
<1>4. /\ DOMAIN sessions' = DOMAIN sessions \cup {n}
      /\ sessions'[n] = e
      /\ \A t \in DOMAIN sessions : sessions'[t] = sessions[t]
  BY <1>2, <1>3, AppendSession
<1> HIDE DEF n
<1>5. Families'
  BY <1>2, <1>4 DEF Families
<1>6. OneEach => OneEach'
  BY <1>1, <1>2, <1>4 DEF OneEach, Families
<1>7. NoneOlder /\ p.tokenVersion = account.tokenVersion => NoneOlder'
  BY <1>2, <1>4 DEF NoneOlder, Current, SameVersion
<1>8. QED
  BY <1>5, <1>6, <1>7

\* Of a session that was there to refresh.
LEMMA RotateOnce ==
    ASSUME sessions \in Seq(Sessions), Families, NEW s \in DOMAIN sessions, Rotate(s)
    PROVE  /\ Families'
           /\ OneEach /\ Refreshable(s) => OneEach'
           /\ NoneOlder /\ Refreshable(s) => NoneOlder'
<1> DEFINE n == Len(sessions) + 1
           x == [sessions EXCEPT ![s].revoked = TRUE]
           e == NewSession(sessions[s].family, sessions[s].tokenVersion, sessions[s].proved)
<1>1. n \notin DOMAIN sessions
  OBVIOUS
<1>2. sessions[s] \in Sessions
  OBVIOUS
<1>3. sessions[s].family \in Nat /\ sessions[s].tokenVersion \in Nat /\ sessions[s].proved \in Nat
  BY <1>2 DEF Sessions
<1>4. /\ e \in Sessions /\ e.family = sessions[s].family
      /\ e.tokenVersion = sessions[s].tokenVersion /\ e.proved = sessions[s].proved
  <2> DEFINE f == sessions[s].family
             v == sessions[s].tokenVersion
             p == sessions[s].proved
  <2>1. f \in Nat /\ v \in Nat /\ p \in Nat /\ e = NewSession(f, v, p)
    BY <1>3
  <2> HIDE DEF e, f, v, p
  <2>2. e \in Sessions /\ e.family = f /\ e.tokenVersion = v /\ e.proved = p
    BY <2>1, NewSessionTyped
  <2>3. QED
    BY <2>2 DEF f, v, p
<1>5. x \in Seq(Sessions) /\ Len(x) = Len(sessions) /\ DOMAIN x = DOMAIN sessions /\ x[s].revoked
  BY EndedSession
<1>6. \A t \in DOMAIN sessions : /\ x[t].family = sessions[t].family
                                 /\ x[t].tokenVersion = sessions[t].tokenVersion
                                 /\ t # s => x[t] = sessions[t]
  BY EndedSession
<1>7. sessions' = Append(x, e) /\ account' = account
  BY DEF Rotate
<1> HIDE DEF x, e
<1>8. /\ DOMAIN sessions' = DOMAIN sessions \cup {n}
      /\ sessions'[n] = e
      /\ \A t \in DOMAIN sessions : sessions'[t] = x[t]
  BY <1>4, <1>5, <1>7, AppendSession
<1> HIDE DEF n
<1>9. Families'
  BY SMTT(30), <1>4, <1>6, <1>8 DEF Families
<1>10. OneEach /\ Refreshable(s) => OneEach'
  BY <1>1, <1>4, <1>5, <1>6, <1>8 DEF OneEach, Refreshable, Unspent
<1>11. NoneOlder /\ Refreshable(s) => NoneOlder'
  BY SMTT(30), <1>4, <1>5, <1>6, <1>7, <1>8 DEF NoneOlder, Current, Refreshable
<1>12. QED
  BY <1>9, <1>10, <1>11

LEMMA EndOnce ==
    ASSUME sessions \in Seq(Sessions), Families, SameVersion,
           NEW s \in DOMAIN sessions, EndSession(s)
    PROVE  /\ Families'
           /\ OneEach => OneEach'
           /\ NoneOlder => NoneOlder'
<1> DEFINE x == [sessions EXCEPT ![s].revoked = TRUE]
<1>1. DOMAIN x = DOMAIN sessions /\ x[s].revoked
  BY EndedSession
<1>2. \A t \in DOMAIN sessions : /\ x[t].family = sessions[t].family
                                 /\ t # s => x[t] = sessions[t]
  BY EndedSession
<1>3. sessions' = x
  BY DEF EndSession
<1> HIDE DEF x
<1>4. Families'
  BY <1>1, <1>2, <1>3 DEF Families
<1>5. OneEach => OneEach'
  BY <1>1, <1>2, <1>3 DEF OneEach
<1>6. NoneOlder => NoneOlder'
  BY <1>1, <1>2, <1>3 DEF NoneOlder, Current, SameVersion
<1>7. QED
  BY <1>4, <1>5, <1>6

LEMMA RevokeAllOnce ==
    ASSUME sessions \in Seq(Sessions), Families, RevokeAll
    PROVE  Families' /\ OneEach' /\ NoneOlder'
<1>1. /\ DOMAIN sessions' = DOMAIN sessions
      /\ \A t \in DOMAIN sessions :
           sessions'[t].revoked /\ sessions'[t].family = sessions[t].family
  BY EndedSessions
<1>2. QED
  BY <1>1 DEF Families, OneEach, NoneOlder

\* The same sessions, with less time left or as much.
SameSessions ==
    /\ DOMAIN sessions' = DOMAIN sessions
    /\ \A s \in DOMAIN sessions :
         /\ sessions'[s].family = sessions[s].family
         /\ sessions'[s].tokenVersion = sessions[s].tokenVersion
         /\ sessions'[s].revoked = sessions[s].revoked

LEMMA SameSessionsOnce ==
    ASSUME Families, SameSessions, SameVersion
    PROVE  /\ Families'
           /\ OneEach => OneEach'
           /\ NoneOlder => NoneOlder'
BY DEF SameSessions, SameVersion, Families, OneEach, NoneOlder, Current

LEMMA RedeemOnce ==
    ASSUME resets \in Seq(Resets), UsedOnce, NEW r \in DOMAIN resets, Usable(r), Redeem(r)
    PROVE  UsedOnce'
<1>1. /\ DOMAIN resets' = DOMAIN resets
      /\ resets'[r].used /\ resets'[r].uses = resets[r].uses + 1
      /\ \A t \in DOMAIN resets \ {r} : resets'[t] = resets[t]
  BY RedeemTyped
<1>2. resets[r].uses = 0
  BY DEF UsedOnce, Usable
<1>3. QED
  BY <1>1, <1>2 DEF UsedOnce

LEMMA IssueResetOnce ==
    ASSUME resets \in Seq(Resets), UsedOnce, IssueReset
    PROVE  UsedOnce'
<1> DEFINE e == [life |-> ResetLife, used |-> FALSE, uses |-> 0]
<1>1. ~e.used /\ e.uses = 0
  OBVIOUS
<1>2. resets' = Append(resets, e)
  BY DEF IssueReset
<1> HIDE DEF e
<1>3. \A r \in DOMAIN resets' : resets'[r] = e \/ (r \in DOMAIN resets /\ resets'[r] = resets[r])
  BY <1>2
<1>4. QED
  BY <1>1, <1>3 DEF UsedOnce

\* What is still true of a plan that was not overtaken.
LEMMA PlanFresh ==
    ASSUME NEW p \in Plans
    PROVE  /\ p.op = "login" => p.tokenVersion = account.tokenVersion
           /\ p.op = "refresh" => Refreshable(p.session)
           /\ p.op = "reset" => Usable(p.token)
<1>1. CASE p \in StaffPlans \cup CustomerPlans
  BY <1>1 DEF StaffPlans, CustomerPlans, RightPlan, WrongPlan
<1>2. CASE p \in RefreshPlans
  BY <1>2 DEF RefreshPlans
<1>3. CASE p \in ResetPlans
  BY <1>3 DEF ResetPlans
<1>4. CASE p \in ChangePlans
  BY <1>4 DEF ChangePlans
<1>5. QED
  BY <1>1, <1>2, <1>3, <1>4 DEF Plans

\* A call that was overtaken keeps the families; one that was not, the rest.
LEMMA WriteOnce ==
    ASSUME Credentials, Families, account.status # "NONE", NEW p, PlanTyped(p), Write(p)
    PROVE  /\ Families'
           /\ p \in Plans /\ OneEach /\ NoneOlder /\ UsedOnce
                => OneEach' /\ NoneOlder' /\ UsedOnce'
<1>1. account \in Accounts /\ sessions \in Seq(Sessions) /\ resets \in Seq(Resets)
  BY DEF Credentials, RecordsTyped
<1>2. UNCHANGED resets /\ UsedOnce => UsedOnce'
  BY DEF UsedOnce
<1>3. CASE StaffLogin(p) \/ CustomerLogin(p)
  <2>1. p.op = "login" /\ NewLogin(p) /\ UNCHANGED resets
    BY <1>3 DEF StaffLogin, CustomerLogin
  <2>2. Proves(p.tokenVersion, p.proved)
    BY <2>1 DEF PlanTyped
  <2>3. SameVersion
    BY <1>1, <1>3 DEF StaffLogin, CustomerLogin, SameVersion, Accounts
  <2>4. /\ Families'
        /\ OneEach => OneEach'
        /\ NoneOlder /\ p.tokenVersion = account.tokenVersion => NoneOlder'
    BY <1>1, <2>1, <2>2, <2>3, NewLoginOnce
  <2>5. QED
    BY <1>2, <2>1, <2>4, PlanFresh
<1>4. CASE WrongPassword(p)
  <2>1. UNCHANGED <<sessions, resets>>
    BY <1>4 DEF WrongPassword
  <2>2. SameVersion
    BY <1>1, <1>4 DEF WrongPassword, SameVersion, Accounts
  <2>3. SameSessions
    BY <2>1 DEF SameSessions
  <2>4. QED
    BY <1>2, <2>1, <2>2, <2>3, SameSessionsOnce
<1>5. CASE StaffRefresh(p) \/ CustomerRefresh(p)
  <2>1. p.op = "refresh" /\ Rotate(p.session)
    BY <1>5 DEF StaffRefresh, CustomerRefresh
  <2>2. p.session \in DOMAIN sessions /\ UNCHANGED resets
    BY <2>1 DEF PlanTyped, Rotate
  <2>3. /\ Families'
        /\ OneEach /\ Refreshable(p.session) => OneEach'
        /\ NoneOlder /\ Refreshable(p.session) => NoneOlder'
    BY <1>1, <2>1, <2>2, RotateOnce
  <2>4. QED
    BY <1>2, <2>1, <2>2, <2>3, PlanFresh
<1>6. CASE StaffReset(p) \/ CustomerReset(p)
  <2>1. p.op = "reset" /\ RevokeAll /\ Redeem(p.token)
    BY <1>6 DEF StaffReset, CustomerReset, SetPassword
  <2>2. p.token \in DOMAIN resets
    BY <2>1 DEF PlanTyped
  <2>3. Families' /\ OneEach' /\ NoneOlder'
    BY <1>1, <2>1, RevokeAllOnce
  <2>4. p \in Plans /\ UsedOnce => UsedOnce'
    BY <1>1, <2>1, <2>2, PlanFresh, RedeemOnce
  <2>5. QED
    BY <2>3, <2>4
<1>7. CASE StaffChange(p) \/ CustomerChange(p)
  BY <1>1, <1>2, <1>7, RevokeAllOnce DEF StaffChange, CustomerChange, SetPassword
<1>8. QED
  BY <1>3, <1>4, <1>5, <1>6, <1>7 DEF Write

LEMMA CreatedOnce ==
    ASSUME Credentials, CreateUser \/ Register
    PROVE  Families' /\ OneEach' /\ NoneOlder'
<1> DEFINE e == NewSession(1, account.tokenVersion, 1)
<1>1. account \in Accounts /\ sessions = <<>>
  BY DEF Credentials, RecordsTyped, Blank, CreateUser, Register
<1>2. account.tokenVersion \in Nat /\ SameVersion
  BY <1>1 DEF CreateUser, Register, SameVersion, Accounts
<1>3. e.family = 1 /\ e.tokenVersion = account.tokenVersion
  BY <1>2, NewSessionTyped
<1>4. sessions' = <<>> \/ sessions' = <<e>>
  BY <1>1 DEF CreateUser, Register
<1> HIDE DEF e
<1>5. /\ \A s, t \in DOMAIN sessions' : s = t
      /\ \A s \in DOMAIN sessions' : sessions'[s] = e /\ 1 \in DOMAIN sessions'
  BY <1>4
<1>6. QED
  BY <1>2, <1>3, <1>5 DEF Families, OneEach, NoneOlder, Current, SameVersion

LEMMA AloneOnce ==
    ASSUME Credentials, Families, Alone
    PROVE  /\ Families'
           /\ OneEach /\ NoneOlder /\ UsedOnce => OneEach' /\ NoneOlder' /\ UsedOnce'
<1>1. account \in Accounts /\ sessions \in Seq(Sessions) /\ resets \in Seq(Resets)
  BY DEF Credentials, RecordsTyped
<1>2. UNCHANGED resets /\ UsedOnce => UsedOnce'
  BY DEF UsedOnce
<1>3. CASE \E p \in Plans : Write(p)
  <2>1. PICK p \in Plans : Write(p)
    BY <1>3
  <2>2. account.status # "NONE" /\ PlanTyped(p)
    BY PlansTyped
  <2>3. QED
    BY <2>1, <2>2, WriteOnce
<1>4. CASE CreateUser \/ Register
  BY <1>2, <1>4, CreatedOnce DEF CreateUser, Register
<1>5. CASE SetStatus
  <2>1. SameSessions /\ UNCHANGED resets
    BY <1>5 DEF SetStatus, SameSessions
  <2>2. SameVersion
    BY <1>1, <1>5 DEF SetStatus, SameVersion, Accounts
  <2>3. QED
    BY <1>2, <2>1, <2>2, SameSessionsOnce
<1>6. CASE AdminReset
  BY <1>1, <1>2, <1>6, RevokeAllOnce DEF AdminReset, SetPassword
<1>7. CASE Logout \/ RevokeSession
  <2>1. PICK s \in DOMAIN sessions : EndSession(s)
    BY <1>7 DEF Logout, RevokeSession
  <2>2. SameVersion /\ UNCHANGED resets
    BY <1>7 DEF Logout, RevokeSession, SameVersion
  <2>3. QED
    BY <1>1, <1>2, <2>1, <2>2, EndOnce
<1>8. CASE LogoutAll
  BY <1>1, <1>2, <1>8, RevokeAllOnce DEF LogoutAll
<1>9. CASE StaffForgot \/ CustomerForgot
  <2>1. IssueReset /\ SameSessions /\ SameVersion
    BY <1>9 DEF StaffForgot, CustomerForgot, IssueReset, SameSessions, SameVersion
  <2>2. QED
    BY <1>1, <2>1, SameSessionsOnce, IssueResetOnce
<1>10. QED
  BY <1>3, <1>4, <1>5, <1>6, <1>7, <1>8, <1>9 DEF Alone

LEMMA TickOnce ==
    ASSUME Credentials, Families, Tick
    PROVE  /\ Families'
           /\ OneEach /\ NoneOlder /\ UsedOnce => OneEach' /\ NoneOlder' /\ UsedOnce'
<1>1. RecordsTyped /\ account \in Accounts
  BY DEF Credentials, RecordsTyped
<1>2. SameSessions
  BY <1>1, TickTyped DEF SameSessions
<1>3. SameVersion
  BY <1>1 DEF Tick, SameVersion, Accounts
<1>4. UsedOnce => UsedOnce'
  <2>1. /\ DOMAIN resets' = DOMAIN resets
        /\ \A r \in DOMAIN resets : /\ resets'[r].used = resets[r].used
                                    /\ resets'[r].uses = resets[r].uses
    BY <1>1, TickTyped
  <2>2. QED
    BY <2>1 DEF UsedOnce
<1>5. QED
  BY <1>2, <1>3, <1>4, SameSessionsOnce

LEMMA OnceInvNext == OnceInv /\ [Next]_vars => OnceInv'
<1> SUFFICES ASSUME OnceInv, [Next]_vars
             PROVE  OnceInv'
  OBVIOUS
<1>1. /\ SessionInv /\ Families
      /\ ~overtaken => OneEach /\ NoneOlder /\ UsedOnce
  BY DEF OnceInv
<1>2. SessionInv'
  BY <1>1, SessionInvNext
<1>3. Credentials /\ SlowTyped
  BY <1>1 DEF SessionInv
<1>4. ASSUME UNCHANGED <<account, sessions, resets>>
      PROVE  /\ Families'
             /\ OneEach /\ NoneOlder /\ UsedOnce => OneEach' /\ NoneOlder' /\ UsedOnce'
  BY <1>1, <1>4 DEF Families, OneEach, NoneOlder, UsedOnce, Current
<1>5. CASE Alone
  BY <1>1, <1>2, <1>3, <1>5, AloneOnce DEF OnceInv, Alone
<1>6. CASE Pause
  BY <1>1, <1>2, <1>4, <1>6 DEF OnceInv, Pause, records
<1>7. CASE Resume
  <2>1. CASE Write(slow) /\ overtaken' = (overtaken \/ slow \notin Plans)
    <3>1. account.status # "NONE" /\ PlanTyped(slow)
      BY <1>3, <1>7 DEF SlowTyped, Resume
    <3>2. /\ Families'
          /\ slow \in Plans /\ OneEach /\ NoneOlder /\ UsedOnce
               => OneEach' /\ NoneOlder' /\ UsedOnce'
      BY <1>1, <1>3, <2>1, <3>1, WriteOnce
    <3>3. ~overtaken' => ~overtaken /\ slow \in Plans
      BY <2>1
    <3>4. QED
      BY <1>1, <1>2, <3>2, <3>3 DEF OnceInv
  <2>2. CASE UNCHANGED <<records, overtaken>>
    BY <1>1, <1>2, <1>4, <2>2 DEF OnceInv, records
  <2>3. QED
    BY <1>7, <2>1, <2>2 DEF Resume
<1>8. CASE Tick
  BY <1>1, <1>2, <1>3, <1>8, TickOnce DEF OnceInv, Tick
<1>9. CASE UNCHANGED vars
  BY <1>1, <1>2, <1>4, <1>9 DEF OnceInv, vars, records
<1>10. QED
  BY <1>5, <1>6, <1>7, <1>8, <1>9 DEF Next

\* As long as no call is overtaken, a login has one session that is not
\* revoked, none survives a change of password, and a reset token sets one
\* password (refresh, resetPassword).
THEOREM SessionRotatedOnce == Spec => []RotatedOnce
<1>1. Init => OnceInv
  <2> SUFFICES ASSUME Init
               PROVE  OnceInv
    OBVIOUS
  <2>1. sessions = <<>> /\ resets = <<>>
    BY DEF Init
  <2>2. QED
    BY <2>1, SessionInvInit DEF OnceInv, Families, OneEach, NoneOlder, UsedOnce
<1>2. OnceInv /\ [Next]_vars => OnceInv'
  BY OnceInvNext
<1>3. OnceInv => RotatedOnce
  BY DEF OnceInv, OneEach, NoneOlder, UsedOnce, RotatedOnce
<1>4. QED
  BY <1>1, <1>2, <1>3, PTL DEF Spec
=============================================================================
