------------------------------- MODULE Session -------------------------------
(***************************************************************************)
(* The sessions of one account, of a member of staff (auth.service.ts,     *)
(* user.service.ts) or of a shop customer (customer-auth.service.ts,       *)
(* storefront-account.controller.ts).                                      *)
(*                                                                         *)
(* A login, a refresh, a reset and a change of password read the account   *)
(* or the token first and write later: a plan holds what was read.  A call *)
(* that runs alone plans and writes in one step; one call at a time may be *)
(* slow, and is then overtaken by others between its two halves.           *)
(*                                                                         *)
(* Time is what is left of each token and of the lock: Tick takes one off  *)
(* all of them.  Presenting a token that was revoked changes nothing: the  *)
(* revocation refresh starts with is rolled back by the error it throws.   *)
(***************************************************************************)
EXTENDS Integers, Sequences, SequencesExt, FiniteSets

CONSTANTS
    MaxFailed,     \* MAX_FAILED_ATTEMPTS
    LockLife,      \* LOCK_MINUTES, in ticks
    AccessLife,    \* how long an access token is good for
    RefreshLife,   \* how long a session can be refreshed
    ResetLife,     \* how long a reset token is good for
    MaxSessions,   \* bound: sessions in a run
    MaxPasswords,  \* bound: passwords the account has in a run
    MaxResets      \* bound: reset tokens in a run

ASSUME LivesAssumption == /\ {LockLife, AccessLife, RefreshLife, ResetLife} \subseteq Nat \ {0}
                          /\ MaxFailed \in Nat \ {0}
ASSUME BoundsAssumption == {MaxSessions, MaxPasswords, MaxResets} \subseteq Nat

VARIABLES
    kind,       \* whose account it is
    account,    \* the User or CustomerAccount record
    sessions,   \* the RefreshToken or CustomerSession records
    resets,     \* the PasswordResetToken records
    slow,       \* the plan of the overtaken call, if any
    overtaken   \* history: a call that had been overtaken has written

records == <<account, sessions, resets>>
vars == <<kind, records, slow, overtaken>>

\* password counts the passwords set so far; failed stops at MaxFailed, where
\* the code counts on to the same effect.
Accounts == [status: {"NONE", "ACTIVE", "SUSPENDED"}, password: Nat, tokenVersion: Nat,
             failed: 0..MaxFailed, locked: 0..LockLife]

\* proved is history: the password with which the family's login was made.
Sessions == [family: Nat, tokenVersion: Nat, proved: Nat, revoked: BOOLEAN,
             access: 0..AccessLife, refresh: 0..RefreshLife]

\* uses is history: how many passwords were set with the token.
Resets == [life: 0..ResetLife, used: BOOLEAN, uses: Nat]

NoPlan == [op |-> "none"]

TypeOK ==
    /\ kind \in {"staff", "customer"}
    /\ account \in Accounts
    /\ sessions \in Seq(Sessions)
    /\ resets \in Seq(Resets)
    /\ slow.op \in {"none", "login", "wrong", "refresh", "reset", "change"}
    /\ overtaken \in BOOLEAN

Init ==
    /\ kind \in {"staff", "customer"}
    /\ account = [status |-> "NONE", password |-> 0, tokenVersion |-> 0,
                  failed |-> 0, locked |-> 0]
    /\ sessions = <<>>
    /\ resets = <<>>
    /\ slow = NoPlan
    /\ overtaken = FALSE

-----------------------------------------------------------------------------
(***************************************************************************)
(* What a token is good for.                                               *)
(***************************************************************************)
Locked == account.locked > 0

\* The version that was signed into the tokens of a session.
Current(s) == sessions[s].tokenVersion = account.tokenVersion

\* authenticate looks at the user's status alone, authenticateCustomer at the
\* version too; neither looks at the session.
StaffAccepted(s) == sessions[s].access > 0 /\ account.status = "ACTIVE"
CustomerAccepted(s) == sessions[s].access > 0 /\ account.status = "ACTIVE" /\ Current(s)

Accepted(s) == IF kind = "staff" THEN StaffAccepted(s) ELSE CustomerAccepted(s)

FaultyUnspent(s) == sessions[s].refresh > 0
\* The session that a refresh finds; otherwise it answers TOKEN_REUSED.
Unspent(s) == ~sessions[s].revoked /\ sessions[s].refresh > 0

Refreshable(s) == Unspent(s) /\ Current(s) /\ account.status = "ACTIVE"

\* A token that resetPassword finds.
Usable(r) == ~resets[r].used /\ resets[r].life > 0

-----------------------------------------------------------------------------
(***************************************************************************)
(* Plans: what a call reads, and the checks it makes on it.                *)
(***************************************************************************)
FaultyMayTry == account.status # "NONE"
\* authService.login looks at the lock before the password; customers have none.
MayTry == account.status # "NONE" /\ ~Locked

RightPlan == [op |-> "login", tokenVersion |-> account.tokenVersion, proved |-> account.password]
WrongPlan == [op |-> "wrong", failed |-> account.failed]

StaffPlans ==
    IF ~MayTry THEN {}
    ELSE {WrongPlan} \cup (IF account.status = "ACTIVE" THEN {RightPlan} ELSE {})

CustomerPlans == IF account.status = "ACTIVE" THEN {RightPlan} ELSE {}

RefreshPlans ==
    {[op |-> "refresh", session |-> s] : s \in {s \in DOMAIN sessions : Refreshable(s)}}

ResetPlans == {[op |-> "reset", token |-> r] : r \in {r \in DOMAIN resets : Usable(r)}}

\* Whoever is logged in, and proves the password.
ChangePlans == IF \E s \in DOMAIN sessions : Accepted(s) THEN {[op |-> "change"]} ELSE {}

Plans ==
    (IF kind = "staff" THEN StaffPlans ELSE CustomerPlans)
      \cup RefreshPlans \cup ResetPlans \cup ChangePlans

-----------------------------------------------------------------------------
(***************************************************************************)
(* Writes.                                                                 *)
(***************************************************************************)
\* issueSessionTokens: the tokens carry the version that was read.
NewSession(family, version, proved) ==
    [family |-> family, tokenVersion |-> version, proved |-> proved,
     revoked |-> FALSE, access |-> AccessLife, refresh |-> RefreshLife]

NewLogin(p) ==
    /\ Len(sessions) < MaxSessions
    /\ sessions' = Append(sessions, NewSession(Len(sessions) + 1, p.tokenVersion, p.proved))

StaffLogin(p) ==
    /\ kind = "staff" /\ p.op = "login"
    /\ NewLogin(p)
    /\ account' = [account EXCEPT !.failed = 0, !.locked = 0]
    /\ UNCHANGED resets

\* The count is written from the read; below the limit it also lifts a lock.
WrongPassword(p) ==
    /\ p.op = "wrong"
    /\ LET failed == IF p.failed < MaxFailed THEN p.failed + 1 ELSE MaxFailed
       IN  account' = [account EXCEPT !.failed = failed,
                         !.locked = IF failed >= MaxFailed THEN LockLife ELSE 0]
    /\ UNCHANGED <<sessions, resets>>

CustomerLogin(p) ==
    /\ kind = "customer" /\ p.op = "login"
    /\ NewLogin(p)
    /\ UNCHANGED <<account, resets>>

\* The old session is not looked at again before it is revoked.
Rotate(s) ==
    /\ Len(sessions) < MaxSessions
    /\ LET old == sessions[s]
       IN  sessions' = Append([sessions EXCEPT ![s].revoked = TRUE],
                              NewSession(old.family, old.tokenVersion, old.proved))
    /\ UNCHANGED <<account, resets>>

StaffRefresh(p) == kind = "staff" /\ p.op = "refresh" /\ Rotate(p.session)
CustomerRefresh(p) == kind = "customer" /\ p.op = "refresh" /\ Rotate(p.session)

RevokeAll == sessions' = [s \in DOMAIN sessions |-> [sessions[s] EXCEPT !.revoked = TRUE]]

FaultyNextVersion == account.tokenVersion
NextVersion == account.tokenVersion + 1

\* A new password, a new version and the end of every session, in one
\* transaction.
SetPassword ==
    /\ account.password < MaxPasswords
    /\ account' = [account EXCEPT !.password = @ + 1, !.tokenVersion = NextVersion]
    /\ RevokeAll

Redeem(r) == resets' = [resets EXCEPT ![r].used = TRUE, ![r].uses = @ + 1]

StaffReset(p) == kind = "staff" /\ p.op = "reset" /\ SetPassword /\ Redeem(p.token)
CustomerReset(p) == kind = "customer" /\ p.op = "reset" /\ SetPassword /\ Redeem(p.token)

StaffChange(p) == kind = "staff" /\ p.op = "change" /\ SetPassword /\ UNCHANGED resets
CustomerChange(p) == kind = "customer" /\ p.op = "change" /\ SetPassword /\ UNCHANGED resets

Write(p) ==
    \/ StaffLogin(p) \/ WrongPassword(p) \/ CustomerLogin(p)
    \/ StaffRefresh(p) \/ CustomerRefresh(p)
    \/ StaffReset(p) \/ CustomerReset(p)
    \/ StaffChange(p) \/ CustomerChange(p)

-----------------------------------------------------------------------------
(***************************************************************************)
(* Calls that are one write.                                               *)
(***************************************************************************)
CreateUser ==
    /\ kind = "staff" /\ account.status = "NONE"
    /\ account' = [account EXCEPT !.status = "ACTIVE", !.password = 1]
    /\ UNCHANGED <<sessions, resets>>

\* A customer is logged in at once.
Register ==
    /\ kind = "customer" /\ account.status = "NONE"
    /\ account' = [account EXCEPT !.status = "ACTIVE", !.password = 1]
    /\ sessions' = <<NewSession(1, account.tokenVersion, 1)>>
    /\ UNCHANGED resets

\* userService.activate, suspend and update.  Nothing suspends a customer.
SetStatus ==
    /\ kind = "staff" /\ account.status # "NONE"
    /\ \E status \in {"ACTIVE", "SUSPENDED"} : account' = [account EXCEPT !.status = status]
    /\ UNCHANGED <<sessions, resets>>

\* userService.resetPassword, by an administrator.
AdminReset ==
    /\ kind = "staff" /\ account.status # "NONE"
    /\ SetPassword
    /\ UNCHANGED resets

LoggedIn == \E s \in DOMAIN sessions : Accepted(s)

EndSession(s) == sessions' = [sessions EXCEPT ![s].revoked = TRUE]

\* It ends the session the access token was signed for, not a successor.
Logout ==
    /\ \E s \in DOMAIN sessions : Accepted(s) /\ EndSession(s)
    /\ UNCHANGED <<account, resets>>

\* Any session of the account.
RevokeSession ==
    /\ LoggedIn
    /\ \E s \in DOMAIN sessions : EndSession(s)
    /\ UNCHANGED <<account, resets>>

LogoutAll ==
    /\ LoggedIn
    /\ RevokeAll
    /\ UNCHANGED <<account, resets>>

IssueReset ==
    /\ account.status # "NONE"
    /\ Len(resets) < MaxResets
    /\ resets' = Append(resets, [life |-> ResetLife, used |-> FALSE, uses |-> 0])
    /\ UNCHANGED <<account, sessions>>

StaffForgot == kind = "staff" /\ IssueReset
CustomerForgot == kind = "customer" /\ IssueReset

Less(n) == IF n > 0 THEN n - 1 ELSE 0

\* Some time passes.
Tick ==
    /\ account' = [account EXCEPT !.locked = Less(@)]
    /\ sessions' = [s \in DOMAIN sessions |->
                      [sessions[s] EXCEPT !.access = Less(@), !.refresh = Less(@)]]
    /\ resets' = [r \in DOMAIN resets |-> [resets[r] EXCEPT !.life = Less(@)]]
    /\ UNCHANGED <<kind, slow, overtaken>>

-----------------------------------------------------------------------------
Alone ==
    /\ \/ \E p \in Plans : Write(p)
       \/ CreateUser \/ Register
       \/ SetStatus \/ AdminReset
       \/ Logout \/ RevokeSession \/ LogoutAll
       \/ StaffForgot \/ CustomerForgot
    /\ UNCHANGED <<kind, slow, overtaken>>

Pause ==
    /\ slow = NoPlan
    /\ slow' \in Plans
    /\ UNCHANGED <<kind, records, overtaken>>

\* The slow call writes what it planned, or fails.
Resume ==
    /\ slow # NoPlan
    /\ \/ Write(slow) /\ overtaken' = (overtaken \/ slow \notin Plans)
       \/ UNCHANGED <<records, overtaken>>
    /\ slow' = NoPlan
    /\ UNCHANGED kind

Next == Alone \/ Pause \/ Resume \/ Tick

\* Time does not stop; nobody is obliged to call anything.
Spec == Init /\ [][Next]_vars /\ WF_vars(Tick)

-----------------------------------------------------------------------------
\* However logins, refreshes and changes of password overlap: what can be
\* refreshed (refresh), and what a customer's request is accepted on
\* (authenticateCustomer), comes from a login with the current password.  The
\* records are of the right type.
CurrentPasswordProved ==
    /\ TypeOK
    /\ \A s \in DOMAIN sessions :
         Refreshable(s) \/ (kind = "customer" /\ Accepted(s))
           => sessions[s].proved = account.password

\* Unless a call was overtaken, rotation (refresh) leaves a login with one
\* session that is not revoked, a change of password leaves none of an older
\* version, and a reset token (resetPassword) sets one password.
RotatedOnce ==
    ~overtaken =>
      /\ \A s, t \in DOMAIN sessions :
           /\ ~sessions[s].revoked
           /\ ~sessions[t].revoked
           /\ sessions[s].family = sessions[t].family
           => s = t
      /\ \A s \in DOMAIN sessions : ~sessions[s].revoked => Current(s)
      /\ \A r \in DOMAIN resets : resets[r].uses <= 1

\* A lock (login) ends, however often the wrong password is tried meanwhile.
LockEnds == Locked ~> ~Locked
=============================================================================
