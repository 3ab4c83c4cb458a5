------------------------------ MODULE Accounts ------------------------------
(***************************************************************************)
(* The two stores of accounts and their lockouts: server/auth.py keeps     *)
(* accounts in memory, seeded at each start, and /auth/login/v2 of         *)
(* server/main.py reads the table app_users.  Both handlers run on the     *)
(* event loop without an await, so a request is one step.                  *)
(*                                                                         *)
(* A password is right or wrong; an email names an account.  Requests that *)
(* name no account change nothing and are left out.                        *)
(***************************************************************************)
EXTENDS AuditLog

CONSTANTS
    Email,              \* emails of the memory store
    Seed,               \* the seeded accounts: a function from emails to roles
    Role,               \* roles that registrations ask for
    DbUser,             \* ids of the table app_users
    MaxFailedAttempts,  \* MAX_FAILED_ATTEMPTS (5 in the code, in both stores)
    LockoutDuration,    \* LOCKOUT_DURATION_S in ticks (30 minutes)
    TypedTimestamps,    \* the driver returns a TIMESTAMP as a datetime
                        \* (PostgreSQL) or as text (SQLite)
    MaxTime             \* bound: ticks

ASSUME SeedAssumption == DOMAIN Seed \subseteq Email
ASSUME FailedAssumption == MaxFailedAttempts \in Nat \ {0}
ASSUME LockoutAssumption == LockoutDuration \in Nat \ {0}
ASSUME TypedAssumption == TypedTimestamps \in BOOLEAN
ASSUME TimeAssumption == MaxTime \in Nat

VARIABLES
    accounts,       \* _users by email; NoAccount where there is none
    rows,           \* app_users
    now             \* the clock, from 1: a lock set at 0 would count as none

accountVars == <<accounts, rows, now>>

ValidRoles == {"SUPER_ADMIN", "NETWORK_ADMIN", "IT_MANAGER", "MSP_TECH",
               "IT_STAFF", "END_USER", "BUSINESS_OWNER"}
PrivilegedRoles == {"SUPER_ADMIN", "NETWORK_ADMIN"}

ASSUME RoleAssumption ==
    /\ Role \subseteq STRING
    /\ \A e \in DOMAIN Seed : Seed[e] \in ValidRoles \ {"SUPER_ADMIN"}

Unset == 0
NoAccount == [role |-> "none"]
Account == [role : ValidRoles, failed : Nat, lockedAt : Nat]
Row == [failed : Nat, lockedUntil : Nat, active : BOOLEAN]

NewAccount(role) == [role |-> role, failed |-> 0, lockedAt |-> Unset]

SeededUsers ==
    [e \in Email |-> IF e \in DOMAIN Seed THEN NewAccount(Seed[e]) ELSE NoAccount]

Users == {e \in Email : accounts[e] # NoAccount}

AccountsTypeOK ==
    /\ accounts \in [Email -> Account \cup {NoAccount}]
    /\ rows \in [DbUser -> Row]
    /\ now \in Nat

-----------------------------------------------------------------------------
\* What the audit log is told, and whose request it was.
Started == <<"SYSTEM", "Server started">>
LoggedIn(e) == <<e, "Login successful">>
Registered(e, caller) == <<caller, "Registered", e>>

AccountsInit ==
    /\ accounts = SeededUsers
    /\ rows = [u \in DbUser |-> [failed |-> 0, lockedUntil |-> Unset, active |-> TRUE]]
    /\ now = 1

Tick ==
    /\ now < MaxTime
    /\ now' = now + 1
    /\ UNCHANGED <<accounts, rows, auditVars>>

Expired(account) == now - account.lockedAt >= LockoutDuration

IsLocked(account) == account.lockedAt # Unset /\ ~Expired(account)

\* Faulty variant: the counter outlives the lock.
UnlockedKeepingCount(account) ==
    IF account.lockedAt # Unset THEN [account EXCEPT !.lockedAt = Unset] ELSE account

\* The account an attempt is judged on: a lock that has expired is lifted with
\* its counter.
Unlocked(account) ==
    IF account.lockedAt # Unset THEN NewAccount(account.role) ELSE account

WrongPassword(account) ==
    [account EXCEPT !.failed = @ + 1,
                    !.lockedAt = IF account.failed + 1 >= MaxFailedAttempts
                                 THEN now ELSE Unset]

\* login of auth.py and its endpoint; a locked account answers 423 and stays as
\* it is.
Login(e, right) ==
    /\ e \in Users
    /\ ~IsLocked(accounts[e])
    /\ UNCHANGED <<rows, now>>
    /\ LET account == Unlocked(accounts[e])
       IN  IF right
           THEN /\ accounts' = [accounts EXCEPT ![e] = [account EXCEPT !.failed = 0]]
                /\ LogEvent(LoggedIn(e))
           ELSE /\ accounts' = [accounts EXCEPT ![e] = WrongPassword(account)]
                /\ UNCHANGED auditVars

\* Text compared with a datetime raises: a row that has a lock is answered
\* with an error for ever.
RowRefuses(row) ==
    /\ row.lockedUntil # Unset
    /\ TypedTimestamps => row.lockedUntil > now

\* Faulty variant: a lock that has expired is lifted, and its counter kept, by
\* any attempt.
LoginV2Lifting(u, right) ==
    /\ ~RowRefuses(rows[u])
    /\ UNCHANGED <<accounts, now, auditVars>>
    /\ rows' = [rows EXCEPT
          ![u].failed = IF right THEN 0 ELSE @ + 1,
          ![u].lockedUntil = IF ~right /\ rows[u].failed + 1 = MaxFailedAttempts
                             THEN now + LockoutDuration ELSE Unset]

\* login_v2: neither an expired lock resets the counter, nor is is_active
\* looked at, nor the audit log told.
LoginV2(u, right) ==
    /\ ~RowRefuses(rows[u])
    /\ UNCHANGED <<accounts, now, auditVars>>
    /\ rows' = [rows EXCEPT
          ![u].failed = IF right THEN 0 ELSE @ + 1,
          ![u].lockedUntil = IF ~right /\ rows[u].failed + 1 >= MaxFailedAttempts
                             THEN now + LockoutDuration ELSE Unset]

\* Faulty variant: any privileged caller grants any role.
RegisterByAnyAdmin(caller, e, role) ==
    /\ caller \in Users
    /\ accounts[caller].role \in PrivilegedRoles
    /\ role \in ValidRoles
    /\ e \notin Users
    /\ accounts' = [accounts EXCEPT ![e] = NewAccount(role)]
    /\ LogEvent(Registered(e, caller))
    /\ UNCHANGED <<rows, now>>

Register(caller, e, role) ==
    /\ caller \in Users
    /\ accounts[caller].role \in PrivilegedRoles
    /\ role \in PrivilegedRoles => accounts[caller].role = "SUPER_ADMIN"
    /\ role \in ValidRoles
    /\ e \notin Users
    /\ accounts' = [accounts EXCEPT ![e] = NewAccount(role)]
    /\ LogEvent(Registered(e, caller))
    /\ UNCHANGED <<rows, now>>

\* An administrator's unlock; it finds accounts of the memory store only.
UnlockUser(e) ==
    /\ e \in Users
    /\ accounts' = [accounts EXCEPT ![e] = NewAccount(@.role)]
    /\ UNCHANGED <<rows, now, auditVars>>

\* Suspending and reactivating a customer.
SetActive(u, active) ==
    /\ rows' = [rows EXCEPT ![u].active = active]
    /\ UNCHANGED <<accounts, now, auditVars>>

\* The memory store is seeded again, the table is kept.
AccountsRestart ==
    /\ accounts' = SeededUsers
    /\ AuditRestart(Started)
    /\ UNCHANGED <<rows, now>>

AccountsNext ==
    \/ Tick
    \/ \E e \in Email, right \in BOOLEAN : Login(e, right)
    \/ \E u \in DbUser, right \in BOOLEAN : LoginV2(u, right)
    \/ \E caller, e \in Email, role \in Role : Register(caller, e, role)
    \/ \E e \in Email : UnlockUser(e)
    \/ \E u \in DbUser, active \in BOOLEAN : SetActive(u, active)
    \/ AccountsRestart

AccountsSpec ==
    AccountsInit /\ AuditInit /\ [][AccountsNext]_<<accountVars, auditVars>>

-----------------------------------------------------------------------------
\* Properties.

\* Each lock of the memory store took MAX_FAILED_ATTEMPTS wrong passwords since
\* the last success, unlock or expiry, and an unlocked account has fewer: no
\* order of expiry, success and unlock leaves a lock without its count or a
\* full count without a lock.
LockMeansFailures ==
    \A e \in Users :
        /\ accounts[e].failed <= MaxFailedAttempts
        /\ accounts[e].lockedAt # Unset <=> accounts[e].failed = MaxFailedAttempts

\* "Only SUPER_ADMIN may grant these": the seeds hold no such account, so no
\* sequence of registrations, by accounts registered before, ever adds a
\* privileged one.
PrivilegeStaysSeeded ==
    \A e \in Users :
        accounts[e].role \in PrivilegedRoles =>
            e \in DOMAIN Seed /\ accounts[e].role = Seed[e]

\* In app_users an expired lock is not lifted with its counter (main.py:170 only
\* compares times): a row has a lock, running or expired, exactly while its
\* counter is full, so after expiry each further failure must lock again, and
\* only a right password clears both.
RowLockMeansFailures ==
    \A u \in DbUser :
        rows[u].lockedUntil # Unset <=> rows[u].failed >= MaxFailedAttempts

=============================================================================
