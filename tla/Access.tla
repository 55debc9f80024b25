-------------------------------- MODULE Access --------------------------------
(***************************************************************************)
(* The administrator's account in internal/http/server.go: logins with the *)
(* failure counter of each address, the audit of failed logins, changes of *)
(* the account, and the signed session in the browser.                     *)
(*                                                                         *)
(* A login reads the clock once, at its start, and then passes through     *)
(* critical sections of two mutexes with the password check in between, so *)
(* that what it finds when it records its result may have changed since it *)
(* was let through. A change of the account writes the credentials file    *)
(* and then the copy in memory, under no common lock.                      *)
(*                                                                         *)
(* Left out: names and hashes (an account is a model of its two parts),    *)
(* the times kept with the audit, the bearer token for scripts.            *)
(*                                                                         *)
(* LockTooLate, LockForgotten, NeverHeld, SecretRenewed and                *)
(* EnvironmentWins are not the code: they are mutants the properties must  *)
(* catch.                                                                  *)
(***************************************************************************)
EXTENDS Integers, FiniteSets

CONSTANTS
    Clients,     \* requests that may be served at a time
    Keys,        \* addresses logins come from
    Accounts,    \* pairs of a user name and a password
    Default,     \* the account the environment names
    Limit,       \* loginFailureLimit
    Window,      \* loginFailureWindow
    Lockout,     \* loginLockoutDuration
    Flight,      \* no login takes longer than this
    Session,     \* sessionDuration
    Remember,    \* rememberSessionDuration
    MaxTime,     \* bound on the clock
    MaxFailed,   \* bound on the failures that wait to be reported
    MaxSecret,   \* bound on the session secrets ever made
    Scenes,      \* sets of events, of which a behaviour has one
    Torn,        \* a file truncated, or holding the remains of two writes
    None

Events    == {"login", "guess", "remember", "account", "visit", "leave",
              "logout", "restart", "fault", "tick"}
Users     == {a.user : a \in Accounts}
Passwords == {a.pass : a \in Accounts}

ASSUME AccountAssumption ==
    /\ Default \in Accounts
    /\ \A a \in Accounts : a = [user |-> a.user, pass |-> a.pass]
    /\ {Torn, None} \cap (Accounts \cup Int) = {}
    /\ Torn # None
    /\ None \notin Clients
ASSUME TimeAssumption ==
    /\ {Window, Lockout, Flight, Session, Remember} \subseteq Nat
    /\ Limit \in Nat \ {0}
    /\ 2 * Flight < Lockout /\ Flight <= Window
    /\ IsFiniteSet(Clients)
ASSUME SceneAssumption == \A scene \in Scenes : scene \subseteq Events

VARIABLES
    scene,       \* the events of this behaviour
    now,         \* the clock; 0 is Go's zero time and never reached
    auth,        \* Server.auth
    credentials, \* the credentials file: an account, Torn, or None
    attempts,    \* Server.loginAttempts; Nothing where there is no entry
    audit,       \* the audit file: failures since the last login, or Torn
    auditMu,     \* holder of loginAuditMu
    secret,      \* the session secret in use
    secretFile,  \* .session_secret; 0 if it holds none
    cookie,      \* the session cookie of the browser
    pc, req, at, snap, buf,   \* the locals of a request
    told,        \* until when the last refusal asked an address to wait
    unreported,  \* failures answered and in no notice yet; None: unknown
    sure,        \* the account last acknowledged by a change that ran alone
    alone,       \* no other change has overlapped this one
    owed         \* until when the login form promised to remember the browser

account == <<auth, credentials, sure, alone>>
limiter == <<attempts, told>>
audits  == <<audit, auditMu, buf, unreported>>
session == <<secret, secretFile, cookie, owed>>
vars    == <<scene, now, auth, credentials, attempts, audit, auditMu, secret,
             secretFile, cookie, pc, req, at, snap, buf, told, unreported,
             sure, alone, owed>>

Nothing  == [failures |-> 0, first |-> 0, until |-> 0]
NoCookie == [user |-> None, expires |-> 0, secret |-> 0, kept |-> FALSE]
NoReq    == [kind |-> "none"]

Reqs == [kind : {"login"}, key : Keys, account : Accounts, remember : BOOLEAN]
        \cup [kind : {"account"}, proof : Passwords, account : Accounts]

Init ==
    /\ scene \in Scenes
    /\ now = 1
    /\ auth = Default
    /\ credentials = None
    /\ attempts = [k \in Keys |-> Nothing]
    /\ audit = 0
    /\ auditMu = None
    /\ secret = 1
    /\ secretFile \in {0, 1}
    /\ cookie = NoCookie
    /\ pc = [c \in Clients |-> "idle"]
    /\ req = [c \in Clients |-> NoReq]
    /\ at = [c \in Clients |-> 0]
    /\ snap = [c \in Clients |-> None]
    /\ buf = [c \in Clients |-> 0]
    /\ told = [k \in Keys |-> 0]
    /\ unreported = 0
    /\ sure = None
    /\ alone = [c \in Clients |-> FALSE]
    /\ owed = 0

Goto(c, label) == pc' = [pc EXCEPT ![c] = label]

(* The answer to a request; its locals are gone.                           *)
Finish(c) ==
    /\ Goto(c, "idle")
    /\ req' = [req EXCEPT ![c] = NoReq]
    /\ at' = [at EXCEPT ![c] = 0]
    /\ snap' = [snap EXCEPT ![c] = None]

-----------------------------------------------------------------------------
(* Sessions.                                                               *)

(* verifySession: signed with the secret in use, for the user of now, and  *)
(* not past its time.                                                      *)
VerifySession ==
    /\ cookie.secret = secret
    /\ cookie.user = auth.user
    /\ now < cookie.expires

(* sessionCookie; only a remembered one has an expiry the browser knows.   *)
SessionCookie(user, remember) ==
    [user    |-> user,
     expires |-> now + (IF remember THEN Remember ELSE Session),
     secret  |-> secret,
     kept    |-> remember]

(* mirrorAdminSessionCookie sets the cookie again, without an expiry.      *)
MirrorCookie == [cookie EXCEPT !.kept = FALSE]

(* A page of the administration (or the login form) in the browser.        *)
Visit ==
    /\ "visit" \in scene
    /\ VerifySession
    /\ cookie' = MirrorCookie
    /\ UNCHANGED <<scene, now, account, limiter, audits, secret, secretFile,
                   pc, req, at, snap, owed>>

(* logout.                                                                 *)
Logout ==
    /\ "logout" \in scene
    /\ cookie # NoCookie
    /\ cookie' = NoCookie
    /\ owed' = 0
    /\ UNCHANGED <<scene, now, account, limiter, audits, secret, secretFile,
                   pc, req, at, snap>>

(* The browser is closed: it drops the cookies without an expiry.          *)
CloseBrowser ==
    /\ "leave" \in scene
    /\ cookie # NoCookie
    /\ cookie' = IF cookie.kept THEN cookie ELSE NoCookie
    /\ UNCHANGED <<scene, now, account, limiter, audits, secret, secretFile,
                   pc, req, at, snap, owed>>

-----------------------------------------------------------------------------
(* Login.                                                                  *)

(* loginPost takes the time before anything else.                          *)
StartLogin(c) ==
    /\ "login" \in scene
    /\ pc[c] = "idle"
    /\ audit # Torn => audit < MaxFailed
    /\ \E r \in Reqs :
         /\ r.kind = "login"
         /\ r.remember => "remember" \in scene
         /\ r.account # auth => "guess" \in scene
         /\ req' = [req EXCEPT ![c] = r]
    /\ at' = [at EXCEPT ![c] = now]
    /\ Goto(c, "limit")
    /\ UNCHANGED <<scene, now, account, limiter, audits, session, snap>>

(* loginRetryAfter: a locked address is refused, an expired entry dropped. *)
CheckLimit(c) ==
    /\ pc[c] = "limit"
    /\ LET k == req[c].key
           entry == attempts[k]
       IN  \/ /\ at[c] < entry.until
              /\ told' = [told EXCEPT ![k] = entry.until]
              /\ Goto(c, "failed")
              /\ UNCHANGED attempts
           \/ /\ at[c] >= entry.until
              /\ attempts' =
                    IF entry.first = 0 \/ at[c] - entry.first > Window
                    THEN [attempts EXCEPT ![k] = Nothing] ELSE attempts
              /\ Goto(c, "verify")
              /\ UNCHANGED told
    /\ UNCHANGED <<scene, now, account, audits, session, req, at, snap>>

(* The name and the password against a copy of Server.auth.                *)
VerifyPassword(c) ==
    /\ pc[c] = "verify"
    /\ snap' = [snap EXCEPT ![c] = auth]
    /\ Goto(c, IF req[c].account = auth THEN "clear" ELSE "record")
    /\ UNCHANGED <<scene, now, account, limiter, audits, session, req, at>>

(* Mutants of Counted: the limit is checked before the failure is counted; *)
(* an entry with a lock is always taken for an expired one.                *)
LockTooLate(entry, t) ==
    LET base == IF \/ entry.first = 0
                   \/ t - entry.first > Window
                   \/ entry.until # 0 /\ t >= entry.until
                THEN [Nothing EXCEPT !.first = t] ELSE entry
        n == base.failures + 1
    IN  [base EXCEPT !.failures = n,
                     !.until = IF base.failures >= Limit THEN t + Lockout
                               ELSE base.until]

LockForgotten(entry, t) ==
    LET base == IF \/ entry.first = 0
                   \/ t - entry.first > Window
                   \/ entry.until # 0
                THEN [Nothing EXCEPT !.first = t] ELSE entry
        n == base.failures + 1
    IN  [base EXCEPT !.failures = n,
                     !.until = IF n >= Limit THEN t + Lockout ELSE base.until]

(* The entry of an address after one more failure at time t.               *)
Counted(entry, t) ==
    LET base == IF \/ entry.first = 0
                   \/ t - entry.first > Window
                   \/ entry.until # 0 /\ t >= entry.until
                THEN [Nothing EXCEPT !.first = t] ELSE entry
        n == base.failures + 1
    IN  [base EXCEPT !.failures = n,
                     !.until = IF n >= Limit THEN t + Lockout ELSE base.until]

(* recordLoginFailure. A locked address is told how long to wait.          *)
RecordFailure(c) ==
    /\ pc[c] = "record"
    /\ LET k == req[c].key
           entry == Counted(attempts[k], at[c])
       IN  /\ attempts' = [attempts EXCEPT ![k] = entry]
           /\ told' = [told EXCEPT ![k] =
                         IF at[c] < entry.until THEN entry.until ELSE @]
    /\ Goto(c, "failed")
    /\ UNCHANGED <<scene, now, account, audits, session, req, at, snap>>

(* clearLoginFailures, after a right password.                             *)
ClearFailures(c) ==
    /\ pc[c] = "clear"
    /\ attempts' = [attempts EXCEPT ![req[c].key] = Nothing]
    /\ told' = [told EXCEPT ![req[c].key] = 0]
    /\ Goto(c, "passed")
    /\ UNCHANGED <<scene, now, account, audits, session, req, at, snap>>

(* loadStoredLoginAudit, as a success uses it: an unreadable file counts as *)
(* an empty one.                                                           *)
LoadedAudit == IF audit = Torn THEN 0 ELSE audit

(* Mutant of the mutex of the audit.                                       *)
NeverHeld == TRUE
AuditFree == auditMu = None

(* recordLoginFailureAudit and recordLoginSuccessAudit lock, load the file *)
(* and change it. A failure that finds the file unreadable is not counted. *)
LoadAudit(c) ==
    /\ pc[c] \in {"failed", "passed"}
    /\ AuditFree
    /\ \/ /\ pc[c] = "failed"
          /\ audit = Torn
          /\ unreported' = None
          /\ Finish(c)
          /\ UNCHANGED <<auditMu, buf>>
       \/ /\ pc[c] = "failed"
          /\ audit # Torn
          /\ auditMu' = c
          /\ buf' = [buf EXCEPT ![c] = audit + 1]
          /\ Goto(c, "saveFailed")
          /\ UNCHANGED <<req, at, snap, unreported>>
       \/ /\ pc[c] = "passed"
          /\ auditMu' = c
          /\ buf' = [buf EXCEPT ![c] = LoadedAudit]
          /\ Goto(c, "savePassed")
          /\ UNCHANGED <<req, at, snap, unreported>>
    /\ UNCHANGED <<scene, now, account, limiter, audit, session>>

(* ... and save it. A failed write is logged and leaves the old file or a  *)
(* truncated one; the login goes on as if nothing had happened.            *)
SaveFailed(c) ==
    /\ pc[c] = "saveFailed"
    /\ \/ /\ audit' = buf[c]
          /\ unreported' = IF unreported = None THEN None ELSE unreported + 1
       \/ /\ "fault" \in scene
          /\ audit' \in {audit, Torn}
          /\ unreported' = None
    /\ auditMu' = None
    /\ buf' = [buf EXCEPT ![c] = 0]
    /\ Finish(c)
    /\ UNCHANGED <<scene, now, account, limiter, session>>

(* The notice of the dashboard reports buf[c] failures, the count restarts.*)
SavePassed(c) ==
    /\ pc[c] = "savePassed"
    /\ \/ /\ audit' = 0
          /\ unreported' = IF unreported = None THEN 0 ELSE unreported - buf[c]
       \/ /\ "fault" \in scene
          /\ audit' \in {audit, Torn}
          /\ unreported' = None
    /\ auditMu' = None
    /\ buf' = [buf EXCEPT ![c] = 0]
    /\ Goto(c, "welcome")
    /\ UNCHANGED <<scene, now, account, limiter, session, req, at, snap>>

(* The cookie is for the user who was verified.                            *)
Welcome(c) ==
    /\ pc[c] = "welcome"
    /\ cookie' = SessionCookie(snap[c].user, req[c].remember)
    /\ owed' = IF req[c].remember /\ snap[c].user = auth.user
               THEN now + Remember ELSE 0
    /\ Finish(c)
    /\ UNCHANGED <<scene, now, account, limiter, audits, secret, secretFile>>

-----------------------------------------------------------------------------
(* updateAdminAccountSettings.                                             *)

Changing == {"truncate", "write", "adopt", "confirm"}

(* requireAdmin lets the request in and sets the cookie again.             *)
StartChange(c) ==
    /\ "account" \in scene
    /\ pc[c] = "idle"
    /\ VerifySession
    /\ cookie' = MirrorCookie
    /\ \E r \in Reqs :
         /\ r.kind = "account"
         /\ req' = [req EXCEPT ![c] = r]
    /\ Goto(c, "prove")
    /\ UNCHANGED <<scene, now, account, limiter, audits, secret, secretFile,
                   at, snap, owed>>

(* The current password against a copy of Server.auth; 401 if it is wrong. *)
ProvePassword(c) ==
    /\ pc[c] = "prove"
    /\ IF req[c].proof = auth.pass
       THEN /\ snap' = [snap EXCEPT ![c] = auth]
            /\ Goto(c, "truncate")
            /\ UNCHANGED <<req, at>>
       ELSE Finish(c)
    /\ UNCHANGED <<scene, now, account, limiter, audits, session>>

(* saveStoredAdminCredentials opens the file, which truncates it ...       *)
TruncateCredentials(c) ==
    /\ pc[c] = "truncate"
    /\ credentials' = Torn
    /\ sure' = None
    /\ alone' = [d \in Clients |->
                   IF d = c THEN \A e \in Clients \ {c} :
                                   pc[e] \notin Changing \ {"truncate"}
                            ELSE FALSE]
    /\ Goto(c, "write")
    /\ UNCHANGED <<scene, now, auth, limiter, audits, session, req, at, snap>>

(* ... and writes. What another request wrote in between may be longer and *)
(* stick out. A failed write answers 500.                                  *)
WriteCredentials(c) ==
    /\ pc[c] = "write"
    /\ \/ /\ credentials' \in IF credentials = Torn THEN {req[c].account}
                              ELSE {req[c].account, Torn}
          /\ Goto(c, "adopt")
          /\ UNCHANGED <<req, at, snap>>
       \/ /\ "fault" \in scene
          /\ Finish(c)
          /\ UNCHANGED credentials
    /\ UNCHANGED <<scene, now, auth, sure, alone, limiter, audits, session>>

(* setAuth of the copy taken at the start, with the new name and password. *)
AdoptAccount(c) ==
    /\ pc[c] = "adopt"
    /\ auth' = [snap[c] EXCEPT !.user = req[c].account.user,
                               !.pass = req[c].account.pass]
    /\ owed' = 0
    /\ Goto(c, "confirm")
    /\ UNCHANGED <<scene, now, credentials, sure, alone, limiter, audits,
                   secret, secretFile, cookie, req, at, snap>>

ConfirmChange(c) ==
    /\ pc[c] = "confirm"
    /\ cookie' = SessionCookie(req[c].account.user, FALSE)
    /\ owed' = 0
    /\ sure' = IF alone[c] THEN req[c].account ELSE sure
    /\ Finish(c)
    /\ UNCHANGED <<scene, now, auth, credentials, alone, limiter, audits,
                   secret, secretFile>>

-----------------------------------------------------------------------------
(* The program and the clock.                                              *)

(* localSessionSecret; mutant: it does not look for the file.              *)
SecretRenewed == secret + 1
LoadedSecret  == IF secretFile # 0 THEN secretFile ELSE secret + 1

(* loadStoredAdminCredentials; without a readable file the environment.    *)
(* Mutant: the environment always.                                         *)
EnvironmentWins == Default
LoadedAccount   == IF credentials \in Accounts THEN credentials ELSE Default

(* The program ends at any point and newAuthConfig starts again from the   *)
(* files. A save of the audit that was under way leaves it old or torn.    *)
Restart ==
    /\ "restart" \in scene
    /\ auth' = LoadedAccount
    /\ secret' = LoadedSecret
    /\ secret' <= MaxSecret
    /\ secretFile' \in IF secretFile # 0 THEN {secretFile} ELSE {0, secret'}
    /\ owed' = IF secret' = secret /\ auth'.user = auth.user THEN owed ELSE 0
    /\ attempts' = [k \in Keys |-> Nothing]
    /\ told' = [k \in Keys |-> 0]
    /\ audit' \in IF auditMu = None THEN {audit} ELSE {audit, Torn}
    /\ unreported' = IF auditMu = None THEN unreported ELSE None
    /\ auditMu' = None
    /\ pc' = [c \in Clients |-> "idle"]
    /\ req' = [c \in Clients |-> NoReq]
    /\ at' = [c \in Clients |-> 0]
    /\ snap' = [c \in Clients |-> None]
    /\ buf' = [c \in Clients |-> 0]
    /\ alone' = [c \in Clients |-> FALSE]
    /\ UNCHANGED <<scene, now, credentials, sure, cookie>>

(* Logins take less than Flight: the clock waits for them.                 *)
Tick ==
    /\ "tick" \in scene
    /\ now < MaxTime
    /\ \A c \in Clients : at[c] # 0 => now < at[c] + Flight
    /\ now' = now + 1
    /\ UNCHANGED <<scene, account, limiter, audits, session, pc, req, at, snap>>

Step(c) ==
    \/ StartLogin(c) \/ CheckLimit(c) \/ VerifyPassword(c)
    \/ RecordFailure(c) \/ ClearFailures(c)
    \/ LoadAudit(c) \/ SaveFailed(c) \/ SavePassed(c) \/ Welcome(c)
    \/ StartChange(c) \/ ProvePassword(c) \/ TruncateCredentials(c)
    \/ WriteCredentials(c) \/ AdoptAccount(c) \/ ConfirmChange(c)

Next == \/ \E c \in Clients : Step(c)
        \/ Visit \/ Logout \/ CloseBrowser \/ Restart \/ Tick

Spec == Init /\ [][Next]_vars

-----------------------------------------------------------------------------
(* Properties.                                                             *)

TypeOK ==
    /\ scene \in Scenes
    /\ now \in Nat \ {0}
    /\ auth \in Accounts
    /\ credentials \in Accounts \cup {Torn, None}
    /\ attempts \in [Keys -> [failures : Nat, first : Nat, until : Nat]]
    /\ audit \in Nat \cup {Torn}
    /\ auditMu \in Clients \cup {None}
    /\ secret \in Nat \ {0}
    /\ secretFile \in Nat
    /\ cookie \in [user : Users \cup {None}, expires : Nat, secret : Nat,
                   kept : BOOLEAN]
    /\ pc \in [Clients -> {"idle", "limit", "verify", "record", "clear",
                           "failed", "passed", "saveFailed", "savePassed",
                           "welcome", "prove"} \cup Changing]
    /\ req \in [Clients -> Reqs \cup {NoReq}]
    /\ at \in [Clients -> Nat]
    /\ snap \in [Clients -> Accounts \cup {None}]
    /\ buf \in [Clients -> Nat]
    /\ told \in [Keys -> Nat]
    /\ unreported \in Int \cup {None}
    /\ sure \in Accounts \cup {None}
    /\ alone \in [Clients -> BOOLEAN]
    /\ owed \in Nat

(* Although a login is counted long after it was let through, an address   *)
(* is never let through so often that its failures exceed the limit by     *)
(* more than the logins that were under way when the limit was reached.    *)
FailuresBounded ==
    \A k \in Keys : attempts[k].failures <= Limit - 1 + Cardinality(Clients)

(* An address that was told to wait stays locked for that long, up to what *)
(* a slow login that records an older time can take off the end.           *)
WaitHonoured ==
    \A k \in Keys :
        told[k] > now + Flight => attempts[k].until + Flight >= told[k]

(* As long as the audit file could be read and written, every failed login *)
(* is either waiting in the count or was reported by exactly one notice.   *)
AuditExact == unreported # None => audit = unreported

(* A change of the account that was acknowledged, and that no other one    *)
(* overlapped, holds in memory and in the file, and so across restarts,    *)
(* until the next change starts to write.                                  *)
AccountKept == sure # None => auth = sure /\ credentials = sure

(* README.md:170: login sessions survive restarts of the server. A session *)
(* in the browser ends by its time or with a new user name, or with a      *)
(* secret that could not be written.                                       *)
SessionsSurvive ==
    [][VerifySession /\ cookie' = cookie
       => \/ VerifySession'
          \/ now' >= cookie.expires
          \/ auth'.user # auth.user
          \/ secretFile # secret]_vars

(* README.md:170: "Remember me" gives a browser session of 30 days. It     *)
(* does not: the first page of the administration sets the cookie again    *)
(* without its expiry, and the browser drops it when it is closed.         *)
Remembered == owed > now => VerifySession
=============================================================================
