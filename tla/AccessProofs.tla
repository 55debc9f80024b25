----------------------------- MODULE AccessProofs -----------------------------
(***************************************************************************)
(* Theorems about the administrator's account, for any number of requests, *)
(* addresses and accounts, any limits, and a clock without bound.          *)
(***************************************************************************)
EXTENDS Access, FiniteSetTheorems, TLAPS

LoginSteps == {"limit", "verify", "record", "clear", "failed", "passed",
               "saveFailed", "savePassed", "welcome"}
Writing    == {"write", "adopt", "confirm"}

(* What a request carries from step to step.                               *)
Locals ==
    \A c \in Clients :
       /\ pc[c] \in LoginSteps => /\ req[c] \in Reqs
                                  /\ req[c].kind = "login"
                                  /\ at[c] # 0
       /\ pc[c] \in Changing \cup {"prove"} => /\ req[c] \in Reqs
                                               /\ req[c].kind = "account"
       /\ pc[c] \in (LoginSteps \ {"limit", "verify", "failed", "saveFailed"})
                    \cup Changing => snap[c] \in Accounts

IInv == TypeOK /\ Locals

(* A login names an address and an account.                                *)
LEMMA LoginReq ==
    ASSUME NEW r \in Reqs, r.kind = "login"
    PROVE  r.key \in Keys /\ r.account \in Accounts /\ r.remember \in BOOLEAN
BY DEF Reqs

(* An account change gives the password it knows and the account to come.  *)
LEMMA AccountReq ==
    ASSUME NEW r \in Reqs, r.kind = "account"
    PROVE  r.proof \in Passwords /\ r.account \in Accounts
BY DEF Reqs

(* An account is a user and a password, and nothing else.                  *)
LEMMA AccountShape ==
    ASSUME NEW a \in Accounts
    PROVE  /\ a = [user |-> a.user, pass |-> a.pass]
           /\ a.user \in Users /\ a.pass \in Passwords
BY AccountAssumption DEF Users, Passwords

(* A counted entry is an entry.                                            *)
LEMMA CountedType ==
    ASSUME NEW entry \in [failures : Nat, first : Nat, until : Nat], NEW t \in Nat
    PROVE  Counted(entry, t) \in [failures : Nat, first : Nat, until : Nat]
<1> DEFINE Entries == [failures : Nat, first : Nat, until : Nat]
           base == IF \/ entry.first = 0
                      \/ t - entry.first > Window
                      \/ entry.until # 0 /\ t >= entry.until
                   THEN [Nothing EXCEPT !.first = t] ELSE entry
<1>1. base \in Entries
  <2>1. [Nothing EXCEPT !.first = t] \in Entries
    BY DEF Nothing
  <2> QED
    BY <2>1
<1>2. Counted(entry, t) =
         [base EXCEPT !.failures = base.failures + 1,
                      !.until = IF base.failures + 1 >= Limit
                                THEN t + Lockout ELSE base.until]
  BY DEF Counted
<1> HIDE DEF base
<1>3. /\ base.failures + 1 \in Nat
      /\ (IF base.failures + 1 >= Limit THEN t + Lockout ELSE base.until) \in Nat
  BY <1>1, TimeAssumption
<1> QED
  BY <1>1, <1>2, <1>3

(* A request that ends is idle, with nothing left in its locals.           *)
LEMMA FinishType ==
    ASSUME IInv, NEW c \in Clients, Finish(c)
    PROVE  /\ pc' \in [Clients -> {"idle", "limit", "verify", "record", "clear",
                           "failed", "passed", "saveFailed", "savePassed",
                           "welcome", "prove"} \cup Changing]
           /\ req' \in [Clients -> Reqs \cup {NoReq}]
           /\ at' \in [Clients -> Nat]
           /\ snap' \in [Clients -> Accounts \cup {None}]
           /\ Locals'
<1> USE DEF IInv, TypeOK
<1>1. /\ pc' = [pc EXCEPT ![c] = "idle"]
      /\ req' = [req EXCEPT ![c] = NoReq]
      /\ at' = [at EXCEPT ![c] = 0]
      /\ snap' = [snap EXCEPT ![c] = None]
  BY DEF Finish, Goto
<1>2. Locals'
  BY <1>1 DEF Locals, LoginSteps, Changing
<1> QED
  BY <1>1, <1>2

(* A request changes no locals but its own.                                *)
LEMMA Elsewhere ==
    ASSUME TypeOK, NEW c \in Clients, Step(c), NEW d \in Clients \ {c}
    PROVE  pc'[d] = pc[d] /\ req'[d] = req[d] /\ at'[d] = at[d]
<1>1. CASE StartLogin(c) \/ CheckLimit(c) \/ VerifyPassword(c)
           \/ RecordFailure(c) \/ ClearFailures(c)
  BY <1>1 DEF StartLogin, CheckLimit, VerifyPassword, RecordFailure,
              ClearFailures, Goto, TypeOK
<1>2. CASE LoadAudit(c) \/ SaveFailed(c) \/ SavePassed(c) \/ Welcome(c)
  BY <1>2 DEF LoadAudit, SaveFailed, SavePassed, Welcome, Finish, Goto, TypeOK
<1>3. CASE StartChange(c) \/ ProvePassword(c) \/ TruncateCredentials(c)
  BY <1>3 DEF StartChange, ProvePassword, TruncateCredentials, Finish, Goto,
              TypeOK
<1>4. CASE WriteCredentials(c) \/ AdoptAccount(c) \/ ConfirmChange(c)
  BY <1>4 DEF WriteCredentials, AdoptAccount, ConfirmChange, Finish, Goto, TypeOK
<1> QED
  BY <1>1, <1>2, <1>3, <1>4 DEF Step

(* At the start all clients are idle.                                      *)
LEMMA TypeInit == Init => IInv
<1> SUFFICES ASSUME Init PROVE IInv
  OBVIOUS
<1>1. TypeOK
  BY AccountAssumption DEF Init, TypeOK, Nothing, NoCookie, Changing
<1>2. Locals
  BY DEF Init, Locals, LoginSteps, Changing
<1> QED
  BY <1>1, <1>2 DEF IInv

(* Types and locals, action by action.                                     *)
LEMMA TypeNext == IInv /\ [Next]_vars => IInv'
<1> SUFFICES ASSUME IInv, [Next]_vars PROVE IInv'
  OBVIOUS
<1> USE DEF IInv
<1>1. CASE UNCHANGED vars
  BY <1>1 DEF TypeOK, Locals, vars
<1>2. ASSUME NEW c \in Clients, StartLogin(c) PROVE IInv'
  <2>1. PICK r \in Reqs : r.kind = "login" /\ req' = [req EXCEPT ![c] = r]
    BY <1>2 DEF StartLogin
  <2>2. TypeOK'
    BY <1>2, <2>1 DEF StartLogin, TypeOK, Goto, account, limiter, audits, session
  <2>3. Locals'
    BY <1>2, <2>1 DEF StartLogin, TypeOK, Goto, Locals, LoginSteps, Changing
  <2> QED
    BY <2>2, <2>3
<1>3. ASSUME NEW c \in Clients, CheckLimit(c) PROVE IInv'
  <2>1. req[c].key \in Keys
    BY <1>3, LoginReq DEF CheckLimit, Locals, LoginSteps
  <2>a. attempts' \in [Keys -> [failures : Nat, first : Nat, until : Nat]]
        /\ told' \in [Keys -> Nat]
    BY <1>3, <2>1 DEF CheckLimit, TypeOK, Nothing
  <2>2. TypeOK'
    BY <1>3, <2>a DEF CheckLimit, TypeOK, Goto, account, audits, session
  <2>3. /\ pc' \in {[pc EXCEPT ![c] = "failed"], [pc EXCEPT ![c] = "verify"]}
        /\ pc[c] = "limit" /\ UNCHANGED <<req, at, snap>>
    BY <1>3 DEF CheckLimit, Goto
  <2>4. Locals'
    BY <2>3 DEF TypeOK, Locals, LoginSteps, Changing
  <2> QED
    BY <2>2, <2>4
<1>4. ASSUME NEW c \in Clients, VerifyPassword(c) PROVE IInv'
  BY <1>4 DEF VerifyPassword, TypeOK, Goto, Locals, LoginSteps, Changing,
              account, limiter, audits, session
<1>5. ASSUME NEW c \in Clients, RecordFailure(c) PROVE IInv'
  <2>1. req[c].key \in Keys
    BY <1>5, LoginReq DEF RecordFailure, Locals, LoginSteps
  <2>2. attempts[req[c].key] \in [failures : Nat, first : Nat, until : Nat]
        /\ at[c] \in Nat
    BY <2>1 DEF TypeOK
  <2>3. Counted(attempts[req[c].key], at[c])
           \in [failures : Nat, first : Nat, until : Nat]
    BY <2>2, CountedType
  <2>4. TypeOK'
    BY <1>5, <2>1, <2>3
       DEF RecordFailure, TypeOK, Goto, account, audits, session
  <2>5. Locals'
    BY <1>5 DEF RecordFailure, TypeOK, Goto, Locals, LoginSteps, Changing
  <2> QED
    BY <2>4, <2>5
<1>6. ASSUME NEW c \in Clients, ClearFailures(c) PROVE IInv'
  <2>1. TypeOK'
    BY <1>6 DEF ClearFailures, TypeOK, Goto, Nothing, account, audits, session
  <2>2. Locals'
    BY <1>6 DEF ClearFailures, TypeOK, Goto, Locals, LoginSteps, Changing
  <2> QED
    BY <2>1, <2>2
<1>7. ASSUME NEW c \in Clients, LoadAudit(c) PROVE IInv'
  <2>1. CASE Finish(c) /\ unreported' = None /\ UNCHANGED <<auditMu, buf>>
    BY <1>7, <2>1, FinishType DEF LoadAudit, TypeOK, account, limiter, session
  <2>2. CASE /\ auditMu' = c
             /\ \E b \in Nat : buf' = [buf EXCEPT ![c] = b]
             /\ \/ pc[c] = "failed" /\ Goto(c, "saveFailed")
                \/ pc[c] = "passed" /\ Goto(c, "savePassed")
             /\ UNCHANGED <<req, at, snap, unreported>>
    <3>1. TypeOK'
      BY <1>7, <2>2 DEF LoadAudit, Goto, TypeOK, account, limiter, session
    <3>2. Locals'
      BY <2>2 DEF Goto, TypeOK, Locals, LoginSteps, Changing
    <3> QED
      BY <3>1, <3>2
  <2>3. audit # Torn => audit + 1 \in Nat
    BY DEF TypeOK
  <2>4. LoadedAudit \in Nat
    BY DEF TypeOK, LoadedAudit
  <2> QED
    BY <1>7, <2>1, <2>2, <2>3, <2>4 DEF LoadAudit
<1>8. ASSUME NEW c \in Clients, SaveFailed(c) PROVE IInv'
  <2>1. Finish(c)
    BY <1>8 DEF SaveFailed
  <2>2. TypeOK'
    BY <1>8, <2>1, FinishType DEF SaveFailed, TypeOK, account, limiter, session
  <2> QED
    BY <2>1, <2>2, FinishType
<1>9. ASSUME NEW c \in Clients, SavePassed(c) PROVE IInv'
  <2>1. TypeOK'
    BY <1>9 DEF SavePassed, TypeOK, Goto, account, limiter, session
  <2>2. Locals'
    BY <1>9 DEF SavePassed, TypeOK, Goto, Locals, LoginSteps, Changing
  <2> QED
    BY <2>1, <2>2
<1>10. ASSUME NEW c \in Clients, Welcome(c) PROVE IInv'
  <2>1. Finish(c)
    BY <1>10 DEF Welcome
  <2>2. snap[c].user \in Users /\ req[c].remember \in BOOLEAN
    BY <1>10, LoginReq, AccountShape
       DEF Welcome, Locals, LoginSteps, Changing
  <2>3. SessionCookie(snap[c].user, req[c].remember)
           \in [user : Users \cup {None}, expires : Nat, secret : Nat,
                kept : BOOLEAN]
    BY <2>2, TimeAssumption DEF TypeOK, SessionCookie
  <2>4. now + Remember \in Nat
    BY TimeAssumption DEF TypeOK
  <2>5. TypeOK'
    BY <1>10, <2>1, <2>3, <2>4, FinishType
       DEF Welcome, TypeOK, account, limiter, audits
  <2> QED
    BY <2>1, <2>5, FinishType
<1>11. ASSUME NEW c \in Clients, StartChange(c) PROVE IInv'
  <2>1. PICK r \in Reqs : r.kind = "account" /\ req' = [req EXCEPT ![c] = r]
    BY <1>11 DEF StartChange
  <2>2. TypeOK'
    BY <1>11, <2>1
       DEF StartChange, TypeOK, Goto, MirrorCookie, account, limiter, audits
  <2>3. Locals'
    BY <1>11, <2>1 DEF StartChange, TypeOK, Goto, Locals, LoginSteps, Changing
  <2> QED
    BY <2>2, <2>3
<1>12. ASSUME NEW c \in Clients, ProvePassword(c) PROVE IInv'
  <2>1. CASE Finish(c)
    BY <1>12, <2>1, FinishType
       DEF ProvePassword, TypeOK, account, limiter, audits, session
  <2>2. CASE /\ snap' = [snap EXCEPT ![c] = auth]
             /\ Goto(c, "truncate")
             /\ UNCHANGED <<req, at>>
    <3>1. TypeOK'
      BY <1>12, <2>2 DEF ProvePassword, TypeOK, Goto, Changing, account, limiter,
                         audits, session
    <3>2. Locals'
      BY <1>12, <2>2 DEF ProvePassword, TypeOK, Goto, Locals, LoginSteps, Changing
    <3> QED
      BY <3>1, <3>2
  <2> QED
    BY <1>12, <2>1, <2>2 DEF ProvePassword
<1>13. ASSUME NEW c \in Clients, TruncateCredentials(c) PROVE IInv'
  <2>a. alone' \in [Clients -> BOOLEAN]
    BY <1>13 DEF TruncateCredentials
  <2>1. TypeOK'
    <3>1. credentials' = Torn /\ sure' = None
      BY <1>13 DEF TruncateCredentials
    <3>2. pc' = [pc EXCEPT ![c] = "write"]
      BY <1>13 DEF TruncateCredentials, Goto
    <3>3. UNCHANGED <<scene, now, auth, limiter, audits, session, req, at, snap>>
      BY <1>13 DEF TruncateCredentials
    <3> QED
      BY <2>a, <3>1, <3>2, <3>3 DEF TypeOK, Changing, limiter, audits, session
  <2>2. Locals'
    BY <1>13 DEF TruncateCredentials, TypeOK, Goto, Locals, LoginSteps, Changing
  <2> QED
    BY <2>1, <2>2
<1>14. ASSUME NEW c \in Clients, WriteCredentials(c) PROVE IInv'
  <2>1. req[c].account \in Accounts
    BY <1>14, AccountReq DEF WriteCredentials, Locals, LoginSteps, Changing
  <2>2. credentials' \in Accounts \cup {Torn, None}
    BY <1>14, <2>1 DEF WriteCredentials, TypeOK
  <2>3. CASE Finish(c)
    BY <1>14, <2>2, <2>3, FinishType
       DEF WriteCredentials, TypeOK, limiter, audits, session
  <2>4. CASE Goto(c, "adopt") /\ UNCHANGED <<req, at, snap>>
    <3>1. TypeOK'
      BY <1>14, <2>2, <2>4 DEF WriteCredentials, TypeOK, Goto, Changing, limiter,
                               audits, session
    <3>2. Locals'
      BY <1>14, <2>4 DEF WriteCredentials, TypeOK, Goto, Locals, LoginSteps,
                         Changing
    <3> QED
      BY <3>1, <3>2
  <2> QED
    BY <1>14, <2>3, <2>4 DEF WriteCredentials
<1>15. ASSUME NEW c \in Clients, AdoptAccount(c) PROVE IInv'
  <2>0. pc[c] = "adopt"
    BY <1>15 DEF AdoptAccount
  <2>a. snap[c] \in Accounts
    BY <2>0 DEF Locals, LoginSteps, Changing
  <2>b. req[c] \in Reqs /\ req[c].kind = "account"
    BY <2>0 DEF Locals, LoginSteps, Changing
  <2>1. req[c].account \in Accounts /\ snap[c] \in Accounts
    BY <2>a, <2>b, AccountReq
  <2>2. auth' = req[c].account
    BY <1>15, <2>1, AccountShape DEF AdoptAccount
  <2>3. TypeOK'
    <3>1. owed' = 0 /\ pc' = [pc EXCEPT ![c] = "confirm"]
      BY <1>15 DEF AdoptAccount, Goto
    <3>2. UNCHANGED <<scene, now, credentials, sure, alone, limiter, audits,
                      secret, secretFile, cookie, req, at, snap>>
      BY <1>15 DEF AdoptAccount
    <3> QED
      BY <2>1, <2>2, <3>1, <3>2 DEF TypeOK, Changing, limiter, audits
  <2>4. Locals'
    BY <1>15 DEF AdoptAccount, TypeOK, Goto, Locals, LoginSteps, Changing
  <2> QED
    BY <2>3, <2>4
<1>16. ASSUME NEW c \in Clients, ConfirmChange(c) PROVE IInv'
  <2>1. Finish(c)
    BY <1>16 DEF ConfirmChange
  <2>2. req[c].account \in Accounts /\ req[c].account.user \in Users
    BY <1>16, AccountReq, AccountShape
       DEF ConfirmChange, Locals, LoginSteps, Changing
  <2>3. SessionCookie(req[c].account.user, FALSE)
           \in [user : Users \cup {None}, expires : Nat, secret : Nat,
                kept : BOOLEAN]
    BY <2>2, TimeAssumption DEF TypeOK, SessionCookie
  <2>4. TypeOK'
    BY <1>16, <2>1, <2>2, <2>3, FinishType
       DEF ConfirmChange, TypeOK, limiter, audits
  <2> QED
    BY <2>1, <2>4, FinishType
<1>17. CASE Visit \/ Logout \/ CloseBrowser
  <2>1. cookie' \in [user : Users \cup {None}, expires : Nat, secret : Nat,
                     kept : BOOLEAN]
    <3>1. cookie' \in {MirrorCookie, NoCookie, cookie}
      BY <1>17 DEF Visit, Logout, CloseBrowser
    <3>2. MirrorCookie \in [user : Users \cup {None}, expires : Nat, secret : Nat,
                            kept : BOOLEAN]
      <4>1. cookie \in [user : Users \cup {None}, expires : Nat, secret : Nat,
                        kept : BOOLEAN]
        BY DEF TypeOK
      <4> QED
        BY <4>1 DEF MirrorCookie
    <3>3. /\ cookie \in [user : Users \cup {None}, expires : Nat, secret : Nat,
                          kept : BOOLEAN]
          /\ NoCookie \in [user : Users \cup {None}, expires : Nat, secret : Nat,
                            kept : BOOLEAN]
      BY DEF NoCookie, TypeOK
    <3> QED
      BY <3>1, <3>2, <3>3
  <2>a. owed' \in Nat
    BY <1>17 DEF Visit, Logout, CloseBrowser, TypeOK
  <2>b. UNCHANGED <<scene, now, account, limiter, audits, secret, secretFile, pc,
                    req, at, snap>>
    BY <1>17 DEF Visit, Logout, CloseBrowser
  <2>2. TypeOK'
    BY <2>1, <2>a, <2>b DEF TypeOK, account, limiter, audits, Changing
  <2>3. Locals'
    BY <1>17 DEF Visit, Logout, CloseBrowser, Locals
  <2> QED
    BY <2>2, <2>3
<1>18. CASE Restart
  <2>1. auth' \in Accounts
    BY <1>18, AccountAssumption DEF Restart, LoadedAccount
  <2>2. secret' \in Nat \ {0} /\ secretFile' \in Nat
    BY <1>18 DEF Restart, TypeOK, LoadedSecret
  <2>3. TypeOK'
    BY <1>18, <2>1, <2>2 DEF Restart, TypeOK, Nothing
  <2>4. Locals'
    BY <1>18 DEF Restart, Locals, LoginSteps, Changing
  <2> QED
    BY <2>3, <2>4
<1>19. CASE Tick
  BY <1>19 DEF Tick, TypeOK, Locals, account, limiter, audits, session
<1> QED
  BY <1>1, <1>2, <1>3, <1>4, <1>5, <1>6, <1>7, <1>8, <1>9, <1>10, <1>11, <1>12,
     <1>13, <1>14, <1>15, <1>16, <1>17, <1>18, <1>19 DEF Next, Step

(* Every variable stays in its type, whatever the interleaving.            *)
THEOREM TypeCorrect == Spec => []TypeOK
<1>1. IInv => TypeOK
  BY DEF IInv
<1> QED
  BY TypeInit, TypeNext, <1>1, PTL DEF Spec

(* Sessions survive restarts of the server: SessionsSurvive holds of every *)
(* step, because the secret in use is the one in the file.                 *)
THEOREM Sessions == Spec => SessionsSurvive
<1>1. ASSUME TypeOK, [Next]_vars, VerifySession, cookie' = cookie,
             now' < cookie.expires, auth'.user = auth.user, secretFile = secret
      PROVE  VerifySession'
  <2>1. secret' = secret
    <3>1. CASE Restart
      BY <1>1, <3>1 DEF Restart, LoadedSecret, TypeOK
    <3>2. CASE ~Restart
      BY <1>1, <3>2 DEF Next, Step, StartLogin, CheckLimit, VerifyPassword,
         RecordFailure, ClearFailures, LoadAudit, SaveFailed, SavePassed, Welcome,
         StartChange, ProvePassword, TruncateCredentials, WriteCredentials,
         AdoptAccount, ConfirmChange, Visit, Logout, CloseBrowser, Tick, session,
         vars
    <3> QED
      BY <3>1, <3>2
  <2> QED
    BY <1>1, <2>1 DEF VerifySession
<1>2. TypeOK /\ TypeOK' /\ [Next]_vars
      => [VerifySession /\ cookie' = cookie
          => \/ VerifySession'
             \/ now' >= cookie.expires
             \/ auth'.user # auth.user
             \/ secretFile # secret]_vars
  <2>1. ASSUME TypeOK, TypeOK'
        PROVE  ~(now' >= cookie.expires) => now' < cookie.expires
    BY <2>1 DEF TypeOK
  <2> QED
    BY <1>1, <2>1
<1> QED
  BY TypeCorrect, <1>2, PTL DEF Spec, SessionsSurvive

(* What the holder of loginAuditMu knows: the file does not change under   *)
(* it, so what it will write is what it read, changed.                     *)
AuditInv ==
    /\ AuditExact
    /\ \A c \in Clients :
          /\ pc[c] \in {"saveFailed", "savePassed"} => auditMu = c
          /\ pc[c] = "saveFailed" => audit # Torn /\ buf[c] = audit + 1
          /\ pc[c] = "savePassed" => buf[c] = LoadedAudit

(* Only the holder of loginAuditMu writes the audit, and nobody else       *)
(* between its read and its write.                                         *)
LEMMA AuditNext == IInv /\ IInv' /\ AuditInv /\ [Next]_vars => AuditInv'
<1> SUFFICES ASSUME IInv, IInv', AuditInv, [Next]_vars PROVE AuditInv'
  OBVIOUS
<1> USE DEF AuditInv, AuditExact, LoadedAudit
<1>1. CASE UNCHANGED vars
  BY <1>1 DEF vars
<1>2. ASSUME NEW c \in Clients, LoadAudit(c) PROVE AuditInv'
  <2>1. auditMu = None /\ pc[c] \in {"failed", "passed"} /\ audit' = audit
    BY <1>2 DEF LoadAudit, AuditFree
  <2>2. \A d \in Clients : pc[d] \notin {"saveFailed", "savePassed"}
    BY <2>1, AccountAssumption
  <2>3. CASE Finish(c) /\ unreported' = None /\ audit = Torn
             /\ UNCHANGED <<auditMu, buf>>
    BY <2>1, <2>2, <2>3 DEF Finish, Goto, IInv, TypeOK
  <2>4. CASE /\ audit # Torn /\ auditMu' = c /\ Goto(c, "saveFailed")
             /\ buf' = [buf EXCEPT ![c] = audit + 1]
             /\ UNCHANGED unreported
    BY <2>1, <2>2, <2>4 DEF Goto, IInv, TypeOK
  <2>5. CASE /\ auditMu' = c /\ Goto(c, "savePassed")
             /\ buf' = [buf EXCEPT ![c] = LoadedAudit]
             /\ UNCHANGED unreported
    BY <2>1, <2>2, <2>5 DEF Goto, IInv, TypeOK
  <2> QED
    BY <1>2, <2>3, <2>4, <2>5 DEF LoadAudit
<1>3. ASSUME NEW c \in Clients, SaveFailed(c) \/ SavePassed(c) PROVE AuditInv'
  <2>1. /\ auditMu = c
        /\ pc[c] = "saveFailed" => audit # Torn /\ buf[c] = audit + 1
        /\ pc[c] = "savePassed" => buf[c] = LoadedAudit
    BY <1>3 DEF SaveFailed, SavePassed
  <2>2. \A d \in Clients \ {c} : pc[d] \notin {"saveFailed", "savePassed"}
    BY <2>1
  <2>3. \A d \in Clients : pc'[d] \notin {"saveFailed", "savePassed"}
    BY <1>3, <2>2 DEF SaveFailed, SavePassed, Finish, Goto, IInv, TypeOK
  <2>4. CASE SaveFailed(c)
    <3>1. unreported' # None => /\ unreported # None
                                /\ audit' = buf[c] /\ unreported' = unreported + 1
      BY <2>4 DEF SaveFailed
    <3> QED
      BY <2>1, <2>3, <2>4, <3>1 DEF SaveFailed, IInv, TypeOK
  <2>5. CASE SavePassed(c)
    <3>1. unreported' # None =>
             /\ audit' = 0
             /\ unreported' = IF unreported = None THEN 0 ELSE unreported - buf[c]
      BY <2>5 DEF SavePassed
    <3>2. unreported # None => audit # Torn /\ buf[c] = audit
      BY <2>1, <2>5, AccountAssumption DEF SavePassed, IInv, TypeOK
    <3>3. unreported' # None => audit' = unreported'
      BY <3>1, <3>2 DEF IInv, TypeOK
    <3> QED
      BY <2>3, <3>3
  <2> QED
    BY <1>3, <2>4, <2>5
<1>4. CASE Restart
  BY <1>4 DEF Restart, IInv, TypeOK
<1>5. ASSUME NEW c \in Clients,
             \/ StartLogin(c) \/ CheckLimit(c) \/ VerifyPassword(c)
             \/ RecordFailure(c) \/ ClearFailures(c) \/ Welcome(c)
             \/ StartChange(c) \/ ProvePassword(c) \/ TruncateCredentials(c)
             \/ WriteCredentials(c) \/ AdoptAccount(c) \/ ConfirmChange(c)
      PROVE  AuditInv'
  <2>1. UNCHANGED audits
    BY <1>5 DEF StartLogin, CheckLimit, VerifyPassword, RecordFailure,
       ClearFailures, Welcome, StartChange, ProvePassword, TruncateCredentials,
       WriteCredentials, AdoptAccount, ConfirmChange
  <2>2. \A d \in Clients \ {c} : pc'[d] = pc[d]
    BY <1>5, Elsewhere DEF Step, IInv
  <2>3. pc'[c] \notin {"saveFailed", "savePassed"}
    <3>1. CASE StartLogin(c) \/ CheckLimit(c) \/ VerifyPassword(c)
               \/ RecordFailure(c) \/ ClearFailures(c) \/ Welcome(c)
      BY <3>1 DEF StartLogin, CheckLimit, VerifyPassword, RecordFailure,
         ClearFailures, Welcome, Finish, Goto, IInv, TypeOK
    <3>2. CASE StartChange(c) \/ ProvePassword(c) \/ TruncateCredentials(c)
               \/ WriteCredentials(c) \/ AdoptAccount(c) \/ ConfirmChange(c)
      BY <3>2 DEF StartChange, ProvePassword, TruncateCredentials,
         WriteCredentials, AdoptAccount, ConfirmChange, Finish, Goto, IInv, TypeOK
    <3> QED
      BY <1>5, <3>1, <3>2
  <2> QED
    BY <2>1, <2>2, <2>3 DEF audits
<1>6. CASE Visit \/ Logout \/ CloseBrowser \/ Tick
  BY <1>6 DEF Visit, Logout, CloseBrowser, Tick, audits
<1> QED
  BY <1>1, <1>2, <1>3, <1>4, <1>5, <1>6 DEF Next, Step

(* A failed login is reported once: AuditExact, because loginAuditMu is    *)
(* held from the load of the audit file to its save.                       *)
THEOREM AuditCounted == Spec => []AuditExact
<1>1. Init => AuditInv
  BY AccountAssumption DEF Init, AuditInv, AuditExact
<1>2. AuditInv => AuditExact
  BY DEF AuditInv
<1> QED
  BY TypeInit, TypeNext, AuditNext, <1>1, <1>2, PTL DEF Spec

(* A change that runs alone finds the file as it truncated or wrote it,    *)
(* and while an account is sure nobody is past the truncation.             *)
AccountInv ==
    /\ AccountKept
    /\ sure # None => \A c \in Clients : pc[c] \notin Writing
    /\ \A c \in Clients : alone[c] /\ pc[c] \in Writing =>
          /\ \A d \in Clients \ {c} : pc[d] \notin Writing
          /\ pc[c] = "write" => credentials = Torn
          /\ pc[c] \in {"adopt", "confirm"} => credentials = req[c].account
          /\ pc[c] = "confirm" => auth = req[c].account

(* An account change that nothing overlaps finds file and copy as it left  *)
(* them.                                                                   *)
LEMMA AccountNext == IInv /\ AccountInv /\ [Next]_vars => AccountInv'
<1> SUFFICES ASSUME IInv, AccountInv, [Next]_vars PROVE AccountInv'
  OBVIOUS
<1> USE DEF AccountInv, AccountKept, Writing
<1>1. CASE UNCHANGED vars
  BY <1>1 DEF vars
<1>2. ASSUME NEW c \in Clients, TruncateCredentials(c) PROVE AccountInv'
  <2>1. /\ pc' = [pc EXCEPT ![c] = "write"]
        /\ credentials' = Torn /\ sure' = None /\ req' = req
        /\ alone' = [d \in Clients |->
                       IF d = c THEN \A e \in Clients \ {c} :
                                       pc[e] \notin Changing \ {"truncate"}
                                ELSE FALSE]
    BY <1>2 DEF TruncateCredentials, Goto
  <2>2. \A d \in Clients : alone'[d] => d = c
    BY <2>1
  <2>3. alone'[c] => \A d \in Clients \ {c} : pc'[d] \notin Writing
    BY <2>1 DEF Changing, IInv, TypeOK
  <2>4. pc'[c] = "write"
    BY <2>1 DEF IInv, TypeOK
  <2> QED
    BY <2>1, <2>2, <2>3, <2>4
<1>3. ASSUME NEW c \in Clients, WriteCredentials(c) PROVE AccountInv'
  <2>1. pc[c] = "write" /\ sure = None
    BY <1>3 DEF WriteCredentials
  <2>2. \A d \in Clients \ {c} : ~(alone[d] /\ pc[d] \in Writing)
    BY <2>1
  <2>3. \A d \in Clients \ {c} : pc'[d] = pc[d]
    BY <1>3 DEF WriteCredentials, Finish, Goto, IInv, TypeOK
  <2>4. alone' = alone /\ sure' = sure
    BY <1>3 DEF WriteCredentials
  <2>5. CASE Finish(c)
    <3>1. pc'[c] = "idle"
      BY <2>5 DEF Finish, Goto, IInv, TypeOK
    <3> QED
      BY <2>1, <2>2, <2>3, <2>4, <3>1
  <2>6. CASE /\ Goto(c, "adopt") /\ req' = req
             /\ credentials' \in IF credentials = Torn THEN {req[c].account}
                                 ELSE {req[c].account, Torn}
    <3>1. pc'[c] = "adopt"
      BY <2>6 DEF Goto, IInv, TypeOK
    <3>2. alone[c] => credentials' = req[c].account
      BY <2>1, <2>6
    <3> QED
      BY <2>1, <2>2, <2>3, <2>4, <2>6, <3>1, <3>2
  <2> QED
    BY <1>3, <2>5, <2>6 DEF WriteCredentials
<1>4. ASSUME NEW c \in Clients, AdoptAccount(c) PROVE AccountInv'
  <2>1. pc[c] = "adopt" /\ sure = None
    BY <1>4 DEF AdoptAccount
  <2>2. snap[c] \in Accounts /\ req[c] \in Reqs /\ req[c].kind = "account"
    BY <2>1 DEF IInv, Locals, LoginSteps, Changing
  <2>3. auth' = req[c].account
    BY <1>4, <2>2, AccountReq, AccountShape DEF AdoptAccount
  <2>4. /\ pc' = [pc EXCEPT ![c] = "confirm"]
        /\ UNCHANGED <<credentials, sure, alone, req>>
    BY <1>4 DEF AdoptAccount, Goto
  <2>5. \A d \in Clients \ {c} : ~(alone[d] /\ pc[d] \in Writing)
    BY <2>1
  <2> QED
    BY <2>1, <2>3, <2>4, <2>5 DEF IInv, TypeOK
<1>5. ASSUME NEW c \in Clients, ConfirmChange(c) PROVE AccountInv'
  <2>1. pc[c] = "confirm" /\ sure = None
    BY <1>5 DEF ConfirmChange
  <2>2. /\ pc' = [pc EXCEPT ![c] = "idle"]
        /\ req' = [req EXCEPT ![c] = NoReq]
        /\ sure' = IF alone[c] THEN req[c].account ELSE sure
        /\ UNCHANGED <<auth, credentials, alone>>
    BY <1>5 DEF ConfirmChange, Finish, Goto
  <2>3. \A d \in Clients \ {c} : ~(alone[d] /\ pc[d] \in Writing)
    BY <2>1
  <2> QED
    BY <2>1, <2>2, <2>3 DEF IInv, TypeOK
<1>6. CASE Restart
  <2>1. sure # None => LoadedAccount = sure
    BY DEF LoadedAccount, IInv, TypeOK
  <2> QED
    BY <1>6, <2>1 DEF Restart
<1>7. ASSUME NEW c \in Clients,
             \/ StartLogin(c) \/ CheckLimit(c) \/ VerifyPassword(c)
             \/ RecordFailure(c) \/ ClearFailures(c) \/ LoadAudit(c)
             \/ SaveFailed(c) \/ SavePassed(c) \/ Welcome(c)
             \/ StartChange(c) \/ ProvePassword(c)
      PROVE  AccountInv'
  <2>1. UNCHANGED account
    BY <1>7 DEF StartLogin, CheckLimit, VerifyPassword, RecordFailure,
       ClearFailures, LoadAudit, SaveFailed, SavePassed, Welcome, StartChange,
       ProvePassword
  <2>2. \A d \in Clients \ {c} : pc'[d] = pc[d] /\ req'[d] = req[d]
    BY <1>7, Elsewhere DEF Step, IInv
  <2>3. pc[c] \notin Writing /\ pc'[c] \notin Writing
    BY <1>7 DEF StartLogin, CheckLimit, VerifyPassword, RecordFailure,
       ClearFailures, LoadAudit, SaveFailed, SavePassed, Welcome, StartChange,
       ProvePassword, Finish, Goto, IInv, TypeOK
  <2> QED
    BY <2>1, <2>2, <2>3 DEF account
<1>8. CASE Visit \/ Logout \/ CloseBrowser \/ Tick
  BY <1>8 DEF Visit, Logout, CloseBrowser, Tick, account
<1> QED
  BY <1>1, <1>2, <1>3, <1>4, <1>5, <1>6, <1>7, <1>8 DEF Next, Step

(* An acknowledged change of the account is kept: AccountKept, for changes *)
(* that no other one overlapped.                                           *)
THEOREM AccountStays == Spec => []AccountKept
<1>1. Init => AccountInv
  BY DEF Init, AccountInv, AccountKept, Writing
<1>2. AccountInv => AccountKept
  BY DEF AccountInv
<1> QED
  BY TypeInit, TypeNext, AccountNext, <1>1, <1>2, PTL DEF Spec

(* Logins from an address that were let through and not counted yet.       *)
Passed(k) == {c \in Clients : /\ pc[c] \in {"verify", "record"}
                              /\ req[c].key = k}

(* The times of a login, and what is known of an entry at the limit: those *)
(* let through before it was locked were served when it was, and will not  *)
(* meet those let through after the lock has ended.                        *)
Times ==
    \A c \in Clients : at[c] # 0 => at[c] <= now /\ now <= at[c] + Flight

Locked(k) ==
    attempts[k].failures >= Limit =>
       /\ attempts[k].until > 0
       /\ \A c \in Passed(k) :
             at[c] < attempts[k].until =>
                at[c] + Lockout <= attempts[k].until + Flight
       /\ \/ \E c \in Passed(k) : at[c] >= attempts[k].until
          \/ attempts[k].failures + Cardinality(Passed(k))
                <= Limit - 1 + Cardinality(Clients)

BoundInv == Times /\ FailuresBounded /\ \A k \in Keys : Locked(k)

(* Requests can be counted.                                                *)
LEMMA PassedFinite ==
    ASSUME NEW S \in SUBSET Clients
    PROVE  /\ IsFiniteSet(S) /\ Cardinality(S) \in Nat
           /\ Cardinality(S) <= Cardinality(Clients)
           /\ Cardinality(Clients) \in Nat
           /\ \A c \in S : Cardinality(S \ {c}) = Cardinality(S) - 1
BY TimeAssumption, FS_Subset, FS_CardinalityType, FS_RemoveElement

(* The clock and the requests: every step keeps Times.                     *)
LEMMA TimesNext == IInv /\ IInv' /\ Times /\ [Next]_vars => Times'
<1> SUFFICES ASSUME IInv, IInv', Times, [Next]_vars PROVE Times'
  OBVIOUS
<1> USE TimeAssumption DEF Times
<1>1. CASE Tick
  BY <1>1 DEF Tick, IInv, TypeOK
<1>2. CASE Restart
  BY <1>2 DEF Restart
<1>3. ASSUME NEW c \in Clients, Step(c) PROVE Times'
  <2>1. now' = now
    BY <1>3 DEF Step, StartLogin, CheckLimit, VerifyPassword, RecordFailure,
       ClearFailures, LoadAudit, SaveFailed, SavePassed, Welcome, StartChange,
       ProvePassword, TruncateCredentials, WriteCredentials, AdoptAccount,
       ConfirmChange
  <2>2. at' \in {at, [at EXCEPT ![c] = now], [at EXCEPT ![c] = 0]}
    BY <1>3 DEF Step, StartLogin, CheckLimit, VerifyPassword, RecordFailure,
       ClearFailures, LoadAudit, SaveFailed, SavePassed, Welcome, StartChange,
       ProvePassword, TruncateCredentials, WriteCredentials, AdoptAccount,
       ConfirmChange, Finish
  <2> QED
    BY <2>1, <2>2 DEF IInv, TypeOK
<1>4. CASE Visit \/ Logout \/ CloseBrowser \/ UNCHANGED vars
  BY <1>4 DEF Visit, Logout, CloseBrowser, vars
<1> QED
  BY <1>1, <1>2, <1>3, <1>4 DEF Next

(* No other step of a request lets a login through or changes its time.    *)
LEMMA OthersPass ==
    ASSUME IInv, NEW c \in Clients,
           \/ StartLogin(c) \/ VerifyPassword(c) \/ LoadAudit(c)
           \/ SaveFailed(c) \/ SavePassed(c) \/ Welcome(c)
           \/ StartChange(c) \/ ProvePassword(c) \/ TruncateCredentials(c)
           \/ WriteCredentials(c) \/ AdoptAccount(c) \/ ConfirmChange(c)
    PROVE  \A k \in Keys : /\ Passed(k)' \subseteq Passed(k)
                           /\ \A d \in Passed(k)' : at'[d] = at[d]
<1>1. \A d \in Clients \ {c} :
         pc'[d] = pc[d] /\ req'[d] = req[d] /\ at'[d] = at[d]
  BY Elsewhere DEF Step, IInv
<1>2. \/ pc'[c] \notin {"verify", "record"}
      \/ /\ pc[c] = "verify" /\ pc'[c] = "record"
         /\ req'[c] = req[c] /\ at'[c] = at[c]
  <2>1. CASE StartLogin(c) \/ LoadAudit(c) \/ SaveFailed(c) \/ SavePassed(c)
             \/ Welcome(c)
    BY <2>1 DEF StartLogin, LoadAudit, SaveFailed, SavePassed, Welcome, Finish,
       Goto, IInv, TypeOK
  <2>2. CASE VerifyPassword(c)
    BY <2>2 DEF VerifyPassword, Goto, IInv, TypeOK
  <2>3. CASE StartChange(c) \/ ProvePassword(c) \/ TruncateCredentials(c)
             \/ WriteCredentials(c) \/ AdoptAccount(c) \/ ConfirmChange(c)
    BY <2>3 DEF StartChange, ProvePassword, TruncateCredentials,
       WriteCredentials, AdoptAccount, ConfirmChange, Finish, Goto, IInv, TypeOK
  <2> QED
    BY <2>1, <2>2, <2>3
<1> QED
  BY <1>1, <1>2 DEF Passed

(* While one login past the end of a lock is served, none from before the  *)
(* lock is: between the two lies more than two flights.                    *)
LEMMA NotTogether ==
    ASSUME IInv, BoundInv, NEW k \in Keys, attempts[k].failures >= Limit,
           NEW c \in Passed(k), at[c] >= attempts[k].until
    PROVE  \A d \in Passed(k) : at[d] >= attempts[k].until
<1> SUFFICES ASSUME NEW d \in Passed(k), at[d] < attempts[k].until
             PROVE  FALSE
  BY DEF IInv, TypeOK, Passed
<1>1. at[d] + Lockout <= attempts[k].until + Flight
  BY DEF BoundInv, Locked
<1>2. /\ at[c] <= now /\ now <= at[d] + Flight
  <2>1. at[c] # 0 /\ at[d] # 0
    BY DEF IInv, Locals, LoginSteps, Passed
  <2> QED
    BY <2>1 DEF BoundInv, Times, Passed
<1>3. /\ at[c] \in Nat /\ at[d] \in Nat /\ now \in Nat
      /\ attempts[k].until \in Nat /\ Flight \in Nat /\ Lockout \in Nat
  BY TimeAssumption DEF IInv, TypeOK, Passed
<1> QED
  BY <1>1, <1>2, <1>3, TimeAssumption

(* Recording a failure is the step that may exceed the limit.              *)
LEMMA RecordBounded ==
    ASSUME IInv, BoundInv, NEW c \in Clients, RecordFailure(c)
    PROVE  FailuresBounded' /\ \A k \in Keys : Locked(k)'
<1>0. PICK key \in Keys : key = req[c].key
  BY LoginReq DEF RecordFailure, IInv, Locals, LoginSteps
<1> DEFINE e == attempts[key]
           n == Counted(e, at[c])
<1>1. /\ key \in Keys /\ pc[c] = "record" /\ c \in Passed(key) /\ at[c] # 0
  BY <1>0 DEF RecordFailure, IInv, Locals, LoginSteps, Passed
<1>2. /\ attempts' = [attempts EXCEPT ![key] = n]
      /\ pc' = [pc EXCEPT ![c] = "failed"] /\ at' = at /\ req' = req
  BY <1>0 DEF RecordFailure, Goto
<1>3. /\ \A k \in Keys \ {key} : Passed(k)' = Passed(k)
      /\ Passed(key)' = Passed(key) \ {c}
  BY <1>0, <1>1, <1>2 DEF Passed, IInv, TypeOK
<1>4. /\ e \in [failures : Nat, first : Nat, until : Nat] /\ at[c] \in Nat
      /\ n \in [failures : Nat, first : Nat, until : Nat]
  BY <1>1, CountedType DEF IInv, TypeOK
<1>5. /\ \A k \in Keys \ {key} : attempts'[k] = attempts[k]
      /\ attempts'[key] = n
  BY <1>1, <1>2 DEF IInv, TypeOK
<1>6. ASSUME NEW k \in Keys \ {key} PROVE Locked(k)'
  BY <1>2, <1>3, <1>5, <1>6 DEF BoundInv, Locked
<1>7. n.failures \in {1, e.failures + 1}
      /\ (n.failures = e.failures + 1 /\ n.failures # 1
            => ~(e.until # 0 /\ at[c] >= e.until))
      /\ (n.failures >= Limit => n.until = at[c] + Lockout)
  BY <1>4 DEF Counted, Nothing
<1>8. /\ Cardinality(Passed(key) \ {c}) = Cardinality(Passed(key)) - 1
      /\ Cardinality(Passed(key)) <= Cardinality(Clients)
      /\ Cardinality(Passed(key)) \in Nat /\ Cardinality(Clients) \in Nat
      /\ Cardinality(Passed(key) \ {c}) \in Nat
      /\ Limit \in Nat \ {0}
  <2>1. Passed(key) \in SUBSET Clients
    BY DEF Passed
  <2> QED
    BY <1>1, <2>1, PassedFinite, TimeAssumption
<1>9. n.failures >= Limit =>
        n.failures + Cardinality(Passed(key) \ {c})
           <= Limit - 1 + Cardinality(Clients)
  <2>1. CASE n.failures <= Limit
    BY <1>4, <1>8, <2>1
  <2>2. CASE n.failures > Limit
    <3>1. n.failures = e.failures + 1 /\ e.failures >= Limit /\ n.failures # 1
      BY <1>4, <1>7, <2>2, TimeAssumption
    <3>2. e.until > 0 /\ at[c] < e.until
      BY <1>1, <1>4, <1>7, <3>1 DEF BoundInv, Locked
    <3>3. ~\E d \in Passed(key) : at[d] >= e.until
      <4> SUFFICES ASSUME NEW d \in Passed(key), at[d] >= e.until PROVE FALSE
        OBVIOUS
      <4>1. at[c] >= e.until
        BY <1>1, <3>1, NotTogether
      <4> QED
        BY <1>4, <3>2, <4>1
    <3>4. e.failures + Cardinality(Passed(key))
             <= Limit - 1 + Cardinality(Clients)
      BY <1>1, <3>1, <3>3 DEF BoundInv, Locked
    <3> QED
      BY <1>4, <1>8, <3>1, <3>4
  <2> QED
    BY <1>4, <2>1, <2>2, TimeAssumption
<1>10. Locked(key)'
  <2>1. ASSUME NEW d \in Passed(key) \ {c}, n.failures >= Limit
        PROVE  at[d] + Lockout <= n.until + Flight
    <3>1. at[d] # 0 /\ d \in Clients
      BY <1>1 DEF IInv, Locals, LoginSteps, Passed
    <3>2. at[d] <= now /\ now <= at[c] + Flight
      BY <1>1, <3>1 DEF BoundInv, Times
    <3>3. at[d] \in Nat /\ now \in Nat /\ at[c] \in Nat
      BY <3>1 DEF IInv, TypeOK
    <3> QED
      BY <1>7, <2>1, <3>2, <3>3, TimeAssumption
  <2>2. n.failures >= Limit => n.until > 0
    BY <1>1, <1>4, <1>7, TimeAssumption
  <2> QED
    BY <1>2, <1>3, <1>5, <1>9, <2>1, <2>2 DEF Locked
<1>11. FailuresBounded'
  <2>1. n.failures <= Limit - 1 + Cardinality(Clients)
    <3> HIDE DEF n
    <3> QED
      BY <1>4, <1>8, <1>9
  <2> QED
    BY <1>5, <2>1 DEF BoundInv, FailuresBounded
<1> QED
  BY <1>6, <1>10, <1>11

(* A login that is let through at the limit comes after the lock.          *)
LEMMA CheckBounded ==
    ASSUME IInv, BoundInv, NEW c \in Clients, CheckLimit(c)
    PROVE  FailuresBounded' /\ \A k \in Keys : Locked(k)'
<1>0. PICK key \in Keys : key = req[c].key
  BY LoginReq DEF CheckLimit, IInv, Locals, LoginSteps
<1> DEFINE e == attempts[key]
<1>1. pc[c] = "limit" /\ at' = at /\ req' = req
  BY DEF CheckLimit
<1>2. e \in [failures : Nat, first : Nat, until : Nat] /\ at[c] \in Nat
  BY <1>1 DEF IInv, TypeOK
<1>3. Cardinality(Clients) \in Nat
  BY PassedFinite
<1>4. CASE at[c] < e.until /\ Goto(c, "failed") /\ attempts' = attempts
  <2>1. \A k \in Keys : Passed(k)' = Passed(k)
    BY <1>1, <1>4 DEF Goto, Passed, IInv, TypeOK
  <2> QED
    BY <1>1, <1>4, <2>1 DEF BoundInv, FailuresBounded, Locked
<1>5. CASE /\ at[c] >= e.until /\ Goto(c, "verify")
           /\ attempts' \in {attempts, [attempts EXCEPT ![key] = Nothing]}
  <2>1. /\ \A k \in Keys \ {key} : Passed(k)' = Passed(k)
        /\ Passed(key)' = Passed(key) \cup {c}
    BY <1>0, <1>1, <1>5 DEF Goto, Passed, IInv, TypeOK
  <2>2. /\ \A k \in Keys \ {key} : attempts'[k] = attempts[k]
        /\ attempts'[key] \in {e, Nothing}
    BY <1>1, <1>5 DEF IInv, TypeOK
  <2>3. \A k \in Keys \ {key} : Locked(k)'
    BY <1>1, <2>1, <2>2 DEF BoundInv, Locked
  <2>4. CASE attempts'[key] = Nothing
    <3>1. Locked(key)'
      BY <2>4, TimeAssumption DEF Locked, Nothing
    <3>2. Nothing.failures <= Limit - 1 + Cardinality(Clients)
      BY <1>3, TimeAssumption DEF Nothing
    <3> QED
      BY <2>2, <2>3, <2>4, <3>1, <3>2 DEF BoundInv, FailuresBounded
  <2>5. CASE attempts'[key] = e
    <3>1. ASSUME e.failures >= Limit, NEW d \in Passed(key)', at[d] < e.until
          PROVE  at[d] + Lockout <= e.until + Flight
      <4>1. d # c
        BY <1>2, <1>5, <3>1
      <4> QED
        BY <1>1, <2>1, <3>1, <4>1 DEF BoundInv, Locked
    <3>2. \E d \in Passed(key)' : at[d] >= e.until
      BY <1>5, <2>1
    <3>3. e.failures >= Limit => e.until > 0
      BY <1>1 DEF BoundInv, Locked
    <3>4. Locked(key)'
      BY <1>1, <2>5, <3>1, <3>2, <3>3 DEF Locked
    <3> QED
      BY <2>2, <2>3, <2>5, <3>4 DEF BoundInv, FailuresBounded
  <2> QED
    BY <2>2, <2>4, <2>5
<1> QED
  BY <1>0, <1>4, <1>5 DEF CheckLimit

(* A login that is counted has left those let through, and one is let      *)
(* through only below the limit.                                           *)
LEMMA BoundNext == IInv /\ IInv' /\ BoundInv /\ [Next]_vars => BoundInv'
<1> SUFFICES ASSUME IInv, IInv', BoundInv, [Next]_vars PROVE BoundInv'
  OBVIOUS
<1>1. Times'
  BY TimesNext DEF BoundInv
<1>2. ASSUME NEW c \in Clients, CheckLimit(c) \/ RecordFailure(c) PROVE BoundInv'
  BY <1>1, <1>2, CheckBounded, RecordBounded DEF BoundInv
<1>3. ASSUME NEW c \in Clients, ClearFailures(c) PROVE BoundInv'
  <2>1. req[c].key \in Keys
    BY <1>3, LoginReq DEF ClearFailures, IInv, Locals, LoginSteps
  <2>2. /\ at' = at /\ req' = req
        /\ attempts' = [attempts EXCEPT ![req[c].key] = Nothing]
    BY <1>3 DEF ClearFailures
  <2>3. \A k \in Keys : Passed(k)' = Passed(k)
    BY <1>3 DEF ClearFailures, Goto, Passed, IInv, TypeOK
  <2>4. \A k \in Keys : attempts'[k] \in {attempts[k], Nothing}
    BY <2>2 DEF IInv, TypeOK
  <2>5. Nothing.failures = 0
    BY DEF Nothing
  <2>6. Cardinality(Clients) \in Nat
    BY PassedFinite
  <2>7. FailuresBounded'
    BY <2>4, <2>5, <2>6, TimeAssumption DEF BoundInv, FailuresBounded
  <2>8. \A k \in Keys : Locked(k)'
    BY <2>2, <2>3, <2>4, <2>5, TimeAssumption DEF BoundInv, Locked
  <2> QED
    BY <1>1, <2>7, <2>8 DEF BoundInv
<1>4. CASE Restart
  <2>1. \A k \in Keys : attempts'[k].failures = 0
    BY <1>4 DEF Restart, Nothing
  <2>2. Cardinality(Clients) \in Nat
    BY PassedFinite
  <2> QED
    BY <1>1, <2>1, <2>2, TimeAssumption DEF BoundInv, FailuresBounded, Locked
<1>5. ASSUME NEW c \in Clients,
             \/ StartLogin(c) \/ VerifyPassword(c) \/ LoadAudit(c)
             \/ SaveFailed(c) \/ SavePassed(c) \/ Welcome(c)
             \/ StartChange(c) \/ ProvePassword(c) \/ TruncateCredentials(c)
             \/ WriteCredentials(c) \/ AdoptAccount(c) \/ ConfirmChange(c)
      PROVE  BoundInv'
  <2>1. attempts' = attempts
    BY <1>5 DEF StartLogin, VerifyPassword, LoadAudit, SaveFailed, SavePassed,
       Welcome, StartChange, ProvePassword, TruncateCredentials, WriteCredentials,
       AdoptAccount, ConfirmChange, limiter
  <2>2. \A k \in Keys : /\ Passed(k)' \subseteq Passed(k)
                        /\ \A d \in Passed(k)' : at'[d] = at[d]
    BY <1>5, OthersPass
  <2>3. ASSUME NEW k \in Keys PROVE Locked(k)'
    <3>1. Locked(k) /\ Passed(k)' \subseteq Passed(k)
          /\ \A d \in Passed(k)' : at'[d] = at[d]
      BY <2>2 DEF BoundInv
    <3>2. Passed(k) \in SUBSET Clients /\ Passed(k)' \in SUBSET Passed(k)
      BY <3>1 DEF Passed
    <3>3. /\ Cardinality(Passed(k)') <= Cardinality(Passed(k))
          /\ Cardinality(Passed(k)') \in Nat /\ Cardinality(Passed(k)) \in Nat
          /\ Cardinality(Clients) \in Nat
      BY <3>2, PassedFinite, FS_Subset
    <3>4. /\ attempts[k].failures \in Nat
          /\ attempts[k].failures <= Limit - 1 + Cardinality(Clients)
      BY DEF IInv, TypeOK, BoundInv, FailuresBounded
    <3>5. ASSUME attempts[k].failures >= Limit
          PROVE  \/ \E d \in Passed(k)' : at[d] >= attempts[k].until
                 \/ attempts[k].failures + Cardinality(Passed(k)')
                       <= Limit - 1 + Cardinality(Clients)
      <4>1. CASE \E d \in Passed(k) : at[d] >= attempts[k].until
        <5>1. \A d \in Passed(k)' : at[d] >= attempts[k].until
          BY <3>2, <3>5, <4>1, NotTogether
        <5>2. CASE Passed(k)' = {}
          <6>1. Cardinality(Passed(k)') = 0
            BY <5>2, FS_EmptySet
          <6> QED
            BY <3>3, <3>4, <6>1, TimeAssumption
        <5> QED
          BY <5>1, <5>2
      <4>2. CASE attempts[k].failures + Cardinality(Passed(k))
                   <= Limit - 1 + Cardinality(Clients)
        BY <3>3, <3>4, <4>2, TimeAssumption
      <4> QED
        BY <3>1, <3>5, <4>1, <4>2 DEF Locked
    <3> QED
      BY <2>1, <3>1, <3>2, <3>5 DEF Locked
  <2> QED
    BY <1>1, <2>1, <2>3 DEF BoundInv, FailuresBounded
<1>6. CASE Visit \/ Logout \/ CloseBrowser \/ Tick \/ UNCHANGED vars
  <2>1. UNCHANGED <<attempts, pc, req, at>>
    BY <1>6 DEF Visit, Logout, CloseBrowser, Tick, limiter, vars
  <2> QED
    BY <1>1, <2>1 DEF BoundInv, FailuresBounded, Locked, Passed
<1> QED
  BY <1>2, <1>3, <1>4, <1>5, <1>6 DEF Next, Step

(* The failures of an address never exceed the limit by more than the      *)
(* logins served with it: FailuresBounded, if a login takes less than half *)
(* of the time an address stays locked.                                    *)
THEOREM Bounded == Spec => []FailuresBounded
<1>1. Init => BoundInv
  <2>1. Cardinality(Clients) \in Nat
    BY PassedFinite
  <2> QED
    BY <2>1, TimeAssumption
       DEF Init, BoundInv, Times, FailuresBounded, Locked, Nothing
<1>2. BoundInv => FailuresBounded
  BY DEF BoundInv
<1> QED
  BY TypeInit, TypeNext, BoundNext, <1>1, <1>2, PTL DEF Spec

(* A login that was let through is not so far from the first failure of    *)
(* its address that it would start a new count and forget the lock: an     *)
(* expired count was dropped when the login was let through, and a newer   *)
(* one begins at most a flight before it.                                  *)
Near(k) ==
    /\ attempts[k].until # 0 => attempts[k].first # 0
    /\ \A c \in Passed(k) :
          attempts[k].first # 0 => at[c] <= attempts[k].first + Window

WaitInv == Times /\ WaitHonoured /\ \A k \in Keys : Near(k)

(* Recording a failure starts a new wait or leaves a wait that matters.    *)
LEMMA RecordWaits ==
    ASSUME IInv, WaitInv, NEW c \in Clients, RecordFailure(c)
    PROVE  WaitHonoured' /\ \A k \in Keys : Near(k)'
<1>0. PICK key \in Keys : key = req[c].key
  BY LoginReq DEF RecordFailure, IInv, Locals, LoginSteps
<1> DEFINE e == attempts[key]
           n == Counted(e, at[c])
<1>1. /\ c \in Passed(key) /\ at[c] # 0
      /\ at' = at /\ req' = req /\ now' = now
      /\ pc' = [pc EXCEPT ![c] = "failed"]
      /\ attempts' = [attempts EXCEPT ![key] = n]
      /\ told' = [told EXCEPT ![key] = IF at[c] < n.until THEN n.until ELSE @]
  BY <1>0 DEF RecordFailure, Goto, IInv, Locals, LoginSteps, Passed
<1>2. /\ \A k \in Keys \ {key} : attempts'[k] = attempts[k] /\ told'[k] = told[k]
      /\ attempts'[key] = n
      /\ told'[key] = IF at[c] < n.until THEN n.until ELSE told[key]
      /\ \A k \in Keys : Passed(k)' \subseteq Passed(k)
  BY <1>1 DEF Passed, IInv, TypeOK
<1>3. /\ e \in [failures : Nat, first : Nat, until : Nat] /\ at[c] \in Nat
      /\ n \in [failures : Nat, first : Nat, until : Nat]
      /\ now \in Nat /\ told[key] \in Nat /\ at[c] <= now
  BY <1>1, CountedType DEF IInv, TypeOK, WaitInv, Times
<1>4. /\ n.first \in {e.first, at[c]} /\ n.first # 0
      /\ n.until \in {0, e.until, at[c] + Lockout}
      /\ n.until = 0 /\ e.until # 0 =>
            e.first = 0 \/ at[c] - e.first > Window \/ at[c] >= e.until
  <2> DEFINE base == IF \/ e.first = 0
                        \/ at[c] - e.first > Window
                        \/ e.until # 0 /\ at[c] >= e.until
                     THEN [Nothing EXCEPT !.first = at[c]] ELSE e
  <2>1. n = [base EXCEPT !.failures = base.failures + 1,
                         !.until = IF base.failures + 1 >= Limit
                                   THEN at[c] + Lockout ELSE base.until]
    BY DEF Counted
  <2>2. \/ base.first = at[c] /\ base.until = 0
        \/ /\ base = e /\ e.first # 0
           /\ ~(at[c] - e.first > Window)
    BY DEF Nothing
  <2>3. /\ DOMAIN base = {"failures", "first", "until"}
        /\ e.until # 0 /\ base # e =>
              e.first = 0 \/ at[c] - e.first > Window \/ at[c] >= e.until
    BY <1>3 DEF Nothing
  <2> HIDE DEF base
  <2>4. n.first = base.first
    BY <2>1, <2>3
  <2>5. n.until \in {base.until, at[c] + Lockout}
    BY <2>1, <2>3
  <2>6. at[c] + Lockout # 0
    BY <1>1, <1>3, TimeAssumption
  <2> HIDE DEF n
  <2> QED
    BY <1>1, <2>2, <2>3, <2>4, <2>5, <2>6
<1>5. ASSUME NEW k \in Keys PROVE Near(k)'
  <2>1. CASE k # key
    BY <1>1, <1>2, <2>1 DEF WaitInv, Near
  <2>2. CASE k = key
    <3>1. ASSUME NEW d \in Passed(key) PROVE at[d] <= n.first + Window
      <4>1. at[d] # 0 /\ at[d] \in Nat
        BY DEF Passed, IInv, TypeOK, Locals, LoginSteps
      <4>2. at[d] <= now /\ now <= at[c] + Flight
        BY <1>1, <4>1 DEF WaitInv, Times, Passed
      <4>3. CASE n.first = at[c]
        BY <1>3, <4>1, <4>2, <4>3, TimeAssumption
      <4>4. CASE n.first = e.first
        BY <1>4, <4>4 DEF WaitInv, Near
      <4> QED
        BY <1>4, <4>3, <4>4
    <3> HIDE DEF n
    <3> QED
      BY <1>1, <1>2, <1>4, <2>2, <3>1 DEF Near
  <2> QED
    BY <2>1, <2>2
<1>6. told'[key] > now + Flight => n.until + Flight >= told'[key]
  <2>1. CASE at[c] < n.until
    BY <1>2, <1>3, <2>1, TimeAssumption
  <2>2. CASE ~(at[c] < n.until)
    <3> SUFFICES ASSUME told[key] > now + Flight PROVE FALSE
      BY <1>2, <2>2
    <3>1. e.until + Flight >= told[key]
      BY DEF WaitInv, WaitHonoured
    <3>2. e.until > at[c] /\ e.until # 0
      BY <1>3, <3>1, TimeAssumption
    <3>3. e.first # 0 /\ at[c] <= e.first + Window
      BY <1>1, <3>2 DEF WaitInv, Near
    <3>4. n.until = 0
      <4> HIDE DEF n, e
      <4> QED
        BY <1>3, <1>4, <2>2, <3>2, TimeAssumption
    <3> QED
      BY <1>3, <1>4, <3>2, <3>3, <3>4, TimeAssumption
  <2> QED
    BY <2>1, <2>2
<1>7. WaitHonoured'
  BY <1>1, <1>2, <1>6 DEF WaitInv, WaitHonoured
<1> QED
  BY <1>5, <1>7

(* A count that is dropped has no wait that matters; a refusal tells of    *)
(* the one there is.                                                       *)
LEMMA CheckWaits ==
    ASSUME IInv, WaitInv, NEW c \in Clients, CheckLimit(c)
    PROVE  WaitHonoured' /\ \A k \in Keys : Near(k)'
<1>0. PICK key \in Keys : key = req[c].key
  BY LoginReq DEF CheckLimit, IInv, Locals, LoginSteps
<1> DEFINE e == attempts[key]
<1>1. /\ pc[c] = "limit" /\ at[c] # 0
      /\ at' = at /\ req' = req /\ now' = now
  BY DEF CheckLimit, IInv, Locals, LoginSteps
<1>2. /\ e \in [failures : Nat, first : Nat, until : Nat]
      /\ at[c] \in Nat /\ now \in Nat /\ told[key] \in Nat /\ at[c] <= now
  BY <1>1 DEF IInv, TypeOK, WaitInv, Times
<1>3. CASE /\ Goto(c, "failed") /\ attempts' = attempts
           /\ told' = [told EXCEPT ![key] = e.until]
  <2>1. \A k \in Keys : Passed(k)' = Passed(k)
    BY <1>1, <1>3 DEF Goto, Passed, IInv, TypeOK
  <2>2. \A k \in Keys : told'[k] = IF k = key THEN e.until ELSE told[k]
    BY <1>3 DEF IInv, TypeOK
  <2>3. e.until + Flight >= e.until
    BY <1>2, TimeAssumption
  <2> QED
    BY <1>1, <1>3, <2>1, <2>2, <2>3 DEF WaitInv, WaitHonoured, Near
<1>4. CASE /\ at[c] >= e.until /\ Goto(c, "verify") /\ told' = told
           /\ attempts' = IF e.first = 0 \/ at[c] - e.first > Window
                          THEN [attempts EXCEPT ![key] = Nothing] ELSE attempts
  <2>1. /\ \A k \in Keys \ {key} : Passed(k)' = Passed(k)
        /\ Passed(key)' = Passed(key) \cup {c}
    BY <1>0, <1>1, <1>4 DEF Goto, Passed, IInv, TypeOK
  <2>2. /\ \A k \in Keys \ {key} : attempts'[k] = attempts[k]
        /\ attempts'[key] = IF e.first = 0 \/ at[c] - e.first > Window
                            THEN Nothing ELSE e
    BY <1>4 DEF IInv, TypeOK
  <2>3. ~(told[key] > now + Flight)
    <3>1. told[key] > now + Flight => e.until + Flight >= told[key]
      BY DEF WaitInv, WaitHonoured
    <3> QED
      BY <1>2, <1>4, <3>1, TimeAssumption
  <2>4. WaitHonoured'
    BY <1>1, <1>4, <2>2, <2>3 DEF WaitInv, WaitHonoured
  <2>5. Near(key)'
    BY <1>1, <1>2, <2>1, <2>2, TimeAssumption DEF WaitInv, Near, Nothing
  <2> QED
    BY <1>1, <2>1, <2>2, <2>4, <2>5 DEF WaitInv, Near
<1> QED
  BY <1>0, <1>3, <1>4 DEF CheckLimit

(* An address told to wait stays locked, whatever logins are under way.    *)
LEMMA WaitNext == IInv /\ IInv' /\ WaitInv /\ [Next]_vars => WaitInv'
<1> SUFFICES ASSUME IInv, IInv', WaitInv, [Next]_vars PROVE WaitInv'
  OBVIOUS
<1>1. Times'
  BY TimesNext DEF WaitInv
<1>2. ASSUME NEW c \in Clients, CheckLimit(c) \/ RecordFailure(c) PROVE WaitInv'
  BY <1>1, <1>2, CheckWaits, RecordWaits DEF WaitInv
<1>3. ASSUME NEW c \in Clients, ClearFailures(c) PROVE WaitInv'
  <2>1. req[c].key \in Keys
    BY <1>3, LoginReq DEF ClearFailures, IInv, Locals, LoginSteps
  <2>2. /\ at' = at /\ now' = now
        /\ \A k \in Keys : \/ attempts'[k] = attempts[k] /\ told'[k] = told[k]
                           \/ attempts'[k] = Nothing /\ told'[k] = 0
    BY <1>3 DEF ClearFailures, IInv, TypeOK
  <2>3. \A k \in Keys : Passed(k)' = Passed(k)
    BY <1>3 DEF ClearFailures, Goto, Passed, IInv, TypeOK
  <2>4. ~(0 > now + Flight)
    BY TimeAssumption DEF IInv, TypeOK
  <2>5. WaitHonoured'
    BY <2>2, <2>4 DEF WaitInv, WaitHonoured
  <2>6. \A k \in Keys : Near(k)'
    BY <2>2, <2>3 DEF WaitInv, Near, Nothing
  <2> QED
    BY <1>1, <2>5, <2>6 DEF WaitInv
<1>4. CASE Restart
  <2>1. \A k \in Keys : attempts'[k] = Nothing /\ told'[k] = 0
    BY <1>4 DEF Restart
  <2>2. now' = now /\ ~(0 > now + Flight)
    BY <1>4, TimeAssumption DEF Restart, IInv, TypeOK
  <2> QED
    BY <1>1, <2>1, <2>2 DEF WaitInv, WaitHonoured, Near, Nothing
<1>5. ASSUME NEW c \in Clients,
             \/ StartLogin(c) \/ VerifyPassword(c) \/ LoadAudit(c)
             \/ SaveFailed(c) \/ SavePassed(c) \/ Welcome(c)
             \/ StartChange(c) \/ ProvePassword(c) \/ TruncateCredentials(c)
             \/ WriteCredentials(c) \/ AdoptAccount(c) \/ ConfirmChange(c)
      PROVE  WaitInv'
  <2>1. UNCHANGED <<attempts, told, now>>
    BY <1>5 DEF StartLogin, VerifyPassword, LoadAudit, SaveFailed, SavePassed,
       Welcome, StartChange, ProvePassword, TruncateCredentials, WriteCredentials,
       AdoptAccount, ConfirmChange, limiter
  <2>2. \A k \in Keys : /\ Passed(k)' \subseteq Passed(k)
                        /\ \A d \in Passed(k)' : at'[d] = at[d]
    BY <1>5, OthersPass
  <2> QED
    BY <1>1, <2>1, <2>2 DEF WaitInv, WaitHonoured, Near
<1>6. CASE Visit \/ Logout \/ CloseBrowser \/ Tick \/ UNCHANGED vars
  <2>1. /\ UNCHANGED <<attempts, told, pc, req, at>>
        /\ now' \in {now, now + 1}
    BY <1>6 DEF Visit, Logout, CloseBrowser, Tick, limiter, vars
  <2>2. \A k \in Keys : told[k] \in Nat /\ attempts[k].until \in Nat
    BY DEF IInv, TypeOK
  <2>3. now \in Nat /\ Flight \in Nat
    BY TimeAssumption DEF IInv, TypeOK
  <2>4. WaitHonoured'
    BY <2>1, <2>2, <2>3 DEF WaitInv, WaitHonoured
  <2> QED
    BY <1>1, <2>1, <2>4 DEF WaitInv, Near, Passed
<1> QED
  BY <1>2, <1>3, <1>4, <1>5, <1>6 DEF Next, Step

(* An address that was told to wait stays locked for that long, up to a    *)
(* flight: WaitHonoured, if a login takes less than half of the time an    *)
(* address stays locked, and no longer than failures are counted together. *)
THEOREM Waits == Spec => []WaitHonoured
<1>1. Init => WaitInv
  BY TimeAssumption DEF Init, WaitInv, Times, WaitHonoured, Near, Nothing, Passed
<1>2. WaitInv => WaitHonoured
  BY DEF WaitInv
<1> QED
  BY TypeInit, TypeNext, WaitNext, <1>1, <1>2, PTL DEF Spec
===============================================================================
