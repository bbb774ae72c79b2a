------------------------------- MODULE Access -------------------------------
(* Accounts: sign-in, second factor, sessions, API keys, and the edits of an
   account by its owner and by an administrator.

   Every request reads the account, works on its copy and writes it back in a
   later statement; between the two, other requests run.  The model follows
   the requests about one account step by step: each step is one statement on
   the database or one critical section of the challenge store. *)
EXTENDS Integers, FiniteSets, Outbox

CONSTANTS
  AccessBounds,      \* bounds to start from: requests, edits, clock ticks
  ChallengeAttempts, \* codes a challenge may be tried with
  MaxActiveAPIKeys

VARIABLES
  account,    \* users: one row, or None
  initialized, \* users has a row
  challenges, \* challengeStore: challenge -> credentials and attempts
  sessions,   \* sessions: the version they were issued for, and for what
  apikeys,    \* api_keys
  requests,   \* requests on their way
  totpNow,    \* the current TOTP step
  serial,     \* passwords, secrets, recovery codes and challenges handed out
  spent,      \* history: factor -> how often it was accepted
  logins,     \* history: challenge -> sign-ins it led to
  accleft

accessVars == <<account, initialized, challenges, sessions, apikeys, requests, totpNow, serial,
                spent, logins, accleft>>

AccUse(k) == accleft[k] > 0 /\ accleft' = [accleft EXCEPT ![k] = @ - 1]
Goes(r, next) == requests' = (requests \ {r}) \cup {next}
Ends(r)       == requests' = requests \ {r}

(* An installation that has its first administrator, with the second factor
   off or on, or one that waits for it. *)
NewUser(pw) == [pw |-> pw, on |-> TRUE, role |-> "admin", totp |-> FALSE, secret |-> 0, last |-> 0,
                codes |-> {}, ver |-> 0, upd |-> 0]
AccessInit ==
  /\ account \in {None, NewUser(1), [NewUser(1) EXCEPT !.totp = TRUE, !.secret = 1, !.codes = {1}]}
  /\ initialized = (account # None) /\ challenges = <<>> /\ apikeys = {} /\ requests = {}
  /\ sessions = IF account = None THEN {} ELSE {[ver |-> 0, by |-> "login", pw |-> 1, totp |-> account.totp]}
  /\ totpNow = 2 /\ serial = 1 /\ spent = <<>> /\ logins = <<>>
  /\ accleft \in AccessBounds
-----------------------------------------------------------------------------
(* The guarded writes.  A change of password, role, state or second factor
   raises security_version, and the trigger revokes the keys of the old one. *)
WriteRow(new) ==
  /\ account' = new
  /\ apikeys' = IF new.ver = account.ver THEN apikeys ELSE {[k EXCEPT !.revoked = TRUE] : k \in apikeys}

(* UpdateUser: the whole row, if nobody wrote since it was read. *)
UserUnchanged(u) == account # None /\ account.upd = u.upd
UpdatedUser(u) ==
  LET bump == account.pw # u.pw \/ account.role # u.role \/ account.on # u.on \/ account.totp # u.totp
  IN  [u EXCEPT !.ver = account.ver + (IF bump THEN 1 ELSE 0), !.upd = account.upd + 1]

(* UpdateUserSecurity: the second factor alone, if it is what was read. *)
PasswordUnchanged(u) == account # None /\ account.pw = u.pw /\ account.on = u.on  \* mutant
SecurityUnchanged(u) ==
  /\ account # None /\ account.pw = u.pw /\ account.on = u.on /\ account.upd = u.upd
  /\ account.totp = u.totp /\ account.last = u.last /\ account.codes = u.codes
UpdatedSecurity(was, u) ==
  LET bump == was.totp # u.totp \/ (was.totp /\ was.secret # u.secret)
  IN  [account EXCEPT !.secret = u.secret, !.totp = u.totp, !.last = u.last, !.codes = u.codes,
                      !.ver = @ + (IF bump THEN 1 ELSE 0), !.upd = @ + 1]

(* GetSession and the lookups of a key *)
SessionUsable(s) == account # None /\ account.on /\ s.ver = account.ver
KeyUsable(k)     == account # None /\ account.on /\ k.ver = account.ver /\ ~k.revoked

(* createSession: with the user it was authorised for, or for whoever is
   enabled now. *)
Authorized(u) == account # None /\ account.on /\ account.ver = u.ver /\ account.pw = u.pw
NewSession(u, by) == sessions' = sessions \cup {[ver |-> account.ver, by |-> by, pw |-> u.pw, totp |-> u.totp]}

(* consumeSecondFactor and VerifyTOTP: the code of a step within one of the
   present and after the last accepted, or an unused recovery code. *)
Verifies(u, code, last) ==
  code.kind = "totp" /\ code.secret = u.secret /\ code.step \in totpNow - 1 .. totpNow + 1 /\ code.step > last
Factor(u, code) == Verifies(u, code, u.last) \/ (code.kind = "recovery" /\ code.id \in u.codes)
Consumed(u, code) == IF Verifies(u, code, u.last) THEN [u EXCEPT !.last = code.step]
                     ELSE [u EXCEPT !.codes = @ \ {code.id}]
ClearTOTP(u) == [u EXCEPT !.totp = FALSE, !.secret = 0, !.last = 0, !.codes = {}]

(* The code a user enters is on the device now, or on the paper. *)
Codes == {[kind |-> "totp", secret |-> account.secret, step |-> totpNow, id |-> 0]} \cup
         {[kind |-> "recovery", secret |-> 0, step |-> 0, id |-> c] : c \in account.codes}
Count(f, k) == [x \in DOMAIN f \cup {k} |-> IF x \notin DOMAIN f THEN 1 ELSE IF x = k THEN f[x] + 1 ELSE f[x]]
-----------------------------------------------------------------------------
Setup ==
  /\ AccUse("request") /\ ~initialized
  /\ requests' = requests \cup {[op |-> "setup", pc |-> "create", pw |-> serial + 1]}
  /\ serial' = serial + 1
  /\ UNCHANGED <<account, initialized, challenges, sessions, apikeys, totpNow, spent, logins>>

(* CreateInitialAdmin: check and insert in one statement. *)
CreateInitialAdmin(r) ==
  /\ r.op = "setup"
  /\ IF initialized THEN Ends(r) /\ UNCHANGED <<account, initialized>>
     ELSE /\ account' = NewUser(r.pw) /\ initialized' = TRUE
          /\ Goes(r, [op |-> "login", pc |-> "finish", u |-> NewUser(r.pw), chal |-> 0])
  /\ UNCHANGED <<challenges, sessions, apikeys, totpNow, serial, spent, logins, accleft>>

(* login: the password is right; with a second factor it earns a challenge. *)
Login ==
  /\ AccUse("request") /\ account # None /\ account.on
  /\ IF account.totp
     THEN /\ serial' = serial + 1
          /\ challenges' = [c \in DOMAIN challenges \cup {serial + 1} |->
               IF c = serial + 1 THEN [pw |-> account.pw, secret |-> account.secret, tries |-> 0] ELSE challenges[c]]
          /\ UNCHANGED requests
     ELSE /\ requests' = requests \cup {[op |-> "login", pc |-> "finish", u |-> account, chal |-> 0]}
          /\ UNCHANGED <<initialized, challenges, serial>>
  /\ UNCHANGED <<account, initialized, sessions, apikeys, totpNow, spent, logins>>

(* attempt: counts before anything is checked. *)
Without(c) == [d \in DOMAIN challenges \ {c} |-> challenges[d]]
Login2FA ==
  /\ AccUse("request") /\ account # None
  /\ \E c \in DOMAIN challenges, code \in Codes :
       IF challenges[c].tries + 1 > ChallengeAttempts THEN challenges' = Without(c) /\ UNCHANGED requests
       ELSE /\ challenges' = [challenges EXCEPT ![c].tries = @ + 1]
            /\ requests' = requests \cup
                 {[op |-> "login2fa", pc |-> "load", chal |-> c, held |-> challenges[c], code |-> code]}
  /\ UNCHANGED <<account, initialized, sessions, apikeys, totpNow, serial, spent, logins>>

Load2FA(r) ==
  /\ r.op = "login2fa" /\ r.pc = "load"
  /\ IF /\ account # None /\ account.on /\ account.totp
        /\ r.held.pw = account.pw /\ r.held.secret = account.secret /\ Factor(account, r.code)
     THEN Goes(r, [op |-> "login2fa", pc |-> "drop", chal |-> r.chal, code |-> r.code,
                   was |-> account, u |-> Consumed(account, r.code)])
     ELSE Ends(r)
  /\ UNCHANGED <<account, initialized, challenges, sessions, apikeys, totpNow, serial, spent, logins, accleft>>

Drop(r) ==
  /\ r.op = "login2fa" /\ r.pc = "drop"
  /\ challenges' = Without(r.chal)
  /\ IF r.chal \in DOMAIN challenges THEN Goes(r, [r EXCEPT !.pc = "cas"]) ELSE Ends(r)
  /\ UNCHANGED <<account, initialized, sessions, apikeys, totpNow, serial, spent, logins, accleft>>

ChallengeExpires ==
  /\ AccUse("tick")
  /\ \E c \in DOMAIN challenges : challenges' = Without(c)
  /\ UNCHANGED <<account, initialized, sessions, apikeys, requests, totpNow, serial, spent, logins>>

Tick ==
  /\ AccUse("tick") /\ totpNow' = totpNow + 1
  /\ UNCHANGED <<account, initialized, challenges, sessions, apikeys, requests, serial, spent, logins>>

(* finishLogin reads the account once more ... *)
FinishLogin(r) ==
  /\ r.pc = "finish"
  /\ IF account # None /\ account.on /\ account.pw = r.u.pw /\ account.totp = r.u.totp
     THEN Goes(r, [r EXCEPT !.pc = "session"]) ELSE Ends(r)
  /\ UNCHANGED <<account, initialized, challenges, sessions, apikeys, totpNow, serial, spent, logins, accleft>>

(* ... and startSession inserts the session for what was authorised. *)
StartSession(r) ==
  /\ r.pc = "session" /\ Ends(r)
  /\ IF Authorized(r.u)
     THEN /\ NewSession(r.u, r.op)
          /\ logins' = IF r.op = "login" /\ r.chal > 0 THEN Count(logins, r.chal) ELSE logins
     ELSE UNCHANGED <<sessions, logins>>
  /\ UNCHANGED <<account, initialized, challenges, apikeys, totpNow, serial, spent, accleft>>
-----------------------------------------------------------------------------
(* A request of the signed-in owner: currentUser finds the session, ... *)
SelfOps == {"setup2fa", "enable", "disable", "recovery", "password", "profile", "key"}
SelfRequest ==
  /\ AccUse("request") /\ \E s \in sessions : SessionUsable(s)
  /\ \E op \in SelfOps, code \in Codes :
       requests' = requests \cup {[op |-> op, pc |-> "user", code |-> code, pw |-> account.pw]}
  /\ UNCHANGED <<account, initialized, challenges, sessions, apikeys, totpNow, serial, spent, logins>>

(* ... then reads the user; the handler checks password and code against that
   copy and edits it. *)
Edited(r, u) ==
  CASE r.op = "setup2fa" /\ ~u.totp /\ r.pw = u.pw -> [u EXCEPT !.secret = serial + 1, !.last = 0]
    [] r.op = "enable" /\ ~u.totp /\ u.secret # 0 /\ Verifies(u, r.code, 0)
         -> [u EXCEPT !.totp = TRUE, !.last = r.code.step, !.codes = {serial + 1}]
    [] r.op = "disable" /\ r.pw = u.pw /\ (u.totp => Factor(u, r.code)) -> ClearTOTP(u)
    [] r.op = "recovery" /\ u.totp /\ r.pw = u.pw /\ Factor(u, r.code)
         -> [Consumed(u, r.code) EXCEPT !.codes = {serial + 1}]
    [] r.op = "password" /\ r.pw = u.pw -> [u EXCEPT !.pw = serial + 1]
    [] r.op = "profile" -> u
    [] r.op = "key" /\ r.pw = u.pw /\ u.totp /\ Factor(u, r.code) -> Consumed(u, r.code)
    [] r.op = "key" /\ r.pw = u.pw /\ ~u.totp -> u
    [] OTHER -> None
WriteOf(r, u) == IF r.op \in {"password", "profile"} THEN "write"
                 ELSE IF r.op = "key" /\ ~u.totp THEN "key" ELSE "cas"
LoadUser(r) ==
  /\ r.pc = "user"
  /\ IF account = None THEN Ends(r)
     ELSE IF ~account.on \/ Edited(r, account) = None THEN Ends(r)
     ELSE Goes(r, [op |-> r.op, pc |-> WriteOf(r, account), code |-> r.code,
                   was |-> account, u |-> Edited(r, account)])
  /\ serial' = serial + 1
  /\ UNCHANGED <<account, initialized, challenges, sessions, apikeys, totpNow, spent, logins, accleft>>

(* The factor a successful write has accepted *)
Accepts(r) == \/ r.op = "enable" \/ (r.was.totp /\ r.op \in {"login2fa", "disable", "recovery", "key"})
AfterCas(r) ==
  CASE r.op = "login2fa" -> {[op |-> "login", pc |-> "finish", u |-> r.u, chal |-> r.chal]}
    [] r.op \in {"enable", "disable"} -> {[op |-> r.op, pc |-> "fresh", u |-> r.u]}
    [] r.op = "key" -> {[r EXCEPT !.pc = "key"]}
    [] OTHER -> {}
UpdateUserSecurity(r) ==
  /\ r.pc = "cas"
  /\ IF SecurityUnchanged(r.was)
     THEN /\ WriteRow(UpdatedSecurity(r.was, r.u))
          /\ spent' = IF Accepts(r) THEN Count(spent, r.code) ELSE spent
          /\ requests' = (requests \ {r}) \cup AfterCas(r)
     ELSE Ends(r) /\ UNCHANGED <<account, apikeys, spent>>
  /\ UNCHANGED <<initialized, challenges, sessions, totpNow, serial, logins, accleft>>

(* twoFAEnable and twoFADisable read the row again for the new session. *)
FreshUser(r) ==
  /\ r.pc = "fresh"
  /\ IF account = None THEN Ends(r) ELSE Goes(r, [r EXCEPT !.pc = "session", !.u = account])
  /\ UNCHANGED <<account, initialized, challenges, sessions, apikeys, totpNow, serial, spent, logins, accleft>>

(* UpdateUser of a profile, a password, or an administrator's edit. *)
AfterWrite(r) ==
  CASE r.op = "profile" -> {}
    [] r.op = "admin" /\ r.clear = FALSE -> {}
    [] OTHER -> {[op |-> r.op, pc |-> "clear", u |-> r.u]}
UpdateUser(r) ==
  /\ r.pc = "write"
  /\ IF UserUnchanged(r.was)
     THEN WriteRow(UpdatedUser(r.u)) /\ requests' = (requests \ {r}) \cup AfterWrite(r)
     ELSE Ends(r) /\ UNCHANGED <<account, apikeys>>
  /\ UNCHANGED <<initialized, challenges, sessions, totpNow, serial, spent, logins, accleft>>

DeleteUserSessions(r) ==
  /\ r.pc \in {"clear", "before"} /\ sessions' = {}
  /\ IF r.op = "password" THEN Goes(r, [r EXCEPT !.pc = "own"])
     ELSE IF r.pc = "before" THEN Goes(r, r.then) ELSE Ends(r)
  /\ UNCHANGED <<account, initialized, challenges, apikeys, totpNow, serial, spent, logins, accleft>>

(* changePassword keeps its own session: for whoever is enabled. *)
KeepSession(r) ==
  /\ r.pc = "own" /\ Ends(r)
  /\ IF account # None /\ account.on THEN NewSession(r.u, "password") ELSE UNCHANGED sessions
  /\ UNCHANGED <<account, initialized, challenges, apikeys, totpNow, serial, spent, logins, accleft>>

(* CreateAPIKey: the authorised version and the limit in one statement. *)
ActiveKeys == {k \in apikeys : ~k.revoked /\ k.ver = account.ver /\ ~k.expired}
CreateAPIKey(r) ==
  /\ r.pc = "key" /\ Ends(r) /\ serial' = serial + 1
  /\ apikeys' = IF /\ account # None /\ account.on /\ account.ver = r.u.ver
                   /\ Cardinality(ActiveKeys) < MaxActiveAPIKeys
                THEN apikeys \cup {[id |-> serial + 1, ver |-> account.ver, revoked |-> FALSE, expired |-> FALSE,
                                    pw |-> r.u.pw, totp |-> r.u.totp]}
                ELSE apikeys
  /\ UNCHANGED <<account, initialized, challenges, sessions, totpNow, spent, logins, accleft>>

(* RevokeAPIKey, or the key expires *)
EndAPIKey ==
  /\ AccUse("tick")
  /\ \E k \in apikeys, f \in {"revoked", "expired"} :
       ~k[f] /\ apikeys' = (apikeys \ {k}) \cup {[k EXCEPT ![f] = TRUE]}
  /\ UNCHANGED <<account, initialized, challenges, sessions, requests, totpNow, serial, spent, logins>>

Logout ==
  /\ AccUse("tick")
  /\ \E s \in sessions : SessionUsable(s) /\ sessions' = sessions \ {s}
  /\ UNCHANGED <<account, initialized, challenges, apikeys, requests, totpNow, serial, spent, logins>>
-----------------------------------------------------------------------------
(* Another administrator: updateUser and twoFAReset read the row first; a new
   password ends the sessions before the row is written, a new role, state or
   factor after it. *)
AdminWrite(u, clear) == [op |-> "admin", pc |-> "write", was |-> account, u |-> u, clear |-> clear]
AdminEdits ==
  {[op |-> "admin", pc |-> "before", u |-> account,
    then |-> AdminWrite([account EXCEPT !.pw = serial + 1], FALSE)],
   AdminWrite([account EXCEPT !.on = ~@], TRUE),
   AdminWrite([account EXCEPT !.role = "user"], TRUE),
   AdminWrite(ClearTOTP(account), TRUE)}
AdminEdit ==
  /\ AccUse("edit") /\ account # None
  /\ \E r \in AdminEdits : requests' = requests \cup {r}
  /\ serial' = serial + 1
  /\ UNCHANGED <<account, initialized, challenges, sessions, apikeys, totpNow, spent, logins>>

(* deleteUser: sessions and keys go with the row. *)
DeleteUser ==
  /\ AccUse("edit") /\ account # None
  /\ account' = None /\ sessions' = {} /\ apikeys' = {}
  /\ UNCHANGED <<initialized, challenges, requests, totpNow, serial, spent, logins>>

AccessNext ==
  \/ Setup \/ Login \/ Login2FA \/ SelfRequest \/ AdminEdit \/ DeleteUser
  \/ Tick \/ ChallengeExpires \/ EndAPIKey \/ Logout
  \/ \E r \in requests :
       \/ CreateInitialAdmin(r) \/ Load2FA(r) \/ Drop(r) \/ FinishLogin(r) \/ StartSession(r)
       \/ LoadUser(r) \/ UpdateUserSecurity(r) \/ FreshUser(r) \/ UpdateUser(r)
       \/ DeleteUserSessions(r) \/ KeepSession(r) \/ CreateAPIKey(r)
-----------------------------------------------------------------------------
(* Rows of users; None is not one of them. *)
UserRows == [pw : Nat, on : BOOLEAN, role : {"admin", "user"}, totp : BOOLEAN, secret : Nat, last : Nat,
             codes : SUBSET Nat, ver : Nat, upd : Nat]
ASSUME AccessAssumption == None \notin UserRows /\ MaxActiveAPIKeys \in Nat

(* A code of the second factor is accepted once, however many requests carry
   it at the same time, and a challenge leads to one sign-in. *)
FactorOnce == /\ \A f \in DOMAIN spent : spent[f] = 1
              /\ \A c \in DOMAIN logins : logins[c] = 1

(* A session that signing in opened, and an API key, work only while the
   account has the password and the second factor it was opened under - also
   when these change between the check and the insert. *)
IssuedForThis(x) == x.pw = account.pw /\ x.totp = account.totp
NothingOutlives ==
  /\ \A s \in sessions : SessionUsable(s) /\ s.by = "login" => IssuedForThis(s)
  /\ \A k \in apikeys : KeyUsable(k) => IssuedForThis(k)

(* Concurrent requests never open more keys than the limit, and an account
   with a second factor always has the secret for it: no request loses what
   another wrote. *)
AccountWhole ==
  account # None =>
    /\ Cardinality(ActiveKeys) <= MaxActiveAPIKeys
    /\ account.totp => account.secret > 0

AccessSafe == FactorOnce /\ NothingOutlives /\ AccountWhole
=============================================================================
