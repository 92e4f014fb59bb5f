------------------------------ MODULE AppSessions ------------------------------
(***************************************************************************)
(* How clients get and keep an app session: the browser login through the  *)
(* identity provider, the password login and its first-time setup, and     *)
(* `sessions.json` with its single-use refresh tokens.                     *)
(*                                                                         *)
(* Tokens are random, so the n-th session (login state) is the number n.   *)
(* A call goes through the stages at which it waits or at which the server *)
(* may die; `sessionLock` and `passwordLock` are the mutexes of the two    *)
(* stores, and `copy` is what the lock's holder read of sessions.json.     *)
(***************************************************************************)
EXTENDS Naturals, FiniteSets

CONSTANTS
  Callers,      \* requests that may be under way at the same time
  Users,        \* the users somebody may log in as
  Modes,        \* the ways to log in: a subset of {"oidc", "password"}
  Passwords,    \* what may be chosen as the password
  NoPassword,   \* no password is set
  Nobody,       \* the lock is free
  AccessTTL,    \* how long an access token is valid
  RefreshTTL,   \* how long a refresh token is valid
  LoginTTL,     \* how long a browser login may take
  MaxSessions,  \* how many sessions are kept
  MaxPending,   \* how many browser logins may be pending
  MaxIssued,    \* bound: sessions issued
  MaxLogins,    \* bound: browser logins begun
  MaxTime,      \* bound: the clock
  MaxCrashes    \* bound: restarts of the server

ASSUME SessionAssumption ==
  /\ NoPassword \notin Passwords /\ Nobody \notin Callers
  /\ AccessTTL \in Nat /\ RefreshTTL \in Nat \ {0} /\ LoginTTL \in Nat
  /\ MaxSessions \in Nat \ {0} /\ MaxPending \in Nat
  /\ MaxIssued \in Nat /\ MaxLogins \in Nat
  /\ MaxTime \in Nat /\ MaxCrashes \in Nat

VARIABLES
  now,           \* the clock
  crashes,       \* restarts so far
  mode,          \* how this server lets users log in
  password,      \* password.json
  passwordLock,  \* PasswordAuth.lock
  pending,       \* OidcLoginStore.pending: the login states not yet taken
  begunAt,       \* when each login state was created
  begun,         \* login states created
  sessions,      \* sessions.json: the sessions that are stored
  sessionLock,   \* AppSessionStore.lock
  record,        \* what was stored of each session
  issued,        \* sessions issued
  call           \* the stage of each request

loginVars   == <<mode, password, passwordLock, pending, begunAt, begun>>
storeVars   == <<sessions, sessionLock, record, issued>>
sessionVars == <<now, crashes, loginVars, storeVars, call>>

States   == 1..MaxLogins
Ids      == 1..MaxIssued
Time     == 0..MaxTime
Stages   == {"idle", "exchange", "setup", "issue", "issuing", "authorize"}
Sources  == {"login", "state", "refresh"}

(* What led to a session: a login state, the session whose refresh token   *)
(* was used, or the password or a token of the provider (0).               *)
NoRecord == [user |-> "none", at |-> 0, via |-> "login", from |-> 0]
Idle     == [at |-> "idle", user |-> "none", via |-> "login", from |-> 0,
             chosen |-> NoPassword, copy |-> {}]

LoginExpired(s)   == now >= begunAt[s] + LoginTTL
AccessExpired(i)  == record[i].at + AccessTTL <= now
RefreshExpired(i) == record[i].at + RefreshTTL <= now

(* verify_access_token, read without the lock.                             *)
AccessValid(i) ==
  /\ i \in sessions
  /\ ~AccessExpired(i)
  /\ mode = "password" => password # NoPassword

Unlocked(lock, c) == IF lock = c THEN Nobody ELSE lock

(* A request ends: its guards are dropped.                                 *)
Ends(c) ==
  /\ call' = [call EXCEPT ![c] = Idle]
  /\ passwordLock' = Unlocked(passwordLock, c)
  /\ sessionLock' = Unlocked(sessionLock, c)

-----------------------------------------------------------------------------
(***************************************************************************)
(* Browser login: begin remembers a state, unless too many are pending;    *)
(* the callback takes it, whatever comes of the rest.                      *)
(***************************************************************************)
Retained == {s \in pending : ~LoginExpired(s)}

BeginLogin ==
  /\ mode = "oidc"
  /\ begun < MaxLogins
  /\ Cardinality(Retained) < MaxPending
  /\ begun' = begun + 1
  /\ begunAt' = [begunAt EXCEPT ![begun + 1] = now]
  /\ pending' = Retained \cup {begun + 1}
  /\ UNCHANGED <<now, crashes, mode, password, passwordLock, storeVars, call>>

BeginRefused ==
  /\ mode = "oidc"
  /\ Cardinality(Retained) >= MaxPending
  /\ pending' = Retained
  /\ UNCHANGED <<now, crashes, mode, password, passwordLock, begunAt, begun,
                 storeVars, call>>

Callback(c, s) ==
  /\ call[c].at = "idle"
  /\ s \in pending
  /\ pending' = pending \ {s}
  /\ call' = [call EXCEPT ![c] = IF LoginExpired(s) THEN Idle
                ELSE [Idle EXCEPT !.at = "exchange", !.via = "state", !.from = s]]
  /\ UNCHANGED <<now, crashes, mode, password, passwordLock, begunAt, begun, storeVars>>

(* The plugin comes with a token of the provider.                          *)
OidcLogin(c) ==
  /\ mode = "oidc"
  /\ call[c].at = "idle"
  /\ call' = [call EXCEPT ![c].at = "exchange"]
  /\ UNCHANGED <<now, crashes, loginVars, storeVars>>

(* The provider's token names the user.                                    *)
Exchanged(c) ==
  /\ call[c].at = "exchange"
  /\ \E u \in Users : call' = [call EXCEPT ![c].at = "issue", ![c].user = u]
  /\ UNCHANGED <<now, crashes, loginVars, storeVars>>

(***************************************************************************)
(* Password login.  The password's lock is held until the session is       *)
(* issued; the first login sets the password.                              *)
(***************************************************************************)

(* Mutant: the check for a password is made before the lock is taken.      *)
SetupUnlocked(c, p) ==
  /\ mode = "password"
  /\ call[c].at = "idle"
  /\ password = NoPassword
  /\ passwordLock' = c
  /\ call' = [call EXCEPT ![c] = [Idle EXCEPT !.at = "setup", !.chosen = p]]
  /\ UNCHANGED <<now, crashes, mode, password, pending, begunAt, begun, storeVars>>

Setup(c, p) ==
  /\ mode = "password"
  /\ call[c].at = "idle"
  /\ passwordLock = Nobody
  /\ password = NoPassword
  /\ passwordLock' = c
  /\ call' = [call EXCEPT ![c] = [Idle EXCEPT !.at = "setup", !.chosen = p]]
  /\ UNCHANGED <<now, crashes, mode, password, pending, begunAt, begun, storeVars>>

SetupWrite(c) ==
  /\ call[c].at = "setup"
  /\ password' = call[c].chosen
  /\ \E u \in Users : call' = [call EXCEPT ![c].at = "issue", ![c].user = u]
  /\ UNCHANGED <<now, crashes, mode, passwordLock, pending, begunAt, begun, storeVars>>

PasswordLogin(c) ==
  /\ mode = "password"
  /\ call[c].at = "idle"
  /\ passwordLock = Nobody
  /\ password # NoPassword
  /\ passwordLock' = c
  /\ \E u \in Users :
       call' = [call EXCEPT ![c] = [Idle EXCEPT !.at = "issue", !.user = u]]
  /\ UNCHANGED <<now, crashes, mode, password, pending, begunAt, begun, storeVars>>

-----------------------------------------------------------------------------
(***************************************************************************)
(* The session store.  A write prunes what can no longer be refreshed and  *)
(* keeps the newest `MaxSessions`.                                         *)
(***************************************************************************)

Pruned(ids) ==
  LET live == {i \in ids : ~RefreshExpired(i)} \cup {issued + 1}
  IN {i \in live : Cardinality({j \in live : j > i}) < MaxSessions}

(* The session is appended to the holder's copy and the copy is written.   *)
Write(c) ==
  /\ sessions' = Pruned(call[c].copy)
  /\ issued' = issued + 1
  /\ record' = [record EXCEPT ![issued + 1] =
       [user |-> call[c].user, at |-> now, via |-> call[c].via, from |-> call[c].from]]
  /\ Ends(c)
  /\ UNCHANGED <<now, crashes, mode, password, pending, begunAt, begun>>

(* Mutant: the store is read without the lock.                             *)
IssueReadUnlocked(c) ==
  /\ call[c].at = "issue"
  /\ issued < MaxIssued
  /\ sessionLock' = c
  /\ call' = [call EXCEPT ![c].at = "issuing", ![c].copy = sessions]
  /\ UNCHANGED <<now, crashes, loginVars, sessions, record, issued>>

IssueRead(c) ==
  /\ call[c].at = "issue"
  /\ sessionLock = Nobody
  /\ issued < MaxIssued
  /\ sessionLock' = c
  /\ call' = [call EXCEPT ![c].at = "issuing", ![c].copy = sessions]
  /\ UNCHANGED <<now, crashes, loginVars, sessions, record, issued>>

IssueWrite(c) == call[c].at = "issuing" /\ Write(c)

(* Mutant: the refreshed session stays in the store.                       *)
RefreshKeepsToken(c, i) ==
  /\ call[c].at = "idle"
  /\ sessionLock = Nobody
  /\ i \in sessions /\ ~RefreshExpired(i)
  /\ issued < MaxIssued
  /\ sessionLock' = c
  /\ call' = [call EXCEPT ![c] = [Idle EXCEPT !.at = "authorize", !.via = "refresh",
                !.from = i, !.user = record[i].user, !.copy = sessions]]
  /\ UNCHANGED <<now, crashes, loginVars, sessions, record, issued>>

(* A refresh token is removed, and the store written, before the provider  *)
(* is asked whether its user is still active.                              *)
RefreshTake(c, i) ==
  /\ call[c].at = "idle"
  /\ sessionLock = Nobody
  /\ i \in sessions /\ ~RefreshExpired(i)
  /\ issued < MaxIssued
  /\ sessionLock' = c
  /\ sessions' = sessions \ {i}
  /\ call' = [call EXCEPT ![c] = [Idle EXCEPT !.at = "authorize", !.via = "refresh",
                !.from = i, !.user = record[i].user, !.copy = sessions \ {i}]]
  /\ UNCHANGED <<now, crashes, loginVars, record, issued>>

RefreshTooLate(c, i) ==
  /\ call[c].at = "idle"
  /\ sessionLock = Nobody
  /\ i \in sessions /\ RefreshExpired(i)
  /\ sessions' = sessions \ {i}
  /\ UNCHANGED <<now, crashes, loginVars, sessionLock, record, issued, call>>

RefreshIssue(c) == call[c].at = "authorize" /\ Write(c)

(* The provider refuses, a request to it or a write of a store fails.      *)
CallFails(c) ==
  /\ call[c].at # "idle"
  /\ Ends(c)
  /\ UNCHANGED <<now, crashes, mode, password, pending, begunAt, begun, sessions,
                 record, issued>>

-----------------------------------------------------------------------------
SessionInit ==
  /\ now = 0 /\ crashes = 0
  /\ mode \in Modes
  /\ password = NoPassword /\ passwordLock = Nobody
  /\ pending = {} /\ begun = 0 /\ begunAt = [s \in States |-> 0]
  /\ sessions = {} /\ sessionLock = Nobody
  /\ record = [i \in Ids |-> NoRecord] /\ issued = 0
  /\ call = [c \in Callers |-> Idle]

SessionCall(c) ==
  \/ \E s \in States : Callback(c, s)
  \/ OidcLogin(c) \/ Exchanged(c)
  \/ \E p \in Passwords : Setup(c, p)
  \/ SetupWrite(c) \/ PasswordLogin(c)
  \/ IssueRead(c) \/ IssueWrite(c)
  \/ \E i \in Ids : RefreshTake(c, i) \/ RefreshTooLate(c, i)
  \/ RefreshIssue(c)
  \/ CallFails(c)

SessionStep == BeginLogin \/ BeginRefused \/ \E c \in Callers : SessionCall(c)

(* What every restart and every tick does to this part of the server.      *)
SessionTick ==
  /\ now < MaxTime
  /\ now' = now + 1
  /\ UNCHANGED <<crashes, loginVars, storeVars, call>>

(* The files stay; requests, locks and pending logins are gone.            *)
SessionCrash ==
  /\ crashes < MaxCrashes
  /\ crashes' = crashes + 1
  /\ call' = [c \in Callers |-> Idle]
  /\ passwordLock' = Nobody /\ sessionLock' = Nobody
  /\ pending' = {}
  /\ UNCHANGED <<now, mode, password, begunAt, begun, sessions, record, issued>>

SessionNext == SessionStep \/ SessionTick \/ SessionCrash

SessionSpec == SessionInit /\ [][SessionNext]_sessionVars

Records == [user : Users \cup {"none"}, at : Time, via : Sources, from : Nat]
Calls   == [at : Stages, user : Users \cup {"none"}, via : Sources, from : Nat,
            chosen : Passwords \cup {NoPassword}, copy : SUBSET Ids]

SessionTypeOK ==
  /\ now \in Time /\ crashes \in 0..MaxCrashes
  /\ mode \in Modes
  /\ password \in Passwords \cup {NoPassword}
  /\ passwordLock \in Callers \cup {Nobody} /\ sessionLock \in Callers \cup {Nobody}
  /\ pending \in SUBSET States /\ begun \in 0..MaxLogins /\ begunAt \in [States -> Time]
  /\ sessions \in SUBSET Ids /\ issued \in 0..MaxIssued /\ record \in [Ids -> Records]
  /\ call \in [Callers -> Calls]

(***************************************************************************)
(* A refresh token and a login state are good for one session, whatever    *)
(* requests run at the same time, fail half way or are repeated after a    *)
(* restart.                                                                *)
(***************************************************************************)
TokensSingleUse ==
  \A i, j \in 1..issued :
    /\ i # j
    /\ record[i].via # "login"
    /\ record[i].via = record[j].via
    => record[i].from # record[j].from

(***************************************************************************)
(* Requests that write sessions.json at the same time do not undo each     *)
(* other: a session that was issued leaves the file only when its own      *)
(* refresh token is used or expired, or when `MaxSessions` newer ones are  *)
(* in the file; and none that left it comes back.                          *)
(***************************************************************************)
TakenBy(c, i) == call'[c].at = "authorize" /\ call'[c].from = i

SessionsNotLost ==
  [][/\ \A i \in sessions \ sessions' :
          \/ \E c \in Callers : TakenBy(c, i)
          \/ RefreshExpired(i)
          \/ Cardinality({j \in sessions' : j > i}) >= MaxSessions
     /\ sessions' \ sessions \subseteq {issued + 1}]_sessionVars

(***************************************************************************)
(* Two first-time setups at once, or a restart between setting the         *)
(* password and answering, leave one password, and nothing replaces it.    *)
(***************************************************************************)
FirstPasswordStays ==
  [][password # NoPassword => password' = password]_sessionVars
=============================================================================
