--------------------------- MODULE AppSessionsProofs ---------------------------
(***************************************************************************)
(* Refresh tokens and login states are good for one session, no session is *)
(* lost to other requests, and the first password stays, for any number of *)
(* requests, users, sessions and restarts.                                 *)
(***************************************************************************)
EXTENDS AppSessions, FiniteSetTheorems, WellFoundedInduction, TLAPS

(* The requests that hold AppSessionStore.lock.                            *)
Holds(c) == call[c].at \in {"issuing", "authorize"}

(* The lock is held by one request, whose copy is what the file holds (and *)
(* the bound on sessions was looked at).                                   *)
StoreLocked ==
  \A c \in Callers :
    /\ Holds(c) => sessionLock = c
    /\ Holds(c) => call[c].copy = sessions /\ issued < MaxIssued

(* The password's lock is held while it is set up.                         *)
SetupLocked ==
  \A c \in Callers :
    call[c].at = "setup" => /\ passwordLock = c
                            /\ password = NoPassword
                            /\ call[c].chosen \in Passwords

(* A request that was started by a token, and a session made from one.     *)
UsedBy(c, via, f) == call[c].via = via /\ call[c].from = f
UsedFor(i, via, f) == record[i].via = via /\ record[i].from = f

(* A token that may still be used has not been.                            *)
UnusedStates ==
  \A s \in pending :
    /\ s \in 1..begun
    /\ \A c \in Callers : ~UsedBy(c, "state", s)
    /\ \A i \in 1..issued : ~UsedFor(i, "state", s)

UnusedTokens ==
  \A s \in sessions :
    /\ s \in 1..issued
    /\ \A c \in Callers : ~UsedBy(c, "refresh", s)
    /\ \A i \in 1..issued : ~UsedFor(i, "refresh", s)

(* Tokens in use are old ones, and no two requests use the same.           *)
UsedTokensExist ==
  /\ \A c \in Callers : /\ call[c].via = "state" => call[c].from \in 1..begun
                        /\ call[c].via = "refresh" => call[c].from \in 1..issued
                        /\ call[c].at = "idle" => call[c].via = "login"
  /\ \A i \in 1..issued : /\ record[i].via = "state" => record[i].from \in 1..begun
                          /\ record[i].via = "refresh" => record[i].from \in 1..issued

UsedOnce ==
  /\ \A c, d \in Callers :
       c # d /\ call[c].via # "login" /\ call[c].via = call[d].via
       => call[c].from # call[d].from
  /\ \A c \in Callers, i \in 1..issued :
       call[c].via # "login" => ~UsedFor(i, call[c].via, call[c].from)

TokenInv ==
  UnusedStates /\ UnusedTokens /\ UsedTokensExist /\ UsedOnce /\ TokensSingleUse

SessionInv == SessionTypeOK /\ StoreLocked /\ SetupLocked /\ TokenInv

LEMMA Initially == SessionInit => SessionInv
<1> SUFFICES ASSUME SessionInit PROVE SessionInv
  OBVIOUS
<1>1. SessionTypeOK
  BY SessionAssumption
     DEF SessionInit, SessionTypeOK, Time, States, Ids, Records, NoRecord, Calls, Idle,
         Sources, Stages
<1>2. \A c \in Callers : call[c] = Idle
  BY DEF SessionInit
<1> QED
  BY <1>1, <1>2, SessionAssumption
     DEF SessionInit, SessionInv, TokenInv, StoreLocked, Holds, SetupLocked, UnusedStates,
         UnusedTokens, UsedTokensExist, UsedOnce, UsedBy, UsedFor, TokensSingleUse, Idle

-----------------------------------------------------------------------------
(* What the parts of an action do to the types.                            *)
LEMMA EndsType ==
  ASSUME SessionTypeOK, NEW c \in Callers, Ends(c)
  PROVE  /\ call' \in [Callers -> Calls]
         /\ passwordLock' \in Callers \cup {Nobody}
         /\ sessionLock' \in Callers \cup {Nobody}
BY SessionAssumption
   DEF SessionTypeOK, Ends, Unlocked, Idle, Calls, Stages, Sources

LEMMA WriteType ==
  ASSUME SessionInv, NEW c \in Callers, Holds(c), Write(c)
  PROVE  SessionTypeOK'
<1>1. issued + 1 \in Ids /\ issued' \in 0..MaxIssued
  BY SessionAssumption DEF SessionInv, StoreLocked, SessionTypeOK, Write, Ids
<1>2. call[c] \in Calls
  BY DEF SessionInv, SessionTypeOK
<1>3. Pruned(call[c].copy) \subseteq Ids
  BY <1>1, <1>2 DEF Pruned, Calls
<1>4. record' \in [Ids -> Records]
  <2>1. [user |-> call[c].user, at |-> now, via |-> call[c].via, from |-> call[c].from]
          \in Records
    BY <1>2 DEF Calls, Records, SessionInv, SessionTypeOK
  <2> QED
    BY <2>1, <1>1 DEF Write, SessionInv, SessionTypeOK
<1> QED
  BY <1>1, <1>3, <1>4, EndsType DEF Write, SessionInv, SessionTypeOK

LEMMA CallType ==
  ASSUME SessionInv, NEW c \in Callers, SessionCall(c)
  PROVE  SessionTypeOK'
<1> USE SessionAssumption DEF SessionInv
<1>0. call[c] \in Calls /\ Idle \in Calls
  BY DEF SessionTypeOK, Idle, Calls, Stages, Sources
<1>1. ASSUME NEW s \in States, Callback(c, s) PROVE SessionTypeOK'
  <2>0. s \in Nat
    BY DEF States
  <2>1. [Idle EXCEPT !.at = "exchange", !.via = "state", !.from = s] \in Calls
    BY <1>0, <2>0 DEF Calls, Stages, Sources
  <2> QED
    BY <1>0, <1>1, <2>1 DEF Callback, SessionTypeOK, storeVars
<1>2. CASE OidcLogin(c)
  <2>1. [call[c] EXCEPT !.at = "exchange"] \in Calls
    BY <1>0 DEF Calls, Stages
  <2> QED
    BY <1>2, <2>1 DEF OidcLogin, SessionTypeOK, loginVars, storeVars
<1>3. CASE Exchanged(c)
  <2>1. \A u \in Users : [call[c] EXCEPT !.at = "issue", !.user = u] \in Calls
    BY <1>0 DEF Calls, Stages
  <2>2. PICK u \in Users : call' = [call EXCEPT ![c] = [call[c] EXCEPT !.at = "issue", !.user = u]]
    BY <1>3 DEF Exchanged, SessionTypeOK
  <2> QED
    BY <1>3, <2>1, <2>2 DEF Exchanged, SessionTypeOK, loginVars, storeVars
<1>4. ASSUME NEW p \in Passwords, Setup(c, p) PROVE SessionTypeOK'
  <2>1. [Idle EXCEPT !.at = "setup", !.chosen = p] \in Calls
    BY DEF Idle, Calls, Stages, Sources
  <2> QED
    BY <1>4, <2>1 DEF Setup, SessionTypeOK, storeVars
<1>5. CASE SetupWrite(c)
  <2>1. /\ \A u \in Users : [call[c] EXCEPT !.at = "issue", !.user = u] \in Calls
        /\ call[c].chosen \in Passwords \cup {NoPassword}
    BY <1>0 DEF Calls, Stages
  <2>2. PICK u \in Users : call' = [call EXCEPT ![c] = [call[c] EXCEPT !.at = "issue", !.user = u]]
    BY <1>5 DEF SetupWrite, SessionTypeOK
  <2> QED
    BY <1>5, <2>1, <2>2 DEF SetupWrite, SessionTypeOK, storeVars
<1>6. CASE PasswordLogin(c)
  <2>1. \A u \in Users : [Idle EXCEPT !.at = "issue", !.user = u] \in Calls
    BY DEF Idle, Calls, Stages, Sources
  <2>2. PICK u \in Users : call' = [call EXCEPT ![c] = [Idle EXCEPT !.at = "issue", !.user = u]]
    BY <1>6 DEF PasswordLogin
  <2> QED
    BY <1>6, <2>1, <2>2 DEF PasswordLogin, SessionTypeOK, storeVars
<1>7. CASE IssueRead(c)
  <2>1. [call[c] EXCEPT !.at = "issuing", !.copy = sessions] \in Calls
    BY <1>0 DEF Calls, Stages, SessionTypeOK
  <2>2. call' = [call EXCEPT ![c] = [call[c] EXCEPT !.at = "issuing", !.copy = sessions]]
    BY <1>7 DEF IssueRead, SessionTypeOK
  <2> QED
    BY <1>7, <2>1, <2>2 DEF IssueRead, SessionTypeOK, loginVars
<1>8. CASE IssueWrite(c) \/ RefreshIssue(c)
  BY <1>8, WriteType DEF IssueWrite, RefreshIssue, Holds
<1>9. ASSUME NEW i \in Ids, RefreshTake(c, i) PROVE SessionTypeOK'
  <2>1. record[i].user \in Users \cup {"none"} /\ i \in Nat
    BY DEF SessionTypeOK, Records, Ids
  <2>2. [Idle EXCEPT !.at = "authorize", !.via = "refresh", !.from = i,
                     !.user = record[i].user, !.copy = sessions \ {i}] \in Calls
    BY <2>1 DEF SessionTypeOK, Calls, Stages, Sources, Idle
  <2> QED
    BY <1>9, <2>2 DEF RefreshTake, SessionTypeOK, loginVars
<1>10. ASSUME NEW i \in Ids, RefreshTooLate(c, i) PROVE SessionTypeOK'
  BY <1>10 DEF RefreshTooLate, SessionTypeOK, loginVars
<1>11. CASE CallFails(c)
  BY <1>11, EndsType DEF CallFails, SessionTypeOK
<1> QED
  BY <1>1, <1>2, <1>3, <1>4, <1>5, <1>6, <1>7, <1>8, <1>9, <1>10, <1>11 DEF SessionCall

LEMMA StepType ==
  ASSUME SessionInv, SessionNext
  PROVE  SessionTypeOK'
<1> USE SessionAssumption DEF SessionInv
<1>1. CASE BeginLogin
  <2>1. begun + 1 \in States /\ now \in Time
    BY <1>1 DEF BeginLogin, SessionTypeOK, States
  <2>2. Retained \subseteq pending
    BY DEF Retained
  <2> QED
    BY <1>1, <2>1, <2>2 DEF BeginLogin, SessionTypeOK, States, storeVars
<1>2. CASE BeginRefused
  BY <1>2 DEF BeginRefused, Retained, SessionTypeOK, storeVars
<1>3. CASE \E c \in Callers : SessionCall(c)
  BY <1>3, CallType
<1>4. CASE SessionTick
  BY <1>4 DEF SessionTick, SessionTypeOK, Time, loginVars, storeVars
<1>5. CASE SessionCrash
  <2>1. Idle \in Calls
    BY DEF Idle, Calls, Stages, Sources
  <2> QED
    BY <1>5, <2>1 DEF SessionCrash, SessionTypeOK
<1> QED
  BY <1>1, <1>2, <1>3, <1>4, <1>5 DEF SessionNext, SessionStep

-----------------------------------------------------------------------------
(* The locks: what a step may do to them without taking one.               *)
LEMMA LockKept ==
  ASSUME SessionInv, SessionTypeOK',
         sessions' = sessions, issued' = issued,
         \A d \in Callers : Holds(d)' => /\ Holds(d) /\ call'[d].copy = call[d].copy
                                         /\ sessionLock = d => sessionLock' = d
  PROVE  StoreLocked'
BY DEF SessionInv, StoreLocked

LEMMA SetupKept ==
  ASSUME SessionInv, SessionTypeOK',
         password' = password,
         \A d \in Callers : call'[d].at = "setup"
            => /\ call[d].at = "setup" /\ call'[d].chosen = call[d].chosen
               /\ passwordLock = d => passwordLock' = d
  PROVE  SetupLocked'
BY DEF SessionInv, SetupLocked

LEMMA CallLocks ==
  ASSUME SessionInv, SessionTypeOK', NEW c \in Callers, SessionCall(c)
  PROVE  StoreLocked' /\ SetupLocked'
<1> USE SessionAssumption
<1>0. /\ call \in [Callers -> Calls] /\ SessionTypeOK
      /\ Idle.at = "idle" /\ Idle.copy = {}
  BY DEF SessionInv, SessionTypeOK, Idle
<1>f. sessionLock = Nobody => \A d \in Callers : ~Holds(d)
  BY DEF SessionInv, StoreLocked
<1>g. passwordLock = Nobody => \A d \in Callers : call[d].at # "setup"
  BY DEF SessionInv, SetupLocked
<1>1. ASSUME NEW s \in States, Callback(c, s) PROVE StoreLocked' /\ SetupLocked'
  <2>1. /\ call'[c].at \in {"idle", "exchange"}
        /\ \A d \in Callers \ {c} : call'[d] = call[d]
    BY <1>0, <1>1 DEF Callback, Calls, Idle
  <2> QED
    BY <1>0, <1>1, <2>1, LockKept, SetupKept DEF Callback, Holds, storeVars
<1>2. CASE OidcLogin(c)
  <2>1. /\ call'[c].at = "exchange"
        /\ \A d \in Callers \ {c} : call'[d] = call[d]
    BY <1>0, <1>2 DEF OidcLogin, Calls
  <2> QED
    BY <1>0, <1>2, <2>1, LockKept, SetupKept DEF OidcLogin, Holds, storeVars, loginVars
<1>3. CASE Exchanged(c)
  <2>1. /\ call'[c].at = "issue"
        /\ \A d \in Callers \ {c} : call'[d] = call[d]
    BY <1>0, <1>3 DEF Exchanged, Calls
  <2> QED
    BY <1>0, <1>3, <2>1, LockKept, SetupKept DEF Exchanged, Holds, storeVars, loginVars
<1>4. ASSUME NEW p \in Passwords, Setup(c, p) PROVE StoreLocked' /\ SetupLocked'
  <2>1. /\ call'[c].at = "setup" /\ call'[c].chosen = p
        /\ \A d \in Callers \ {c} : call'[d] = call[d]
    BY <1>0, <1>4 DEF Setup, Calls, Idle
  <2>2. StoreLocked'
    BY <1>0, <1>4, <2>1, LockKept DEF Setup, Holds, storeVars
  <2>3. SetupLocked'
    BY <1>4, <1>g, <2>1 DEF Setup, SetupLocked
  <2> QED
    BY <2>2, <2>3
<1>5. CASE SetupWrite(c)
  <2>1. /\ call'[c].at = "issue"
        /\ \A d \in Callers \ {c} : call'[d] = call[d]
    BY <1>0, <1>5 DEF SetupWrite, Calls
  <2>2. StoreLocked'
    BY <1>0, <1>5, <2>1, LockKept DEF SetupWrite, Holds, storeVars
  <2>3. \A d \in Callers \ {c} : call[d].at # "setup"
    BY <1>5 DEF SetupWrite, SessionInv, SetupLocked
  <2> QED
    BY <2>1, <2>2, <2>3 DEF SetupLocked
<1>6. CASE PasswordLogin(c)
  <2>1. /\ call'[c].at = "issue"
        /\ \A d \in Callers \ {c} : call'[d] = call[d]
    BY <1>0, <1>6 DEF PasswordLogin, Calls, Idle
  <2> QED
    BY <1>0, <1>6, <1>g, <2>1, LockKept, SetupKept DEF PasswordLogin, Holds, storeVars
<1>7. CASE IssueRead(c)
  <2>1. /\ call'[c].at = "issuing" /\ call'[c].copy = sessions
        /\ \A d \in Callers \ {c} : call'[d] = call[d]
    BY <1>0, <1>7 DEF IssueRead, Calls
  <2>2. StoreLocked'
    BY <1>7, <1>f, <2>1 DEF IssueRead, StoreLocked, Holds
  <2>3. SetupLocked'
    BY <1>7, <2>1, SetupKept DEF IssueRead, loginVars
  <2> QED
    BY <2>2, <2>3
<1>8. CASE IssueWrite(c) \/ RefreshIssue(c)
  <2>1. Holds(c) /\ Write(c)
    BY <1>8 DEF IssueWrite, RefreshIssue, Holds
  <2>2. /\ call'[c].at = "idle"
        /\ \A d \in Callers \ {c} : call'[d] = call[d] /\ (passwordLock = d => passwordLock' = d)
    BY <1>0, <2>1 DEF Write, Ends, Unlocked
  <2>3. \A d \in Callers : ~Holds(d)'
    BY <2>1, <2>2 DEF SessionInv, StoreLocked, Holds
  <2>4. SetupLocked'
    BY <2>1, <2>2, SetupKept DEF Write
  <2> QED
    BY <2>3, <2>4 DEF StoreLocked
<1>9. ASSUME NEW i \in Ids, RefreshTake(c, i) PROVE StoreLocked' /\ SetupLocked'
  <2>1. /\ call'[c].at = "authorize" /\ call'[c].copy = sessions'
        /\ \A d \in Callers \ {c} : call'[d] = call[d]
    BY <1>0, <1>9 DEF RefreshTake, Calls, Idle
  <2>2. StoreLocked'
    BY <1>9, <1>f, <2>1 DEF RefreshTake, StoreLocked, Holds
  <2>3. SetupLocked'
    BY <1>9, <2>1, SetupKept DEF RefreshTake, loginVars
  <2> QED
    BY <2>2, <2>3
<1>10. ASSUME NEW i \in Ids, RefreshTooLate(c, i) PROVE StoreLocked' /\ SetupLocked'
  <2>1. StoreLocked'
    BY <1>10, <1>f DEF RefreshTooLate, StoreLocked, Holds
  <2>2. SetupLocked'
    BY <1>10, SetupKept DEF RefreshTooLate, loginVars
  <2> QED
    BY <2>1, <2>2
<1>11. CASE CallFails(c)
  <2>1. /\ call'[c].at = "idle"
        /\ \A d \in Callers \ {c} :
             /\ call'[d] = call[d]
             /\ passwordLock = d => passwordLock' = d
             /\ sessionLock = d => sessionLock' = d
    BY <1>0, <1>11 DEF CallFails, Ends, Unlocked
  <2>2. StoreLocked'
    BY <1>0, <1>11, <2>1, LockKept DEF CallFails, Holds
  <2>3. SetupLocked'
    BY <1>0, <1>11, <2>1, SetupKept DEF CallFails
  <2> QED
    BY <2>2, <2>3
<1> QED
  BY <1>1, <1>2, <1>3, <1>4, <1>5, <1>6, <1>7, <1>8, <1>9, <1>10, <1>11 DEF SessionCall

LEMMA StepLocks ==
  ASSUME SessionInv, SessionTypeOK', SessionNext
  PROVE  StoreLocked' /\ SetupLocked'
<1>1. CASE BeginLogin \/ BeginRefused \/ SessionTick
  <2>1. UNCHANGED <<sessions, issued, call, sessionLock, password, passwordLock>>
    BY <1>1 DEF BeginLogin, BeginRefused, SessionTick, storeVars, loginVars
  <2> QED
    BY <2>1, LockKept, SetupKept DEF Holds
<1>2. CASE \E c \in Callers : SessionCall(c)
  BY <1>2, CallLocks
<1>3. CASE SessionCrash
  <2>1. \A c \in Callers : call'[c].at = "idle"
    BY <1>3 DEF SessionCrash, Idle
  <2> QED
    BY <2>1 DEF StoreLocked, SetupLocked, Holds
<1> QED
  BY <1>1, <1>2, <1>3 DEF SessionNext, SessionStep

-----------------------------------------------------------------------------
(* The tokens: steps that use none, and only let go of some.               *)
Quiet(c) == /\ \/ call'[c].via = "login"
               \/ call'[c].via = call[c].via /\ call'[c].from = call[c].from
            /\ call'[c].at = "idle" => call'[c].via = "login"

LEMMA TokensKept ==
  ASSUME SessionTypeOK, TokenInv,
         issued' = issued, record' = record, begun' = begun,
         pending' \subseteq pending, sessions' \subseteq sessions,
         \A c \in Callers : Quiet(c)
  PROVE  TokenInv'
<1>1. UnusedStates'
  BY DEF TokenInv, UnusedStates, UsedBy, UsedFor, Quiet
<1>2. UnusedTokens'
  BY DEF TokenInv, UnusedTokens, UsedBy, UsedFor, Quiet
<1>3. UsedTokensExist'
  BY DEF TokenInv, UsedTokensExist, Quiet
<1>4. UsedOnce'
  BY DEF TokenInv, UsedOnce, UsedFor, Quiet
<1>5. TokensSingleUse'
  BY DEF TokenInv, TokensSingleUse
<1> QED
  BY <1>1, <1>2, <1>3, <1>4, <1>5 DEF TokenInv

(* A request that takes a token nobody has used.                           *)
LEMMA TokenTaken ==
  ASSUME SessionTypeOK, TokenInv, NEW c \in Callers, NEW via \in {"state", "refresh"},
         NEW f \in Nat,
         issued' = issued, record' = record, begun' = begun,
         via = "state" => f \in 1..begun, via = "refresh" => f \in 1..issued,
         pending' \subseteq pending, sessions' \subseteq sessions,
         via = "state" => f \notin pending', via = "refresh" => f \notin sessions',
         \A d \in Callers : ~UsedBy(d, via, f),
         \A i \in 1..issued : ~UsedFor(i, via, f),
         call'[c].at # "idle", call'[c].via = via, call'[c].from = f,
         \A d \in Callers \ {c} : call'[d] = call[d]
  PROVE  TokenInv'
<1>1. UnusedStates'
  BY DEF TokenInv, UnusedStates, UsedBy, UsedFor
<1>2. UnusedTokens'
  BY DEF TokenInv, UnusedTokens, UsedBy, UsedFor
<1>3. UsedTokensExist'
  BY DEF TokenInv, UsedTokensExist
<1>4. UsedOnce'
  BY DEF TokenInv, UsedOnce, UsedFor, UsedBy
<1>5. TokensSingleUse'
  BY DEF TokenInv, TokensSingleUse
<1> QED
  BY <1>1, <1>2, <1>3, <1>4, <1>5 DEF TokenInv

(* A session is issued for what its request has used.                      *)
LEMMA TokenSpent ==
  ASSUME SessionInv, SessionTypeOK', NEW c \in Callers, Holds(c), Write(c)
  PROVE  TokenInv'
<1> USE SessionAssumption
<1>0. /\ issued \in Nat /\ issued' = issued + 1 /\ issued + 1 \in Ids
      /\ begun' = begun /\ pending' = pending /\ begun \in Nat
      /\ SessionTypeOK
  BY DEF SessionInv, StoreLocked, SessionTypeOK, Write, Ids
<1>1. /\ call'[c].via = "login" /\ call'[c].at = "idle"
      /\ \A d \in Callers \ {c} : call'[d] = call[d]
  BY <1>0 DEF SessionTypeOK, Write, Ends, Idle
<1>2. /\ \A i \in 1..issued : i \in Ids /\ record'[i] = record[i]
      /\ record'[issued + 1].via = call[c].via
      /\ record'[issued + 1].from = call[c].from
  BY <1>0 DEF SessionTypeOK, Write, Ids
<1>3. sessions' \subseteq sessions \cup {issued + 1}
  BY <1>0 DEF Write, Pruned, SessionInv, StoreLocked
<1>4. \A i \in 1..(issued + 1) : i \in 1..issued \/ i = issued + 1
  BY <1>0
<1>5. /\ call[c].via = "state" => call[c].from \in 1..begun
      /\ call[c].via = "refresh" => call[c].from \in 1..issued
  BY DEF SessionInv, TokenInv, UsedTokensExist
<1>6. UnusedStates'
  BY <1>0, <1>1, <1>2, <1>4 DEF SessionInv, TokenInv, UnusedStates, UsedBy, UsedFor
<1>7. UnusedTokens'
  <2> SUFFICES ASSUME NEW s \in sessions'
               PROVE  /\ s \in 1..issued'
                      /\ \A d \in Callers : ~UsedBy(d, "refresh", s)'
                      /\ \A i \in 1..issued' : ~UsedFor(i, "refresh", s)'
    BY DEF UnusedTokens
  <2>1. CASE s \in sessions
    <3>1. /\ s \in 1..issued
          /\ \A d \in Callers : ~UsedBy(d, "refresh", s)
          /\ \A i \in 1..issued : ~UsedFor(i, "refresh", s)
      BY <2>1 DEF SessionInv, TokenInv, UnusedTokens
    <3> QED
      BY <3>1, <1>0, <1>1, <1>2, <1>4 DEF UsedBy, UsedFor
  <2>2. CASE s = issued + 1
    <3>1. /\ \A d \in Callers : call[d].via = "refresh" => call[d].from # s
          /\ \A i \in 1..issued : record[i].via = "refresh" => record[i].from # s
      BY <2>2, <1>0 DEF SessionInv, TokenInv, UsedTokensExist
    <3> QED
      BY <3>1, <2>2, <1>0, <1>1, <1>2, <1>4 DEF UsedBy, UsedFor
  <2> QED
    BY <2>1, <2>2, <1>3
<1>8. UsedTokensExist'
  <2>1. \A i \in 1..issued : i \in 1..issued'
    BY <1>0
  <2> QED
    BY <2>1, <1>0, <1>1, <1>2, <1>4, <1>5 DEF SessionInv, TokenInv, UsedTokensExist
<1>9. UsedOnce'
  BY <1>0, <1>1, <1>2, <1>4 DEF SessionInv, TokenInv, UsedOnce, UsedFor
<1>10. TokensSingleUse'
  BY <1>0, <1>2, <1>4 DEF SessionInv, TokenInv, UsedOnce, UsedFor, TokensSingleUse
<1> QED
  BY <1>6, <1>7, <1>8, <1>9, <1>10 DEF TokenInv

LEMMA CallTokens ==
  ASSUME SessionInv, SessionTypeOK', NEW c \in Callers, SessionCall(c)
  PROVE  TokenInv'
<1> USE SessionAssumption
<1>0. /\ call \in [Callers -> Calls] /\ SessionTypeOK /\ TokenInv
      /\ Idle.at = "idle" /\ Idle.via = "login"
  BY DEF SessionInv, SessionTypeOK, Idle
<1>i. \A d \in Callers : call[d].at = "idle" => call[d].via = "login"
  BY <1>0 DEF TokenInv, UsedTokensExist
<1>1. ASSUME NEW s \in States, Callback(c, s) PROVE TokenInv'
  <2>0. /\ s \in 1..begun /\ s \in Nat /\ s \notin pending' /\ pending' \subseteq pending
        /\ \A d \in Callers : ~UsedBy(d, "state", s)
        /\ \A i \in 1..issued : ~UsedFor(i, "state", s)
    BY <1>0, <1>1 DEF Callback, TokenInv, UnusedStates, States
  <2>1. CASE LoginExpired(s)
    <3>1. /\ call'[c] = Idle
          /\ \A d \in Callers \ {c} : call'[d] = call[d]
      BY <1>0, <1>1, <2>1 DEF Callback
    <3>2. \A d \in Callers : Quiet(d)
      BY <3>1, <1>0, <1>i DEF Quiet
    <3> QED
      BY <3>2, <2>0, <1>0, <1>1, TokensKept DEF Callback, storeVars
  <2>2. CASE ~LoginExpired(s)
    <3>1. /\ call'[c].at # "idle" /\ call'[c].via = "state" /\ call'[c].from = s
          /\ \A d \in Callers \ {c} : call'[d] = call[d]
      BY <1>0, <1>1, <2>2 DEF Callback, Idle
    <3> QED
      BY <3>1, <2>0, <1>0, <1>1, TokenTaken DEF Callback, storeVars
  <2> QED
    BY <2>1, <2>2
<1>2. CASE OidcLogin(c) \/ Exchanged(c) \/ SetupWrite(c) \/ IssueRead(c)
  <2>1. /\ call'[c].at # "idle" /\ call'[c].via = call[c].via /\ call'[c].from = call[c].from
        /\ \A d \in Callers \ {c} : call'[d] = call[d]
    BY <1>0, <1>2 DEF OidcLogin, Exchanged, SetupWrite, IssueRead, Calls
  <2>2. UNCHANGED <<issued, record, begun, pending, sessions>>
    BY <1>2 DEF OidcLogin, Exchanged, SetupWrite, IssueRead, loginVars, storeVars
  <2>3. \A d \in Callers : Quiet(d)
    BY <2>1, <1>i DEF Quiet
  <2> QED
    BY <2>2, <2>3, <1>0, TokensKept
<1>3. CASE (\E p \in Passwords : Setup(c, p)) \/ PasswordLogin(c) \/ CallFails(c)
  <2>1. /\ call'[c].via = "login"
        /\ \A d \in Callers \ {c} : call'[d] = call[d]
    BY <1>0, <1>3 DEF Setup, PasswordLogin, CallFails, Ends, Idle
  <2>2. UNCHANGED <<issued, record, begun, pending, sessions>>
    BY <1>3 DEF Setup, PasswordLogin, CallFails, storeVars
  <2>3. \A d \in Callers : Quiet(d)
    BY <2>1, <1>i DEF Quiet
  <2> QED
    BY <2>2, <2>3, <1>0, TokensKept
<1>4. CASE IssueWrite(c) \/ RefreshIssue(c)
  BY <1>4, TokenSpent DEF IssueWrite, RefreshIssue, Holds
<1>5. ASSUME NEW i \in Ids, RefreshTake(c, i) PROVE TokenInv'
  <2>0. /\ i \in 1..issued /\ i \in Nat /\ i \notin sessions' /\ sessions' \subseteq sessions
        /\ \A d \in Callers : ~UsedBy(d, "refresh", i)
        /\ \A j \in 1..issued : ~UsedFor(j, "refresh", i)
    BY <1>0, <1>5 DEF RefreshTake, TokenInv, UnusedTokens, Ids
  <2>1. /\ call'[c].at # "idle" /\ call'[c].via = "refresh" /\ call'[c].from = i
        /\ \A d \in Callers \ {c} : call'[d] = call[d]
    BY <1>0, <1>5 DEF RefreshTake, Idle
  <2> QED
    BY <2>1, <2>0, <1>0, <1>5, TokenTaken DEF RefreshTake, loginVars
<1>6. ASSUME NEW i \in Ids, RefreshTooLate(c, i) PROVE TokenInv'
  <2>1. \A d \in Callers : Quiet(d)
    BY <1>6, <1>i DEF RefreshTooLate, Quiet
  <2> QED
    BY <2>1, <1>0, <1>6, TokensKept DEF RefreshTooLate, loginVars
<1> QED
  BY <1>1, <1>2, <1>3, <1>4, <1>5, <1>6 DEF SessionCall

LEMMA StepTokens ==
  ASSUME SessionInv, SessionTypeOK', SessionNext
  PROVE  TokenInv'
<1> USE SessionAssumption
<1>0. SessionTypeOK /\ TokenInv
  BY DEF SessionInv
<1>i. \A d \in Callers : call[d].at = "idle" => call[d].via = "login"
  BY <1>0 DEF TokenInv, UsedTokensExist
<1>1. CASE BeginLogin
  <2>0. /\ begun \in Nat /\ begun' = begun + 1 /\ pending' \subseteq pending \cup {begun + 1}
        /\ UNCHANGED <<issued, record, sessions, call>>
        /\ \A s \in 1..begun : s \in 1..(begun + 1) /\ s # begun + 1
    BY <1>0, <1>1 DEF BeginLogin, Retained, SessionTypeOK, storeVars
  <2>1. UnusedStates'
    <3> SUFFICES ASSUME NEW s \in pending'
                 PROVE  /\ s \in 1..begun'
                        /\ \A d \in Callers : ~UsedBy(d, "state", s)'
                        /\ \A i \in 1..issued' : ~UsedFor(i, "state", s)'
      BY DEF UnusedStates
    <3>1. CASE s \in pending
      BY <3>1, <2>0, <1>0 DEF TokenInv, UnusedStates, UsedBy, UsedFor
    <3>2. CASE s = begun + 1
      BY <3>2, <2>0, <1>0 DEF TokenInv, UsedTokensExist, UsedBy, UsedFor
    <3> QED
      BY <3>1, <3>2, <2>0
  <2>2. UnusedTokens'
    BY <2>0, <1>0 DEF TokenInv, UnusedTokens, UsedBy, UsedFor
  <2>3. UsedTokensExist'
    BY <2>0, <1>0 DEF TokenInv, UsedTokensExist
  <2>4. UsedOnce' /\ TokensSingleUse'
    BY <2>0, <1>0 DEF TokenInv, UsedOnce, UsedFor, TokensSingleUse
  <2> QED
    BY <2>1, <2>2, <2>3, <2>4 DEF TokenInv
<1>2. CASE BeginRefused \/ SessionTick \/ SessionCrash
  <2>1. /\ UNCHANGED <<issued, record, sessions, begun>>
        /\ pending' \subseteq pending
    BY <1>2 DEF BeginRefused, Retained, SessionTick, SessionCrash, loginVars, storeVars
  <2>2. \A d \in Callers : Quiet(d)
    BY <1>2, <1>i DEF Quiet, BeginRefused, SessionTick, SessionCrash, Idle
  <2> QED
    BY <2>1, <2>2, <1>0, TokensKept
<1>3. CASE \E c \in Callers : SessionCall(c)
  BY <1>3, CallTokens
<1> QED
  BY <1>1, <1>2, <1>3 DEF SessionNext, SessionStep

-----------------------------------------------------------------------------
LEMMA SessionInvStep ==
  ASSUME SessionInv, [SessionNext]_sessionVars
  PROVE  SessionInv'
<1>1. CASE SessionNext
  <2>1. SessionTypeOK'
    BY <1>1, StepType
  <2> QED
    BY <1>1, <2>1, StepLocks, StepTokens DEF SessionInv
<1>2. CASE UNCHANGED sessionVars
  <2>1. SessionTypeOK'
    BY <1>2 DEF SessionInv, SessionTypeOK, sessionVars, loginVars, storeVars
  <2>2. StoreLocked' /\ SetupLocked'
    BY <1>2 DEF SessionInv, StoreLocked, SetupLocked, Holds, sessionVars, loginVars, storeVars
  <2>3. TokenInv'
    BY <1>2 DEF SessionInv, TokenInv, UnusedStates, UnusedTokens, UsedTokensExist, UsedOnce,
                TokensSingleUse, UsedBy, UsedFor, sessionVars, loginVars, storeVars
  <2> QED
    BY <2>1, <2>2, <2>3 DEF SessionInv
<1> QED
  BY <1>1, <1>2

LEMMA SessionInvHolds == SessionSpec => []SessionInv
<1>1. SessionInv /\ [SessionNext]_sessionVars => SessionInv'
  BY SessionInvStep
<1> QED
  BY Initially, <1>1, PTL DEF SessionSpec

(* The stores, locks and requests of sessions keep their types             *)
(* (app_session.rs, password_auth.rs, oidc_login.rs).                      *)
THEOREM SessionTypesCorrect == SessionSpec => []SessionTypeOK
<1>1. SessionInv => SessionTypeOK
  BY DEF SessionInv
<1> QED
  BY SessionInvHolds, <1>1, PTL

(* No refresh token and no login state leads to two sessions               *)
(* (AppSessionStore::refresh, OidcLoginStore::take).                       *)
THEOREM TokensAreSingleUse == SessionSpec => []TokensSingleUse
<1>1. SessionInv => TokensSingleUse
  BY DEF SessionInv, TokenInv
<1> QED
  BY SessionInvHolds, <1>1, PTL

LEMMA PasswordKept ==
  ASSUME SessionInv, [SessionNext]_sessionVars, password # NoPassword
  PROVE  password' = password
<1>1. CASE UNCHANGED sessionVars
  BY <1>1 DEF sessionVars, loginVars
<1>2. CASE BeginLogin \/ BeginRefused \/ SessionTick \/ SessionCrash
  BY <1>2 DEF BeginLogin, BeginRefused, SessionTick, SessionCrash, loginVars
<1>3. ASSUME NEW c \in Callers, SessionCall(c) PROVE password' = password
  <2>1. ~SetupWrite(c)
    BY DEF SetupWrite, SessionInv, SetupLocked
  <2> QED
    BY <1>3, <2>1 DEF SessionCall, Callback, OidcLogin, Exchanged, Setup, PasswordLogin,
       IssueRead, IssueWrite, RefreshTake, RefreshTooLate, RefreshIssue, Write, CallFails,
       loginVars
<1> QED
  BY <1>1, <1>2, <1>3 DEF SessionNext, SessionStep

(* The password that the first-time setup chose is never replaced          *)
(* (PasswordAuth::setup_password).                                         *)
THEOREM FirstPasswordIsKept == SessionSpec => FirstPasswordStays
<1>1. SessionInv /\ [SessionNext]_sessionVars
      => [password # NoPassword => password' = password]_sessionVars
  BY PasswordKept
<1> QED
  BY SessionInvHolds, <1>1, PTL DEF SessionSpec, FirstPasswordStays

-----------------------------------------------------------------------------
(* Some numbers up to a bound have a largest.                              *)
LEMMA LargestOf ==
  ASSUME NEW N \in Nat, NEW ids \in SUBSET (1..N), ids # {}
  PROVE  \E k \in ids : \A j \in ids : j <= k
<1> DEFINE Below == OpToRel(<, Nat)
           gaps  == {N - i : i \in ids}
<1>0. \A i \in ids : i \in Nat /\ N - i \in Nat
  OBVIOUS
<1>1. gaps \subseteq Nat /\ gaps # {}
  BY <1>0
<1>2. ASSUME NEW x \in Nat, NEW y \in Nat, x < y PROVE <<x, y>> \in Below
  BY <1>2 DEF OpToRel
<1>3. IsWellFoundedOn(Below, Nat)
  BY NatLessThanWellFounded
<1> HIDE DEF Below
<1>4. PICK x \in gaps : \A y \in gaps : ~(<<y, x>> \in Below)
  BY <1>1, <1>3, WFMin
<1>5. PICK k \in ids : x = N - k
  OBVIOUS
<1>6. ASSUME NEW j \in ids PROVE j <= k
  <2>1. N - j \in gaps /\ N - j \in Nat /\ x \in Nat
    BY <1>0, <1>1
  <2>2. ~(N - j < x)
    BY <1>2, <1>4, <2>1
  <2> QED
    BY <1>0, <1>5, <2>2
<1> QED
  BY <1>6

(* What is not among the newest `max` of some numbers has at least `max`   *)
(* newer ones among those.                                                 *)
LEMMA NewestKept ==
  ASSUME NEW N \in Nat, NEW ids \in SUBSET (1..N), NEW max \in Nat, NEW i \in ids,
         NEW newest, newest = {k \in ids : Cardinality({j \in ids : j > k}) < max},
         i \notin newest
  PROVE  Cardinality({j \in newest : j > i}) >= max
<1> DEFINE above(k) == {j \in ids : j > k}
<1>0. /\ ids \subseteq Nat /\ newest \subseteq ids
      /\ \A k \in ids : k \in newest <=> Cardinality(above(k)) < max
  OBVIOUS
<1>1. IsFiniteSet(ids)
  <2>1. IsFiniteSet(1..N)
    BY FS_Interval
  <2> QED
    BY <2>1, FS_Subset
<1>2. ASSUME NEW k \in ids
      PROVE  IsFiniteSet(above(k)) /\ Cardinality(above(k)) \in Nat
  BY <1>1, FS_Subset, FS_CardinalityType
<1>3. IsFiniteSet(newest) /\ Cardinality(newest) \in Nat /\ newest \subseteq ids
  BY <1>1, FS_Subset, FS_CardinalityType
<1>4. Cardinality(newest) >= max
  <2> SUFFICES ASSUME Cardinality(newest) < max PROVE FALSE
    BY <1>3
  <2>1. PICK k \in ids \ newest : \A j \in ids \ newest : j <= k
    BY LargestOf
  <2>2. above(k) \in SUBSET newest
    <3> SUFFICES ASSUME NEW j \in ids, j > k PROVE j \in newest
      OBVIOUS
    <3>1. j \in Nat /\ k \in Nat
      OBVIOUS
    <3> QED
      BY <2>1, <3>1
  <2>3. Cardinality(above(k)) <= Cardinality(newest)
    BY <1>3, <2>2, FS_Subset
  <2> HIDE DEF above
  <2>4. Cardinality(above(k)) < max
    BY <1>2, <1>3, <2>1, <2>3
  <2> QED
    BY <1>0, <2>1, <2>4
<1>5. {j \in newest : j > i} = newest
  <2> SUFFICES ASSUME NEW k \in newest PROVE k > i
    OBVIOUS
  <2>1. Cardinality(above(k)) < max /\ ~(Cardinality(above(i)) < max)
    BY ONLY <1>0, i \notin newest, i \in ids, k \in newest
  <2>2. CASE k <= i
    <3>1. above(i) \in SUBSET above(k)
      <4> SUFFICES ASSUME NEW j \in ids, j > i PROVE j > k
        OBVIOUS
      <4>1. j \in Nat /\ i \in Nat /\ k \in Nat
        BY <1>0
      <4> QED
        BY <2>2, <4>1
    <3> HIDE DEF above
    <3>2. Cardinality(above(i)) <= Cardinality(above(k))
      BY <1>0, <1>2, <3>1, FS_Subset
    <3> QED
      BY <1>0, <1>2, <2>1, <3>2
  <2> QED
    BY <1>0, <2>2
<1> QED
  BY <1>4, <1>5

(* A write stores the copy, which is the file, and one session more.       *)
LEMMA WriteLosesNone ==
  ASSUME SessionInv, NEW c \in Callers, Holds(c), Write(c)
  PROVE  /\ \A i \in sessions \ sessions' :
              \/ RefreshExpired(i)
              \/ Cardinality({j \in sessions' : j > i}) >= MaxSessions
         /\ sessions' \ sessions \subseteq {issued + 1}
<1> DEFINE live == {i \in sessions : ~RefreshExpired(i)} \cup {issued + 1}
<1>1. sessions' = {i \in live : Cardinality({j \in live : j > i}) < MaxSessions}
  BY DEF Write, Pruned, SessionInv, StoreLocked
<1>2. live \in SUBSET (1..MaxIssued) /\ MaxIssued \in Nat /\ MaxSessions \in Nat
  <2>1. issued + 1 \in 1..MaxIssued /\ sessions \in SUBSET (1..MaxIssued)
    BY SessionAssumption DEF SessionInv, SessionTypeOK, StoreLocked, Ids
  <2> QED
    BY <2>1, SessionAssumption
<1>3. ASSUME NEW i \in sessions \ sessions', ~RefreshExpired(i)
      PROVE  Cardinality({j \in sessions' : j > i}) >= MaxSessions
  <2>1. i \in live
    BY <1>3
  <2> HIDE DEF live
  <2> QED
    BY <1>1, <1>2, <2>1, NewestKept
<1> QED
  BY <1>1, <1>3

LEMMA SessionsKept ==
  ASSUME SessionInv, [SessionNext]_sessionVars
  PROVE  /\ \A i \in sessions \ sessions' :
              \/ \E c \in Callers : TakenBy(c, i)
              \/ RefreshExpired(i)
              \/ Cardinality({j \in sessions' : j > i}) >= MaxSessions
         /\ sessions' \ sessions \subseteq {issued + 1}
<1>1. CASE UNCHANGED sessionVars
  BY <1>1 DEF sessionVars, storeVars
<1>2. CASE BeginLogin \/ BeginRefused \/ SessionTick \/ SessionCrash
  BY <1>2 DEF BeginLogin, BeginRefused, SessionTick, SessionCrash, storeVars
<1>3. ASSUME NEW c \in Callers, IssueWrite(c) \/ RefreshIssue(c)
      PROVE  /\ \A i \in sessions \ sessions' :
                  \/ RefreshExpired(i)
                  \/ Cardinality({j \in sessions' : j > i}) >= MaxSessions
             /\ sessions' \ sessions \subseteq {issued + 1}
  BY <1>3, WriteLosesNone DEF IssueWrite, RefreshIssue, Holds
<1>4. ASSUME NEW c \in Callers, NEW i \in Ids, RefreshTake(c, i)
      PROVE  sessions' = sessions \ {i} /\ TakenBy(c, i)
  BY <1>4 DEF RefreshTake, TakenBy, SessionInv, SessionTypeOK, Idle
<1>5. ASSUME NEW c \in Callers, NEW i \in Ids, RefreshTooLate(c, i)
      PROVE  sessions' = sessions \ {i} /\ RefreshExpired(i)
  BY <1>5 DEF RefreshTooLate
<1>6. ASSUME NEW c \in Callers,
             \/ \E s \in States : Callback(c, s)
             \/ OidcLogin(c) \/ Exchanged(c) \/ SetupWrite(c) \/ PasswordLogin(c)
             \/ \E p \in Passwords : Setup(c, p)
             \/ IssueRead(c) \/ CallFails(c)
      PROVE  sessions' = sessions
  BY <1>6 DEF Callback, OidcLogin, Exchanged, SetupWrite, PasswordLogin, Setup, IssueRead,
     CallFails, storeVars
<1>7. ASSUME NEW c \in Callers, SessionCall(c)
      PROVE  /\ \A i \in sessions \ sessions' :
                  \/ \E d \in Callers : TakenBy(d, i)
                  \/ RefreshExpired(i)
                  \/ Cardinality({j \in sessions' : j > i}) >= MaxSessions
             /\ sessions' \ sessions \subseteq {issued + 1}
  <2>1. CASE IssueWrite(c) \/ RefreshIssue(c)
    BY <1>3, <2>1
  <2>2. CASE \E i \in Ids : RefreshTake(c, i) \/ RefreshTooLate(c, i)
    <3>1. PICK i \in Ids : RefreshTake(c, i) \/ RefreshTooLate(c, i)
      BY <2>2
    <3>2. sessions' = sessions \ {i} /\ (TakenBy(c, i) \/ RefreshExpired(i))
      BY <1>4, <1>5, <3>1
    <3> QED
      BY <3>2
  <2>3. CASE sessions' = sessions
    BY <2>3
  <2> QED
    BY <1>6, <1>7, <2>1, <2>2, <2>3 DEF SessionCall
<1> QED
  BY <1>1, <1>2, <1>7 DEF SessionNext, SessionStep

(* A session leaves the file by its own refresh or expiry, or for          *)
(* `MaxSessions` newer ones, never by another request's write; none comes  *)
(* back (AppSessionStore::issue, refresh, prune_sessions).                 *)
THEOREM NoSessionLost == SessionSpec => SessionsNotLost
<1>1. SessionInv /\ [SessionNext]_sessionVars
      => [/\ \A i \in sessions \ sessions' :
               \/ \E c \in Callers : TakenBy(c, i)
               \/ RefreshExpired(i)
               \/ Cardinality({j \in sessions' : j > i}) >= MaxSessions
          /\ sessions' \ sessions \subseteq {issued + 1}]_sessionVars
  BY SessionsKept
<1> QED
  BY SessionInvHolds, <1>1, PTL DEF SessionSpec, SessionsNotLost
=============================================================================
