----------------------------- MODULE DeviceAccess -----------------------------
(***************************************************************************)
(* How an app without the plugin gets into a vault: the Nextcloud login    *)
(* flow that a signed-in user confirms in the browser, the device          *)
(* passwords it hands out, and the WebDAV requests made with them, which   *)
(* are throttled.  Flows and the throttle live in memory only.             *)
(*                                                                         *)
(* The n-th flow (device password) is the number n.  A request goes        *)
(* through stages as in AppSessions; `deviceLock` is the mutex of          *)
(* device-passwords.json, `copy` what its holder read of the file.         *)
(***************************************************************************)
EXTENDS AppSessions

CONSTANTS
  Visitors,      \* browsers and apps whose requests are under way
  Addresses,     \* the client addresses the throttle counts by
  Bearer,        \* the name under which a password without a user is counted
  Names,         \* the names used to log in: users or Bearer
  Limit,         \* failures until a key is locked
  Window,        \* how long failures are counted together
  LockTime,      \* how long a key is locked
  MaxTracked,    \* keys in the throttle's map before it is tidied
  FlowTTL,       \* how long a login flow may take
  MaxFlows,      \* how many flows may be pending
  MaxDevices,    \* device passwords per user
  MaxStarted,    \* bound: flows started
  MaxMade,       \* bound: device passwords made
  MaxTotal,      \* bound: sessions issued and device passwords made
  Mixed          \* bound: whether requests of both parts overlap

ASSUME DeviceAssumption ==
  /\ Nobody \notin Visitors /\ Names \subseteq Users \cup {Bearer}
  /\ Limit \in [Addresses \cup Names -> Nat \ {0}]
  /\ Window \in Nat /\ LockTime \in Nat /\ FlowTTL \in Nat
  /\ MaxTracked \in Nat /\ MaxFlows \in Nat /\ MaxDevices \in Nat
  /\ MaxStarted \in Nat /\ MaxMade \in Nat /\ MaxTotal \in Nat
  /\ Mixed \in BOOLEAN

VARIABLES
  flows,        \* LoginFlowStore.flows: the flows that exist
  flowAt,       \* when each was created
  credential,   \* the device password a flow was completed with, 0: none
  started,      \* flows started
  devices,      \* device-passwords.json: the passwords that are stored
  deviceLock,   \* DevicePasswordStore.lock
  made,         \* of each device password: its user, and its flow or 0
  count,        \* device passwords made
  throttle,     \* AuthThrottle.entries
  visit,        \* the stage of each request
  handedOut,    \* history: the answers <<flow, password>> of polls
  revoked       \* history: the passwords whose revocation was written

flowVars   == <<flows, flowAt, credential, started, handedOut>>
deviceVars == <<devices, deviceLock, made, count, revoked>>
accessVars == <<flowVars, deviceVars, throttle, visit>>
vars       == <<sessionVars, accessVars>>

Flows       == 1..MaxStarted
Made        == 1..MaxMade
Keys        == Addresses \cup Names
VisitStages == {"idle", "submit", "insert", "complete", "revoke", "auth",
                "stamp", "accepted", "failed"}

NoMake   == [user |-> "none", flow |-> 0]
NoVisit  == [at |-> "idle", user |-> "none", flow |-> 0, id |-> 0, keys |-> {}, copy |-> {}]

FlowExpired(f) == now >= flowAt[f] + FlowTTL
IsPending(f)   == f \in flows /\ ~FlowExpired(f) /\ credential[f] = 0

Leaves(v) ==
  /\ visit' = [visit EXCEPT ![v] = NoVisit]
  /\ deviceLock' = Unlocked(deviceLock, v)

-----------------------------------------------------------------------------
(***************************************************************************)
(* The flow, as the app sees it: it starts one, and polls until it is      *)
(* given the credentials, once.                                            *)
(***************************************************************************)
RetainedFlows == {f \in flows : ~FlowExpired(f)}

StartFlow ==
  /\ started < MaxStarted
  /\ Cardinality(RetainedFlows) < MaxFlows
  /\ started' = started + 1
  /\ flowAt' = [flowAt EXCEPT ![started + 1] = now]
  /\ flows' = RetainedFlows \cup {started + 1}
  /\ UNCHANGED <<sessionVars, credential, handedOut, deviceVars, throttle, visit>>

StartRefused ==
  /\ Cardinality(RetainedFlows) >= MaxFlows
  /\ flows' = RetainedFlows
  /\ UNCHANGED <<sessionVars, flowAt, credential, started, handedOut, deviceVars,
                 throttle, visit>>

PollExpired(f) ==
  /\ f \in flows /\ FlowExpired(f)
  /\ flows' = flows \ {f}
  /\ UNCHANGED <<sessionVars, flowAt, credential, started, handedOut, deviceVars,
                 throttle, visit>>

Poll(f) ==
  /\ f \in flows /\ ~FlowExpired(f) /\ credential[f] # 0
  /\ flows' = flows \ {f}
  /\ handedOut' = handedOut \cup {<<f, credential[f]>>}
  /\ UNCHANGED <<sessionVars, flowAt, credential, started, deviceVars, throttle, visit>>

(***************************************************************************)
(* The flow, as its user sees it: the form is submitted with a session;    *)
(* a device password is made and stored; then the flow is completed, if    *)
(* it still can be.  Otherwise the password stays, known to nobody.        *)
(***************************************************************************)
Submit(v, f, i) ==
  /\ visit[v].at = "idle"
  /\ IsPending(f)
  /\ AccessValid(i)
  /\ visit' = [visit EXCEPT ![v] =
       [NoVisit EXCEPT !.at = "submit", !.user = record[i].user, !.flow = f]]
  /\ UNCHANGED <<sessionVars, flowVars, deviceVars, throttle>>

(* The plugin asks for a password of its own.                              *)
Create(v, i) ==
  /\ visit[v].at = "idle"
  /\ AccessValid(i)
  /\ visit' = [visit EXCEPT ![v] =
       [NoVisit EXCEPT !.at = "submit", !.user = record[i].user]]
  /\ UNCHANGED <<sessionVars, flowVars, deviceVars, throttle>>

(* Mutant: the password of a login that was abandoned does not count.      *)
OwnUsed(v) ==
  {d \in devices : /\ made[d].user = visit[v].user
                   /\ made[d].flow # 0 => <<made[d].flow, d>> \in handedOut}

Own(v) == {d \in devices : made[d].user = visit[v].user}

InsertRead(v) ==
  /\ visit[v].at = "submit"
  /\ deviceLock = Nobody
  /\ Cardinality(Own(v)) < MaxDevices /\ count < MaxMade
  /\ deviceLock' = v
  /\ visit' = [visit EXCEPT ![v].at = "insert", ![v].copy = devices]
  /\ UNCHANGED <<sessionVars, flowVars, devices, made, count, revoked, throttle>>

(* Too many device passwords, or an invalid folder or label.               *)
InsertRefused(v) ==
  /\ visit[v].at = "submit"
  /\ Leaves(v)
  /\ UNCHANGED <<sessionVars, flowVars, devices, made, count, revoked, throttle>>

(* Mutant: the credentials are handed to the flow before they are stored.  *)
InsertCompletes(v) ==
  /\ visit[v].at = "insert"
  /\ count' = count + 1
  /\ made' = [made EXCEPT ![count + 1] = [user |-> visit[v].user, flow |-> visit[v].flow]]
  /\ credential' = IF visit[v].flow # 0 /\ IsPending(visit[v].flow)
                   THEN [credential EXCEPT ![visit[v].flow] = count + 1] ELSE credential
  /\ Leaves(v)
  /\ UNCHANGED <<sessionVars, flows, flowAt, started, handedOut, devices, revoked, throttle>>

InsertWrite(v) ==
  /\ visit[v].at = "insert"
  /\ count' = count + 1
  /\ made' = [made EXCEPT ![count + 1] = [user |-> visit[v].user, flow |-> visit[v].flow]]
  /\ devices' = visit[v].copy \cup {count + 1}
  /\ deviceLock' = Unlocked(deviceLock, v)
  /\ visit' = [visit EXCEPT ![v] =
       IF visit[v].flow = 0 THEN NoVisit
       ELSE [NoVisit EXCEPT !.at = "complete", !.flow = visit[v].flow, !.id = count + 1]]
  /\ UNCHANGED <<sessionVars, flowVars, revoked, throttle>>

(* Mutant: a flow that has credentials is given the later ones.            *)
CompleteAgain(v) ==
  /\ visit[v].at = "complete"
  /\ credential' = [credential EXCEPT ![visit[v].flow] = visit[v].id]
  /\ flows' = flows \cup {visit[v].flow}
  /\ Leaves(v)
  /\ UNCHANGED <<sessionVars, flowAt, started, handedOut, devices, made, count,
                 revoked, throttle>>

Complete(v) ==
  /\ visit[v].at = "complete"
  /\ credential' = IF IsPending(visit[v].flow)
                   THEN [credential EXCEPT ![visit[v].flow] = visit[v].id]
                   ELSE credential
  /\ Leaves(v)
  /\ UNCHANGED <<sessionVars, flows, flowAt, started, handedOut, devices, made, count,
                 revoked, throttle>>

-----------------------------------------------------------------------------
(***************************************************************************)
(* A password is revoked by its user: read, write, under the lock.         *)
(***************************************************************************)
RevokeRead(v, i, d) ==
  /\ visit[v].at = "idle"
  /\ AccessValid(i)
  /\ deviceLock = Nobody
  /\ d \in devices /\ made[d].user = record[i].user
  /\ deviceLock' = v
  /\ visit' = [visit EXCEPT ![v] =
       [NoVisit EXCEPT !.at = "revoke", !.id = d, !.copy = devices \ {d}]]
  /\ UNCHANGED <<sessionVars, flowVars, devices, made, count, revoked, throttle>>

RevokeWrite(v) ==
  /\ visit[v].at = "revoke"
  /\ devices' = visit[v].copy
  /\ revoked' = revoked \cup {visit[v].id}
  /\ Leaves(v)
  /\ UNCHANGED <<sessionVars, flowVars, made, count, throttle>>

-----------------------------------------------------------------------------
(***************************************************************************)
(* authenticate_device: three steps that other requests come between, the  *)
(* look at the throttle, the look at the store, and the count.             *)
(***************************************************************************)
Blocked(keys) == \E k \in keys \cap DOMAIN throttle : throttle[k].until > now

(* A request from `a` in the name `n` with the password `d`, 0 a wrong one  *)
(* (bound: the first comes when a password has been made).                 *)
AuthCheck(v, a, n, d) ==
  /\ count > 0
  /\ visit[v].at = "idle"
  /\ ~Blocked({a, n})
  /\ visit' = [visit EXCEPT ![v] = [NoVisit EXCEPT
       !.at = "auth", !.user = n, !.id = d, !.keys = {a, n}]]
  /\ UNCHANGED <<sessionVars, flowVars, deviceVars, throttle>>

Found(v) ==
  /\ visit[v].id \in devices
  /\ visit[v].user \in {Bearer, made[visit[v].id].user}

AuthFails(v) ==
  /\ visit[v].at = "auth"
  /\ deviceLock = Nobody
  /\ ~Found(v)
  /\ visit' = [visit EXCEPT ![v].at = "failed"]
  /\ UNCHANGED <<sessionVars, flowVars, deviceVars, throttle>>

(* Mutant: the last use is noted without the lock.                         *)
AuthFindsUnlocked(v) ==
  /\ visit[v].at = "auth"
  /\ deviceLock = Nobody
  /\ Found(v)
  /\ visit' = [visit EXCEPT ![v].at = "stamp", ![v].copy = devices]
  /\ UNCHANGED <<sessionVars, flowVars, deviceVars, throttle>>

(* The file is only written when the last use was some minutes ago.        *)
AuthFinds(v) ==
  /\ visit[v].at = "auth"
  /\ deviceLock = Nobody
  /\ Found(v)
  /\ \/ /\ visit' = [visit EXCEPT ![v].at = "accepted"]
        /\ UNCHANGED deviceLock
     \/ /\ visit' = [visit EXCEPT ![v].at = "stamp", ![v].copy = devices]
        /\ deviceLock' = v
  /\ UNCHANGED <<sessionVars, flowVars, devices, made, count, revoked, throttle>>

AuthStamps(v) ==
  /\ visit[v].at = "stamp"
  /\ devices' = visit[v].copy
  /\ visit' = [visit EXCEPT ![v].at = "accepted"]
  /\ deviceLock' = Unlocked(deviceLock, v)
  /\ UNCHANGED <<sessionVars, flowVars, made, count, revoked, throttle>>

(* The store cannot be read or written: that counts as a failure, too.     *)
AuthErrs(v) ==
  /\ \/ visit[v].at = "auth" /\ deviceLock = Nobody
     \/ visit[v].at = "stamp"
  /\ visit' = [visit EXCEPT ![v].at = "failed", ![v].copy = {}]
  /\ deviceLock' = Unlocked(deviceLock, v)
  /\ UNCHANGED <<sessionVars, flowVars, devices, made, count, revoked, throttle>>

(* record_failure of one key.                                              *)
InWindow(k) == now - throttle[k].since < Window
Tracked     ==
  IF Cardinality(DOMAIN throttle) >= MaxTracked
  THEN {k \in DOMAIN throttle : throttle[k].until > now \/ InWindow(k)}
  ELSE DOMAIN throttle

(* Mutant: the failures are not counted anew after a lock.                 *)
FailedCountsOn(k) ==
  LET known == k \in Tracked /\ InWindow(k)
      n     == IF known THEN throttle[k].failures + 1 ELSE 1
  IN [failures |-> n,
      since    |-> IF known /\ n < Limit[k] THEN throttle[k].since ELSE now,
      until    |-> IF n >= Limit[k] THEN now + LockTime
                   ELSE IF k \in Tracked THEN throttle[k].until ELSE 0]

(* Mutant: a new window forgets the lock.                                  *)
FailedForgetting(k) ==
  LET known == k \in Tracked /\ InWindow(k)
      n     == IF known THEN throttle[k].failures + 1 ELSE 1
  IN [failures |-> IF n >= Limit[k] THEN 0 ELSE n,
      since    |-> IF known /\ n < Limit[k] THEN throttle[k].since ELSE now,
      until    |-> IF n >= Limit[k] THEN now + LockTime ELSE 0]

Failed(k) ==
  LET known == k \in Tracked /\ InWindow(k)
      n     == IF known THEN throttle[k].failures + 1 ELSE 1
  IN [failures |-> IF n >= Limit[k] THEN 0 ELSE n,
      since    |-> IF known /\ n < Limit[k] THEN throttle[k].since ELSE now,
      until    |-> IF n >= Limit[k] THEN now + LockTime
                   ELSE IF k \in Tracked THEN throttle[k].until ELSE 0]

RecordFailure(v) ==
  /\ visit[v].at = "failed"
  /\ throttle' = [k \in Tracked \cup visit[v].keys |->
                    IF k \in visit[v].keys THEN Failed(k) ELSE throttle[k]]
  /\ visit' = [visit EXCEPT ![v] = NoVisit]
  /\ UNCHANGED <<sessionVars, flowVars, deviceVars>>

RecordSuccess(v) ==
  /\ visit[v].at = "accepted"
  /\ throttle' = [k \in DOMAIN throttle \ visit[v].keys |-> throttle[k]]
  /\ visit' = [visit EXCEPT ![v] = NoVisit]
  /\ UNCHANGED <<sessionVars, flowVars, deviceVars>>

-----------------------------------------------------------------------------
(* A request is given up: its client leaves, or a store cannot be written. *)
VisitFails(v) ==
  /\ visit[v].at \notin {"idle", "submit"}
  /\ Leaves(v)
  /\ UNCHANGED <<sessionVars, flowVars, devices, made, count, revoked, throttle>>

AccessInit ==
  /\ flows = {} /\ started = 0 /\ flowAt = [f \in Flows |-> 0]
  /\ credential = [f \in Flows |-> 0] /\ handedOut = {}
  /\ devices = {} /\ deviceLock = Nobody /\ made = [d \in Made |-> NoMake]
  /\ count = 0 /\ revoked = {}
  /\ throttle = [k \in {} |-> 0]
  /\ visit = [v \in Visitors |-> NoVisit]

Init == SessionInit /\ AccessInit

Visit(v) ==
  \/ \E f \in Flows, i \in Ids : Submit(v, f, i)
  \/ \E i \in Ids : Create(v, i)
  \/ InsertRead(v) \/ InsertRefused(v) \/ InsertWrite(v) \/ Complete(v)
  \/ \E i \in Ids, d \in Made : RevokeRead(v, i, d)
  \/ RevokeWrite(v)
  \/ \E a \in Addresses, n \in Names, d \in 0..count : AuthCheck(v, a, n, d)
  \/ AuthFails(v) \/ AuthFinds(v) \/ AuthStamps(v) \/ AuthErrs(v)
  \/ RecordFailure(v) \/ RecordSuccess(v)
  \/ VisitFails(v)

AccessStep ==
  \/ StartFlow \/ StartRefused
  \/ \E f \in Flows : Poll(f) \/ PollExpired(f)
  \/ \E v \in Visitors : Visit(v)

Tick == SessionTick /\ UNCHANGED accessVars

(* Flows, the throttle and requests are gone, the files stay.              *)
Crash ==
  /\ SessionCrash
  /\ flows' = {} /\ throttle' = [k \in {} |-> 0]
  /\ visit' = [v \in Visitors |-> NoVisit] /\ deviceLock' = Nobody
  /\ UNCHANGED <<flowAt, credential, started, handedOut, devices, made, count, revoked>>

Calling  == \E c \in Callers : call[c].at # "idle"
Visiting == \E v \in Visitors : visit[v].at # "idle"

Next ==
  \/ SessionStep /\ UNCHANGED accessVars /\ issued' + count <= MaxTotal
                  /\ (Visiting => Mixed)
  \/ AccessStep  /\ issued + count' <= MaxTotal /\ (Calling => Mixed)
  \/ Tick \/ Crash

Spec == Init /\ [][Next]_vars

Visits  == [at : VisitStages, user : Users \cup {Bearer, "none"}, flow : Flows \cup {0},
            id : Made \cup {0}, keys : SUBSET Keys, copy : SUBSET Made]
Entries(k) == [failures : 0..(Limit[k] - 1), since : Time, until : 0..(MaxTime + LockTime)]

AccessTypeOK ==
  /\ SessionTypeOK
  /\ flows \in SUBSET Flows /\ started \in 0..MaxStarted
  /\ flowAt \in [Flows -> Time] /\ credential \in [Flows -> Made \cup {0}]
  /\ handedOut \in SUBSET (Flows \X Made)
  /\ devices \in SUBSET Made /\ count \in 0..MaxMade /\ revoked \in SUBSET Made
  /\ made \in [Made -> [user : Users \cup {"none"}, flow : Flows \cup {0}]]
  /\ deviceLock \in Visitors \cup {Nobody}
  /\ DOMAIN throttle \in SUBSET Keys
  /\ \A k \in DOMAIN throttle : throttle[k] \in Entries(k)
  /\ visit \in [Visitors -> Visits]

(***************************************************************************)
(* A revoked password never works again (README.md:346): no request that   *)
(* was reading the file when it was revoked, and no restart, brings it     *)
(* back.                                                                   *)
(***************************************************************************)
RevokedStaysOut == revoked \cap devices = {}

(***************************************************************************)
(* Requests that make passwords at the same time, logins that are          *)
(* abandoned and logins submitted twice never leave a user with more than  *)
(* the number of device passwords the server allows.                       *)
(***************************************************************************)
DeviceLimit ==
  \A u \in Users : Cardinality({d \in devices : made[d].user = u}) <= MaxDevices

(***************************************************************************)
(* What a poll hands out is a password that was made for this very flow,   *)
(* and that is on the disk until it is revoked, also after a restart; and  *)
(* a flow submitted twice or polled by two apps hands out one password,    *)
(* once.                                                                   *)
(***************************************************************************)
HandedOutWorks ==
  \A h \in handedOut : /\ made[h[2]].flow = h[1]
                       /\ h[2] \in devices \cup revoked

HandedOutOnce ==
  [][\A h \in handedOut' \ handedOut :
       /\ \A g \in handedOut : g[1] # h[1] /\ g[2] # h[2]
       /\ h[1] \in flows \ flows']_vars

(***************************************************************************)
(* A key that was locked for too many failures stays locked for its time   *)
(* (README.md:272): neither failures counted late, nor a new window, nor   *)
(* the tidying of the map unlock it; only a success does, of a request     *)
(* that was let through before, or a restart.                              *)
(***************************************************************************)
Locked(k) == k \in DOMAIN throttle /\ throttle[k].until > now

LockHolds ==
  [][\A k \in Keys :
       Locked(k) /\ ~Locked(k)'
       => \/ now' >= throttle[k].until
          \/ \E v \in Visitors : visit[v].at = "accepted" /\ k \in visit[v].keys
          \/ crashes' > crashes]_vars
=============================================================================
