-------------------------- MODULE DeviceAccessProofs --------------------------
(***************************************************************************)
(* Device passwords and login flows, for any number of requests, users,    *)
(* flows and restarts; the theorems about sessions carry over.             *)
(***************************************************************************)
EXTENDS DeviceAccess, AppSessionsProofs, FiniteSetTheorems

(* The part of the server that AppSessions describes does what it says.    *)
LEMMA StepOfSessions == [Next]_vars => [SessionNext]_sessionVars
<1> SUFFICES ASSUME Next \/ UNCHANGED vars PROVE SessionNext \/ UNCHANGED sessionVars
  OBVIOUS
<1>1. CASE UNCHANGED vars
  BY <1>1 DEF vars
<1>2. CASE SessionStep
  BY <1>2 DEF SessionNext
<1>3. CASE AccessStep
  <2>1. CASE StartFlow \/ StartRefused \/ \E f \in Flows : Poll(f) \/ PollExpired(f)
    BY <2>1 DEF StartFlow, StartRefused, Poll, PollExpired
  <2>2. ASSUME NEW v \in Visitors, Visit(v) PROVE UNCHANGED sessionVars
    BY <2>2 DEF Visit, Submit, Create, InsertRead, InsertRefused, InsertWrite, Complete,
       RevokeRead, RevokeWrite, AuthCheck, AuthFails, AuthFinds, AuthStamps, AuthErrs,
       RecordFailure, RecordSuccess, VisitFails
  <2> QED
    BY <1>3, <2>1, <2>2 DEF AccessStep
<1>4. CASE Tick \/ Crash
  BY <1>4 DEF Tick, Crash, SessionNext
<1> QED
  BY <1>1, <1>2, <1>3, <1>4 DEF Next

(* What AppSessions promises holds among login flows and device passwords. *)
THEOREM SessionsAreKept == Spec => SessionSpec
BY StepOfSessions, PTL DEF Spec, Init, SessionSpec

(* No refresh token and no login state leads to two sessions.              *)
THEOREM AccessTokensSingleUse == Spec => []TokensSingleUse
BY SessionsAreKept, TokensAreSingleUse, PTL

(* The password that the first-time setup chose is never replaced.         *)
THEOREM AccessFirstPassword == Spec => FirstPasswordStays
BY SessionsAreKept, FirstPasswordIsKept, PTL

(* No request's write loses a session of another's.                        *)
THEOREM AccessLosesNoSession == Spec => SessionsNotLost
BY SessionsAreKept, NoSessionLost, PTL

-----------------------------------------------------------------------------
(* The lock of device-passwords.json is held by one request, whose copy is *)
(* what the file holds; the limit was looked at under the lock.            *)
LockFits(v) ==
  /\ visit[v].at \in {"insert", "revoke", "stamp"} => deviceLock = v
  /\ visit[v].at \in {"insert", "stamp"} => visit[v].copy = devices
  /\ visit[v].at = "revoke" => /\ visit[v].copy = devices \ {visit[v].id}
                               /\ visit[v].id \in devices
  /\ visit[v].at = "insert" => count < MaxMade /\ Cardinality(Own(v)) < MaxDevices

DeviceLocked == \A v \in Visitors : LockFits(v)

Numbered == devices \subseteq 1..count /\ revoked \subseteq 1..count

(* The password `d` was made for the flow `f` and stored.                  *)
Stored(d, f) ==
  /\ d \in 1..count /\ d \in devices \cup revoked
  /\ f # 0 /\ made[d].flow = f

(* A flow is completed with a password that is stored already.             *)
VisitFits(v) ==
  /\ visit[v].at \in {"submit", "insert"} => visit[v].user \in Users \cup {"none"}
  /\ visit[v].at = "complete" => Stored(visit[v].id, visit[v].flow)

FlowsFit ==
  /\ flows \subseteq 1..started
  /\ \A v \in Visitors : VisitFits(v)
  /\ \A f \in Flows : credential[f] # 0 => Stored(credential[f], f)
  /\ \A h \in handedOut : h[1] \in (1..started) \ flows /\ Stored(h[2], h[1])

(* No key is locked for longer than LockTime.                              *)
LocksEnd == \A k \in DOMAIN throttle : throttle[k].until <= now + LockTime

AccessInv ==
  /\ AccessTypeOK /\ DeviceLocked /\ Numbered /\ RevokedStaysOut /\ DeviceLimit
  /\ FlowsFit /\ LocksEnd

LEMMA AccessInitially == Init => AccessInv
<1> SUFFICES ASSUME Init PROVE AccessInv
  OBVIOUS
<1> USE SessionAssumption, DeviceAssumption
<1>1. SessionTypeOK
  BY Initially DEF Init, SessionInv
<1>2. AccessTypeOK
  <2>1. NoVisit \in Visits
    BY DEF NoVisit, Visits, VisitStages
  <2>2. NoMake \in [user : Users \cup {"none"}, flow : Flows \cup {0}]
    BY DEF NoMake
  <2> QED
    BY <1>1, <2>1, <2>2 DEF Init, AccessInit, AccessTypeOK, Time
<1>3. DeviceLimit
  <2>1. Cardinality({}) = 0
    BY FS_EmptySet
  <2>2. ASSUME NEW u \in Users PROVE {d \in devices : made[d].user = u} = {}
    BY DEF Init, AccessInit
  <2> QED
    BY <2>1, <2>2 DEF DeviceLimit
<1> QED
  BY <1>2, <1>3
     DEF Init, AccessInit, AccessInv, DeviceLocked, LockFits, Numbered, RevokedStaysOut,
         FlowsFit, VisitFits, Stored, LocksEnd, NoVisit

-----------------------------------------------------------------------------
(* A request that leaves the files alone: it may take the free lock, or    *)
(* release it, and what it does to its own stage must fit.                 *)
LEMMA OneVisit ==
  ASSUME AccessInv, NEW v \in Visitors, NEW x,
         visit' = [visit EXCEPT ![v] = x],
         UNCHANGED <<devices, made, count, revoked, flows, started, handedOut>>,
         \/ deviceLock' = deviceLock
         \/ deviceLock' = Unlocked(deviceLock, v)
         \/ deviceLock = Nobody,
         \A f \in Flows : credential'[f] # 0 => Stored(credential'[f], f),
         LockFits(v)', VisitFits(v)'
  PROVE  DeviceLocked' /\ Numbered' /\ RevokedStaysOut' /\ DeviceLimit' /\ FlowsFit'
<1>1. visit \in [Visitors -> Visits]
  BY DEF AccessInv, AccessTypeOK
<1>2. \A w \in Visitors \ {v} : visit'[w] = visit[w]
  BY <1>1
<1>3. ASSUME NEW w \in Visitors, w # v PROVE LockFits(w)'
  <2>1. w # Nobody
    BY DeviceAssumption
  <2>2. LockFits(w)
    BY DEF AccessInv, DeviceLocked
  <2> QED
    BY <1>2, <1>3, <2>1, <2>2 DEF LockFits, Own, Unlocked
<1>4. ASSUME NEW w \in Visitors, w # v PROVE VisitFits(w)'
  BY <1>2, <1>4 DEF AccessInv, FlowsFit, VisitFits, Stored
<1> QED
  BY <1>3, <1>4
     DEF AccessInv, DeviceLocked, Numbered, RevokedStaysOut, DeviceLimit, FlowsFit, Stored

(* The stages at which a request holds no lock and completes no flow.      *)
Free(x) ==
  /\ x.at \notin {"insert", "revoke", "stamp", "complete"}
  /\ x.at = "submit" => x.user \in Users \cup {"none"}

(* What the requests do that change nothing but their stage and the lock.  *)
LEMMA FreeVisit ==
  ASSUME AccessInv, SessionTypeOK', NEW v \in Visitors, NEW x \in Visits, Free(x),
         visit' = [visit EXCEPT ![v] = x],
         UNCHANGED <<now, devices, made, count, revoked, flows, flowAt, started, credential,
                     handedOut, throttle>>,
         deviceLock' = deviceLock \/ deviceLock' = Unlocked(deviceLock, v)
  PROVE  AccessInv'
<1>1. AccessTypeOK'
  BY DEF AccessInv, AccessTypeOK, Unlocked
<1>2. visit'[v] = x
  BY DEF AccessInv, AccessTypeOK
<1>3. LockFits(v)' /\ VisitFits(v)'
  BY <1>2 DEF LockFits, VisitFits, Free
<1>4. \A f \in Flows : credential'[f] # 0 => Stored(credential'[f], f)
  BY DEF AccessInv, FlowsFit
<1>5. LocksEnd'
  BY DEF AccessInv, LocksEnd
<1> QED
  BY <1>1, <1>3, <1>4, <1>5, OneVisit DEF AccessInv

LEMMA LeavesInv ==
  ASSUME AccessInv, SessionTypeOK', NEW v \in Visitors, Leaves(v),
         UNCHANGED <<now, devices, made, count, revoked, flows, flowAt, started, credential,
                     handedOut, throttle>>
  PROVE  AccessInv'
<1>1. NoVisit \in Visits /\ Free(NoVisit)
  BY DEF NoVisit, Visits, VisitStages, Free
<1> QED
  BY <1>1, FreeVisit DEF Leaves

LEMMA AsksInv ==
  ASSUME AccessInv, SessionTypeOK', NEW v \in Visitors,
         \/ \E f \in Flows, i \in Ids : Submit(v, f, i)
         \/ \E i \in Ids : Create(v, i)
         \/ \E a \in Addresses, n \in Names, d \in 0..count : AuthCheck(v, a, n, d)
  PROVE  AccessInv'
<1>1. CASE \E f \in Flows, i \in Ids : Submit(v, f, i)
  <2>1. PICK f \in Flows, i \in Ids : Submit(v, f, i)
    BY <1>1
  <2> DEFINE x == [NoVisit EXCEPT !.at = "submit", !.user = record[i].user, !.flow = f]
  <2>2. record[i].user \in Users \cup {"none"}
    BY DEF AccessInv, AccessTypeOK, SessionTypeOK, Records
  <2>3. x \in Visits /\ Free(x)
    BY <2>2 DEF NoVisit, Visits, VisitStages, Free
  <2>4. visit' = [visit EXCEPT ![v] = x]
    BY <2>1 DEF Submit
  <2> HIDE DEF x
  <2> QED
    BY <2>1, <2>3, <2>4, FreeVisit DEF Submit, sessionVars, flowVars, deviceVars
<1>2. CASE \E i \in Ids : Create(v, i)
  <2>1. PICK i \in Ids : Create(v, i)
    BY <1>2
  <2> DEFINE x == [NoVisit EXCEPT !.at = "submit", !.user = record[i].user]
  <2>2. record[i].user \in Users \cup {"none"}
    BY DEF AccessInv, AccessTypeOK, SessionTypeOK, Records
  <2>3. x \in Visits /\ Free(x)
    BY <2>2 DEF NoVisit, Visits, VisitStages, Free
  <2>4. visit' = [visit EXCEPT ![v] = x]
    BY <2>1 DEF Create
  <2> HIDE DEF x
  <2> QED
    BY <2>1, <2>3, <2>4, FreeVisit DEF Create, sessionVars, flowVars, deviceVars
<1>3. CASE \E a \in Addresses, n \in Names, d \in 0..count : AuthCheck(v, a, n, d)
  <2>1. PICK a \in Addresses, n \in Names, d \in 0..count : AuthCheck(v, a, n, d)
    BY <1>3
  <2> DEFINE x == [NoVisit EXCEPT !.at = "auth", !.user = n, !.id = d, !.keys = {a, n}]
  <2>2. d \in Made \cup {0} /\ {a, n} \in SUBSET Keys /\ n \in Users \cup {Bearer}
    BY DeviceAssumption DEF AccessInv, AccessTypeOK, Made, Keys
  <2>3. x \in Visits /\ Free(x)
    BY <2>2 DEF NoVisit, Visits, VisitStages, Free
  <2>4. visit' = [visit EXCEPT ![v] = x]
    BY <2>1 DEF AuthCheck
  <2> HIDE DEF x
  <2> QED
    BY <2>1, <2>3, <2>4, FreeVisit DEF AuthCheck, sessionVars, flowVars, deviceVars
<1> QED
  BY <1>1, <1>2, <1>3

(* A request that takes the free lock, and does not write yet.             *)
LEMMA TakesInv ==
  ASSUME AccessInv, SessionTypeOK', NEW v \in Visitors, NEW x \in Visits,
         deviceLock = Nobody, deviceLock' = v,
         visit' = [visit EXCEPT ![v] = x],
         \/ x.at = "insert" /\ count < MaxMade /\ Cardinality(Own(v)) < MaxDevices
              /\ visit[v].at = "submit" /\ x.user = visit[v].user /\ x.copy = devices
         \/ x.at = "revoke" /\ x.id \in devices /\ x.copy = devices \ {x.id}
         \/ x.at = "stamp" /\ x.copy = devices,
         UNCHANGED <<now, devices, made, count, revoked, flows, flowAt, started, credential,
                     handedOut, throttle>>
  PROVE  AccessInv'
<1>1. AccessTypeOK'
  BY DEF AccessInv, AccessTypeOK
<1>2. visit'[v] = x
  BY DEF AccessInv, AccessTypeOK
<1>3. x.at = "insert" => Own(v)' = Own(v)
  BY <1>2 DEF Own
<1>4. x.at = "insert" => x.user \in Users \cup {"none"}
  BY DEF AccessInv, FlowsFit, VisitFits
<1>5. LockFits(v)' /\ VisitFits(v)'
  BY <1>2, <1>3, <1>4 DEF LockFits, VisitFits
<1>6. \A f \in Flows : credential'[f] # 0 => Stored(credential'[f], f)
  BY DEF AccessInv, FlowsFit
<1>7. LocksEnd'
  BY DEF AccessInv, LocksEnd
<1> QED
  BY <1>1, <1>5, <1>6, <1>7, OneVisit DEF AccessInv

LEMMA LocksInv ==
  ASSUME AccessInv, SessionTypeOK', NEW v \in Visitors,
         InsertRead(v) \/ (\E i \in Ids, d \in Made : RevokeRead(v, i, d)) \/ AuthFinds(v)
  PROVE  AccessInv'
<1>1. visit[v] \in Visits /\ devices \in SUBSET Made
  BY DEF AccessInv, AccessTypeOK
<1>2. CASE InsertRead(v)
  <2> DEFINE x == [visit[v] EXCEPT !.at = "insert", !.copy = devices]
  <2>1. x \in Visits
    BY <1>1 DEF Visits, VisitStages
  <2>2. x.at = "insert" /\ x.user = visit[v].user /\ x.copy = devices
    BY <1>1 DEF Visits
  <2>3. visit' = [visit EXCEPT ![v] = x]
    BY <1>1, <1>2 DEF InsertRead
  <2> HIDE DEF x
  <2> QED
    BY <1>2, <2>1, <2>2, <2>3, TakesInv DEF InsertRead, sessionVars, flowVars
<1>3. CASE \E i \in Ids, d \in Made : RevokeRead(v, i, d)
  <2>1. PICK i \in Ids, d \in Made : RevokeRead(v, i, d)
    BY <1>3
  <2> DEFINE x == [NoVisit EXCEPT !.at = "revoke", !.id = d, !.copy = devices \ {d}]
  <2>2. x \in Visits
    BY <1>1 DEF NoVisit, Visits, VisitStages
  <2>3. x.at = "revoke" /\ x.id = d /\ x.copy = devices \ {d}
    BY DEF NoVisit
  <2>4. visit' = [visit EXCEPT ![v] = x]
    BY <2>1 DEF RevokeRead
  <2> HIDE DEF x
  <2> QED
    BY <2>1, <2>2, <2>3, <2>4, TakesInv DEF RevokeRead, sessionVars, flowVars
<1>4. CASE AuthFinds(v) /\ UNCHANGED deviceLock /\ visit' = [visit EXCEPT ![v].at = "accepted"]
  <2> DEFINE x == [visit[v] EXCEPT !.at = "accepted"]
  <2>1. x \in Visits /\ Free(x)
    BY <1>1 DEF Visits, VisitStages, Free
  <2>2. visit' = [visit EXCEPT ![v] = x]
    BY <1>1, <1>4
  <2> HIDE DEF x
  <2> QED
    BY <1>4, <2>1, <2>2, FreeVisit DEF AuthFinds, sessionVars, flowVars
<1>5. CASE /\ AuthFinds(v) /\ deviceLock' = v
           /\ visit' = [visit EXCEPT ![v].at = "stamp", ![v].copy = devices]
  <2> DEFINE x == [visit[v] EXCEPT !.at = "stamp", !.copy = devices]
  <2>1. x \in Visits
    BY <1>1 DEF Visits, VisitStages
  <2>2. x.at = "stamp" /\ x.copy = devices
    BY <1>1 DEF Visits
  <2>3. visit' = [visit EXCEPT ![v] = x]
    BY <1>1, <1>5
  <2> HIDE DEF x
  <2> QED
    BY <1>5, <2>1, <2>2, <2>3, TakesInv DEF AuthFinds, sessionVars, flowVars
<1> QED
  BY <1>2, <1>3, <1>4, <1>5 DEF AuthFinds

LEMMA FailsInv ==
  ASSUME AccessInv, SessionTypeOK', NEW v \in Visitors,
         AuthFails(v) \/ AuthErrs(v) \/ InsertRefused(v) \/ VisitFails(v)
  PROVE  AccessInv'
<1>1. visit[v] \in Visits
  BY DEF AccessInv, AccessTypeOK
<1>2. CASE AuthFails(v)
  <2> DEFINE x == [visit[v] EXCEPT !.at = "failed"]
  <2>1. x \in Visits /\ Free(x)
    BY <1>1 DEF Visits, VisitStages, Free
  <2>2. visit' = [visit EXCEPT ![v] = x]
    BY <1>1, <1>2 DEF AuthFails
  <2> HIDE DEF x
  <2> QED
    BY <1>2, <2>1, <2>2, FreeVisit DEF AuthFails, sessionVars, flowVars, deviceVars
<1>3. CASE AuthErrs(v)
  <2> DEFINE x == [visit[v] EXCEPT !.at = "failed", !.copy = {}]
  <2>1. x \in Visits /\ Free(x)
    BY <1>1 DEF Visits, VisitStages, Free
  <2>2. visit' = [visit EXCEPT ![v] = x]
    BY <1>1, <1>3 DEF AuthErrs
  <2> HIDE DEF x
  <2> QED
    BY <1>3, <2>1, <2>2, FreeVisit DEF AuthErrs, sessionVars, flowVars
<1>4. CASE InsertRefused(v) \/ VisitFails(v)
  BY <1>4, LeavesInv DEF InsertRefused, VisitFails, sessionVars, flowVars
<1> QED
  BY <1>2, <1>3, <1>4

-----------------------------------------------------------------------------
(* What is stored stays so as long as passwords are only added or revoked. *)
LEMMA StoredStays ==
  ASSUME NEW d, NEW f, Stored(d, f), count \in Nat, count' \in Nat, count <= count',
         devices \cup revoked \subseteq devices' \cup revoked',
         \A e \in 1..count : made'[e] = made[e]
  PROVE  Stored(d, f)'
BY DEF Stored

(* The holder of the lock writes the file, and releases the lock.          *)
LEMMA OneWrite ==
  ASSUME AccessInv, NEW v \in Visitors, NEW x \in Visits,
         visit[v].at \in {"insert", "revoke", "stamp"},
         visit' = [visit EXCEPT ![v] = x],
         x.at \notin {"submit", "insert", "revoke", "stamp"},
         deviceLock' = Unlocked(deviceLock, v),
         UNCHANGED <<flows, started, handedOut, credential>>,
         count' \in Nat, count <= count',
         devices \cup revoked \subseteq devices' \cup revoked',
         \A e \in 1..count : made'[e] = made[e],
         x.at = "complete" => /\ x.id \in 1..count' /\ x.id \in devices' \cup revoked'
                              /\ x.flow # 0 /\ made'[x.id].flow = x.flow
  PROVE  DeviceLocked' /\ FlowsFit'
<1>1. visit \in [Visitors -> Visits] /\ count \in Nat
  BY DeviceAssumption DEF AccessInv, AccessTypeOK
<1>2. visit'[v] = x /\ \A w \in Visitors \ {v} : visit'[w] = visit[w]
  BY <1>1
<1>3. ASSUME NEW w \in Visitors PROVE LockFits(w)'
  <2>1. CASE w = v
    BY <1>2, <2>1 DEF LockFits
  <2>2. CASE w # v
    <3>1. visit[w].at \notin {"insert", "revoke", "stamp"}
      BY <2>2 DEF AccessInv, DeviceLocked, LockFits
    <3> QED
      BY <1>2, <2>2, <3>1 DEF LockFits
  <2> QED
    BY <2>1, <2>2
<1>4. ASSUME NEW d, NEW f, Stored(d, f) PROVE Stored(d, f)'
  BY <1>1, <1>4, StoredStays
<1>5. ASSUME NEW w \in Visitors PROVE VisitFits(w)'
  <2>1. CASE w = v
    BY <1>2, <2>1 DEF VisitFits, Stored
  <2>2. CASE w # v
    BY <1>2, <1>4, <2>2 DEF AccessInv, FlowsFit, VisitFits
  <2> QED
    BY <2>1, <2>2
<1>6. \A f \in Flows : (credential[f] # 0 => Stored(credential[f], f))'
  BY <1>4 DEF AccessInv, FlowsFit, Stored
<1>7. \A h \in handedOut' : (h[1] \in (1..started) \ flows /\ Stored(h[2], h[1]))'
  BY <1>4 DEF AccessInv, FlowsFit
<1>8. flows' \subseteq 1..started'
  BY DEF AccessInv, FlowsFit
<1> QED
  BY <1>3, <1>5, <1>6, <1>7, <1>8 DEF DeviceLocked, FlowsFit

(* The limit looked at under the lock still holds when the file is written. *)
LEMMA LimitKept ==
  ASSUME AccessInv, NEW v \in Visitors, visit[v].at = "insert",
         devices' = devices \cup {count + 1},
         made' = [made EXCEPT ![count + 1] = [user |-> visit[v].user, flow |-> visit[v].flow]]
  PROVE  DeviceLimit'
<1> SUFFICES ASSUME NEW u \in Users
             PROVE  Cardinality({d \in devices' : made'[d].user = u}) <= MaxDevices
  BY DEF DeviceLimit
<1>1. /\ count \in Nat /\ count + 1 \in Made /\ devices \subseteq 1..count
      /\ made \in [Made -> [user : Users \cup {"none"}, flow : Flows \cup {0}]]
      /\ Cardinality(Own(v)) < MaxDevices /\ MaxDevices \in Nat
  BY DeviceAssumption
     DEF AccessInv, AccessTypeOK, Made, Numbered, DeviceLocked, LockFits
<1>2. made'[count + 1].user = visit[v].user /\ \A d \in devices : made'[d] = made[d]
  BY <1>1 DEF Made
<1>3. CASE u # visit[v].user
  <2>1. {d \in devices' : made'[d].user = u} = {d \in devices : made[d].user = u}
    BY <1>2, <1>3
  <2> QED
    BY <2>1 DEF AccessInv, DeviceLimit
<1>4. CASE u = visit[v].user
  <2>1. {d \in devices' : made'[d].user = u} = Own(v) \cup {count + 1}
    BY <1>2, <1>4 DEF Own
  <2>2. IsFiniteSet(1..count)
    BY <1>1, FS_Interval
  <2>3. Own(v) \subseteq 1..count
    BY <1>1 DEF Own
  <2>4. IsFiniteSet(Own(v))
    BY <2>2, <2>3, FS_Subset
  <2>5. count + 1 \notin Own(v)
    BY <1>1, <2>3
  <2>6. Cardinality(Own(v) \cup {count + 1}) = Cardinality(Own(v)) + 1
    BY <2>4, <2>5, FS_AddElement
  <2>7. Cardinality(Own(v)) \in Nat
    BY <2>4, FS_CardinalityType
  <2>8. Cardinality(Own(v) \cup {count + 1}) <= MaxDevices
    BY <1>1, <2>6, <2>7
  <2> QED
    BY <2>1, <2>8, Zenon
<1> QED
  BY <1>3, <1>4

LEMMA InsertWriteInv ==
  ASSUME AccessInv, SessionTypeOK', NEW v \in Visitors, InsertWrite(v)
  PROVE  AccessInv'
<1>1. /\ visit[v] \in Visits /\ visit[v].copy = devices
      /\ count \in Nat /\ count + 1 \in Made /\ count + 1 \in 1..MaxMade
      /\ visit[v].user \in Users \cup {"none"} /\ visit[v].flow \in Flows \cup {0}
  BY DeviceAssumption
     DEF InsertWrite, AccessInv, AccessTypeOK, Made, DeviceLocked, LockFits, FlowsFit,
         VisitFits, Visits
<1>2. /\ devices' = devices \cup {count + 1} /\ count' = count + 1
      /\ made' = [made EXCEPT ![count + 1] = [user |-> visit[v].user, flow |-> visit[v].flow]]
      /\ UNCHANGED <<now, flows, flowAt, started, handedOut, credential, revoked, throttle>>
  BY <1>1 DEF InsertWrite, sessionVars, flowVars
<1>3. PICK x : visit' = [visit EXCEPT ![v] = x] /\
        x = IF visit[v].flow = 0 THEN NoVisit
            ELSE [NoVisit EXCEPT !.at = "complete", !.flow = visit[v].flow, !.id = count + 1]
  BY DEF InsertWrite
<1>4. x \in Visits
  BY <1>1, <1>3 DEF NoVisit, Visits, VisitStages
<1>5. AccessTypeOK'
  <2>1. [user |-> visit[v].user, flow |-> visit[v].flow]
          \in [user : Users \cup {"none"}, flow : Flows \cup {0}]
    BY <1>1
  <2> QED
    BY <1>1, <1>2, <1>3, <1>4, <2>1, DeviceAssumption
       DEF AccessInv, AccessTypeOK, InsertWrite, Unlocked
<1>6. /\ made'[count + 1] = [user |-> visit[v].user, flow |-> visit[v].flow]
      /\ \A e \in 1..count : made'[e] = made[e]
  BY <1>1, <1>2 DEF AccessInv, AccessTypeOK, Made
<1>7. x.at \notin {"submit", "insert", "revoke", "stamp"}
  BY <1>3 DEF NoVisit
<1>8. x.at = "complete" => /\ x.id \in 1..count' /\ x.id \in devices' \cup revoked'
                           /\ x.flow # 0 /\ made'[x.id].flow = x.flow
  BY <1>1, <1>2, <1>3, <1>6 DEF NoVisit
<1>9. DeviceLocked' /\ FlowsFit'
  <2>1. visit[v].at \in {"insert", "revoke", "stamp"} /\ deviceLock' = Unlocked(deviceLock, v)
    BY DEF InsertWrite
  <2>2. /\ count' \in Nat /\ count <= count'
        /\ devices \cup revoked \subseteq devices' \cup revoked'
    BY <1>1, <1>2
  <2>3. UNCHANGED <<flows, started, handedOut, credential>>
    BY <1>2
  <2>4. visit' = [visit EXCEPT ![v] = x]
    BY <1>3
  <2> QED
    BY <1>4, <1>6, <1>7, <1>8, <2>1, <2>2, <2>3, <2>4, OneWrite
<1>10. DeviceLimit'
  BY <1>2, LimitKept DEF InsertWrite
<1>11. Numbered' /\ RevokedStaysOut'
  BY <1>1, <1>2 DEF AccessInv, Numbered, RevokedStaysOut
<1>12. LocksEnd'
  BY <1>2 DEF AccessInv, LocksEnd
<1> QED
  BY <1>5, <1>9, <1>10, <1>11, <1>12 DEF AccessInv

(* Fewer passwords, or the same, are within the limit.                     *)
LEMMA FewerKept ==
  ASSUME AccessInv, devices' \subseteq devices, UNCHANGED made
  PROVE  DeviceLimit'
<1> SUFFICES ASSUME NEW u \in Users
             PROVE  Cardinality({d \in devices' : made'[d].user = u}) <= MaxDevices
  BY DEF DeviceLimit
<1> DEFINE S == {d \in devices : made[d].user = u}
<1> DEFINE T == {d \in devices' : made'[d].user = u}
<1>1. T \subseteq S /\ S \subseteq 1..count /\ count \in Nat
  <2>1. devices \subseteq 1..count /\ count \in Nat
    BY DeviceAssumption DEF AccessInv, AccessTypeOK, Numbered
  <2> QED
    BY <2>1
<1>2. Cardinality(S) <= MaxDevices
  BY DEF AccessInv, DeviceLimit
<1> HIDE DEF S, T
<1>3. IsFiniteSet(1..count)
  BY <1>1, FS_Interval
<1>4. IsFiniteSet(S)
  BY <1>1, <1>3, FS_Subset
<1>5. IsFiniteSet(T) /\ Cardinality(T) <= Cardinality(S)
  BY <1>1, <1>4, FS_Subset
<1>6. Cardinality(T) \in Nat /\ Cardinality(S) \in Nat
  BY <1>4, <1>5, FS_CardinalityType
<1>7. Cardinality(T) <= MaxDevices
  BY <1>2, <1>5, <1>6, DeviceAssumption
<1> QED
  BY <1>7 DEF T

LEMMA RewriteInv ==
  ASSUME AccessInv, SessionTypeOK', NEW v \in Visitors, RevokeWrite(v) \/ AuthStamps(v)
  PROVE  AccessInv'
<1>1. /\ visit[v] \in Visits /\ visit[v].id \in Made \cup {0}
      /\ LockFits(v) /\ count \in Nat
  BY DeviceAssumption DEF AccessInv, AccessTypeOK, DeviceLocked, Visits
<1>2. /\ visit[v].at \in {"revoke", "stamp"}
      /\ deviceLock' = Unlocked(deviceLock, v)
      /\ UNCHANGED <<now, flows, flowAt, started, handedOut, credential, made, count,
                     throttle>>
  BY DEF RevokeWrite, AuthStamps, Leaves, sessionVars, flowVars
<1>3. /\ devices' \subseteq devices /\ revoked' \subseteq revoked \cup devices
      /\ revoked' \cap devices' = {} /\ devices \cup revoked \subseteq devices' \cup revoked'
  BY <1>1 DEF RevokeWrite, AuthStamps, LockFits, AccessInv, RevokedStaysOut
<1>4. PICK x \in Visits : /\ visit' = [visit EXCEPT ![v] = x]
                          /\ x.at \notin {"submit", "insert", "revoke", "stamp", "complete"}
  <2>1. CASE RevokeWrite(v)
    <3>1. NoVisit \in Visits /\ NoVisit.at = "idle"
      BY DEF NoVisit, Visits, VisitStages
    <3> QED
      BY <2>1, <3>1 DEF RevokeWrite, Leaves
  <2>2. CASE AuthStamps(v)
    <3> DEFINE x == [visit[v] EXCEPT !.at = "accepted"]
    <3>1. x \in Visits /\ x.at = "accepted"
      BY <1>1 DEF Visits, VisitStages
    <3>2. visit' = [visit EXCEPT ![v] = x]
      BY <1>1, <2>2 DEF AuthStamps
    <3> QED
      BY <3>1, <3>2
  <2> QED
    BY <2>1, <2>2
<1>5. DeviceLocked' /\ FlowsFit'
  <2>1. visit[v].at \in {"insert", "revoke", "stamp"}
    BY <1>2
  <2>2. x.at \notin {"submit", "insert", "revoke", "stamp"} /\ x.at # "complete"
    BY <1>4
  <2>3. count' \in Nat /\ count <= count' /\ \A e \in 1..count : made'[e] = made[e]
    BY <1>1, <1>2
  <2>4. UNCHANGED <<flows, started, handedOut, credential>>
    BY <1>2
  <2> QED
    BY <1>2, <1>3, <1>4, <2>1, <2>2, <2>3, <2>4, OneWrite
<1>6. AccessTypeOK'
  BY <1>2, <1>3, <1>4 DEF AccessInv, AccessTypeOK, Unlocked
<1>7. DeviceLimit'
  BY <1>2, <1>3, FewerKept
<1>8. Numbered' /\ RevokedStaysOut' /\ LocksEnd'
  BY <1>2, <1>3 DEF AccessInv, Numbered, RevokedStaysOut, LocksEnd
<1> QED
  BY <1>5, <1>6, <1>7, <1>8 DEF AccessInv

-----------------------------------------------------------------------------
(* The end of a flow, and the app that starts and polls it.                *)
LEMMA CompleteInv ==
  ASSUME AccessInv, SessionTypeOK', NEW v \in Visitors, Complete(v)
  PROVE  AccessInv'
<1>1. /\ visit' = [visit EXCEPT ![v] = NoVisit]
      /\ deviceLock' = Unlocked(deviceLock, v)
      /\ UNCHANGED <<now, devices, made, count, revoked, flows, flowAt, started, handedOut,
                     throttle>>
  BY DEF Complete, Leaves, sessionVars
<1>2. /\ visit[v] \in Visits /\ visit[v].id \in Made \cup {0}
      /\ credential \in [Flows -> Made \cup {0}]
      /\ Stored(visit[v].id, visit[v].flow)
  BY DEF Complete, AccessInv, AccessTypeOK, FlowsFit, VisitFits, Visits
<1>3. NoVisit \in Visits /\ NoVisit.at = "idle"
  BY DEF NoVisit, Visits, VisitStages
<1>4. visit'[v].at = "idle"
  BY <1>1, <1>3 DEF AccessInv, AccessTypeOK
<1>5. AccessTypeOK'
  BY <1>1, <1>2, <1>3 DEF Complete, AccessInv, AccessTypeOK, Unlocked
<1>6. \A f \in Flows : credential'[f] # 0 => Stored(credential'[f], f)
  BY <1>2 DEF Complete, AccessInv, FlowsFit
<1>7. LockFits(v)' /\ VisitFits(v)'
  BY <1>4 DEF LockFits, VisitFits
<1>8. LocksEnd'
  BY <1>1 DEF AccessInv, LocksEnd
<1> QED
  BY <1>1, <1>5, <1>6, <1>7, <1>8, OneVisit DEF AccessInv

LEMMA FlowInv ==
  ASSUME AccessInv, SessionTypeOK',
         StartFlow \/ StartRefused \/ \E f \in Flows : Poll(f) \/ PollExpired(f)
  PROVE  AccessInv'
<1>1. /\ UNCHANGED <<now, devices, deviceLock, made, count, revoked, credential, throttle,
                     visit>>
      /\ started' \in Nat /\ started \in Nat /\ started <= started' /\ started' <= MaxStarted
      /\ flows' \subseteq flows \cup (1..started' \ 1..started)
      /\ now \in Time
  BY DeviceAssumption
     DEF StartFlow, StartRefused, Poll, PollExpired, RetainedFlows, sessionVars, deviceVars,
         AccessInv, AccessTypeOK, SessionTypeOK
<1>2. \A h \in handedOut' : /\ h \in handedOut \/ \E f \in Flows : /\ h = <<f, credential[f]>>
                                                                  /\ credential[f] # 0
                                                                  /\ f \in flows \ flows'
  BY DEF StartFlow, StartRefused, Poll, PollExpired
<1>3. AccessTypeOK'
  <2>1. flows' \subseteq Flows /\ started' \in 0..MaxStarted
    BY <1>1, DeviceAssumption DEF AccessInv, AccessTypeOK, Flows
  <2>2. flowAt' \in [Flows -> Time]
    BY <1>1 DEF StartFlow, StartRefused, Poll, PollExpired, AccessInv, AccessTypeOK
  <2>3. handedOut' \subseteq Flows \X Made
    BY <1>2 DEF AccessInv, AccessTypeOK
  <2> QED
    BY <1>1, <2>1, <2>2, <2>3 DEF AccessInv, AccessTypeOK
<1>4. FlowsFit'
  <2>1. flows' \subseteq 1..started'
    BY <1>1 DEF AccessInv, FlowsFit
  <2>2. ASSUME NEW h \in handedOut'
        PROVE  h[1] \in (1..started') \ flows' /\ Stored(h[2], h[1])
    <3>1. CASE h \in handedOut
      <4>1. h[1] \in (1..started) \ flows /\ Stored(h[2], h[1])
        BY <3>1 DEF AccessInv, FlowsFit
      <4> QED
        BY <1>1, <4>1
    <3>2. CASE h \notin handedOut
      <4>1. PICK f \in Flows : /\ h = <<f, credential[f]>> /\ credential[f] # 0
                               /\ f \in flows \ flows'
        BY <1>2, <3>2
      <4>2. f \in 1..started /\ Stored(credential[f], f)
        BY <4>1 DEF AccessInv, FlowsFit
      <4> QED
        BY <1>1, <4>1, <4>2
    <3> QED
      BY <3>1, <3>2
  <2>3. \A v \in Visitors : VisitFits(v)'
    BY <1>1 DEF AccessInv, FlowsFit, VisitFits, Stored
  <2>4. \A f \in Flows : credential'[f] # 0 => Stored(credential'[f], f)
    BY <1>1 DEF AccessInv, FlowsFit
  <2> QED
    BY <1>1, <2>1, <2>2, <2>3, <2>4 DEF FlowsFit, Stored
<1>5. DeviceLocked'
  BY <1>1 DEF AccessInv, DeviceLocked, LockFits, Own
<1>6. Numbered' /\ RevokedStaysOut' /\ DeviceLimit' /\ LocksEnd'
  BY <1>1 DEF AccessInv, Numbered, RevokedStaysOut, DeviceLimit, LocksEnd
<1> QED
  BY <1>3, <1>4, <1>5, <1>6 DEF AccessInv

-----------------------------------------------------------------------------
(* The throttle.                                                           *)
LEMMA FailedEntry ==
  ASSUME AccessInv, NEW k \in Keys
  PROVE  /\ Failed(k) \in Entries(k)
         /\ Failed(k).until <= now + LockTime
         /\ k \in Tracked => Failed(k).until >= throttle[k].until
<1>1. /\ now \in Time /\ MaxTime \in Nat /\ LockTime \in Nat /\ Limit[k] \in Nat \ {0}
      /\ Window \in Nat
  BY SessionAssumption, DeviceAssumption
     DEF AccessInv, AccessTypeOK, SessionTypeOK, Keys
<1>2. k \in Tracked => /\ throttle[k] \in Entries(k)
                       /\ throttle[k].until <= now + LockTime
  BY DEF AccessInv, AccessTypeOK, LocksEnd, Tracked
<1> DEFINE known == k \in Tracked /\ InWindow(k)
<1> DEFINE n == IF known THEN throttle[k].failures + 1 ELSE 1
<1> DEFINE e == [failures |-> IF n >= Limit[k] THEN 0 ELSE n,
                 since    |-> IF known /\ n < Limit[k] THEN throttle[k].since ELSE now,
                 until    |-> IF n >= Limit[k] THEN now + LockTime
                              ELSE IF k \in Tracked THEN throttle[k].until ELSE 0]
<1>3. Failed(k) = e
  BY DEF Failed
<1>4. k \in Tracked => /\ throttle[k].failures \in Nat /\ throttle[k].failures < Limit[k]
                       /\ throttle[k].since \in Time
                       /\ throttle[k].until \in 0..(MaxTime + LockTime)
  BY <1>1, <1>2 DEF Entries
<1>5. n \in Nat
  BY <1>4
<1>6. e.failures \in 0..(Limit[k] - 1)
  BY <1>1, <1>5
<1>7. e.since \in Time
  BY <1>1, <1>4
<1>8. /\ e.until \in 0..(MaxTime + LockTime) /\ e.until <= now + LockTime
      /\ k \in Tracked => e.until >= throttle[k].until
  BY <1>1, <1>2, <1>4 DEF Time
<1>9. e \in Entries(k)
  BY <1>6, <1>7, <1>8 DEF Entries
<1> HIDE DEF e
<1> QED
  BY <1>3, <1>8, <1>9

LEMMA CountInv ==
  ASSUME AccessInv, SessionTypeOK', NEW v \in Visitors, RecordFailure(v) \/ RecordSuccess(v)
  PROVE  AccessInv'
<1>1. /\ visit' = [visit EXCEPT ![v] = NoVisit]
      /\ UNCHANGED <<now, devices, deviceLock, made, count, revoked, flows, flowAt, started,
                     credential, handedOut>>
  BY DEF RecordFailure, RecordSuccess, sessionVars, flowVars, deviceVars
<1>2. NoVisit \in Visits /\ NoVisit.at = "idle" /\ visit[v].keys \subseteq Keys
  BY DEF NoVisit, Visits, VisitStages, AccessInv, AccessTypeOK
<1>3. visit'[v].at = "idle"
  BY <1>1, <1>2 DEF AccessInv, AccessTypeOK
<1>4. /\ DOMAIN throttle' \subseteq Keys
      /\ \A k \in DOMAIN throttle' : throttle'[k] \in Entries(k)
      /\ \A k \in DOMAIN throttle' : throttle'[k].until <= now + LockTime
  <2>1. CASE RecordFailure(v)
    <3>1. Tracked \subseteq DOMAIN throttle /\ DOMAIN throttle \subseteq Keys
      BY DEF Tracked, AccessInv, AccessTypeOK
    <3>2. \A k \in visit[v].keys : /\ Failed(k) \in Entries(k)
                                   /\ Failed(k).until <= now + LockTime
      BY <1>2, FailedEntry
    <3>3. \A k \in DOMAIN throttle : /\ throttle[k] \in Entries(k)
                                     /\ throttle[k].until <= now + LockTime
      BY DEF AccessInv, AccessTypeOK, LocksEnd
    <3>4. throttle' = [k \in Tracked \cup visit[v].keys |->
                         IF k \in visit[v].keys THEN Failed(k) ELSE throttle[k]]
      BY <2>1 DEF RecordFailure
    <3>5. /\ DOMAIN throttle' = Tracked \cup visit[v].keys
          /\ \A k \in DOMAIN throttle' :
               throttle'[k] = IF k \in visit[v].keys THEN Failed(k) ELSE throttle[k]
      BY <3>4
    <3> QED
      BY <1>2, <3>1, <3>2, <3>3, <3>5
  <2>2. CASE RecordSuccess(v)
    BY <2>2 DEF RecordSuccess, AccessInv, AccessTypeOK, LocksEnd
  <2> QED
    BY <2>1, <2>2
<1>5. AccessTypeOK'
  BY <1>1, <1>2, <1>4 DEF AccessInv, AccessTypeOK, Entries
<1>6. LocksEnd'
  BY <1>1, <1>4 DEF LocksEnd
<1>7. \A f \in Flows : credential'[f] # 0 => Stored(credential'[f], f)
  BY <1>1 DEF AccessInv, FlowsFit
<1>8. LockFits(v)' /\ VisitFits(v)'
  BY <1>3 DEF LockFits, VisitFits
<1> QED
  BY <1>1, <1>5, <1>6, <1>7, <1>8, OneVisit DEF AccessInv

(* Only a tick moves the clock, and only a restart the count of restarts.  *)
LEMMA SessionsKeepTime == SessionStep => UNCHANGED <<now, crashes>>
<1> SUFFICES ASSUME SessionStep PROVE UNCHANGED <<now, crashes>>
  OBVIOUS
<1>1. CASE BeginLogin \/ BeginRefused
  BY <1>1 DEF BeginLogin, BeginRefused
<1>2. ASSUME NEW c \in Callers, SessionCall(c) PROVE UNCHANGED <<now, crashes>>
  BY <1>2 DEF SessionCall, Callback, OidcLogin, Exchanged, Setup, SetupWrite, PasswordLogin,
     IssueRead, IssueWrite, RefreshTake, RefreshTooLate, RefreshIssue, Write, CallFails
<1> QED
  BY <1>1, <1>2 DEF SessionStep

(* What leaves requests, flows, files and the throttle alone.              *)
LEMMA TimeInv ==
  ASSUME AccessInv, SessionTypeOK', UNCHANGED accessVars, now' = now \/ now' = now + 1
  PROVE  AccessInv'
<1>1. UNCHANGED <<devices, deviceLock, made, count, revoked, credential, throttle, visit,
                  flows, flowAt, started, handedOut>>
  BY DEF accessVars, flowVars, deviceVars
<1>2. AccessTypeOK'
  BY <1>1 DEF AccessInv, AccessTypeOK, Entries
<1>3. DeviceLocked' /\ Numbered' /\ RevokedStaysOut' /\ DeviceLimit'
  BY <1>1 DEF AccessInv, DeviceLocked, LockFits, Own, Numbered, RevokedStaysOut, DeviceLimit
<1>4. FlowsFit'
  BY <1>1 DEF AccessInv, FlowsFit, VisitFits, Stored
<1>5. ASSUME NEW k \in DOMAIN throttle PROVE throttle[k].until <= now' + LockTime
  <2>1. /\ throttle[k].until \in 0..(MaxTime + LockTime) /\ now \in Time
        /\ LockTime \in Nat /\ MaxTime \in Nat /\ throttle[k].until <= now + LockTime
    BY <1>5, SessionAssumption, DeviceAssumption
       DEF AccessInv, AccessTypeOK, Entries, SessionTypeOK, LocksEnd
  <2> QED
    BY <2>1 DEF Time
<1>6. LocksEnd'
  BY <1>1, <1>5 DEF LocksEnd
<1> QED
  BY <1>2, <1>3, <1>4, <1>6 DEF AccessInv

LEMMA CrashInv ==
  ASSUME AccessInv, SessionTypeOK', Crash
  PROVE  AccessInv'
<1>1. /\ flows' = {} /\ DOMAIN throttle' = {} /\ deviceLock' = Nobody
      /\ visit' = [v \in Visitors |-> NoVisit]
      /\ UNCHANGED <<flowAt, credential, started, handedOut, devices, made, count, revoked>>
  BY DEF Crash
<1>2. NoVisit \in Visits /\ NoVisit.at = "idle"
  BY DEF NoVisit, Visits, VisitStages
<1>3. \A v \in Visitors : visit'[v].at = "idle"
  BY <1>1, <1>2
<1>4. AccessTypeOK'
  BY <1>1, <1>2 DEF AccessInv, AccessTypeOK
<1>5. FlowsFit'
  <2>1. \A h \in handedOut' : h[1] \in (1..started) \ flows' /\ Stored(h[2], h[1])
    BY <1>1 DEF AccessInv, FlowsFit
  <2> QED
    BY <1>1, <1>3, <2>1 DEF AccessInv, FlowsFit, VisitFits, Stored
<1>6. DeviceLocked' /\ LocksEnd'
  BY <1>1, <1>3 DEF DeviceLocked, LockFits, LocksEnd
<1>7. Numbered' /\ RevokedStaysOut' /\ DeviceLimit'
  BY <1>1 DEF AccessInv, Numbered, RevokedStaysOut, DeviceLimit
<1> QED
  BY <1>4, <1>5, <1>6, <1>7 DEF AccessInv

LEMMA AccessInvStep == AccessInv /\ SessionTypeOK' /\ [Next]_vars => AccessInv'
<1> SUFFICES ASSUME AccessInv, SessionTypeOK', [Next]_vars PROVE AccessInv'
  OBVIOUS
<1>1. CASE UNCHANGED vars
  BY <1>1, TimeInv DEF vars, sessionVars
<1>2. CASE SessionStep /\ UNCHANGED accessVars
  BY <1>2, SessionsKeepTime, TimeInv
<1>3. CASE AccessStep
  <2>1. CASE StartFlow \/ StartRefused \/ \E f \in Flows : Poll(f) \/ PollExpired(f)
    BY <2>1, FlowInv
  <2>2. ASSUME NEW v \in Visitors, Visit(v) PROVE AccessInv'
    <3>1. CASE \/ \E f \in Flows, i \in Ids : Submit(v, f, i)
               \/ \E i \in Ids : Create(v, i)
               \/ \E a \in Addresses, n \in Names, d \in 0..count : AuthCheck(v, a, n, d)
      BY <3>1, AsksInv
    <3>2. CASE InsertRead(v) \/ (\E i \in Ids, d \in Made : RevokeRead(v, i, d)) \/ AuthFinds(v)
      BY <3>2, LocksInv
    <3>3. CASE AuthFails(v) \/ AuthErrs(v) \/ InsertRefused(v) \/ VisitFails(v)
      BY <3>3, FailsInv
    <3>4. CASE InsertWrite(v)
      BY <3>4, InsertWriteInv
    <3>5. CASE RevokeWrite(v) \/ AuthStamps(v)
      BY <3>5, RewriteInv
    <3>6. CASE Complete(v)
      BY <3>6, CompleteInv
    <3>7. CASE RecordFailure(v) \/ RecordSuccess(v)
      BY <3>7, CountInv
    <3> QED
      BY <2>2, <3>1, <3>2, <3>3, <3>4, <3>5, <3>6, <3>7 DEF Visit
  <2> QED
    BY <1>3, <2>1, <2>2 DEF AccessStep
<1>4. CASE Tick
  BY <1>4, TimeInv DEF Tick, SessionTick
<1>5. CASE Crash
  BY <1>5, CrashInv
<1> QED
  BY <1>1, <1>2, <1>3, <1>4, <1>5 DEF Next

LEMMA AccessInvHolds == Spec => []AccessInv
<1>1. Spec => []SessionTypeOK
  BY SessionsAreKept, SessionTypesCorrect, PTL
<1>2. AccessInv /\ SessionTypeOK /\ SessionTypeOK' /\ [Next]_vars => AccessInv'
  BY AccessInvStep
<1> QED
  BY <1>1, <1>2, AccessInitially, PTL DEF Spec

(* The variables of both parts keep their types.                           *)
THEOREM AccessTypesCorrect == Spec => []AccessTypeOK
<1>1. AccessInv => AccessTypeOK
  BY DEF AccessInv
<1> QED
  BY <1>1, AccessInvHolds, PTL

(* A revoked password never works again, whoever was reading the file when *)
(* it was revoked.                                                         *)
THEOREM RevokedNeverReturn == Spec => []RevokedStaysOut
<1>1. AccessInv => RevokedStaysOut
  BY DEF AccessInv
<1> QED
  BY <1>1, AccessInvHolds, PTL

(* No user has more device passwords than the server allows.               *)
THEOREM WithinTheLimit == Spec => []DeviceLimit
<1>1. AccessInv => DeviceLimit
  BY DEF AccessInv
<1> QED
  BY <1>1, AccessInvHolds, PTL

(* A password that a poll handed out was made for its flow, and is stored. *)
THEOREM WhatIsHandedOutWorks == Spec => []HandedOutWorks
<1>1. AccessInv => HandedOutWorks
  BY DEF AccessInv, FlowsFit, Stored, HandedOutWorks
<1> QED
  BY <1>1, AccessInvHolds, PTL

(* A flow hands out one password, once, and no two flows the same.         *)
THEOREM HandedOutOnlyOnce == Spec => HandedOutOnce
<1> DEFINE Once == \A h \in handedOut' \ handedOut :
                     /\ \A g \in handedOut : g[1] # h[1] /\ g[2] # h[2]
                     /\ h[1] \in flows \ flows'
<1>1. AccessInv /\ [Next]_vars => [Once]_vars
  <2> SUFFICES ASSUME AccessInv, Next, NEW h \in handedOut' \ handedOut
               PROVE  /\ \A g \in handedOut : g[1] # h[1] /\ g[2] # h[2]
                      /\ h[1] \in flows \ flows'
    OBVIOUS
  <2>1. PICK f \in Flows : Poll(f)
    <3>1. ~(SessionStep /\ UNCHANGED accessVars) /\ ~Tick /\ ~Crash
      BY DEF accessVars, flowVars, Tick, Crash
    <3>2. ASSUME NEW v \in Visitors, Visit(v) PROVE FALSE
      BY <3>2 DEF Visit, Submit, Create, InsertRead, InsertRefused, InsertWrite, Complete,
         RevokeRead, RevokeWrite, AuthCheck, AuthFails, AuthFinds, AuthStamps, AuthErrs,
         RecordFailure, RecordSuccess, VisitFails, flowVars
    <3>3. ~StartFlow /\ ~StartRefused /\ \A f \in Flows : ~PollExpired(f)
      BY DEF StartFlow, StartRefused, PollExpired
    <3> QED
      BY <3>1, <3>2, <3>3 DEF Next, AccessStep
  <2>2. h = <<f, credential[f]>> /\ f \in flows \ flows' /\ credential[f] # 0
    BY <2>1 DEF Poll
  <2>3. made[credential[f]].flow = f
    BY <2>2 DEF AccessInv, FlowsFit, Stored
  <2>4. ASSUME NEW g \in handedOut PROVE g[1] # f /\ made[g[2]].flow = g[1]
    BY <2>2 DEF AccessInv, FlowsFit, Stored
  <2> QED
    BY <2>2, <2>3, <2>4
<1> QED
  BY <1>1, AccessInvHolds, PTL DEF Spec, HandedOutOnce

(* A lock of the throttle lasts, or ends with a success or a restart.      *)
THEOREM LocksLast == Spec => LockHolds
<1> DEFINE Ended(k) == \/ now' >= throttle[k].until
                       \/ \E v \in Visitors : visit[v].at = "accepted" /\ k \in visit[v].keys
                       \/ crashes' > crashes
<1>1. ASSUME AccessInv, Next, NEW k \in Keys, Locked(k), ~Locked(k)' PROVE Ended(k)
  <2>1. CASE UNCHANGED throttle /\ (now' = now \/ now' = now + 1)
    <3>1. ~(throttle[k].until > now')
      BY <1>1, <2>1 DEF Locked
    <3>2. throttle[k].until \in Nat /\ now \in Nat
      BY <1>1, SessionAssumption, DeviceAssumption
         DEF Locked, AccessInv, AccessTypeOK, Entries, SessionTypeOK, Time
    <3> QED
      BY <2>1, <3>1, <3>2
  <2>2. CASE Crash
    BY <1>1, <2>2, SessionAssumption
       DEF Crash, SessionCrash, AccessInv, AccessTypeOK, SessionTypeOK
  <2>3. ASSUME NEW v \in Visitors, RecordFailure(v) PROVE FALSE
    <3>1. k \in Tracked
      BY <1>1 DEF Locked, Tracked
    <3>2. now' = now /\ throttle' = [j \in Tracked \cup visit[v].keys |->
                                       IF j \in visit[v].keys THEN Failed(j) ELSE throttle[j]]
      BY <2>3 DEF RecordFailure, sessionVars
    <3>3. throttle'[k] = IF k \in visit[v].keys THEN Failed(k) ELSE throttle[k]
      BY <3>1, <3>2
    <3>4. Failed(k).until >= throttle[k].until /\ Failed(k) \in Entries(k)
      BY <1>1, <3>1, FailedEntry
    <3>5. throttle[k].until \in Nat /\ now \in Nat /\ Failed(k).until \in Nat
      BY <1>1, <3>4, SessionAssumption, DeviceAssumption
         DEF Locked, AccessInv, AccessTypeOK, Entries, SessionTypeOK, Time
    <3>6. throttle'[k].until > now'
      BY <1>1, <3>2, <3>3, <3>4, <3>5 DEF Locked
    <3> QED
      BY <1>1, <3>1, <3>2, <3>6 DEF Locked
  <2>4. ASSUME NEW v \in Visitors, RecordSuccess(v) PROVE Ended(k)
    <3>1. CASE k \in visit[v].keys
      BY <2>4, <3>1 DEF RecordSuccess
    <3>2. CASE k \notin visit[v].keys
      BY <1>1, <2>4, <3>2 DEF RecordSuccess, sessionVars, Locked
    <3> QED
      BY <3>1, <3>2
  <2>5. CASE StartFlow \/ StartRefused \/ \E f \in Flows : Poll(f) \/ PollExpired(f)
    BY <2>1, <2>5 DEF StartFlow, StartRefused, Poll, PollExpired, sessionVars
  <2>6. ASSUME NEW v \in Visitors, Visit(v), ~RecordFailure(v), ~RecordSuccess(v)
        PROVE  UNCHANGED <<throttle, now>>
    BY <2>6 DEF Visit, Submit, Create, InsertRead, InsertRefused, InsertWrite, Complete,
       RevokeRead, RevokeWrite, AuthCheck, AuthFails, AuthFinds, AuthStamps, AuthErrs,
       VisitFails, sessionVars
  <2>7. CASE SessionStep /\ UNCHANGED accessVars
    BY <2>1, <2>7, SessionsKeepTime DEF accessVars
  <2>8. CASE Tick
    BY <2>1, <2>8 DEF Tick, SessionTick, accessVars
  <2> QED
    BY <1>1, <2>1, <2>2, <2>3, <2>4, <2>5, <2>6, <2>7, <2>8 DEF Next, AccessStep
<1>2. AccessInv /\ [Next]_vars
        => [\A k \in Keys : Locked(k) /\ ~Locked(k)' => Ended(k)]_vars
  BY <1>1
<1> QED
  BY <1>2, AccessInvHolds, PTL DEF Spec, LockHolds
=============================================================================
