-------------------------- MODULE SaberRendererProofs --------------------------
(***************************************************************************)
(* No scheduled path is forgotten, for any number of notes, requests,      *)
(* tasks, failures and restarts.                                           *)
(***************************************************************************)
EXTENDS SaberRenderer, TLAPS

TaskRecords == [at : Stages, names : SUBSET Notes, on : SUBSET Notes,
                got : Contents \X Contents]

(* A task renders one note, between the read of it and the write.          *)
OneNote ==
  \A t \in Tasks :
    /\ task[t].at \in {"asset", "write", "erase"} => \E n \in Notes : task[t].on = {n}
    /\ task[t].at \notin {"asset", "write", "erase"} => task[t].on = {}

(* Paths are with the tasks that will read them.                           *)
NamesKept ==
  \A t \in Tasks :
    /\ task[t].at \in {"none", "sleep"} => task[t].names = {}
    /\ t > puts => task[t].at = "none"

(* What the task has read of the note is still so.                         *)
GotCurrent(t, n) ==
  \/ task[t].at = "erase" /\ note[n] = NoFile
  \/ task[t].at = "asset" /\ note[n] # NoFile /\ task[t].got[1] = note[n]
  \/ task[t].at = "write" /\ note[n] # NoFile /\ task[t].got = <<note[n], asset[n]>>

Alone(n) ==
  \A t, u \in Tasks : Rendering(t, n) /\ Rendering(u, n) => t = u

(* Nobody has to read the note again: it is in its PDF, or on its way.     *)
UpToDate(n) ==
  \/ /\ pdf[n] = Current(n)
     /\ \A t \in Tasks : ~Rendering(t, n)
  \/ \E t \in Tasks : Rendering(t, n) /\ GotCurrent(t, n)

Fits(n) == n \notin stale => Alone(n) /\ (Awaits(n) \/ UpToDate(n))

RendererInv ==
  /\ RendererTypeOK /\ OneNote /\ NamesKept
  /\ \A n \in Notes : Fits(n)

LEMMA RendererInitially == RendererInit => RendererInv
<1> SUFFICES ASSUME RendererInit PROVE RendererInv
  OBVIOUS
<1>1. Fresh \in TaskRecords
  BY DEF Fresh, TaskRecords, Stages, Contents
<1>2. RendererTypeOK
  BY <1>1, RendererAssumption DEF RendererInit, RendererTypeOK, TaskRecords, Contents
<1>3. \A t \in Tasks : task[t] = Fresh
  BY DEF RendererInit
<1>4. OneNote /\ NamesKept
  BY <1>3 DEF OneNote, NamesKept, Fresh
<1>5. ASSUME NEW n \in Notes PROVE Alone(n) /\ UpToDate(n)
  <2>1. \A t \in Tasks : ~Rendering(t, n)
    BY <1>3 DEF Rendering, Fresh
  <2>2. pdf[n] = Current(n)
    BY DEF RendererInit, Current
  <2> QED
    BY <2>1, <2>2 DEF Alone, UpToDate
<1> QED
  BY <1>2, <1>4, <1>5 DEF RendererInv, Fits

-----------------------------------------------------------------------------
(* A request of the device: the notes it touches are awaited, and the      *)
(* others are as before.                                                   *)
LEMMA SchedulesInv ==
  ASSUME RendererInv, NEW names \in SUBSET Notes, Schedules(names),
         note' \in [Notes -> Contents], asset' \in [Notes -> Contents], config' \in BOOLEAN,
         \A n \in Notes \ names : note'[n] = note[n] /\ asset'[n] = asset[n]
  PROVE  RendererInv'
<1> DEFINE new == puts + 1
<1> DEFINE x == [Fresh EXCEPT !.at = "spawned", !.names = names]
<1>1. /\ puts \in Nat /\ new \in Tasks /\ puts' = new /\ puts' \in 0..MaxPuts
      /\ task \in [Tasks -> TaskRecords]
  BY RendererAssumption
     DEF RendererInv, RendererTypeOK, Schedules, Tasks, TaskRecords
<1>2. x \in TaskRecords /\ x.at = "spawned" /\ x.names = names /\ x.on = {}
  BY DEF Fresh, TaskRecords, Stages, Contents
<1>3. task' = [task EXCEPT ![new] = x]
  BY DEF Schedules
<1> HIDE DEF x
<1>4. /\ task'[new] = x
      /\ \A t \in Tasks \ {new} : task'[t] = task[t]
  BY <1>1, <1>3
<1>5. task[new].at = "none" /\ task[new].names = {} /\ task[new].on = {}
  BY <1>1 DEF RendererInv, NamesKept, OneNote
<1>6. RendererTypeOK'
  <2>1. task' \in [Tasks -> TaskRecords]
    BY <1>1, <1>2, <1>3
  <2>2. stale' \in SUBSET Notes
    BY DEF Schedules, RendererInv, RendererTypeOK
  <2> QED
    BY <1>1, <2>1, <2>2 DEF Schedules, RendererInv, RendererTypeOK, TaskRecords
<1>7. OneNote'
  BY <1>2, <1>4 DEF RendererInv, OneNote
<1>8. NamesKept'
  BY <1>1, <1>2, <1>4 DEF RendererInv, NamesKept, Tasks
<1>9. ASSUME NEW n \in Notes, n \notin stale' PROVE (Alone(n) /\ (Awaits(n) \/ UpToDate(n)))'
  <2>1. \A t \in Tasks : Rendering(t, n)' <=> Rendering(t, n)
    BY <1>2, <1>4, <1>5 DEF Rendering
  <2>2. n \in stale => \A t \in Tasks : ~Rendering(t, n)
    BY <1>9 DEF Schedules
  <2>3. Alone(n)
    BY <2>2 DEF RendererInv, Fits, Alone
  <2>4. Alone(n)'
    BY <2>1, <2>3 DEF Alone
  <2>5. CASE n \in names
    BY <1>1, <1>2, <1>4, <2>4, <2>5 DEF Awaits
  <2>6. CASE n \notin names
    <3>1. n \notin stale
      BY <1>9, <2>6 DEF Schedules
    <3>2. Awaits(n) \/ UpToDate(n)
      BY <3>1 DEF RendererInv, Fits
    <3>3. CASE Awaits(n)
      BY <1>4, <1>5, <2>4, <3>3 DEF Awaits, Schedules
    <3>4. CASE UpToDate(n)
      <4>1. note'[n] = note[n] /\ asset'[n] = asset[n] /\ pdf' = pdf
        BY <2>6 DEF Schedules
      <4>2. ASSUME NEW t \in Tasks, Rendering(t, n) PROVE task'[t] = task[t]
        BY <1>4, <1>5, <4>2 DEF Rendering
      <4>3. UpToDate(n)'
        BY <2>1, <3>4, <4>1, <4>2 DEF UpToDate, GotCurrent, Current
      <4> QED
        BY <2>4, <4>3
    <3> QED
      BY <3>2, <3>3, <3>4
  <2> QED
    BY <2>5, <2>6
<1>10. \A n \in Notes : Fits(n)'
  BY <1>9 DEF Fits
<1> QED
  BY <1>6, <1>7, <1>8, <1>10 DEF RendererInv

LEMMA DeviceInv == ASSUME RendererInv, DeviceStep PROVE RendererInv'
<1>1. /\ puts + 1 \in Contents \/ ~(puts < MaxPuts)
      /\ NoFile \in Contents
      /\ note \in [Notes -> Contents] /\ asset \in [Notes -> Contents] /\ config \in BOOLEAN
  BY RendererAssumption DEF RendererInv, RendererTypeOK, Contents
<1>2. CASE PutConfig
  BY <1>1, <1>2, SchedulesInv DEF PutConfig
<1>3. ASSUME NEW n \in Notes, PutNote(n) \/ DeleteNote(n) PROVE RendererInv'
  <2>1. /\ Schedules({n}) /\ UNCHANGED <<asset, config>> /\ note' \in [Notes -> Contents]
        /\ \A m \in Notes \ {n} : note'[m] = note[m]
    BY <1>1, <1>3 DEF PutNote, DeleteNote, Schedules
  <2> QED
    BY <1>1, <2>1, SchedulesInv
<1>4. ASSUME NEW n \in Notes, PutAsset(n) PROVE RendererInv'
  <2>1. /\ Schedules({n}) /\ UNCHANGED <<note, config>> /\ asset' \in [Notes -> Contents]
        /\ \A m \in Notes \ {n} : asset'[m] = asset[m]
    BY <1>1, <1>4 DEF PutAsset, Schedules
  <2> QED
    BY <1>1, <2>1, SchedulesInv
<1>5. ASSUME NEW n \in Notes, NEW m \in Notes, NEW copies \in BOOLEAN, MoveNote(n, m, copies)
      PROVE  RendererInv'
  <2>1. /\ Schedules({n, m}) /\ UNCHANGED <<asset, config>>
        /\ note' = [note EXCEPT ![n] = IF copies THEN note[n] ELSE NoFile, ![m] = note[n]]
    BY <1>5 DEF MoveNote
  <2>2. note' \in [Notes -> Contents] /\ \A k \in Notes \ {n, m} : note'[k] = note[k]
    BY <1>1, <2>1
  <2> QED
    BY <1>1, <2>1, <2>2, SchedulesInv
<1> QED
  BY <1>2, <1>3, <1>4, <1>5 DEF DeviceStep

-----------------------------------------------------------------------------
(* A step of one task, which was at work; `Kept` is what it must keep of   *)
(* each note.                                                              *)
Kept(n) == n \notin stale' => Alone(n)' /\ (Awaits(n) \/ UpToDate(n))'

Shaped(x) ==
  /\ x.at \in {"asset", "write", "erase"} => \E n \in Notes : x.on = {n}
  /\ x.at \notin {"asset", "write", "erase"} => x.on = {}
  /\ x.at \in {"none", "sleep"} => x.names = {}

LEMMA OneTask ==
  ASSUME RendererInv, NEW t \in Tasks, NEW x \in TaskRecords, Shaped(x),
         task[t].at # "none",
         task' = [task EXCEPT ![t] = x],
         UNCHANGED <<puts, note, asset, config>>,
         faults' \in 0..MaxFaults, queue' \in SUBSET Notes, stale' \in SUBSET Notes,
         pdf' \in [Notes -> Contents \X Contents],
         \A n \in Notes : Kept(n)
  PROVE  RendererInv'
<1>1. task \in [Tasks -> TaskRecords]
  BY DEF RendererInv, RendererTypeOK, TaskRecords
<1>2. task'[t] = x /\ \A u \in Tasks \ {t} : task'[u] = task[u]
  BY <1>1
<1>3. RendererTypeOK'
  <2>1. task' \in [Tasks -> TaskRecords]
    BY <1>1
  <2> QED
    BY <2>1 DEF RendererInv, RendererTypeOK, TaskRecords
<1>4. OneNote' /\ NamesKept'
  BY <1>2 DEF RendererInv, OneNote, NamesKept, Shaped
<1>5. \A n \in Notes : Fits(n)'
  BY DEF Kept, Fits
<1> QED
  BY <1>3, <1>4, <1>5 DEF RendererInv

(* What a task does that renders nothing: it passes on what it holds.      *)
LEMMA PassedOn ==
  ASSUME RendererInv, NEW t \in Tasks, NEW x \in TaskRecords,
         task' = [task EXCEPT ![t] = x],
         task[t].on = {}, x.on = {},
         UNCHANGED <<note, asset, pdf>>,
         stale \subseteq stale',
         queue \cup task[t].names \subseteq queue' \cup x.names \cup stale'
  PROVE  \A n \in Notes : Kept(n)
<1> SUFFICES ASSUME NEW n \in Notes, n \notin stale'
             PROVE  Alone(n)' /\ (Awaits(n) \/ UpToDate(n))'
  BY DEF Kept
<1>1. task \in [Tasks -> TaskRecords]
  BY DEF RendererInv, RendererTypeOK, TaskRecords
<1>2. task'[t] = x /\ \A u \in Tasks \ {t} : task'[u] = task[u]
  BY <1>1
<1>3. \A u \in Tasks : Rendering(u, n)' <=> Rendering(u, n)
  BY <1>2 DEF Rendering
<1>4. Alone(n) /\ (Awaits(n) \/ UpToDate(n))
  BY DEF RendererInv, Fits
<1>5. Alone(n)'
  BY <1>3, <1>4 DEF Alone
<1>6. CASE Awaits(n)
  <2>1. Awaits(n)'
    BY <1>2, <1>6 DEF Awaits
  <2> QED
    BY <1>5, <2>1
<1>7. CASE UpToDate(n)
  <2>1. \A u \in Tasks : Rendering(u, n) => task'[u] = task[u]
    BY <1>2 DEF Rendering
  <2>2. UpToDate(n)'
    BY <1>3, <1>7, <2>1 DEF UpToDate, GotCurrent, Current
  <2> QED
    BY <1>5, <2>2
<1> QED
  BY <1>4, <1>6, <1>7

(* What a task does when it is done with a note: the note may be stale, or *)
(* the PDF is what the task has got.                                       *)
LEMMA DoneWith ==
  ASSUME RendererInv, NEW t \in Tasks, NEW m \in Notes, task[t].on = {m},
         task' = [task EXCEPT ![t] = Rests(t)],
         UNCHANGED <<note, asset, queue>>,
         stale \subseteq stale',
         \A n \in Notes \ {m} : pdf'[n] = pdf[n],
         m \in stale' \/ (GotCurrent(t, m) => pdf'[m] = Current(m))
  PROVE  \A n \in Notes : Kept(n)
<1> SUFFICES ASSUME NEW n \in Notes, n \notin stale'
             PROVE  Alone(n)' /\ (Awaits(n) \/ UpToDate(n))'
  BY DEF Kept
<1>1. task \in [Tasks -> TaskRecords]
  BY DEF RendererInv, RendererTypeOK, TaskRecords
<1>2. task'[t] = Rests(t) /\ \A u \in Tasks \ {t} : task'[u] = task[u]
  BY <1>1
<1>3. Rests(t).names = task[t].names /\ Rests(t).on = {}
  BY DEF Rests, Fresh
<1>4. \A u \in Tasks : Rendering(u, n)' <=> Rendering(u, n) /\ u # t
  BY <1>2, <1>3 DEF Rendering
<1>5. Alone(n) /\ (Awaits(n) \/ UpToDate(n))
  BY DEF RendererInv, Fits
<1>6. Alone(n)'
  BY <1>4, <1>5 DEF Alone
<1>7. CASE Awaits(n)
  <2>1. Awaits(n)'
    BY <1>2, <1>3, <1>7 DEF Awaits
  <2> QED
    BY <1>6, <2>1
<1>8. CASE UpToDate(n) /\ n # m
  <2>1. \A u \in Tasks : Rendering(u, n) => task'[u] = task[u]
    BY <1>2, <1>8 DEF Rendering
  <2>2. UpToDate(n)'
    BY <1>4, <1>8, <2>1 DEF UpToDate, GotCurrent, Current, Rendering
  <2> QED
    BY <1>6, <2>2
<1>9. CASE UpToDate(n) /\ n = m
  <2>1. Rendering(t, n)
    BY <1>9 DEF Rendering
  <2>2. GotCurrent(t, n)
    BY <1>5, <1>9, <2>1 DEF UpToDate, Alone
  <2>3. \A u \in Tasks : ~Rendering(u, n)'
    BY <1>4, <1>5, <2>1 DEF Alone
  <2>4. UpToDate(n)'
    BY <1>9, <2>2, <2>3 DEF UpToDate, Current
  <2> QED
    BY <1>6, <2>4
<1> QED
  BY <1>5, <1>7, <1>8, <1>9

(* The task goes on rendering the note it has begun to read.               *)
LEMMA GoesOn ==
  ASSUME RendererInv, NEW t \in Tasks, NEW x \in TaskRecords,
         task' = [task EXCEPT ![t] = x],
         x.on = task[t].on, x.names = task[t].names,
         UNCHANGED <<note, asset, queue, pdf, stale>>,
         \A n \in Notes : Rendering(t, n) /\ GotCurrent(t, n) => GotCurrent(t, n)'
  PROVE  \A n \in Notes : Kept(n)
<1> SUFFICES ASSUME NEW n \in Notes, n \notin stale'
             PROVE  Alone(n)' /\ (Awaits(n) \/ UpToDate(n))'
  BY DEF Kept
<1>1. task \in [Tasks -> TaskRecords]
  BY DEF RendererInv, RendererTypeOK, TaskRecords
<1>2. task'[t] = x /\ \A u \in Tasks \ {t} : task'[u] = task[u]
  BY <1>1
<1>3. \A u \in Tasks : Rendering(u, n)' <=> Rendering(u, n)
  BY <1>2 DEF Rendering
<1>4. Alone(n) /\ (Awaits(n) \/ UpToDate(n))
  BY DEF RendererInv, Fits
<1>5. Alone(n)'
  BY <1>3, <1>4 DEF Alone
<1>6. CASE Awaits(n)
  BY <1>2, <1>5, <1>6 DEF Awaits
<1>7. CASE UpToDate(n)
  <2>1. \A u \in Tasks : Rendering(u, n) /\ GotCurrent(u, n) => GotCurrent(u, n)'
    BY <1>2 DEF GotCurrent
  <2>2. UpToDate(n)'
    BY <1>3, <1>7, <2>1 DEF UpToDate, Current
  <2> QED
    BY <1>5, <2>2
<1> QED
  BY <1>4, <1>6, <1>7

(* The task begins to read a note; if another renders it, it is stale.     *)
LEMMA Begins ==
  ASSUME RendererInv, NEW t \in Tasks, NEW m \in Notes, NEW x \in TaskRecords,
         task' = [task EXCEPT ![t] = x],
         task[t].on = {}, x.on = {m}, x.names = task[t].names \ {m},
         UNCHANGED <<note, asset, queue, pdf>>,
         GotCurrent(t, m)',
         stale' = IF \E u \in Tasks : Rendering(u, m) THEN stale \cup {m} ELSE stale
  PROVE  \A n \in Notes : Kept(n)
<1> SUFFICES ASSUME NEW n \in Notes, n \notin stale'
             PROVE  Alone(n)' /\ (Awaits(n) \/ UpToDate(n))'
  BY DEF Kept
<1>1. task \in [Tasks -> TaskRecords]
  BY DEF RendererInv, RendererTypeOK, TaskRecords
<1>2. task'[t] = x /\ \A u \in Tasks \ {t} : task'[u] = task[u]
  BY <1>1
<1>3. \A u \in Tasks : Rendering(u, n)' <=> Rendering(u, n) \/ (u = t /\ n = m)
  BY <1>2 DEF Rendering
<1>4. Alone(n) /\ (Awaits(n) \/ UpToDate(n))
  BY DEF RendererInv, Fits
<1>5. CASE n = m
  <2>1. Alone(n)'
    BY <1>3, <1>5 DEF Alone
  <2>2. UpToDate(n)'
    BY <1>3, <1>5 DEF UpToDate
  <2> QED
    BY <2>1, <2>2
<1>6. CASE n # m
  <2>1. Alone(n)'
    BY <1>3, <1>4, <1>6 DEF Alone
  <2>2. CASE Awaits(n)
    BY <1>2, <1>6, <2>1, <2>2 DEF Awaits
  <2>3. CASE UpToDate(n)
    <3>1. \A u \in Tasks : Rendering(u, n) => task'[u] = task[u]
      BY <1>2 DEF Rendering
    <3>2. UpToDate(n)'
      BY <1>3, <1>6, <2>3, <3>1 DEF UpToDate, GotCurrent, Current
    <3> QED
      BY <2>1, <3>2
  <2> QED
    BY <1>4, <2>2, <2>3
<1> QED
  BY <1>5, <1>6

-----------------------------------------------------------------------------
(* The steps of a task.                                                    *)
LEMMA TaskFacts ==
  ASSUME RendererInv, NEW t \in Tasks
  PROVE  /\ task \in [Tasks -> TaskRecords] /\ task[t] \in TaskRecords
         /\ queue \in SUBSET Notes /\ stale \in SUBSET Notes /\ faults \in 0..MaxFaults
         /\ note \in [Notes -> Contents] /\ asset \in [Notes -> Contents]
         /\ pdf \in [Notes -> Contents \X Contents]
         /\ Fresh \in TaskRecords /\ Rests(t) \in TaskRecords
         /\ Shaped(Fresh) /\ Shaped(Rests(t))
<1>1. task \in [Tasks -> TaskRecords] /\ task[t] \in TaskRecords
  BY DEF RendererInv, RendererTypeOK, TaskRecords
<1>2. Fresh \in TaskRecords /\ Shaped(Fresh)
  BY DEF Fresh, TaskRecords, Stages, Contents, Shaped
<1>3. Rests(t) \in TaskRecords /\ Shaped(Rests(t))
  <2>1. CASE task[t].names = {}
    BY <1>2, <2>1 DEF Rests
  <2>2. CASE task[t].names # {}
    <3> DEFINE r == [Fresh EXCEPT !.at = "render", !.names = task[t].names]
    <3>1. r \in TaskRecords
      BY <1>1 DEF Fresh, TaskRecords, Stages, Contents
    <3>2. Shaped(r)
      BY DEF Shaped, Fresh
    <3> QED
      BY <2>2, <3>1, <3>2 DEF Rests
  <2> QED
    BY <2>1, <2>2
<1> QED
  BY <1>1, <1>2, <1>3 DEF RendererInv, RendererTypeOK

LEMMA BatchInv ==
  ASSUME RendererInv, NEW t \in Tasks,
         Enqueue(t) \/ TakeBatch(t) \/ LoadCipher(t) \/ LoadFails(t)
  PROVE  RendererInv'
<1> USE TaskFacts
<1>1. task[t].on = {} /\ task[t].at # "none"
  BY DEF Enqueue, TakeBatch, LoadCipher, LoadFails, RendererInv, OneNote
<1>2. /\ UNCHANGED <<puts, note, asset, config, pdf>> /\ faults' \in 0..MaxFaults
      /\ pdf' \in [Notes -> Contents \X Contents]
  BY RendererAssumption DEF Enqueue, TakeBatch, LoadCipher, LoadFails, Fault, folder
<1>3. CASE Enqueue(t)
  <2> DEFINE x == [task[t] EXCEPT !.at = "sleep", !.names = {}]
  <2>1. x \in TaskRecords /\ Shaped(x) /\ x.on = {} /\ x.names = {}
    BY <1>1 DEF TaskRecords, Stages, Shaped
  <2>2. task' = [task EXCEPT ![t] = x]
    BY <1>3 DEF Enqueue
  <2>3. stale' = stale /\ queue' = queue \cup task[t].names /\ queue' \in SUBSET Notes
    BY <1>3 DEF Enqueue, TaskRecords
  <2> HIDE DEF x
  <2>4. \A n \in Notes : Kept(n)
    BY <1>1, <1>2, <2>1, <2>2, <2>3, PassedOn
  <2> QED
    BY <1>1, <1>2, <2>1, <2>2, <2>3, <2>4, OneTask
<1>4. CASE TakeBatch(t)
  <2> DEFINE x == [task[t] EXCEPT !.at = IF queue = {} THEN "none" ELSE "load",
                                  !.names = queue]
  <2>1. x \in TaskRecords /\ Shaped(x) /\ x.on = {} /\ x.names = queue
    BY <1>1 DEF TaskRecords, Stages, Shaped
  <2>2. task' = [task EXCEPT ![t] = x]
    BY <1>4 DEF TakeBatch
  <2>3. stale' = stale /\ queue' = {} /\ task[t].names = {}
    BY <1>4 DEF TakeBatch, RendererInv, NamesKept
  <2> HIDE DEF x
  <2>4. \A n \in Notes : Kept(n)
    BY <1>1, <1>2, <2>1, <2>2, <2>3, PassedOn
  <2> QED
    BY <1>1, <1>2, <2>1, <2>2, <2>3, <2>4, OneTask
<1>5. CASE LoadCipher(t) /\ config
  <2> DEFINE x == [task[t] EXCEPT !.at = "render"]
  <2>1. x \in TaskRecords /\ Shaped(x) /\ x.on = {} /\ x.names = task[t].names
    BY <1>1 DEF TaskRecords, Stages, Shaped
  <2>2. task' = [task EXCEPT ![t] = x]
    BY <1>5 DEF LoadCipher
  <2>3. stale' = stale /\ queue' = queue
    BY <1>5 DEF LoadCipher
  <2> HIDE DEF x
  <2>4. \A n \in Notes : Kept(n)
    BY <1>1, <1>2, <2>1, <2>2, <2>3, PassedOn
  <2> QED
    BY <1>1, <1>2, <2>1, <2>2, <2>3, <2>4, OneTask
<1>6. CASE (LoadCipher(t) /\ ~config) \/ LoadFails(t)
  <2>1. /\ task' = [task EXCEPT ![t] = Fresh] /\ queue' = queue
        /\ stale' = stale \cup task[t].names /\ stale' \in SUBSET Notes
    BY <1>6 DEF LoadCipher, LoadFails, TaskRecords
  <2>2. Fresh.on = {} /\ Fresh.names = {}
    BY DEF Fresh
  <2>3. \A n \in Notes : Kept(n)
    BY <1>1, <1>2, <2>1, <2>2, PassedOn
  <2> QED
    BY <1>1, <1>2, <2>1, <2>3, OneTask
<1> QED
  BY <1>3, <1>4, <1>5, <1>6

LEMMA ReadInv ==
  ASSUME RendererInv, NEW t \in Tasks, (\E n \in Notes : ReadNote(t, n)) \/ ReadAsset(t)
  PROVE  RendererInv'
<1> USE TaskFacts
<1>1. CASE \E n \in Notes : ReadNote(t, n)
  <2>1. PICK n \in Notes : ReadNote(t, n)
    BY <1>1
  <2> DEFINE x == [task[t] EXCEPT !.at = IF note[n] = NoFile THEN "erase" ELSE "asset",
                                  !.names = task[t].names \ {n}, !.on = {n},
                                  !.got = <<note[n], NoFile>>]
  <2>2. note[n] \in Contents /\ NoFile \in Contents
    BY DEF Contents
  <2>3. x \in TaskRecords
    BY <2>2 DEF TaskRecords, Stages
  <2>4. /\ Shaped(x) /\ x.on = {n} /\ x.names = task[t].names \ {n}
        /\ x.got[1] = note[n]
        /\ x.at = IF note[n] = NoFile THEN "erase" ELSE "asset"
    BY DEF Shaped, TaskRecords
  <2>5. task' = [task EXCEPT ![t] = x]
    BY <2>1 DEF ReadNote
  <2>6. /\ UNCHANGED <<puts, faults, note, asset, config, pdf, queue>>
        /\ stale' = IF \E u \in Tasks : Rendering(u, n) THEN stale \cup {n} ELSE stale
        /\ task[t].on = {} /\ task[t].at # "none" /\ stale' \in SUBSET Notes
    BY <2>1 DEF ReadNote, RendererInv, OneNote, folder
  <2> HIDE DEF x
  <2>7. GotCurrent(t, n)'
    BY <2>4, <2>5, <2>6 DEF GotCurrent
  <2>8. \A m \in Notes : Kept(m)
    BY <2>3, <2>4, <2>5, <2>6, <2>7, Begins
  <2> QED
    BY <2>3, <2>4, <2>5, <2>6, <2>8, OneTask
<1>2. CASE ReadAsset(t)
  <2>1. PICK n \in Notes : /\ task[t].on = {n}
                           /\ task' = [task EXCEPT ![t].at = "write",
                                         ![t].got = <<task[t].got[1], asset[n]>>]
    <3>1. PICK n \in Notes : task[t].on = {n}
      BY <1>2 DEF ReadAsset, RendererInv, OneNote
    <3>2. PICK k \in task[t].on :
            task' = [task EXCEPT ![t].at = "write", ![t].got = <<task[t].got[1], asset[k]>>]
      BY <1>2, Zenon DEF ReadAsset
    <3>3. k = n
      BY <3>1, <3>2
    <3> QED
      BY <3>1, <3>2, <3>3, Zenon
  <2> DEFINE x == [task[t] EXCEPT !.at = "write", !.got = <<task[t].got[1], asset[n]>>]
  <2>2. task[t].got \in Contents \X Contents /\ asset[n] \in Contents
    BY DEF TaskRecords
  <2>3. x \in TaskRecords
    BY <2>2 DEF TaskRecords, Stages
  <2>4. /\ Shaped(x) /\ x.on = {n} /\ x.names = task[t].names /\ x.at = "write"
        /\ x.got = <<task[t].got[1], asset[n]>>
    BY <2>1 DEF Shaped, TaskRecords
  <2>5. task' = [task EXCEPT ![t] = x]
    BY <2>1
  <2>6. /\ UNCHANGED <<puts, faults, note, asset, config, pdf, queue, stale>>
        /\ task[t].at = "asset"
    BY <1>2 DEF ReadAsset, folder
  <2> HIDE DEF x
  <2>7. ASSUME NEW m \in Notes, Rendering(t, m), GotCurrent(t, m) PROVE GotCurrent(t, m)'
    <3>1. m = n
      BY <2>1, <2>7 DEF Rendering
    <3>2. note[n] # NoFile /\ task[t].got[1] = note[n]
      BY <2>6, <2>7, <3>1 DEF GotCurrent
    <3>3. task'[t].at = "write" /\ task'[t].got = <<note[n], asset[n]>>
      BY <2>4, <2>5, <3>2
    <3> QED
      BY <2>6, <3>1, <3>2, <3>3 DEF GotCurrent
  <2>8. \A m \in Notes : Kept(m)
    BY <2>1, <2>3, <2>4, <2>5, <2>6, <2>7, GoesOn
  <2> QED
    BY <2>3, <2>4, <2>5, <2>6, <2>8, OneTask
<1> QED
  BY <1>1, <1>2

LEMMA WrittenInv ==
  ASSUME RendererInv, NEW t \in Tasks, WritePdf(t) \/ ErasePdf(t) \/ NoteFails(t)
  PROVE  RendererInv'
<1> USE TaskFacts
<1>1. PICK n \in Notes : task[t].on = {n}
  BY DEF WritePdf, ErasePdf, NoteFails, RendererInv, OneNote
<1>2. /\ task' = [task EXCEPT ![t] = Rests(t)]
      /\ UNCHANGED <<puts, note, asset, config, queue>>
      /\ faults' \in 0..MaxFaults /\ task[t].at # "none"
      /\ stale \subseteq stale' /\ stale' \in SUBSET Notes
  BY RendererAssumption
     DEF WritePdf, ErasePdf, NoteFails, Fault, folder, TaskRecords
<1>3. /\ pdf' \in [Notes -> Contents \X Contents]
      /\ \A m \in Notes \ {n} : pdf'[m] = pdf[m]
      /\ n \in stale' \/ (GotCurrent(t, n) => pdf'[n] = Current(n))
  <2>1. CASE WritePdf(t)
    <3>1. pdf' = [pdf EXCEPT ![n] = task[t].got] /\ task[t].at = "write"
      BY <1>1, <2>1 DEF WritePdf
    <3>2. task[t].got \in Contents \X Contents
      BY DEF TaskRecords
    <3>3. pdf'[n] = task[t].got
      BY <3>1
    <3>4. GotCurrent(t, n) => task[t].got = Current(n)
      BY <3>1 DEF GotCurrent, Current
    <3> QED
      BY <3>1, <3>2, <3>3, <3>4 DEF Current
  <2>2. CASE ErasePdf(t)
    <3>1. pdf' = [pdf EXCEPT ![n] = <<NoFile, NoFile>>] /\ task[t].at = "erase"
      BY <1>1, <2>2 DEF ErasePdf
    <3>2. NoFile \in Contents
      BY DEF Contents
    <3>3. GotCurrent(t, n) => Current(n) = <<NoFile, NoFile>>
      BY <3>1 DEF GotCurrent, Current
    <3> QED
      BY <3>1, <3>2, <3>3
  <2>3. CASE NoteFails(t)
    BY <1>1, <2>3 DEF NoteFails
  <2> QED
    BY <2>1, <2>2, <2>3
<1>4. \A m \in Notes : Kept(m)
  BY <1>1, <1>2, <1>3, DoneWith
<1> QED
  BY <1>2, <1>3, <1>4, OneTask

LEMMA StopInv == ASSUME RendererInv, RendererStop PROVE RendererInv'
<1>1. \A t \in Tasks : task'[t] = Fresh
  BY DEF RendererStop
<1>2. RendererTypeOK'
  <2>1. Fresh \in TaskRecords
    BY DEF Fresh, TaskRecords, Stages, Contents
  <2>2. task' \in [Tasks -> TaskRecords] /\ queue' \in SUBSET Notes
    BY <2>1 DEF RendererStop
  <2>3. stale' \in SUBSET Notes
    BY DEF RendererStop, RendererInv, RendererTypeOK
  <2>4. faults' \in 0..MaxFaults
    BY RendererAssumption DEF RendererStop, Fault, RendererInv, RendererTypeOK
  <2> QED
    BY <2>2, <2>3, <2>4 DEF RendererStop, RendererInv, RendererTypeOK, TaskRecords, folder
<1>3. OneNote' /\ NamesKept'
  BY <1>1 DEF OneNote, NamesKept, Fresh
<1>4. ASSUME NEW n \in Notes PROVE Fits(n)'
  <2>1. SUFFICES ASSUME n \notin stale' PROVE Alone(n)' /\ UpToDate(n)'
    BY DEF Fits
  <2>2. ~Awaits(n) /\ \A t \in Tasks : ~Rendering(t, n)
    BY <2>1 DEF RendererStop, Awaits, Rendering
  <2>3. n \notin stale
    BY <2>1 DEF RendererStop
  <2>4. pdf[n] = Current(n)
    BY <2>2, <2>3 DEF RendererInv, Fits, UpToDate
  <2>5. \A t \in Tasks : ~Rendering(t, n)'
    BY <1>1 DEF Rendering, Fresh
  <2> QED
    BY <2>4, <2>5 DEF Alone, UpToDate, Current, RendererStop, folder
<1> QED
  BY <1>2, <1>3, <1>4 DEF RendererInv

LEMMA RendererStep == RendererInv /\ [RendererNext]_rendererVars => RendererInv'
<1> SUFFICES ASSUME RendererInv, [RendererNext]_rendererVars PROVE RendererInv'
  OBVIOUS
<1>1. CASE UNCHANGED rendererVars
  BY <1>1
     DEF rendererVars, folder, RendererInv, RendererTypeOK, OneNote, NamesKept, Fits, Alone,
         Awaits, UpToDate, Rendering, GotCurrent, Current
<1>2. ASSUME NEW t \in Tasks, TaskStep(t) \/ LoadFails(t) \/ NoteFails(t) PROVE RendererInv'
  BY <1>2, BatchInv, ReadInv, WrittenInv DEF TaskStep
<1> QED
  BY <1>1, <1>2, DeviceInv, StopInv DEF RendererNext

(* The renderer's variables keep their types.                              *)
THEOREM RendererTypesCorrect == RendererSpec => []RendererTypeOK
<1>1. RendererInv => RendererTypeOK
  BY DEF RendererInv
<1> QED
  BY <1>1, RendererInitially, RendererStep, PTL DEF RendererSpec

LEMMA FitsIsCurrent == RendererInv => PdfIsCurrent
BY DEF RendererInv, Fits, UpToDate, PdfIsCurrent

(* A PDF that is not left behind is current or about to be rendered again. *)
THEOREM PdfsAreCurrent == RendererSpec => []PdfIsCurrent
BY RendererInitially, RendererStep, FitsIsCurrent, PTL DEF RendererSpec
===============================================================================
