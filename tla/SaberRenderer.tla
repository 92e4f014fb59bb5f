----------------------------- MODULE SaberRenderer -----------------------------
(***************************************************************************)
(* The PDFs of the notes a Saber device uploads.  A WebDAV request of the  *)
(* device changes its sync folder and schedules the paths it changed; a    *)
(* task waits, takes every path queued so far, and renders the notes they  *)
(* belong to, one vault operation at a time, while the device goes on.     *)
(*                                                                         *)
(* A file is known by the note it belongs to; the contents of a note and   *)
(* of its asset are the number of the request that wrote them.             *)
(***************************************************************************)
EXTENDS Naturals

CONSTANTS
  Notes,       \* the notes' names: vault PDFs and Saber notes share them
  Pushed,      \* the content of a note (its asset) that the server made
  NoFile,      \* the content of a file that does not exist
  MaxPuts,     \* bound: the device's requests
  MaxFaults    \* bound: restarts of the server and failures

ASSUME RendererAssumption ==
  /\ MaxPuts \in Nat /\ MaxFaults \in Nat
  /\ NoFile # Pushed /\ Pushed \notin 1..MaxPuts /\ NoFile \notin 1..MaxPuts

VARIABLES
  puts,      \* requests of the device so far
  faults,    \* restarts and failures so far
  config,    \* config.sbc has been uploaded
  note,      \* the content of each encrypted note
  asset,     \* the content of the asset each note shows
  pdf,       \* the contents each PDF was rendered from
  queue,     \* SaberRenderer.pending: the notes of the paths that wait
  task,      \* the stage of the task each request has spawned
  stale      \* history: notes whose PDF is not the renderer's to refresh any more

folder       == <<note, asset, config>>
rendererVars == <<puts, faults, folder, pdf, queue, task, stale>>

Tasks    == 1..MaxPuts
Contents == {NoFile, Pushed} \cup 1..MaxPuts
Stages   == {"none", "spawned", "sleep", "load", "render", "erase", "asset", "write"}
Fresh    == [at |-> "none", names |-> {}, on |-> {}, got |-> <<NoFile, NoFile>>]

(* The PDF a note would be rendered to.                                    *)
Current(n)   == IF note[n] = NoFile THEN <<NoFile, NoFile>> ELSE <<note[n], asset[n]>>

(* The task is between the first read of the note and the write of its PDF. *)
Rendering(t, n) == n \in task[t].on

(* Somebody will still read the note.                                      *)
Awaits(n) == \/ n \in queue
             \/ \E t \in Tasks : n \in task[t].names

-----------------------------------------------------------------------------
(***************************************************************************)
(* The device's requests: the vault is changed, then the paths are         *)
(* scheduled.  What nobody is rendering is the renderer's to refresh.      *)
(***************************************************************************)
Schedules(names) ==
  /\ puts < MaxPuts
  /\ puts' = puts + 1
  /\ task' = [task EXCEPT ![puts + 1] = [Fresh EXCEPT !.at = "spawned", !.names = names]]
  /\ stale' = {n \in stale : n \in names => \E t \in Tasks : Rendering(t, n)}
  /\ UNCHANGED <<faults, pdf, queue>>

PutConfig ==
  /\ ~config
  /\ config' = TRUE
  /\ Schedules({})
  /\ UNCHANGED <<note, asset>>

PutNote(n) ==
  /\ note' = [note EXCEPT ![n] = puts + 1]
  /\ Schedules({n})
  /\ UNCHANGED <<asset, config>>

PutAsset(n) ==
  /\ asset' = [asset EXCEPT ![n] = puts + 1]
  /\ Schedules({n})
  /\ UNCHANGED <<note, config>>

DeleteNote(n) ==
  /\ note[n] # NoFile
  /\ note' = [note EXCEPT ![n] = NoFile]
  /\ Schedules({n})
  /\ UNCHANGED <<asset, config>>

(* MOVE and COPY.                                                          *)
MoveNote(n, m, copies) ==
  /\ n # m /\ note[n] # NoFile
  /\ note' = [note EXCEPT ![n] = IF copies THEN note[n] ELSE NoFile, ![m] = note[n]]
  /\ Schedules({n, m})
  /\ UNCHANGED <<asset, config>>

-----------------------------------------------------------------------------
(***************************************************************************)
(* The tasks.                                                              *)
(***************************************************************************)
Fault == faults < MaxFaults /\ faults' = faults + 1

(* Mutant: a path that comes while others wait takes their place.          *)
EnqueueReplaces(t) ==
  /\ task[t].at = "spawned"
  /\ queue' = task[t].names
  /\ task' = [task EXCEPT ![t].at = "sleep", ![t].names = {}]
  /\ UNCHANGED <<puts, faults, folder, pdf, stale>>

Enqueue(t) ==
  /\ task[t].at = "spawned"
  /\ queue' = queue \cup task[t].names
  /\ task' = [task EXCEPT ![t].at = "sleep", ![t].names = {}]
  /\ UNCHANGED <<puts, faults, folder, pdf, stale>>

(* The delay is over; whoever comes first takes the whole batch.           *)
TakeBatch(t) ==
  /\ task[t].at = "sleep"
  /\ queue' = {}
  /\ task' = [task EXCEPT ![t].at = IF queue = {} THEN "none" ELSE "load",
                          ![t].names = queue]
  /\ UNCHANGED <<puts, faults, folder, pdf, stale>>

(* Without config.sbc the batch is dropped.                                *)
LoadCipher(t) ==
  /\ task[t].at = "load"
  /\ IF config
     THEN /\ task' = [task EXCEPT ![t].at = "render"]
          /\ UNCHANGED stale
     ELSE /\ task' = [task EXCEPT ![t] = Fresh]
          /\ stale' = stale \cup task[t].names
  /\ UNCHANGED <<puts, faults, folder, pdf, queue>>

LoadFails(t) ==
  /\ task[t].at = "load"
  /\ Fault
  /\ task' = [task EXCEPT ![t] = Fresh]
  /\ stale' = stale \cup task[t].names
  /\ UNCHANGED <<puts, folder, pdf, queue>>

(* When another task is rendering the note, either may write last.         *)
ReadNote(t, n) ==
  /\ task[t].at = "render"
  /\ n \in task[t].names
  /\ task' = [task EXCEPT
       ![t].at    = IF note[n] = NoFile THEN "erase" ELSE "asset",
       ![t].names = task[t].names \ {n},
       ![t].on    = {n},
       ![t].got   = <<note[n], NoFile>>]
  /\ stale' = IF \E u \in Tasks : Rendering(u, n) THEN stale \cup {n} ELSE stale
  /\ UNCHANGED <<puts, faults, folder, pdf, queue>>

ReadAsset(t) ==
  /\ task[t].at = "asset"
  /\ \E n \in task[t].on :
       task' = [task EXCEPT ![t].at = "write", ![t].got = <<task[t].got[1], asset[n]>>]
  /\ UNCHANGED <<puts, faults, folder, pdf, queue, stale>>

Rests(t) == IF task[t].names = {} THEN Fresh
            ELSE [Fresh EXCEPT !.at = "render", !.names = task[t].names]

WritePdf(t) ==
  /\ task[t].at = "write"
  /\ \E n \in task[t].on : pdf' = [pdf EXCEPT ![n] = task[t].got]
  /\ task' = [task EXCEPT ![t] = Rests(t)]
  /\ UNCHANGED <<puts, faults, folder, queue, stale>>

ErasePdf(t) ==
  /\ task[t].at = "erase"
  /\ \E n \in task[t].on : pdf' = [pdf EXCEPT ![n] = <<NoFile, NoFile>>]
  /\ task' = [task EXCEPT ![t] = Rests(t)]
  /\ UNCHANGED <<puts, faults, folder, queue, stale>>

(* One note cannot be read, rendered or written: the others go on.         *)
NoteFails(t) ==
  /\ task[t].at \in {"asset", "write", "erase"}
  /\ Fault
  /\ stale' = stale \cup task[t].on
  /\ task' = [task EXCEPT ![t] = Rests(t)]
  /\ UNCHANGED <<puts, folder, pdf, queue>>

-----------------------------------------------------------------------------
RendererInit ==
  /\ puts = 0 /\ faults = 0 /\ config \in BOOLEAN
  /\ note = [n \in Notes |-> NoFile] /\ asset = [n \in Notes |-> NoFile]
  /\ pdf = [n \in Notes |-> <<NoFile, NoFile>>]
  /\ queue = {} /\ task = [t \in Tasks |-> Fresh] /\ stale = {}

DeviceStep ==
  \/ PutConfig
  \/ \E n \in Notes : PutNote(n) \/ PutAsset(n) \/ DeleteNote(n)
  \/ \E n, m \in Notes, copies \in BOOLEAN : MoveNote(n, m, copies)

TaskStep(t) ==
  \/ Enqueue(t) \/ TakeBatch(t) \/ LoadCipher(t)
  \/ \E n \in Notes : ReadNote(t, n)
  \/ ReadAsset(t) \/ WritePdf(t) \/ ErasePdf(t)

(* What was queued, or under way, is lost with the memory.                 *)
RendererStop ==
  /\ Fault
  /\ queue' = {} /\ task' = [t \in Tasks |-> Fresh]
  /\ stale' = stale \cup queue \cup UNION {task[t].names \cup task[t].on : t \in Tasks}
  /\ UNCHANGED <<puts, folder, pdf>>

RendererNext ==
  \/ DeviceStep
  \/ \E t \in Tasks : TaskStep(t) \/ LoadFails(t) \/ NoteFails(t)
  \/ RendererStop

RendererSpec == RendererInit /\ [][RendererNext]_rendererVars

RendererTypeOK ==
  /\ puts \in 0..MaxPuts /\ faults \in 0..MaxFaults /\ config \in BOOLEAN
  /\ note \in [Notes -> Contents] /\ asset \in [Notes -> Contents]
  /\ pdf \in [Notes -> Contents \X Contents]
  /\ queue \in SUBSET Notes /\ stale \in SUBSET Notes
  /\ task \in [Tasks -> [at : Stages, names : SUBSET Notes, on : SUBSET Notes,
                         got : Contents \X Contents]]

(***************************************************************************)
(* A PDF shows its note and the note's asset as they are (README.md:361,   *)
(* "refreshed every time the note changes"), or is about to be rendered    *)
(* again: whatever order uploads, waiting tasks and renderings come in, no *)
(* path that was scheduled is forgotten.  Only a failure, a restart, a     *)
(* missing config.sbc or two tasks that render one note at the same time   *)
(* may leave it behind, until the device touches the note again.           *)
(***************************************************************************)
PdfIsCurrent ==
  \A n \in Notes \ stale :
    \/ pdf[n] = Current(n)
    \/ Awaits(n)
    \/ \E t \in Tasks : Rendering(t, n)
=============================================================================
