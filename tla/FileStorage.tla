---------------------------- MODULE FileStorage -----------------------------
(***************************************************************************)
(* src/peon/storage.py, FileStorage: the steps of save_events and of       *)
(* save_checkpoint, each of which writes a whole new image of its file     *)
(* into a temporary one and renames that over the file, and the reading of *)
(* a file.  A process can be killed between any two steps, interrupted by  *)
(* Ctrl-C, or refused by the file system.  Nothing in the code keeps two   *)
(* processes from saving at the same time, so the model lets them.         *)
(*                                                                         *)
(* A batch of events, or a checkpoint, is a number: the serial number of   *)
(* the save that brought it.                                               *)
(***************************************************************************)
EXTENDS Naturals, Sequences, FiniteSets

CONSTANTS
  Processes,   \* the processes over one storage path
  MaxSaves,    \* bound: number of saves ever called
  Splitting    \* the batches with text that load_events splits a line at

ASSUME SavesAssumption == MaxSaves \in Nat

VARIABLES
  file,        \* disk: the two files, by target
  temp,        \* disk: the temporary files, by the save that made them
  save,        \* per process: its last save and how far it has got
  serial,      \* ghost: saves called so far
  acknowledged,\* ghost: by target, the saves that have returned
  orphaned,    \* ghost: the saves that had no chance to remove theirs
  overlapped   \* ghost: whether two saves of events were ever under way at once

ghosts      == <<serial, acknowledged, orphaned, overlapped>>
storageVars == <<file, temp, save, ghosts>>

Targets == {"events", "checkpoint"}
Saves   == 1..MaxSaves

\* What is in a file: the batches written to it, and whether all of the text
\* got there.  A file that does not exist loads like an empty one.
Content == [items : Seq(Saves), whole : BOOLEAN]
NoFile  == [items |-> <<>>, whole |-> TRUE]

\* What load_events and load_checkpoint can make sense of.
Loadable(content) ==
  content.whole /\ \A i \in 1..Len(content.items) : content.items[i] \notin Splitting

Ended   == {"never", "returned", "raised", "interrupted", "killed"}
Reading == {"reading", "creating"}            \* no temporary file yet
InTry   == {"writing", "written", "replaced"} \* inside save's try block
Steps   == Ended \cup Reading \cup InTry \cup {"created", "cleaning"}

SaveRecord == [step : Steps, target : Targets, item : {0} \cup Saves, read : Seq(Saves)]

UnderWay(p) == save[p].step \notin Ended

Init ==
  /\ file = [t \in Targets |-> NoFile]
  /\ temp = [s \in Saves |-> NoFile]
  /\ save = [p \in Processes |->
               [step |-> "never", target |-> "events", item |-> 0, read |-> <<>>]]
  /\ serial = 0
  /\ acknowledged = [t \in Targets |-> {}]
  /\ orphaned = {}
  /\ overlapped = FALSE

-----------------------------------------------------------------------------
(* The steps of a save that go well *)

Step(p, from, to) ==
  /\ save[p].step = from
  /\ save' = [save EXCEPT ![p].step = to]

\* save_events with something to save, or save_checkpoint.
Call(p, target) ==
  /\ ~UnderWay(p)
  /\ serial < MaxSaves
  /\ serial' = serial + 1
  /\ save' = [save EXCEPT ![p] = [step |-> IF target = "events" THEN "reading" ELSE "creating",
                                  target |-> target, item |-> serial + 1, read |-> <<>>]]
  /\ overlapped' = (overlapped \/ /\ target = "events"
                                  /\ \E q \in Processes : UnderWay(q) /\ save[q].target = "events")
  /\ UNCHANGED <<file, temp, acknowledged, orphaned>>

\* save_events first loads the events that are there.
ReadEvents(p) ==
  /\ save[p].step = "reading"
  /\ Loadable(file["events"])
  /\ save' = [save EXCEPT ![p].step = "creating", ![p].read = file["events"].items]
  /\ UNCHANGED <<file, temp, ghosts>>

\* mkstemp: a name that no other save has, or had.
TempOfShared(p) == CHOOSE s \in Saves : TRUE
TempOf(p) == save[p].item

CreateTemp(p) ==
  /\ Step(p, "creating", "created")
  /\ temp' = [temp EXCEPT ![TempOf(p)] = [items |-> <<>>, whole |-> FALSE]]
  /\ UNCHANGED <<file, ghosts>>

EnterTry(p) ==
  /\ Step(p, "created", "writing")
  /\ UNCHANGED <<file, temp, ghosts>>

\* The new image of the file: all events, old and new, or the one checkpoint.
ImageOnlyNew(s) == <<s.item>>
ImageAppended(s) == Append(file[s.target].items, s.item)
Image(s) == IF s.target = "events" THEN Append(s.read, s.item) ELSE <<s.item>>

\* The with block is left: the whole text has been written.
WriteAll(p) ==
  /\ Step(p, "writing", "written")
  /\ temp' = [temp EXCEPT ![TempOf(p)] = [items |-> Image(save[p]), whole |-> TRUE]]
  /\ UNCHANGED <<file, ghosts>>

\* os.replace.
Replace(p) ==
  /\ Step(p, "written", "replaced")
  /\ file' = [file EXCEPT ![save[p].target] = temp[TempOf(p)]]
  /\ temp' = [temp EXCEPT ![TempOf(p)] = NoFile]
  /\ UNCHANGED ghosts

Return(p) ==
  /\ Step(p, "replaced", "returned")
  /\ acknowledged' = [acknowledged EXCEPT ![save[p].target] = @ \cup {save[p].item}]
  /\ UNCHANGED <<file, temp, serial, orphaned, overlapped>>

-----------------------------------------------------------------------------
(* The ways a save can fail *)

\* mkdir, mkstemp or the old file refuse, the events cannot be serialised, or
\* Ctrl-C: there is nothing to clean up.
RaiseEarly(p) ==
  /\ save[p].step \in Reading
  /\ save' = [save EXCEPT ![p].step = "raised"]
  /\ UNCHANGED <<file, temp, ghosts>>

\* Any exception inside the try block, Ctrl-C after os.replace among them.
LeaveTry(p) ==
  /\ save[p].step \in InTry
  /\ save' = [save EXCEPT ![p].step = "cleaning"]
  /\ UNCHANGED <<file, temp, ghosts>>

\* os.unlink, then the exception again.  Where the temporary file has been
\* renamed, os.unlink raises FileNotFoundError in its place.
CleanUpForgotten(p) ==
  /\ Step(p, "cleaning", "raised")
  /\ UNCHANGED <<file, temp, ghosts>>
CleanUpSwallowed(p) ==
  /\ Step(p, "cleaning", "returned")
  /\ temp' = [temp EXCEPT ![TempOf(p)] = NoFile]
  /\ acknowledged' = [acknowledged EXCEPT ![save[p].target] = @ \cup {save[p].item}]
  /\ UNCHANGED <<file, serial, orphaned, overlapped>>
CleanUp(p) ==
  /\ Step(p, "cleaning", "raised")
  /\ temp' = [temp EXCEPT ![TempOf(p)] = NoFile]
  /\ UNCHANGED <<file, ghosts>>

\* A process gives up on its save; a temporary file that is there stays there.
Abandon(p, how) ==
  /\ save' = [save EXCEPT ![p].step = how]
  /\ orphaned' = orphaned \cup {save[p].item}
  /\ UNCHANGED <<file, temp, serial, acknowledged, overlapped>>

\* The file system refuses to remove the file: its exception is the one raised.
UnlinkFails(p) ==
  /\ save[p].step = "cleaning" /\ temp[TempOf(p)] # NoFile
  /\ Abandon(p, "raised")

\* Ctrl-C between mkstemp and try, or inside the handler itself.
Interrupt(p) == save[p].step \in {"created", "cleaning"} /\ Abandon(p, "interrupted")

Kill(p) == UnderWay(p) /\ Abandon(p, "killed")

-----------------------------------------------------------------------------

Advance(p) ==
  \/ ReadEvents(p)
  \/ CreateTemp(p)
  \/ EnterTry(p)
  \/ WriteAll(p)
  \/ Replace(p)
  \/ Return(p)

Fail(p) ==
  \/ RaiseEarly(p)
  \/ LeaveTry(p)
  \/ CleanUp(p)
  \/ UnlinkFails(p)
  \/ Interrupt(p)
  \/ Kill(p)

Next == \E p \in Processes : (\E t \in Targets : Call(p, t)) \/ Advance(p) \/ Fail(p)

Spec == Init /\ [][Next]_storageVars

-----------------------------------------------------------------------------
(* Properties *)

\* Type correctness; the checkpoint file never holds more than one checkpoint.
StorageTypeOK ==
  /\ file \in [Targets -> Content]
  /\ temp \in [Saves -> Content]
  /\ save \in [Processes -> SaveRecord]
  /\ serial \in 0..MaxSaves
  /\ orphaned \subseteq Saves
  /\ overlapped \in BOOLEAN
  /\ Len(file["checkpoint"].items) <= 1

\* Whoever reads a file, at any moment and whatever has been killed, finds all
\* of an image and never a part of one, even while two processes save; and no
\* batch is in it twice (storage.py:77-80, 114-116).
FilesWhole ==
  \A t \in Targets :
    /\ file[t].whole
    /\ \A i, j \in 1..Len(file[t].items) : file[t].items[i] = file[t].items[j] => i = j

\* A temporary file in the directory is in the hands of the save that made it,
\* or of nobody who could have removed it: the save was killed, interrupted
\* outside the try block or in the handler, or refused the removal.  Every other
\* save removes its file, however it ends (storage.py:91-93 and 124-126).
Holding == {"created", "writing", "written", "cleaning"}

NoStrayTemps ==
  \A s \in Saves : temp[s] # NoFile =>
    s \in orphaned \/ \E p \in Processes : save[p].item = s /\ save[p].step \in Holding

-----------------------------------------------------------------------------
(* Refinement *)

\* Where a save stands for AtomicStore: it has taken effect once its temporary
\* file has become the file.
CallOf(p, t) ==
  IF ~UnderWay(p) \/ save[p].target # t THEN [state |-> "idle", item |-> 0]
  ELSE [item |-> save[p].item,
        state |-> IF save[p].step = "replaced" \/ (save[p].step = "cleaning" /\ temp[TempOf(p)] = NoFile)
                  THEN "done" ELSE "called"]

Cell == INSTANCE AtomicStore WITH
  Items <- Saves, Appends <- FALSE,
  content <- file["checkpoint"].items,
  call <- [p \in Processes |-> CallOf(p, "checkpoint")],
  acknowledged <- acknowledged["checkpoint"]

Log == INSTANCE AtomicStore WITH
  Items <- Saves, Appends <- TRUE,
  content <- file["events"].items,
  call <- [p \in Processes |-> CallOf(p, "events")],
  acknowledged <- acknowledged["events"]

\* The checkpoint file is a replaceable cell, through any kill, error or Ctrl-C
\* and with any number of processes saving at once.
CheckpointAtomic == Cell!Spec

\* The events file is an append-only log, as Runtime takes it to be, as long as
\* no two saves of events have been under way at once: save_events reads the
\* old events and writes them back without a lock.
EventsAtomicAlone ==
  Log!Init /\ [][~overlapped' => [Log!Next]_(Log!atomicVars)]_storageVars

\* The events file is append-only (storage.py:68-69, "les evenements restent
\* append-only comme le contrat Storage l'exige"), whoever else is saving.
EventsAppendOnly ==
  [][/\ Len(file["events"].items) <= Len(file'["events"].items)
     /\ SubSeq(file'["events"].items, 1, Len(file["events"].items))
          = file["events"].items]_file
=============================================================================
