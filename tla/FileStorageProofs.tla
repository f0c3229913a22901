------------------------- MODULE FileStorageProofs --------------------------
(***************************************************************************)
(* Proofs about FileStorage, for any number of processes and of saves: the *)
(* files are whole whatever is killed, no temporary file is left by a save *)
(* that could remove it, the checkpoint file is an atomic cell, and the    *)
(* events file an atomic log as long as no two saves of events overlap.    *)
(***************************************************************************)
EXTENDS FileStorage, TLAPS

-----------------------------------------------------------------------------
(* The inductive invariant *)

Once(items)        == \A i, j \in 1..Len(items) : items[i] = items[j] => i = j
Among(item, items) == \E i \in 1..Len(items) : items[i] = item
UpTo(items, last)  == \A i \in 1..Len(items) : items[i] <= last

\* A temporary file as mkstemp leaves it, and with all of its text.
Empty        == [items |-> <<>>, whole |-> FALSE]
Full(image)  == [items |-> image, whole |-> TRUE]

\* What the temporary file of a save that is under way holds at each step.
Fits(step, content, image) ==
  /\ step \in Reading \cup {"replaced"} => content = NoFile
  /\ step \in {"created", "writing"} => content = Empty
  /\ step = "written" => content = Full(image)
  /\ step = "cleaning" => content \in {NoFile, Empty, Full(image)}

\* No two saves that are under way have the same temporary file, and there is
\* none yet for a save still to be called.
Temps ==
  /\ \A p \in Processes :
       /\ UnderWay(p) => /\ save[p].item \in 1..serial
                         /\ Fits(save[p].step, temp[save[p].item], Image(save[p]))
       /\ save[p].step = "reading" => save[p].target = "events"
       /\ \A q \in Processes :
            UnderWay(p) /\ UnderWay(q) /\ q # p => save[q].item # save[p].item
  /\ \A s \in Saves : s > serial => temp[s] = NoFile

\* Nothing that is stored, or was read, is in it twice or still to be called.
Stored ==
  /\ \A t \in Targets : file[t].whole /\ Once(file[t].items)
  /\ UpTo(file["events"].items, serial)
  /\ \A p \in Processes : Once(save[p].read) /\ UpTo(save[p].read, serial)

\* A save that has not renamed its file has an item of its own.
Waiting == Reading \cup {"created", "writing", "written"}

Fresh ==
  \A p \in Processes : save[p].step \in Waiting =>
    /\ ~Among(save[p].item, file["events"].items)
    /\ \A q \in Processes :
         /\ ~Among(save[p].item, save[q].read)
         /\ q # p /\ save[q].step \in Waiting => save[q].item # save[p].item

StorageInv == StorageTypeOK /\ Temps /\ NoStrayTemps /\ Stored /\ Fresh

-----------------------------------------------------------------------------

LEMMA AppendedOnce ==
  ASSUME NEW items \in Seq(Saves), NEW item \in Saves, Once(items), ~Among(item, items)
  PROVE  Once(Append(items, item))
BY DEF Once, Among

\* What a save would write, and its temporary file at any step, is well-formed.
LEMMA ImageFacts ==
  ASSUME NEW s \in SaveRecord, s.item \in Saves
  PROVE  /\ Image(s) \in Seq(Saves) /\ Image(s) # <<>>
         /\ Len(Image(s)) = IF s.target = "events" THEN Len(s.read) + 1 ELSE 1
BY DEF SaveRecord, Image

LEMMA ContentFacts ==
  /\ NoFile \in Content /\ Empty \in Content
  /\ \A image \in Seq(Saves) : Full(image) \in Content
<1>1. <<>> \in Seq(Saves)
  OBVIOUS
<1> QED
  BY <1>1 DEF NoFile, Empty, Full, Content

\* A save goes on, or ends, with no effect on the files: its temporary file
\* stays as it was unless it was the save's to change, and is there at the end
\* only if it is orphaned.
LEMMA Moved ==
  ASSUME StorageInv, NEW p \in Processes, UnderWay(p),
         NEW to \in Steps \ {"reading"}, to \in Waiting => save[p].step \in Waiting,
         save' = [save EXCEPT ![p].step = to],
         NEW made \in Content, temp' = [temp EXCEPT ![save[p].item] = made],
         to \notin Ended => Fits(to, made, Image(save[p])),
         orphaned' = orphaned \/ orphaned' = orphaned \cup {save[p].item},
         made # NoFile => to \in Holding \/ save[p].item \in orphaned',
         UNCHANGED <<file, serial, overlapped>>
  PROVE  StorageInv'
<1>1. /\ save \in [Processes -> SaveRecord] /\ temp \in [Saves -> Content]
      /\ serial \in 0..MaxSaves /\ MaxSaves \in Nat /\ orphaned \subseteq Saves
  BY SavesAssumption DEF StorageInv, StorageTypeOK
<1>2. save[p].item \in 1..serial /\ save[p].item \in Saves
  BY <1>1 DEF StorageInv, Temps, Saves
<1>3. /\ save' \in [Processes -> SaveRecord]
      /\ \A q \in Processes : /\ save'[q].item = save[q].item /\ save'[q].read = save[q].read
                              /\ save'[q].target = save[q].target
                              /\ Image(save'[q]) = Image(save[q])
                              /\ save'[q].step = IF q = p THEN to ELSE save[q].step
  BY <1>1 DEF SaveRecord, Image
<1>4. \A s \in Saves : temp'[s] = IF s = save[p].item THEN made ELSE temp[s]
  BY <1>1, <1>2
<1>5. StorageTypeOK'
  BY <1>1, <1>2, <1>3 DEF StorageInv, StorageTypeOK
<1>6. Temps'
  <2>1. \A q \in Processes : UnderWay(q)' => UnderWay(q) /\ save[q].item \in 1..serial
    BY <1>3 DEF StorageInv, Temps, UnderWay
  <2>2. ASSUME NEW q \in Processes, UnderWay(q)'
        PROVE  Fits(save'[q].step, temp'[save'[q].item], Image(save'[q]))
    <3>1. CASE q = p
      BY <1>2, <1>3, <1>4, <2>2, <3>1 DEF UnderWay
    <3>2. CASE q # p
      <4>1. save[q].item # save[p].item /\ save[q].item \in Saves
        BY <1>1, <2>1, <2>2, <3>2 DEF StorageInv, Temps, Saves
      <4>2. Fits(save[q].step, temp[save[q].item], Image(save[q]))
        BY <2>1, <2>2 DEF StorageInv, Temps
      <4> QED
        BY <1>3, <1>4, <3>2, <4>1, <4>2
    <3> QED
      BY <3>1, <3>2
  <2>3. \A s \in Saves : s > serial' => temp'[s] = NoFile
    BY <1>1, <1>2, <1>4 DEF StorageInv, Temps, Saves
  <2>4. \A q \in Processes : save'[q].step = "reading" => save'[q].target = "events"
    BY <1>3 DEF StorageInv, Temps
  <2>5. \A q, r \in Processes :
          UnderWay(q)' /\ UnderWay(r)' /\ r # q => save'[r].item # save'[q].item
    BY <1>3, <2>1 DEF StorageInv, Temps
  <2> QED
    BY <1>3, <2>1, <2>2, <2>3, <2>4, <2>5 DEF Temps
<1>7. NoStrayTemps'
  BY <1>1, <1>3, <1>4 DEF StorageInv, NoStrayTemps
<1>8. Stored'
  BY <1>3 DEF StorageInv, Stored
<1>9. Fresh'
  BY <1>3 DEF StorageInv, Fresh
<1> QED
  BY <1>5, <1>6, <1>7, <1>8, <1>9 DEF StorageInv

\* A save that does nothing but move on.
LEMMA MovedUntouched ==
  ASSUME StorageInv, NEW p \in Processes, UnderWay(p),
         NEW to \in Steps \ {"reading"}, to \in Waiting => save[p].step \in Waiting,
         save' = [save EXCEPT ![p].step = to],
         to \notin Ended => Fits(to, temp[save[p].item], Image(save[p])),
         orphaned' = orphaned \/ orphaned' = orphaned \cup {save[p].item},
         temp[save[p].item] # NoFile => to \in Holding \/ save[p].item \in orphaned',
         UNCHANGED <<file, temp, serial, overlapped>>
  PROVE  StorageInv'
<1>1. save[p].item \in Saves /\ temp \in [Saves -> Content]
  BY SavesAssumption DEF StorageInv, StorageTypeOK, Temps, Saves
<1>2. temp[save[p].item] \in Content /\ temp' = [temp EXCEPT ![save[p].item] = temp[save[p].item]]
  BY <1>1
<1> QED
  BY <1>2, Moved

LEMMA AbandonKeeps ==
  ASSUME StorageInv, NEW p \in Processes, UnderWay(p),
         NEW how \in {"raised", "interrupted", "killed"}, Abandon(p, how)
  PROVE  StorageInv'
<1>1. how \in Steps \ {"reading"} /\ how \notin Waiting /\ how \in Ended
  BY DEF Steps, Ended, Reading, InTry, Waiting
<1>2. /\ save' = [save EXCEPT ![p].step = how] /\ orphaned' = orphaned \cup {save[p].item}
      /\ UNCHANGED <<file, temp, serial, overlapped>>
  BY DEF Abandon
<1> QED
  BY <1>1, <1>2, MovedUntouched

\* A save is called, with an item that nobody has seen.
LEMMA CallKeeps ==
  ASSUME StorageInv, NEW p \in Processes, NEW target \in Targets, Call(p, target)
  PROVE  StorageInv'
<1> DEFINE called == [step |-> IF target = "events" THEN "reading" ELSE "creating",
                      target |-> target, item |-> serial + 1, read |-> <<>>]
<1>1. /\ save \in [Processes -> SaveRecord] /\ temp \in [Saves -> Content]
      /\ serial \in 0..MaxSaves /\ MaxSaves \in Nat
  BY SavesAssumption DEF StorageInv, StorageTypeOK
<1>2. /\ serial + 1 \in Saves /\ serial' = serial + 1 /\ serial' \in 0..MaxSaves
      /\ save' = [save EXCEPT ![p] = called] /\ save[p].step \in Ended
      /\ UNCHANGED <<file, temp, orphaned>> /\ overlapped' \in BOOLEAN
  BY <1>1 DEF Call, Saves, UnderWay, StorageInv, StorageTypeOK
<1>3. called \in SaveRecord
  <2>1. <<>> \in Seq(Saves)
    OBVIOUS
  <2> QED
    BY <1>2, <2>1 DEF SaveRecord, Steps, Reading
<1>4. /\ called.step \in Reading /\ called.target = target /\ called.item = serial + 1
      /\ called.read = <<>> /\ (called.step = "reading" => target = "events")
  BY DEF Reading
<1> HIDE DEF called
<1>5. /\ save' \in [Processes -> SaveRecord]
      /\ \A q \in Processes : save'[q] = IF q = p THEN called ELSE save[q]
  BY <1>1, <1>2, <1>3
<1>6. StorageTypeOK'
  BY <1>2, <1>5 DEF StorageInv, StorageTypeOK
<1>7. Temps'
  <2>1. Fits(called.step, temp'[serial + 1], Image(called))
    <3>1. temp'[serial + 1] = NoFile
      BY <1>1, <1>2 DEF StorageInv, Temps
    <3> QED
      BY <1>4, <3>1 DEF Fits, Reading
  <2>2. \A q \in Processes : q # p /\ UnderWay(q)' => UnderWay(q) /\ save[q].item \in 1..serial
    BY <1>5 DEF StorageInv, Temps, UnderWay
  <2>3. ASSUME NEW q \in Processes, UnderWay(q)'
        PROVE  /\ save'[q].item \in 1..serial'
               /\ Fits(save'[q].step, temp'[save'[q].item], Image(save'[q]))
    BY <1>1, <1>2, <1>4, <1>5, <2>1, <2>2, <2>3 DEF StorageInv, Temps
  <2>4. \A q \in Processes : save'[q].step = "reading" => save'[q].target = "events"
    BY <1>4, <1>5 DEF StorageInv, Temps
  <2>5. \A q, r \in Processes :
          UnderWay(q)' /\ UnderWay(r)' /\ r # q => save'[r].item # save'[q].item
    BY <1>1, <1>4, <1>5, <2>2 DEF StorageInv, Temps
  <2>6. \A s \in Saves : s > serial' => temp'[s] = NoFile
    BY <1>1, <1>2 DEF StorageInv, Temps, Saves
  <2> QED
    BY <2>3, <2>4, <2>5, <2>6 DEF Temps
<1>8. Stored'
  <2>1. UpTo(file["events"].items, serial) => UpTo(file["events"].items, serial')
    <3>1. file["events"].items \in Seq(Saves)
      BY DEF StorageInv, StorageTypeOK, Content, Targets
    <3> QED
      BY <1>1, <1>2, <3>1 DEF UpTo, Saves
  <2>2. ASSUME NEW q \in Processes PROVE Once(save'[q].read) /\ UpTo(save'[q].read, serial')
    <3>1. save[q].read \in Seq(Saves) /\ Once(save[q].read) /\ UpTo(save[q].read, serial)
      BY <1>1 DEF SaveRecord, StorageInv, Stored
    <3>2. UpTo(save[q].read, serial')
      BY <1>1, <1>2, <3>1 DEF UpTo, Saves
    <3>3. Once(<<>>) /\ UpTo(<<>>, serial')
      BY DEF Once, UpTo
    <3> QED
      BY <1>4, <1>5, <3>1, <3>2, <3>3
  <2> QED
    BY <1>2, <2>1, <2>2 DEF StorageInv, Stored
<1>9. Fresh'
  <2>1. ~Among(serial + 1, file["events"].items)
    BY <1>1 DEF StorageInv, Stored, UpTo, Among
  <2>2. \A q \in Processes : ~Among(serial + 1, save[q].read)
    BY <1>1 DEF StorageInv, Stored, UpTo, Among
  <2>3. \A item : ~Among(item, <<>>)
    BY DEF Among
  <2>4. ASSUME NEW q \in Processes, save[q].step \in Waiting PROVE save[q].item # serial + 1
    <3>1. save[q].step \notin Ended
      BY <2>4 DEF Waiting, Reading, Ended
    <3> QED
      BY <1>1, <3>1 DEF StorageInv, Temps, UnderWay
  <2> QED
    BY <1>2, <1>4, <1>5, <2>1, <2>2, <2>3, <2>4 DEF StorageInv, Fresh
<1>10. NoStrayTemps'
  <2>1. save[p].step \notin Holding
    BY <1>2 DEF Ended, Holding
  <2> QED
    BY <1>2, <1>5, <2>1 DEF StorageInv, NoStrayTemps
<1> QED
  BY <1>6, <1>7, <1>8, <1>9, <1>10 DEF StorageInv

\* The events that are there are read.
LEMMA ReadKeeps ==
  ASSUME StorageInv, NEW p \in Processes, ReadEvents(p)
  PROVE  StorageInv'
<1>1. /\ save \in [Processes -> SaveRecord] /\ temp \in [Saves -> Content]
      /\ file["events"].items \in Seq(Saves)
  BY DEF StorageInv, StorageTypeOK, Targets, Content
<1>2. /\ save[p].step = "reading" /\ UNCHANGED <<file, temp, serial, orphaned, overlapped>>
      /\ save' = [save EXCEPT ![p].step = "creating", ![p].read = file["events"].items]
  BY DEF ReadEvents, ghosts
<1>3. /\ save' \in [Processes -> SaveRecord]
      /\ \A q \in Processes :
           /\ save'[q].item = save[q].item /\ save'[q].target = save[q].target
           /\ save'[q].step = IF q = p THEN "creating" ELSE save[q].step
           /\ save'[q].read = IF q = p THEN file["events"].items ELSE save[q].read
           /\ q # p => save'[q] = save[q]
  <2>1. "creating" \in Steps
    BY DEF Steps, Reading
  <2> QED
    BY <1>1, <1>2, <2>1 DEF SaveRecord
<1>4. StorageTypeOK'
  BY <1>2, <1>3 DEF StorageInv, StorageTypeOK
<1>5. Temps'
  <2>1. UnderWay(p)
    BY <1>2 DEF UnderWay, Ended
  <2>2. \A q \in Processes : UnderWay(q)' => UnderWay(q)
    BY <1>3, <2>1 DEF UnderWay
  <2>3. Fits("creating", temp[save[p].item], Image(save'[p]))
    BY <1>2, <2>1 DEF StorageInv, Temps, Fits, Reading
  <2> QED
    BY <1>2, <1>3, <2>1, <2>2, <2>3 DEF StorageInv, Temps
<1>6. Stored'
  BY <1>2, <1>3 DEF StorageInv, Stored, Targets
<1>7. Fresh'
  <2>1. save[p].step \in Waiting
    BY <1>2 DEF Waiting, Reading
  <2> QED
    BY <1>2, <1>3, <2>1 DEF StorageInv, Fresh
<1>8. NoStrayTemps'
  <2>1. save[p].step \notin Holding
    BY <1>2 DEF Holding
  <2> QED
    BY <1>2, <1>3, <2>1 DEF StorageInv, NoStrayTemps
<1> QED
  BY <1>4, <1>5, <1>6, <1>7, <1>8 DEF StorageInv

\* A temporary file becomes the file.
LEMMA ReplaceKeeps ==
  ASSUME StorageInv, NEW p \in Processes, Replace(p)
  PROVE  StorageInv'
<1>1. /\ save \in [Processes -> SaveRecord] /\ temp \in [Saves -> Content]
      /\ file \in [Targets -> Content] /\ serial \in 0..MaxSaves /\ MaxSaves \in Nat
  BY SavesAssumption DEF StorageInv, StorageTypeOK
<1>2. /\ save[p].step = "written" /\ save' = [save EXCEPT ![p].step = "replaced"]
      /\ file' = [file EXCEPT ![save[p].target] = temp[save[p].item]]
      /\ temp' = [temp EXCEPT ![save[p].item] = NoFile]
      /\ UNCHANGED <<serial, orphaned, overlapped>>
  BY DEF Replace, Step, TempOf, ghosts
<1>3. /\ save' \in [Processes -> SaveRecord]
      /\ \A q \in Processes : /\ save'[q].item = save[q].item /\ save'[q].read = save[q].read
                              /\ save'[q].target = save[q].target
                              /\ Image(save'[q]) = Image(save[q])
                              /\ save'[q].step = IF q = p THEN "replaced" ELSE save[q].step
  <2>1. "replaced" \in Steps
    BY DEF Steps, InTry
  <2> QED
    BY <1>1, <1>2, <2>1 DEF SaveRecord, Image
<1>4. UnderWay(p) /\ save[p].item \in 1..serial /\ save[p].step \in Waiting
  BY <1>2 DEF UnderWay, Ended, Waiting, StorageInv, Temps
<1>5. temp[save[p].item] = Full(Image(save[p])) /\ save[p].target \in Targets /\ save[p].item \in Saves
  BY <1>1, <1>2, <1>4 DEF StorageInv, Temps, Fits, SaveRecord, Saves
<1>6. \A t \in Targets : file'[t] = IF t = save[p].target THEN Full(Image(save[p])) ELSE file[t]
  BY <1>1, <1>2, <1>5
<1>7. /\ Image(save[p]) \in Seq(Saves) /\ save[p].read \in Seq(Saves)
      /\ Image(save[p]) = IF save[p].target = "events" THEN Append(save[p].read, save[p].item)
                          ELSE <<save[p].item>>
  BY <1>1, <1>5, ImageFacts DEF SaveRecord, Image
<1>8. StorageTypeOK'
  <2>1. file' \in [Targets -> Content] /\ temp' \in [Saves -> Content]
    BY <1>1, <1>2, <1>5, ContentFacts
  <2>2. Len(file'["checkpoint"].items) <= 1
    <3>1. "checkpoint" \in Targets
      BY DEF Targets
    <3>2. CASE save[p].target = "checkpoint"
      <4>1. file'["checkpoint"].items = <<save[p].item>>
        BY <1>6, <1>7, <3>1, <3>2 DEF Full
      <4> QED
        BY <4>1
    <3>3. CASE save[p].target # "checkpoint"
      BY <1>6, <3>1, <3>3 DEF StorageInv, StorageTypeOK
    <3> QED
      BY <3>2, <3>3
  <2> QED
    BY <1>2, <1>3, <2>1, <2>2 DEF StorageInv, StorageTypeOK
<1>9. Temps' /\ NoStrayTemps'
  <2>1. \A s \in Saves : temp'[s] = IF s = save[p].item THEN NoFile ELSE temp[s]
    BY <1>1, <1>2, <1>5
  <2>2. \A q \in Processes : UnderWay(q)' => UnderWay(q) /\ save[q].item \in 1..serial
    BY <1>3, <1>4 DEF StorageInv, Temps, UnderWay
  <2>3. ASSUME NEW q \in Processes, UnderWay(q)'
        PROVE  Fits(save'[q].step, temp'[save'[q].item], Image(save'[q]))
    <3>1. CASE q = p
      BY <1>3, <1>5, <2>1, <3>1 DEF Fits, Reading
    <3>2. CASE q # p
      <4>1. save[q].item # save[p].item /\ save[q].item \in Saves
        BY <1>1, <1>4, <2>2, <2>3, <3>2 DEF StorageInv, Temps, Saves
      <4>2. Fits(save[q].step, temp[save[q].item], Image(save[q]))
        BY <2>2, <2>3 DEF StorageInv, Temps
      <4> QED
        BY <1>3, <2>1, <3>2, <4>1, <4>2
    <3> QED
      BY <3>1, <3>2
  <2>4. \A q, r \in Processes :
          UnderWay(q)' /\ UnderWay(r)' /\ r # q => save'[r].item # save'[q].item
    BY <1>3, <2>2 DEF StorageInv, Temps
  <2>5. Temps'
    BY <1>2, <1>3, <2>1, <2>2, <2>3, <2>4 DEF StorageInv, Temps
  <2>6. NoStrayTemps'
    BY <1>2, <1>3, <2>1 DEF StorageInv, NoStrayTemps
  <2> QED
    BY <2>5, <2>6
<1>10. Stored'
  <2>1. Once(Image(save[p]))
    <3>1. Once(save[p].read) /\ ~Among(save[p].item, save[p].read)
      BY <1>4 DEF StorageInv, Stored, Fresh
    <3>2. Once(<<save[p].item>>)
      BY DEF Once
    <3> QED
      BY <1>5, <1>7, <3>1, <3>2, AppendedOnce
  <2>2. save[p].target = "events" => UpTo(Image(save[p]), serial)
    <3>1. UpTo(save[p].read, serial)
      BY DEF StorageInv, Stored
    <3> QED
      BY <1>4, <1>7, <3>1 DEF UpTo
  <2>3. "events" \in Targets
    BY DEF Targets
  <2> QED
    BY <1>2, <1>3, <1>6, <2>1, <2>2, <2>3 DEF StorageInv, Stored, Full
<1>11. Fresh'
  <2>1. "replaced" \notin Waiting /\ "events" \in Targets
    BY DEF Waiting, Reading, Targets
  <2>2. ASSUME NEW q \in Processes, q # p, save[q].step \in Waiting
        PROVE  ~Among(save[q].item, file'["events"].items)
    <3>1. /\ ~Among(save[q].item, save[p].read) /\ save[p].item # save[q].item
          /\ ~Among(save[q].item, file["events"].items)
      BY <1>4, <2>2 DEF StorageInv, Fresh
    <3>2. ~Among(save[q].item, Append(save[p].read, save[p].item))
      BY <1>7, <3>1 DEF Among
    <3>3. save[p].target = "events" => file'["events"].items = Append(save[p].read, save[p].item)
      BY <1>6, <1>7, <2>1 DEF Full
    <3>4. save[p].target # "events" => file'["events"] = file["events"]
      BY <1>6, <2>1
    <3> QED
      BY <3>1, <3>2, <3>3, <3>4
  <2> QED
    BY <1>3, <2>1, <2>2 DEF StorageInv, Fresh
<1> QED
  BY <1>8, <1>9, <1>10, <1>11 DEF StorageInv

LEMMA StorageStep == StorageInv /\ [Next]_storageVars => StorageInv'
<1> SUFFICES ASSUME StorageInv, [Next]_storageVars PROVE StorageInv'
  OBVIOUS
<1> USE DEF Steps, Ended, Reading, InTry, Waiting, UnderWay
<1>1. ASSUME NEW p \in Processes, NEW t \in Targets, Call(p, t) PROVE StorageInv'
  BY <1>1, CallKeeps
<1>2. ASSUME NEW p \in Processes, ReadEvents(p) PROVE StorageInv'
  BY <1>2, ReadKeeps
<1>3. ASSUME NEW p \in Processes, CreateTemp(p) PROVE StorageInv'
  <2>1. /\ save[p].step = "creating" /\ save' = [save EXCEPT ![p].step = "created"]
        /\ temp' = [temp EXCEPT ![save[p].item] = Empty]
        /\ UNCHANGED <<file, serial, orphaned, overlapped>>
    BY <1>3 DEF CreateTemp, Step, TempOf, ghosts, Empty
  <2>2. Fits("created", Empty, Image(save[p])) /\ "created" \in Holding /\ Empty \in Content
    BY ContentFacts DEF Fits, Holding
  <2> QED
    BY <2>1, <2>2, Moved
<1>4. ASSUME NEW p \in Processes, EnterTry(p) PROVE StorageInv'
  <2>1. /\ save[p].step = "created" /\ save' = [save EXCEPT ![p].step = "writing"]
        /\ UNCHANGED <<file, temp, serial, orphaned, overlapped>>
    BY <1>4 DEF EnterTry, Step, ghosts
  <2>2. Fits("writing", temp[save[p].item], Image(save[p])) /\ "writing" \in Holding
    BY <2>1 DEF StorageInv, Temps, Fits, Holding
  <2> QED
    BY <2>1, <2>2, MovedUntouched
<1>5. ASSUME NEW p \in Processes, WriteAll(p) PROVE StorageInv'
  <2>1. /\ save[p].step = "writing" /\ save' = [save EXCEPT ![p].step = "written"]
        /\ temp' = [temp EXCEPT ![save[p].item] = Full(Image(save[p]))]
        /\ UNCHANGED <<file, serial, orphaned, overlapped>>
    BY <1>5 DEF WriteAll, Step, TempOf, ghosts, Full
  <2>2. Fits("written", Full(Image(save[p])), Image(save[p])) /\ "written" \in Holding
    BY DEF Fits, Holding
  <2>3. Full(Image(save[p])) \in Content
    <3>1. save[p] \in SaveRecord /\ save[p].item \in Saves
      BY <2>1, SavesAssumption DEF StorageInv, StorageTypeOK, Temps, Saves
    <3> QED
      BY <3>1, ImageFacts, ContentFacts
  <2> QED
    BY <2>1, <2>2, <2>3, Moved
<1>6. ASSUME NEW p \in Processes, Replace(p) PROVE StorageInv'
  BY <1>6, ReplaceKeeps
<1>7. ASSUME NEW p \in Processes, Return(p) PROVE StorageInv'
  <2>1. /\ save[p].step = "replaced" /\ save' = [save EXCEPT ![p].step = "returned"]
        /\ UNCHANGED <<file, temp, serial, orphaned, overlapped>>
    BY <1>7 DEF Return, Step
  <2>2. temp[save[p].item] = NoFile
    BY <2>1 DEF StorageInv, Temps, Fits
  <2> QED
    BY <2>1, <2>2, MovedUntouched
<1>8. ASSUME NEW p \in Processes, RaiseEarly(p) PROVE StorageInv'
  <2>1. /\ save[p].step \in Reading /\ save' = [save EXCEPT ![p].step = "raised"]
        /\ UNCHANGED <<file, temp, serial, orphaned, overlapped>>
    BY <1>8 DEF RaiseEarly, ghosts
  <2>2. temp[save[p].item] = NoFile
    BY <2>1 DEF StorageInv, Temps, Fits
  <2> QED
    BY <2>1, <2>2, MovedUntouched
<1>9. ASSUME NEW p \in Processes, LeaveTry(p) PROVE StorageInv'
  <2>1. /\ save[p].step \in InTry /\ save' = [save EXCEPT ![p].step = "cleaning"]
        /\ UNCHANGED <<file, temp, serial, orphaned, overlapped>>
    BY <1>9 DEF LeaveTry, ghosts
  <2>2. Fits("cleaning", temp[save[p].item], Image(save[p])) /\ "cleaning" \in Holding
    BY <2>1 DEF StorageInv, Temps, Fits, Holding
  <2> QED
    BY <2>1, <2>2, MovedUntouched
<1>10. ASSUME NEW p \in Processes, CleanUp(p) PROVE StorageInv'
  <2>1. /\ save[p].step = "cleaning" /\ save' = [save EXCEPT ![p].step = "raised"]
        /\ temp' = [temp EXCEPT ![save[p].item] = NoFile]
        /\ UNCHANGED <<file, serial, orphaned, overlapped>>
    BY <1>10 DEF CleanUp, Step, TempOf, ghosts
  <2> QED
    BY <2>1, ContentFacts, Moved
<1>11. ASSUME NEW p \in Processes, UnlinkFails(p) \/ Interrupt(p) \/ Kill(p) PROVE StorageInv'
  BY <1>11, AbandonKeeps DEF UnlinkFails, Interrupt, Kill
<1>12. CASE UNCHANGED storageVars
  BY <1>12 DEF storageVars, ghosts, StorageInv, StorageTypeOK, Temps, NoStrayTemps, Stored, Fresh
<1> QED
  BY <1>1, <1>2, <1>3, <1>4, <1>5, <1>6, <1>7, <1>8, <1>9, <1>10, <1>11, <1>12
  DEF Next, Advance, Fail

LEMMA StorageAlways == Spec => []StorageInv
<1>1. Init => StorageInv
  <2>1. NoFile \in Content /\ NoFile.items = <<>> /\ NoFile.whole = TRUE
    BY ContentFacts DEF NoFile
  <2>2. <<>> \in Seq(Saves) /\ 0 \in 0..MaxSaves
    BY SavesAssumption
  <2>3. Once(<<>>) /\ UpTo(<<>>, 0) /\ "never" \in Ended /\ "never" \notin Waiting
    BY DEF Once, UpTo, Ended, Waiting, Reading
  <2>4. ASSUME Init PROVE StorageTypeOK
    <3>1. [step |-> "never", target |-> "events", item |-> 0, read |-> <<>>] \in SaveRecord
      BY <2>2 DEF SaveRecord, Steps, Ended, Targets
    <3>2. save \in [Processes -> SaveRecord] /\ temp \in [Saves -> Content]
      BY <2>1, <2>4, <3>1 DEF Init
    <3>3. file \in [Targets -> Content] /\ Len(file["checkpoint"].items) <= 1
      BY <2>1, <2>4 DEF Init, Targets
    <3> QED
      BY <2>2, <2>4, <3>2, <3>3 DEF Init, StorageTypeOK
  <2>5. ASSUME Init PROVE Temps /\ NoStrayTemps /\ Stored /\ Fresh
    BY <2>1, <2>3, <2>5
    DEF Init, Temps, NoStrayTemps, Stored, Fresh, UnderWay, Targets, Ended
  <2> QED
    BY <2>4, <2>5 DEF StorageInv
<1> QED
  BY <1>1, StorageStep, PTL DEF Spec

\* Type correctness, and one checkpoint at most.
THEOREM StorageTypes == Spec => []StorageTypeOK
<1>1. StorageInv => StorageTypeOK
  BY DEF StorageInv
<1> QED
  BY <1>1, StorageAlways, PTL

\* Whoever reads a file finds a whole image without a repetition, whatever has
\* been killed, raised or interrupted, and however many processes save.
THEOREM FilesStayWhole == Spec => []FilesWhole
<1>1. StorageInv => FilesWhole
  BY DEF StorageInv, Stored, Once, FilesWhole
<1> QED
  BY <1>1, StorageAlways, PTL

\* A temporary file is in the hands of a save that goes on, or of nobody who
\* could have removed it.
THEOREM NoTempAstray == Spec => []NoStrayTemps
<1>1. StorageInv => NoStrayTemps
  BY DEF StorageInv
<1> QED
  BY <1>1, StorageAlways, PTL

-----------------------------------------------------------------------------
(* The files as AtomicStore sees them *)

Calls(t) == [p \in Processes |-> CallOf(p, t)]
NoCall   == [state |-> "idle", item |-> 0]

\* What a step may do to file t, its callers and its acknowledged saves.
Called(t, p, item) ==
  /\ Calls(t)[p].state = "idle"
  /\ Calls(t)' = [Calls(t) EXCEPT ![p] = [state |-> "called", item |-> item]]
  /\ UNCHANGED <<file[t].items, acknowledged[t]>>
TookEffect(t, p) ==
  /\ save[p].step = "written" /\ save[p].target = t
  /\ Calls(t)[p] = [state |-> "called", item |-> save[p].item]
  /\ file'[t].items = Image(save[p])
  /\ Calls(t)' = [Calls(t) EXCEPT ![p].state = "done"]
  /\ UNCHANGED acknowledged[t]
Returned(t, p) ==
  /\ Calls(t)[p].state = "done"
  /\ acknowledged'[t] = acknowledged[t] \cup {Calls(t)[p].item}
  /\ Calls(t)' = [Calls(t) EXCEPT ![p] = NoCall]
  /\ UNCHANGED file[t].items
Lost(t, p) ==
  /\ Calls(t)[p].state # "idle"
  /\ Calls(t)' = [Calls(t) EXCEPT ![p] = NoCall]
  /\ UNCHANGED <<file[t].items, acknowledged[t]>>

Seen(t) ==
  \/ UNCHANGED <<file[t].items, Calls(t), acknowledged[t]>>
  \/ \E p \in Processes : \/ \E item \in Saves : Called(t, p, item)
                          \/ TookEffect(t, p) \/ Returned(t, p) \/ Lost(t, p)

\* The saves of the others are where they were, with the same temporary files.
StillTheirs(p) ==
  \A q \in Processes \ {p} :
    save'[q] = save[q] /\ (UnderWay(q) => temp'[save[q].item] = temp[save[q].item])

LEMMA OthersStay ==
  ASSUME StorageInv, NEW p \in Processes, UnderWay(p),
         \A q \in Processes \ {p} : save'[q] = save[q],
         NEW made, temp' = [temp EXCEPT ![save[p].item] = made]
  PROVE  StillTheirs(p) /\ temp'[save[p].item] = made
<1>1. temp \in [Saves -> Content] /\ \A q \in Processes : UnderWay(q) => save[q].item \in Saves
  BY SavesAssumption DEF StorageInv, StorageTypeOK, Temps, Saves
<1>2. \A q \in Processes \ {p} : UnderWay(q) => save[q].item # save[p].item
  BY DEF StorageInv, Temps
<1> QED
  BY <1>1, <1>2 DEF StillTheirs

\* The call of one process changes.
LEMMA OneCall ==
  ASSUME NEW t \in Targets, NEW p \in Processes, StillTheirs(p)
  PROVE  /\ Calls(t)[p] = CallOf(p, t)
         /\ Calls(t)' = [Calls(t) EXCEPT ![p] = CallOf(p, t)']
         /\ CallOf(p, t)' = CallOf(p, t) => UNCHANGED Calls(t)
<1>1. \A q \in Processes \ {p} : CallOf(q, t)' = CallOf(q, t)
  BY DEF StillTheirs, CallOf, UnderWay, TempOf
<1> QED
  BY <1>1 DEF Calls

\* The saves that have returned are saves.
Acked == acknowledged \in [Targets -> SUBSET Saves]

LEMMA AckedStep == StorageInv /\ Acked /\ [Next]_storageVars => Acked'
<1> SUFFICES ASSUME StorageInv, Acked, [Next]_storageVars PROVE Acked'
  OBVIOUS
<1>1. ASSUME NEW p \in Processes, Return(p) PROVE Acked'
  <2>1. save[p].item \in Saves
    <3>1. save[p].item \in 1..serial
      BY <1>1 DEF Return, Step, StorageInv, Temps, UnderWay, Ended
    <3>2. serial \in 0..MaxSaves /\ MaxSaves \in Nat
      BY SavesAssumption DEF StorageInv, StorageTypeOK
    <3> QED
      BY <3>1, <3>2 DEF Saves
  <2> QED
    BY <1>1, <2>1 DEF Return, Acked
<1>2. CASE UNCHANGED acknowledged
  BY <1>2 DEF Acked
<1> QED
  BY <1>1, <1>2 DEF Next, Advance, Fail, Call, ReadEvents, CreateTemp, EnterTry, WriteAll, Replace,
     RaiseEarly, LeaveTry, CleanUp, UnlinkFails, Interrupt, Kill, Abandon, ghosts, storageVars

\* A save ends with nothing more to be seen of it than that.
LEMMA EndSeen ==
  ASSUME StorageInv, NEW t \in Targets, NEW p \in Processes, UnderWay(p),
         NEW end \in Ended, save' = [save EXCEPT ![p].step = end],
         NEW made, temp' = [temp EXCEPT ![save[p].item] = made], UNCHANGED <<file, acknowledged>>
  PROVE  Seen(t)
<1>0. /\ \A q \in Processes \ {p} : save'[q] = save[q]
      /\ save'[p].step = end
  BY DEF StorageInv, StorageTypeOK, SaveRecord
<1>1. StillTheirs(p) /\ save'[p].step = end
  BY <1>0, OthersStay
<1>2. CallOf(p, t)' = NoCall
  BY <1>1 DEF CallOf, UnderWay, NoCall
<1>3. CASE save[p].target = t
  <2>1. CallOf(p, t).state # "idle"
    BY <1>3 DEF CallOf
  <2> QED
    BY <1>1, <1>2, <2>1, OneCall DEF Seen, Lost
<1>4. CASE save[p].target # t
  <2>1. CallOf(p, t) = NoCall
    BY <1>4 DEF CallOf, NoCall
  <2> QED
    BY <1>1, <1>2, <2>1, OneCall DEF Seen
<1> QED
  BY <1>3, <1>4

\* A save goes on, and nobody sees it.
LEMMA MoveUnseen ==
  ASSUME StorageInv, NEW t \in Targets, NEW p \in Processes, UnderWay(p),
         NEW to \in Steps \ Ended, save' = [save EXCEPT ![p].step = to],
         NEW made, temp' = [temp EXCEPT ![save[p].item] = made], UNCHANGED <<file, acknowledged>>,
         (to = "replaced" \/ (to = "cleaning" /\ made = NoFile))
           <=> (save[p].step = "replaced" \/ (save[p].step = "cleaning" /\ temp[save[p].item] = NoFile))
  PROVE  Seen(t)
<1>0. /\ \A q \in Processes \ {p} : save'[q] = save[q]
      /\ save'[p].step = to /\ save'[p].target = save[p].target /\ save'[p].item = save[p].item
  BY DEF StorageInv, StorageTypeOK, SaveRecord
<1>1. StillTheirs(p) /\ temp'[save[p].item] = made
  BY <1>0, OthersStay
<1>2. CallOf(p, t)' = CallOf(p, t)
  BY <1>0, <1>1 DEF CallOf, UnderWay, TempOf
<1> QED
  BY <1>1, <1>2, OneCall DEF Seen

\* Every step is a step of AtomicStore for each of the files, or a stutter.
LEMMA StepSeen ==
  ASSUME StorageInv, Acked, [Next]_storageVars, NEW t \in Targets
  PROVE  Seen(t)
<1>0. /\ save \in [Processes -> SaveRecord] /\ temp \in [Saves -> Content]
      /\ file \in [Targets -> Content]
      /\ serial \in 0..MaxSaves /\ MaxSaves \in Nat
  BY SavesAssumption DEF StorageInv, StorageTypeOK
<1>1. ASSUME NEW p \in Processes, NEW target \in Targets, Call(p, target) PROVE Seen(t)
  <2>1. /\ StillTheirs(p)
        /\ save'[p].step \in Reading /\ save'[p].target = target /\ save'[p].item = serial + 1
        /\ serial + 1 \in Saves /\ ~UnderWay(p) /\ UNCHANGED <<file, acknowledged>>
    BY <1>0, <1>1 DEF Call, Reading, Saves, StillTheirs
  <2>2. CallOf(p, t) = NoCall /\ NoCall.state = "idle"
    BY <2>1 DEF CallOf, NoCall
  <2>3. CallOf(p, t)' = IF target = t THEN [state |-> "called", item |-> serial + 1] ELSE NoCall
    BY <2>1 DEF CallOf, NoCall, UnderWay, Reading, Ended
  <2>4. CASE target = t
    BY <2>1, <2>2, <2>3, <2>4, OneCall DEF Seen, Called
  <2>5. CASE target # t
    BY <2>1, <2>2, <2>3, <2>5, OneCall DEF Seen
  <2> QED
    BY <2>4, <2>5
<1>2. ASSUME NEW p \in Processes, ReadEvents(p) PROVE Seen(t)
  <2>1. /\ StillTheirs(p)
        /\ save[p].step = "reading" /\ save'[p].step = "creating"
        /\ save'[p].target = save[p].target /\ save'[p].item = save[p].item
        /\ UNCHANGED <<file, acknowledged>>
    BY <1>0, <1>2 DEF ReadEvents, SaveRecord, ghosts, StillTheirs
  <2>2. CallOf(p, t)' = CallOf(p, t)
    BY <2>1 DEF CallOf, UnderWay, Ended
  <2> QED
    BY <2>1, <2>2, OneCall DEF Seen
<1>3. ASSUME NEW p \in Processes, CreateTemp(p) PROVE Seen(t)
  <2>1. /\ save[p].step = "creating" /\ save' = [save EXCEPT ![p].step = "created"]
        /\ temp' = [temp EXCEPT ![save[p].item] = Empty] /\ UNCHANGED <<file, acknowledged>>
    BY <1>3 DEF CreateTemp, Step, TempOf, ghosts, Empty
  <2>2. UnderWay(p) /\ "created" \in Steps \ Ended
    BY <2>1 DEF UnderWay, Steps, Ended
  <2> QED
    BY <2>1, <2>2, MoveUnseen
<1>4. ASSUME NEW p \in Processes, EnterTry(p) PROVE Seen(t)
  <2>1. /\ save[p].step = "created" /\ save' = [save EXCEPT ![p].step = "writing"]
        /\ temp' = [temp EXCEPT ![save[p].item] = temp[save[p].item]] /\ UNCHANGED <<file, acknowledged>>
    BY <1>0, <1>4 DEF EnterTry, Step, ghosts
  <2>2. UnderWay(p) /\ "writing" \in Steps \ Ended
    BY <2>1 DEF UnderWay, Steps, Ended, InTry
  <2> QED
    BY <2>1, <2>2, MoveUnseen
<1>5. ASSUME NEW p \in Processes, WriteAll(p) PROVE Seen(t)
  <2>1. /\ save[p].step = "writing" /\ save' = [save EXCEPT ![p].step = "written"]
        /\ temp' = [temp EXCEPT ![save[p].item] = Full(Image(save[p]))] /\ UNCHANGED <<file, acknowledged>>
    BY <1>5 DEF WriteAll, Step, TempOf, ghosts, Full
  <2>2. UnderWay(p) /\ "written" \in Steps \ Ended
    BY <2>1 DEF UnderWay, Steps, Ended, InTry
  <2> QED
    BY <2>1, <2>2, MoveUnseen
<1>6. ASSUME NEW p \in Processes, Replace(p) PROVE Seen(t)
  <2>1. /\ StillTheirs(p)
        /\ save[p].step = "written" /\ save'[p].step = "replaced"
        /\ save'[p].target = save[p].target /\ save'[p].item = save[p].item
        /\ file' = [file EXCEPT ![save[p].target] = temp[save[p].item]]
        /\ save[p].target \in Targets /\ UNCHANGED acknowledged
    <3>1. UnderWay(p) /\ temp' = [temp EXCEPT ![save[p].item] = NoFile]
      BY <1>6 DEF Replace, Step, TempOf, UnderWay, Ended
    <3>2. \A q \in Processes \ {p} : save'[q] = save[q]
      BY <1>0, <1>6 DEF Replace, Step
    <3>3. StillTheirs(p)
      BY <3>1, <3>2, OthersStay
    <3> QED
      BY <1>0, <1>6, <3>3 DEF Replace, Step, TempOf, SaveRecord, ghosts
  <2>2. temp[save[p].item].items = Image(save[p])
    <3>1. temp[save[p].item] = Full(Image(save[p]))
      BY <2>1 DEF StorageInv, Temps, Fits, UnderWay, Ended
    <3> QED
      BY <3>1 DEF Full
  <2>3. CASE save[p].target = t
    <3>1. /\ CallOf(p, t) = [state |-> "called", item |-> save[p].item]
          /\ CallOf(p, t)' = [state |-> "done", item |-> save[p].item]
      BY <2>1, <2>3 DEF CallOf, UnderWay, Ended
    <3>2. file'[t].items = Image(save[p])
      BY <1>0, <2>1, <2>2, <2>3
    <3>3. CallOf(p, t)' = [CallOf(p, t) EXCEPT !.state = "done"]
      BY <3>1
    <3>4. Calls(t)[p] = CallOf(p, t) /\ Calls(t)' = [Calls(t) EXCEPT ![p] = CallOf(p, t)']
      BY <2>1, OneCall
    <3>5. Calls(t)' = [Calls(t) EXCEPT ![p].state = "done"]
      BY <3>3, <3>4
    <3> QED
      BY <2>1, <2>3, <3>1, <3>2, <3>4, <3>5 DEF Seen, TookEffect
  <2>4. CASE save[p].target # t
    <3>1. CallOf(p, t)' = CallOf(p, t)
      BY <2>1, <2>4 DEF CallOf
    <3> QED
      BY <1>0, <2>1, <2>4, <3>1, OneCall DEF Seen
  <2> QED
    BY <2>3, <2>4
<1>7. ASSUME NEW p \in Processes, Return(p) PROVE Seen(t)
  <2>1. /\ StillTheirs(p)
        /\ save[p].step = "replaced" /\ save'[p].step = "returned"
        /\ acknowledged' = [acknowledged EXCEPT ![save[p].target] = @ \cup {save[p].item}]
        /\ save[p].target \in Targets /\ UNCHANGED file
    BY <1>0, <1>7 DEF Return, Step, SaveRecord, StillTheirs
  <2>2. CallOf(p, t)' = NoCall
    BY <2>1 DEF CallOf, UnderWay, Ended, NoCall
  <2>3. CASE save[p].target = t
    <3>1. CallOf(p, t) = [state |-> "done", item |-> save[p].item]
      BY <2>1, <2>3 DEF CallOf, UnderWay, Ended
    <3>2. acknowledged'[t] = acknowledged[t] \cup {save[p].item}
      BY <2>1, <2>3 DEF Acked
    <3> QED
      BY <2>1, <2>2, <3>1, <3>2, OneCall DEF Seen, Returned
  <2>4. CASE save[p].target # t
    <3>1. CallOf(p, t) = NoCall /\ acknowledged'[t] = acknowledged[t]
      BY <2>1, <2>4 DEF CallOf, NoCall, Acked
    <3> QED
      BY <2>1, <2>2, <3>1, OneCall DEF Seen
  <2> QED
    BY <2>3, <2>4
<1>8. ASSUME NEW p \in Processes, RaiseEarly(p) PROVE Seen(t)
  <2>1. temp' = [temp EXCEPT ![save[p].item] = temp[save[p].item]]
    BY <1>0, <1>8 DEF RaiseEarly
  <2> QED
    BY <1>8, <2>1, EndSeen DEF RaiseEarly, ghosts, Ended, Reading, UnderWay
<1>9. ASSUME NEW p \in Processes, LeaveTry(p) PROVE Seen(t)
  <2>1. /\ temp' = [temp EXCEPT ![save[p].item] = temp[save[p].item]] /\ save[p].step \in InTry
        /\ save' = [save EXCEPT ![p].step = "cleaning"] /\ UNCHANGED <<file, acknowledged>>
    BY <1>0, <1>9 DEF LeaveTry, ghosts
  <2>2. save[p].step = "replaced" <=> temp[save[p].item] = NoFile
    <3>1. save[p].step \notin Ended => Image(save[p]) # <<>>
      BY <1>0, ImageFacts DEF StorageInv, Temps, UnderWay, Saves
    <3>2. Fits(save[p].step, temp[save[p].item], Image(save[p]))
      BY <2>1 DEF StorageInv, Temps, UnderWay, InTry, Ended
    <3>3. Empty # NoFile /\ (save[p].step \notin Ended => Full(Image(save[p])) # NoFile)
      BY <3>1 DEF Empty, Full, NoFile
    <3> QED
      BY <2>1, <3>2, <3>3 DEF Fits, InTry, Ended
  <2>3. UnderWay(p) /\ "cleaning" \in Steps \ Ended /\ save[p].step # "cleaning"
    BY <2>1 DEF UnderWay, Steps, Ended, InTry
  <2> QED
    BY <2>1, <2>2, <2>3, MoveUnseen
<1>10. ASSUME NEW p \in Processes, CleanUp(p) PROVE Seen(t)
  BY <1>10, EndSeen DEF CleanUp, Step, TempOf, ghosts, Ended, UnderWay
<1>11. ASSUME NEW p \in Processes, UnlinkFails(p) \/ Interrupt(p) \/ Kill(p) PROVE Seen(t)
  <2>1. temp' = [temp EXCEPT ![save[p].item] = temp[save[p].item]]
    BY <1>0, <1>11 DEF UnlinkFails, Interrupt, Kill, Abandon
  <2> QED
    BY <1>11, <2>1, EndSeen DEF UnlinkFails, Interrupt, Kill, Abandon, Ended, UnderWay
<1>12. CASE UNCHANGED storageVars
  BY <1>12 DEF storageVars, ghosts, Seen, Calls, CallOf, UnderWay, TempOf
<1> QED
  BY <1>1, <1>2, <1>3, <1>4, <1>5, <1>6, <1>7, <1>8, <1>9, <1>10, <1>11, <1>12
  DEF Next, Advance, Fail

LEMMA SeenAlways == Spec => [](StorageInv /\ Acked)
<1>1. Init => Acked
  BY DEF Init, Acked
<1> QED
  BY <1>1, AckedStep, StorageAlways, PTL DEF Spec

-----------------------------------------------------------------------------
(* The checkpoint file *)

\* The checkpoint file is a cell that each save replaces at one instant, whatever
\* is killed, raised or interrupted, and however many processes save.
THEOREM CheckpointIsACell == Spec => CheckpointAtomic
<1>1. Init => Cell!Init
  BY DEF Init, Cell!Init, Cell!NoCall, CallOf, UnderWay, Ended, NoFile, Targets
<1>2. StorageInv /\ Acked /\ [Next]_storageVars => [Cell!Next]_(Cell!atomicVars)
  <2> SUFFICES ASSUME StorageInv, Acked, [Next]_storageVars
               PROVE  [Cell!Next]_(Cell!atomicVars)
    OBVIOUS
  <2>1. Seen("checkpoint")
    BY StepSeen DEF Targets
  <2>2. CASE UNCHANGED <<file["checkpoint"].items, Calls("checkpoint"), acknowledged["checkpoint"]>>
    BY <2>2 DEF Cell!atomicVars, Calls
  <2>3. ASSUME NEW p \in Processes, NEW item \in Saves, Called("checkpoint", p, item)
        PROVE  Cell!Call(p, item)
    BY <2>3 DEF Called, Calls, Cell!Call
  <2>4. ASSUME NEW p \in Processes, TookEffect("checkpoint", p)
        PROVE  Cell!TakeEffect(p)
    <3>1. Image(save[p]) = <<save[p].item>>
      BY <2>4 DEF TookEffect, Image
    <3> QED
      BY <2>4, <3>1 DEF TookEffect, Calls, Cell!TakeEffect
  <2>5. ASSUME NEW p \in Processes, Returned("checkpoint", p) PROVE Cell!Return(p)
    BY <2>5 DEF Returned, Calls, NoCall, Cell!Return, Cell!NoCall
  <2>6. ASSUME NEW p \in Processes, Lost("checkpoint", p) PROVE Cell!Lose(p)
    BY <2>6 DEF Lost, Calls, NoCall, Cell!Lose, Cell!NoCall
  <2> QED
    BY <2>1, <2>2, <2>3, <2>4, <2>5, <2>6 DEF Seen, Cell!Next
<1> QED
  BY <1>1, <1>2, SeenAlways, PTL DEF Spec, CheckpointAtomic, Cell!Spec

-----------------------------------------------------------------------------
(* The events file *)

\* As long as no two saves of events have been under way at once, the one that
\* is has read what is in the file.
Alone ==
  ~overlapped =>
    \A p \in Processes : UnderWay(p) /\ save[p].target = "events" =>
      /\ \A q \in Processes : UnderWay(q) /\ save[q].target = "events" => q = p
      /\ save[p].step \in Waiting \ {"reading"} => save[p].read = file["events"].items

\* A save moves on: whoever is under way was so before, with the same target.
LEMMA AloneKept ==
  ASSUME Alone, UNCHANGED <<file["events"], overlapped>>,
         \A q \in Processes :
           /\ UnderWay(q)' => UnderWay(q)
           /\ save'[q].target = save[q].target /\ save'[q].read = save[q].read
           /\ save'[q].step \in Waiting \ {"reading"} => save[q].step \in Waiting \ {"reading"}
  PROVE  Alone'
BY DEF Alone

LEMMA AloneStep == StorageInv /\ Alone /\ [Next]_storageVars => Alone'
<1> SUFFICES ASSUME StorageInv, Alone, [Next]_storageVars PROVE Alone'
  OBVIOUS
<1>0. /\ save \in [Processes -> SaveRecord] /\ file \in [Targets -> Content]
      /\ {"events", "checkpoint"} = Targets
  BY DEF StorageInv, StorageTypeOK, Targets
<1>1. ASSUME NEW p \in Processes, NEW target \in Targets, Call(p, target) PROVE Alone'
  <2> DEFINE called == [step |-> IF target = "events" THEN "reading" ELSE "creating",
                        target |-> target, item |-> serial + 1, read |-> <<>>]
  <2>0. /\ save' = [save EXCEPT ![p] = called] /\ UNCHANGED file /\ ~UnderWay(p)
        /\ called.target = target
        /\ called.step = IF target = "events" THEN "reading" ELSE "creating"
    BY <1>1 DEF Call
  <2> HIDE DEF called
  <2>1. /\ \A q \in Processes \ {p} : save'[q] = save[q]
        /\ save'[p].target = target /\ UNCHANGED file /\ ~UnderWay(p)
        /\ save'[p].step = IF target = "events" THEN "reading" ELSE "creating"
    BY <1>0, <2>0
  <2>2. ~overlapped' =>
          /\ ~overlapped
          /\ target = "events" => \A q \in Processes : ~(UnderWay(q) /\ save[q].target = "events")
    BY <1>1, ZenonT(30) DEF Call
  <2>3. CASE target = "checkpoint"
    BY <2>1, <2>2, <2>3 DEF Alone, UnderWay
  <2>4. CASE target = "events"
    <3>1. SUFFICES ASSUME ~overlapped' PROVE Alone'
      BY DEF Alone
    <3>2. ~overlapped /\ \A q \in Processes : ~(UnderWay(q) /\ save[q].target = "events")
      BY <2>2, <2>4, <3>1
    <3>3. \A q \in Processes : UnderWay(q)' /\ save'[q].target = "events" => q = p
      BY <2>1, <3>2 DEF UnderWay
    <3>4. save'[p].step = "reading"
      BY <2>1, <2>4
    <3> QED
      BY <3>3, <3>4 DEF Alone
  <2> QED
    BY <1>0, <2>3, <2>4
<1>2. ASSUME NEW p \in Processes, ReadEvents(p) PROVE Alone'
  <2>1. /\ \A q \in Processes \ {p} : save'[q] = save[q]
        /\ save'[p].target = save[p].target /\ save'[p].read = file["events"].items
        /\ UnderWay(p) /\ UNCHANGED <<file, overlapped>>
    BY <1>0, <1>2 DEF ReadEvents, SaveRecord, ghosts, UnderWay, Ended
  <2> QED
    BY <2>1 DEF Alone, UnderWay
<1>3. ASSUME NEW p \in Processes, Replace(p) PROVE Alone'
  <2>1. /\ \A q \in Processes \ {p} : save'[q] = save[q]
        /\ save'[p].target = save[p].target /\ save'[p].read = save[p].read
        /\ save'[p].step = "replaced" /\ UnderWay(p)
        /\ save[p].target # "events" => UNCHANGED file["events"]
        /\ UNCHANGED overlapped /\ "replaced" \notin Waiting
    BY <1>0, <1>3 DEF Replace, Step, SaveRecord, ghosts, UnderWay, Ended, Waiting, Reading
  <2>2. CASE save[p].target = "events"
    <3>1. \A q \in Processes : UnderWay(q)' => UnderWay(q)
      BY <2>1 DEF UnderWay
    <3> QED
      BY <2>1, <2>2, <3>1 DEF Alone
  <2>3. CASE save[p].target # "events"
    BY <2>1, <2>3, AloneKept DEF UnderWay
  <2> QED
    BY <2>2, <2>3
<1>4. ASSUME NEW p \in Processes, NEW to \in Steps, UnderWay(p),
             save' = [save EXCEPT ![p].step = to], UNCHANGED <<file, overlapped>>,
             to \in Waiting \ {"reading"} => save[p].step \in Waiting \ {"reading"}
      PROVE  Alone'
  <2>1. /\ \A q \in Processes \ {p} : save'[q] = save[q]
        /\ save'[p].target = save[p].target /\ save'[p].read = save[p].read
        /\ save'[p].step = to
    BY <1>0, <1>4 DEF SaveRecord
  <2> QED
    BY <1>4, <2>1, AloneKept DEF UnderWay
<1>5. ASSUME NEW p \in Processes, CreateTemp(p) \/ EnterTry(p) \/ WriteAll(p) PROVE Alone'
  <2>1. \E to \in {"created", "writing", "written"} : save' = [save EXCEPT ![p].step = to]
    BY <1>5 DEF CreateTemp, EnterTry, WriteAll, Step
  <2>2. /\ save[p].step \in {"creating", "created", "writing"}
        /\ UNCHANGED <<file, overlapped>>
    BY <1>5 DEF CreateTemp, EnterTry, WriteAll, Step, ghosts
  <2>3. /\ UnderWay(p) /\ save[p].step \in Waiting \ {"reading"}
        /\ {"created", "writing", "written"} \subseteq Steps
    BY <2>2 DEF UnderWay, Ended, Waiting, Reading, Steps, InTry
  <2> QED
    BY <1>4, <2>1, <2>2, <2>3
<1>6. ASSUME NEW p \in Processes,
             Return(p) \/ RaiseEarly(p) \/ LeaveTry(p) \/ CleanUp(p) \/ UnlinkFails(p) \/
             Interrupt(p) \/ Kill(p)
      PROVE  Alone'
  <2>1. \E to \in Ended \cup {"cleaning"} : save' = [save EXCEPT ![p].step = to]
    BY <1>6 DEF Return, RaiseEarly, LeaveTry, CleanUp, UnlinkFails, Interrupt, Kill, Abandon, Step, Ended
  <2>2. UnderWay(p) /\ UNCHANGED <<file, overlapped>>
    BY <1>6 DEF Return, RaiseEarly, LeaveTry, CleanUp, UnlinkFails, Interrupt, Kill, Abandon, Step, ghosts,
                UnderWay, Ended, Reading, InTry
  <2>3. Ended \cup {"cleaning"} \subseteq Steps \ Waiting
    BY DEF Ended, Waiting, Reading, Steps
  <2> QED
    BY <1>4, <2>1, <2>2, <2>3
<1>7. CASE UNCHANGED storageVars
  BY <1>7 DEF storageVars, ghosts, Alone, UnderWay
<1> QED
  BY <1>1, <1>2, <1>3, <1>5, <1>6, <1>7 DEF Next, Advance, Fail

\* The events file is a log that each save of events appends to at one instant,
\* with the same failures, as long as no two of them have been under way at once.
THEOREM EventsAreALog == Spec => EventsAtomicAlone
<1>1. Init => Log!Init
  BY DEF Init, Log!Init, Log!NoCall, CallOf, UnderWay, Ended, NoFile, Targets
<1>2. Init => Alone
  BY DEF Init, Alone, UnderWay, Ended
<1>3. StorageInv /\ Acked /\ Alone /\ [Next]_storageVars
        => [~overlapped' => [Log!Next]_(Log!atomicVars)]_storageVars
  <2> SUFFICES ASSUME StorageInv, Acked, Alone, Next, ~overlapped'
               PROVE  [Log!Next]_(Log!atomicVars)
    OBVIOUS
  <2>1. Seen("events")
    BY StepSeen DEF Targets
  <2>2. CASE UNCHANGED <<file["events"].items, Calls("events"), acknowledged["events"]>>
    BY <2>2 DEF Log!atomicVars, Calls
  <2>3. ASSUME NEW p \in Processes, NEW item \in Saves, Called("events", p, item)
        PROVE  Log!Call(p, item)
    BY <2>3 DEF Called, Calls, Log!Call
  <2>4. ASSUME NEW p \in Processes, TookEffect("events", p)
        PROVE  Log!TakeEffect(p)
    <3>1. ~overlapped
      BY DEF Next, Advance, Fail, Call, ReadEvents, CreateTemp, EnterTry, WriteAll, Replace, Return,
             RaiseEarly, LeaveTry, CleanUp, UnlinkFails, Interrupt, Kill, Abandon, ghosts
    <3>2. UnderWay(p) /\ save[p].step \in Waiting \ {"reading"} /\ save[p].target = "events"
      BY <2>4 DEF TookEffect, UnderWay, Ended, Waiting, Reading
    <3>3. Image(save[p]) = Append(file["events"].items, save[p].item)
      BY <3>1, <3>2 DEF Alone, Image
    <3> QED
      BY <2>4, <3>3 DEF TookEffect, Calls, Log!TakeEffect
  <2>5. ASSUME NEW p \in Processes, Returned("events", p) PROVE Log!Return(p)
    BY <2>5 DEF Returned, Calls, NoCall, Log!Return, Log!NoCall
  <2>6. ASSUME NEW p \in Processes, Lost("events", p) PROVE Log!Lose(p)
    BY <2>6 DEF Lost, Calls, NoCall, Log!Lose, Log!NoCall
  <2> QED
    BY <2>1, <2>2, <2>3, <2>4, <2>5, <2>6 DEF Seen, Log!Next
<1>4. Spec => []Alone
  BY <1>2, AloneStep, StorageAlways, PTL DEF Spec
<1> QED
  BY <1>1, <1>3, <1>4, SeenAlways, PTL DEF Spec, EventsAtomicAlone
=============================================================================
