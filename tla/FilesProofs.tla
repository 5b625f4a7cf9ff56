----------------------------- MODULE FilesProofs -----------------------------
(***************************************************************************)
(* WriteFile implements AtomicFile, for any number of writers, values,      *)
(* failing calls and kills; with power failures, if all writers sync.       *)
(***************************************************************************)
EXTENDS Files, TLAPS

Contents == Value \cup {Absent}
Pcs == {"idle", "create", "chmod", "write", "op", "rename", "done", "error"}
Calls == [pc : Pcs, data : Value \cup {Idle}]
Temps == [data : Value \cup {Absent, Torn}, synced : BOOLEAN]

\* A call in progress has data, and what it is about to rename is all of them.
Sound(w) ==
    /\ Active(w) => wr[w].data \in Value
    /\ wr[w].pc \in {"op", "rename"} => temp[w].data = wr[w].data
    /\ wr[w].pc = "rename" /\ w \in Fsync => temp[w].synced

IInv ==
    /\ wr \in [Writer -> Calls] /\ temp \in [Writer -> Temps]
    /\ file \in Contents /\ file \in disk /\ disk \subseteq Contents \cup {Torn}
    /\ Fsync = Writer => Torn \notin disk
    /\ \A w \in Writer : Sound(w)

\* Torn data and the mark of an idle writer are no contents of WriteFile.
LEMMA Distinct == Torn \notin Contents /\ Idle \notin Value
BY FilesAssumption DEF FilesAssumption, Contents

\* The invariant holds before the first call of WriteFile.
LEMMA InitIInv == FilesInit => IInv
BY Distinct DEF FilesInit, IInv, Sound, Active, Calls, Pcs, Temps, Contents, NoTemp, NoCall

\* What a step of one writer leaves alone in the calls of the others.
LEMMA Others ==
    ASSUME IInv, NEW w \in Writer, NEW c \in Calls, NEW t \in Temps,
           wr' = [wr EXCEPT ![w] = c], temp' = [temp EXCEPT ![w] = t],
           c.pc \notin {"idle", "done", "error"} => c.data \in Value,
           c.pc \in {"op", "rename"} => t.data = c.data,
           c.pc = "rename" /\ w \in Fsync => t.synced
    PROVE  /\ wr' \in [Writer -> Calls] /\ temp' \in [Writer -> Temps]
           /\ \A x \in Writer : Sound(x)'
<1>1. wr' \in [Writer -> Calls] /\ temp' \in [Writer -> Temps]
  BY DEF IInv
<1>2. ASSUME NEW x \in Writer PROVE Sound(x)'
  <2>1. CASE x = w
    BY <2>1 DEF IInv, Sound, Active
  <2>2. CASE x # w
    BY <2>2 DEF IInv, Sound, Active
  <2> QED BY <2>1, <2>2
<1> QED BY <1>1, <1>2

\* A step to another system call keeps the data of the call.
LEMMA GotoCall ==
    ASSUME IInv, NEW w \in Writer, NEW pc \in Pcs, Goto(w, pc)
    PROVE  /\ [pc |-> pc, data |-> wr[w].data] \in Calls
           /\ wr' = [wr EXCEPT ![w] = [pc |-> pc, data |-> wr[w].data]]
BY DEF IInv, Goto, Calls

\* A call that is over, and its temporary file, have the right type.
LEMMA NoTemps == NoTemp \in Temps /\ NoCall \in Calls
BY DEF NoTemp, NoCall, Temps, Calls, Pcs

\* A step that leaves the temporary files alone leaves that of w alone.
LEMMA SameTemp ==
    ASSUME IInv, NEW w \in Writer, temp' = temp
    PROVE  temp[w] \in Temps /\ temp' = [temp EXCEPT ![w] = temp[w]]
BY DEF IInv

\* The begin of WriteFile is the begin of an abstract call.
LEMMA StepWriteFile ==
    ASSUME IInv, NEW w \in Writer, NEW v \in Value, WriteFile(w, v)
    PROVE  IInv' /\ Atomic!Next
<1> DEFINE c == [pc |-> "create", data |-> v]
<1>1. c \in Calls /\ wr' = [wr EXCEPT ![w] = c]
  BY DEF WriteFile, Calls, Pcs
<1>2. temp[w] \in Temps /\ temp' = [temp EXCEPT ![w] = temp[w]]
  BY SameTemp DEF WriteFile
<1>3. IInv'
  BY <1>1, <1>2, Others DEF WriteFile, IInv
<1>4. Atomic!Call(w, v)
  BY Distinct DEF Atomic!Call, WriteFile, Active, At, IInv
<1> QED BY <1>3, <1>4 DEF Atomic!Next

\* What the abstract file sees of a state.
Seen == <<file, disk \ {Torn}, [w \in Writer |-> IF Active(w) THEN wr[w].data ELSE Idle]>>

\* A system call before the rename changes the temporary file only.
LEMMA Inside ==
    ASSUME IInv, NEW w \in Writer, Active(w), UNCHANGED <<file, disk>>,
           NEW pc \in {"chmod", "write", "op", "rename"}, Goto(w, pc),
           NEW t \in Temps, temp' = [temp EXCEPT ![w] = t],
           pc \in {"op", "rename"} => t.data = wr[w].data,
           pc = "rename" /\ w \in Fsync => t.synced
    PROVE  IInv' /\ UNCHANGED Seen
<1> DEFINE c == [pc |-> pc, data |-> wr[w].data]
<1>1. c \in Calls /\ wr' = [wr EXCEPT ![w] = c] /\ wr[w].data \in Value
  BY GotoCall DEF Pcs, IInv, Sound
<1>2. IInv'
  BY <1>1, Others DEF IInv
<1>3. \A x \in Writer : (IF Active(x) THEN wr[x].data ELSE Idle)'
                        = IF Active(x) THEN wr[x].data ELSE Idle
  BY <1>1 DEF IInv, Active
<1> QED BY <1>2, <1>3 DEF Seen

\* The system calls of WriteFile before its rename are no abstract step.
LEMMA StepSystemCall ==
    ASSUME IInv, NEW w \in Writer, SystemCall(w)
    PROVE  IInv' /\ UNCHANGED Seen
<1>1. CASE CreateTemp(w)
  <2> DEFINE t == [data |-> Torn, synced |-> FALSE]
  <2>1. t \in Temps
    BY DEF Temps
  <2> QED BY <1>1, <2>1, Inside DEF CreateTemp, At, Active
<1>2. CASE Chmod(w)
  BY <1>2, SameTemp, Inside DEF Chmod, At, Active
<1>3. CASE WriteData(w)
  <2> DEFINE t == [data |-> wr[w].data, synced |-> FALSE]
  <2>1. Active(w) /\ t \in Temps
    BY <1>3 DEF WriteData, At, Active, Temps, IInv, Sound
  <2> QED BY <1>3, <2>1, Inside DEF WriteData
<1>4. CASE RunOps(w)
  <2> DEFINE t == [data |-> temp[w].data, synced |-> FsyncFileOp(w)]
  <2>1. Active(w) /\ temp[w].data = wr[w].data /\ wr[w].data \in Value
    BY <1>4 DEF RunOps, At, Active, IInv, Sound
  <2>2. t \in Temps
    BY <2>1 DEF FsyncFileOp, Temps
  <2>3. w \in Fsync => t.synced
    BY DEF FsyncFileOp
  <2> QED BY <1>4, <2>1, <2>2, <2>3, Inside DEF RunOps
<1> QED BY <1>1, <1>2, <1>3, <1>4 DEF SystemCall

\* The rename of WriteFile is where the abstract file is replaced.
LEMMA StepRename ==
    ASSUME IInv, NEW w \in Writer, Rename(w)
    PROVE  IInv' /\ Atomic!Replace(w)
<1> DEFINE c == [pc |-> "done", data |-> wr[w].data]
<1>1. c \in Calls /\ wr' = [wr EXCEPT ![w] = c]
  BY GotoCall DEF Rename, Pcs
<1>2. wr[w].data \in Value /\ temp[w].data = wr[w].data /\ Active(w)
  BY DEF IInv, Sound, Rename, At, Active
<1>3. w \in Fsync => temp[w].synced
  BY DEF IInv, Sound, Rename, At
<1>4. /\ wr' \in [Writer -> Calls] /\ temp' \in [Writer -> Temps]
      /\ \A x \in Writer : Sound(x)'
  BY <1>1, NoTemps, Others DEF Rename
<1>5. IInv'
  BY <1>2, <1>3, <1>4, Distinct DEF IInv, Rename, Contents
<1>6. Atomic!Replace(w)
  BY <1>1, <1>2, Distinct DEF Atomic!Replace, Rename, Active, IInv, Contents
<1> QED BY <1>5, <1>6

\* The call ends without the rename.
LEMMA StepGiveUp ==
    ASSUME IInv, NEW w \in Writer, Fail(w) \/ Killed(w)
    PROVE  IInv' /\ Atomic!GiveUp(w)
<1>1. PICK c \in Calls : /\ wr' = [wr EXCEPT ![w] = c] /\ c.pc \in {"idle", "error"}
  BY GotoCall, NoTemps DEF Fail, Killed, NoCall, Pcs
<1>2. temp' = [temp EXCEPT ![w] = NoTemp] /\ UNCHANGED <<file, disk>> /\ Active(w)
  BY DEF Fail, Killed
<1>3. IInv'
  BY <1>1, <1>2, NoTemps, Others DEF IInv
<1>4. wr[w].data \in Value
  BY <1>2 DEF IInv, Sound
<1>5. Atomic!GiveUp(w)
  BY <1>1, <1>2, <1>4, Distinct DEF Atomic!GiveUp, Active, IInv
<1> QED BY <1>3, <1>5

\* The return of WriteFile is no abstract step: the call was over before.
LEMMA StepReturn ==
    ASSUME IInv, NEW w \in Writer, Return(w)
    PROVE  IInv' /\ UNCHANGED Seen
<1>1. temp[w] \in Temps /\ temp' = [temp EXCEPT ![w] = temp[w]]
  BY SameTemp DEF Return
<1>2. IInv'
  BY <1>1, NoTemps, Others DEF IInv, Return, NoCall
<1>3. \A x \in Writer : (IF Active(x) THEN wr[x].data ELSE Idle)'
                        = IF Active(x) THEN wr[x].data ELSE Idle
  BY DEF Return, Active, NoCall, IInv
<1> QED BY <1>2, <1>3 DEF Return, Seen

\* The directory reaches the disk in both.
LEMMA StepSettle ==
    ASSUME IInv, Settle
    PROVE  IInv' /\ Atomic!Settle
<1>1. IInv'
  BY Distinct DEF IInv, Settle, Sound, Active, Contents
<1>2. Atomic!Settle
  BY Distinct DEF Atomic!Settle, Settle, IInv, Active, Contents
<1> QED BY <1>1, <1>2

\* This is where the writers have to sync.
LEMMA StepPowerFailure ==
    ASSUME IInv, PowerFailure, Fsync = Writer
    PROVE  IInv' /\ Atomic!PowerFailure
<1>1. IInv'
  BY Distinct, NoTemps DEF IInv, PowerFailure, Sound, Active, Contents, NoCall, NoTemp
<1>2. Atomic!PowerFailure
  BY Distinct DEF Atomic!PowerFailure, PowerFailure, IInv, Active, NoCall, Contents
<1> QED BY <1>1, <1>2

\* Every step of the writers of WriteFile is a step of AtomicFile or none.
LEMMA NextStep ==
    ASSUME IInv, [FilesNext]_fileVars, Fsync = Writer \/ MaxPower = 0, power \in Nat
    PROVE  IInv' /\ [Atomic!Next]_Seen
<1>1. CASE Settle
  BY <1>1, StepSettle DEF Atomic!Next
<1>2. CASE PowerFailure
  <2>1. Fsync = Writer
    BY <1>2 DEF PowerFailure
  <2> QED BY <1>2, <2>1, StepPowerFailure DEF Atomic!Next
<1>3. ASSUME NEW w \in Writer, SystemCall(w) PROVE IInv' /\ [Atomic!Next]_Seen
  BY <1>3, StepSystemCall
<1>4. ASSUME NEW w \in Writer, Rename(w) PROVE IInv' /\ [Atomic!Next]_Seen
  BY <1>4, StepRename DEF Atomic!Next
<1>5. ASSUME NEW w \in Writer, Fail(w) \/ Killed(w) PROVE IInv' /\ [Atomic!Next]_Seen
  BY <1>5, StepGiveUp DEF Atomic!Next
<1>6. ASSUME NEW w \in Writer, Return(w) PROVE IInv' /\ [Atomic!Next]_Seen
  BY <1>6, StepReturn
<1>7. ASSUME NEW w \in Writer, NEW v \in Value, WriteFile(w, v)
      PROVE  IInv' /\ [Atomic!Next]_Seen
  BY <1>7, StepWriteFile
<1>8. CASE UNCHANGED fileVars
  BY <1>8 DEF fileVars, IInv, Sound, Active, Seen
<1> QED BY <1>1, <1>2, <1>3, <1>4, <1>5, <1>6, <1>7, <1>8 DEF FilesNext

(* safeio.go:29: for any number of writers, values, failing calls, kills and  *)
(* power failures, WriteFile replaces the file by the whole of the data in   *)
(* one step or leaves it alone, if every writer passes FsyncFileOp. Without  *)
(* it the same holds as long as the power stays on.                          *)
THEOREM WriteFileIsAtomic ==
    ASSUME Fsync = Writer \/ MaxPower = 0
    PROVE  FilesSpec => FileAtomic
<1>1. FilesInit => IInv /\ power \in Nat /\ Atomic!Init
  BY InitIInv, Distinct DEF FilesInit, Atomic!Init, Active, NoCall, Contents
<1>2. IInv /\ power \in Nat /\ [FilesNext]_fileVars
      => (IInv /\ power \in Nat)' /\ [Atomic!Next]_(Atomic!atomicVars)
  <2>1. power \in Nat /\ [FilesNext]_fileVars => power' \in Nat
    BY DEF FilesNext, fileVars, Settle, PowerFailure, SystemCall, CreateTemp, Chmod, WriteData,
           RunOps, Rename, Fail, Return, Killed, WriteFile
  <2> QED BY <2>1, NextStep DEF Seen, Atomic!atomicVars
<1> QED BY <1>1, <1>2, PTL DEF FilesSpec, FileAtomic, Atomic!Spec
=============================================================================
