-------------------------------- MODULE Files --------------------------------
(***************************************************************************)
(* WriteFile of internal/safeio, one step per system call: a temporary file  *)
(* is made, written, closed, handed to the given operations and renamed.     *)
(* Any of them may fail, the process may end between any two, and so may     *)
(* the power.                                                                *)
(***************************************************************************)
EXTENDS Integers, FiniteSets

CONSTANTS Writer,      \* those who call WriteFile for this file
          Fsync,       \* the ones that pass FsyncFileOp
          Value,       \* what they write
          Absent,      \* there is no file
          Torn,        \* the file has lost its data
          Idle,
          MaxFaults,   \* bound on the calls that fail
          MaxPower     \* bound on power failures

ASSUME FilesAssumption ==
    /\ Fsync \subseteq Writer
    /\ {Absent, Torn, Idle} \cap Value = {} /\ Absent # Torn
    /\ MaxFaults \in Nat /\ MaxPower \in Nat

VARIABLES file,     \* what a reader finds under the name
          disk,     \* what may be found after a power failure
          temp,     \* the temporary file of each writer
          wr,       \* where each call of WriteFile is
          faults,   \* system calls that failed
          power     \* power failures

fileVars == <<file, disk, temp, wr, faults, power>>

NoTemp == [data |-> Absent, synced |-> FALSE]
NoCall == [pc |-> "idle", data |-> Idle]

FilesInit == /\ file \in Value \cup {Absent}
             /\ disk = {file}
             /\ temp = [w \in Writer |-> NoTemp]
             /\ wr = [w \in Writer |-> NoCall]
             /\ faults = 0 /\ power = 0

At(w, pc) == wr[w].pc = pc
Goto(w, pc) == wr' = [wr EXCEPT ![w] = [pc |-> pc, data |-> wr[w].data]]
Active(w) == wr[w].pc \notin {"idle", "done", "error"}

----------------------------------------------------------------------------
WriteFile(w, v) ==
    /\ At(w, "idle")
    /\ wr' = [wr EXCEPT ![w] = [pc |-> "create", data |-> v]]
    /\ UNCHANGED <<file, disk, temp, faults, power>>

CreateTemp(w) ==
    /\ At(w, "create") /\ Goto(w, "chmod")
    /\ temp' = [temp EXCEPT ![w] = [data |-> Torn, synced |-> FALSE]]
    /\ UNCHANGED <<file, disk, faults, power>>

\* Chmod, and Chown to the owner of the file that is there.
Chmod(w) ==
    /\ At(w, "chmod") /\ Goto(w, "write")
    /\ UNCHANGED <<file, disk, temp, faults, power>>

\* Mutant: the data go to the file itself.
WriteData_InPlace(w) ==
    /\ At(w, "write") /\ Goto(w, "op")
    /\ temp' = [temp EXCEPT ![w] = [data |-> wr[w].data, synced |-> FALSE]]
    /\ file' = wr[w].data
    /\ UNCHANGED <<disk, faults, power>>
\* Write and Close.
WriteData(w) ==
    /\ At(w, "write") /\ Goto(w, "op")
    /\ temp' = [temp EXCEPT ![w] = [data |-> wr[w].data, synced |-> FALSE]]
    /\ UNCHANGED <<file, disk, faults, power>>

FsyncFileOp(w) == w \in Fsync

RunOps(w) ==
    /\ At(w, "op") /\ Goto(w, "rename")
    /\ temp' = [temp EXCEPT ![w] = [data |-> temp[w].data, synced |-> FsyncFileOp(w)]]
    /\ UNCHANGED <<file, disk, faults, power>>

\* The directory is not synced: after a power failure the old entry may be
\* back, or the new one be there without its data.
Rename(w) ==
    /\ At(w, "rename") /\ Goto(w, "done")
    /\ file' = temp[w].data
    /\ disk' = disk \cup {temp[w].data} \cup (IF temp[w].synced THEN {} ELSE {Torn})
    /\ temp' = [temp EXCEPT ![w] = NoTemp]
    /\ UNCHANGED <<faults, power>>

\* A system call fails and the error is returned. The temporary file is
\* removed or, after a failed rename, left where nobody reads it.
Fail(w) ==
    /\ Active(w) /\ faults < MaxFaults
    /\ faults' = faults + 1
    /\ Goto(w, "error")
    /\ temp' = [temp EXCEPT ![w] = NoTemp]
    /\ UNCHANGED <<file, disk, power>>

Return(w) ==
    /\ wr[w].pc \in {"done", "error"}
    /\ wr' = [wr EXCEPT ![w] = NoCall]
    /\ UNCHANGED <<file, disk, temp, faults, power>>

\* The process ends. What is left of a temporary file has a name with a dot
\* in front, which nobody reads.
Killed(w) ==
    /\ Active(w)
    /\ wr' = [wr EXCEPT ![w] = NoCall]
    /\ temp' = [temp EXCEPT ![w] = NoTemp]
    /\ UNCHANGED <<file, disk, faults, power>>

Settle == disk' = {file} /\ UNCHANGED <<file, temp, wr, faults, power>>

PowerFailure ==
    /\ power < MaxPower /\ power' = power + 1
    /\ file' \in disk /\ disk' = {file'}
    /\ temp' = [w \in Writer |-> NoTemp] /\ wr' = [w \in Writer |-> NoCall]
    /\ UNCHANGED faults

SystemCall(w) == CreateTemp(w) \/ Chmod(w) \/ WriteData(w) \/ RunOps(w)

FilesNext ==
    \/ Settle \/ PowerFailure
    \/ \E w \in Writer : \/ SystemCall(w) \/ Rename(w) \/ Fail(w)
                         \/ Return(w) \/ Killed(w)
                         \/ \E v \in Value : WriteFile(w, v)

FilesSpec == FilesInit /\ [][FilesNext]_fileVars

----------------------------------------------------------------------------
\* Torn data are never seen when every writer syncs, or the power stays on.
Atomic == INSTANCE AtomicFile WITH
    content <- file, lasting <- disk \ {Torn},
    call <- [w \in Writer |-> IF Active(w) THEN wr[w].data ELSE Idle]

(* safeio.go:29: WriteFile "writes data to a file named by filename,         *)
(* atomically": it implements AtomicFile, whatever fails and whenever the    *)
(* process ends.                                                             *)
FileAtomic == Atomic!Spec
============================================================================
