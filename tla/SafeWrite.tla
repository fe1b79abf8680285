------------------------------ MODULE SafeWrite ------------------------------
(***************************************************************************)
(* src/python/fileutils.py: write() puts the data into a temporary file,   *)
(* renames the old file to its backup name and the temporary file to its   *)
(* final name.  Modelled are a program which calls it several times, the   *)
(* directory it works in, the data on its way from the program to the      *)
(* disk, failing system calls, the program being killed, and the system    *)
(* crashing, after which the directory may be any earlier one and data     *)
(* which wasn't stored is gone.                                            *)
(*                                                                         *)
(* A file is identified with the version of the contents it was made for:  *)
(* 0 is an old backup, 1 what the file held at first, and each call of     *)
(* write() makes the next one.  Symbolic links have been followed; a file  *)
(* which isn't a regular file is always refused.                           *)
(***************************************************************************)
EXTENDS Integers

CONSTANTS Chunks,       \* in how many pieces the data is written
          LastVersion,  \* bounds the number of calls
          NoFile

ASSUME SafeWriteAssumption ==
  Chunks \in Nat \ {0} /\ LastVersion \in Nat \ {0} /\ NoFile \notin 0..LastVersion

Version == 0..LastVersion
File == Version \cup {NoFile}
Dir == [target: File, backup: File, temps: SUBSET Version]
Options == [overwrite: BOOLEAN, backup: BOOLEAN, fsync: BOOLEAN]

VARIABLES
  dir, past,    \* the directory, and every state it has been in
  written,      \* chunks write_func has passed to the file object
  cached,       \* per file, chunks the system knows about
  stored,       \* per file, chunks which are on disk
  mode,         \* per file, its permissions
  pc,           \* the system call write() is about to make
  opts, before, \* the arguments of the call, and the directory it has found
  new,          \* the version the last call writes
  outcome       \* how the last call ended: "ok", "killed", or what failed

vars == <<dir, past, written, cached, stored, mode, pc, opts, before, new, outcome>>
data == <<written, cached, stored>>
call == <<opts, before, new>>

Failing == {"write", "close", "backup", "rename", "unlink", "chmod", "chown"}

MoveTo(d) == dir' = d /\ past' = past \cup {d}

Init ==
  /\ dir \in [target: {1, NoFile}, backup: {0, NoFile}, temps: {{}}]
  /\ past = {dir}
  /\ written = 0
  /\ cached = [v \in Version |-> IF v < 2 THEN Chunks ELSE 0]
  /\ stored = cached
  /\ \E m \in {"rw", "ro"} : mode = [v \in Version |-> IF v < 2 THEN m ELSE "private"]
  /\ pc = "idle" /\ outcome = "none"
  /\ opts = [overwrite |-> FALSE, backup |-> FALSE, fsync |-> FALSE]
  /\ before = dir /\ new = 1

(* The user may not write to the file, and didn't ask to overwrite it.     *)
Refused(o) == ~o.overwrite /\ dir.target # NoFile /\ mode[dir.target] = "ro"

(* From the call to the creation of the temporary file.  If the call is    *)
(* refused or the file can't be created, nothing has changed.              *)
Enter(o) ==
  /\ pc = "idle" /\ new < LastVersion
  /\ ~Refused(o)
  /\ opts' = o /\ before' = dir /\ new' = new + 1
  /\ MoveTo([dir EXCEPT !.temps = @ \cup {new + 1}])
  /\ written' = 0 /\ outcome' = "none" /\ pc' = "write"
  /\ UNCHANGED <<cached, stored, mode>>

WriteChunk ==
  /\ pc = "write" /\ written < Chunks
  /\ written' = written + 1
  /\ UNCHANGED <<dir, past, cached, stored, mode, pc, call, outcome>>

(* The buffer of the file object is full.                                  *)
Flush ==
  /\ pc = "write" /\ cached[new] < written
  /\ cached' = [cached EXCEPT ![new] = @ + 1]
  /\ UNCHANGED <<dir, past, written, stored, mode, pc, call, outcome>>

(* The system stores data when it likes.                                   *)
WriteBack(v) ==
  /\ pc # "crashed" /\ stored[v] < cached[v]
  /\ stored' = [stored EXCEPT ![v] = @ + 1]
  /\ UNCHANGED <<dir, past, written, cached, mode, pc, call, outcome>>

(* write_func has returned.  os.fsync knows nothing of the data which is   *)
(* still in the buffer of the file object.                                 *)
Sync ==
  /\ pc = "write" /\ written = Chunks
  /\ stored' = IF opts.fsync THEN [stored EXCEPT ![new] = cached[new]] ELSE stored
  /\ pc' = "close"
  /\ UNCHANGED <<dir, past, written, cached, mode, call, outcome>>

AfterClose == IF opts.backup /\ before.target # NoFile THEN "backup" ELSE "rename"

CloseUnflushed == \* Mutant of Close: the buffer is dropped
  /\ pc = "close" /\ pc' = AfterClose
  /\ UNCHANGED <<dir, past, data, mode, call, outcome>>

Close ==
  /\ pc = "close" /\ pc' = AfterClose
  /\ cached' = [cached EXCEPT ![new] = written]
  /\ UNCHANGED <<dir, past, written, stored, mode, call, outcome>>

BackupDropped == \* Mutant of Backup: the old file is removed
  /\ pc = "backup" /\ pc' = "rename"
  /\ MoveTo([dir EXCEPT !.target = NoFile])
  /\ UNCHANGED <<data, mode, call, outcome>>

Backup ==
  /\ pc = "backup" /\ pc' = "rename"
  /\ MoveTo([dir EXCEPT !.target = NoFile, !.backup = dir.target])
  /\ UNCHANGED <<data, mode, call, outcome>>

Rename ==
  /\ pc = "rename" /\ pc' = "chmod"
  /\ MoveTo([dir EXCEPT !.target = new, !.temps = @ \ {new}])
  /\ UNCHANGED <<data, mode, call, outcome>>

WantedMode == IF before.target = NoFile THEN "rw" ELSE mode[before.target]

Chmod ==
  /\ pc = "chmod" /\ pc' = "chown"
  /\ mode' = [mode EXCEPT ![new] = WantedMode]
  /\ UNCHANGED <<dir, past, data, call, outcome>>

Chown ==
  /\ pc = "chown" /\ pc' = "idle" /\ outcome' = "ok"
  /\ UNCHANGED <<dir, past, data, mode, call>>

(* Something raises inside the try block; this includes the warning about  *)
(* a failed backup, which uses the module sys without importing it.        *)
Fail ==
  /\ pc \in {"write", "close", "backup", "rename"}
  /\ outcome' = pc /\ pc' = "unlink"
  /\ UNCHANGED <<dir, past, data, mode, call>>

UnlinkForgotten == \* Mutant of Unlink: the temporary file stays
  /\ pc = "unlink" /\ pc' = "idle"
  /\ UNCHANGED <<dir, past, data, mode, call, outcome>>

Unlink ==
  /\ pc = "unlink" /\ pc' = "idle"
  /\ \/ MoveTo([dir EXCEPT !.temps = @ \ {new}]) /\ UNCHANGED outcome
     \/ outcome' = "unlink" /\ UNCHANGED <<dir, past>>
  /\ UNCHANGED <<data, mode, call>>

(* The warnings about the permissions and the owner use sys, too.          *)
AttributeFails ==
  /\ pc \in {"chmod", "chown"}
  /\ outcome' = pc /\ pc' = "idle"
  /\ UNCHANGED <<dir, past, data, mode, call>>

Kill ==
  /\ pc \notin {"idle", "crashed"}
  /\ outcome' = "killed" /\ pc' = "idle"
  /\ UNCHANGED <<dir, past, data, mode, call>>

Crash ==
  /\ pc # "crashed" /\ pc' = "crashed"
  /\ dir' \in past
  /\ cached' = stored
  /\ UNCHANGED <<past, written, stored, mode, call, outcome>>

Next ==
  \/ \E o \in Options : Enter(o)
  \/ WriteChunk \/ Flush \/ Sync \/ Close \/ Backup \/ Rename \/ Chmod \/ Chown
  \/ Fail \/ Unlink \/ AttributeFails \/ Kill \/ Crash
  \/ \E v \in Version : WriteBack(v)

Spec == Init /\ [][Next]_vars

-----------------------------------------------------------------------------
(* Nothing is on disk which the system hasn't seen, and the system has     *)
(* seen nothing which hasn't been written; the rest are types.             *)
TypeOK ==
  /\ dir \in past /\ past \subseteq Dir
  /\ written \in 0..Chunks /\ new \in Version
  /\ cached \in [Version -> 0..Chunks] /\ (new > 1 => cached[new] <= written)
  /\ stored \in [Version -> 0..Chunks] /\ \A v \in Version : stored[v] <= cached[v]
  /\ mode \in [Version -> {"rw", "ro", "private"}]
  /\ pc \in {"idle", "crashed"} \cup Failing
  /\ opts \in Options /\ before \in Dir
  /\ outcome \in {"none", "ok", "killed"} \cup Failing

(* Whatever has failed, and wherever the program has been killed: what the *)
(* file once held, or something newer, can be read from it or from its     *)
(* backup, and is complete.                                                *)
NewestKept ==
  /\ TypeOK
  /\ pc # "crashed" =>
       \A d \in past : d.target # NoFile =>
         \E f \in {dir.target, dir.backup} \ {NoFile} :
           f >= d.target /\ cached[f] = Chunks

(* If everything the file held before is on disk, a call which makes a     *)
(* backup doesn't expose the user to losing both: whatever remains after a *)
(* crash of the system has a complete file under one of the two names.     *)
CrashKeepsOne ==
  LET found == {dir.target, dir.backup} \ {NoFile}
      earlier == {d.target : d \in past} \ {NoFile, new}
  IN pc = "crashed" /\ opts.backup /\ found # {}
     /\ (before.target # NoFile \/ before.backup # NoFile)
     /\ (\A v \in earlier : stored[v] = Chunks)
       => \E f \in found : stored[f] = Chunks

(* If write_func raises, or the data can't be written, the temporary file  *)
(* is removed and the file and its backup are left untouched.  A call      *)
(* which returns has written all data and given the file the permissions   *)
(* it had when the call started.                                           *)
OutcomeTrue ==
  pc = "idle" =>
    /\ outcome \in {"write", "close", "backup"} => dir = before
    /\ outcome = "ok" => /\ dir.target = new /\ cached[new] = Chunks
                         /\ mode[new] = WantedMode

(* Documented for the parameter fsync: the data is on disk when the file   *)
(* is renamed over the destination, so the file is complete after a crash. *)
SyncedBeforeRename ==
  pc = "crashed" /\ opts.fsync /\ dir.target = new => stored[new] = Chunks
=============================================================================
