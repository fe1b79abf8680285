-------------------------- MODULE SafeWriteProofs ---------------------------
(***************************************************************************)
(* What SafeWrite promises, for data of any length and any number of       *)
(* calls: neither failing, nor being killed, nor a crash of the system     *)
(* loses what the user had.  The argument is one inductive invariant,      *)
(* CallInv: what the directories of the past say about the versions in     *)
(* them, and how far write() has come at each system call.                 *)
(***************************************************************************)
EXTENDS SafeWrite, TLAPS

(* Versions are handed out in order, a backup has once been the file, and  *)
(* a call which makes backups never replaces the file without one.         *)
PastOK ==
  /\ before \in past
  /\ \A d \in past :
       /\ d.target # NoFile => d.target <= new
       /\ d.backup # NoFile => d.backup < new
       /\ d.backup \notin {NoFile, 0} => \E e \in past : e.target = d.backup
       /\ d.temps \subseteq 0..new
       /\ (d.target = new /\ opts.backup /\ {before.target, before.backup} # {NoFile})
            => d.backup # NoFile

(* What the last call has found was there before it.                       *)
CallOK ==
  /\ pc \notin {"idle", "crashed"} => new > 1
  /\ new >= 1 /\ (new = 1 => ~opts.backup)
  /\ new > 1 => before.target # new /\ new \notin before.temps

(* No data has been written for a version to come, and the old backup is   *)
(* on disk.                                                                *)
DataOK ==
  /\ \A v \in Version : v > new /\ v > 1 => cached[v] = 0
  /\ stored[0] = Chunks

(* The file, or else its backup, is at least as new as anything the file   *)
(* has been, and both are complete.                                        *)
Newest ==
  pc # "crashed" =>
    /\ \A f \in {dir.target, dir.backup} \ {NoFile} : cached[f] = Chunks
    /\ \A d \in past : d.target # NoFile =>
         \/ dir.target # NoFile /\ d.target <= dir.target
         \/ dir.target = NoFile /\ dir.backup # NoFile /\ d.target <= dir.backup

(* How far the call has come.                                              *)
Untouched == dir = [before EXCEPT !.temps = @ \cup {new}]
PhaseOK ==
  /\ pc \in {"write", "close", "backup"} => Untouched
  /\ pc = "unlink" /\ outcome \in {"write", "close", "backup"} => Untouched
  /\ pc = "unlink" => outcome # "ok"
  /\ pc \in {"close", "backup", "rename", "chmod", "chown"} => written = Chunks
  /\ pc \in {"backup", "rename", "chmod", "chown"} => cached[new] = Chunks
  /\ pc = "backup" => opts.backup /\ before.target # NoFile
  /\ pc = "rename" =>
       IF opts.backup /\ before.target # NoFile THEN dir.backup = before.target
       ELSE dir.target = before.target /\ dir.backup = before.backup
  /\ pc \in {"chmod", "chown"} => dir.target = new
  /\ pc = "chown" => mode[new] = WantedMode

CallInv == TypeOK /\ PastOK /\ CallOK /\ DataOK /\ Newest /\ PhaseOK /\ OutcomeTrue

(* Every step of a call, and every failure, keeps the invariant.           *)
LEMMA CallStep ==
  ASSUME CallInv, Next PROVE CallInv'
  <1> USE SafeWriteAssumption
  <1>1. CASE \E o \in Options : Enter(o)
    <2>0. PICK o \in Options : Enter(o)
      BY <1>1
    <2>n. new' = new + 1 /\ new \in Nat /\ new + 1 \in Version
      BY <2>0 DEF CallInv, TypeOK, Version, Enter
    <2>a. dir' \in Dir /\ dir \in Dir /\ past' = past \cup {dir'}
      BY <2>n, <2>0 DEF CallInv, TypeOK, Dir, MoveTo, Enter
    <2>b. /\ dir'.target = dir.target /\ dir'.backup = dir.backup
          /\ dir'.temps = dir.temps \cup {new'}
      BY <2>n, <2>0 DEF CallInv, TypeOK, Dir, MoveTo, Enter
    <2>1. TypeOK'
      BY <2>n, <2>a, <2>0 DEF CallInv, TypeOK, DataOK, Failing, Enter, call
    <2>2. PastOK'
      <3> SUFFICES ASSUME NEW d \in past'
                   PROVE /\ d.target # NoFile => d.target <= new'
                         /\ d.backup # NoFile => d.backup < new'
                         /\ d.backup \notin {NoFile, 0} => \E e \in past' : e.target = d.backup
                         /\ d.temps \subseteq 0..new'
                         /\ (/\ d.target = new' /\ opts'.backup
                             /\ {before'.target, before'.backup} # {NoFile})
                              => d.backup # NoFile
        BY <2>n, <2>a, <2>0 DEF PastOK, CallInv, TypeOK, Enter, call
      <3>1. CASE d \in past
        <4>1. /\ d.target \in File /\ d.backup \in File
              /\ d.target # NoFile => d.target <= new
              /\ d.backup # NoFile => d.backup < new
              /\ d.temps \subseteq 0..new
          BY <3>1 DEF CallInv, TypeOK, PastOK, Dir
        <4>2. d.backup \notin {NoFile, 0} => \E x \in past' : x.target = d.backup
          BY <3>1, <2>a DEF CallInv, PastOK
        <4>3. d.target # new' /\ 0..new \subseteq 0..new'
          BY <4>1, <2>n DEF File, Version
        <4> QED BY <4>1, <4>2, <4>3, <2>n DEF File, Version
      <3>2. CASE d = dir'
        BY <3>2, <2>a, <2>b, <2>0 DEF CallInv, TypeOK, PastOK, Version, File,
           Dir, Enter, call
      <3> QED BY <3>1, <3>2, <2>a
    <2>3. CallOK'
      <3>1. dir \in past /\ new' > 1 /\ new' \notin 0..new /\ new' # NoFile
        BY <2>n DEF CallInv, TypeOK, CallOK, Version
      <3>2. dir.target # new' /\ new' \notin dir.temps
        BY <3>1, <2>n DEF CallInv, PastOK
      <3> QED BY <3>1, <3>2, <2>n, <2>0 DEF CallOK, Enter, Version
    <2>4. DataOK'
      BY <2>n, <2>a, <2>b, <2>0 DEF CallInv, DataOK, Version, Enter, call
    <2>5. Newest'
      BY <2>n, <2>a, <2>b, <2>0 DEF CallInv, Newest, PhaseOK, Version, File,
         Dir, Enter, call
    <2>6. PhaseOK'
      BY <2>n, <2>a, <2>b, <2>0 DEF Newest, PhaseOK, Untouched, WantedMode, Dir,
         Enter, call
    <2>7. OutcomeTrue'
      BY <2>n, <2>a, <2>b, <2>0 DEF Newest, PhaseOK, Untouched, OutcomeTrue,
         WantedMode, Enter, call
    <2> QED BY <2>1, <2>2, <2>3, <2>4, <2>5, <2>6, <2>7 DEF CallInv
  <1>2. CASE WriteChunk
    <2>1. TypeOK'
      BY <1>2 DEF CallInv, TypeOK, WriteChunk, call
    <2>2. PastOK'
      BY <1>2 DEF CallInv, PastOK, WriteChunk, call
    <2>3. CallOK'
      BY <1>2 DEF CallInv, CallOK, WriteChunk, call
    <2>4. DataOK'
      BY <1>2 DEF CallInv, DataOK, WriteChunk, call
    <2>5. Newest'
      BY <1>2 DEF CallInv, Newest, PhaseOK, WriteChunk, call
    <2>6. PhaseOK'
      BY <1>2 DEF CallInv, Newest, PhaseOK, Untouched, WantedMode, WriteChunk,
         call
    <2>7. OutcomeTrue'
      BY <1>2 DEF Newest, PhaseOK, Untouched, OutcomeTrue, WantedMode,
         WriteChunk, call
    <2> QED BY <2>1, <2>2, <2>3, <2>4, <2>5, <2>6, <2>7 DEF CallInv
  <1>3. CASE Flush
    <2>1. TypeOK'
      BY <1>3 DEF CallInv, TypeOK, Flush, call
    <2>2. PastOK'
      BY <1>3 DEF CallInv, PastOK, Flush, call
    <2>3. CallOK'
      BY <1>3 DEF CallInv, CallOK, Flush, call
    <2>4. DataOK'
      BY <1>3 DEF CallInv, DataOK, Version, Flush, call
    <2>5. Newest'
      BY <1>3 DEF CallInv, TypeOK, Newest, PhaseOK, Flush, call
    <2>6. PhaseOK'
      BY <1>3 DEF CallInv, Newest, PhaseOK, Untouched, WantedMode, Flush, call
    <2>7. OutcomeTrue'
      BY <1>3 DEF Newest, PhaseOK, Untouched, OutcomeTrue, WantedMode, Flush,
         call
    <2> QED BY <2>1, <2>2, <2>3, <2>4, <2>5, <2>6, <2>7 DEF CallInv
  <1>4. CASE Sync
    <2>1. TypeOK'
      BY <1>4 DEF CallInv, TypeOK, Failing, Sync, call
    <2>2. PastOK'
      BY <1>4 DEF CallInv, PastOK, Sync, call
    <2>3. CallOK'
      BY <1>4 DEF CallInv, CallOK, Sync, call
    <2>4. DataOK'
      BY <1>4 DEF CallInv, CallOK, DataOK, Sync, call
    <2>5. Newest'
      BY <1>4 DEF CallInv, Newest, PhaseOK, Sync, call
    <2>6. PhaseOK'
      BY <1>4 DEF CallInv, Newest, PhaseOK, Untouched, WantedMode, Sync, call
    <2>7. OutcomeTrue'
      BY <1>4 DEF Newest, PhaseOK, Untouched, OutcomeTrue, WantedMode, Sync,
         call
    <2> QED BY <2>1, <2>2, <2>3, <2>4, <2>5, <2>6, <2>7 DEF CallInv
  <1>5. CASE Close
    <2>1. TypeOK'
      <3>1. new > 1 /\ cached' = [cached EXCEPT ![new] = written] /\ cached[new] <= written
        BY <1>5 DEF CallInv, TypeOK, CallOK, Close
      <3>2. \A v \in Version : stored[v] <= cached'[v]
        BY <3>1 DEF CallInv, TypeOK, Version
      <3> QED BY <1>5, <3>1, <3>2 DEF CallInv, TypeOK, Close, AfterClose,
         Failing, call
    <2>2. PastOK'
      BY <1>5 DEF CallInv, PastOK, Close, AfterClose, call
    <2>3. CallOK'
      BY <1>5 DEF CallInv, CallOK, Close, AfterClose, call
    <2>4. DataOK'
      BY <1>5 DEF CallInv, DataOK, Version, Close, AfterClose, call
    <2>5. Newest'
      BY <1>5 DEF CallInv, Newest, PhaseOK, Close, AfterClose, call
    <2>6. PhaseOK'
      BY <1>5 DEF CallInv, TypeOK, Newest, PhaseOK, Untouched, WantedMode, Dir,
         Close, AfterClose, call
    <2>7. OutcomeTrue'
      BY <1>5 DEF Newest, PhaseOK, Untouched, OutcomeTrue, WantedMode, Close,
         AfterClose, call
    <2> QED BY <2>1, <2>2, <2>3, <2>4, <2>5, <2>6, <2>7 DEF CallInv
  <1>6. CASE Backup
    <2>a. dir' \in Dir /\ dir \in Dir /\ past' = past \cup {dir'}
      BY <1>6 DEF CallInv, TypeOK, Dir, File, MoveTo, Backup
    <2>b. /\ dir'.target = NoFile /\ dir'.backup = dir.target
          /\ dir'.temps = dir.temps
      BY <1>6 DEF CallInv, TypeOK, Dir, MoveTo, Backup
    <2>1. TypeOK'
      BY <2>a, <1>6 DEF CallInv, TypeOK, Failing, data, Backup, call
    <2>2. PastOK'
      <3> SUFFICES ASSUME NEW d \in past'
                   PROVE /\ d.target # NoFile => d.target <= new'
                         /\ d.backup # NoFile => d.backup < new'
                         /\ d.backup \notin {NoFile, 0} => \E e \in past' : e.target = d.backup
                         /\ d.temps \subseteq 0..new'
                         /\ (/\ d.target = new' /\ opts'.backup
                             /\ {before'.target, before'.backup} # {NoFile})
                              => d.backup # NoFile
        BY <2>a, <1>6 DEF PastOK, CallInv, TypeOK, Backup, call
      <3>1. CASE d \in past
        BY <3>1, <2>a, <1>6 DEF CallInv, PastOK, Backup, call
      <3>2. CASE d = dir'
        BY <3>2, <2>a, <2>b, <1>6 DEF CallInv, TypeOK, PastOK, CallOK, PhaseOK,
           Untouched, Version, File, Dir, Backup, call
      <3> QED BY <3>1, <3>2, <2>a
    <2>3. CallOK'
      BY <2>a, <2>b, <1>6 DEF CallInv, CallOK, Backup, call
    <2>4. DataOK'
      BY <2>a, <2>b, <1>6 DEF CallInv, DataOK, data, Backup, call
    <2>5. Newest'
      BY <2>a, <2>b, <1>6 DEF CallInv, PastOK, Newest, PhaseOK, Untouched,
         OutcomeTrue, WantedMode, Dir, data, Backup, call
    <2>6. PhaseOK'
      BY <2>a, <2>b, <1>6 DEF CallInv, Newest, PhaseOK, Untouched, WantedMode,
         Dir, data, Backup, call
    <2>7. OutcomeTrue'
      BY <2>a, <2>b, <1>6 DEF Newest, PhaseOK, Untouched, OutcomeTrue,
         WantedMode, Backup, call
    <2> QED BY <2>1, <2>2, <2>3, <2>4, <2>5, <2>6, <2>7 DEF CallInv
  <1>7. CASE Rename
    <2>a. dir' \in Dir /\ dir \in Dir /\ past' = past \cup {dir'}
      BY <1>7 DEF CallInv, TypeOK, Dir, File, MoveTo, Rename
    <2>b. /\ dir'.target = new /\ dir'.backup = dir.backup
          /\ dir'.temps = dir.temps \ {new}
      BY <1>7 DEF CallInv, TypeOK, Dir, MoveTo, Rename
    <2>1. TypeOK'
      BY <2>a, <1>7 DEF CallInv, TypeOK, Failing, data, Rename, call
    <2>2. PastOK'
      <3> SUFFICES ASSUME NEW d \in past'
                   PROVE /\ d.target # NoFile => d.target <= new'
                         /\ d.backup # NoFile => d.backup < new'
                         /\ d.backup \notin {NoFile, 0} => \E e \in past' : e.target = d.backup
                         /\ d.temps \subseteq 0..new'
                         /\ (/\ d.target = new' /\ opts'.backup
                             /\ {before'.target, before'.backup} # {NoFile})
                              => d.backup # NoFile
        BY <2>a, <1>7 DEF PastOK, CallInv, TypeOK, Rename, call
      <3>1. CASE d \in past
        BY <3>1, <2>a, <1>7 DEF CallInv, PastOK, Rename, call
      <3>2. CASE d = dir'
        BY <3>2, <2>a, <2>b, <1>7 DEF CallInv, TypeOK, PastOK, PhaseOK,
           Untouched, Version, Rename, call
      <3> QED BY <3>1, <3>2, <2>a
    <2>3. CallOK'
      BY <2>a, <2>b, <1>7 DEF CallInv, CallOK, Rename, call
    <2>4. DataOK'
      BY <2>a, <2>b, <1>7 DEF CallInv, DataOK, data, Rename, call
    <2>5. Newest'
      BY <2>a, <2>b, <1>7 DEF CallInv, TypeOK, PastOK, Newest, PhaseOK,
         Untouched, OutcomeTrue, WantedMode, Version, data, Rename, call
    <2>6. PhaseOK'
      BY <2>a, <2>b, <1>7 DEF CallInv, Newest, PhaseOK, Untouched, WantedMode,
         data, Rename, call
    <2>7. OutcomeTrue'
      BY <2>a, <2>b, <1>7 DEF Newest, PhaseOK, Untouched, OutcomeTrue,
         WantedMode, Rename, call
    <2> QED BY <2>1, <2>2, <2>3, <2>4, <2>5, <2>6, <2>7 DEF CallInv
  <1>8. CASE Chmod
    <2>1. TypeOK'
      BY <1>8 DEF CallInv, TypeOK, PastOK, Newest, PhaseOK, Untouched,
         OutcomeTrue, WantedMode, File, Dir, Failing, data, Chmod, call
    <2>2. PastOK'
      BY <1>8 DEF CallInv, PastOK, Chmod, call
    <2>3. CallOK'
      BY <1>8 DEF CallInv, CallOK, Chmod, call
    <2>4. DataOK'
      BY <1>8 DEF CallInv, DataOK, data, Chmod, call
    <2>5. Newest'
      BY <1>8 DEF CallInv, Newest, PhaseOK, data, Chmod, call
    <2>6. PhaseOK'
      BY <1>8 DEF CallInv, TypeOK, Newest, PhaseOK, Untouched, WantedMode, data,
         Chmod, call
    <2>7. OutcomeTrue'
      BY <1>8 DEF Newest, PhaseOK, Untouched, OutcomeTrue, WantedMode, Chmod,
         call
    <2> QED BY <2>1, <2>2, <2>3, <2>4, <2>5, <2>6, <2>7 DEF CallInv
  <1>9. CASE Chown
    <2>1. TypeOK'
      BY <1>9 DEF CallInv, TypeOK, data, Chown, call
    <2>2. PastOK'
      BY <1>9 DEF CallInv, PastOK, Chown, call
    <2>3. CallOK'
      BY <1>9 DEF CallInv, CallOK, Chown, call
    <2>4. DataOK'
      BY <1>9 DEF CallInv, DataOK, data, Chown, call
    <2>5. Newest'
      BY <1>9 DEF CallInv, Newest, PhaseOK, data, Chown, call
    <2>6. PhaseOK'
      BY <1>9 DEF Newest, PhaseOK, Untouched, WantedMode, Chown, call
    <2>7. OutcomeTrue'
      BY <1>9 DEF CallInv, Newest, PhaseOK, Untouched, OutcomeTrue, WantedMode,
         data, Chown, call
    <2> QED BY <2>1, <2>2, <2>3, <2>4, <2>5, <2>6, <2>7 DEF CallInv
  <1>10. CASE Fail
    <2>1. TypeOK'
      BY <1>10 DEF CallInv, TypeOK, Failing, data, Fail, call
    <2>2. PastOK'
      BY <1>10 DEF CallInv, PastOK, Fail, call
    <2>3. CallOK'
      BY <1>10 DEF CallInv, CallOK, Fail, call
    <2>4. DataOK'
      BY <1>10 DEF CallInv, DataOK, data, Fail, call
    <2>5. Newest'
      BY <1>10 DEF CallInv, Newest, PhaseOK, data, Fail, call
    <2>6. PhaseOK'
      BY <1>10 DEF CallInv, Newest, PhaseOK, Untouched, WantedMode, Fail, call
    <2>7. OutcomeTrue'
      BY <1>10 DEF Newest, PhaseOK, Untouched, OutcomeTrue, WantedMode, Fail,
         call
    <2> QED BY <2>1, <2>2, <2>3, <2>4, <2>5, <2>6, <2>7 DEF CallInv
  <1>11. CASE Unlink
    <2>a. dir' \in Dir /\ dir \in Dir /\ past' = past \cup {dir'}
      <3>1. dir \in Dir /\ dir \in past
        BY DEF CallInv, TypeOK
      <3>2. CASE MoveTo([dir EXCEPT !.temps = @ \ {new}])
        BY <3>1, <3>2 DEF Dir, MoveTo
      <3>3. CASE UNCHANGED <<dir, past>>
        BY <3>1, <3>3
      <3> QED BY <3>1, <3>2, <3>3, <1>11 DEF Unlink
    <2>b. /\ dir'.target = dir.target /\ dir'.backup = dir.backup
          /\ dir'.temps \subseteq dir.temps
      BY <1>11 DEF CallInv, TypeOK, Dir, MoveTo, Unlink
    <2>1. TypeOK'
      BY <2>a, <1>11 DEF CallInv, TypeOK, data, Unlink, call
    <2>2. PastOK'
      <3> SUFFICES ASSUME NEW d \in past'
                   PROVE /\ d.target # NoFile => d.target <= new'
                         /\ d.backup # NoFile => d.backup < new'
                         /\ d.backup \notin {NoFile, 0} => \E e \in past' : e.target = d.backup
                         /\ d.temps \subseteq 0..new'
                         /\ (/\ d.target = new' /\ opts'.backup
                             /\ {before'.target, before'.backup} # {NoFile})
                              => d.backup # NoFile
        BY <2>a, <1>11 DEF PastOK, CallInv, TypeOK, Unlink, call
      <3>1. CASE d \in past
        BY <3>1, <2>a, <1>11 DEF CallInv, PastOK, Unlink, call
      <3>2. CASE d = dir'
        BY <3>2, <2>a, <2>b, <1>11 DEF CallInv, TypeOK, PastOK, Unlink, call
      <3> QED BY <3>1, <3>2, <2>a
    <2>3. CallOK'
      BY <2>a, <2>b, <1>11 DEF CallInv, CallOK, Unlink, call
    <2>4. DataOK'
      BY <2>a, <2>b, <1>11 DEF CallInv, DataOK, data, Unlink, call
    <2>5. Newest'
      BY <2>a, <2>b, <1>11 DEF CallInv, Newest, PhaseOK, Version, File, Dir,
         data, Unlink, call
    <2>6. PhaseOK'
      BY <2>a, <2>b, <1>11 DEF Newest, PhaseOK, Untouched, WantedMode, Unlink,
         call
    <2>7. OutcomeTrue'
      <3>1. CASE MoveTo([dir EXCEPT !.temps = @ \ {new}]) /\ UNCHANGED outcome
        <4>1. new > 1 /\ new \notin before.temps /\ pc = "unlink" /\ outcome # "ok"
          BY <1>11 DEF CallInv, CallOK, PhaseOK, Unlink
        <4>2. ASSUME outcome \in {"write", "close", "backup"} PROVE dir' = before
          <5>1. dir = [before EXCEPT !.temps = @ \cup {new}] /\ before \in Dir
            BY <4>1, <4>2 DEF CallInv, TypeOK, PhaseOK, Untouched
          <5>2. dir' = [dir EXCEPT !.temps = @ \ {new}]
            BY <3>1 DEF MoveTo
          <5> QED BY <5>1, <5>2, <4>1 DEF Dir
        <4> QED BY <3>1, <4>1, <4>2, <1>11 DEF OutcomeTrue, Unlink, call
      <3>2. CASE outcome' = "unlink"
        BY <3>2, <1>11 DEF OutcomeTrue
      <3> QED BY <3>1, <3>2, <1>11 DEF Unlink
    <2> QED BY <2>1, <2>2, <2>3, <2>4, <2>5, <2>6, <2>7 DEF CallInv
  <1>12. CASE AttributeFails
    <2>1. TypeOK'
      BY <1>12 DEF CallInv, TypeOK, data, AttributeFails, call
    <2>2. PastOK'
      BY <1>12 DEF CallInv, PastOK, AttributeFails, call
    <2>3. CallOK'
      BY <1>12 DEF CallInv, CallOK, AttributeFails, call
    <2>4. DataOK'
      BY <1>12 DEF CallInv, DataOK, data, AttributeFails, call
    <2>5. Newest'
      BY <1>12 DEF CallInv, Newest, PhaseOK, data, AttributeFails, call
    <2>6. PhaseOK'
      BY <1>12 DEF Newest, PhaseOK, Untouched, WantedMode, AttributeFails, call
    <2>7. OutcomeTrue'
      BY <1>12 DEF Newest, PhaseOK, Untouched, OutcomeTrue, WantedMode,
         AttributeFails, call
    <2> QED BY <2>1, <2>2, <2>3, <2>4, <2>5, <2>6, <2>7 DEF CallInv
  <1>13. CASE Kill
    <2>1. TypeOK'
      BY <1>13 DEF CallInv, TypeOK, data, Kill, call
    <2>2. PastOK'
      BY <1>13 DEF CallInv, PastOK, Kill, call
    <2>3. CallOK'
      BY <1>13 DEF CallInv, CallOK, Kill, call
    <2>4. DataOK'
      BY <1>13 DEF CallInv, DataOK, data, Kill, call
    <2>5. Newest'
      BY <1>13 DEF CallInv, Newest, PhaseOK, data, Kill, call
    <2>6. PhaseOK'
      BY <1>13 DEF Newest, PhaseOK, Untouched, WantedMode, Kill, call
    <2>7. OutcomeTrue'
      BY <1>13 DEF Newest, PhaseOK, Untouched, OutcomeTrue, WantedMode, Kill,
         call
    <2> QED BY <2>1, <2>2, <2>3, <2>4, <2>5, <2>6, <2>7 DEF CallInv
  <1>14. CASE Crash
    <2>1. TypeOK'
      BY <1>14 DEF CallInv, TypeOK, Crash, call
    <2>2. PastOK'
      BY <1>14 DEF CallInv, PastOK, Crash, call
    <2>3. CallOK'
      BY <1>14 DEF CallInv, CallOK, Crash, call
    <2>4. DataOK'
      BY <1>14 DEF CallInv, TypeOK, DataOK, Crash, call
    <2>5. Newest'
      BY <1>14 DEF Newest, PhaseOK, Crash, call
    <2>6. PhaseOK'
      BY <1>14 DEF Newest, PhaseOK, Untouched, WantedMode, Crash, call
    <2>7. OutcomeTrue'
      BY <1>14 DEF Newest, PhaseOK, Untouched, OutcomeTrue, WantedMode, Crash,
         call
    <2> QED BY <2>1, <2>2, <2>3, <2>4, <2>5, <2>6, <2>7 DEF CallInv
  <1>15. CASE \E v \in Version : WriteBack(v)
    <2>0. PICK v \in Version : WriteBack(v)
      BY <1>15
    <2>1. TypeOK'
      BY <2>0 DEF CallInv, TypeOK, WriteBack, call
    <2>2. PastOK'
      BY <2>0 DEF CallInv, PastOK, WriteBack, call
    <2>3. CallOK'
      BY <2>0 DEF CallInv, CallOK, WriteBack, call
    <2>4. DataOK'
      BY <2>0 DEF CallInv, TypeOK, DataOK, WriteBack, call
    <2>5. Newest'
      BY <2>0 DEF CallInv, Newest, PhaseOK, WriteBack, call
    <2>6. PhaseOK'
      BY <2>0 DEF CallInv, Newest, PhaseOK, Untouched, WantedMode, WriteBack,
         call
    <2>7. OutcomeTrue'
      BY <2>0 DEF CallInv, Newest, PhaseOK, Untouched, OutcomeTrue, WantedMode,
         WriteBack, call
    <2> QED BY <2>1, <2>2, <2>3, <2>4, <2>5, <2>6, <2>7 DEF CallInv
  <1> QED BY <1>1, <1>2, <1>3, <1>4, <1>5, <1>6, <1>7, <1>8, <1>9, <1>10, <1>11,
     <1>12, <1>13, <1>14, <1>15 DEF Next

(* Whatever the directory is like at first.                                *)
LEMMA CallStart ==
  ASSUME Init PROVE CallInv
  <1> USE SafeWriteAssumption DEF Init
  <1>1. TypeOK
    BY DEF TypeOK, Dir, File, Version, Options, Failing
  <1>2. /\ dir.target \in {1, NoFile} /\ dir.backup \in {0, NoFile}
        /\ dir.temps = {} /\ past = {dir} /\ 1 \in Version /\ NoFile \notin Version
    BY DEF Version
  <1>4. PastOK
    BY <1>2 DEF PastOK, Version
  <1>5. Newest
    <2>1. cached[0] = Chunks /\ cached[1] = Chunks
      BY <1>2 DEF Version
    <2>2. \A d \in past : d = dir
      BY <1>2
    <2>3. dir.target # NoFile => dir.target <= dir.target
      BY <1>2
    <2> HIDE DEF Init
    <2> QED BY <1>2, <2>1, <2>2, <2>3 DEF Newest
  <1>3. CallOK /\ DataOK /\ PhaseOK /\ OutcomeTrue
    BY DEF CallOK, DataOK, PhaseOK, OutcomeTrue, Version
  <1> QED BY <1>1, <1>3, <1>4, <1>5 DEF CallInv

(* The invariant of all calls of write(): every directory of the past, the *)
(* progress of the call and the data it has written fit together.          *)
THEOREM CallsCorrect == Spec => []CallInv
  <1>1. ASSUME CallInv, UNCHANGED vars PROVE CallInv'
    <2>1. TypeOK' /\ DataOK'
      BY <1>1 DEF CallInv, TypeOK, DataOK, vars
    <2>2. PastOK' /\ CallOK'
      BY <1>1 DEF CallInv, PastOK, CallOK, vars
    <2>3. Newest' /\ OutcomeTrue' /\ PhaseOK'
      BY <1>1 DEF CallInv, Newest, OutcomeTrue, WantedMode, PhaseOK, Untouched, vars
    <2> QED BY <2>1, <2>2, <2>3 DEF CallInv
  <1> QED BY CallStart, CallStep, <1>1, PTL DEF Spec

(* Whatever fails in fileutils.write, and wherever it is killed, what the  *)
(* file once held or something newer is complete in it or in its backup.   *)
THEOREM NewestIsKept == Spec => []NewestKept
  <1>1. ASSUME CallInv PROVE NewestKept
    <2> SUFFICES ASSUME pc # "crashed", NEW d \in past, d.target # NoFile
                 PROVE \E f \in {dir.target, dir.backup} \ {NoFile} :
                         f >= d.target /\ cached[f] = Chunks
      BY <1>1 DEF CallInv, NewestKept
    <2>1. d.target \in Version /\ dir.target \in File /\ dir.backup \in File
      BY <1>1 DEF CallInv, TypeOK, Dir, File
    <2> QED BY <1>1, <2>1, SafeWriteAssumption DEF CallInv, Newest, File, Version
  <1> QED BY CallsCorrect, <1>1, PTL

(* A call which fails before the file is replaced leaves the directory as  *)
(* it was; one which returns has replaced it, completely, with the         *)
(* permissions it had.                                                     *)
THEOREM OutcomesTrue == Spec => []OutcomeTrue
  <1>1. CallInv => OutcomeTrue
    BY DEF CallInv
  <1> QED BY CallsCorrect, <1>1, PTL

(* A call which makes a backup never leaves the user, after a crash of the *)
(* system, with nothing but an incomplete file.                            *)
THEOREM CrashesKeepOne == Spec => []CrashKeepsOne
  <1>1. ASSUME CallInv PROVE CrashKeepsOne
    <2> DEFINE found == {dir.target, dir.backup} \ {NoFile}
    <2> DEFINE earlier == {d.target : d \in past} \ {NoFile, new}
    <2> SUFFICES ASSUME opts.backup, found # {},
                        {before.target, before.backup} # {NoFile},
                        \A v \in earlier : stored[v] = Chunks
                 PROVE \E f \in found : stored[f] = Chunks
      BY DEF CrashKeepsOne
    <2>1. /\ dir \in past /\ dir.target \in File /\ dir.backup \in File
          /\ new \in Nat
      BY <1>1 DEF CallInv, TypeOK, Dir, Version
    <2>2. CASE dir.backup # NoFile
      <3>1. dir.backup \in Version /\ dir.backup < new
        BY <1>1, <2>1, <2>2 DEF CallInv, PastOK, File
      <3>2. CASE dir.backup = 0
        BY <1>1, <2>2, <3>2 DEF CallInv, DataOK
      <3>3. CASE dir.backup # 0
        <4>1. PICK e \in past : e.target = dir.backup
          BY <1>1, <2>1, <2>2, <3>3 DEF CallInv, PastOK
        <4>2. dir.backup \in earlier
          BY <4>1, <3>1, <2>1, <2>2 DEF Version
        <4> QED BY <4>2, <2>2
      <3> QED BY <3>2, <3>3
    <2>3. CASE dir.backup = NoFile
      <3>1. dir.target # NoFile /\ dir.target # new
        BY <1>1, <2>1, <2>3 DEF CallInv, PastOK
      <3> QED BY <3>1, <2>1
    <2> QED BY <2>2, <2>3
  <1> QED BY CallsCorrect, <1>1, PTL
=============================================================================
