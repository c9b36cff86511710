----------------------- MODULE AtomicFileWriterProofs -----------------------
(***************************************************************************)
(* AtomicFileWriter for any size, number of calls and number of crashes:   *)
(* the file is whole, failures leave it alone, a commit that is confirmed  *)
(* survives, and the steps implement the atomically replaced file.         *)
(***************************************************************************)
EXTENDS AtomicFileWriter, TLAPS

\* The file of a directory that may be on disk is whole and synchronised, and
\* its inodes were made by the calls so far.
Sound(d) ==
    /\ d.path # NoFile => /\ content[d.path] = synced[d.path]
                          /\ Whole(content[d.path])
                          /\ content[d.path].ver <= calls
    /\ d.path <= calls /\ d.tmp <= calls
    /\ d.tmp # NoFile => d.tmp # d.path

DirInv ==
    /\ dir \in maybe
    /\ \A d \in maybe : Sound(d) /\ (dir.tmp # NoFile => d.path # dir.tmp)

\* The temporary file while the call is at its steps before the rename.
TempInv ==
    /\ HandleIsTemp
    /\ wpc \in {"write", "flush", "sync", "close"} => handle # NoFile
    /\ wpc \in {"idle", "rename", "sync_dir", "terminated"} => handle = NoFile
    /\ handle # NoFile => content[handle].n <= buffered
    /\ wpc = "write" => buffered = 0
    /\ wpc \in {"flush", "sync", "close"} => buffered = Size
    /\ wpc \in {"sync", "close"} => Whole(content[handle])
    /\ wpc = "close" => content[handle] = synced[handle]
    /\ wpc = "rename" => /\ dir.tmp # NoFile
                         /\ Whole(content[dir.tmp])
                         /\ content[dir.tmp] = synced[dir.tmp]

\* What the call has not changed yet.
CallInv ==
    /\ wpc \in {"write", "flush", "sync", "close", "rename"} =>
         /\ dir.path = before
         /\ content[dir.tmp].ver = calls
         /\ dir.path # NoFile => content[dir.path].ver < calls
    /\ wpc = "sync_dir" => dir.path # NoFile /\ content[dir.path].ver = calls
    /\ (wpc \in {"destroy", "idle", "terminated"} /\ ~ret) => dir.path = before

\* An inode that is being read is not the temporary file.
ReaderInv ==
    /\ reader # NoFile => /\ Whole(content[reader])
                          /\ reader # dir.tmp
                          /\ reader <= calls
    /\ Whole(read)

IInv == TypeOK /\ DirInv /\ TempInv /\ CallInv /\ ReaderInv

USE AtomicFileWriterAssumption DEF NoFile, Inodes

\* Types, in the parts that the steps below deal with one at a time.
DirTypes  == dir \in Dirs /\ maybe \in SUBSET Dirs
FileTypes == content \in [Inodes -> Contents] /\ synced \in [Inodes -> Contents]
BoolTypes == dir_fd \in BOOLEAN /\ ret \in BOOLEAN
RestTypes ==
    /\ calls \in 0..MaxCalls
    /\ wpc \in {"idle", "write", "flush", "sync", "close", "rename",
                "sync_dir", "destroy", "terminated"}
    /\ handle \in Inodes \cup {NoFile}
    /\ buffered \in 0..Size
    /\ before \in Inodes \cup {NoFile}
    /\ confirmed \in -1..MaxCalls
    /\ crashes \in 0..MaxCrashes
    /\ reader \in Inodes \cup {NoFile}
    /\ read \in Contents

\* TypeOK is the conjunction of its parts.
LEMMA TypeParts == TypeOK <=> DirTypes /\ FileTypes /\ BoolTypes /\ RestTypes
BY DEF TypeOK, DirTypes, FileTypes, BoolTypes, RestTypes

\* The constructor that fails, by what fopen() returns or with an exception.
NotConstructed ==
    /\ handle' = NoFile /\ ret' = FALSE /\ wpc' \in {"destroy", "idle"}
    /\ UNCHANGED disk

\* The constructor opens an inode that is new or the temporary file, or fails.
LEMMA ConstructEffect ==
    ASSUME RestTypes, DirTypes, Construct
    PROVE  /\ calls' = calls + 1 /\ calls' \in 0..MaxCalls
           /\ \E i \in Inodes :
                /\ i = IF dir.tmp = NoFile THEN calls' ELSE dir.tmp
                /\ OpenTemp(i) \/ NotConstructed
<1>1. calls' = calls + 1 /\ calls' \in 0..MaxCalls
  BY DEF Construct, RestTypes
<1>2. (IF dir.tmp = NoFile THEN calls' ELSE dir.tmp) \in Inodes
  BY <1>1 DEF DirTypes, Dirs
<1>3. \/ OpenTemp(IF dir.tmp = NoFile THEN calls' ELSE dir.tmp)
      \/ NotConstructed
  BY DEF Construct, NotConstructed, ConstructorThrows, Return
<1>4. QED
  BY <1>1, <1>2, <1>3

\* Flags stay Booleans.
LEMMA BoolStep == TypeOK /\ [Next]_vars => BoolTypes'
<1> SUFFICES ASSUME BoolTypes, [Next]_vars PROVE BoolTypes'
  BY TypeParts
<1> USE DEF BoolTypes, disk, writer, counters, readers, GoTo, Return
<1>1. CASE Construct BY <1>1, Zenon DEF Construct, OpenTemp, ConstructorThrows
<1>2. CASE Write BY <1>2, Zenon DEF Write
<1>3. CASE LibraryWrites BY <1>3, Zenon DEF LibraryWrites
<1>4. CASE Flush BY <1>4, Zenon DEF Flush
<1>5. CASE Sync BY <1>5, Zenon DEF Sync
<1>6. CASE Close BY <1>6, Zenon DEF Close
<1>7. CASE Rename BY <1>7, Zenon DEF Rename
<1>8. CASE SyncDir BY <1>8, Zenon DEF SyncDir
<1>9. CASE Destroy BY <1>9, Zenon DEF Destroy
<1>15. CASE Restart BY <1>15, Zenon DEF Restart
<1>10. CASE Crash BY <1>10, Zenon DEF Crash
<1>11. CASE ReadOpen BY <1>11, Zenon DEF ReadOpen
<1>12. CASE ReadAll BY <1>12, Zenon DEF ReadAll
<1>13. CASE UNCHANGED vars BY <1>13, Zenon DEF vars
<1>14. QED
  BY <1>1, <1>2, <1>3, <1>4, <1>5, <1>6, <1>7, <1>8, <1>9, <1>10, <1>11,
     <1>12, <1>13, <1>15 DEF Next, Call

\* Counters, program counter, handle and reader keep their types.
LEMMA RestStep == TypeOK /\ [Next]_vars => RestTypes'
<1> SUFFICES ASSUME RestTypes, DirTypes, FileTypes, [Next]_vars PROVE RestTypes'
  BY TypeParts
<1> USE DEF RestTypes, disk, writer, counters, readers, GoTo, Return
<1>1. CASE Construct
  <2>1. PICK i \in Inodes : OpenTemp(i) \/ NotConstructed
    BY <1>1, ConstructEffect
  <2>2. QED
    BY <1>1, <2>1 DEF Construct, OpenTemp, NotConstructed, DirTypes, Dirs
<1>2. CASE Write BY <1>2 DEF Write
<1>3. CASE LibraryWrites BY <1>3 DEF LibraryWrites
<1>4. CASE Flush BY <1>4 DEF Flush
<1>5. CASE Sync BY <1>5 DEF Sync
<1>6. CASE Close BY <1>6 DEF Close
<1>7. CASE Rename BY <1>7 DEF Rename
<1>8. CASE SyncDir BY <1>8 DEF SyncDir
<1>9. CASE Destroy BY <1>9 DEF Destroy
<1>15. CASE Restart BY <1>15 DEF Restart, DirTypes, Dirs
<1>10. CASE Crash BY <1>10 DEF Crash, DirTypes, Dirs
<1>11. CASE ReadOpen BY <1>11 DEF ReadOpen, DirTypes, Dirs
<1>12. CASE ReadAll BY <1>12 DEF ReadAll, FileTypes
<1>13. CASE UNCHANGED vars BY <1>13 DEF vars
<1>14. QED
  BY <1>1, <1>2, <1>3, <1>4, <1>5, <1>6, <1>7, <1>8, <1>9, <1>10, <1>11,
     <1>12, <1>13, <1>15 DEF Next, Call

\* Replacing the temporary file in a directory leaves the file.
LEMMA WithTemp ==
    ASSUME NEW d \in Dirs, NEW i \in Inodes \cup {NoFile}
    PROVE  /\ [d EXCEPT !.tmp = i] \in Dirs
           /\ [d EXCEPT !.tmp = i].path = d.path
           /\ [d EXCEPT !.tmp = i].tmp = i
BY DEF Dirs

\* The directory that a rename leaves.
LEMMA Renamed ==
    ASSUME NEW i \in Inodes \cup {NoFile}
    PROVE  /\ [path |-> i, tmp |-> NoFile] \in Dirs
           /\ [path |-> i, tmp |-> NoFile].path = i
           /\ [path |-> i, tmp |-> NoFile].tmp = NoFile
BY DEF Dirs

\* Draining n bytes changes one inode, and only how much of it is there.
LEMMA DrainEffect ==
    ASSUME FileTypes, handle \in Inodes, NEW n \in 0..Size, Drain(n)
    PROVE  /\ content' \in [Inodes -> Contents]
           /\ \A i \in Inodes : i # handle => content'[i] = content[i]
           /\ content'[handle].n = n
           /\ content'[handle].ver = content[handle].ver
BY DEF FileTypes, Drain, Contents

\* So does opening the temporary file.
LEMMA OpenEffect ==
    ASSUME FileTypes, NEW j \in Inodes, calls' \in 0..MaxCalls, OpenTemp(j)
    PROVE  /\ content' \in [Inodes -> Contents]
           /\ \A i \in Inodes : i # j => content'[i] = content[i]
           /\ content'[j].n = 0
           /\ content'[j].ver = calls'
BY DEF FileTypes, OpenTemp, Contents

\* Directories keep their type, whatever the call or a crash makes of them.
LEMMA DirStep == TypeOK /\ [Next]_vars => DirTypes'
<1> SUFFICES ASSUME RestTypes, DirTypes, [Next]_vars PROVE DirTypes'
  BY TypeParts
<1> USE DEF DirTypes, disk, ChangeDir
<1>1. CASE Construct
  <2>1. PICK i \in Inodes : OpenTemp(i) \/ NotConstructed
    BY <1>1, ConstructEffect
  <2>2. [dir EXCEPT !.tmp = i] \in Dirs
    BY WithTemp
  <2>3. QED
    BY <2>1, <2>2 DEF OpenTemp, NotConstructed
<1>2. CASE Rename
  BY <1>2, Renamed DEF Rename, Dirs
<1>3. CASE Destroy
  BY <1>3, WithTemp DEF Destroy, RemoveTemp
<1>4. CASE Crash
  BY <1>4 DEF Crash
<1>5. CASE SyncDir
  BY <1>5 DEF SyncDir
<1>6. CASE \/ Write \/ LibraryWrites \/ Flush \/ Sync \/ Close \/ Restart
           \/ ReadOpen \/ ReadAll
  BY <1>6 DEF Write, LibraryWrites, Flush, Sync, Close, Restart, ReadOpen, ReadAll
<1>7. CASE UNCHANGED vars
  BY <1>7 DEF vars
<1>8. QED
  BY <1>1, <1>2, <1>3, <1>4, <1>5, <1>6, <1>7 DEF Next, Call

\* Inodes hold at most one version each, also after a crash.
LEMMA FileStep == TypeOK /\ TempInv /\ [Next]_vars => FileTypes'
<1> SUFFICES ASSUME RestTypes, DirTypes, FileTypes, TempInv, [Next]_vars PROVE FileTypes'
  BY TypeParts
<1> USE DEF disk
<1>1. CASE Construct
  <2>1. PICK i \in Inodes : OpenTemp(i) \/ NotConstructed
    BY <1>1, ConstructEffect
  <2>2. calls' \in 0..MaxCalls
    BY <1>1 DEF Construct, RestTypes
  <2>3. CASE OpenTemp(i)
    BY <2>2, <2>3, OpenEffect DEF OpenTemp, FileTypes
  <2>4. QED
    BY <2>1, <2>3 DEF FileTypes, NotConstructed
<1>2. ASSUME NEW n \in 0..Size, Drain(n), handle \in Inodes, UNCHANGED synced
      PROVE FileTypes'
  BY <1>2, DrainEffect DEF FileTypes
<1>3. CASE LibraryWrites
  <2>1. PICK n \in (content[handle].n + 1)..buffered : Drain(n)
    BY <1>3 DEF LibraryWrites
  <2>2. handle \in Inodes /\ content[handle].n \in 0..Size
    BY <1>3 DEF LibraryWrites, RestTypes, FileTypes, Contents
  <2>3. n \in 0..Size
    BY <2>1, <2>2 DEF RestTypes
  <2>4. QED
    BY <1>2, <1>3, <2>1, <2>2, <2>3 DEF LibraryWrites
<1>4. CASE Flush \/ Close
  BY <1>2, <1>4 DEF Flush, Close, TempInv, RestTypes, FileTypes
<1>5. CASE Destroy
  BY <1>2, <1>5 DEF Destroy, RestTypes, FileTypes
<1>6. CASE Sync
  BY <1>6 DEF Sync, TempInv, RestTypes, FileTypes
<1>7. CASE Crash
  <2>1. PICK p \in Survivors(dir'.path), t \in Survivors(dir'.tmp) :
          content' = [i \in Inodes |-> CASE i = dir'.path -> p
                                         [] i = dir'.tmp  -> t
                                         [] OTHER -> synced[i]]
    BY <1>7 DEF Crash
  <2>2. \A i \in Inodes \cup {NoFile} : Survivors(i) \in SUBSET Contents
    BY DEF Survivors, FileTypes, Contents
  <2>3. dir' \in Dirs
    BY <1>7 DEF Crash, DirTypes
  <2>4. p \in Contents /\ t \in Contents
    BY <2>2, <2>3 DEF Dirs
  <2>5. QED
    BY <1>7, <2>1, <2>4 DEF Crash, FileTypes
<1>8. CASE Write \/ Rename \/ SyncDir \/ Restart \/ ReadOpen \/ ReadAll
  BY <1>8 DEF Write, Rename, SyncDir, Restart, ReadOpen, ReadAll, FileTypes
<1>9. CASE UNCHANGED vars
  BY <1>9 DEF vars, FileTypes
<1>10. QED
  BY <1>1, <1>3, <1>4, <1>5, <1>6, <1>7, <1>8, <1>9 DEF Next, Call

\* Types are kept by every step.
LEMMA TypeStep == TypeOK /\ TempInv /\ [Next]_vars => TypeOK'
BY DirStep, FileStep, BoolStep, RestStep, TypeParts, PTL

-----------------------------------------------------------------------------
\* Steps of the machine that is up change no inode but the temporary file's.
FilesKept ==
    /\ calls' >= calls
    /\ \A i \in Inodes : (i # dir.tmp /\ i <= calls) =>
         content'[i] = content[i] /\ synced'[i] = synced[i]

\* fwrite(), fflush(), fsync() and fclose() reach the temporary file only.
LEMMA OnlyTempWritten ==
    ASSUME TypeOK, TempInv, Call \/ ReadOpen \/ ReadAll \/ UNCHANGED vars
    PROVE  FilesKept
<1> USE TypeParts DEF disk, counters, FilesKept
<1>1. ASSUME NEW n \in 0..Size, Drain(n), handle \in Inodes,
             UNCHANGED synced, UNCHANGED calls
      PROVE  FilesKept
  <2>1. handle = dir.tmp
    BY <1>1 DEF TempInv, HandleIsTemp
  <2>2. QED
    BY <1>1, <2>1, DrainEffect DEF RestTypes
<1>2. CASE Construct
  <2>1. PICK i \in Inodes : /\ i = IF dir.tmp = NoFile THEN calls' ELSE dir.tmp
                            /\ OpenTemp(i) \/ NotConstructed
    BY <1>2, ConstructEffect
  <2>2. calls' = calls + 1 /\ calls' \in 0..MaxCalls /\ calls \in 0..MaxCalls
    BY <1>2, ConstructEffect DEF RestTypes
  <2>3. CASE OpenTemp(i)
    <3>1. synced' = synced /\ \A j \in Inodes : j # i => content'[j] = content[j]
      BY <2>2, <2>3, OpenEffect DEF OpenTemp
    <3>2. QED
      BY <2>1, <2>2, <3>1
  <2>4. QED
    BY <2>1, <2>2, <2>3 DEF NotConstructed
<1>3. CASE LibraryWrites
  <2>1. PICK n \in (content[handle].n + 1)..buffered : Drain(n)
    BY <1>3 DEF LibraryWrites
  <2>2. handle \in Inodes /\ content[handle].n \in 0..Size
    BY <1>3 DEF LibraryWrites, RestTypes, FileTypes, Contents
  <2>3. n \in 0..Size
    BY <2>1, <2>2 DEF RestTypes
  <2>4. QED
    BY <1>1, <1>3, <2>1, <2>2, <2>3 DEF LibraryWrites
<1>0. calls \in Nat /\ buffered \in 0..Size
  BY DEF RestTypes
<1>4. ASSUME UNCHANGED <<calls, content, synced>> PROVE FilesKept
  BY <1>0, <1>4
<1>5. CASE Flush \/ Close
  <2>1. handle \in Inodes
    BY <1>5 DEF Flush, Close, TempInv, RestTypes
  <2>2. /\ UNCHANGED <<synced, calls>>
        /\ Drain(buffered) \/ UNCHANGED content
    BY <1>5 DEF Flush, Close
  <2>3. QED
    BY <1>0, <1>1, <1>4, <2>1, <2>2
<1>10. CASE Destroy
  BY <1>1, <1>10 DEF Destroy, RestTypes
<1>6. CASE Sync
  <2>1. handle \in Inodes /\ handle = dir.tmp
    BY <1>6 DEF Sync, TempInv, HandleIsTemp, RestTypes
  <2>2. /\ UNCHANGED <<content, calls>>
        /\ \A i \in Inodes : i # handle => synced'[i] = synced[i]
    BY <1>6 DEF Sync, FileTypes
  <2>3. QED
    BY <1>0, <2>1, <2>2
<1>7. CASE Write \/ Rename \/ SyncDir \/ Restart \/ ReadOpen \/ ReadAll
  <2>1. UNCHANGED <<calls, content, synced>>
    BY <1>7 DEF Write, Rename, SyncDir, Restart, ReadOpen, ReadAll
  <2>2. QED
    BY <1>4, <2>1
<1>8. CASE UNCHANGED vars
  BY <1>8 DEF vars, RestTypes
<1>9. QED
  BY <1>2, <1>3, <1>5, <1>6, <1>7, <1>8, <1>10 DEF Call

\* A directory stays sound while its file is not the temporary one.
LEMMA SoundKept ==
    ASSUME TypeOK, FilesKept, calls' \in Nat, NEW d \in Dirs, Sound(d),
           dir.tmp # NoFile => d.path # dir.tmp
    PROVE  Sound(d)'
<1>1. calls \in Nat /\ calls' >= calls /\ d.path \in Int /\ d.tmp \in Int
  BY DEF TypeOK, FilesKept, Dirs
<1>2. CASE d.path = NoFile
  BY <1>1, <1>2 DEF Sound
<1>3. CASE d.path # NoFile
  <2>1. d.path \in Inodes /\ d.path # dir.tmp
    BY <1>3 DEF Dirs
  <2>2. content'[d.path] = content[d.path] /\ synced'[d.path] = synced[d.path]
    BY <2>1 DEF FilesKept, Sound
  <2>3. content[d.path].ver \in Nat
    <3>1. content[d.path] \in Contents
      BY <2>1 DEF TypeOK
    <3>2. QED
      BY <3>1 DEF Contents
  <2>4. QED
    BY <1>1, <2>2, <2>3 DEF Sound, Whole
<1>4. QED
  BY <1>2, <1>3

\* The invariant of the directories after one of them was added.
LEMMA DirAdded ==
    ASSUME TypeOK, DirInv, FilesKept, calls' \in Nat,
           NEW e \in Dirs, dir' = e, maybe' = maybe \cup {e},
           \A d \in maybe : e.tmp # NoFile => d.path # e.tmp,
           Sound(e)'
    PROVE  DirInv'
<1>1. \A d \in maybe : Sound(d)'
  BY SoundKept DEF DirInv, TypeOK
<1>2. e.tmp # NoFile => e.path # e.tmp
  BY DEF Sound
<1>3. QED
  BY <1>1, <1>2 DEF DirInv

\* A crash leaves one of the possible directories, with its file untouched.
LEMMA CrashEffect ==
    ASSUME TypeOK, DirInv, Crash
    PROVE  \E d \in maybe :
             /\ d = dir' /\ maybe' = {d} /\ calls' = calls
             /\ d.path # NoFile => /\ content'[d.path] = content[d.path]
                                   /\ synced'[d.path] = content[d.path]
<1> USE TypeParts
<1>1. PICK p \in Survivors(dir'.path), t \in Survivors(dir'.tmp) :
        content' = [i \in Inodes |-> CASE i = dir'.path -> p
                                       [] i = dir'.tmp  -> t
                                       [] OTHER -> synced[i]]
  BY DEF Crash
<1>2. PICK d \in maybe : d = dir' /\ d \in Dirs
  BY DEF Crash, DirTypes
<1>3. d.path # NoFile => p = content[d.path]
  BY <1>1, <1>2 DEF Survivors, DirInv, Sound
<1>4. d.path # NoFile => content'[d.path] = p
  <2>1. d.path # NoFile => d.path \in Inodes
    BY <1>2 DEF Dirs
  <2>2. content' = [i \in Inodes |-> CASE i = d.path -> p
                                       [] i = d.tmp  -> t
                                       [] OTHER -> synced[i]]
    BY <1>1, <1>2
  <2>3. d.path # NoFile => d.tmp # d.path
    BY <1>2 DEF DirInv, Sound
  <2>4. QED
    BY <2>1, <2>2, <2>3
<1>5. maybe' = {d} /\ calls' = calls /\ synced' = content'
  BY <1>2 DEF Crash
<1>6. QED
  BY <1>2, <1>3, <1>4, <1>5

\* Every directory that a crash may leave stays sound.
LEMMA DirInvStep ==
    ASSUME TypeOK, DirInv, TempInv, CallInv, [Next]_vars
    PROVE  DirInv'
<1> USE TypeParts
<1>0. calls \in Nat /\ calls' \in Nat /\ dir \in maybe /\ dir \in Dirs
  BY RestStep DEF RestTypes, DirInv, DirTypes
<1>1. ASSUME FilesKept PROVE \A d \in maybe : Sound(d)'
  BY <1>0, <1>1, SoundKept DEF DirInv, DirTypes
<1>2. ASSUME FilesKept, dir' = dir, maybe' = maybe \/ maybe' = {dir} PROVE DirInv'
  BY <1>1, <1>2 DEF DirInv
<1>3. ASSUME NEW i \in Inodes \cup {NoFile}, FilesKept, i <= calls',
             dir' = [dir EXCEPT !.tmp = i], maybe' = maybe \cup {dir'},
             i # NoFile => \A d \in maybe : d.path # i
      PROVE  DirInv'
  <2>1. PICK e \in Dirs : e = dir' /\ e.path = dir.path /\ e.tmp = i
    BY <1>0, <1>3, WithTemp
  <2>2. PICK d \in maybe : d = dir
    BY <1>0
  <2>3. Sound(d)' /\ d \in Dirs
    BY <1>0, <1>1, <1>3, <2>2
  <2>4. Sound(e)'
    BY <1>0, <1>3, <2>1, <2>2, <2>3 DEF Sound
  <2>5. QED
    BY <1>0, <1>3, <2>1, <2>4, DirAdded
<1>4. CASE Construct
  <2>1. PICK i \in Inodes : /\ i = IF dir.tmp = NoFile THEN calls' ELSE dir.tmp
                            /\ OpenTemp(i) \/ NotConstructed
    BY <1>4, ConstructEffect
  <2>2. FilesKept /\ calls' = calls + 1
    BY <1>4, OnlyTempWritten, ConstructEffect DEF Call
  <2>3. CASE OpenTemp(i)
    <3>1. dir' = [dir EXCEPT !.tmp = i] /\ maybe' = maybe \cup {dir'}
      BY <2>3 DEF OpenTemp, ChangeDir
    <3>2. \A d \in maybe : d.path # i
      BY <1>0, <2>1, <2>2 DEF DirInv, Sound, DirTypes, Dirs
    <3>3. i <= calls'
      BY <1>0, <2>1, <2>2 DEF DirInv, Sound, DirTypes, Dirs
    <3>4. QED
      BY <1>3, <2>2, <3>1, <3>2, <3>3
  <2>4. QED
    BY <1>2, <2>1, <2>2, <2>3 DEF disk, NotConstructed
<1>5. CASE Rename
  <2>1. FilesKept
    BY <1>5, OnlyTempWritten DEF Call
  <2>2. CASE UNCHANGED <<dir, maybe>>
    BY <1>2, <2>1, <2>2
  <2>3. CASE ChangeDir([path |-> dir.tmp, tmp |-> NoFile])
    <3>1. dir.tmp \in Inodes /\ dir.tmp <= calls
      BY <1>0, <1>5 DEF Rename, TempInv, Dirs, DirInv, Sound
    <3>2. PICK e \in Dirs : e = dir' /\ e.path = dir.tmp /\ e.tmp = NoFile
      BY <2>3, <3>1, Renamed DEF ChangeDir
    <3>3. /\ content' = content /\ synced' = synced /\ calls' = calls
      BY <1>5 DEF Rename, counters
    <3>4. content[dir.tmp].ver <= calls
      BY <1>0, <1>5 DEF Rename, CallInv
    <3>5. Sound(e)'
      BY <1>0, <1>5, <3>1, <3>2, <3>3, <3>4 DEF Sound, Whole, Rename, TempInv
    <3>6. QED
      BY <1>0, <2>1, <2>3, <3>2, <3>5, DirAdded DEF ChangeDir
  <2>4. QED
    BY <1>5, <2>2, <2>3 DEF Rename
<1>6. CASE Destroy
  <2>1. FilesKept
    BY <1>6, OnlyTempWritten DEF Call
  <2>2. CASE dir' = [dir EXCEPT !.tmp = NoFile] /\ maybe' = maybe \cup {dir'}
    <3>1. NoFile \in Inodes \cup {NoFile} /\ NoFile <= calls'
      BY <1>0
    <3>2. QED
      BY <1>3, <2>1, <2>2, <3>1
  <2>3. CASE UNCHANGED <<dir, maybe>>
    BY <1>2, <2>1, <2>3
  <2>4. QED
    BY <1>6, <2>2, <2>3 DEF Destroy, RemoveTemp, ChangeDir
<1>7. CASE Crash
  <2>1. PICK d \in maybe :
          /\ d = dir' /\ maybe' = {d} /\ calls' = calls
          /\ d.path # NoFile => /\ content'[d.path] = content[d.path]
                                /\ synced'[d.path] = content[d.path]
    BY <1>7, CrashEffect
  <2>2. Sound(d)'
    BY <2>1 DEF Sound, DirInv, Whole
  <2>3. QED
    BY <2>1, <2>2 DEF DirInv, Sound
<1>8. CASE \/ Write \/ LibraryWrites \/ Flush \/ Sync \/ Close \/ SyncDir
           \/ Restart \/ ReadOpen \/ ReadAll \/ UNCHANGED vars
  <2>1. FilesKept
    BY <1>8, OnlyTempWritten DEF Call
  <2>2. dir' = dir /\ (maybe' = maybe \/ maybe' = {dir})
    BY <1>8 DEF Write, LibraryWrites, Flush, Sync, Close, SyncDir, Restart,
                ReadOpen, ReadAll, vars, disk
  <2>3. QED
    BY <1>2, <2>1, <2>2
<1>9. QED
  BY <1>4, <1>5, <1>6, <1>7, <1>8 DEF Next, Call

\* The inode of a reader is never written.
LEMMA ReaderInvStep ==
    ASSUME TypeOK, DirInv, TempInv, ReaderInv, [Next]_vars
    PROVE  ReaderInv'
<1> USE TypeParts
<1>0. calls \in Nat /\ calls' \in Nat /\ dir \in maybe /\ dir \in Dirs
  BY RestStep DEF RestTypes, DirInv, DirTypes
<1>1. ASSUME FilesKept, UNCHANGED readers, reader # NoFile => dir'.tmp # reader
      PROVE  ReaderInv'
  <2>1. reader # NoFile => content'[reader] = content[reader]
    BY <1>1 DEF FilesKept, ReaderInv, RestTypes
  <2>2. QED
    BY <1>0, <1>1, <2>1 DEF ReaderInv, FilesKept, readers, RestTypes, Whole
<1>2. CASE Construct
  <2>1. PICK i \in Inodes : /\ i = IF dir.tmp = NoFile THEN calls' ELSE dir.tmp
                            /\ OpenTemp(i) \/ NotConstructed
    BY <1>2, ConstructEffect
  <2>2. FilesKept /\ calls' = calls + 1 /\ UNCHANGED readers
    BY <1>2, OnlyTempWritten, ConstructEffect DEF Call, Construct, readers
  <2>3. OpenTemp(i) => dir'.tmp = i
    BY <1>0, WithTemp DEF OpenTemp, ChangeDir
  <2>4. reader # NoFile => dir'.tmp # reader
    BY <1>0, <2>1, <2>2, <2>3 DEF ReaderInv, disk, RestTypes, NotConstructed
  <2>5. QED
    BY <1>1, <2>2, <2>4
<1>3. CASE Rename \/ Destroy
  <2>1. FilesKept
    BY <1>3, OnlyTempWritten DEF Call
  <2>2. dir'.tmp = dir.tmp \/ dir'.tmp = NoFile
    <3>1. Rename => dir' = dir \/ dir' = [path |-> dir.tmp, tmp |-> NoFile]
      BY DEF Rename, ChangeDir
    <3>2. Destroy => dir' = dir \/ dir' = [dir EXCEPT !.tmp = NoFile]
      BY DEF Destroy, RemoveTemp, ChangeDir
    <3>3. [dir EXCEPT !.tmp = NoFile].tmp = NoFile
      BY <1>0, WithTemp
    <3>4. [path |-> dir.tmp, tmp |-> NoFile].tmp = NoFile
      OBVIOUS
    <3>5. Rename => dir'.tmp = dir.tmp \/ dir'.tmp = NoFile
      BY <3>1, <3>4
    <3>6. Destroy => dir'.tmp = dir.tmp \/ dir'.tmp = NoFile
      BY <3>2, <3>3
    <3>7. QED
      BY <1>3, <3>5, <3>6
  <2>3. UNCHANGED readers
    BY <1>3 DEF Rename, Destroy, readers
  <2>4. QED
    BY <1>1, <2>1, <2>2, <2>3 DEF ReaderInv
<1>4. CASE \/ Write \/ LibraryWrites \/ Flush \/ Sync \/ Close \/ SyncDir
           \/ Restart \/ UNCHANGED vars
  <2>1. FilesKept
    BY <1>4, OnlyTempWritten DEF Call
  <2>2. dir' = dir /\ UNCHANGED readers
    BY <1>4 DEF Write, LibraryWrites, Flush, Sync, Close, SyncDir, Restart,
                vars, disk, readers
  <2>3. QED
    BY <1>1, <2>1, <2>2 DEF ReaderInv
<1>5. CASE Crash
  BY <1>5 DEF Crash, ReaderInv
<1>6. CASE ReadOpen
  <2>1. dir.path \in Inodes /\ dir.path <= calls /\ Whole(content[dir.path])
    BY <1>0, <1>6 DEF ReadOpen, DirInv, Sound, Dirs
  <2>2. dir.tmp # dir.path
    BY <1>0, <1>6 DEF ReadOpen, DirInv, Sound
  <2>3. QED
    BY <1>6, <2>1, <2>2 DEF ReadOpen, ReaderInv, disk, counters, Whole
<1>7. CASE ReadAll
  BY <1>7 DEF ReadAll, ReaderInv, disk, counters, Whole
<1>8. QED
  BY <1>2, <1>3, <1>4, <1>5, <1>6, <1>7 DEF Next, Call

\* The temporary file is whole and synchronised when it is renamed.
LEMMA TempInvStep ==
    ASSUME TypeOK, DirInv, TempInv, [Next]_vars
    PROVE  TempInv'
<1> USE TypeParts
<1>0. /\ dir \in Dirs /\ buffered \in 0..Size
      /\ handle # NoFile => handle \in Inodes /\ handle = dir.tmp
  BY DEF RestTypes, DirTypes, TempInv, HandleIsTemp
<1>1. CASE Construct
  <2>1. PICK i \in Inodes : \/ OpenTemp(i)
                            \/ NotConstructed
    BY <1>1, ConstructEffect
  <2>2. CASE OpenTemp(i)
    <3>1. content'[i].n = 0 /\ dir'.tmp = i
      BY <1>0, <1>1, <2>2, OpenEffect, ConstructEffect, WithTemp DEF OpenTemp, ChangeDir
    <3>2. buffered' = 0 /\ handle' = i /\ wpc' = "write"
      BY <1>1, <2>2 DEF Construct, OpenTemp, GoTo
    <3>3. QED
      BY <3>1, <3>2 DEF TempInv, HandleIsTemp
  <2>3. QED
    BY <2>1, <2>2 DEF TempInv, HandleIsTemp, NotConstructed
<1>2. CASE Write
  <2>1. /\ UNCHANGED <<dir, content, synced, handle>> /\ handle # NoFile
        /\ \/ wpc' = "flush" /\ buffered' = Size
           \/ wpc' = "destroy" /\ buffered' \in 0..(Size - 1)
    BY <1>2 DEF Write, TempInv, disk, GoTo, Return
  <2>2. content[handle] \in Contents
    BY <1>0, <2>1 DEF FileTypes
  <2>3. content[handle].n = 0
    BY <1>2, <2>1, <2>2 DEF Contents, TempInv, Write
  <2>4. content'[handle'].n <= buffered'
    BY <2>1, <2>3
  <2>5. QED
    BY <1>0, <2>1, <2>4 DEF TempInv, HandleIsTemp
<1>3. CASE LibraryWrites
  <2>1. PICK n \in (content[handle].n + 1)..buffered : Drain(n)
    BY <1>3 DEF LibraryWrites
  <2>2. handle \in Inodes /\ content[handle].n \in 0..Size /\ handle = dir.tmp
    BY <1>0, <1>3 DEF LibraryWrites, FileTypes, Contents
  <2>3. n \in 0..Size /\ content[handle].n < n /\ n <= buffered
    BY <1>0, <2>1, <2>2
  <2>4. content'[handle].n = n
    BY <2>1, <2>2, <2>3, DrainEffect
  <2>5. UNCHANGED <<dir, synced, handle, buffered, wpc>>
    BY <1>3 DEF LibraryWrites, writer
  <2>6. wpc \notin {"sync", "close"}
    BY <1>0, <2>3 DEF TempInv, Whole
  <2>7. wpc # "rename"
    BY <1>3 DEF TempInv, LibraryWrites
  <2>8. QED
    BY <2>2, <2>3, <2>4, <2>5, <2>6, <2>7 DEF TempInv, HandleIsTemp
<1>4. CASE Flush
  <2>1. /\ UNCHANGED <<dir, synced, handle, buffered>>
        /\ handle \in Inodes /\ handle = dir.tmp /\ buffered = Size
        /\ \/ wpc' = "sync" /\ Drain(buffered)
           \/ wpc' = "destroy" /\ content' = content
    BY <1>0, <1>4 DEF Flush, TempInv, GoTo, Return
  <2>2. Drain(buffered) => content'[handle].n = Size
    BY <1>0, <2>1, DrainEffect
  <2>3. QED
    BY <1>0, <2>1, <2>2 DEF TempInv, HandleIsTemp, Whole
<1>5. CASE Sync
  <2>1. /\ UNCHANGED <<dir, content, handle, buffered>>
        /\ handle \in Inodes /\ handle = dir.tmp /\ buffered = Size
        /\ Whole(content[handle])
        /\ \/ wpc' = "close" /\ synced' = [synced EXCEPT ![handle] = content[handle]]
           \/ wpc' = "destroy"
    BY <1>0, <1>5 DEF Sync, TempInv, GoTo, Return
  <2>2. wpc' = "close" => synced'[handle] = content[handle]
    BY <2>1 DEF FileTypes
  <2>3. QED
    BY <1>0, <2>1, <2>2 DEF TempInv, HandleIsTemp, Whole
<1>6. CASE Close
  <2>1. /\ UNCHANGED <<dir, synced, buffered>>
        /\ handle \in Inodes /\ handle = dir.tmp /\ buffered = Size
        /\ Whole(content[handle]) /\ content[handle] = synced[handle]
        /\ wpc' = "rename" /\ Drain(buffered) /\ handle' = NoFile
    BY <1>0, <1>6 DEF Close, TempInv, GoTo
  <2>2. content' = content
    <3>1. content[handle] \in Contents /\ content[handle].n = buffered
      BY <2>1 DEF FileTypes, Whole
    <3>2. [ver |-> content[handle].ver, n |-> buffered] = content[handle]
      BY <3>1 DEF Contents
    <3>3. QED
      BY <2>1, <3>2 DEF Drain, FileTypes
  <2>3. QED
    BY <2>1, <2>2 DEF TempInv, HandleIsTemp, Whole
<1>7. CASE Rename \/ SyncDir
  <2>1. handle' = NoFile /\ wpc' \in {"sync_dir", "destroy"}
    BY <1>7 DEF Rename, SyncDir, TempInv, GoTo, Return
  <2>2. QED
    BY <2>1 DEF TempInv, HandleIsTemp
<1>8. CASE Destroy \/ Crash
  <2>1. handle' = NoFile /\ wpc' \in {"idle", "terminated"}
    BY <1>8 DEF Destroy, Crash, GoTo
  <2>2. QED
    BY <2>1 DEF TempInv, HandleIsTemp
<1>9. CASE Restart
  <2>1. handle' = NoFile /\ wpc' = "idle"
    BY <1>9 DEF Restart, TempInv
  <2>2. QED
    BY <2>1 DEF TempInv, HandleIsTemp
<1>10. CASE ReadOpen \/ ReadAll \/ UNCHANGED vars
  <2>1. UNCHANGED <<dir, content, synced, handle, buffered, wpc>>
    BY <1>10 DEF ReadOpen, ReadAll, vars, disk, writer
  <2>2. QED
    BY <2>1 DEF TempInv, HandleIsTemp, Whole
<1>11. QED
  BY <1>1, <1>2, <1>3, <1>4, <1>5, <1>6, <1>7, <1>8, <1>9, <1>10
  DEF Next, Call

\* path_ does not change before the rename.
LEMMA CallInvStep ==
    ASSUME TypeOK, DirInv, TempInv, CallInv, [Next]_vars
    PROVE  CallInv'
<1> USE TypeParts
<1> DEFINE Pcs == {"write", "flush", "sync", "close", "rename"}
<1>0. /\ calls \in Nat /\ dir \in maybe /\ dir \in Dirs /\ buffered \in 0..Size
      /\ handle # NoFile => handle \in Inodes /\ handle = dir.tmp
  BY DEF RestTypes, DirTypes, TempInv, HandleIsTemp, DirInv
<1>1. CASE Construct
  <2>1. PICK i \in Inodes : /\ i = IF dir.tmp = NoFile THEN calls' ELSE dir.tmp
                            /\ OpenTemp(i) \/ NotConstructed
    BY <1>1, ConstructEffect
  <2>2. calls' = calls + 1 /\ calls' \in 0..MaxCalls /\ before' = dir.path /\ FilesKept
    BY <1>1, ConstructEffect, OnlyTempWritten DEF Construct, Call
  <2>3. CASE OpenTemp(i)
    <3>1. content'[i].ver = calls'
      BY <2>2, <2>3, OpenEffect
    <3>2. dir'.tmp = i /\ dir'.path = dir.path
      BY <1>0, <2>3, WithTemp DEF OpenTemp, ChangeDir
    <3>3. dir.path # NoFile => content'[dir.path].ver < calls'
      <4>1. SUFFICES ASSUME dir.path # NoFile PROVE content'[dir.path].ver < calls'
        OBVIOUS
      <4>2. dir.path \in Inodes /\ dir.path # dir.tmp /\ dir.path <= calls
            /\ content[dir.path].ver <= calls
        BY <1>0, <4>1 DEF Dirs, DirInv, Sound
      <4>3. content'[dir.path] = content[dir.path]
        BY <2>2, <4>2 DEF FilesKept
      <4>4. content[dir.path].ver \in Nat
        <5>1. content[dir.path] \in Contents
          BY <4>2 DEF FileTypes
        <5>2. QED
          BY <5>1 DEF Contents
      <4>5. QED
        BY <1>0, <2>2, <4>2, <4>3, <4>4
    <3>4. wpc' = "write"
      BY <2>3 DEF OpenTemp, GoTo
    <3>5. QED
      BY <2>2, <3>1, <3>2, <3>3, <3>4 DEF CallInv
  <2>4. CASE NotConstructed
    BY <2>2, <2>4 DEF CallInv, NotConstructed, disk
  <2>5. QED
    BY <2>1, <2>3, <2>4
<1>2. ASSUME wpc \in Pcs, wpc' \in Pcs \cup {"destroy"}, FilesKept,
             UNCHANGED <<dir, calls, before>>,
             content'[dir.tmp].ver = content[dir.tmp].ver
      PROVE  CallInv'
  <2>1. dir.path # NoFile => content'[dir.path] = content[dir.path]
    BY <1>0, <1>2 DEF FilesKept, DirInv, Sound, Dirs
  <2>2. QED
    BY <1>2, <2>1 DEF CallInv
<1>3. ASSUME NEW n \in 0..Size, Drain(n), handle \in Inodes
      PROVE  content'[dir.tmp].ver = content[dir.tmp].ver
  BY <1>0, <1>3, DrainEffect
<1>4. CASE Write \/ Flush \/ Sync \/ Close
  <2>1. FilesKept
    BY <1>4, OnlyTempWritten DEF Call
  <2>2. /\ wpc \in Pcs /\ wpc' \in Pcs \cup {"destroy"}
        /\ UNCHANGED <<dir, calls, before>>
    BY <1>4 DEF Write, Flush, Sync, Close, GoTo, Return, counters, disk
  <2>3. handle \in Inodes
    BY <1>0, <1>4 DEF Write, Flush, Sync, Close, TempInv
  <2>4. content' = content \/ Drain(buffered)
    BY <1>4 DEF Write, Flush, Sync, Close, disk
  <2>5. QED
    BY <1>0, <1>2, <1>3, <2>1, <2>2, <2>3, <2>4
<1>5. CASE LibraryWrites
  <2>1. PICK n \in (content[handle].n + 1)..buffered : Drain(n)
    BY <1>5 DEF LibraryWrites
  <2>2. handle \in Inodes /\ content[handle].n \in 0..Size
    BY <1>0, <1>5 DEF LibraryWrites, FileTypes, Contents
  <2>3. n \in 0..Size
    BY <1>0, <2>1, <2>2
  <2>4. FilesKept /\ UNCHANGED <<dir, calls, before, wpc, ret>>
    BY <1>5, OnlyTempWritten DEF Call, LibraryWrites, writer, counters
  <2>5. CASE wpc \in Pcs
    BY <1>2, <1>3, <2>1, <2>2, <2>3, <2>4, <2>5
  <2>6. CASE wpc \notin Pcs
    <3>1. wpc # "sync_dir"
      BY <1>5 DEF LibraryWrites, TempInv
    <3>2. QED
      BY <2>4, <2>6, <3>1 DEF CallInv
  <2>7. QED
    BY <2>5, <2>6
<1>6. CASE Rename
  <2>1. CASE UNCHANGED <<dir, maybe>> /\ Return(FALSE)
    BY <1>6, <2>1 DEF Rename, CallInv, Return, counters
  <2>2. CASE ChangeDir([path |-> dir.tmp, tmp |-> NoFile]) /\ GoTo("sync_dir")
    <3>1. dir.tmp # NoFile /\ content[dir.tmp].ver = calls
      BY <1>6 DEF Rename, TempInv, CallInv
    <3>2. dir'.path = dir.tmp
      BY <2>2 DEF ChangeDir
    <3>3. wpc' = "sync_dir" /\ content' = content /\ calls' = calls
      BY <1>6, <2>2 DEF Rename, GoTo, counters
    <3>4. QED
      BY <3>1, <3>2, <3>3 DEF CallInv
  <2>3. QED
    BY <1>6, <2>1, <2>2 DEF Rename
<1>7. CASE SyncDir
  <2>1. wpc' = "destroy" /\ ret' = TRUE
    BY <1>7 DEF SyncDir, Return
  <2>2. QED
    BY <2>1 DEF CallInv
<1>8. CASE Destroy
  <2>1. dir' = dir \/ dir' = [dir EXCEPT !.tmp = NoFile]
    BY <1>8 DEF Destroy, RemoveTemp, ChangeDir
  <2>2. dir'.path = dir.path
    <3>1. [dir EXCEPT !.tmp = NoFile].path = dir.path
      BY <1>0, WithTemp
    <3>2. QED
      BY <2>1, <3>1
  <2>3. /\ wpc = "destroy" /\ wpc' \in {"idle", "terminated"}
        /\ UNCHANGED <<ret, before>>
    BY <1>8 DEF Destroy, GoTo, counters
  <2>4. QED
    BY <2>2, <2>3 DEF CallInv
<1>9. CASE Crash \/ Restart
  <2>1. wpc' = "idle" /\ ret' = TRUE
    BY <1>9 DEF Crash, Restart
  <2>2. QED
    BY <2>1 DEF CallInv
<1>10. CASE ReadOpen \/ ReadAll \/ UNCHANGED vars
  <2>1. UNCHANGED <<dir, content, wpc, ret, calls, before>>
    BY <1>10 DEF ReadOpen, ReadAll, vars, disk, writer, counters
  <2>2. QED
    BY <2>1 DEF CallInv
<1>11. QED
  BY <1>1, <1>4, <1>5, <1>6, <1>7, <1>8, <1>9, <1>10 DEF Next, Call

\* The invariant holds before the first call.
LEMMA InitIInv == Init => IInv
<1> SUFFICES ASSUME Init PROVE IInv
  OBVIOUS
<1>1. DirTypes
  BY DEF Init, DirTypes, Dirs
<1>2. FileTypes
  BY DEF Init, FileTypes, Contents
<1>3. BoolTypes
  BY Zenon DEF Init, BoolTypes
<1>4. RestTypes
  BY DEF Init, RestTypes, Contents
<1>5. DirInv
  BY DEF Init, DirInv, Sound, Whole
<1>6. TempInv /\ CallInv /\ ReaderInv
  BY DEF Init, TempInv, CallInv, ReaderInv, HandleIsTemp, Whole
<1>7. QED
  BY <1>1, <1>2, <1>3, <1>4, <1>5, <1>6, TypeParts DEF IInv

\* Every step keeps it.
LEMMA NextIInv == IInv /\ [Next]_vars => IInv'
BY TypeStep, DirInvStep, TempInvStep, CallInvStep, ReaderInvStep DEF IInv

\* The inductive invariant holds for any size and any number of calls and
\* crashes.
THEOREM Invariant == Spec => []IInv
BY InitIInv, NextIInv, PTL DEF Spec

\* Whatever fails and whenever the machine crashes, path_ holds a whole version.
THEOREM PathAlwaysWhole == Spec => []PathIsWhole
<1>1. IInv => PathIsWhole
  BY DEF IInv, DirInv, Sound, PathIsWhole
<1>2. QED
  BY <1>1, Invariant, PTL

\* readFileContent() never returns part of a version.
THEOREM ReaderAlwaysSeesWhole == Spec => []ReaderSeesWhole
<1>1. IInv => ReaderSeesWhole
  BY DEF IInv, ReaderInv, ReaderSeesWhole
<1>2. QED
  BY <1>1, Invariant, PTL

\* All variables of the writer, the disk and the reader keep their types.
THEOREM TypeCorrect == Spec => []TypeOK
<1>1. IInv => TypeOK
  BY DEF IInv
<1>2. QED
  BY <1>1, Invariant, PTL

\* file_ never refers to a file that was renamed over path_.
THEOREM HandleAlwaysTemp == Spec => []HandleIsTemp
<1>1. IInv => HandleIsTemp
  BY DEF IInv, TempInv
<1>2. QED
  BY <1>1, Invariant, PTL

\* A call of atomicWriteFile() that returns false, throws or terminates the process
\* before it returns false has left the file alone.
THEOREM FailureAlwaysKeepsFile == Spec => []FailureKeepsFile
<1>1. IInv => FailureKeepsFile
  BY DEF IInv, CallInv, FailureKeepsFile
<1>2. QED
  BY <1>1, Invariant, PTL

-----------------------------------------------------------------------------
(* Refinement                                                              *)

Versions == {VersionIn(d) : d \in maybe}

\* A directory has the version it had, unless its file was the temporary one.
LEMMA VersionKept ==
    ASSUME TypeOK, DirInv, FilesKept, NEW d \in maybe
    PROVE  VersionIn(d)' = VersionIn(d)
BY DEF VersionIn, FilesKept, DirInv, Sound, TypeOK, Dirs

\* A step that leaves the file where it was is invisible, or makes durable.
LEMMA SameFile ==
    ASSUME TypeOK, DirInv, FilesKept, dir'.path = dir.path,
           maybe' = maybe \cup {dir'} \/ maybe' = maybe
    PROVE  VersionIn(dir)' = VersionIn(dir) /\ Versions' = Versions
<1>1. dir \in maybe
  BY DEF DirInv
<1>2. \A d \in maybe : VersionIn(d)' = VersionIn(d)
  BY VersionKept
<1>3. VersionIn(dir)' = VersionIn(dir)
  <2>1. PICK d \in maybe : d = dir
    BY <1>1
  <2>2. VersionIn(d)' = VersionIn(dir)
    BY <1>2, <2>1
  <2>3. QED
    BY <2>1, <2>2 DEF VersionIn
<1>4. Versions' = Versions
  <2>1. \A d \in maybe' : VersionIn(d)' \in Versions
    <3>1. PICK e : e = dir'
      OBVIOUS
    <3>2. VersionIn(e)' \in Versions
      BY <1>1, <1>3, <3>1 DEF Versions, VersionIn
    <3>3. QED
      BY <1>2, <3>1, <3>2 DEF Versions
  <2>2. \A d \in maybe : VersionIn(d) \in Versions'
    BY <1>2 DEF Versions
  <2>3. QED
    BY <2>1, <2>2 DEF Versions
<1>5. QED
  BY <1>3, <1>4

\* A step of the code or a crash is a step of AtomicFile or none.
LEMMA NextRefines ==
    ASSUME IInv, [Next]_vars
    PROVE  [Abstract!Next]_(Abstract!vars)
<1> USE DEF IInv
<1> DEFINE Same == VersionIn(dir)' = VersionIn(dir) /\ Versions' = Versions
<1>0. dir \in maybe /\ dir \in Dirs
  BY DEF DirInv, TypeOK
<1>1. CASE Same
  BY <1>1 DEF Abstract!vars, Versions
<1>2. ASSUME FilesKept, dir'.path = dir.path,
             maybe' = maybe \cup {dir'} \/ maybe' = maybe
      PROVE  Same
  BY <1>2, SameFile
<1>3. CASE Construct
  <2>1. PICK i \in Inodes : OpenTemp(i) \/ NotConstructed
    BY <1>3, ConstructEffect, TypeParts
  <2>2. FilesKept
    BY <1>3, OnlyTempWritten DEF Call
  <2>3. /\ dir' = dir \/ dir' = [dir EXCEPT !.tmp = i]
        /\ maybe' = maybe \cup {dir'} \/ maybe' = maybe
    BY <2>1 DEF OpenTemp, ChangeDir, disk, NotConstructed
  <2>4. [dir EXCEPT !.tmp = i].path = dir.path
    BY <1>0, WithTemp
  <2>5. dir'.path = dir.path
    BY <2>3, <2>4
  <2>6. QED
    BY <1>1, <1>2, <2>2, <2>3, <2>5
<1>4. CASE Rename
  <2>1. FilesKept /\ \A d \in maybe : VersionIn(d)' = VersionIn(d)
    BY <1>4, OnlyTempWritten, VersionKept DEF Call
  <2>2. CASE UNCHANGED <<dir, maybe>>
    BY <1>1, <1>2, <2>1, <2>2
  <2>3. CASE ChangeDir([path |-> dir.tmp, tmp |-> NoFile])
    <3>1. dir.tmp # NoFile /\ content[dir.tmp].ver = calls
      BY <1>4 DEF Rename, TempInv, CallInv
    <3>2. PICK e : /\ e = dir' /\ e.path = dir.tmp
                   /\ maybe' = maybe \cup {e}
      BY <2>3 DEF ChangeDir
    <3>3. content' = content
      BY <1>4 DEF Rename
    <3>4. VersionIn(e)' = calls /\ VersionIn(dir)' = calls
      BY <3>1, <3>2, <3>3 DEF VersionIn
    <3>5. VersionIn(dir) < calls
      BY <1>4 DEF Rename, CallInv, VersionIn, TypeOK
    <3>6. Versions' = Versions \cup {calls}
      BY <2>1, <3>2, <3>4 DEF Versions
    <3>7. calls \in Nat
      BY DEF TypeOK
    <3>8. Abstract!Replace
      BY <3>4, <3>5, <3>6, <3>7 DEF Abstract!Replace, Versions
    <3>9. QED
      BY <3>8 DEF Abstract!Next
  <2>4. QED
    BY <1>4, <2>2, <2>3 DEF Rename
<1>5. CASE SyncDir
  <2>1. FilesKept /\ dir' = dir
    BY <1>5, OnlyTempWritten DEF Call, SyncDir
  <2>2. CASE maybe' = maybe
    BY <1>1, <1>2, <2>1, <2>2
  <2>3. CASE maybe' = {dir}
    <3>1. VersionIn(dir)' = VersionIn(dir)
      BY <1>5 DEF VersionIn, SyncDir
    <3>2. Versions' = {VersionIn(dir)}
      BY <1>5, <2>3 DEF Versions, VersionIn, SyncDir
    <3>3. Abstract!MakeDurable
      BY <3>1, <3>2 DEF Abstract!MakeDurable, Versions
    <3>4. QED
      BY <3>3 DEF Abstract!Next
  <2>4. QED
    BY <1>5, <2>2, <2>3 DEF SyncDir
<1>6. CASE Destroy
  <2>1. FilesKept
    BY <1>6, OnlyTempWritten DEF Call
  <2>2. /\ dir' = dir \/ dir' = [dir EXCEPT !.tmp = NoFile]
        /\ maybe' = maybe \cup {dir'} \/ maybe' = maybe
    BY <1>6 DEF Destroy, RemoveTemp, ChangeDir
  <2>3. [dir EXCEPT !.tmp = NoFile].path = dir.path
    BY <1>0, WithTemp
  <2>4. dir'.path = dir.path
    BY <2>2, <2>3
  <2>5. QED
    BY <1>1, <1>2, <2>1, <2>2, <2>4
<1>7. CASE Crash
  <2>1. PICK d \in maybe :
          /\ d = dir' /\ maybe' = {d}
          /\ d.path # NoFile => content'[d.path] = content[d.path]
    BY <1>7, CrashEffect
  <2>2. VersionIn(d)' = VersionIn(d) /\ VersionIn(dir)' = VersionIn(d)
    BY <2>1 DEF VersionIn
  <2>3. Versions' = {VersionIn(d)} /\ VersionIn(d) \in Versions
    BY <2>1, <2>2 DEF Versions
  <2>4. Abstract!Crash
    BY <2>2, <2>3 DEF Abstract!Crash, Versions
  <2>5. QED
    BY <2>4 DEF Abstract!Next
<1>8. CASE \/ Write \/ LibraryWrites \/ Flush \/ Sync \/ Close
           \/ Restart \/ ReadOpen \/ ReadAll \/ UNCHANGED vars
  <2>1. FilesKept
    BY <1>8, OnlyTempWritten DEF Call
  <2>2. dir' = dir /\ maybe' = maybe
    BY <1>8 DEF Write, LibraryWrites, Flush, Sync, Close, Restart, ReadOpen,
                ReadAll, vars, disk
  <2>3. QED
    BY <1>1, <1>2, <2>1, <2>2
<1>9. QED
  BY <1>3, <1>4, <1>5, <1>6, <1>7, <1>8 DEF Next, Call

\* atomicWriteFile(), with failing calls and crashes, implements a file that
\* is replaced atomically and by newer versions only.
THEOREM Refinement == Spec => ImplementsAtomicFile
<1>1. Init => Abstract!Init
  BY DEF Init, Abstract!Init, VersionIn
<1>2. IInv /\ [Next]_vars => [Abstract!Next]_(Abstract!vars)
  BY NextRefines
<1>3. QED
  BY <1>1, <1>2, Invariant, PTL DEF Spec, ImplementsAtomicFile, Abstract!Spec

-----------------------------------------------------------------------------
(* Durability                                                              *)

\* The lemmas below speak of versions rather than of directories.
Durable == \A v \in Versions : v >= confirmed

\* Versions are numbers, and the file's is one of those a crash may leave.
LEMMA VersionsTyped ==
    TypeOK /\ DirInv => VersionIn(dir) \in Versions /\ Versions \subseteq Int
<1> SUFFICES ASSUME TypeOK, DirInv
             PROVE  VersionIn(dir) \in Versions /\ Versions \subseteq Int
  OBVIOUS
<1>1. ASSUME NEW d \in maybe PROVE VersionIn(d) \in Int
  <2>1. CASE d.path = NoFile
    BY <2>1 DEF VersionIn
  <2>2. CASE d.path # NoFile
    <3>1. content[d.path] \in Contents
      BY <2>2 DEF TypeOK, Dirs
    <3>2. QED
      BY <2>2, <3>1 DEF VersionIn, Contents
  <2>3. QED
    BY <2>1, <2>2
<1>2. QED
  BY <1>1 DEF Versions, DirInv

\* Only the synchronisation of the directory confirms a version.
LEMMA OnlySyncDirConfirms ==
    ASSUME [Next]_vars, ~SyncDir
    PROVE  confirmed' = confirmed
BY DEF Next, Call, vars, counters, Construct, Write, LibraryWrites, Flush, Sync,
       Close, Rename, Destroy, Restart, Crash, ReadOpen, ReadAll

\* A step never makes a version possible that is older than the confirmed one.
LEMMA DurableStep ==
    ASSUME IInv, IInv', Durable, [Next]_vars
    PROVE  Durable'
<1>1. /\ VersionIn(dir) \in Versions /\ Versions \subseteq Int
      /\ confirmed \in Int /\ calls \in Nat
  BY VersionsTyped DEF IInv, TypeOK
<1>2. CASE SyncDir
  <2>1. CASE maybe' = {dir} /\ confirmed' = calls
    <3>1. VersionIn(dir) = calls
      BY <1>2 DEF SyncDir, IInv, CallInv, VersionIn
    <3>2. Versions' = {VersionIn(dir)}
      BY <1>2, <2>1 DEF Versions, VersionIn, SyncDir
    <3>3. QED
      BY <1>1, <2>1, <3>1, <3>2 DEF Durable
  <2>2. CASE UNCHANGED <<maybe, confirmed>>
    <3>1. Versions' = Versions
      BY <1>2, <2>2 DEF Versions, VersionIn, SyncDir
    <3>2. QED
      BY <2>2, <3>1 DEF Durable
  <2>3. QED
    BY <1>2, <2>1, <2>2 DEF SyncDir
<1>3. CASE ~SyncDir
  <2>1. confirmed' = confirmed
    BY <1>3, OnlySyncDirConfirms
  <2>2. \/ VersionIn(dir)' > VersionIn(dir) /\ Versions' = Versions \cup {VersionIn(dir)'}
        \/ Versions' = {VersionIn(dir)}
        \/ VersionIn(dir)' \in Versions /\ Versions' = {VersionIn(dir)'}
        \/ Versions' = Versions
    BY NextRefines DEF Abstract!Next, Abstract!Replace, Abstract!MakeDurable,
                       Abstract!Crash, Abstract!vars, Versions
  <2>3. VersionIn(dir)' \in Int
    <3>1. TypeOK' /\ DirInv'
      BY DEF IInv
    <3>2. (VersionIn(dir) \in Versions /\ Versions \subseteq Int)'
      BY <3>1, VersionsTyped, PTL
    <3>3. QED
      BY <3>2
  <2>4. PICK old, new : old = VersionIn(dir) /\ new = VersionIn(dir)'
    OBVIOUS
  <2>5. ASSUME NEW v \in Versions' PROVE v >= confirmed
    <3>1. v \in Versions \/ v = old \/ (v = new /\ (new > old \/ new \in Versions))
      BY <2>2, <2>4, <2>5
    <3>2. old \in Versions /\ old \in Int /\ new \in Int
      BY <1>1, <2>3, <2>4
    <3>3. CASE v \in Versions
      BY <3>3 DEF Durable
    <3>4. old >= confirmed
      BY <3>2 DEF Durable
    <3>5. CASE v = old
      BY <3>4, <3>5
    <3>6. CASE v = new /\ new > old
      BY <1>1, <3>2, <3>4, <3>6
    <3>7. QED
      BY <3>1, <3>3, <3>5, <3>6
  <2>6. QED
    BY <2>1, <2>5 DEF Durable
<1>4. QED
  BY <1>2, <1>3

\* A version whose commit() met no failure survives every later crash, for any
\* number of later calls.
THEOREM CommitAlwaysSurvives == Spec => []CommitSurvives
<1>1. Init => Durable
  BY DEF Init, Durable, Versions, VersionIn
<1>2. IInv /\ IInv' /\ Durable /\ [Next]_vars => Durable'
  BY DurableStep
<1>3. Durable => CommitSurvives
  BY DEF Durable, Versions, CommitSurvives
<1>4. QED
  BY <1>1, <1>2, <1>3, Invariant, PTL DEF Spec
=============================================================================
