-------------------------- MODULE AtomicFileWriter --------------------------
(***************************************************************************)
(* utils::filesystem_wrapper::AtomicFileWriter and atomicWriteFile(): a    *)
(* new version of a file is written to a temporary file next to it,        *)
(* synchronised, and renamed over it.  Any library call may fail, by what  *)
(* it returns or with an exception, the machine may crash at any time, and *)
(* a reader may read in between.                                           *)
(*                                                                         *)
(* Version k is what the k-th call writes; it has Size bytes.  The inode   *)
(* of a temporary file holds the first n bytes of one version, so that its *)
(* contents are a record of version and n.  One call runs at a time: two   *)
(* of them would share the temporary file.                                 *)
(***************************************************************************)
EXTENDS Integers

CONSTANTS Size,        \* bytes of one version
          MaxCalls,    \* bound: calls of atomicWriteFile()
          MaxCrashes   \* bound: crashes

ASSUME AtomicFileWriterAssumption ==
    /\ Size \in Nat \ {0}
    /\ MaxCalls \in Nat
    /\ MaxCrashes \in Nat

NoFile == -1
Inodes == 0..MaxCalls

VARIABLES dir,        \* the directory: inodes of path_ and temp_path_
          maybe,      \* directories a crash may leave
          content,    \* what each inode contains, in the page cache ...
          synced,     \* ... and when it was last synchronised
          calls,      \* calls of atomicWriteFile() so far
          wpc,        \* where the call is
          handle,     \* inode of file_, or NoFile for nullptr
          buffered,   \* bytes that fwrite() has taken
          dir_fd,     \* the directory could be opened
          ret,        \* what the last call returned; FALSE if it threw
          before,     \* history: inode of path_ when the call began
          confirmed,  \* history: last call whose commit() had no failure at all
          crashes,    \* number of crashes
          reader,     \* inode the reader has open, or NoFile
          read        \* what the reader got

disk     == <<dir, maybe, content, synced>>
writer   == <<wpc, handle, buffered, dir_fd, ret>>
counters == <<calls, before, confirmed, crashes>>
readers  == <<reader, read>>
vars     == <<disk, writer, counters, readers>>

Contents == [ver : 0..MaxCalls, n : 0..Size]
Whole(c) == c.n = Size

Init ==
    /\ dir \in [path : {NoFile, 0}, tmp : {NoFile}]
    /\ maybe = {dir}
    /\ content = [i \in Inodes |-> [ver |-> 0, n |-> Size]]
    /\ synced = content
    /\ calls = 0
    /\ wpc = "idle"
    /\ handle = NoFile
    /\ buffered = 0
    /\ dir_fd = FALSE
    /\ ret = TRUE
    /\ before = dir.path
    /\ confirmed = -1
    /\ crashes = 0
    /\ reader = NoFile
    /\ read = [ver |-> 0, n |-> Size]

\* The directory changes; until it is synchronised a crash may undo that.
ChangeDir(d) == dir' = d /\ maybe' = maybe \cup {d}

\* The call goes on at pc, or returns r by way of the destructor.
GoTo(pc)   == wpc' = pc /\ UNCHANGED ret
Return(r)  == wpc' = "destroy" /\ ret' = r

-----------------------------------------------------------------------------
(* Constructor and write()                                                 *)

\* fopen(temp_path_, "wb") creates the file or truncates the one that is left
\* of an earlier call.
OpenTemp(inode) ==
    /\ content' = [content EXCEPT ![inode] = [ver |-> calls', n |-> 0]]
    /\ ChangeDir([dir EXCEPT !.tmp = inode])
    /\ handle' = inode
    /\ GoTo("write")
    /\ UNCHANGED synced

\* exists() or create_directories() of the parent throws: there is no object
\* to destroy, and the exception leaves atomicWriteFile().
ConstructorThrows ==
    /\ wpc' = "idle"
    /\ ret' = FALSE
    /\ handle' = NoFile
    /\ UNCHANGED disk

Construct ==
    /\ wpc = "idle"
    /\ calls < MaxCalls
    /\ calls' = calls + 1
    /\ before' = dir.path
    /\ buffered' = 0
    /\ \/ OpenTemp(IF dir.tmp = NoFile THEN calls' ELSE dir.tmp)
       \/ handle' = NoFile /\ Return(FALSE) /\ UNCHANGED disk
       \/ ConstructorThrows
    /\ UNCHANGED <<dir_fd, confirmed, crashes, readers>>

\* fwrite() takes all bytes, or some and the call returns false.
Write ==
    /\ wpc = "write"
    /\ \/ buffered' = Size /\ GoTo("flush")
       \/ buffered' \in 0..(Size - 1) /\ Return(FALSE)
    /\ UNCHANGED <<disk, handle, dir_fd, counters, readers>>

\* Bytes that the C library has may reach the kernel at any time.
Drain(n) ==
    content' = [content EXCEPT ![handle] = [ver |-> @.ver, n |-> n]]

LibraryWrites ==
    /\ handle # NoFile
    /\ \E n \in (content[handle].n + 1)..buffered : Drain(n)
    /\ UNCHANGED <<dir, maybe, synced, writer, counters, readers>>

-----------------------------------------------------------------------------
(* commit()                                                                *)

\* Fault: only fwrite() is trusted.
Flush_Skipped ==
    /\ wpc = "flush"
    /\ GoTo("sync")
    /\ UNCHANGED <<disk, handle, buffered, dir_fd, counters, readers>>

Flush ==
    /\ wpc = "flush"
    /\ \/ Drain(buffered) /\ GoTo("sync")
       \/ UNCHANGED content /\ Return(FALSE)
    /\ UNCHANGED <<dir, maybe, synced, handle, buffered, dir_fd, counters, readers>>

\* Fault: the data is left to the page cache.
Sync_Skipped ==
    /\ wpc = "sync"
    /\ GoTo("close")
    /\ UNCHANGED <<disk, handle, buffered, dir_fd, counters, readers>>

Sync ==
    /\ wpc = "sync"
    /\ \/ synced' = [synced EXCEPT ![handle] = content[handle]] /\ GoTo("close")
       \/ UNCHANGED synced /\ Return(FALSE)
    /\ UNCHANGED <<dir, maybe, content, handle, buffered, dir_fd, counters, readers>>

\* fclose(), and open() of the directory, which may fail.
Close ==
    /\ wpc = "close"
    /\ Drain(buffered)
    /\ handle' = NoFile
    /\ dir_fd' \in BOOLEAN
    /\ GoTo("rename")
    /\ UNCHANGED <<dir, maybe, synced, buffered, counters, readers>>

\* Fault: the old file is removed first.
Rename_RemoveFirst ==
    /\ wpc = "rename"
    /\ \/ ChangeDir([path |-> dir.tmp, tmp |-> NoFile]) /\ GoTo("sync_dir")
       \/ ChangeDir([dir EXCEPT !.path = NoFile]) /\ Return(FALSE)
    /\ UNCHANGED <<content, synced, handle, buffered, dir_fd, counters, readers>>

Rename ==
    /\ wpc = "rename"
    /\ \/ ChangeDir([path |-> dir.tmp, tmp |-> NoFile]) /\ GoTo("sync_dir")
       \/ UNCHANGED <<dir, maybe>> /\ Return(FALSE)
    /\ UNCHANGED <<content, synced, handle, buffered, dir_fd, counters, readers>>

\* Fault: the directory is opened and closed, and not synchronised.
SyncDir_Skipped ==
    /\ wpc = "sync_dir"
    /\ confirmed' = IF dir_fd THEN calls ELSE confirmed
    /\ Return(TRUE)
    /\ UNCHANGED <<disk, handle, buffered, dir_fd, calls, before, crashes, readers>>

\* fsync() of the directory, if it is open.  commit() returns true even when
\* that fails, or when the directory could not be opened: it logs it only.
SyncDir ==
    /\ wpc = "sync_dir"
    /\ \/ dir_fd /\ maybe' = {dir} /\ confirmed' = calls
       \/ UNCHANGED <<maybe, confirmed>>
    /\ Return(TRUE)
    /\ UNCHANGED <<dir, content, synced, handle, buffered, dir_fd, calls, before,
                   crashes, readers>>

\* ~AtomicFileWriter(): an open file is closed, which drains its buffer, and a
\* temporary file that is still there is removed.  exists() and remove() may
\* throw, and a destructor is noexcept: the process is terminated, and the
\* temporary file stays.
RemoveTemp ==
    IF dir.tmp # NoFile
    THEN ChangeDir([dir EXCEPT !.tmp = NoFile])
    ELSE UNCHANGED <<dir, maybe>>

Destroy ==
    /\ wpc = "destroy"
    /\ IF handle # NoFile THEN Drain(buffered) ELSE UNCHANGED content
    /\ handle' = NoFile
    /\ \/ RemoveTemp /\ GoTo("idle")
       \/ UNCHANGED <<dir, maybe>> /\ GoTo("terminated")
    /\ UNCHANGED <<synced, buffered, dir_fd, counters, readers>>

\* Another process goes on with what the terminated one left.
Restart ==
    /\ wpc = "terminated"
    /\ wpc' = "idle"
    /\ ret' = TRUE
    /\ before' = dir.path
    /\ UNCHANGED <<disk, handle, buffered, dir_fd, calls, confirmed, crashes, readers>>

Call ==
    \/ Construct \/ Write \/ LibraryWrites \/ Flush \/ Sync \/ Close
    \/ Rename \/ SyncDir \/ Destroy \/ Restart

-----------------------------------------------------------------------------
(* Crash and reader                                                        *)

\* What a crash may make of an inode: its contents if they are synchronised,
\* otherwise what was synchronised or any part of what was written since.
Survivors(i) ==
    CASE i = NoFile -> {[ver |-> 0, n |-> 0]}
      [] i # NoFile /\ content[i] = synced[i] -> {synced[i]}
      [] OTHER -> {synced[i]} \cup [ver : {content[i].ver}, n : 0..content[i].n]

Crash ==
    /\ crashes < MaxCrashes
    /\ crashes' = crashes + 1
    /\ dir' \in maybe
    /\ maybe' = {dir'}
    /\ \E p \in Survivors(dir'.path), t \in Survivors(dir'.tmp) :
         content' = [i \in Inodes |-> CASE i = dir'.path -> p
                                        [] i = dir'.tmp  -> t
                                        [] OTHER -> synced[i]]
    /\ synced' = content'
    /\ wpc' = "idle"
    /\ handle' = NoFile
    /\ buffered' = 0
    /\ dir_fd' = FALSE
    /\ ret' = TRUE
    /\ before' = dir'.path
    /\ reader' = NoFile
    /\ UNCHANGED <<calls, confirmed, read>>

\* readFileContent(): the file is opened, and read to its end.
ReadOpen ==
    /\ reader = NoFile
    /\ dir.path # NoFile
    /\ reader' = dir.path
    /\ UNCHANGED <<disk, writer, counters, read>>

ReadAll ==
    /\ reader # NoFile
    /\ read' = content[reader]
    /\ reader' = NoFile
    /\ UNCHANGED <<disk, writer, counters>>

Next == Call \/ Crash \/ ReadOpen \/ ReadAll

Spec == Init /\ [][Next]_vars

-----------------------------------------------------------------------------
(* Correctness                                                             *)

Dirs == [path : Inodes \cup {NoFile}, tmp : Inodes \cup {NoFile}]

TypeOK ==
    /\ dir \in Dirs /\ maybe \in SUBSET Dirs
    /\ content \in [Inodes -> Contents] /\ synced \in [Inodes -> Contents]
    /\ calls \in 0..MaxCalls
    /\ wpc \in {"idle", "write", "flush", "sync", "close", "rename",
                "sync_dir", "destroy", "terminated"}
    /\ handle \in Inodes \cup {NoFile}
    /\ buffered \in 0..Size
    /\ dir_fd \in BOOLEAN /\ ret \in BOOLEAN
    /\ before \in Inodes \cup {NoFile}
    /\ confirmed \in -1..MaxCalls
    /\ crashes \in 0..MaxCrashes
    /\ reader \in Inodes \cup {NoFile}
    /\ read \in Contents

\* The file holds a whole version, at any time and after any crash: the data
\* is synchronised before the rename.
PathIsWhole == dir.path # NoFile => Whole(content[dir.path])

\* A reader that opened the file gets a whole version, even when the file is
\* replaced while it reads: a replaced inode is not written any more.
ReaderSeesWhole == Whole(read)

\* file_ is the temporary file or nullptr: no byte of a late fwrite(), and no
\* fclose() in the destructor, reaches a file that was renamed.
HandleIsTemp == handle # NoFile => handle = dir.tmp

\* A call that returned false, threw, or whose destructor terminated the process
\* before it could return false has left the file alone, wherever it failed.
FailureKeepsFile == (wpc \in {"idle", "terminated"} /\ ~ret) => dir.path = before

\* The version in a directory's file.
VersionIn(d) == IF d.path = NoFile THEN -1 ELSE content[d.path].ver

\* Once commit() has returned true and none of its calls failed, no crash brings
\* back an older version: neither in that call's destructor nor in the middle of
\* any later call, whether that succeeds, fails or terminates the process.
CommitSurvives == \A d \in maybe : VersionIn(d) >= confirmed

\* The steps above implement a file that is replaced atomically, and a crash
\* brings back at most a version that was replaced since the directory was
\* last synchronised.
Abstract == INSTANCE AtomicFile
              WITH version <- VersionIn(dir),
                   candidates <- {VersionIn(d) : d \in maybe}

ImplementsAtomicFile == Abstract!Spec
=============================================================================
