---- MODULE PosixIo ----
(***************************************************************************)
(* File descriptors (src/libc/posix_io.rs, stat.rs) and NSFileHandle over   *)
(* the guest's file system.  A descriptor has an offset, an end-of-file     *)
(* indicator and a slot in a vector that grows but never shrinks; closing   *)
(* leaves the slot empty for the next open.  pread and pwrite are built     *)
(* from lseek and read or write.                                            *)
(***************************************************************************)
EXTENDS Fs

CONSTANTS
    Modes,     \* the flags the app opens with, as GuestOpenOptions
    MaxFiles,  \* bound: slots of the vector
    MaxLen     \* bound: bytes of a file, offsets

VARIABLE files   \* sequence of slots: a PosixFileHostObject or NoFile

ioVars == <<fsVars, files>>

NoFile == [kind |-> "none"]
Fds == DOMAIN files

\* file_for_fd; the model numbers descriptors from 1, past the standard ones.
IsOpen(fd) == fd \in Fds /\ files[fd] # NoFile
IsFile(fd) == IsOpen(fd) /\ files[fd].kind = "file"
Content(fd) == data[files[fd].inode]

PosixFile(kind, inode, o) ==
    [kind |-> kind, inode |-> inode, pos |-> 0, eof |-> FALSE,
     read |-> o.read, write |-> o.write \/ o.append, append |-> o.append]

\* find_or_create_fd: the first empty slot, or a new one at the end.
Slot(fs) ==
    IF \E k \in DOMAIN fs : fs[k] = NoFile
    THEN CHOOSE k \in DOMAIN fs : fs[k] = NoFile /\ \A j \in 1..(k - 1) : fs[j] # NoFile
    ELSE Len(fs) + 1

Filled(fs, f) ==
    IF Slot(fs) \in DOMAIN fs THEN [fs EXCEPT ![Slot(fs)] = f] ELSE Append(fs, f)

HasSlot == Slot(files) <= MaxFiles

-----------------------------------------------------------------------------

open_direct(path, o) ==
    LET p == resolve_path(path)
    IN  /\ (o.truncate \/ o.create) => (o.write \/ o.append)   \* assertion
        /\ HasSlot
        /\ \/ /\ Room(p)
              /\ \E i \in Inodes \cup {IpaInode} :
                    /\ open_with_options(p, o, i, i # IpaInode, <<>>)
                    /\ files' = Filled(files, PosixFile("file", i, o))
           \/ /\ MayOpenDirectory(p, o)
              /\ files' = Filled(files, PosixFile("dir", IpaInode, o))
              /\ UNCHANGED fsVars
           \/ OpenSurprise(p, o) /\ UNCHANGED files
           \/ OpenFails(p, o) /\ UNCHANGED ioVars

\* stat(): open for reading, look, close.  What remains of it is the slot.
stat(path) ==
    LET p == resolve_path(path)
        o == Options(TRUE, FALSE, FALSE, FALSE, FALSE)
    IN  /\ HasSlot
        /\ MayOpen(p, o) \/ MayOpenDirectory(p, o)
        /\ files' = IF Slot(files) \in DOMAIN files THEN files ELSE Append(files, NoFile)
        /\ UNCHANGED fsVars

close(fd) ==
    /\ IsOpen(fd)
    /\ files' = [files EXCEPT ![fd] = NoFile]
    /\ open' = {files[k].inode : k \in {j \in Fds \ {fd} : IsFile(j)}} \ {IpaInode}
    /\ data' = Forget(data, disk, open')
    /\ UNCHANGED <<tree, cwd, disk, surprise>>

-----------------------------------------------------------------------------
(* Reading, writing and seeking, as functions of the descriptor's record *)

\* Up to n bytes from an offset on.
Slice(bytes, at, n) ==
    SubSeq(bytes, at + 1, IF at + n < Len(bytes) THEN at + n ELSE Len(bytes))

BytesRead(f, size) == IF f.read THEN Slice(data[f.inode], f.pos, size) ELSE <<>>

\* read(): the offset moves by what was read, end of file is set when
\* nothing was left; a descriptor that may not be read gives -1.
AfterRead(f, size) ==
    IF ~f.read THEN f
    ELSE LET n == Len(BytesRead(f, size))
         IN  [f EXCEPT !.pos = @ + n, !.eof = @ \/ (n = 0 /\ size # 0)]

\* The host's write: at the end of the file when appending, otherwise at the
\* offset, with zeros in a gap.
WriteAt(f) == IF f.append THEN Len(data[f.inode]) ELSE f.pos
AfterWrite(f, bytes) ==
    IF ~f.write THEN f ELSE [f EXCEPT !.pos = WriteAt(f) + Len(bytes)]
Written(f, bytes) ==
    LET old == data[f.inode]
        at == WriteAt(f)
        end == at + Len(bytes)
    IN  IF ~f.write THEN old
        ELSE [k \in 1..(IF end > Len(old) THEN end ELSE Len(old)) |->
                CASE k > at /\ k <= end -> bytes[k - at]
                  [] k <= Len(old) /\ (k <= at \/ k > end) -> old[k]
                  [] OTHER -> 0]

\* lseek(): a position below zero gives -1 and changes nothing, any other
\* is taken, past the end too, and clears the end-of-file indicator.
Seek(f, offset, whence) ==
    LET start == CASE whence = "SET" -> 0
                   [] whence = "CUR" -> f.pos
                   [] whence = "END" -> Len(data[f.inode])
    IN  IF start + offset < 0 THEN f
        ELSE [f EXCEPT !.pos = start + offset, !.eof = FALSE]

SetFile(fd, f) == files' = [files EXCEPT ![fd] = f]

read(fd, size) ==
    /\ IsFile(fd)
    /\ SetFile(fd, AfterRead(files[fd], size))
    /\ UNCHANGED fsVars

write_fd(fd, bytes) ==
    /\ IsFile(fd) /\ files[fd].inode # IpaInode
    /\ Len(Written(files[fd], bytes)) <= MaxLen
    /\ SetFile(fd, AfterWrite(files[fd], bytes))
    /\ data' = [data EXCEPT ![files[fd].inode] = Written(files[fd], bytes)]
    /\ UNCHANGED <<tree, cwd, disk, open, surprise>>

lseek(fd, offset, whence) ==
    /\ IsFile(fd)
    /\ Seek(files[fd], offset, whence).pos <= MaxLen
    /\ SetFile(fd, Seek(files[fd], offset, whence))
    /\ UNCHANGED fsVars

\* The offset is asked for, moved, used and put back.
pread(fd, size, offset) ==
    /\ IsFile(fd)
    /\ LET f == files[fd]
           moved == Seek(f, offset, "SET")
       IN  SetFile(fd, Seek(AfterRead(moved, size), f.pos, "SET"))
    /\ UNCHANGED fsVars

pwrite(fd, bytes, offset) ==
    /\ IsFile(fd) /\ files[fd].inode # IpaInode
    /\ LET f == files[fd]
           moved == Seek(f, offset, "SET")
       IN  /\ Len(Written(moved, bytes)) <= MaxLen
           /\ data' = [data EXCEPT ![f.inode] = Written(moved, bytes)]
           /\ SetFile(fd, Seek(AfterWrite(moved, bytes), f.pos, "SET"))
    /\ UNCHANGED <<tree, cwd, disk, open, surprise>>

\* -[NSFileHandle readDataToEndOfFile]: offsetInFile, seekToEndOfFile,
\* seekToFileOffset and readDataOfLength, whose assertion is that all of the
\* asked-for bytes came.
readDataToEndOfFile(fd) ==
    /\ IsFile(fd) /\ files[fd].read
    /\ LET f == files[fd]
           end == Seek(f, 0, "END")
           back == Seek(end, f.pos, "SET")
       IN  end.pos >= f.pos /\ SetFile(fd, AfterRead(back, end.pos - f.pos))
    /\ UNCHANGED fsVars

ftruncate(fd, len) ==
    /\ IsFile(fd) /\ files[fd].inode # IpaInode /\ files[fd].write
    /\ data' = [data EXCEPT ![files[fd].inode] =
                    [k \in 1..len |-> IF k <= Len(@) THEN @[k] ELSE 0]]
    /\ UNCHANGED <<tree, cwd, disk, open, surprise, files>>

clearerr_fd(fd) ==
    /\ IsOpen(fd)
    /\ SetFile(fd, [files[fd] EXCEPT !.eof = FALSE])
    /\ UNCHANGED fsVars

IoInit == FsInit /\ files = <<>>

IoRestart == Restart /\ files' = <<>>

IoStep(paths) ==
    \/ \E p \in paths : stat(p) \/ \E o \in Modes : open_direct(p, o)
    \/ \E fd \in Fds :
        \/ close(fd)
        \/ read(fd, 1)
        \/ write_fd(fd, <<1>>)
        \/ pread(fd, 1, 1)
        \/ pwrite(fd, <<1>>, 1)
        \/ readDataToEndOfFile(fd)
        \/ ftruncate(fd, 1)
        \/ clearerr_fd(fd)
        \/ lseek(fd, 0, "SET") \/ lseek(fd, -1, "CUR") \/ lseek(fd, 1, "CUR") \/ lseek(fd, 0, "END")

====
