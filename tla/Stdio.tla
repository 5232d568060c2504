---- MODULE Stdio ----
(***************************************************************************)
(* C streams (src/libc/stdio.rs) and directory streams                     *)
(* (src/libc/dirent.rs) over file descriptors.  A stream has no buffer of   *)
(* its own, only the characters ungetc pushed back; ungetc also moves the   *)
(* descriptor's offset back, and fgetc moves it forward again.             *)
(***************************************************************************)
EXTENDS PosixIo

CONSTANTS
    Pointers,          \* addresses the allocator can give to FILE and DIR
    MaxHanded,         \* bound: directory entries the app owns
    FreadAfterUngetc   \* does the app call fread or fgets with characters
                       \* pushed back?

VARIABLES
    file_streams,  \* FILE* -> its descriptor, its pushbacks, and (history)
                   \* what the app has read of a bundle file up to here
    open_dirs,     \* DIR* -> the names not read yet, and the entries read
    dirents,       \* how many directory entries are allocated
    handed         \* how many of them scandir has given to the app

stdioVars == <<ioVars, file_streams, open_dirs, dirents, handed>>

Streams == DOMAIN file_streams
Dirs == DOMAIN open_dirs
FreePointers == Pointers \ (Streams \cup Dirs)
FileOf(s) == files[file_streams[s].fd]

\* History is kept for the files nobody can write.
Took(s, bytes) ==
    IF FileOf(s).inode = IpaInode THEN file_streams[s].taken \o bytes ELSE <<>>

NewStream(fd) == [fd |-> fd, pushbacks |-> <<>>, taken |-> <<>>]

\* The modes of fopen: r, r+, w, w+, a, a+.
fopen_modes ==
    {Options(TRUE, plus, FALSE, FALSE, FALSE) : plus \in BOOLEAN}
        \cup {Options(plus, TRUE, FALSE, TRUE, TRUE) : plus \in BOOLEAN}
        \cup {Options(plus, TRUE, TRUE, TRUE, FALSE) : plus \in BOOLEAN}

fopen(path, mode) ==
    /\ mode \in fopen_modes
    /\ \E s \in FreePointers :
        /\ open_direct(path, mode)
        /\ file_streams' =
            IF files' = files THEN file_streams
            ELSE With(file_streams, s, NewStream(Slot(files)))
    /\ UNCHANGED <<open_dirs, dirents, handed>>

\* The characters fread takes from the pushbacks: the last pushed first.
FromPushbacks(s, size) ==
    LET pb == file_streams[s].pushbacks
        n == IF Len(pb) <= size THEN Len(pb) ELSE size
    IN  Reverse(SubSeq(pb, Len(pb) - n + 1, Len(pb)))

fread(s, size) ==
    LET st == file_streams[s]
        pushed == FromPushbacks(s, size)
        rest == size - Len(pushed)
    IN  /\ IsFile(st.fd)
        /\ FreadAfterUngetc \/ st.pushbacks = <<>>
        /\ file_streams' = [file_streams EXCEPT
                ![s].pushbacks = SubSeq(@, 1, Len(@) - Len(pushed)),
                ![s].taken = Took(s, pushed \o BytesRead(FileOf(s), rest))]
        /\ IF rest = 0 THEN UNCHANGED files
           ELSE SetFile(st.fd, AfterRead(FileOf(s), rest))
        /\ UNCHANGED <<fsVars, open_dirs, dirents, handed>>

\* fgets reads single characters until it has size of them, meets a newline
\* (the byte 2) or the end of the file.
fgets(s, size) ==
    LET line == BytesRead(FileOf(s), size)
        newlines == {k \in DOMAIN line : line[k] = 2}
        stop == IF newlines = {} THEN size
                ELSE CHOOSE k \in newlines : \A j \in newlines : k <= j
    IN  IsFile(file_streams[s].fd) /\ file_streams[s].pushbacks = <<>> /\ fread(s, stop)

\* A plausible slip: the offset stays where ungetc put it.
fgetc_not_seeking(s) ==
    LET st == file_streams[s]
    IN  /\ IsFile(st.fd)
        /\ IF st.pushbacks # <<>>
           THEN /\ file_streams' = [file_streams EXCEPT
                        ![s].pushbacks = Front(@), ![s].taken = Took(s, <<Last(st.pushbacks)>>)]
                /\ UNCHANGED files
           ELSE /\ file_streams' = [file_streams EXCEPT ![s].taken = Took(s, BytesRead(FileOf(s), 1))]
                /\ SetFile(st.fd, AfterRead(FileOf(s), 1))
        /\ UNCHANGED <<fsVars, open_dirs, dirents, handed>>

fgetc(s) ==
    LET st == file_streams[s]
    IN  /\ IsFile(st.fd)
        /\ IF st.pushbacks # <<>>
           THEN /\ file_streams' = [file_streams EXCEPT
                        ![s].pushbacks = Front(@), ![s].taken = Took(s, <<Last(st.pushbacks)>>)]
                /\ SetFile(st.fd, Seek(FileOf(s), 1, "CUR"))
           ELSE /\ file_streams' = [file_streams EXCEPT ![s].taken = Took(s, BytesRead(FileOf(s), 1))]
                /\ SetFile(st.fd, AfterRead(FileOf(s), 1))
        /\ UNCHANGED <<fsVars, open_dirs, dirents, handed>>

\* The app gives back the character it read last.
ungetc(s) ==
    LET st == file_streams[s]
    IN  /\ IsFile(st.fd) /\ st.taken # <<>>          \* something was read
        /\ FileOf(s).pos > 0                       \* assertion
        /\ SetFile(st.fd, Seek(FileOf(s), -1, "CUR"))
        /\ file_streams' = [file_streams EXCEPT
                ![s].pushbacks = Append(@, Last(st.taken)), ![s].taken = Front(@)]
        /\ UNCHANGED <<fsVars, open_dirs, dirents, handed>>

\* fseek, fsetpos and rewind: a successful seek drops the pushbacks.
fseek(s, offset, whence) ==
    LET st == file_streams[s]
        moved == Seek(FileOf(s), offset, whence)
    IN  /\ IsFile(st.fd) /\ moved.pos <= Len(Content(st.fd))
        /\ moved # FileOf(s) \/ (offset = 0 /\ whence # "END")
        /\ SetFile(st.fd, moved)
        /\ file_streams' = [file_streams EXCEPT
                ![s].pushbacks = <<>>,
                ![s].taken = IF FileOf(s).inode = IpaInode
                             THEN Slice(IpaBytes, 0, moved.pos) ELSE <<>>]
        /\ UNCHANGED <<fsVars, open_dirs, dirents, handed>>

\* fwrite, fputs and fputc.
fwrite(s, bytes) ==
    /\ IsFile(file_streams[s].fd) /\ FileOf(s).inode # IpaInode
    /\ write_fd(file_streams[s].fd, bytes)
    /\ UNCHANGED <<file_streams, open_dirs, dirents, handed>>

clearerr(s) ==
    /\ clearerr_fd(file_streams[s].fd)
    /\ UNCHANGED <<file_streams, open_dirs, dirents, handed>>

fclose(s) ==
    /\ close(file_streams[s].fd)
    /\ file_streams' = Without(file_streams, s)
    /\ UNCHANGED <<open_dirs, dirents, handed>>

-----------------------------------------------------------------------------
(* Directory streams *)

opendir(path) ==
    LET p == resolve_path(path)
    IN  /\ is_dir(p)
        /\ \E d \in FreePointers :
            open_dirs' = With(open_dirs, d,
                [names |-> {Last(q) : q \in Children(tree, p)}, read |-> 0])
        /\ UNCHANGED <<ioVars, file_streams, dirents, handed>>

\* The names come in the order of a hash map: any that is left.
readdir(d) ==
    /\ \E n \in open_dirs[d].names :
        open_dirs' = [open_dirs EXCEPT ![d].names = @ \ {n}, ![d].read = @ + 1]
    /\ dirents' = dirents + 1
    /\ UNCHANGED <<ioVars, file_streams, handed>>

\* closedir frees the entries and the DIR, and does nothing when called twice.
closedir(d) ==
    /\ IF d \in Dirs
       THEN open_dirs' = Without(open_dirs, d) /\ dirents' = dirents - open_dirs[d].read
       ELSE UNCHANGED <<open_dirs, dirents>>
    /\ UNCHANGED <<ioVars, file_streams, handed>>

\* scandir opens, reads everything, and frees the DIR but not the entries.
scandir(path) ==
    LET p == resolve_path(path)
        n == Cardinality(Children(tree, p))
    IN  /\ is_dir(p) /\ FreePointers # {} /\ handed + n <= MaxHanded
        /\ dirents' = dirents + n
        /\ handed' = handed + n
        /\ UNCHANGED <<ioVars, file_streams, open_dirs>>

\* The app frees an entry that scandir gave it.
FreeEntry ==
    /\ handed > 0
    /\ handed' = handed - 1 /\ dirents' = dirents - 1
    /\ UNCHANGED <<ioVars, file_streams, open_dirs>>

StdioInit ==
    /\ IoInit
    /\ file_streams = <<>> /\ open_dirs = <<>>
    /\ dirents = 0 /\ handed = 0

StreamStep(paths) ==
    \/ \E p \in paths, mode \in Modes : fopen(p, mode)
    \/ \E s \in Streams :
        \/ fread(s, 2) \/ fgets(s, 2)
        \/ fgetc(s) \/ ungetc(s)
        \/ fwrite(s, <<1>>)
        \/ clearerr(s)
        \/ fclose(s)
        \/ \E whence \in {"SET", "CUR", "END"}, off \in -1..1 : fseek(s, off, whence)

DirStep(paths) ==
    \/ \E p \in paths : opendir(p) \/ scandir(p)
    \/ \E d \in Dirs : readdir(d)
    \/ \E d \in Pointers \ Streams : closedir(d)
    \/ FreeEntry

-----------------------------------------------------------------------------
(* Properties *)

\* Reading a stream of the bundle gives the bytes of the file in order, each
\* once, whatever the mix of fgetc, ungetc, fread, fgets and fseek: what the
\* app holds is the file up to the descriptor's offset.  End of file is only
\* reported at the end.  (fread after ungetc breaks it: the offset that ungetc
\* moved back is not moved forward again, src/libc/stdio.rs:147.)
ReadsInOrder ==
    \A s \in Streams :
        IsFile(file_streams[s].fd) /\ FileOf(s).inode = IpaInode =>
            /\ file_streams[s].taken = Slice(IpaBytes, 0, FileOf(s).pos)
            /\ FileOf(s).eof => FileOf(s).pos = Len(IpaBytes)

\* Every directory entry is freed exactly once: the ones allocated are those
\* of the open directory streams and those the app got from scandir.
DirentsAccounted ==
    dirents = handed + FoldFunctionOnSet(+, 0, [d \in Dirs |-> open_dirs[d].read], Dirs)

\* What the app reads from files and directories through the C library's
\* streams is there once and in order, and what these allocate is freed once.
StreamsSound == ReadsInOrder /\ DirentsAccounted

====
