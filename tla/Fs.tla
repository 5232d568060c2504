---- MODULE Fs ----
(***************************************************************************)
(* The guest's file system (src/fs.rs) over the host's.  The guest sees a  *)
(* tree of nodes built once, when the app starts; every file a program    *)
(* may write has its bytes in a host file.  Opening, renaming, removing    *)
(* and creating decide everything from the tree and treat a host that      *)
(* disagrees as an error of the emulator: handle_open_err panics.          *)
(*                                                                         *)
(* The fixed read-only directories above the app's home are collapsed      *)
(* into the root.  A host file is an inode, so that a descriptor keeps its *)
(* file when the name is removed or renamed over.                          *)
(***************************************************************************)
EXTENDS Integers, Sequences, FiniteSets, SequencesExt

CONSTANTS
    Documents,    \* files found in Documents at the first start: path -> bytes
    Inodes,       \* inodes the host can give out
    IpaBytes,     \* the content of the one file in the bundle
    SelfRename    \* does the app ever rename a file to itself?

ASSUME FsAssumption ==
    /\ Inodes \subseteq Nat \ {0}
    /\ IsFiniteSet(DOMAIN Documents) /\ 1..Cardinality(DOMAIN Documents) \subseteq Inodes
    /\ \A p \in DOMAIN Documents : /\ Len(p) = 2 /\ p[1] = "Documents"
                                   /\ Documents[p] \in Seq(Nat)
    /\ IpaBytes \in Seq(Nat)
    /\ SelfRename \in BOOLEAN

VARIABLES
    tree,   \* root: resolved path -> node
    cwd,    \* working_directory, resolved
    disk,   \* the host's sandbox directory: path -> an inode, or HostDir
    data,   \* inode -> its bytes
    open,   \* inodes held open by a descriptor
    surprise  \* has handle_open_err met a host error?

fsVars == <<tree, cwd, disk, data, open, surprise>>

IpaInode == 0
HostDir == -1   \* what disk has for a directory
Sandbox == {"Documents", "Library", "tmp"}

\* FsNode::File and FsNode::Directory.  A writeable node's host path is the
\* path it has in the tree, below the sandbox directory.
File(location, writeable) ==
    [kind |-> "file", location |-> location, writeable |-> writeable]
Directory(writeable) ==
    [kind |-> "dir", location |-> "none", writeable |-> writeable]

\* The parts of the layout that Fs::new makes up and the app cannot change:
\* the bundle (here a ZIP archive) and the libraries shipped as resources.
ReadOnlyTree ==
    [p \in {<<>>, <<"App">>, <<"App", "x">>, <<"lib">>} |->
        CASE p = <<"App", "x">> -> File("ipa", FALSE)
          [] p = <<"lib">> -> File("resource", FALSE)
          [] OTHER -> Directory(FALSE)]

from_host_dir(host) ==
    [p \in DOMAIN host |->
        IF host[p] = HostDir THEN Directory(TRUE) ELSE File("host", TRUE)]

\* Fs::new empties tmp and makes sure that the sandbox directories and
\* Library/Preferences exist on the host.
Prepared(host) ==
    LET kept == {p \in DOMAIN host : p[1] # "tmp"}
        made == {<<s>> : s \in Sandbox} \cup {<<"Library", "Preferences">>}
    IN  [p \in kept \cup made |-> IF p \in kept THEN host[p] ELSE HostDir]

new(host) ==
    LET below == from_host_dir(Prepared(host))
    IN  [p \in DOMAIN ReadOnlyTree \cup DOMAIN below |->
            IF p \in DOMAIN below THEN below[p] ELSE ReadOnlyTree[p]]

-----------------------------------------------------------------------------
(* Paths *)

apply_path_component(components, component) ==
    CASE component \in {"", "."} -> components
      [] component = ".." -> IF components = <<>> THEN <<>> ELSE Front(components)
      [] OTHER -> Append(components, component)

\* A guest path is [abs: BOOLEAN, comps: Seq(name)].
resolve_path(path) ==
    FoldLeft(apply_path_component, IF path.abs THEN <<>> ELSE cwd, path.comps)

lookup_node(p) == p \in DOMAIN tree
is_file(p) == lookup_node(p) /\ tree[p].kind = "file"
is_dir(p) == lookup_node(p) /\ tree[p].kind = "dir"

\* lookup_parent_node found a node, and it is a directory.
ParentIsDir(p) == p # <<>> /\ is_dir(Front(p))

Children(t, p) == {q \in DOMAIN t : q # <<>> /\ Front(q) = p}

-----------------------------------------------------------------------------
(* What the host does (std::fs) *)

Options(read, write, append, create, truncate) ==
    [read |-> read, write |-> write, append |-> append,
     create |-> create, truncate |-> truncate]

\* File::options().open(): appending and truncating do not go together, a
\* directory is not opened, a missing file only appears with create.
HostOpens(p, o) ==
    /\ ~(o.append /\ o.truncate)
    /\ IF p \in DOMAIN disk
       THEN disk[p] # HostDir
       ELSE o.create /\ Front(p) \in DOMAIN disk /\ disk[Front(p)] = HostDir

FreeInodes == {i \in Inodes : i \notin open /\ \A p \in DOMAIN disk : disk[p] # i}

\* The host forgets the bytes of an inode without a name or a descriptor.
Forget(d, host, held) ==
    [i \in DOMAIN d |->
        IF i # IpaInode /\ i \notin held /\ (\A p \in DOMAIN host : host[p] # i)
        THEN <<>> ELSE d[i]]

Without(f, p) == [q \in DOMAIN f \ {p} |-> f[q]]
With(f, p, v) == [q \in DOMAIN f \cup {p} |-> IF q = p THEN v ELSE f[q]]

Surprised ==
    /\ surprise' = TRUE
    /\ UNCHANGED <<tree, cwd, disk, data, open>>

-----------------------------------------------------------------------------
(* Opening *)

WRITE == Options(FALSE, TRUE, FALSE, TRUE, TRUE)

\* An existing file of the tree that the options may open.
MayOpen(p, o) ==
    is_file(p) /\ ParentIsDir(p) /\ (tree[p].writeable \/ ~(o.append \/ o.write))

\* A missing file that the options may create.
MayCreate(p, o) ==
    /\ ParentIsDir(p) /\ ~lookup_node(p)
    /\ o.create /\ tree[Front(p)].writeable

MayOpenDirectory(p, o) == ParentIsDir(p) /\ is_dir(p) /\ ~o.write

OpenFails(p, o) == ~MayOpen(p, o) /\ ~MayCreate(p, o) /\ ~MayOpenDirectory(p, o)

\* open_with_options gives a file whose inode is i; hold says whether the
\* caller keeps the GuestFile or drops it at once.
open_with_options(p, o, i, hold, newData) ==
    /\ MayOpen(p, o) \/ MayCreate(p, o)
    /\ (is_file(p) /\ tree[p].location # "host") \/ HostOpens(p, o)
    /\ i = CASE is_file(p) /\ tree[p].location # "host" -> IpaInode
             [] p \in DOMAIN disk -> disk[p]
             [] OTHER -> CHOOSE f \in FreeInodes : \A g \in FreeInodes : f <= g
    /\ i \in DOMAIN data
    /\ disk' = IF i = IpaInode THEN disk ELSE With(disk, p, i)
    /\ tree' = IF is_file(p) THEN tree ELSE With(tree, p, File("host", TRUE))
    /\ data' = [data EXCEPT ![i] = IF o.truncate THEN newData ELSE @]
    /\ open' = IF hold THEN open \cup {i} ELSE open
    /\ UNCHANGED <<cwd, surprise>>

OpenSurprise(p, o) ==
    /\ MayOpen(p, o) \/ MayCreate(p, o)
    /\ ~(is_file(p) /\ tree[p].location # "host") /\ ~HostOpens(p, o)
    /\ Surprised

\* Creating is only possible while the host has an inode left (a bound).
Room(p) == p \in DOMAIN disk \/ is_file(p) \/ FreeInodes # {}

\* Fs::write: open for writing with create and truncate, then write_all.
write(path, bytes) ==
    LET p == resolve_path(path)
    IN  \/ Room(p) /\ \E i \in Inodes : open_with_options(p, WRITE, i, FALSE, bytes)
        \/ Room(p) /\ OpenSurprise(p, WRITE)

-----------------------------------------------------------------------------
(* Renaming, removing, creating directories, changing directory *)

\* A plausible slip: the old name's node stays.
rename_keeping_node(from, to) ==
    LET f == resolve_path(from)
        t == resolve_path(to)
    IN  /\ is_file(f) /\ tree[f].location = "host" /\ f # t
        /\ (is_file(t) /\ tree[t].location = "host") \/ MayCreate(t, WRITE)
        /\ disk' = With(Without(disk, f), t, disk[f])
        /\ tree' = With(tree, t, File("host", TRUE))
        /\ data' = Forget(data, disk', open)
        /\ UNCHANGED <<cwd, open, surprise>>

\* A host file may be renamed over another one; the node of the old name
\* goes, the new name's node is there already or has just been created.
rename(from, to) ==
    LET f == resolve_path(from)
        t == resolve_path(to)
    IN  /\ is_file(f) /\ tree[f].location = "host" /\ tree[f].writeable
        /\ SelfRename \/ f # t
        /\ \/ /\ \/ is_file(t) /\ tree[t].location = "host"
                 \/ MayCreate(t, WRITE) /\ HostOpens(t, WRITE)
              /\ f \in DOMAIN disk
              /\ disk' = IF f = t THEN disk ELSE With(Without(disk, f), t, disk[f])
              /\ tree' = Without(With(tree, t, File("host", TRUE)), f)
              /\ data' = Forget(data, disk', open)
              /\ UNCHANGED <<cwd, open, surprise>>
           \/ MayCreate(t, WRITE) /\ ~HostOpens(t, WRITE) /\ Surprised

remove(path) ==
    LET p == resolve_path(path)
    IN  /\ ParentIsDir(p) /\ tree[Front(p)].writeable
        /\ lookup_node(p) /\ tree[p].writeable
        /\ is_dir(p) => Children(tree, p) = {}
        /\ IF /\ p \in DOMAIN disk
              /\ (disk[p] = HostDir) = is_dir(p)
              /\ is_dir(p) => Children(disk, p) = {}
           THEN /\ disk' = Without(disk, p)
                /\ tree' = Without(tree, p)
                /\ data' = Forget(data, disk', open)
                /\ UNCHANGED <<cwd, open, surprise>>
           ELSE Surprised

create_dir(path) ==
    LET p == resolve_path(path)
    IN  /\ ParentIsDir(p) /\ tree[Front(p)].writeable
        /\ ~lookup_node(p)
        /\ IF p \notin DOMAIN disk /\ Front(p) \in DOMAIN disk
           THEN /\ disk' = With(disk, p, HostDir)
                /\ tree' = With(tree, p, Directory(TRUE))
                /\ UNCHANGED <<cwd, data, open, surprise>>
           ELSE Surprised

\* create_dir_all walks an absolute path from the root and creates what is
\* missing; it stops at the first component that it cannot create.
create_dir_all(path) ==
    LET p == resolve_path(path)
        prefix(n) == SubSeq(p, 1, n)
        missing == {n \in 1..Len(p) : ~lookup_node(prefix(n))}
        first == CHOOSE n \in missing : \A m \in missing : n <= m
        made == {prefix(n) : n \in missing}
    IN  /\ path.abs /\ missing # {}
        /\ ParentIsDir(prefix(first)) /\ tree[prefix(first - 1)].writeable
        /\ IF \A q \in made : q \notin DOMAIN disk
           THEN /\ disk' = [q \in DOMAIN disk \cup made |->
                                IF q \in made THEN HostDir ELSE disk[q]]
                /\ tree' = [q \in DOMAIN tree \cup made |->
                                IF q \in made THEN Directory(TRUE) ELSE tree[q]]
                /\ UNCHANGED <<cwd, data, open, surprise>>
           ELSE Surprised

change_working_directory(path) ==
    /\ is_dir(resolve_path(path))
    /\ cwd' = resolve_path(path)
    /\ UNCHANGED <<tree, disk, data, open, surprise>>

\* -[NSFileManager copyItemAtPath:toPath:error:]: the source is read whole,
\* then written as Fs::write does.
copyItemAtPath(src, dst) ==
    LET s == resolve_path(src)
    IN  /\ is_file(s) /\ tree[s].location # "resource"
        /\ IF tree[s].location = "host"
           THEN s \in DOMAIN disk /\ disk[s] # HostDir /\ write(dst, data[disk[s]])
           ELSE write(dst, data[IpaInode])

\* -[NSFileManager createFileAtPath:contents:attributes:] leaves a file that
\* is already there alone.
createFileAtPath(path, bytes) == ~is_file(resolve_path(path)) /\ write(path, bytes)

\* The process ends and is started again: the tree is built anew from what
\* the host has, the working directory is the root, nothing is open.
Restart ==
    /\ disk' = Prepared(disk)
    /\ tree' = new(disk)
    /\ data' = Forget(data, disk', {})
    /\ cwd' = <<>>
    /\ open' = {}
    /\ UNCHANGED surprise

FsInit ==
    LET names == SetToSeq(DOMAIN Documents)
        host == [p \in DOMAIN Documents |-> CHOOSE i \in 1..Len(names) : names[i] = p]
    IN  /\ disk = Prepared(host)
        /\ tree = new(host)
        /\ data = [i \in Inodes \cup {IpaInode} |->
                    CASE i = IpaInode -> IpaBytes
                      [] i \in 1..Len(names) -> Documents[names[i]]
                      [] OTHER -> <<>>]
        /\ cwd = <<>>
        /\ open = {}
        /\ surprise = FALSE

FsStep(paths) ==
    \E p \in paths :
        \/ write(p, <<1>>)
        \/ remove(p)
        \/ create_dir(p)
        \/ create_dir_all(p)
        \/ change_working_directory(p)
        \/ createFileAtPath(p, <<2>>)
        \/ \E q \in paths : rename(p, q) \/ copyItemAtPath(p, q)

-----------------------------------------------------------------------------
(* Properties *)

\* What the guest can see below the sandbox directories and what the host
\* has are the same names of the same kinds: a file that only one side knows
\* would be unreachable, or would make a later call panic (src/fs.rs:343-347,
\* "the guest filesystem contains all the information needed").
HostAgrees ==
    /\ \A p \in DOMAIN tree : tree[p].writeable =>
            p \in DOMAIN disk /\ (disk[p] = HostDir <=> is_dir(p))
    /\ DOMAIN disk \subseteq DOMAIN tree

\* The host never refuses what the tree allowed: handle_open_err does not
\* panic in open_with_options, remove or create_dir.
NoHostSurprise == ~surprise

\* The guest's tree and the host's files stay one, through every sequence of
\* calls: neither side has what the other does not know, nor refuses it.
TreeIsHost == HostAgrees /\ NoHostSurprise

\* Starting the app again loses nothing but the temporary files: every other
\* file the guest saw is there with the same bytes, and nothing else appears.
FilesKept ==
    LET old == {p \in DOMAIN tree : p = <<>> \/ p[1] # "tmp"}
        now == {p \in DOMAIN tree' : p = <<>> \/ p[1] # "tmp"}
    IN  /\ old \subseteq now
        /\ now \ old \subseteq {<<"Library">>, <<"Library", "Preferences">>, <<"Documents">>}
        /\ \A p \in old : is_file(p) /\ tree[p].location = "host" =>
                /\ disk'[p] = disk[p]
                /\ data'[disk[p]] = data[disk[p]]

====
