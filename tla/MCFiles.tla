---- MODULE MCFiles ----
(***************************************************************************)
(* The file system with everything that sits on it, for TLC.  An app uses   *)
(* one interface in a behaviour (chosen by part), together with the calls   *)
(* that change the tree under it where these interact.                     *)
(***************************************************************************)
EXTENDS Stdio, Defaults

CONSTANT Parts
VARIABLE part

allVars == <<stdioVars, app, registered, saved, part>>

Abs(comps) == [abs |-> TRUE, comps |-> comps]
Rel(comps) == [abs |-> FALSE, comps |-> comps]

TreePaths ==
    {Abs(<<"Documents", "a">>), Abs(<<"Documents", "d">>),
     Abs(<<"Documents", "d", "a">>), Abs(<<"tmp", "a">>),
     Abs(<<"App", ".", "x">>), Rel(<<"..", "d">>)}
FilePaths == {Abs(<<"Documents", "a">>), Abs(<<"App", "", "x">>)}
DirPaths == {Abs(<<"Documents">>), Abs(<<"Documents", "b">>)}

MCDocuments == [p \in {<<"Documents", "a">>} |-> <<1, 2>>]
MCIpaBytes == <<1, 2, 3>>

MCModes ==
    {Options(TRUE, FALSE, FALSE, FALSE, FALSE), Options(TRUE, TRUE, FALSE, TRUE, TRUE),
     Options(TRUE, TRUE, TRUE, TRUE, FALSE)}

Init ==
    /\ StdioInit /\ DefaultsInit
    /\ part \in Parts

\* A new start of the emulator, in which nothing of the old process is left.
StartAgain ==
    /\ IoRestart /\ DefaultsRestart
    /\ file_streams' = <<>> /\ open_dirs' = <<>>
    /\ dirents' = 0 /\ handed' = 0

others == <<file_streams, open_dirs, dirents, handed, app, registered, saved>>

Next ==
    /\ UNCHANGED part
    /\ \/ /\ part = "tree"
          /\ FsStep(TreePaths)
          /\ UNCHANGED <<files, others>>
       \/ /\ part = "descriptors"
          /\ \/ IoStep({Abs(<<"Documents", "a">>)})
             \/ remove(Abs(<<"Documents", "a">>)) /\ UNCHANGED files
          /\ UNCHANGED others
       \/ /\ part = "streams"
          /\ StreamStep(FilePaths)
          /\ UNCHANGED <<app, registered, saved>>
       \/ /\ part = "directories"
          /\ \/ DirStep(DirPaths)
             \/ /\ \E p \in DirPaths : write(p, <<1>>) \/ remove(p)
                /\ UNCHANGED <<files, file_streams, open_dirs, dirents, handed>>
          /\ UNCHANGED <<app, registered, saved>>
       \/ /\ part = "defaults"
          /\ DefaultsStep \/ (remove(PrefsDir) /\ UNCHANGED <<app, registered, saved>>)
          /\ UNCHANGED <<files, file_streams, open_dirs, dirents, handed>>
       \/ StartAgain

Spec == Init /\ [][Next]_allVars

====
