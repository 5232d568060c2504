---- MODULE Defaults ----
(***************************************************************************)
(* NSUserDefaults (src/frameworks/foundation/ns_user_defaults.rs): the      *)
(* app's preferences, kept in a dictionary and saved as a property list in  *)
(* Library/Preferences when the app asks for it.                            *)
(***************************************************************************)
EXTENDS Fs

CONSTANTS
    Keys, Values   \* of the preferences

VARIABLES
    app,         \* app_domain_dict, or Unloaded before standardUserDefaults
    registered,  \* registration_domain_dict
    saved        \* history: what synchronize wrote last

defaultsVars == <<fsVars, app, registered, saved>>

Unloaded == [k \in {"unloaded"} |-> "unloaded"]
Empty == [k \in {} |-> "nil"]
PrefsDir == [abs |-> TRUE, comps |-> <<"Library", "Preferences">>]
PlistFile == [abs |-> TRUE, comps |-> <<"Library", "Preferences", "plist">>]

\* NSPropertyListSerialization: a dictionary becomes one file content, and
\* that content is read back as the dictionary; no other content is a plist.
serialize_plist(dict) == <<dict>>
deserialize_plist_from_file(p) ==
    IF p \in DOMAIN disk /\ disk[p] # HostDir /\ Len(data[disk[p]]) = 1
    THEN Head(data[disk[p]]) ELSE Empty

\* standardUserDefaults, the first time: init loads what is on disk.
standardUserDefaults ==
    /\ app = Unloaded
    /\ app' = deserialize_plist_from_file(resolve_path(PlistFile))
    /\ registered' = Empty
    /\ UNCHANGED <<fsVars, saved>>

setObject(k, v) ==
    /\ app # Unloaded
    /\ app' = With(app, k, v)
    /\ UNCHANGED <<fsVars, registered, saved>>

removeObjectForKey(k) ==
    /\ app # Unloaded
    /\ app' = Without(app, k)
    /\ UNCHANGED <<fsVars, registered, saved>>

registerDefaults(k, v) ==
    /\ app # Unloaded
    /\ registered' = With(registered, k, v)
    /\ UNCHANGED <<fsVars, app, saved>>

\* A plausible slip: the directory is taken to be there.
synchronize_without_directory ==
    /\ app # Unloaded
    /\ saved' = app
    /\ LET plist == resolve_path(PlistFile)
       IN  IF ParentIsDir(plist) /\ Room(plist)
           THEN \E i \in Inodes : open_with_options(plist, WRITE, i, FALSE, serialize_plist(app))
           ELSE UNCHANGED fsVars
    /\ UNCHANGED <<app, registered>>

\* synchronize creates the directory if it has gone and overwrites the file,
\* as far as the tree allows both; otherwise nothing is written.
synchronize ==
    /\ app # Unloaded
    /\ LET dir == resolve_path(PrefsDir)
           plist == resolve_path(PlistFile)
           made == IF ~lookup_node(dir) /\ ParentIsDir(dir) /\ tree[Front(dir)].writeable
                   THEN {dir} ELSE {}
           i == IF plist \in DOMAIN disk THEN disk[plist]
                ELSE CHOOSE f \in FreeInodes : \A g \in FreeInodes : f <= g
       IN  IF /\ made # {} \/ (is_dir(dir) /\ tree[dir].writeable)
              /\ lookup_node(plist) => is_file(plist) /\ tree[plist].writeable
           THEN /\ plist \in DOMAIN disk \/ FreeInodes # {}
                /\ disk' = [q \in DOMAIN disk \cup made \cup {plist} |->
                             CASE q = plist -> i [] q \in made \ {plist} -> HostDir
                               [] OTHER -> disk[q]]
                /\ tree' = [q \in DOMAIN tree \cup made \cup {plist} |->
                             CASE q = plist -> File("host", TRUE)
                               [] q \in made \ {plist} -> Directory(TRUE)
                               [] OTHER -> tree[q]]
                /\ data' = [data EXCEPT ![i] = serialize_plist(app)]
                /\ saved' = app
                /\ UNCHANGED <<cwd, open, surprise>>
           ELSE UNCHANGED <<fsVars, saved>>
    /\ UNCHANGED <<app, registered>>

DefaultsRestart ==
    /\ Restart
    /\ app' = Unloaded /\ registered' = Empty
    /\ UNCHANGED saved

DefaultsInit == FsInit /\ app = Unloaded /\ registered = Empty /\ saved = Empty

DefaultsStep ==
    \/ standardUserDefaults
    \/ \E k \in Keys, v \in Values : setObject(k, v) \/ registerDefaults(k, v)
    \/ \E k \in Keys : removeObjectForKey(k)
    \/ synchronize

-----------------------------------------------------------------------------

\* A new start of the app loses nothing but its temporary files; and the
\* preferences that were synchronized last are those that a later start finds,
\* however often it is restarted and even if it removed the directory in
\* between, and what was not synchronized is not there.
RestartKeepsData ==
    [][/\ Restart => FilesKept
       /\ standardUserDefaults => app' = saved]_defaultsVars
====
