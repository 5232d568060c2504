---- MODULE Launch ----
(***************************************************************************)
(* How touchHLE starts (main in lib.rs, options.rs, Environment::new): the *)
(* command line is read, an app is picked when none is named, the options  *)
(* of two files are applied for the app, the ones of the command line are  *)
(* applied again, the app and its libraries are loaded, their static       *)
(* initializers are run, each library before what depends on it, and the   *)
(* app is entered.                                                         *)
(*                                                                         *)
(* An argument is a pair: a setting and its value, or one of the special   *)
(* arguments.  Settings that a flag can only turn on, or off, are switches; *)
(* the others are given a value.                                           *)
(***************************************************************************)
EXTENDS Integers, Sequences, FiniteSets, SequencesExt, Functions

CONSTANTS
    CommandLines,  \* the argument lists there may be
    PickerArgs,    \* the options that the app picker may add
    OptionFiles,   \* what an options file may hold: a list of lines, or <<NoFile>>
    Graphs,        \* the libraries each binary names, 0 being the app
    AppId          \* the app's identifier

VARIABLES
    cmdline,   \* the arguments, read from the front
    optionArgs,\* option_args: what is applied again
    bundlePath,\* whether an app was named
    opts,      \* Options
    files,     \* what the default and the user's options file hold
    progress,  \* how far the start is
    justInfo,  \* --info was given
    deps,      \* the loaded binaries each binary depends on
    degree,    \* node_in_degrees
    leaves,    \* leaf_nodes
    sorted,    \* sorted_indices
    started    \* the binaries whose initializers have run

launchVars == <<cmdline, optionArgs, bundlePath, opts, files, progress, justInfo, deps, degree,
                leaves, sorted, started>>

graphVars == <<deps, degree, leaves, sorted, started>>

Defaults0 == [scale |-> 1, fullscreen |-> 0, headless |-> 0, popup |-> 1, dump |-> 0]
Settings == {"scale", "fullscreen", "headless", "nopopup", "dump"}
NoFile == [id |-> "-", args |-> <<>>]

\* Whether parse_argument knows the argument, and whether it can read its value.
Known(arg) == arg[1] \in Settings
Valid(arg) == arg[1] = "scale" => arg[2] # 0

\* parse_argument: an option that is given replaces what held before; nothing
\* can be shown without a screen.
Applied(o, arg) ==
    CASE arg[1] = "scale" -> [o EXCEPT !.scale = arg[2]]
      [] arg[1] = "fullscreen" -> [o EXCEPT !.fullscreen = 1]
      [] arg[1] = "headless" -> [o EXCEPT !.headless = 1, !.popup = 0]
      [] arg[1] = "nopopup" -> [o EXCEPT !.popup = 0]
      [] arg[1] = "dump" -> [o EXCEPT !.dump = 1]

Fail == progress' = "error"

---------------------------------------------------------------------------
(* The command line.                                                       *)

Args(p) == progress = p /\ UNCHANGED <<files, graphVars>>

\* One argument of the command line; --args ends the options, --help and
\* --copyright print and end.
ReadArgument ==
    /\ Args("args") /\ cmdline # <<>>
    /\ LET arg == Head(cmdline)
       IN CASE arg[1] = "--args" ->
                  cmdline' = <<>> /\ UNCHANGED <<optionArgs, bundlePath, opts, progress, justInfo>>
            [] arg[1] = "--help" ->
                  progress' = "done" /\ UNCHANGED <<cmdline, optionArgs, bundlePath, opts, justInfo>>
            [] arg[1] = "--info" ->
                  /\ cmdline' = Tail(cmdline) /\ justInfo' = TRUE
                  /\ UNCHANGED <<optionArgs, bundlePath, opts, progress>>
            [] Known(arg) /\ Valid(arg) ->
                  /\ cmdline' = Tail(cmdline)
                  /\ opts' = Applied(opts, arg) /\ optionArgs' = Append(optionArgs, arg)
                  /\ UNCHANGED <<bundlePath, progress, justInfo>>
            [] arg[1] = "path" /\ ~bundlePath ->
                  /\ cmdline' = Tail(cmdline) /\ bundlePath' = TRUE
                  /\ UNCHANGED <<optionArgs, opts, progress, justInfo>>
            [] OTHER ->
                  Fail /\ UNCHANGED <<cmdline, optionArgs, bundlePath, opts, justInfo>>

\* --dump=symbols writes the host's symbols and ends.  Otherwise, without an
\* app on the command line, the picker is shown, which is not possible without
\* a screen; it may fail, and it adds the options chosen.
PickApp ==
    /\ Args("args") /\ cmdline = <<>>
    /\ IF opts.dump = 1 THEN progress' = "done" /\ UNCHANGED <<optionArgs, bundlePath>>
       ELSE IF bundlePath THEN progress' = "bundle" /\ UNCHANGED <<optionArgs, bundlePath>>
       ELSE IF opts.headless = 1 THEN Fail /\ UNCHANGED <<optionArgs, bundlePath>>
       ELSE \/ Fail /\ UNCHANGED <<optionArgs, bundlePath>>
            \/ \E more \in PickerArgs :
                  /\ optionArgs' = optionArgs \o more
                  /\ bundlePath' = TRUE /\ progress' = "bundle"
    /\ UNCHANGED <<cmdline, opts, justInfo>>

\* The bundle is opened, which may fail; --info ends here.
OpenBundle ==
    /\ Args("bundle")
    /\ progress' \in {"error", IF justInfo THEN "done" ELSE "default file"}
    /\ UNCHANGED <<cmdline, optionArgs, bundlePath, opts, justInfo>>

---------------------------------------------------------------------------
(* The files.                                                              *)

\* get_options_from_file: the lines up to the first one for the app; a line
\* without a colon before it is an error, for which the file is passed over.
FileOptions(lines) ==
    LET stops == {i \in DOMAIN lines : lines[i].id \in {AppId, "malformed"}}
        first == CHOOSE i \in stops : \A j \in stops : i <= j
    IN IF stops = {} \/ lines[first].id = "malformed" THEN <<>> ELSE lines[first].args

\* apply_options: the options take effect one by one up to one that is not
\* known or has no valid value, which ends the start.
ApplyFile(p, next) ==
    LET args == FileOptions(files[p])
    IN /\ progress = p
       /\ IF \E i \in DOMAIN args : ~Known(args[i]) \/ ~Valid(args[i])
          THEN Fail /\ UNCHANGED opts
          ELSE opts' = FoldLeft(Applied, opts, args) /\ progress' = next
       /\ UNCHANGED <<cmdline, optionArgs, bundlePath, files, justInfo, graphVars>>

ApplyDefaultFile == ApplyFile("default file", "user file")
ApplyUserFile == ApplyFile("user file", "reapply")

\* The options of the command line and of the picker take effect again.
Reapply ==
    /\ Args("reapply")
    /\ opts' = FoldLeft(Applied, opts, optionArgs)
    /\ progress' = "load"
    /\ UNCHANGED <<cmdline, optionArgs, bundlePath, justInfo>>

---------------------------------------------------------------------------
(* The environment.                                                        *)

BootVars == <<cmdline, optionArgs, bundlePath, opts, files, justInfo>>

Bins == DOMAIN deps

Dependents(b) == {c \in Bins : b \in deps[c]}

\* Environment::new: the memory of the picker's environment is used again and
\* the rest of it dropped; the app and the libraries it names are loaded and
\* linked, the main thread, the arguments and the debugger set up.  Loading
\* may fail, and the order of the binaries is then sought: the ones that
\* depend on none come first, in the order of a hash map.
NewEnvironment ==
    /\ progress = "load"
    /\ \/ Fail /\ UNCHANGED graphVars
       \/ /\ progress' = "sort"
          /\ degree' = [b \in Bins |-> Cardinality(deps[b])]
          /\ leaves' \in SetToSeqs({b \in Bins : deps[b] = {}})
          /\ UNCHANGED <<deps, sorted, started>>
    /\ UNCHANGED BootVars

\* A plausible slip: a dependent is queued with its first dependency.
SortStepEager ==
    /\ progress = "sort" /\ leaves # <<>>
    /\ LET b == Head(leaves)
       IN /\ sorted' = Append(sorted, b)
          /\ degree' = [c \in Bins |-> IF c \in Dependents(b) THEN 0 ELSE degree[c]]
          /\ leaves' = Tail(leaves) \o SetToSortSeq({c \in Dependents(b) : degree[c] > 0}, <)
    /\ UNCHANGED <<deps, started, progress, BootVars>>

\* generate_binary_load_order: one binary is taken from the queue, and the
\* ones for which it was the last dependency join it.
SortStep ==
    /\ progress = "sort" /\ leaves # <<>>
    /\ LET b == Head(leaves)
       IN /\ sorted' = Append(sorted, b)
          /\ degree' = [c \in Bins |-> IF c \in Dependents(b) THEN degree[c] - 1 ELSE degree[c]]
          /\ leaves' = Tail(leaves) \o SetToSortSeq({c \in Dependents(b) : degree[c] = 1}, <)
    /\ UNCHANGED <<deps, started, progress, BootVars>>

\* The queue is empty: binaries that still wait are a cycle, an error.
SortEnd ==
    /\ progress = "sort" /\ leaves = <<>>
    /\ progress' = IF \E b \in Bins : degree[b] > 0 THEN "error" ELSE "initialize"
    /\ UNCHANGED <<graphVars, BootVars>>

\* The static initializers of the next binary are run.
Initialize ==
    /\ progress = "initialize" /\ Len(started) < Len(sorted)
    /\ started' = Append(started, sorted[Len(started) + 1])
    /\ UNCHANGED <<deps, degree, leaves, sorted, progress, BootVars>>

\* All of them have run: the app is entered.
Enter ==
    /\ progress = "initialize" /\ Len(started) = Len(sorted)
    /\ progress' = "running"
    /\ UNCHANGED <<graphVars, BootVars>>

---------------------------------------------------------------------------

LaunchInit ==
    /\ cmdline \in CommandLines /\ optionArgs = <<>> /\ bundlePath = FALSE
    /\ opts = Defaults0 /\ justInfo = FALSE
    /\ files \in [{"default file", "user file"} -> OptionFiles]
    /\ progress = "args"
    /\ deps \in Graphs
    /\ degree = <<>> /\ leaves = <<>> /\ sorted = <<>> /\ started = <<>>

LaunchNext ==
    \/ ReadArgument \/ PickApp \/ OpenBundle
    \/ ApplyDefaultFile \/ ApplyUserFile \/ Reapply
    \/ NewEnvironment \/ SortStep \/ SortEnd \/ Initialize \/ Enter

---------------------------------------------------------------------------

Given(args, name) == {i \in DOMAIN args : args[i][1] = name}

\* The value the last of the arguments gives the setting, or else.
LastGiven(args, name, else) ==
    IF Given(args, name) = {} THEN else
    ELSE args[CHOOSE i \in Given(args, name) : \A j \in Given(args, name) : j <= i][2]

\* "command line options take precedence over file options" (lib.rs:165-167),
\* the user's file over the default one and the picker over all of them: the
\* app runs with the scale hack that the last of these to name one gives.
\* A switch is on when any of them gives it, and no error is shown without a
\* screen, wherever the option came from.
OptionPrecedence ==
    progress \in {"load", "sort", "initialize", "running"} =>
        LET chain == FileOptions(files["default file"]) \o FileOptions(files["user file"])
                       \o optionArgs
        IN /\ opts.scale = LastGiven(chain, "scale", 1)
           /\ (opts.fullscreen = 1) = (Given(chain, "fullscreen") # {})
           /\ opts.headless = 1 => opts.popup = 0

\* "Static initializers for libraries must be run before the initializer in
\* the app binary" (environment.rs): a binary's initializers run after those
\* of every loaded binary it depends on, each once; the app is entered only
\* when all have run, and a cycle is refused before any has.
InitializersInOrder ==
    /\ IsInjective(started)
    /\ \A i \in DOMAIN started : deps[started[i]] \subseteq {started[j] : j \in 1..(i - 1)}
    /\ progress = "running" => Range(started) = Bins

\* The app starts with the options it was given, after all its libraries.
LaunchedAsAsked == OptionPrecedence /\ InitializersInOrder
====
