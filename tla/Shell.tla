-------------------------------- MODULE Shell --------------------------------
(***************************************************************************)
(* The program: main of hammerjs.cpp, from its arguments to its exit, when *)
(* the script it runs is scandir.js.                                       *)
(*                                                                         *)
(* A definition whose name ends in _somethingWrong is a slip that a        *)
(* property is tested against; Next does not use it.                       *)
(***************************************************************************)
EXTENDS ScanDirectory

CONSTANTS
    CommandLines    \* what may follow "hammerjs": options and other words

\* The words of a command line.  Only "scandir.js" and "broken.js" can be
\* opened; the second one is not JavaScript.
Options == {"--debug", "--syntax", "--other"}
Words == {"scandir.js", "broken.js", "missing.js", "directory"} \cup Options

ASSUME CommandLinesAssumption == CommandLines \subseteq Seq(Words)

VARIABLES
    argv,       \* the command line
    i,          \* main's loop: how many words it has looked at
    options,    \* debug and syntax
    inputFile,  \* "null", or the name of the script
    args,       \* system.args
    phase,      \* "options", "open", "compile", "agent", "running" or "exited"
    status,     \* the exit status
    error       \* what was written to stderr

shellVars == <<argv, i, options, inputFile, args, phase, status, error>>
vars == <<fsVars, scanVars, shellVars>>

Init ==
    /\ FSInit /\ ScanInit
    /\ argv \in CommandLines
    /\ i = 0 /\ options = {} /\ inputFile = "null" /\ args = <<>>
    /\ phase = "options" /\ status = 0 /\ error = "none"

\* return, or exit(): nothing is left running.
Exit(code, message) ==
    /\ phase' = "exited" /\ status' = code /\ error' = message

\* args->Set(index, arg): index counts the words that are no options.
SetArg_atArgv(word) ==
    args' = [n \in 1 .. i + 1 |-> IF n = i + 1 THEN word
                                  ELSE IF n \in DOMAIN args THEN args[n] ELSE "undefined"]
SetArg(word) == args' = Append(args, word)

ReadOption ==
    /\ phase = "options" /\ i < Len(argv)
    /\ i' = i + 1
    /\ LET arg == argv[i + 1] IN
         \/ /\ arg \in {"--debug", "--syntax"}
            /\ options' = options \cup {arg}
            /\ UNCHANGED <<inputFile, args, phase, status, error>>
         \/ /\ arg \in Options \ {"--debug", "--syntax"}
            /\ Exit(0, "Unknown option")
            /\ UNCHANGED <<options, inputFile, args>>
         \/ /\ arg \notin Options
            /\ inputFile' = IF inputFile = "null" THEN arg ELSE inputFile
            /\ SetArg(arg)
            /\ UNCHANGED <<options, phase, status, error>>
    /\ UNCHANGED <<argv, fsVars, scanVars>>

\* showUsage exits with 0.
EndOfOptions ==
    /\ phase = "options" /\ i = Len(argv)
    /\ IF inputFile = "null" THEN Exit(0, "none")
       ELSE phase' = "open" /\ UNCHANGED <<status, error>>
    /\ UNCHANGED <<argv, i, options, inputFile, args, fsVars, scanVars>>

\* fopen opens a directory as well, and nothing can be read from it: what buf
\* holds then was never written, and anything may be found there.
OpenScript ==
    /\ phase = "open"
    /\ IF inputFile = "missing.js" THEN Exit(0, "unable to open file")
       ELSE phase' = "compile" /\ UNCHANGED <<status, error>>
    /\ UNCHANGED <<argv, i, options, inputFile, args, fsVars, scanVars>>

\* --syntax prints the tree of the code, and the code does not run.
RunScript ==
    /\ phase = "compile"
    /\ \/ /\ "--syntax" \in options
          /\ Exit(0, "none")
       \/ /\ "--syntax" \notin options /\ inputFile \in {"broken.js", "directory"}
          /\ Exit(0, "unable to run")
       \/ /\ "--syntax" \notin options /\ inputFile = "directory"
          /\ Exit(0, "none")
       \/ /\ "--syntax" \notin options /\ inputFile = "scandir.js"
          /\ phase' = IF "--debug" \in options THEN "agent" ELSE "running"
          /\ UNCHANGED <<status, error>>
    /\ UNCHANGED <<argv, i, options, inputFile, args, fsVars, scanVars>>

\* EnableAgent with wait_for_connection: a debugger connects, or never does.
DebuggerConnects ==
    /\ phase = "agent"
    /\ phase' = "running"
    /\ UNCHANGED <<argv, i, options, inputFile, args, status, error, fsVars, scanVars>>

\* system.exit(-1) unless there are two arguments.
StartScript ==
    /\ phase = "running" /\ outcome = "none"
    /\ IF Len(args) # 2
       THEN Exit(-1, "none") /\ UNCHANGED scanVars
       ELSE StartScan /\ UNCHANGED <<phase, status, error>>
    /\ UNCHANGED <<argv, i, options, inputFile, args, fsVars>>

\* Run returns an empty handle after an exception; main does not look at it.
EndScript ==
    /\ phase = "running" /\ outcome \in {"done", "thrown"}
    /\ Exit(0, "none")
    /\ UNCHANGED <<argv, i, options, inputFile, args, fsVars, scanVars>>

Script == Scan /\ UNCHANGED <<shellVars, fsVars>>

Main ==
    \/ ReadOption \/ EndOfOptions \/ OpenScript \/ RunScript
    \/ StartScript \/ Script \/ EndScript

\* Other processes matter only while the script looks at the directory.
Others == phase = "running" /\ Interfere /\ UNCHANGED shellVars

Next ==
    \/ Main \/ DebuggerConnects \/ Others
    \/ phase = "exited" /\ UNCHANGED vars

\* One thread that runs until it exits.  Nobody has to connect a debugger.
Spec == Init /\ [][Next]_vars /\ WF_vars(Main)

-----------------------------------------------------------------------------
(* Properties.                                                             *)

\* The tree, the calls and main's locals have their types.
TypeOK ==
    /\ ScanTypeOK
    /\ argv \in CommandLines /\ i \in 0 .. Len(argv)
    /\ options \subseteq {"--debug", "--syntax"}
    /\ inputFile \in Words \cup {"null"} /\ args \in Seq(Words)
    /\ phase \in {"options", "open", "compile", "agent", "running", "exited"}
    /\ status \in {0, -1} /\ error \in {"none", "Unknown option", "unable to open file",
                                        "unable to run"}

\* README: "The first string, i.e. args[0], is always the name of the script."
\* The others follow in their order, and no place is left empty, wherever on
\* the command line the options stand.
Arguments(k) == {n \in 1 .. k : argv[n] \notin Options}
ScriptIsFirstArgument ==
    phase \in {"open", "compile", "agent", "running"} =>
        /\ args[1] = inputFile
        /\ Len(args) = Cardinality(Arguments(Len(argv)))
        /\ \A n \in Arguments(Len(argv)) : args[Cardinality(Arguments(n))] = argv[n]

\* A script that has begun ends: the scan of a tree that others change only so
\* often comes to its end or to an exception, and the program exits after both.
ScanEnds == phase = "running" ~> phase = "exited"
==============================================================================
