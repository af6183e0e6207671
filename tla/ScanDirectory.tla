---------------------------- MODULE ScanDirectory ----------------------------
(***************************************************************************)
(* The script examples/scandir.js, which prints the scripts below a        *)
(* directory; scanDirectory of tests/run.js is the same walk.  It asks fs  *)
(* about a path up to four times, and the answers may be about different   *)
(* directory trees.                                                        *)
(*                                                                         *)
(* A definition whose name ends in _somethingWrong is a slip that a        *)
(* property is tested against; Next does not use it.                       *)
(***************************************************************************)
EXTENDS FileSystem, FiniteSets

CONSTANTS
    Scripts     \* the names that match '.js$'

ASSUME ScriptsAssumption == Scripts \subseteq Names

VARIABLES
    stack,      \* the active calls of scanDirectory, the innermost last
    dir,        \* the directory fs.list has open
    printed,    \* the paths printed
    outcome     \* "none", "scanning", "done", or "thrown": an exception ended it

scanVars == <<stack, dir, printed, outcome>>

\* path; the next call; the entries fs.list has found or forEach has left.
Frame == [path : Paths, at : {"exists", "isFile", "isDirectory", "opendir", "readdir", "forEach"},
          entries : Seq(Names \cup {".", ".."})]

Visit(p) == [path |-> p, at |-> "exists", entries |-> <<>>]

ScanInit == stack = <<>> /\ dir = NoDir /\ printed = <<>> /\ outcome = "none"

Top == Last(stack)
At(place) == outcome = "scanning" /\ stack # <<>> /\ Top.at = place
GoOn(place) == stack' = [stack EXCEPT ![Len(stack)].at = place]

\* scanDirectory(system.args[1]).
StartScan ==
    /\ stack' = <<Visit(<<>>)>>
    /\ outcome' = "scanning"
    /\ UNCHANGED <<dir, printed>>

\* scanDirectory returns.
Return ==
    /\ stack' = Front(stack)
    /\ outcome' = IF Len(stack) = 1 THEN "done" ELSE outcome

\* An exception ends all active calls; nobody catches it.
Throw == outcome' = "thrown" /\ UNCHANGED stack

AskExists ==
    /\ At("exists")
    /\ GoOn(IF exists(Top.path) THEN "isFile" ELSE "isDirectory")
    /\ UNCHANGED <<dir, printed, outcome>>

\* fs.isFile(path) && path.match('.js$')
AskIsFile ==
    LET isScript == Top.path # <<>> /\ Last(Top.path) \in Scripts IN
    /\ At("isFile")
    /\ \/ isFile(Top.path) = "thrown" /\ Throw /\ UNCHANGED printed
       \/ /\ isFile(Top.path) = "true" /\ isScript
          /\ printed' = Append(printed, Top.path)
          /\ Return
       \/ /\ isFile(Top.path) # "thrown"
          /\ isFile(Top.path) = "false" \/ ~isScript
          /\ GoOn("isDirectory")
          /\ UNCHANGED <<printed, outcome>>
    /\ UNCHANGED dir

AskIsDirectory_asksAgain ==
    /\ At("isDirectory")
    /\ \/ isDirectory(Top.path) = "thrown" /\ GoOn("exists") /\ UNCHANGED outcome
       \/ isDirectory(Top.path) = "false" /\ Return
       \/ isDirectory(Top.path) = "true" /\ GoOn("opendir") /\ UNCHANGED outcome
    /\ UNCHANGED <<dir, printed>>
AskIsDirectory ==
    /\ At("isDirectory")
    /\ \/ isDirectory(Top.path) = "thrown" /\ Throw
       \/ isDirectory(Top.path) = "false" /\ Return
       \/ isDirectory(Top.path) = "true" /\ GoOn("opendir") /\ UNCHANGED outcome
    /\ UNCHANGED <<dir, printed>>

\* fs.list, from here to its closedir.
OpenDir ==
    /\ At("opendir")
    /\ IF canOpen(Top.path)
       THEN dir' = opendir(Top.path) /\ GoOn("readdir") /\ UNCHANGED outcome
       ELSE Throw /\ UNCHANGED dir
    /\ UNCHANGED printed

ReadDir ==
    /\ At("readdir")
    /\ \E name \in dir.must \cup dir.may :
         /\ dir' = readdir(dir, name)
         /\ stack' = [stack EXCEPT ![Len(stack)].entries =
                         IF Listed(name) THEN Add(@, name) ELSE @]
    /\ UNCHANGED <<printed, outcome>>

CloseDir ==
    /\ At("readdir") /\ canEnd(dir)
    /\ dir' = NoDir
    /\ GoOn("forEach")
    /\ UNCHANGED <<printed, outcome>>

ForEach ==
    /\ At("forEach")
    /\ IF Top.entries = <<>> THEN Return
       ELSE /\ stack' = Append([stack EXCEPT ![Len(stack)].entries = Tail(@)],
                               Visit(Resolve(Top.path, Head(Top.entries))))
            /\ UNCHANGED outcome
    /\ UNCHANGED <<dir, printed>>

Scan ==
    \/ AskExists \/ AskIsFile \/ AskIsDirectory
    \/ OpenDir \/ ReadDir \/ CloseDir \/ ForEach

\* Another process changes the tree, perhaps the directory list has open.
Interfere ==
    /\ \E p \in Paths :
         /\ Change(p)
         /\ dir' = IF At("readdir") THEN EntryChanges(dir, p) ELSE dir
    /\ UNCHANGED <<stack, printed, outcome>>

-----------------------------------------------------------------------------
(* Properties.                                                             *)

\* The tree is a tree, the calls are calls, and what is open is a directory.
ScanTypeOK ==
    /\ IsTree(kind)
    /\ stack \in Seq(Frame)
    /\ dir \in [path : Paths, must : SUBSET (Names \cup {".", ".."}),
                may : SUBSET (Names \cup {".", ".."})]
    /\ printed \in Seq(Paths) /\ outcome \in {"none", "scanning", "done", "thrown"}

\* A script that is there, in directories that are there, all the time.
StableScripts ==
    {p \in Paths \ {<<>>} :
        /\ Last(p) \in Scripts /\ been[p] = {"file"}
        /\ \A q \in Prefixes(p) \ {p} : been[q] = {"directory"}}

Times(p) == Cardinality({i \in DOMAIN printed : printed[i] = p})

\* A scan that comes to its end has printed every script that other processes
\* left alone, and none twice, whatever they did elsewhere in the meantime.
StableScriptsAreFound == outcome = "done" => \A p \in StableScripts : Times(p) = 1

\* Nothing is printed that was no script.  Only what is deleted and created
\* again under its name, or in a directory that is, can be printed twice.
OnlyScriptsArePrinted ==
    \A p \in ToSet(printed) :
        /\ Last(p) \in Scripts /\ "file" \in been[p]
        /\ Times(p) = 1 \/ Prefixes(p) \cap gone # {}

\* The walk goes down: no directory is scanned inside itself.
DirectoriesNest ==
    \A i \in 1 .. Len(stack) - 1 : Parent(stack[i + 1].path) = stack[i].path

\* An exception ends the scan only if the path it is at is not there in the
\* beginning, can not be opened, was deleted after the scan learnt its name, or
\* if stat refuses the path or a directory it is in.
ScanFailsForAReason ==
    outcome = "thrown" =>
        \/ Top.path = <<>> /\ "none" \in been[<<>>]
        \/ "locked" \in been[Top.path]
        \/ Top.path \in gone
        \/ \E q \in Prefixes(Top.path) : "hidden" \in been[q]
==============================================================================
