----------------------------- MODULE FileSystem -----------------------------
(***************************************************************************)
(* The functions of modules/fs/fs.cpp that ask the operating system about  *)
(* paths: exists, isDirectory, isFile, makeDirectory and list, with the    *)
(* directory tree they look at.  The tree belongs to everyone: other       *)
(* processes, other hammerjs scripts among them, change it between any two *)
(* of these calls and between two entries that list reads.                 *)
(*                                                                         *)
(* A path is the sequence of names below one directory, the empty path.    *)
(* Links have what stat finds at their end; links that make a loop of      *)
(* directories are left out.                                               *)
(*                                                                         *)
(* A definition whose name ends in _somethingWrong is a slip that a        *)
(* property is tested against; Next does not use it.                       *)
(***************************************************************************)
EXTENDS Integers, Sequences, SequencesExt

CONSTANTS
    Names,      \* names of directory entries
    Depth,      \* bound: how many names a path has at most
    Trees,      \* the directory trees to begin with
    MaxChanges  \* bound: how many changes other processes make

Paths == UNION {[1 .. n -> Names] : n \in 0 .. Depth}

\* "other" is neither a file nor a directory.  A "locked" directory can not be
\* opened, and reading a "failing" one may end early.  What is "hidden" has a
\* name, and stat refuses it and all below it: a link to nothing, an entry of a
\* directory that may be read but not searched, a damaged disk.
Directories == {"directory", "locked", "failing"}
Kinds == {"none", "file", "other", "hidden"} \cup Directories

Parent(p) == Front(p)
Children(p) == {q \in Paths : q # <<>> /\ Parent(q) = p}

\* A directory tree: what exists is in a directory.
IsTree(k) ==
    /\ k \in [Paths -> Kinds]
    /\ \A p \in Paths \ {<<>>} : k[p] # "none" => k[Parent(p)] \in Directories \cup {"hidden"}

ASSUME FileSystemAssumption ==
    /\ Depth \in Nat /\ MaxChanges \in Nat
    /\ {".", ".."} \cap Names = {}
    /\ \A k \in Trees : IsTree(k)

VARIABLES
    kind,       \* the directory tree: what every path names
    been,       \* what every path has named since the beginning
    gone,       \* the paths that have been deleted
    changes     \* how many changes other processes have made

fsVars == <<kind, been, gone, changes>>

FSInit ==
    /\ kind \in Trees
    /\ been = [p \in Paths |-> {kind[p]}]
    /\ gone = {} /\ changes = 0

\* The path p names k from now on.
Becomes(p, k) ==
    /\ kind' = [kind EXCEPT ![p] = k]
    /\ been' = [been EXCEPT ![p] = @ \cup {k}]

-----------------------------------------------------------------------------
(* The functions.  isFile and isDirectory throw an exception when stat     *)
(* fails, for whatever reason; exists is false then.                       *)

exists(p) == kind[p] # "none" /\ \A q \in Prefixes(p) : kind[q] # "hidden"

statIs(p, ks) == IF ~exists(p) THEN "thrown" ELSE IF kind[p] \in ks THEN "true" ELSE "false"

isDirectory_orThrows(p) == IF statIs(p, Directories) = "true" THEN "true" ELSE "thrown"
isDirectory(p) == statIs(p, Directories)

isFile_notDirectory(p) == statIs(p, {"file", "other"})
isFile(p) == statIs(p, {"file"})

canMakeDirectory(p) == kind[p] = "none" /\ p # <<>> /\ isDirectory(Parent(p)) = "true"

\* mkdir, or an exception that leaves the tree as it is.
makeDirectory(p) ==
    IF canMakeDirectory(p) THEN Becomes(p, "directory") ELSE UNCHANGED <<kind, been>>

\* list is opendir, readdir_r until it brings nothing, at the end or because it
\* fails, closedir.  An open directory has the entries that readdir_r must still
\* return, and those it may: what was created or deleted meanwhile.  A name that
\* is created anew may come twice.
NoDir == [path |-> <<>>, must |-> {}, may |-> {}]

EntriesOf(p) == {Last(q) : q \in {c \in Children(p) : kind[c] # "none"}}

canOpen(p) == exists(p) /\ kind[p] \in {"directory", "failing"}
opendir(p) == [path |-> p, must |-> EntriesOf(p) \cup {".", ".."}, may |-> {}]

\* d while a name in its directory is created or deleted.
EntryChanges(d, p) ==
    IF p = <<>> \/ Parent(p) # d.path \/ "none" \notin {kind[p], kind'[p]} THEN d
    ELSE [d EXCEPT !.must = @ \ {Last(p)},
                   !.may = IF Last(p) \in d.must \/ kind[p] = "none"
                           THEN @ \cup {Last(p)} ELSE @]

canEnd(d) == d.must = {} \/ kind[d.path] \in {"none", "failing"}
readdir(d, name) == [d EXCEPT !.must = @ \ {name}, !.may = @ \ {name}]

\* strcmp: the directory itself and its parent are not listed.
Listed_itself(name) == name # ".."
Listed(name) == name \notin {".", ".."}

\* entries->Set(count++, name).
Add_sameIndex(entries, name) == <<name>>
Add(entries, name) == Append(entries, name)

\* path + fs.pathSeparator + name, as the operating system resolves it.
\* Without the separator it is a name beside the directory.
Resolve_noSeparator(p, name) == Append(Parent(p), "pathname")
Resolve(p, name) ==
    CASE name = "." -> p
      [] name = ".." /\ p # <<>> -> Parent(p)
      [] OTHER -> Append(p, name)

-----------------------------------------------------------------------------
(* What other processes do.                                                *)

Create(p, k) ==
    /\ canMakeDirectory(p)
    /\ IF k = "directory" THEN makeDirectory(p) ELSE Becomes(p, k)
    /\ UNCHANGED gone

\* unlink and rmdir: a directory has to be empty.
Delete(p) ==
    /\ kind[p] # "none" /\ p # <<>>
    /\ \A q \in Children(p) : kind[q] = "none"
    /\ Becomes(p, "none")
    /\ gone' = gone \cup {p}

\* chmod, a link that loses or finds its target, a disk that fails: the name
\* stays, and so does all that is below it.
Alter(p) ==
    /\ kind[p] # "none"
    /\ \E k \in Kinds \ {"none", kind[p]} :
         /\ "hidden" \in {kind[p], k} \/ {kind[p], k} \subseteq Directories
         /\ (\E q \in Children(p) : kind[q] # "none") => k \in Directories \cup {"hidden"}
         /\ Becomes(p, k)
    /\ UNCHANGED gone

Change(p) ==
    /\ changes < MaxChanges
    /\ changes' = changes + 1
    /\ \/ Delete(p)
       \/ Alter(p)
       \/ \E k \in {"file", "directory"} : Create(p, k)
=============================================================================
