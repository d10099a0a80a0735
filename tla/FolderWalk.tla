------------------------------- MODULE FolderWalk -------------------------------
(***************************************************************************)
(* The walk over the captures below a path (windows/windows.hpp):          *)
(* dir_files of the command line, which looks at one folder and at files   *)
(* with the archive attribute, and dir_files_recursive of the window,      *)
(* which goes into subfolders, takes every file and polls is_running().    *)
(*                                                                         *)
(* A path is the sequence of its names, and a call a frame of `stack'.     *)
(* FindFirstFile finds every path but the root of a drive, so that the     *)
(* listing of a folder that was found begins with the entries "." and "..".*)
(* The other thread can take `running' down between any two steps.         *)
(***************************************************************************)
EXTENDS Integers, Sequences, FiniteSets

CONSTANTS
    Attributes,   \* of the paths that exist: subsets of {"ARCHIVE", "DIRECTORY"}
    Entries       \* what a folder lists

\* Sleep takes the delay for unsigned: this one is INFINITE.
Forever == -1

VARIABLES
    running,   \* replay_data::started as the walk sees it
    stack,     \* the calls, the innermost last
    finds,     \* find handles that are open
    begun      \* the captures handed to do_action, and whether the flag was
               \* down by then

walkVars == <<running, stack, finds, begun>>

Dots == {".", ".."}
IsDirectory(path) == "DIRECTORY" \in Attributes[path]
IsArchive(path) == "ARCHIVE" \in Attributes[path]

\* A disk holds finitely many paths; a folder lists the dots and what is in it.
ASSUME TreeAssumption ==
    /\ IsFiniteSet(DOMAIN Attributes)
    /\ DOMAIN Attributes \subseteq Seq(STRING) \ {<< >>}
    /\ \A path \in DOMAIN Attributes : IsDirectory(path) =>
         /\ Entries[path] \in Seq(STRING) \ {<< >>}
         /\ Head(Entries[path]) \in Dots
         /\ \A i \in DOMAIN Entries[path] :
              Entries[path][i] \in Dots \/ Append(path, Entries[path][i]) \in DOMAIN Attributes

Top == stack[Len(stack)]
Up == SubSeq(stack, 1, Len(stack) - 1)
Move(frame) == stack' = Append(Up, frame)

Call(path, recursive, delay) ==
    [path |-> path, recursive |-> recursive, delay |-> delay, at |-> "enter",
     rest |-> << >>, file |-> path]

WalkInit ==
    /\ running = TRUE
    /\ stack = << >>
    /\ finds = 0
    /\ begun = << >>

\* The flag is left to the loop over the selection.
Signalled_Never == TRUE

\* is_running(); dir_files has no such test.
Signalled == ~Top.recursive \/ running

\* return without FindClose
Abandon == stack' = Up /\ UNCHANGED <<running, finds, begun>>

\* The head of a call up to FindFirstFile, which tells a file from a folder.
Enter ==
    /\ stack # << >>
    /\ Top.at = "enter"
    /\ IF ~Signalled \/ Top.path \notin DOMAIN Attributes
         THEN Abandon
         ELSE /\ finds' = finds + 1
              /\ Move([Top EXCEPT !.at = "first"])
              /\ UNCHANGED <<running, begun>>

\* A file without the archive attribute is not taken, as it once was.
Takes_Archive(path) == IsArchive(path)

\* Whether a call takes what it found for a capture.
Takes(path) == IF Top.recursive THEN ~IsDirectory(path) ELSE IsArchive(path)

\* A path that is a capture itself.
FirstFile ==
    /\ stack # << >>
    /\ Top.at = "first"
    /\ Takes(Top.path)
    /\ IF Signalled
         THEN Move([Top EXCEPT !.at = "sleep"]) /\ UNCHANGED <<running, finds, begun>>
         ELSE Abandon

\* A path that is a folder: its listing is opened, and the first entry of it
\* dropped.  A file without the archive attribute is nothing to dir_files.
FirstFolder ==
    /\ stack # << >>
    /\ Top.at = "first"
    /\ ~Takes(Top.path)
    /\ IF IsDirectory(Top.path)
         THEN /\ Move([Top EXCEPT !.at = "next", !.rest = Tail(Entries[Top.path])])
              /\ UNCHANGED finds
         ELSE stack' = Up /\ finds' = finds - 1
    /\ UNCHANGED <<running, begun>>

\* The end of a listing, with the handle left open.
EndListing_Open ==
    /\ stack # << >>
    /\ Top.at = "next"
    /\ Top.rest = << >>
    /\ stack' = Up
    /\ UNCHANGED <<running, finds, begun>>

\* FindNextFile finds no more: FindClose, return.
EndListing ==
    /\ stack # << >>
    /\ Top.at = "next"
    /\ Top.rest = << >>
    /\ stack' = Up
    /\ finds' = finds - 1
    /\ UNCHANGED <<running, begun>>

\* An entry of a folder: passed over, taken for a capture, or gone into.  What
\* dir_files sees of "." and ".." has no archive attribute.
NextEntry ==
    /\ stack # << >>
    /\ Top.at = "next"
    /\ Top.rest # << >>
    /\ LET found == Append(Top.path, Head(Top.rest))
           after == [Top EXCEPT !.rest = Tail(@), !.file = found]
       IN  IF ~Signalled THEN Abandon
           ELSE /\ IF Head(Top.rest) \in Dots \/ (~Top.recursive /\ ~IsArchive(found))
                     THEN Move(after)
                     ELSE IF Takes(found) THEN Move([after EXCEPT !.at = "entry"])
                     ELSE stack' = Append(Append(Up, after), Call(found, TRUE, 0))
                /\ UNCHANGED <<running, finds, begun>>

\* The second test, before the delay.
EntryFile ==
    /\ stack # << >>
    /\ Top.at = "entry"
    /\ IF Signalled
         THEN Move([Top EXCEPT !.at = "sleep"]) /\ UNCHANGED <<running, finds, begun>>
         ELSE Abandon

\* sleep(delay), then action.do_action(file), whatever became of the flag.
Begin ==
    /\ stack # << >>
    /\ Top.at = "sleep"
    /\ Top.delay # Forever
    /\ begun' = Append(begun, [path |-> Top.file, late |-> ~running])
    /\ IF Top.file = Top.path
         THEN stack' = Up /\ finds' = finds - 1
         ELSE Move([Top EXCEPT !.at = "next"]) /\ UNCHANGED finds
    /\ UNCHANGED running

WalkStep ==
    \/ Enter \/ FirstFile \/ FirstFolder \/ EndListing \/ NextEntry \/ EntryFile
=============================================================================
