----------------------------- MODULE DirTracker -----------------------------
(***************************************************************************)
(* applications/fs-monitor: NewTracker walks a directory tree and adds a   *)
(* watch to every directory; Run then logs the events the watches report.  *)
(* Meanwhile other processes create and remove directories.                *)
(***************************************************************************)
EXTENDS FiniteSets

CONSTANTS
  Dirs,      \* paths of directories
  Root,      \* the directory the command is given
  Parent     \* the directory each other path lies in

VARIABLES
  fs,        \* the directories that exist
  tracker,   \* "walk", "run" or "failed"
  todo,      \* directories listed, not yet visited by the walk
  reading,   \* directories visited, not yet listed
  watched,   \* directories with a watch
  events,    \* created directories whose event is not yet handled
  logged     \* those whose event was logged

vars == <<fs, tracker, todo, reading, watched, events, logged>>

Children(d) == {e \in Dirs \ {Root} : Parent[e] = d}

Init ==
  /\ fs \in {S \in SUBSET Dirs : Root \in S /\ \A d \in S \ {Root} : Parent[d] \in S}
  /\ tracker = "walk"
  /\ todo = {Root}
  /\ reading = {}
  /\ watched = {}
  /\ events = {}
  /\ logged = {}

-----------------------------------------------------------------------------
\* A directory is created, which the watch on its parent reports,
Mkdir(d) ==
  /\ d \notin fs /\ d # Root /\ Parent[d] \in fs
  /\ fs' = fs \cup {d}
  /\ events' = IF Parent[d] \in watched THEN events \cup {d} ELSE events
  /\ UNCHANGED <<tracker, todo, reading, watched, logged>>

\* or removed, and its watch with it.  What is remembered of it goes too.
Rmdir(d) ==
  /\ d \in fs \ {Root}
  /\ Children(d) \cap fs = {}
  /\ fs' = fs \ {d}
  /\ watched' = watched \ {d}
  /\ events' = events \ {d}
  /\ logged' = logged \ {d}
  /\ UNCHANGED <<tracker, todo, reading>>

\* Slip: the walk watches the root alone.
AddRootOnly(d) ==
  /\ tracker = "walk"
  /\ d \in todo
  /\ todo' = todo \ {d}
  /\ IF d \in fs
       THEN /\ watched' = IF d = Root THEN {d} ELSE watched
            /\ reading' = reading \cup {d} /\ UNCHANGED tracker
       ELSE tracker' = "failed" /\ UNCHANGED <<watched, reading>>
  /\ UNCHANGED <<fs, events, logged>>

\* filepath.WalkDir calls the function on a directory, which adds the watch;
\* for one that is gone it fails, and the whole walk with it.
Add(d) ==
  /\ tracker = "walk"
  /\ d \in todo
  /\ todo' = todo \ {d}
  /\ IF d \in fs
       THEN watched' = watched \cup {d} /\ reading' = reading \cup {d} /\ UNCHANGED tracker
       ELSE tracker' = "failed" /\ UNCHANGED <<watched, reading>>
  /\ UNCHANGED <<fs, events, logged>>

\* Only then it lists the directory.
List(d) ==
  /\ tracker = "walk"
  /\ d \in reading
  /\ reading' = reading \ {d}
  /\ IF d \in fs
       THEN todo' = todo \cup (Children(d) \cap fs) /\ UNCHANGED tracker
       ELSE tracker' = "failed" /\ UNCHANGED todo
  /\ UNCHANGED <<fs, watched, events, logged>>

\* NewTracker returns and main calls Run,
Walked ==
  /\ tracker = "walk"
  /\ todo = {} /\ reading = {}
  /\ tracker' = "run"
  /\ UNCHANGED <<fs, todo, reading, watched, events, logged>>

\* which logs the events and does nothing else with them.
HandleEvent(d) ==
  /\ tracker = "run"
  /\ d \in events
  /\ events' = events \ {d}
  /\ logged' = logged \cup {d}
  /\ UNCHANGED <<fs, tracker, todo, reading, watched>>

Next == \E d \in Dirs : Mkdir(d) \/ Rmdir(d) \/ Add(d) \/ List(d) \/ Walked \/ HandleEvent(d)

Spec == Init /\ [][Next]_vars

-----------------------------------------------------------------------------
(***************************************************************************)
(* The walk adds the watch of a directory before it lists it, so that no   *)
(* directory is made unseen in between: one whose parent is watched is     *)
(* watched too, or the walk comes to it, or its creation is reported.      *)
(* (Only reported: what happens inside a directory made later is not seen.)*)
(***************************************************************************)
NothingUnseen ==
  \A d \in fs \ {Root} : Parent[d] \in watched /\ tracker # "failed" =>
    \/ d \in watched \cup events \cup logged \cup todo
    \/ Parent[d] \in reading
=============================================================================
