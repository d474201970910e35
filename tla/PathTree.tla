------------------------------ MODULE PathTree ------------------------------
(***************************************************************************)
(* What the file system promises its users: a tree of directories and      *)
(* files named by paths from the root, and a current directory that a path *)
(* is taken from.  ".." drops a name, at the root it drops nothing.        *)
(*                                                                         *)
(* Two things a POSIX system would not do are part of the promise: what    *)
(* follows a file's name in a path is ignored, and a name can be empty or  *)
(* dots when it is created, though no path leads to it.                    *)
(***************************************************************************)
EXTENDS Naturals, Sequences, SequencesExt

CONSTANTS Names,    \* the names a path can be made of, without "." and ".."
          Paths     \* [absolute, segs, slash]

VARIABLES dirs,     \* the directories, each the sequence of names from the root
          files,
          here      \* the current directory

(* No name has a slash in it. *)
NotFound == <<"/">>

OddNames == {"", ".", ".."}

Step(place, seg) ==
    IF place \notin dirs THEN place
    ELSE IF seg = "." \/ (seg = ".." /\ place = <<>>) THEN place
    ELSE IF seg = ".." THEN Front(place)
    ELSE IF Append(place, seg) \in dirs \cup files THEN Append(place, seg)
    ELSE NotFound

(* The places on a path, from where it starts, and the one it names. *)
Steps(p) == LET place[i \in 0 .. Len(p.segs)] ==
                  IF i = 0 THEN IF p.absolute THEN <<>> ELSE here
                           ELSE Step(place[i - 1], p.segs[i])
            IN  place

PlaceOf(p) == Steps(p)[Len(p.segs)]

(* The place a path names in an existing directory, if that is free. *)
Place(p, place) == LET parent == PlaceOf([p EXCEPT !.segs = Front(@)])
                   IN  /\ parent \in dirs
                       /\ place = Append(parent, Last(p.segs))
                       /\ place \notin dirs \cup files

Add(place) == \/ dirs' = dirs \cup {place} /\ UNCHANGED files
              \/ files' = files \cup {place} /\ UNCHANGED dirs

Create(p) == /\ p.segs # <<>>
             /\ Last(p.segs) \in Names
             /\ ~p.slash
             /\ \E parent \in dirs : LET place == Append(parent, Last(p.segs))
                                     IN  Place(p, place) /\ Add(place)
             /\ UNCHANGED here

CreateOdd == /\ \E parent \in dirs, name \in OddNames :
                  LET place == Append(parent, name)
                  IN  place \notin dirs \cup files /\ Add(place)
             /\ UNCHANGED here

ChangeDir(p) == /\ PlaceOf(p) \in dirs
                /\ here' = PlaceOf(p)
                /\ UNCHANGED <<dirs, files>>

Next == CreateOdd \/ \E p \in Paths : Create(p) \/ ChangeDir(p)

(* The tree main builds. *)
Init == /\ dirs = {<<>>, <<"mnt">>}
        /\ files = {<<"test.txt">>}
        /\ here = <<>>

vars == <<dirs, files, here>>

Spec == Init /\ [][Next]_vars
=============================================================================
