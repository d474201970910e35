-------------------------------- MODULE Vfs --------------------------------
(***************************************************************************)
(* The file system's tree (src/kernel/fs.cpp, ramfs.cpp) and the shell     *)
(* commands that change it (src/kernel/Shell.cpp), from the tree main      *)
(* builds.  A path is what its characters are to the code: slashes, and    *)
(* between them segments, each of them one token; names fit their arrays.  *)
(* File contents are not part of it, nor what is printed.                  *)
(***************************************************************************)
EXTENDS Naturals, Sequences, SequencesExt

CONSTANTS Names,      \* the names paths are made of
          MaxTokens,  \* bound on the slashes and segments of a path
          MaxNodes,   \* bound on the nodes ever made; nothing frees one
          Null

Nodes == 1 .. MaxNodes
Slash == "/"
OddNames == {"", ".", ".."}

(* The words of a command line, which are not empty, and what is cut from  *)
(* them: two segments have a slash between them.                           *)
Paths == {path \in UNION {[1 .. n -> Names \cup {Slash, ".", ".."}] : n \in 1 .. MaxTokens} :
             \A k \in 1 .. Len(path) - 1 : Slash \in {path[k], path[k + 1]}}

ASSUME NamesAssumption == /\ {"test.txt", "mnt"} \subseteq Names
                          /\ Names \cap (OddNames \cup {Slash}) = {}
ASSUME NodesAssumption == MaxNodes \in Nat /\ MaxNodes >= 4 /\ Null \notin Nodes

-----------------------------------------------------------------------------
(* What the loops over characters cut a path into. *)

Absolute(path) == Head(path) = Slash

SkipSlashes(path, p) == Min({q \in p .. Len(path) + 1 : q > Len(path) \/ path[q] # Slash})

(* From p on; an empty segment ends the loop. *)
Segments(path) ==
    LET from[p \in 1 .. Len(path) + 1] ==
          IF p > Len(path) \/ path[p] = Slash THEN <<>>
          ELSE <<path[p]>> \o from[SkipSlashes(path, p + 1)]
    IN  from[IF Absolute(path) THEN SkipSlashes(path, 1) ELSE 1]

Way(path) == [absolute |-> Absolute(path), segs |-> Segments(path)]

(* vfs_split_path: what is before the last slash, and what is behind it.   *)
Slashes(path) == {k \in DOMAIN path : path[k] = Slash}
LastSlash(path) == IF Slashes(path) = {} THEN 0 ELSE Max(Slashes(path))

DirnameOfRootIsDot(path) == IF LastSlash(path) <= 1 THEN <<".">>
                            ELSE SubSeq(path, 1, LastSlash(path) - 1)
Dirname(path) == CASE LastSlash(path) = 0 -> <<".">>
                   [] LastSlash(path) = 1 -> <<Slash>>
                   [] OTHER -> SubSeq(path, 1, LastSlash(path) - 1)
Basename(path) == IF LastSlash(path) = Len(path) THEN "" ELSE Last(path)

(* Paths that are cut alike are alike to the commands. *)
Ways == {Way(path) : path \in Paths}
Split(path) == [dir |-> Way(Dirname(path)), base |-> Basename(path)]
Splits == {Split(path) : path \in Paths}

-----------------------------------------------------------------------------
VARIABLES made,           \* how many nodes were made
          flags,          \* "FILE", "DIRECTORY" or "MOUNTPOINT" of each
          name,
          parent,
          mount_target,
          children,
          cwd             \* the shell's current_directory

treeVars == <<made, flags, name, parent, mount_target, children>>
vars == <<treeVars, cwd>>

fs_root == 1

(* main: "/" holds test.txt and mnt, and "second" is mounted on mnt. *)
Init == /\ made = 4
        /\ flags = <<"DIRECTORY", "FILE", "MOUNTPOINT", "DIRECTORY">>
        /\ name = <<"/", "test.txt", "mnt", "second">>
        /\ parent = <<Null, 1, 1, 3>>
        /\ mount_target = <<Null, Null, 4, Null>>
        /\ children = <<<<2, 3>>, <<>>, <<>>, <<>>>>
        /\ cwd = fs_root

IsDirectory(node) == node # Null /\ flags[node] = "DIRECTORY"

(* The first child of that name. *)
lookup(dir, search_name) ==
    LET found == {i \in DOMAIN children[dir] : name[children[dir][i]] = search_name}
    IN  IF found = {} THEN Null
        ELSE children[dir][CHOOSE i \in found : \A j \in found : i <= j]

(* A mount point stands for what is mounted on it: one step, not further.  *)
ThroughMountNever(node) == node
ThroughMount(node) == IF node = Null \/ flags[node] # "MOUNTPOINT" \/ mount_target[node] = Null
                      THEN node ELSE mount_target[node]

(* "..": from the root of a mount, past the mount point. *)
Above(dir) ==
    LET up == parent[dir]
    IN  IF up = Null THEN dir
        ELSE IF /\ flags[up] = "MOUNTPOINT"
                /\ mount_target[up] = dir
                /\ parent[up] # Null
             THEN parent[up]
             ELSE up

(* The node a way leads to.  One turn of the loop follows one segment; the *)
(* loop ends at the first node that is not a directory, whatever is left.  *)
Follow(node, seg) == IF ~IsDirectory(node) THEN node
                     ELSE IF seg = "." THEN node
                     ELSE IF seg = ".." THEN Above(node)
                     ELSE ThroughMount(lookup(node, seg))

(* Where the turns of the loop have led to, from where the way starts. *)
Turns(way) ==
    LET node[i \in 0 .. Len(way.segs)] ==
          IF i = 0 THEN IF way.absolute THEN fs_root ELSE cwd
                   ELSE Follow(node[i - 1], way.segs[i])
    IN  node

vfs_resolve_path(way) == Turns(way)[Len(way.segs)]

-----------------------------------------------------------------------------
(* The commands; one that finds nothing to do changes nothing.  cd without *)
(* an argument is cd to homeEnv, "/".                                      *)

Cd(way) == /\ IsDirectory(vfs_resolve_path(way))
           /\ cwd' = vfs_resolve_path(way)
           /\ UNCHANGED treeVars

AddChild(dir, kind, new_name) ==
    /\ made' = made + 1
    /\ flags' = Append(flags, kind)
    /\ name' = Append(name, new_name)
    /\ parent' = Append(parent, dir)
    /\ mount_target' = Append(mount_target, Null)
    /\ children' = Append([children EXCEPT ![dir] = Append(@, made + 1)], <<>>)

TakenNever(dir, new_name) == FALSE
Taken(dir, new_name) == lookup(dir, new_name) # Null

(* touch and mkdir, for one of their arguments *)
CreateUnderAny(split, kind) ==
    LET dir == vfs_resolve_path(split.dir)
    IN  /\ made < MaxNodes
        /\ dir # Null
        /\ ~Taken(dir, split.base)
        /\ AddChild(dir, kind, split.base)
        /\ UNCHANGED cwd
Create(split, kind) ==
    LET dir == vfs_resolve_path(split.dir)
    IN  /\ made < MaxNodes
        /\ IsDirectory(dir)
        /\ ~Taken(dir, split.base)
        /\ AddChild(dir, kind, split.base)
        /\ UNCHANGED cwd

Touch(split) == Create(split, "FILE")
Mkdir(split) == Create(split, "DIRECTORY")

(* mount, of the nodes its two paths lead to; vfs_mount takes directories  *)
(* only.                                                                   *)
MountBesideTarget(source, target) ==
    /\ IsDirectory(source)
    /\ IsDirectory(target)
    /\ source # target
    /\ flags' = [flags EXCEPT ![target] = "MOUNTPOINT"]
    /\ mount_target' = [mount_target EXCEPT ![target] = source]
    /\ parent' = [parent EXCEPT ![source] = parent[target]]
    /\ UNCHANGED <<made, name, children, cwd>>
Mount(source, target) ==
    /\ IsDirectory(source)
    /\ IsDirectory(target)
    /\ source # target
    /\ flags' = [flags EXCEPT ![target] = "MOUNTPOINT"]
    /\ mount_target' = [mount_target EXCEPT ![target] = source]
    /\ parent' = [parent EXCEPT ![source] = target]
    /\ UNCHANGED <<made, name, children, cwd>>

Reached == {vfs_resolve_path(way) : way \in Ways}

Next == \/ \E way \in Ways : Cd(way)
        \/ \E split \in Splits : Touch(split) \/ Mkdir(split)
        \/ \E source, target \in Reached : Mount(source, target)

Spec == Init /\ [][Next]_vars

-----------------------------------------------------------------------------
Made == 1 .. made

(* Types of the variables. *)
TypeOK == /\ made \in Nodes
          /\ flags \in [Made -> {"FILE", "DIRECTORY", "MOUNTPOINT"}]
          /\ name \in [Made -> Names \cup OddNames \cup {"/", "second"}]
          /\ parent \in [Made -> Made \cup {Null}]
          /\ mount_target \in [Made -> Made \cup {Null}]
          /\ children \in [Made -> Seq(Made)]
          /\ cwd \in Made

(* No two entries of a directory have the same name, whichever paths they  *)
(* were created by: the second would never be found.                       *)
UniqueNames == \A dir \in Made : \A i, j \in DOMAIN children[dir] :
                   name[children[dir][i]] = name[children[dir][j]] => i = j

(* A node's parent is the directory that lists it, or the mount point it   *)
(* is mounted on: ".." never leads to a place that does not lead back,     *)
(* although a mount rewrites the parent of a directory that is listed      *)
(* elsewhere.                                                              *)
ParentLeadsBack ==
    \A node \in Made : parent[node] # Null =>
        \/ node \in ToSet(children[parent[node]])
        \/ mount_target[parent[node]] = node

(* Nothing is listed twice, and only what can hold it lists something. *)
ListedOnce ==
    \A dir \in Made : /\ flags[dir] = "FILE" => children[dir] = <<>>
                      /\ IsInjective(children[dir])
                      /\ \A other \in Made \ {dir} :
                           ToSet(children[dir]) \cap ToSet(children[other]) = {}

(* Types, and directories that list nodes once, under names of their own.  *)
VfsInv == TypeOK /\ UniqueNames /\ ListedOnce

(* Every path of names that led to a directory leads to what is mounted on *)
(* it, from then on; but not if the directory is the root, or the root of  *)
(* an earlier mount, which is followed one step only, nor a path that met  *)
(* the directory before its end, by a mount of one of its ancestors below  *)
(* it.                                                                     *)
NameWays == {way \in Ways : way.absolute /\ ToSet(way.segs) \cap {".", ".."} = {}}

MountShows ==
    [][\A target \in Made :
         /\ flags[target] = "DIRECTORY"
         /\ flags'[target] = "MOUNTPOINT"
         /\ target # fs_root
         /\ \A node \in Made : mount_target[node] # target
         => \A way \in NameWays :
              /\ vfs_resolve_path(way) = target
              /\ \A i \in 0 .. Len(way.segs) - 1 : Turns(way)[i] # target
              => vfs_resolve_path(way)' = mount_target'[target]]_vars

(* As long as nothing is mounted but what main mounts, the nodes are a     *)
(* tree of paths: a node's place is its parent's and its name, and a       *)
(* mounted root's is its mount point's.                                    *)
OnlyMainsMount == {node \in Made : mount_target[node] # Null} = {3}

PlaceOf == LET place[node \in Made] ==
                 IF node = fs_root THEN <<>>
                 ELSE IF mount_target[parent[node]] = node THEN place[parent[node]]
                 ELSE Append(place[parent[node]], name[node])
           IN  place

Kind(kind) == {PlaceOf[node] : node \in {n \in Made : flags[n] = kind}}

(* What a path means: where it starts, the segments on its way, which are  *)
(* its tokens but for the slashes, and whether a slash ends it.            *)
Named(path) == LET upto[k \in 0 .. Len(path)] ==
                     IF k = 0 THEN <<>>
                     ELSE IF path[k] = Slash THEN upto[k - 1]
                     ELSE Append(upto[k - 1], path[k])
               IN  upto[Len(path)]

Meaning(path) == [absolute |-> Absolute(path),
                  segs |-> Named(path),
                  slash |-> Last(path) = Slash]

Meanings == {Meaning(path) : path \in Paths}
Readings == {[way |-> Way(path), split |-> Split(path), meaning |-> Meaning(path)] :
               path \in Paths}

Tree == INSTANCE PathTree WITH Paths <- Meanings,
                               dirs  <- IF OnlyMainsMount THEN Kind("DIRECTORY") ELSE {},
                               files <- IF OnlyMainsMount THEN Kind("FILE") ELSE {},
                               here  <- IF OnlyMainsMount THEN PlaceOf[cwd] ELSE <<>>

(* Until then every path, with its slashes, dots, mounts and what follows  *)
(* a file, leads to the node whose place it names, and to none if it names *)
(* none; and it is split into the directory of that place and the name.    *)
NodeAt(place) == IF place = Tree!NotFound THEN Null
                 ELSE CHOOSE node \in Made : /\ flags[node] # "MOUNTPOINT"
                                             /\ PlaceOf[node] = place

EndsInName(meaning) == meaning.segs # <<>> /\ ~meaning.slash

ResolvesPlaces ==
    OnlyMainsMount =>
        \A reading \in Readings :
            LET meaning == reading.meaning
            IN  /\ vfs_resolve_path(reading.way) = NodeAt(Tree!PlaceOf(meaning))
                /\ EndsInName(meaning) =>
                      /\ reading.split.base = Last(meaning.segs)
                      /\ vfs_resolve_path(reading.split.dir) =
                            NodeAt(Tree!PlaceOf([meaning EXCEPT !.segs = Front(@)]))

(* Until then touching, making directories and changing to them, by any    *)
(* paths, does to that tree what PathTree says.                            *)
PathTreeSpec == /\ Tree!Init
                /\ [][OnlyMainsMount' => Tree!Next]_Tree!vars
=============================================================================
