-------------------------------- MODULE Vfs ---------------------------------
(***************************************************************************)
(* The virtual file system of vfs.c: the tree of mount points, the path    *)
(* canonicalizer and kopen, which finds the deepest mount on a path and    *)
(* asks the mounted file systems for the rest.                             *)
(*                                                                         *)
(* A path string is modelled by its pieces between separators: "/" is      *)
(* <<"">>, "/a/b" is <<"a", "b">>, "/a//b/" is <<"a", "", "b", "">>; the   *)
(* separator in front is a flag.  The mount tree is the function file on   *)
(* the paths of its nodes.  Nodes are copied before they are handed out;   *)
(* a copy is the node here, except that a copy from a null pointer, which  *)
(* reads whatever lies at address 0, is Junk.                              *)
(*                                                                         *)
(* All of it runs in thread context, one call at a time.                   *)
(***************************************************************************)
EXTENDS Integers, Sequences, FiniteSets, FiniteSetsExt, SequencesExt

CONSTANTS
    Names,       \* path elements other than ".", ".." and ""
    FsNodes,     \* the nodes of all file systems
    Mountable,   \* nodes that callers of vfs_mount pass
    Dirs,        \* nodes of type VFS_DIRECTORY with a finddir function
    Contents,    \* <<directory, name>> -> node, for what its finddir finds
    MountPaths,  \* paths that callers of vfs_mount pass
    OpenPaths,   \* paths that callers of kopen and create_file_vfs pass
    Null, Junk

Pieces == Names \cup {"", ".", ".."}

\* A path as its caller writes it.
Path == [absolute : BOOLEAN, pieces : Seq(Pieces)]

ASSUME VfsAssumption ==
    /\ Names \cap {"", ".", ".."} = {}
    /\ Mountable \subseteq FsNodes /\ Dirs \subseteq FsNodes
    /\ DOMAIN Contents \subseteq Dirs \X Names
    /\ \A d \in DOMAIN Contents : Contents[d] \in FsNodes
    /\ MountPaths \subseteq Path /\ OpenPaths \subseteq Path
    /\ \A p \in MountPaths \cup OpenPaths : p.pieces # <<>>
    /\ {Null, Junk} \cap FsNodes = {} /\ Null # Junk

VARIABLES
    file,           \* path of a tree node -> what is mounted there
    vfs_root_node,  \* the shortcut to the root's file
    last            \* the last call: what it was and what it returned

vars == <<file, vfs_root_node, last>>

TypeOK ==
    /\ \A path \in DOMAIN file :
          /\ path \in Seq(Pieces) /\ file[path] \in FsNodes \cup {Null}
          /\ path # <<>> => Front(path) \in DOMAIN file
    /\ <<>> \in DOMAIN file
    /\ vfs_root_node \in FsNodes \cup {Null}
    /\ last \in [call : {"none", "mount", "open", "create"},
                 path : Path, node : FsNodes \cup {Null, Junk}, ret : -1 .. 3]

Call(name, path, node, ret) ==
    [call |-> name, path |-> path, node |-> node, ret |-> ret]

\* vfs_init
Init ==
    /\ file = [path \in {<<>>} |-> Null]
    /\ vfs_root_node = Null
    /\ last = Call("none", [absolute |-> TRUE, pieces |-> <<>>], Null, 0)

-----------------------------------------------------------------------------
(* canonicalize_path.  The working directory of all callers is "/", which  *)
(* has no elements, so a relative path is read like an absolute one.       *)

\* strtok_r skips empty pieces; "." does nothing, ".." pops, list_pop of an
\* empty list does nothing.
Pushed(stack, piece) ==
    CASE piece = ".." -> IF stack = <<>> THEN stack ELSE Front(stack)
      [] piece \in {"", "."} -> stack
      [] OTHER -> Append(stack, piece)

CanonicalizePath(path) ==
    LET stack[k \in 0 .. Len(path.pieces)] ==
            IF k = 0 THEN <<>> ELSE Pushed(stack[k - 1], path.pieces[k])
    IN stack[Len(path.pieces)]

-----------------------------------------------------------------------------
(* vfs_mount.                                                              *)

\* Fault: the walk runs on to the end of the string.
MountPiecesAll(path) == path.pieces

\* The walk over the chopped string ends before an empty piece at its end.
MountPieces(path) ==
    IF Last(path.pieces) = "" THEN Front(path.pieces) ELSE path.pieces

\* The tree after the walk: entries that were missing are there, without file.
Grown(path) ==
    [q \in DOMAIN file \cup Prefixes(path) |->
        IF q \in DOMAIN file THEN file[q] ELSE Null]

\* Fault: the shortcut is set before the test.
MountRootEarly(path, node) ==
    /\ vfs_root_node' = node
    /\ \/ /\ file[<<>>] # Null
          /\ last' = Call("mount", path, node, 3) /\ UNCHANGED file
       \/ /\ file[<<>>] = Null
          /\ file' = [file EXCEPT ![<<>>] = node]
          /\ last' = Call("mount", path, node, 0)

\* "/", and every path that begins with two separators.
MountRoot(path, node) ==
    \/ /\ file[<<>>] # Null
       /\ last' = Call("mount", path, node, 3)
       /\ UNCHANGED <<file, vfs_root_node>>
    \/ /\ file[<<>>] = Null
       /\ file' = [file EXCEPT ![<<>>] = node]
       /\ vfs_root_node' = node
       /\ last' = Call("mount", path, node, 0)

\* A mount fails only where a file is mounted already, so on entries that are
\* all there: it makes none.
MountBelow(path, node) ==
    LET at == MountPieces(path)
    IN /\ \/ /\ Grown(at)[at] # Null
             /\ file' = Grown(at)
             /\ last' = Call("mount", path, node, 3)
          \/ /\ Grown(at)[at] = Null
             /\ file' = [Grown(at) EXCEPT ![at] = node]
             /\ last' = Call("mount", path, node, 0)
       /\ UNCHANGED vfs_root_node

VfsMount(path, node) ==
    \/ /\ ~path.absolute
       /\ last' = Call("mount", path, node, 2)
       /\ UNCHANGED <<file, vfs_root_node>>
    \/ path.absolute /\ path.pieces[1] = "" /\ MountRoot(path, node)
    \/ path.absolute /\ path.pieces[1] # "" /\ MountBelow(path, node)

-----------------------------------------------------------------------------
(* kopen and create_file_vfs.                                              *)

\* Fault: the depth of a mount point is counted from 0.
WalkedFrom0(so, path, k) ==
    LET at == SubSeq(path, 1, k)
    IN CASE ~so.found \/ at \notin DOMAIN file -> [so EXCEPT !.found = FALSE]
         [] so.found /\ at \in DOMAIN file /\ file[at] = Null -> so
         [] OTHER -> [so EXCEPT !.depth = k - 1, !.last = file[at]]

\* One round of get_mount_point's loop, at element k of the path.
Walked(so, path, k) ==
    LET at == SubSeq(path, 1, k)
    IN CASE ~so.found \/ at \notin DOMAIN file -> [so EXCEPT !.found = FALSE]
         [] so.found /\ at \in DOMAIN file /\ file[at] = Null -> so
         [] OTHER -> [so EXCEPT !.depth = k, !.last = file[at]]

\* get_mount_point: the deepest mount and the number of elements above it.
GetMountPoint(path) ==
    LET walk[k \in 0 .. Len(path)] ==
            IF k = 0
            THEN [depth |-> 0, last |-> vfs_root_node, found |-> TRUE]
            ELSE Walked(walk[k - 1], path, k)
    IN walk[Len(path)]

FinddirVfs(node, name) ==
    IF node \in Dirs /\ <<node, name>> \in DOMAIN Contents
    THEN Contents[<<node, name>>] ELSE Null

\* kopen's loop: the node after each element of the path behind the mount.
Found(path, depth, node) ==
    LET find[k \in depth .. Len(path)] ==
            IF k = depth THEN node ELSE FinddirVfs(find[k - 1], path[k])
    IN find

FindFrom(path, depth, node) == Found(path, depth, node)[Len(path)]

\* Copying the root or the mount point from a null pointer gives Junk.
Kopen(path) ==
    IF path = <<>>
    THEN IF vfs_root_node = Null THEN Junk ELSE vfs_root_node
    ELSE LET mount == GetMountPoint(path)
         IN IF mount.last = Null THEN Junk
            ELSE FindFrom(path, mount.depth, mount.last)

Open(path) ==
    /\ last' = Call("open", path, Kopen(CanonicalizePath(path)), 0)
    /\ UNCHANGED <<file, vfs_root_node>>

\* The path that is opened for the parent still ends in the file's name.
CreateFileVfs(path) ==
    LET parent == Kopen(CanonicalizePath(path))
    IN /\ last' = Call("create", path, parent, IF parent = Null THEN -1 ELSE 0)
       /\ UNCHANGED <<file, vfs_root_node>>

Next ==
    \/ \E path \in MountPaths, node \in Mountable : VfsMount(path, node)
    \/ \E path \in OpenPaths : Open(path)
    \/ \E path \in OpenPaths : CreateFileVfs(path)

Spec == Init /\ [][Next]_vars

-----------------------------------------------------------------------------
(* Properties.                                                             *)

Ups(pieces, i, j) == Cardinality({k \in i .. j : pieces[k] = ".."})
Downs(pieces, i, j) == Cardinality({k \in i .. j : pieces[k] \in Names})

\* The names among the first n pieces that no later ".." of them takes back.
Stays(pieces, n) ==
    {i \in 1 .. n :
        /\ pieces[i] \in Names
        /\ \A j \in i + 1 .. n : Ups(pieces, i + 1, j) <= Downs(pieces, i + 1, j)}

Picked(pieces, T) ==
    [k \in 1 .. Cardinality(T) |->
        pieces[CHOOSE i \in T : Cardinality(T \cap 1 .. i) = k]]

Kept(pieces) == Picked(pieces, Stays(pieces, Len(pieces)))

\* The deepest mount on a path, and from there the contents of the mounted
\* file systems.
Resolved(path) ==
    LET mounted == {k \in 0 .. Len(path) :
                       /\ SubSeq(path, 1, k) \in DOMAIN file
                       /\ file[SubSeq(path, 1, k)] # Null}
    IN IF mounted = {} THEN Junk
       ELSE FindFrom(path, Max(mounted), file[SubSeq(path, 1, Max(mounted))])

\* What a path stands for.
Meaning(pieces) == Resolved(Kept(pieces))

(***************************************************************************)
(* kopen returns what the path stands for, with whatever ".", ".." and     *)
(* separators it is written and however mounts lie on top of each other;   *)
(* and the tree stays a tree: a mount makes every entry on its way.        *)
(***************************************************************************)
KopenResolves ==
    /\ TypeOK
    /\ last.call = "open" => last.node = Meaning(last.path.pieces)

\* The canonical paths that callers open.
Canonical == {CanonicalizePath(path) : path \in OpenPaths}

\* Where vfs_mount puts the node.
MountedAt(path) == IF path.pieces[1] = "" THEN <<>> ELSE MountPieces(path)

(***************************************************************************)
(* A mount that fails, with code 2 or 3, changes the meaning of no path;   *)
(* one that succeeds changes only paths at and below the mount point.      *)
(***************************************************************************)
MountLocal ==
    [][last'.call = "mount" =>
          \A path \in Canonical :
              \/ Kopen(path)' = Kopen(path)
              \/ last'.ret = 0 /\ IsPrefix(MountedAt(last'.path), path)]_vars

=============================================================================
