-------------------------------- MODULE MCVfs -------------------------------
(***************************************************************************)
(* The VFS for TLC, in two setups.  "any": a file system with the files    *)
(* /a, /a/b and /b and a device that is not a directory, mounted anywhere. *)
(* "kernel": the file systems of the kernel.                               *)
(***************************************************************************)
EXTENDS FileSystems, TLC

Generic == {"ramdisk", "dirA", "fileB", "fileAB", "device"}
AllNodes == Generic \cup KernelNodes
AllDirs == {"ramdisk", "dirA"} \cup KernelDirs

Disk == (<<"ramdisk", "a">> :> "dirA") @@ (<<"ramdisk", "b">> :> "fileB")
            @@ (<<"dirA", "b">> :> "fileAB") @@ KernelContents

Rel(pieces) == [absolute |-> FALSE, pieces |-> pieces]

AnyMountPaths ==
    {Absolute(<<"">>), Absolute(<<"a">>), Absolute(<<"a", "">>),
     Absolute(<<"a", "b">>), Absolute(<<"", "b">>), Absolute(<<"a", "", "b">>),
     Absolute(<<"b", "..">>), Rel(<<"a">>)}

AnyOpenPaths ==
    {Absolute(<<"">>), Absolute(<<"a", "b">>), Absolute(<<"..", "a">>),
     Absolute(<<"b">>), Absolute(<<"b", "..", "a", "b", "">>),
     Absolute(<<"a", "", "b", "a">>), Rel(<<"a", ".", "b">>),
     Rel(<<"b", "b", "..", "..", "..", "b">>)}

KernelOpenPaths ==
    {Absolute(DeviceMounts[k][1]) : k \in 1 .. 4}
    \cup {Absolute(<<"sys">>), Absolute(<<"sys", "cpu">>), Absolute(<<"sys", "a">>),
          Absolute(<<"boot", "a">>), Absolute(<<"boot", "a", "b">>),
          Absolute(<<"dev", "..", "boot", "b", "a">>)}

AllOpenPaths == AnyOpenPaths \cup KernelOpenPaths

VARIABLE setup

MCInit == Init /\ FsInit /\ setup \in {"any", "kernel"}

MCNext ==
    \/ /\ setup = "any" /\ Next /\ UNCHANGED <<setup, fsVars>>
    \/ /\ setup = "kernel" /\ FsNext /\ UNCHANGED setup

MCSpec == MCInit /\ [][MCNext]_<<vars, fsVars, setup>>

=============================================================================
