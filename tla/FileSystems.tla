---------------------------- MODULE FileSystems -----------------------------
(***************************************************************************)
(* The file systems of fs/ under the VFS: the devices that                 *)
(* init_vfs_devices mounts (fs/device_man.c), sysfs and the initial        *)
(* ramdisk.  A node is a record of what the VFS looks at: its type and the *)
(* operations it has.  All directories here set flags and leave type 0,    *)
(* which is what finddir_vfs and readdir_vfs test, so that neither of them *)
(* ever calls the file system below (KernelDirs).  The call of             *)
(* init_vfs_devices in kmain is commented out, and so are two of its       *)
(* mounts; the model has all of them (InitVfsDevices, MountOther).         *)
(***************************************************************************)
EXTENDS Vfs

CONSTANTS
    SysNames,     \* the names in sys_entries
    InitrdNames,  \* the names in the headers of the ramdisk
    MaxSent       \* bound: bytes written to the serial port

VARIABLES
    mounts,       \* how many mounts init_vfs_devices has made
    sent          \* bytes the serial port was given

fsVars == <<mounts, sent>>

-----------------------------------------------------------------------------
(* The nodes.                                                              *)

Node(type, ops) == [type |-> type, ops |-> ops]

null_device_create == Node("none", {"read", "write", "open", "close"})
zero_device_create == Node("none", {"read", "write", "open", "close"})
serial_device_create == Node("none", {"read", "write", "open", "close"})
dev_device_create == Node("none", {"read", "write", "open", "close"})

sysfs_device_create == Node("none", {"read", "readdir", "finddir"})

\* A new node for every search.
sysfs_generic_create == Node("VFS_FILE", {"read"})

initrd_mountpoint == Node("none", {"readdir", "finddir"})

\* The types in initrd_nodes are not initialised.
initrd_nodes == Node("garbage", {})

Attributes(n) ==
    CASE n = "null" -> null_device_create
      [] n = "zero" -> zero_device_create
      [] n = "serial" -> serial_device_create
      [] n = "devfs" -> dev_device_create
      [] n = "sysfs" -> sysfs_device_create
      [] n = "initrd" -> initrd_mountpoint
      [] n = "sysfs_generic" -> sysfs_generic_create
      [] n = "initrd_node" -> initrd_nodes

\* The entries of one directory are not told apart.
KernelNodes == {"null", "zero", "serial", "devfs", "sysfs", "initrd",
                "sysfs_generic", "initrd_node"}

\* The nodes whose finddir the VFS calls, and what it finds: for Vfs's Dirs
\* and Contents.  As the code is there is none.
Searchable(n) ==
    /\ Attributes(n).type \in {"VFS_DIRECTORY", "garbage"}
    /\ "finddir" \in Attributes(n).ops

KernelDirs == {n \in KernelNodes : Searchable(n)}

finddir_sysfs == [name \in SysNames |-> "sysfs_generic"]
initrd_finddir == [name \in InitrdNames |-> "initrd_node"]
Finddir(n) == IF n = "sysfs" THEN finddir_sysfs ELSE initrd_finddir

KernelContents ==
    [d \in {e \in KernelDirs \X Names : e[2] \in DOMAIN Finddir(e[1])} |->
        Finddir(d[1])[d[2]]]

ASSUME FsAssumption ==
    /\ KernelNodes \subseteq FsNodes /\ Dirs \cap KernelNodes = KernelDirs
    /\ {"dev", "null", "zero", "serial0", "sys", "boot"} \subseteq Names

-----------------------------------------------------------------------------

FsInit == mounts = 0 /\ sent = 0

\* init_vfs_devices
DeviceMounts ==
    <<<<<<"dev", "null">>, "null">>, <<<<"dev", "zero">>, "zero">>,
      <<<<"dev", "serial0">>, "serial">>, <<<<"dev", "">>, "devfs">>>>

Absolute(pieces) == [absolute |-> TRUE, pieces |-> pieces]

InitVfsDevices ==
    /\ mounts < Len(DeviceMounts)
    /\ VfsMount(Absolute(DeviceMounts[mounts + 1][1]), DeviceMounts[mounts + 1][2])
    /\ mounts' = mounts + 1
    /\ UNCHANGED sent

\* The two mounts that device_man.c prepares and comments out.
MountOther ==
    /\ \/ VfsMount(Absolute(<<"sys", "">>), "sysfs")
       \/ VfsMount(Absolute(<<"boot", "">>), "initrd")
    /\ UNCHANGED fsVars

OpenFile(path) == Open(path) /\ UNCHANGED fsVars

Opened(n) == last.call = "open" /\ last.node = n

\* One round of the loop.
write_serial == sent' = sent + 1

\* write_vfs of one byte: only the serial device does something with it.
WriteVfs(n) ==
    /\ Opened(n)
    /\ sent < MaxSent
    /\ IF n = "serial" THEN write_serial ELSE UNCHANGED sent
    /\ UNCHANGED <<vars, mounts>>

FsNext ==
    \/ InitVfsDevices
    \/ MountOther
    \/ \E path \in OpenPaths : OpenFile(path)
    \/ \E n \in KernelNodes : WriteVfs(n)

FsSpec == Init /\ FsInit /\ [][FsNext]_<<vars, fsVars>>

-----------------------------------------------------------------------------
(* Properties.                                                             *)

(***************************************************************************)
(* Each device opens under the path it was mounted at, as soon as it is    *)
(* mounted and for good: /dev/, mounted last and over an entry that the    *)
(* first mount made, hides none of the devices below it, and mounts        *)
(* elsewhere change nothing.                                               *)
(***************************************************************************)
DevicesReachable ==
    \A k \in 1 .. mounts :
        Kopen(CanonicalizePath(Absolute(DeviceMounts[k][1]))) = DeviceMounts[k][2]

=============================================================================
