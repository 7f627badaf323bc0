SPECIFICATION MCSpec
CONSTANTS
    Null = Null
    Junk = Junk
    Names = {"a", "b", "dev", "null", "zero", "serial0", "sys", "boot", "cpu"}
    FsNodes <- AllNodes
    Mountable = {"ramdisk", "device"}
    Dirs <- AllDirs
    Contents <- Disk
    MountPaths <- AnyMountPaths
    OpenPaths <- AllOpenPaths
    SysNames = {"cpu"}
    InitrdNames = {"a", "b"}
    MaxSent = 1
INVARIANTS
    KopenResolves
    DevicesReachable
PROPERTY
    MountLocal
CHECK_DEADLOCK FALSE
