CONSTANTS
    DirNames <- MCDirNames
    FileNames <- MCFileNames
    MaxEntries = 3
    ModuleArgs <- MCModuleArgs
    CfgArgs <- MCCfgArgs
    MaxArgs = 1
    FileStem <- MCFileStem
    NoStem = NoStem
    NoValue = NoValue
    IoFaults = {"report", "write"}
SPECIFICATION Spec
INVARIANT TypeOK
INVARIANT SysrootFilesFound
INVARIANT ModulePathsFollowLayout
\* run() returns or panics, and main() exits: the driver stops.
CHECK_DEADLOCK FALSE
