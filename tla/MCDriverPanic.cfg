CONSTANTS
    DirNames <- MCDirNames
    FileNames <- MCFileNames
    MaxEntries = 3
    ModuleArgs <- MCModuleArgs
    CfgArgs <- MCCfgArgs
    MaxArgs = 1
    FileStem <- MCFileStem
    NoStem = NoStem
    NoValue = NoValue
    IoFaults = {}
SPECIFICATION Spec
INVARIANT ExitCodeZeroOrOne
\* run() returns or panics, and main() exits: the driver stops.
CHECK_DEADLOCK FALSE
