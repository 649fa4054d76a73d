SPECIFICATION Spec
CONSTANTS
    a = a  b = b  cc = cc
    Name <- MCName
    NameLen <- MCNameLen
    BLOCK_SIZE = 7
    NR_DIRECT_BLOCKS = 1
    NR_INDIRECT_BLOCKS = 1
    MaxFsBlocks = 6
    MaxInodes = 4
    MaxRefs = 1
SYMMETRY Symmetry
INVARIANTS
    NamesUnique EntriesMatchInodes CurDirInUse PwdLeadsBack LsrListsEverything
