SPECIFICATION MCSpec
CHECK_DEADLOCK FALSE
CONSTANTS
    MAGIC <- MagicBytes
    OFFSET_TABLE_DIR = 2
    OFFSET_JOB_DIR = 6
    DATA_OFFSET = 12
    NAME_FIELD_LEN = 4
    TABLE_ENTRY_SIZE = 20
    MAX_DIRECTORY_ENTRIES = 100
    Contents <- MCContents
    Cuts <- MCCuts
    ByteBits = 8
    FileBytes = 32
    SCount = 16
    FCount = 8
    ARRAY_MAX_SIZE = 8
INVARIANTS
    CodeIsTiled
    FileIsReadBack
