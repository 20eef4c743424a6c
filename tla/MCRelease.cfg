\* One process, one edit, no accident.
SPECIFICATION ReleaseSpec
CONSTANTS
    Releasers = {"release"}
    Changes = 1
    Halts = 0
INVARIANT ReleaseIsOfCommit
CHECK_DEADLOCK FALSE
