SPECIFICATION Spec
CONSTANTS
    Lo = lo
    Hi = hi
    MaxFaults = 3
    Cap = 1
INVARIANTS StrandedOnlyByReturn LockedIsHidden
PROPERTIES LinkForms
