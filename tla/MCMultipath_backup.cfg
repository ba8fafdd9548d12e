CONSTANTS
    AdminContents <- MCAdminContents
    MaxClock = 1
SPECIFICATION Spec
INVARIANT OriginalSaved
