SPECIFICATION Spec
CONSTANTS
    Views = {v1}
    Messages = 0
    Kinds = {"append", "expunge", "request", "flag", "reset"}
    MaxUid = 2
    MaxLog = 5
    MaxGaps = 1
    MaxResets = 1
INVARIANTS IndexIsLog FlagsReported SyncedIsIndex SequencesAgree TypeOK NoPanic DelayedExpungesPending
PROPERTIES InconsistentOnlyByReset
CHECK_DEADLOCK FALSE
