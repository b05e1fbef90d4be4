SPECIFICATION Spec
CONSTANTS
    Snapshots <- MCSnapshots
    Contents <- MCContents
CHECK_DEADLOCK FALSE
INVARIANTS BestDecoderWins OutcomeAsDeclared NothingElseDropped
