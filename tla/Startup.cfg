\* Five settings spread over the flags, the file and the plugin options.
SPECIFICATION Spec
CONSTANT MaxGiven = 5
INVARIANTS TypeOK Precedence OwnSide OpenOnlyUnlisted MonitorWanted
CHECK_DEADLOCK FALSE
