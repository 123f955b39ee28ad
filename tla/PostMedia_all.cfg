SPECIFICATION Spec
INVARIANTS OnlyTheClickHides SharedWhole ExportKept
PROPERTIES SessionNeverBroken KeepsPromise
CHECK_DEADLOCK FALSE
