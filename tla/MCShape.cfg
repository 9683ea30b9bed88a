SPECIFICATION Spec
CONSTANT Jobs <- MCJobs
INVARIANTS TypeOK ChildrenPartition OneHead NamesAreUnique ReuseAgrees BlocksAreKept
CHECK_DEADLOCK FALSE
