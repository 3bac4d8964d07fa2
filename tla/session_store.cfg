\* One thread of the audited Redis store: failures, crashes and expiry at every command.
SPECIFICATION Spec
CONSTANTS
    Overlap = FALSE
    MaxWrites = 5
INVARIANTS TypeOK TtlFollowsStatus ControlAudited AuditOrdered
PROPERTY ImplementsThread
CHECK_DEADLOCK FALSE
