SPECIFICATION TestSpec
CONSTANT HostLittleEndian = TRUE
INVARIANTS TestTypeOK AllRequirementsHold
CHECK_DEADLOCK FALSE
