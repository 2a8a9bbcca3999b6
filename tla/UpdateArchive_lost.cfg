SPECIFICATION Spec
CONSTANTS Events = {"break"}
INVARIANTS OnDisk
CHECK_DEADLOCK FALSE
