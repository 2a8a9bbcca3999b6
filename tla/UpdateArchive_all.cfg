SPECIFICATION Spec
CONSTANTS Events = {"break", "reader", "fail", "broken", "nodelete", "noremove",
                    "norename", "nocopy", "badcopy", "foreign"}
INVARIANTS TypeOK NothingLost SuccessIsNew InterruptedHarmless
PROPERTIES ForeignKept
CHECK_DEADLOCK FALSE
