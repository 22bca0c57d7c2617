CONSTANTS
    Base = {"base"}
    Real = {"xfce"}
    Extra = {"ros"}
    MaxFailures = 1
SPECIFICATION Spec
INVARIANT PermissionsRestored
CHECK_DEADLOCK FALSE
