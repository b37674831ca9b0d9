SPECIFICATION Spec
CONSTANTS
    Anchors = {}
    Chains <- ServerChains
    Host = "host"
PROPERTIES
    ConnectSucceeds
CHECK_DEADLOCK FALSE
