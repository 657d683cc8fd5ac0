SPECIFICATION Spec
CONSTANTS
    MaxIds = 2
    MaxMsgs = 2
    MaxEvents = 2
    MaxInbound = 1
    TimeoutTicks = 2
    PingTicks = 1
    Talkers = {1}
    Kinds = {"version", "self", "verack", "ping", "junk", "badmagic"}
INVARIANTS SlotsExact SeenInOrder
PROPERTY SilentPeersDropped
CHECK_DEADLOCK FALSE
