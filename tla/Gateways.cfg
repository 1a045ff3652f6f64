SPECIFICATION FairGatewaysSpec
CONSTANTS
    u1 = u1
    s1 = s1
    s2 = s2
    s3 = s3
    s4 = s4
    Users = {u1}
    Sockets = {s1, s2, s3, s4}
    Owner <- OneUser
    Conversations = {c1, c2}
    MaxReconnectAttempts = 1
    MaxTimers = 2
INVARIANTS GatewayTypeOK BookkeepingExact TypingIsConnected TypeOK ConnectedDeviceIsShown TypingHasTimer
PROPERTIES GoneIsAnnounced TypingEnds
