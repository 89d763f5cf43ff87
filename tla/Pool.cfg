SPECIFICATION PoolSpec
CONSTANTS
    ann = ann
    ben = ben
    x = x
    y = y
    p1 = p1
    p2 = p2
    Tenant = {ann, ben}
    Client = {x, y}
    Spec = {1, 2}
    Gen = {1, 2}
    Run = {1, 2}
    Connector <- MCConnector
    Port = {p1, p2}
    Key = {"egress"}
    KeyOf <- MCKeyOf
    NoPort = noport
    NoOne = noone
    burst = 1
    schedule <- MCSchedule
    reconnectFloor = 1
    stormWindow = 6
    stormMax = 2
    stormCooldown = 6
    sessionStableWindow = 2
    PacingBounds <- MCPacing
    PoolBounds <- MCBounds
CHECK_DEADLOCK FALSE
INVARIANTS OneAtATime GateHolds RedialsArePaced 
PROPERTIES FeedIsServed ClientsSettle  MarkIsReported
