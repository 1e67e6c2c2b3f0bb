SPECIFICATION Spec
CONSTANTS
    Sql = {q}
    Http = {h}
    Routed = {q, h}
    Local = {q, h}
    Cataloged = {h}
    Sinks = {h}
    MaxOriginConnections = 2
    MaxUserConnections = 1
    Nobody = Nobody
    MaxCrashes = 1
    Sessions = {s, t}
    MaxLaunches = 1
INVARIANTS
    ConnectionsWithinLimits
    StaleNeverActs
PROPERTIES
    BodiesAreInPlace
    EverythingReturns
