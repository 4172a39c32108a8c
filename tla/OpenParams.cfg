SPECIFICATION WireSpec
CONSTANTS
 WireSessions <- WS
 WireRoutes <- WR
 Verbatim <- VB
INVARIANT OptionalParametersFit
CHECK_DEADLOCK FALSE
