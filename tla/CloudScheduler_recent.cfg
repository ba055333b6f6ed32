SPECIFICATION Spec
CONSTANTS
  na = na
  nb = nb
  nx = nx
  cdn = cdn
  ra = ra
  rb = rb
  rc = rc
  Nodes <- MCNodes
  Configured <- MCConfigured
  Default = cdn
  Routes <- MCRoutes
  Trip <- MCTrip
  VideoLength = 4
  Offset <- MCOffset
  TimePerByte <- MCTimePerByte
  ShareMode = "allRouteNbr"
  BookKeeping = "recent"
  MaxClients = 2
CHECK_DEADLOCK FALSE
INVARIANTS TypeOK NoDoubleBooking PromisedInOrder
PROPERTY BookingsKept
