SPECIFICATION FairSpec
CONSTANTS
  Connections = {c1, c2}
  NoConnection = NoConnection
  Workers = {w1, w2}
  DisconnectTypes = {"no response on connect", "connected and no response"}
INVARIANT TypeOK
INVARIANT ConnectionsHaveOneHolder
INVARIANT PopFindsItem
INVARIANT ServedConnectionsAreListed
INVARIANT DeletedConnectionsAreUnused
 
PROPERTY ClosedConnectionsReturn
\* A server that was shut down has stopped.
CHECK_DEADLOCK FALSE
