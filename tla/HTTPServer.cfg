\* Two connections share the connection queue; two requests on a connection, of which one may
\* be its last.
SPECIFICATION FairSpec
CONSTANTS
    Peers = {p1, p2}
    Requests = {command, lastCommand}
    Keeps = {command}
    Nil = Nil
    MaxSent = 2
INVARIANTS TypeOK ListIsAccurate OneErrand DiesOnce
PROPERTIES SentIsServed ServerPromise
