\* A client that waits, one with a connection for each key and one with several; three keys
\* on two connections are an overtaking with a third command between; a text is the only
\* kind that is delayed.
SPECIFICATION FairSpec
CONSTANTS
    Clients = {ios, mac, web}
    Blocking = {ios}
    Fresh = {mac}
    Kinds = {nav, text}
    Delayed = {text}
    MaxPeers = 2
    MaxCommands = 3
    MaxEnds = 1
INVARIANTS TypeOK NothingTwice AnsweredComesFirst OwnOrder
PROPERTIES AnsweredTakesEffect
