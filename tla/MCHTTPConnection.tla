--------------------------- MODULE MCHTTPConnection ---------------------------
(* A small instance of HTTPConnection for TLC. *)
EXTENDS HTTPConnection

\* The page is a file, help and command are made in memory; READ_CHUNKSIZE is 2.
MCLength == [page |-> 5, help |-> 3, command |-> 0]
MCFiles == {"page"}

Asks(target, components) ==
    [method |-> "GET", target |-> target, ranges |-> components, fault |-> "none",
     close |-> FALSE]
Faulty(method, fault) == [Asks("page", <<>>) EXCEPT !.method = method, !.fault = fault]
FromTo(a, b) == [from |-> a, to |-> b]

MCSays ==
    [get        |-> Asks("page", <<>>),
     head       |-> [Asks("page", <<>>) EXCEPT !.method = "HEAD"],
     closing    |-> [Asks("help", <<>>) EXCEPT !.close = TRUE],
     command    |-> Asks("command", <<>>),
     nothings   |-> Asks("command", <<FromTo(Nil, 0), FromTo(Nil, 0)>>),
     missing    |-> Asks("nothing", <<>>),
     upload     |-> Faulty("POST", "none"),
     noLength   |-> Faulty("POST", "length"),
     oldVersion |-> Faulty("GET", "version"),
     middle     |-> Asks("page", <<FromTo(1, 3)>>),
     unordered  |-> Asks("page", <<FromTo(3, Nil), FromTo(0, 0)>>),
     suffix     |-> Asks("help", <<FromTo(Nil, 1), FromTo(0, 0)>>),
     overlap    |-> Asks("help", <<FromTo(0, 1), FromTo(1, 2)>>),
     beyond     |-> Asks("help", <<FromTo(2, 3)>>),
     lastNone   |-> Asks("help", <<FromTo(Nil, 0)>>),
     oneAndNone |-> Asks("page", <<FromTo(Nil, 0), FromTo(4, 4)>>)]
=============================================================================
