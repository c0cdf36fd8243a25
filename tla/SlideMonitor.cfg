\* Two requests at a time are one overlap; two Apple TVs with two
\* slides, each with one neighbour.
SPECIFICATION MCSpec
CONSTANTS
    tv1 = tv1
    tv2 = tv2
    Hosts = {tv1, tv2}
    LastSlide = 2
    Nil = Nil
    Workers = {w1, w2}
    MaxUses = 2
    MaxChanges = 1
    MaxQueue = 1
INVARIANTS TypeOK OneSlide OneTimer
PROPERTIES CatchesUp
