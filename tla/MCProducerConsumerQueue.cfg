\* Three consumers and four items, and small instances of the other queues and of Thread.
SPECIFICATION MCSpec
CONSTANTS
    Consumer = {c1, c2, c3}
    Item = {1, 2, 3, 4}
    Producer = {p1, p2}
    MaxPuts = 2
    Putter = {p1, p2}
    Taker = {c1, c2}
    Adder = {p1, p2}
    MaxAdds = 4
INVARIANTS NoLostWakeup NothingLost StopLetsOneIn ReaddKeepsOrder
PROPERTIES WaitsEnd StopTakesEffect
