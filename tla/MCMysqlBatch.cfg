\* Up to five rows, of two lengths that fit in the surplus and one that does not; no packet
\* size, one below the surplus, one with room for less than the head, and two with room for
\* one and for several rows.  Two holders and two connections with transactions; files of up
\* to three lines.  The programs end.
SPECIFICATION MCSpec
CONSTANTS
    Surplus = 6
    HeadLen = 4
    RowLens = {1, 3, 7}
    MaxRows = 5
    Packets = {0, 6, 8, 14, 24}
    Holder = {h1, h2}
    Conn = {d1, d2}
    NoConn = none
    Item = {i1, i2}
    MaxLines = 3
INVARIANTS RowsOnce FitsPacket ResultTells OwnTransactions FileIsStored
CHECK_DEADLOCK FALSE
