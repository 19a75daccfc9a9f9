--------------------------- MODULE HourlySinkProofs ---------------------------
(***************************************************************************)
(* Proofs about HourlySink and TimeUtils, for hours and days of any        *)
(* length; and, in the instance of MCHourlySink, about Compression, for    *)
(* data and buffers of any size.                                           *)
(***************************************************************************)
EXTENDS MCHourlySink, SequenceTheorems, TLAPS

-----------------------------------------------------------------------------
(* Division *)

\* What division and remainder are.
LEMMA DivMod ==
  \A a \in Int, n \in Nat \ {0} :
     /\ a \div n \in Int /\ a % n \in 0 .. n - 1
     /\ a = n * (a \div n) + (a % n)
OBVIOUS

LEMMA Product ==
  \A n \in Nat \ {0}, k \in Int :
     /\ n * k \in Int
     /\ k >= 1 => n * k >= n
     /\ k <= 0 => n * k <= 0
OBVIOUS

-----------------------------------------------------------------------------

\* A later time is not in an earlier hour.
LEMMA DivMonotonic ==
  \A a, b \in Int, n \in Nat \ {0} : a <= b => a \div n <= b \div n
<1> SUFFICES ASSUME NEW a \in Int, NEW b \in Int, NEW n \in Nat \ {0}, a <= b,
                    ~(a \div n <= b \div n)
             PROVE  FALSE
  OBVIOUS
<1> DEFINE p == a \div n
           q == b \div n
<1>1. p \in Int /\ q \in Int /\ a % n \in 0 .. n - 1 /\ b % n \in 0 .. n - 1
      /\ a = n * p + (a % n) /\ b = n * q + (b % n)
  BY DivMod
<1>2. n * (p - q) >= n
  BY <1>1, Product
<1>3. n * (p - q) = n * p - n * q /\ n * p \in Int /\ n * q \in Int
  BY <1>1
<1> QED
  BY <1>1, <1>2, <1>3

LEMMA TimeTypes ==
  /\ kDaySeconds \in Nat \ {0}
  /\ \A t \in Int : LocalTime(t) \in Int /\ LocalHours(t) \in Int
                    /\ getLocalHour(t) \in 0 .. HoursPerDay - 1
<1>1. kDaySeconds \in Nat \ {0}
  BY TimeAssumption, Product DEF kDaySeconds
<1>2. ASSUME NEW t \in Int PROVE LocalTime(t) \in Int /\ LocalHours(t) \in Int
                                 /\ getLocalHour(t) \in 0 .. HoursPerDay - 1
  BY TimeAssumption, DivMod DEF LocalTime, LocalHours, getLocalHour
<1> QED
  BY <1>1, <1>2

LEMMA HoursMonotonic == \A t, u \in Int : t <= u => LocalHours(t) <= LocalHours(u)
<1> SUFFICES ASSUME NEW t \in Int, NEW u \in Int, t <= u PROVE LocalHours(t) <= LocalHours(u)
  OBVIOUS
<1>1. LocalTime(t) \in Int /\ LocalTime(u) \in Int /\ LocalTime(t) <= LocalTime(u)
  BY TimeAssumption DEF LocalTime
<1> QED
  BY <1>1, DivMonotonic, TimeAssumption DEF LocalHours

-----------------------------------------------------------------------------
(* The sink *)

\* The file is the one current_hour_ stands for, and not of the future.
FileOK == file # Closed => current_hour = file % HoursPerDay /\ file <= LocalHours(now)

\* Where a line is about to be written, the file is of an hour of the call, or was of the
\* same hour of a day before.
Right(first, last) == \E hour \in Int : /\ first <= hour /\ hour <= last /\ file <= hour
                                       /\ file % HoursPerDay = hour % HoursPerDay

WriteOK == pc = "write" /\ file # Closed => Right(LocalHours(begin - 1), LocalHours(now))

IInv == TypeOK /\ begin <= now /\ FileOK /\ WriteOK

\* The file may be kept if one of the two clocks says so.
LEMMA Kept ==
  ASSUME IInv, NEW t \in Time, getLocalHour(t) = current_hour, file # Closed
  PROVE  Right(LocalHours(begin - 1), LocalHours(now))
<1>1. now \in Nat /\ begin \in Nat /\ t \in Int /\ file \in Int /\ begin - 1 <= t /\ t <= now
  BY DEF IInv, TypeOK, Time
<1>2. LocalHours(begin - 1) <= LocalHours(t) /\ LocalHours(t) <= LocalHours(now)
  BY <1>1, HoursMonotonic
<1>3. LocalHours(begin - 1) \in Int /\ LocalHours(t) \in Int /\ LocalHours(now) \in Int
  BY <1>1, TimeTypes
<1>4. file <= LocalHours(now) /\ file % HoursPerDay = LocalHours(t) % HoursPerDay
  BY DEF IInv, FileOK, getLocalHour
<1>5. CASE LocalHours(t) < file
  BY <1>1, <1>2, <1>3, <1>4, <1>5 DEF Right
<1>6. CASE file <= LocalHours(t)
  BY <1>1, <1>2, <1>3, <1>4, <1>6 DEF Right
<1> QED
  BY <1>1, <1>3, <1>5, <1>6

LEMMA InitIInv == Init => IInv
<1> SUFFICES ASSUME Init PROVE IInv
  OBVIOUS
<1>1. now \in Nat /\ now \in Int
  BY SinkAssumption DEF Init
<1>2. LocalHours(now) \in Int /\ getLocalHour(now) \in 0 .. HoursPerDay - 1
  BY <1>1, TimeTypes
<1>3. 0 \in 0 .. HoursPerDay - 1
  BY TimeAssumption
<1> QED
  BY <1>1, <1>2, <1>3, SinkAssumption
  DEF Init, IInv, TypeOK, FileOK, WriteOK, Closed, getLocalHour

\* Every step keeps the invariant.
LEMMA NextIInv == IInv /\ [Next]_vars => IInv'
<1> SUFFICES ASSUME IInv, [Next]_vars PROVE IInv'
  OBVIOUS
<1>1. CASE Tick
  <2>1. now \in Int /\ begin \in Int /\ now' = now + 1 /\ UNCHANGED <<pc, begin, file, current_hour>>
        /\ ticks' \in 0 .. MaxTicks
    BY <1>1, SinkAssumption DEF Tick, IInv, TypeOK
  <2>2. LocalHours(now) <= LocalHours(now') /\ LocalHours(now) \in Int /\ LocalHours(now') \in Int
    BY <2>1, HoursMonotonic, TimeTypes, SMTT(30)
  <2>3. TypeOK' /\ begin' <= now'
    BY <2>1 DEF IInv, TypeOK
  <2>4. FileOK'
    BY <2>1, <2>2 DEF IInv, TypeOK, FileOK
  <2>5. WriteOK'
    BY <2>1, <2>2 DEF IInv, TypeOK, WriteOK, Right
  <2> QED
    BY <2>3, <2>4, <2>5 DEF IInv
<1>2. CASE SinkIt
  BY <1>2 DEF SinkIt, IInv, TypeOK, FileOK, WriteOK
<1>3. CASE Check
  <2>1. PICK t \in Time : pc' = IF getLocalHour(t) # current_hour THEN "open" ELSE "write"
    BY <1>3 DEF Check
  <2>2. UNCHANGED <<now, ticks, begin, file, current_hour>>
    BY <1>3 DEF Check
  <2>3. TypeOK' /\ begin' <= now' /\ FileOK'
    BY <2>1, <2>2 DEF IInv, TypeOK, FileOK
  <2>4. WriteOK'
    BY <2>1, <2>2, Kept DEF WriteOK, Right
  <2> QED
    BY <2>3, <2>4 DEF IInv
<1>4. CASE Open
  <2>1. /\ now \in Int /\ begin - 1 \in Int /\ begin - 1 <= now
        /\ file' = LocalHours(now) /\ current_hour' = getLocalHour(now) /\ pc' = "write"
        /\ UNCHANGED <<now, ticks, begin>>
    BY <1>4 DEF Open, IInv, TypeOK
  <2>2. LocalHours(begin - 1) <= LocalHours(now)
    BY <2>1, HoursMonotonic
  <2>3. LocalHours(now) \in Int /\ getLocalHour(now) \in 0 .. HoursPerDay - 1
    BY <2>1, TimeTypes
  <2>4. TypeOK' /\ begin' <= now'
    BY <2>1, <2>3 DEF IInv, TypeOK
  <2>5. FileOK' /\ WriteOK'
    BY <2>1, <2>2, <2>3 DEF FileOK, WriteOK, Right, getLocalHour
  <2> QED
    BY <2>4, <2>5 DEF IInv
<1>5. CASE OpenFails
  BY <1>5 DEF OpenFails, IInv, TypeOK, FileOK, WriteOK, Closed
<1>6. CASE Write
  BY <1>6 DEF Write, IInv, TypeOK, FileOK, WriteOK
<1>7. CASE UNCHANGED vars
  BY <1>7 DEF vars, IInv, TypeOK, FileOK, WriteOK, Right
<1> QED
  BY <1>1, <1>2, <1>3, <1>4, <1>5, <1>6, <1>7 DEF Next

\* The invariant holds throughout.
THEOREM Inductive == Spec => []IInv
  BY InitIInv, NextIInv, PTL DEF Spec

\* Whatever the clocks and the disk do during a call, its line is in the file of an hour
\* of the call, or of the same hour of an earlier day.
THEOREM LinesInTheirHour == Spec => []RightFile
<1>1. IInv => RightFile
  <2> SUFFICES ASSUME IInv, pc = "write", file # Closed
               PROVE  \E hour \in LocalHours(begin - 1) .. LocalHours(now) :
                         file <= hour /\ file % HoursPerDay = hour % HoursPerDay
    BY DEF RightFile
  <2>1. begin - 1 \in Int /\ now \in Int
    BY DEF IInv, TypeOK
  <2>2. LocalHours(begin - 1) \in Int /\ LocalHours(now) \in Int
    BY <2>1, TimeTypes
  <2>3. Right(LocalHours(begin - 1), LocalHours(now))
    BY DEF IInv, WriteOK
  <2> QED
    BY <2>2, <2>3 DEF Right
<1> QED
  BY Inductive, <1>1, PTL

-----------------------------------------------------------------------------
(* The calendar *)

\* A number below the divisor is its own remainder.
LEMMA SmallRemainder == \A a \in Nat, n \in Nat \ {0} : a < n => a % n = a
OBVIOUS

\* Within the range nothing wraps.
LEMMA Days ==
  ASSUME NEW t \in Nat, InRange(t)
  PROVE  /\ localDaysFromEpoch(t) = LocalTime(t) \div kDaySeconds
         /\ localDaysFromEpoch(t) \in Int
         /\ getLocalDayZero(t) = localDaysFromEpoch(t) * kDaySeconds + TimeZone
         /\ getLocalDayZero(t) <= t /\ t < getLocalDayZero(t) + kDaySeconds
<1> DEFINE L == LocalTime(t)
           D == kDaySeconds
           d == L \div D
<1>1. D \in Nat \ {0} /\ TimeZone \in Int /\ -D < TimeZone /\ TimeZone <= 0 /\ Width \in Nat \ {0}
  BY TimeTypes, TimeAssumption
<1>2. L \in Int /\ 4 * D <= L /\ L < Width /\ L = t - TimeZone
  BY <1>1 DEF InRange, LocalTime
<1>3. L \in Nat /\ L % Width = L
  BY <1>1, <1>2, SmallRemainder
<1>4. localDaysFromEpoch(t) = d
  BY <1>3 DEF localDaysFromEpoch
<1>5. d \in Int /\ L % D \in 0 .. D - 1 /\ L = D * d + (L % D)
  BY <1>1, <1>2, DivMod
<1>6. d * D = D * d /\ d * D \in Int
  BY <1>1, <1>5
<1>7. d * D <= L /\ L < d * D + D
  BY <1>1, <1>2, <1>5, <1>6
<1>8. d * D + TimeZone \in Nat /\ d * D + TimeZone < Width
  BY <1>1, <1>2, <1>6, <1>7
<1>9. getLocalDayZero(t) = d * D + TimeZone
  BY <1>1, <1>4, <1>8, SmallRemainder DEF getLocalDayZero
<1> QED
  BY <1>1, <1>2, <1>4, <1>5, <1>6, <1>7, <1>9

\* The beginning of the week by the weekday of gmtime_r is that of the week counted from
\* the epoch.
LEMMA Mondays ==
  ASSUME NEW t \in Nat, InRange(t)
  PROVE  /\ localWeeksFromEpoch(t) \in Int
         /\ getLocalMondayZero(t) = kDaySeconds * (7 * localWeeksFromEpoch(t) - 3) + TimeZone
<1> DEFINE d == localDaysFromEpoch(t)
           w == localWeeksFromEpoch(t)
           D == kDaySeconds
           days == IF tm_wday(t) # 0 THEN tm_wday(t) ELSE 7
<1>1. D \in Nat \ {0} /\ TimeZone \in Int
  BY TimeTypes, TimeAssumption
<1>2. d \in Int /\ tm_wday(t) = (d + 4) % 7 /\ getLocalDayZero(t) = d * D + TimeZone
  BY Days DEF tm_wday
<1>3. w \in Int /\ w = (d + 3) \div 7
  BY <1>2 DEF localWeeksFromEpoch
<1>4. days - 1 = (d + 3) % 7 /\ days \in Int
  <2> HIDE DEF d
  <2> QED
    BY <1>2
<1>5. d - (days - 1) = 7 * w - 3
  <2> HIDE DEF d, days, w
  <2> QED
    BY <1>2, <1>3, <1>4
<1>6. getLocalMondayZero(t) = (d * D + TimeZone) - (days - 1) * D
  <2>1. getLocalMondayZero(t) = getLocalDayZero(t) - (days - 1) * D
    BY DEF getLocalMondayZero
  <2> HIDE DEF d, days, D
  <2> QED
    BY <1>1, <1>2, <1>4, <2>1
<1>7. (d * D + TimeZone) - (days - 1) * D = D * (d - (days - 1)) + TimeZone
  <2> HIDE DEF d, days, D
  <2> QED
    BY <1>1, <1>2, <1>4
<1> QED
  BY <1>3, <1>5, <1>6, <1>7

\* Times are in one week by the count of weeks exactly if their weeks begin together, and
\* a day begins at most a day before each of its times, in all the years 32 bits hold.
THEOREM CalendarAgrees == Spec => []WeeksAgree
<1>1. IInv => WeeksAgree
  <2> SUFFICES ASSUME IInv, InRange(begin), InRange(now)
               PROVE  /\ isSameLocalWeek(begin, now) <=>
                            getLocalMondayZero(begin) = getLocalMondayZero(now)
                      /\ getLocalDayZero(now) <= now /\ now < getLocalDayZero(now) + kDaySeconds
    BY DEF WeeksAgree
  <2>1. begin \in Nat /\ now \in Nat
    BY DEF IInv, TypeOK
  <2>2. PICK b \in Nat, n \in Nat : b = begin /\ n = now
    BY <2>1
  <2>3. InRange(b) /\ InRange(n)
    BY <2>2
  <2>4. getLocalDayZero(n) <= n /\ n < getLocalDayZero(n) + kDaySeconds
    BY <2>3, Days
  <2>5. PICK v \in Int, w \in Int :
             /\ v = localWeeksFromEpoch(b) /\ w = localWeeksFromEpoch(n)
             /\ getLocalMondayZero(b) = kDaySeconds * (7 * v - 3) + TimeZone
             /\ getLocalMondayZero(n) = kDaySeconds * (7 * w - 3) + TimeZone
    BY <2>3, Mondays
  <2>6. kDaySeconds * (7 * v - 3) + TimeZone = kDaySeconds * (7 * w - 3) + TimeZone <=> v = w
    <3>1. kDaySeconds \in Nat \ {0} /\ TimeZone \in Int
      BY TimeTypes, TimeAssumption
    <3>2. ASSUME NEW x \in Int, NEW y \in Int, x < y
          PROVE  kDaySeconds * (7 * x - 3) < kDaySeconds * (7 * y - 3)
      <4>1. kDaySeconds * (7 * y - 7 * x) >= kDaySeconds
        BY <3>1, <3>2, Product
      <4>2. kDaySeconds * (7 * y - 7 * x) = kDaySeconds * (7 * y - 3) - kDaySeconds * (7 * x - 3)
        BY <3>1
      <4> QED
        BY <3>1, <4>1, <4>2
    <3>3. kDaySeconds * (7 * v - 3) \in Int /\ kDaySeconds * (7 * w - 3) \in Int
      BY <3>1
    <3> QED
      BY <3>1, <3>2, <3>3
  <2> QED
    BY <2>2, <2>4, <2>5, <2>6 DEF isSameLocalWeek
<1> QED
  BY Inductive, <1>1, PTL

-----------------------------------------------------------------------------
(* Compression *)

\* m numbers that follow t.
Following(t, m) == [i \in 1 .. m |-> t + i]

LEMMA FollowingType ==
  ASSUME NEW t \in Nat, NEW m \in Nat
  PROVE  /\ Following(t, m) \in Seq(Nat) /\ Len(Following(t, m)) = m
         /\ \A i \in 1 .. m : Following(t, m)[i] = t + i
         /\ Following(t, m) = <<>> <=> m = 0
<1>1. Following(t, m) \in [1 .. m -> Nat]
  BY DEF Following
<1>2. Following(t, m) \in Seq(Nat) /\ Len(Following(t, m)) = m
  BY <1>1
<1>3. \A i \in 1 .. m : Following(t, m)[i] = t + i
  BY DEF Following
<1>4. Following(t, m) = <<>> <=> Len(Following(t, m)) = 0
  BY <1>2, EmptySeq
<1> QED
  BY <1>2, <1>3, <1>4

LEMMA NumbersFollow == ASSUME NEW m \in Nat PROVE Zip!Numbers(m) = Following(0, m)
BY DEF Zip!Numbers, Following

LEMMA FollowingJoin ==
  ASSUME NEW t \in Nat, NEW n \in Nat
  PROVE  Following(0, t) \o Following(t, n) = Following(0, t + n)
<1> DEFINE a == Following(0, t)
           b == Following(t, n)
           c == Following(0, t + n)
<1>0. 0 \in Nat /\ t + n \in Nat
  OBVIOUS
<1>a. a \in Seq(Nat) /\ Len(a) = t /\ \A i \in 1 .. t : a[i] = 0 + i
  BY <1>0, FollowingType
<1>b. b \in Seq(Nat) /\ Len(b) = n /\ \A i \in 1 .. n : b[i] = t + i
  BY FollowingType
<1>c. c \in Seq(Nat) /\ Len(c) = t + n /\ \A i \in 1 .. t + n : c[i] = 0 + i
  BY <1>0, FollowingType
<1> HIDE DEF a, b, c
<1>1. a \o b \in Seq(Nat) /\ Len(a \o b) = t + n
  BY <1>a, <1>b, ConcatProperties
<1>2. \A i \in 1 .. Len(a) + Len(b) : (a \o b)[i] = IF i <= Len(a) THEN a[i] ELSE b[i - Len(a)]
  BY <1>a, <1>b, ConcatProperties
<1>3. ASSUME NEW i \in 1 .. t + n PROVE (a \o b)[i] = c[i]
  <2>1. (a \o b)[i] = IF i <= t THEN a[i] ELSE b[i - t]
    BY <1>a, <1>b, <1>2
  <2>2. i <= t => a[i] = i
    BY <1>a
  <2>3. ~(i <= t) => b[i - t] = i
    BY <1>b
  <2> QED
    BY <1>c, <2>1, <2>2, <2>3
<1> QED
  <2>1. a \o b = c
    BY <1>1, <1>c, <1>3, SeqEqual
  <2> QED
    BY <2>1 DEF a, b, c

\* One turn moves what the buffer has room for from what is pending to the end of vec,
\* whatever the turn before left in the buffer.
LEMMA TurnMoves ==
  ASSUME NEW m \in Nat, total_out \in Nat, pending = Following(total_out, m),
         vec = Following(0, total_out), Zip!Turn
  PROVE  \E n \in 0 .. m : /\ total_out' = total_out + n
                           /\ pending' = Following(total_out + n, m - n)
                           /\ vec' = Following(0, total_out + n)
<1> USE BufferAssumption
<1> DEFINE n == Zip!Least(BufferSize, Len(pending))
           filled == [i \in 1 .. BufferSize |-> IF i <= n THEN pending[i] ELSE buffer[i]]
<1>1. /\ Len(pending) = m /\ pending \in Seq(Nat)
      /\ \A i \in 1 .. m : pending[i] = total_out + i
      /\ Len(vec) = total_out /\ vec \in Seq(Nat)
  BY FollowingType
<1>2. n \in 0 .. m /\ n <= BufferSize
  BY <1>1 DEF Zip!Least
<1>3. /\ total_out' = total_out + n
      /\ pending' = SubSeq(pending, n + 1, m)
      /\ vec' = IF Len(vec) < total_out' THEN vec \o SubSeq(filled, 1, total_out' - Len(vec)) ELSE vec
  BY <1>1 DEF Zip!Turn
<1> HIDE DEF n
<1>a. n \in Nat /\ total_out + n \in Nat /\ m - n \in Nat
  BY <1>2
<1>4. pending' = Following(total_out + n, m - n)
  <2>1. \A i \in n + 1 .. m : pending[i] \in Nat
    BY <1>1, <1>2
  <2>2. /\ SubSeq(pending, n + 1, m) \in Seq(Nat) /\ Len(SubSeq(pending, n + 1, m)) = m - n
        /\ \A i \in 1 .. m - n : SubSeq(pending, n + 1, m)[i] = pending[n + i]
    BY <1>1, <1>2, <2>1, SubSeqProperties
  <2>3. /\ Following(total_out + n, m - n) \in Seq(Nat) /\ Len(Following(total_out + n, m - n)) = m - n
        /\ \A i \in 1 .. m - n : Following(total_out + n, m - n)[i] = total_out + n + i
    BY <1>a, FollowingType
  <2>4. \A i \in 1 .. m - n : pending[n + i] = total_out + n + i
    BY <1>1, <1>2
  <2>5. PICK u \in Seq(Nat), v \in Seq(Nat) :
           u = SubSeq(pending, n + 1, m) /\ v = Following(total_out + n, m - n)
    BY <2>2, <2>3
  <2>6. Len(u) = Len(v) /\ \A i \in 1 .. Len(u) : u[i] = v[i]
    BY <2>2, <2>3, <2>4, <2>5
  <2>7. u = v
    BY <2>6, SeqEqual
  <2> QED
    BY <1>3, <2>5, <2>7
<1>5. vec' = Following(0, total_out + n)
  <2>1. CASE n = 0
    BY <1>1, <1>3, <2>1
  <2>2. CASE n > 0
    <3> HIDE DEF filled
    <3>1. vec' = vec \o SubSeq(filled, 1, n)
      <4>0. total_out' = total_out + n /\ Len(vec) = total_out
        BY <1>1, <1>3
      <4>1. Len(vec) < total_out' /\ total_out' - Len(vec) = n
        BY ONLY <4>0, <1>a, <2>2, total_out \in Nat
      <4> QED
        BY <1>3, <4>1
    <3>2. \A i \in 1 .. n : filled[i] = total_out + i
      BY <1>1, <1>2 DEF filled
    <3>3. /\ SubSeq(filled, 1, n) \in Seq(Nat) /\ Len(SubSeq(filled, 1, n)) = n
          /\ \A i \in 1 .. n : SubSeq(filled, 1, n)[i] = filled[i]
      <4>1. \A i \in 1 .. n : filled[i] \in Nat
        BY <1>2, <3>2
      <4>2. n \in Int /\ n - 1 + 1 = n
        BY <1>2
      <4>3. /\ SubSeq(filled, 1, n) \in Seq(Nat)
            /\ Len(SubSeq(filled, 1, n)) = IF 1 <= n THEN n - 1 + 1 ELSE 0
            /\ \A i \in 1 .. n - 1 + 1 : SubSeq(filled, 1, n)[i] = filled[1 + i - 1]
        BY <4>1, <4>2, SubSeqProperties
      <4> QED
        BY <2>2, <4>2, <4>3
    <3>4. /\ Following(total_out, n) \in Seq(Nat) /\ Len(Following(total_out, n)) = n
          /\ \A i \in 1 .. n : Following(total_out, n)[i] = total_out + i
      BY <1>a, FollowingType
    <3>5. SubSeq(filled, 1, n) = Following(total_out, n)
      BY <3>2, <3>3, <3>4, SeqEqual
    <3> QED
      BY <1>a, <3>1, <3>5, FollowingJoin
  <2> QED
    BY <1>2, <2>1, <2>2
<1> QED
  BY <1>2, <1>3, <1>4, <1>5

\* What the library was shown of the data.
Shown == IF library = "zlib" THEN data % UintWidth ELSE data

\* Of m bytes some are out; they are all there are if the end of the stream follows.
Inflating(m) ==
    /\ total_out \in 0 .. m
    /\ vec = Following(0, total_out) /\ pending = Following(total_out, m - total_out)
    /\ tail \in {"end", "cut", "bad"}
    /\ tail = "end" => m = stream.bytes /\ stream.tail = "end"
    /\ tail # "end" => stream.tail # "end" \/ stream.size >= UintWidth

\* What is there to come out, and out already, at each stage; and what is unpacked is whole,
\* but for a changed byte in a frame of zstd.
ZipInv ==
    /\ data \in Nat /\ library \in {"zlib", "zstd"}
    /\ stream \in [bytes : Nat, size : Nat, tail : {"end", "cut", "bad"}]
    /\ stage \in {"start", "deflate", "kept", "inflate", "unpacked", "threw", "succeeded", "mismatch", "error"}
    /\ stage = "start" => vec = <<>> /\ total_out = 0 /\ stream.tail = "end"
    /\ stage # "start" /\ stream.tail = "end" => stream.bytes = Shown
    /\ stage = "deflate" =>
         /\ library = "zlib" /\ total_out \in 0 .. stream.size /\ stream.tail = "end"
         /\ vec = Following(0, total_out)
         /\ pending = Following(total_out, stream.size - total_out)
    /\ stage = "kept" => vec = Following(0, stream.size)
    /\ stage = "inflate" => library = "zlib" /\ \E m \in Nat : Inflating(m)
    /\ stage = "unpacked" => \/ stream.tail = "end" /\ vec = Following(0, Shown)
                             \/ stream.tail = "bad" /\ library = "zstd"
    /\ stage \in {"threw", "error"} =>
         stream.tail # "end" \/ (library = "zlib" /\ stream.size >= UintWidth)
    /\ stage = "mismatch" => Zip!Unnoticed

LEMMA InitZipInv == Zip!Init => ZipInv
<1> USE BufferAssumption
<1> QED
  BY DEF Zip!Init, Zip!NoStream, ZipInv

LEMMA CompressStartZip == ASSUME ZipInv, Zip!CompressStart PROVE ZipInv'
<1> USE BufferAssumption DEF ZipInv
<1> DEFINE taken == data % UintWidth
<1>1. taken \in Nat
  BY DivMod
<1>2. PICK size \in 1 .. taken + 2 : /\ pending' = Zip!Numbers(size)
                                     /\ stream' = [bytes |-> taken, size |-> size, tail |-> "end"]
  BY DEF Zip!CompressStart
<1>3. /\ stage' = "deflate" /\ library = "zlib" /\ UNCHANGED <<library, data, total_out, vec>>
      /\ total_out = 0 /\ vec = <<>>
  BY DEF Zip!CompressStart
<1>4. size \in Nat /\ pending' = Following(0, size) /\ size - 0 = size /\ vec = Following(0, 0)
  <2>1. size \in Nat
    BY <1>1
  <2> QED
    BY <1>2, <1>3, <2>1, NumbersFollow, FollowingType
<1> HIDE DEF taken
<1>5. Shown' = taken
  BY <1>3 DEF Shown, taken
<1> QED
  BY <1>1, <1>2, <1>3, <1>4, <1>5

LEMMA CompressTurnZip == ASSUME ZipInv, Zip!CompressTurn PROVE ZipInv'
<1> USE BufferAssumption DEF ZipInv
<1> DEFINE m == stream.size - total_out
<1>1. /\ stage = "deflate" /\ Zip!Turn /\ UNCHANGED <<library, data, tail, stream>>
      /\ stage' = IF pending' = <<>> THEN "kept" ELSE "deflate"
  BY DEF Zip!CompressTurn
<1>2. /\ total_out \in Nat /\ m \in Nat /\ pending = Following(total_out, m)
      /\ vec = Following(0, total_out) /\ library = "zlib"
  BY <1>1
<1>3. PICK n \in 0 .. m : /\ total_out' = total_out + n
                          /\ pending' = Following(total_out + n, m - n)
                          /\ vec' = Following(0, total_out + n)
  BY <1>1, <1>2, TurnMoves
<1>4. /\ total_out + n \in Nat /\ m - n \in Nat /\ m - n = stream.size - (total_out + n)
      /\ pending' = <<>> <=> m - n = 0
  <2>1. total_out + n \in Nat /\ m - n \in Nat /\ m - n = stream.size - (total_out + n)
    BY <1>2
  <2> QED
    <3>1. PICK t \in Nat, k \in Nat : t = total_out + n /\ k = m - n
      BY <2>1
    <3>2. Following(t, k) = <<>> <=> k = 0
      BY FollowingType
    <3> QED
      BY <1>3, <2>1, <3>1, <3>2
<1>5. Shown' = Shown
  BY <1>1 DEF Shown
<1>6. CASE pending' = <<>>
  <2>1. stage' = "kept" /\ total_out + n = stream.size
    BY <1>1, <1>2, <1>4, <1>6
  <2> QED
    BY <1>1, <1>3, <1>5, <2>1
<1>7. CASE pending' # <<>>
  <2>1. stage' = "deflate" /\ total_out' \in 0 .. stream.size
    BY <1>1, <1>2, <1>3, <1>4, <1>7
  <2> QED
    BY <1>1, <1>2, <1>3, <1>4, <1>5, <2>1
<1> QED
  BY <1>6, <1>7

LEMMA DamageZip == ASSUME ZipInv, Zip!Damage PROVE ZipInv'
<1> USE DEF ZipInv
<1>1. PICK n \in 0 .. stream.bytes, what \in {"cut", "bad"} :
         stream' = [stream EXCEPT !.bytes = n, !.tail = what]
  BY DEF Zip!Damage
<1>2. stage = "kept" /\ UNCHANGED <<stage, library, data, vec>>
  BY DEF Zip!Damage
<1>3. stream' = [bytes |-> n, size |-> stream.size, tail |-> what]
  BY <1>1
<1> QED
  BY <1>2, <1>3

LEMMA DecompressStartZip == ASSUME ZipInv, Zip!DecompressStart PROVE ZipInv'
<1> USE DEF ZipInv
<1>1. /\ stage = "kept" /\ stage' = "inflate" /\ library = "zlib" /\ vec' = <<>> /\ total_out' = 0
      /\ UNCHANGED <<library, data, stream>> /\ Shown' = Shown
  BY DEF Zip!DecompressStart, Shown
<1>2. PICK n \in Nat : /\ pending' = Zip!Numbers(n)
                       /\ \/ n = stream.bytes /\ tail' = stream.tail
                          \/ tail' = "cut" /\ ~(stream.size < UintWidth)
  BY DEF Zip!DecompressStart
<1>3. pending' = Following(0, n) /\ n - 0 = n /\ <<>> = Following(0, 0)
  BY <1>2, NumbersFollow, FollowingType
<1>4. Inflating(n)'
  BY <1>1, <1>2, <1>3, BufferAssumption DEF Inflating
<1> QED
  BY <1>1, <1>2, <1>4

\* Only the end of a whole stream lets the loop end without an exception.
LEMMA DecompressTurnZip == ASSUME ZipInv, Zip!DecompressTurn PROVE ZipInv'
<1> USE DEF ZipInv
<1>1. /\ stage = "inflate" /\ Zip!Turn /\ UNCHANGED <<library, data, tail, stream>>
      /\ library = "zlib" /\ Shown' = Shown
  BY DEF Zip!DecompressTurn, Shown
<1>2. PICK ret \in {"Z_OK", "Z_STREAM_END", "Z_BUF_ERROR", "Z_DATA_ERROR"} :
         Zip!Returns(ret) /\ Zip!Inflates(ret)
  BY DEF Zip!DecompressTurn
<1>3. PICK k \in Nat : Inflating(k)
  BY <1>1
<1>4. total_out \in Nat /\ k - total_out \in Nat
  BY <1>3 DEF Inflating
<1>5. PICK n \in 0 .. k - total_out :
         /\ total_out' = total_out + n
         /\ pending' = Following(total_out + n, k - total_out - n)
         /\ vec' = Following(0, total_out + n)
  BY <1>1, <1>3, <1>4, TurnMoves DEF Inflating
<1>6. /\ total_out + n \in Nat /\ k - total_out - n \in Nat /\ k - total_out - n = k - (total_out + n)
      /\ total_out' \in 0 .. k
  BY <1>4, <1>5
<1>7. Inflating(k)'
  BY <1>1, <1>3, <1>5, <1>6 DEF Inflating
<1>8. CASE ret = "Z_OK"
  <2>1. stage' = "inflate"
    BY <1>2, <1>8 DEF Zip!Inflates
  <2> QED
    BY <1>1, <1>7, <2>1
<1>9. CASE ret = "Z_STREAM_END"
  <2>1. stage' = "unpacked"
    BY <1>2, <1>9 DEF Zip!Inflates
  <2>2. pending' = <<>> /\ tail = "end"
    BY <1>2, <1>3, <1>9 DEF Zip!Returns, Inflating
  <2>3. k - total_out - n = 0
    <3>1. PICK t \in Nat, j \in Nat : t = total_out + n /\ j = k - total_out - n
      BY <1>6
    <3>2. Following(t, j) = <<>> <=> j = 0
      BY FollowingType
    <3> QED
      BY <1>5, <2>2, <3>1, <3>2
  <2>4. k = stream.bytes /\ stream.tail = "end" /\ total_out + n = k
    BY <1>3, <1>4, <1>6, <2>2, <2>3 DEF Inflating
  <2> QED
    BY <1>1, <1>5, <2>1, <2>4
<1>10. CASE ret \in {"Z_BUF_ERROR", "Z_DATA_ERROR"}
  <2>1. stage' = "threw"
    BY <1>2, <1>10 DEF Zip!Inflates
  <2>2. tail # "end"
    BY <1>2, <1>3, <1>10 DEF Zip!Returns, Inflating
  <2>3. stream.tail # "end" \/ stream.size >= UintWidth
    BY <1>3, <2>2 DEF Inflating
  <2> QED
    BY <1>1, <2>1, <2>3
<1> QED
  BY <1>8, <1>9, <1>10

LEMMA ZstdZip == ASSUME ZipInv, Zip!ZstdCompress \/ Zip!ZstdDecompress PROVE ZipInv'
<1> USE DEF ZipInv
<1>1. CASE Zip!ZstdCompress
  <2>1. PICK size \in 1 .. data + 2 : /\ stream' = [bytes |-> data, size |-> size, tail |-> "end"]
                                      /\ vec' = Zip!Numbers(size)
    BY <1>1 DEF Zip!ZstdCompress
  <2>2. stage' = "kept" /\ library = "zstd" /\ UNCHANGED <<library, data>>
    BY <1>1 DEF Zip!ZstdCompress
  <2>3. size \in Nat /\ vec' = Following(0, size) /\ Shown' = data
    BY <2>1, <2>2, NumbersFollow DEF Shown
  <2> QED
    BY <2>1, <2>2, <2>3
<1>2. CASE Zip!ZstdDecompress
  <2>1. stage = "kept" /\ library = "zstd" /\ UNCHANGED <<library, data, stream>> /\ Shown' = Shown
    BY <1>2 DEF Zip!ZstdDecompress, Shown
  <2>2. CASE stream.tail = "end"
    <3>1. stage' = "unpacked" /\ vec' = Zip!Numbers(stream.bytes)
      BY <1>2, <2>2 DEF Zip!ZstdDecompress
    <3>2. vec' = Following(0, Shown)
      BY <2>1, <2>2, <3>1, NumbersFollow
    <3> QED
      BY <2>1, <2>2, <3>1, <3>2
  <2>3. CASE stream.tail # "end"
    <3>1. stage' = "threw" \/ (stage' = "unpacked" /\ stream.tail = "bad")
      BY <1>2, <2>3 DEF Zip!ZstdDecompress
    <3> QED
      BY <2>1, <2>3, <3>1
  <2> QED
    BY <2>2, <2>3
<1> QED
  BY <1>1, <1>2

\* Data that comes back different was cut by the width of avail_in, or was a frame of zstd
\* with a changed byte.
LEMMA CompareZip == ASSUME ZipInv, Zip!Compare \/ Zip!Catch PROVE ZipInv'
<1> USE BufferAssumption DEF ZipInv
<1>1. UNCHANGED <<library, data, pending, tail, buffer, total_out, vec, stream>> /\ Shown' = Shown
  BY DEF Zip!Compare, Zip!Catch, Zip!Ends, Shown
<1>2. CASE Zip!Catch
  <2>1. stage = "threw" /\ stage' = "error"
    BY <1>2 DEF Zip!Catch, Zip!Ends
  <2> QED
    BY <1>1, <2>1
<1>3. CASE Zip!Compare
  <2>1. stage = "unpacked" /\ stage' = IF vec = Zip!Numbers(data) THEN "succeeded" ELSE "mismatch"
    BY <1>3 DEF Zip!Compare, Zip!Ends
  <2>2. Zip!Numbers(data) = Following(0, data)
    BY NumbersFollow
  <2>3. Shown # data => library = "zlib" /\ data >= UintWidth
    BY SmallRemainder DEF Shown
  <2>4. Zip!Unnoticed' <=> Zip!Unnoticed
    BY <1>1 DEF Zip!Unnoticed
  <2>5. stage' = "mismatch" => Zip!Unnoticed
    BY <2>1, <2>2, <2>3 DEF Zip!Unnoticed
  <2> QED
    BY <1>1, <2>1, <2>4, <2>5
<1> QED
  BY <1>2, <1>3

LEMMA NextZipInv == ZipInv /\ [Zip!Next]_(Zip!compressionVars) => ZipInv'
<1> SUFFICES ASSUME ZipInv, [Zip!Next]_(Zip!compressionVars) PROVE ZipInv'
  OBVIOUS
<1>1. CASE UNCHANGED Zip!compressionVars
  BY <1>1 DEF Zip!compressionVars, ZipInv, Inflating, Shown, Zip!Unnoticed
<1>2. CASE Zip!Next
  BY <1>2, CompressStartZip, CompressTurnZip, DamageZip, DecompressStartZip, DecompressTurnZip,
     ZstdZip, CompareZip DEF Zip!Next
<1> QED
  BY <1>1, <1>2

\* Whatever the size of the data is to that of the buffer, what is unpacked is what was
\* packed, what was cut short is never taken for whole, and main() sees a mismatch in
\* nothing but more data than avail_in counts and frames of zstd with a changed byte.
THEOREM ComesBackWhole == Zip!Spec => []RoundTrip
<1>1. ZipInv => RoundTrip
  <2> SUFFICES ASSUME ZipInv PROVE Zip!RoundTrip
    BY DEF RoundTrip
  <2>1. /\ stream.size \in Nat /\ Shown \in Nat
        /\ Shown = IF library = "zlib" THEN data % UintWidth ELSE data
    BY BufferAssumption, DivMod DEF ZipInv, Shown
  <2>2. Zip!Numbers(stream.size) = Following(0, stream.size) /\ Zip!Numbers(Shown) = Following(0, Shown)
    BY <2>1, NumbersFollow
  <2> QED
    BY <2>1, <2>2 DEF ZipInv, Zip!RoundTrip
<1> QED
  BY <1>1, InitZipInv, NextZipInv, PTL DEF Zip!Spec

=============================================================================
