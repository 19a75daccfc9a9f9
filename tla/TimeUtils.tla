------------------------------ MODULE TimeUtils ------------------------------
(***************************************************************************)
(* The calendar arithmetic of src/Base/TimeUtils.h that is more than a     *)
(* field of the struct tm which gmtime_r fills in.  Seconds are integers;  *)
(* where the code computes in 32 bits, so do the definitions.              *)
(***************************************************************************)
EXTENDS Integers

CONSTANTS kHourSeconds,  \* 3600 in the code
          HoursPerDay,   \* 24
          TimeZone,      \* getTimeZone(), -8 hours: what is taken off a time to make it local
          Width          \* 2^32, the number of values of a uint32_t

kDaySeconds == HoursPerDay * kHourSeconds

ASSUME TimeAssumption ==
    /\ kHourSeconds \in Nat \ {0} /\ HoursPerDay \in Nat \ {0} /\ Width \in Nat \ {0}
    /\ TimeZone \in Int /\ -kDaySeconds < TimeZone /\ TimeZone <= 0

LocalTime(t) == t - TimeZone

\* gmtime_r: the hours since the epoch, of which the fields up to tm_hour are another
\* way to write, the hour of the day, and the day of the week, which was a Thursday
\* at the epoch.
LocalHours(t)   == LocalTime(t) \div kHourSeconds
getLocalHour(t) == LocalHours(t) % HoursPerDay
tm_wday(t)      == (LocalTime(t) \div kDaySeconds + 4) % 7

\* An int32_t divided by a uint32_t is divided as a uint32_t.
localDaysFromEpoch(t) == (LocalTime(t) % Width) \div kDaySeconds

\* Mutant: weeks begin on the weekday of the epoch.
localWeeksFromThursday(t) == localDaysFromEpoch(t) \div 7

localWeeksFromEpoch(t) == (localDaysFromEpoch(t) + 3) \div 7

isSameLocalWeek(t, u) == localWeeksFromEpoch(t) = localWeeksFromEpoch(u)

getLocalDayZero(t) == (localDaysFromEpoch(t) * kDaySeconds + TimeZone) % Width

getLocalMondayZero(t) ==
    LET days == IF tm_wday(t) # 0 THEN tm_wday(t) ELSE 7
    IN  getLocalDayZero(t) - (days - 1) * kDaySeconds

\* The times for which 32 bits are enough: from the first Monday after the epoch on,
\* for about 136 years.
InRange(t) == 4 * kDaySeconds <= LocalTime(t) /\ LocalTime(t) < Width

=============================================================================
