------------------------------ MODULE HourlySink ------------------------------
(***************************************************************************)
(* MyHourlyFileSink (src/Base/Log.h): log lines go to a file that is named *)
(* after the hour, and another one is opened when the hour of the day      *)
(* is not the one the file was opened in.  base_sink holds a mutex around  *)
(* sink_it_(), so there is one call at a time.                             *)
(*                                                                         *)
(* sink_it_() and open_file() read two clocks one after the other, and     *)
(* time passes in between.  Opening a file may fail; what is written then  *)
(* is lost.  next_check_time_ is left out: it is set, but never read.      *)
(***************************************************************************)
EXTENDS TimeUtils

CONSTANTS StartTimes,  \* when the sink is created
          MaxTicks     \* bound on the seconds that are explored

ASSUME SinkAssumption == StartTimes \subseteq Nat /\ MaxTicks \in Nat

VARIABLES now,           \* the system clock
          ticks,         \* seconds since the start
          pc,            \* where sink_it_() is
          begin,         \* history: when the call began
          file,          \* the hour in the name of the open file, or Closed
          current_hour   \* current_hour_

vars == <<now, ticks, pc, begin, file, current_hour>>

Closed == -1

\* The constructor calls open_file(); current_hour_ is 0 before.
Init ==
    /\ now \in StartTimes
    /\ ticks = 0
    /\ pc = "idle"
    /\ begin = now
    /\ \/ file = LocalHours(now) /\ current_hour = getLocalHour(now)
       \/ file = Closed /\ current_hour = 0

Tick ==
    /\ ticks < MaxTicks
    /\ ticks' = ticks + 1
    /\ now' = now + 1
    /\ UNCHANGED <<pc, begin, file, current_hour>>

SinkIt ==
    /\ pc = "idle"
    /\ pc' = "check"
    /\ begin' = now
    /\ UNCHANGED <<now, ticks, file, current_hour>>

\* time(NULL) is the time of the last timer tick, which may still have been in the
\* second before.
Time == {now, now - 1}

\* Mutant: only a greater hour opens another file.
CheckGreater ==
    /\ pc = "check"
    /\ \E t \in Time : pc' = IF getLocalHour(t) > current_hour THEN "open" ELSE "write"
    /\ UNCHANGED <<now, ticks, begin, file, current_hour>>

Check ==
    /\ pc = "check"
    /\ \E t \in Time : pc' = IF getLocalHour(t) # current_hour THEN "open" ELSE "write"
    /\ UNCHANGED <<now, ticks, begin, file, current_hour>>

Open ==
    /\ pc = "open"
    /\ pc' = "write"
    /\ file' = LocalHours(now)
    /\ current_hour' = getLocalHour(now)
    /\ UNCHANGED <<now, ticks, begin>>

\* The old file has been closed by then.
OpenFails ==
    /\ pc = "open"
    /\ pc' = "write"
    /\ file' = Closed
    /\ UNCHANGED <<now, ticks, begin, current_hour>>

Write ==
    /\ pc = "write"
    /\ pc' = "idle"
    /\ UNCHANGED <<now, ticks, begin, file, current_hour>>

Next == Tick \/ SinkIt \/ Check \/ Open \/ OpenFails \/ Write

Spec == Init /\ [][Next]_vars

-----------------------------------------------------------------------------
(* Properties *)

TypeOK ==
    /\ now \in Nat /\ ticks \in 0 .. MaxTicks /\ begin \in Nat
    /\ pc \in {"idle", "check", "open", "write"}
    /\ file \in Int /\ current_hour \in 0 .. HoursPerDay - 1

\* A line that is written goes to the file of an hour in which the call was under way,
\* give or take the second that time(NULL) is late, or of that hour of an earlier day: only
\* where the hour of the day is the same again is an old file kept, however old it is.
RightFile ==
    pc = "write" /\ file # Closed =>
        \E hour \in LocalHours(begin - 1) .. LocalHours(now) :
            file <= hour /\ file % HoursPerDay = hour % HoursPerDay

\* The two ways to tell weeks apart agree, one by dividing days and one by the weekday
\* of gmtime_r; and a day begins before each of its times and not a day before.
WeeksAgree ==
    InRange(begin) /\ InRange(now) =>
        /\ isSameLocalWeek(begin, now) <=> getLocalMondayZero(begin) = getLocalMondayZero(now)
        /\ getLocalDayZero(now) <= now /\ now < getLocalDayZero(now) + kDaySeconds

=============================================================================
