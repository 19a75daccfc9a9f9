\* Days of three hours of two seconds, and 128 values of a uint32_t.  Up to ten bytes to be
\* compressed, a buffer of three, and an avail_in below seven.
SPECIFICATION MCSpec
CONSTANTS
    kHourSeconds = 2
    HoursPerDay = 3
    TimeZone <- EastOne
    Width = 128
    StartTimes <- Starts
    MaxTicks = 9
    MaxData = 10
    BufferSize = 3
    UintWidth = 7
INVARIANTS RightFile WeeksAgree RoundTrip
CHECK_DEADLOCK FALSE
