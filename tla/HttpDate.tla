------------------------------- MODULE HttpDate -------------------------------
(* The dates of HTTP/1.1, proto/h1/date.rs: between the seconds since the    *)
(* epoch and the fields of a date, and the three formats a date is parsed    *)
(* from, which differ in how they write the year and the day.                *)
EXTENDS Integers, Sequences

Year9999Days == 2932897 \* YEAR_9999_SECONDS / SECONDS_IN_DAY

-----------------------------------------------------------------------------
(* From<SystemTime> for HttpDate.  Days are counted from March 1, 2000, so   *)
(* that a leap day is the last of its year; Rust's / and % round to zero.    *)

Leapoch == 11017
DaysPer400Y == 365 * 400 + 97
DaysPer100Y == 365 * 100 + 24
DaysPer4Y == 365 * 4 + 1

\* A whole number of cycles, the last of which may be one day longer.
Cycles(days, length, most) == IF days \div length = most THEN most - 1 ELSE days \div length

\* Months from March, and the days before each of them.
MonthLengths == <<31, 30, 31, 30, 31, 31, 30, 31, 30, 31, 31, 29>>
DaysBefore == <<0, 31, 61, 92, 122, 153, 184, 214, 245, 275, 306, 337>>

DateOf(epochDays, secs) ==
  LET days == epochDays - Leapoch
      quads == days \div DaysPer400Y
      d400 == days % DaysPer400Y
      c == Cycles(d400, DaysPer100Y, 4)
      d100 == d400 - c * DaysPer100Y
      q == Cycles(d100, DaysPer4Y, 25)
      d4 == d100 - q * DaysPer4Y
      y == Cycles(d4, 365, 4)
      d1 == d4 - y * 365
      month == CHOOSE m \in 1 .. 12 :
                 d1 \in DaysBefore[m] .. DaysBefore[m] + MonthLengths[m] - 1
      week == (3 + days) % 7
  IN  [second |-> secs % 60, minute |-> (secs % 3600) \div 60, hour |-> secs \div 3600,
       day |-> d1 - DaysBefore[month] + 1,
       month |-> IF month + 2 > 12 THEN month - 10 ELSE month + 2,
       year |-> 2000 + y + 4 * q + 100 * c + 400 * quads + (IF month + 2 > 12 THEN 1 ELSE 0),
       week_day |-> IF week = 0 THEN 7 ELSE week]

-----------------------------------------------------------------------------
(* From<HttpDate> for SystemTime, as days and seconds of the day.            *)

IsLeapYear(year) == year % 4 = 0 /\ (year % 100 # 0 \/ year % 400 = 0)

DaysBeforeMonth == <<0, 31, 59, 90, 120, 151, 181, 212, 243, 273, 304, 334>>

LeapYears(year) ==
  (year - 1 - 1968) \div 4 - (year - 1 - 1900) \div 100 + (year - 1 - 1600) \div 400

EpochDays(date) ==
  (date.year - 1970) * 365 + LeapYears(date.year) + DaysBeforeMonth[date.month] + date.day - 1
    + (IF IsLeapYear(date.year) /\ date.month > 2 THEN 1 ELSE 0)

SecondOfDay(date) == date.second + date.minute * 60 + date.hour * 3600

IsValid(date) ==
  /\ date.second < 60 /\ date.minute < 60 /\ date.hour < 24
  /\ date.day \in 1 .. 31 /\ date.month \in 1 .. 12
  /\ date.year \in 1970 .. 9999 /\ date.week_day \in 1 .. 7

-----------------------------------------------------------------------------
(* Formats.  A written date is its format and its fields as they stand       *)
(* there: `year` as four digits or two, numbers padded or not.               *)

\* Display writes the format of the first parser, digit by digit.
Digit(n, k) == (n \div 10 ^ k) % 10
Format(date) ==
  [format |-> "imf", week_day |-> date.week_day, month |-> date.month,
   day |-> <<Digit(date.day, 1), Digit(date.day, 0)>>,
   year |-> [i \in 1 .. 4 |-> Digit(date.year, 4 - i)],
   hour |-> <<Digit(date.hour, 1), Digit(date.hour, 0)>>,
   minute |-> <<Digit(date.minute, 1), Digit(date.minute, 0)>>,
   second |-> <<Digit(date.second, 1), Digit(date.second, 0)>>]

\* str::parse of digits; a blank before the one digit of asctime's day is cut.
Blank == -1
Value(digits) ==
  LET sum[i \in 0 .. Len(digits)] ==
        IF i = 0 THEN 0 ELSE 10 * sum[i - 1] + (IF digits[i] = Blank THEN 0 ELSE digits[i])
  IN  sum[Len(digits)]

ParsedYear(text) ==
  IF text.format # "rfc850" THEN Value(text.year)
  ELSE IF Value(text.year) < 70 THEN Value(text.year) + 2000 ELSE Value(text.year) + 1900

Parse(text) ==
  [second |-> Value(text.second), minute |-> Value(text.minute), hour |-> Value(text.hour),
   day |-> Value(text.day), month |-> text.month, year |-> ParsedYear(text),
   week_day |-> text.week_day]

-----------------------------------------------------------------------------
(* Checked by TLC on the days it is given, with one second of each.          *)

\* The date after a date, by the calendar: what DateOf is checked against.
MonthLength(year, month) ==
  IF month = 2 THEN (IF IsLeapYear(year) THEN 29 ELSE 28)
  ELSE IF month \in {4, 6, 9, 11} THEN 30 ELSE 31

Tomorrow(date) ==
  LET last == date.day = MonthLength(date.year, date.month)
      year == last /\ date.month = 12
  IN  [date EXCEPT !.day = IF last THEN 1 ELSE @ + 1,
                   !.month = IF year THEN 1 ELSE IF last THEN @ + 1 ELSE @,
                   !.year = IF year THEN @ + 1 ELSE @,
                   !.week_day = IF @ = 7 THEN 1 ELSE @ + 1]

\* Both conversions agree, each day is the day after the one before, and what
\* is written is what is read.
RoundTrips(days, secs) ==
  LET date == DateOf(days, secs)
  IN  /\ IsValid(date)
      /\ EpochDays(date) = days /\ SecondOfDay(date) = secs
      /\ days + 1 < Year9999Days => DateOf(days + 1, secs) = Tomorrow(date)
      /\ Parse(Format(date)) = date
=============================================================================
