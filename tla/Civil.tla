------------------------------- MODULE Civil -------------------------------
(* Timestamps as the store and the matcher write them: RFC 3339 text with    *)
(* seconds (aip-sql `format_timestamp`, matcher.rs `rfc3339`).  An instant   *)
(* is a day since 1970-01-01 and a second of it, which TLC's 32-bit integers *)
(* hold up to the year 9999, where a Timestamp ends; a text is its digits.   *)
EXTENDS Integers, Sequences

\* Mutant: the last day of an era is not taken out of its last year.
Mut_CivilFromDays_NoEraEnd(days) ==
  LET z   == days + 719468
      era == z \div 146097
      doe == z - era * 146097
      yoe == (doe - doe \div 1460 + doe \div 36524) \div 365
      doy == doe - (365 * yoe + yoe \div 4 - yoe \div 100)
      mp  == (5 * doy + 2) \div 153
      month == IF mp < 10 THEN mp + 3 ELSE mp - 9
  IN  [year  |-> yoe + era * 400 + (IF month <= 2 THEN 1 ELSE 0),
       month |-> month,
       day   |-> doy - (153 * mp + 2) \div 5 + 1]

\* Howard Hinnant's algorithm: years start in March, eras have 400 years.
CivilFromDays(days) ==
  LET z   == days + 719468
      era == z \div 146097
      doe == z - era * 146097
      yoe == (doe - doe \div 1460 + doe \div 36524 - doe \div 146096) \div 365
      doy == doe - (365 * yoe + yoe \div 4 - yoe \div 100)
      mp  == (5 * doy + 2) \div 153
      month == IF mp < 10 THEN mp + 3 ELSE mp - 9
  IN  [year  |-> yoe + era * 400 + (IF month <= 2 THEN 1 ELSE 0),
       month |-> month,
       day   |-> doy - (153 * mp + 2) \div 5 + 1]

\* The digits of n, one for each of the units.
Padded(n, units) == [i \in DOMAIN units |-> (n \div units[i]) % 10]
Pair(n)          == Padded(n, <<10, 1>>)

\* Without its separators, which stand in the same places of every text.
\* Seconds before the epoch are clamped to it.
FormatTimestamp(days, tod) ==
  LET date == CivilFromDays(IF days < 0 THEN 0 ELSE days)
      t    == IF days < 0 THEN 0 ELSE tod
  IN  Padded(date.year, <<1000, 100, 10, 1>>) \o Pair(date.month) \o Pair(date.day)
      \o Pair(t \div 3600) \o Pair((t % 3600) \div 60) \o Pair(t % 60)

-----------------------------------------------------------------------------
(* The Gregorian calendar, by its rules.                                     *)

IsLeap(year) == year % 4 = 0 /\ (year % 100 = 0 => year % 400 = 0)
MonthLength(year, month) ==
  IF month = 2 THEN (IF IsLeap(year) THEN 29 ELSE 28) ELSE IF month \in {4, 6, 9, 11} THEN 30 ELSE 31

Tomorrow(date) ==
  CASE date.day < MonthLength(date.year, date.month) -> [date EXCEPT !.day = @ + 1]
    [] date.day = MonthLength(date.year, date.month) /\ date.month < 12 ->
         [date EXCEPT !.day = 1, !.month = @ + 1]
    [] OTHER -> [year |-> date.year + 1, month |-> 1, day |-> 1]

SortsBefore(a, b) ==
  \E i \in DOMAIN a : a[i] < b[i] /\ \A j \in 1..(i - 1) : a[j] = b[j]
=============================================================================
