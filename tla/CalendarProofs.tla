-------------------------- MODULE CalendarProofs ---------------------------
(* format_timestamp for every day from the epoch to the end of the year 9999, *)
(* where a Timestamp ends.                                                     *)
EXTENDS Requests, OrderProofs

-----------------------------------------------------------------------------
(* The calendar.  A day of a 400-year era is its century, its four-year cycle  *)
(* in that, its year in that, and its day in the year, which begins in March.  *)

Cycle(c, q, y, t) ==
  /\ c \in 0..3 /\ q \in 0..24 /\ y \in 0..3 /\ t \in 0..365
  /\ t = 365 => y = 3 /\ (q = 24 => c = 3)

DayOfEra(c, q, y, t) == 36524 * c + 1461 * q + 365 * y + t

\* Every day of an era is one of those.
LEMMA EveryDay ==
  ASSUME NEW doe \in Nat, doe <= 146096
  PROVE  \E c, q, y, t : Cycle(c, q, y, t) /\ doe = DayOfEra(c, q, y, t)
<1>1. \E c \in Nat, r \in Nat : c <= 3 /\ doe = 36524 * c + r /\ r <= 36524 /\ (c # 3 => r <= 36523)
  <2>1. CASE doe < 36524  BY <2>1, doe = 36524 * 0 + doe, SMT
  <2>2. CASE 36524 <= doe /\ doe < 73048  BY <2>2, doe = 36524 * 1 + (doe - 36524), SMT
  <2>3. CASE 73048 <= doe /\ doe < 109572  BY <2>3, doe = 36524 * 2 + (doe - 73048), SMT
  <2>4. CASE 109572 <= doe  BY <2>4, doe = 36524 * 3 + (doe - 109572), SMT
  <2> QED  BY <2>1, <2>2, <2>3, <2>4, SMT
<1>2. PICK c \in Nat, r \in Nat : c <= 3 /\ doe = 36524 * c + r /\ r <= 36524 /\ (c # 3 => r <= 36523)  BY <1>1, SMT
<1>3. r \div 1461 \in Nat /\ r - 1461 * (r \div 1461) \in Nat /\ r - 1461 * (r \div 1461) <= 1460  BY <1>2, SMT
<1>4. PICK q \in Nat, s \in Nat : r = 1461 * q + s /\ s <= 1460  BY <1>2, <1>3, SMT
<1>5. q <= 24 /\ (q = 24 /\ c # 3 => s <= 1459)  BY <1>2, <1>4, SMT
<1>6. \E y \in Nat, t \in Nat : y <= 3 /\ t <= 365 /\ s = 365 * y + t /\ (t = 365 => y = 3)
  <2>1. CASE s < 365  BY <2>1, s = 365 * 0 + s, SMT
  <2>2. CASE 365 <= s /\ s < 730  BY <2>2, s = 365 * 1 + (s - 365), SMT
  <2>3. CASE 730 <= s /\ s < 1095  BY <2>3, s = 365 * 2 + (s - 730), SMT
  <2>4. CASE 1095 <= s  BY <1>4, <2>4, s = 365 * 3 + (s - 1095), SMT
  <2> QED  BY <2>1, <2>2, <2>3, <2>4, SMT
<1>7. PICK y \in Nat, t \in Nat : y <= 3 /\ t <= 365 /\ s = 365 * y + t /\ (t = 365 => y = 3)  BY <1>6, SMT
<1>8. Cycle(c, q, y, t)  BY <1>2, <1>4, <1>5, <1>7, SMT DEF Cycle
<1>9. doe = DayOfEra(c, q, y, t)  BY <1>2, <1>4, <1>7, SMT DEF DayOfEra
<1> WITNESS c, q, y, t
<1> QED  BY <1>8, <1>9, SMT

\* ... and the divisions of civil_from_days find which.
LEMMA YearOfDay ==
  ASSUME NEW c, NEW q, NEW y, NEW t, Cycle(c, q, y, t)
  PROVE  LET doe == DayOfEra(c, q, y, t)
             yoe == (doe - doe \div 1460 + doe \div 36524 - doe \div 146096) \div 365
         IN  /\ doe \in Nat /\ doe <= 146096
             /\ yoe = 100 * c + 4 * q + y
             /\ doe - (365 * yoe + yoe \div 4 - yoe \div 100) = t
<1>1. /\ c \in Nat /\ q \in Nat /\ y \in Nat /\ t \in Nat /\ c <= 3 /\ q <= 24 /\ y <= 3 /\ t <= 365
      /\ t = 365 => y = 3 /\ (q = 24 => c = 3)
  BY SMT DEF Cycle
<1> DEFINE doe == DayOfEra(c, q, y, t)
           yoe == (doe - doe \div 1460 + doe \div 36524 - doe \div 146096) \div 365
<1>2. doe = 36524 * c + 1461 * q + 365 * y + t  BY SMT DEF DayOfEra
<1> HIDE DEF doe
<1>3. doe \in Nat  BY <1>1, <1>2, SMT
<1>4. doe <= 146096
  <2>1. c < 3 \/ q < 24 \/ y < 3 \/ t <= 365  BY <1>1, SMT
  <2> QED  BY <1>1, <1>2, SMT
<1>5. \E k \in {0, 1} : doe \div 1460 = 25 * c + q + k /\ (k = 1 <=> 24 * c + q + 365 * y + t >= 1460)
  BY <1>1, <1>2, <1>3, SMT
<1>6. PICK k \in {0, 1} : doe \div 1460 = 25 * c + q + k /\ (k = 1 <=> 24 * c + q + 365 * y + t >= 1460)  BY <1>5, SMT
<1>7. doe \div 36524 - doe \div 146096 = c  BY <1>1, <1>2, <1>3, <1>4, SMT
<1>8. yoe = 100 * c + 4 * q + y
  <2>1. doe - (25 * c + q + k) + c = 365 * (100 * c + 4 * q + y) + (t - k)  BY <1>1, <1>2, <1>6, SMT
  <2>2. t - k >= 0 /\ t - k <= 364  BY <1>1, <1>6, SMT
  <2>3. doe - doe \div 1460 + doe \div 36524 - doe \div 146096 = 365 * (100 * c + 4 * q + y) + (t - k)
    BY <1>1, <1>2, <1>3, <1>6, <1>7, <2>1, SMT
  <2>4. (365 * (100 * c + 4 * q + y) + (t - k)) \div 365 = 100 * c + 4 * q + y  BY <1>1, <1>6, <2>2, SMT
  <2> QED  BY <2>3, <2>4, SMT
<1> HIDE DEF yoe
<1>9. yoe \div 4 = 25 * c + q /\ yoe \div 100 = c  BY <1>1, <1>8, SMT
<1>10. doe - (365 * yoe + yoe \div 4 - yoe \div 100) = t  BY <1>1, <1>2, <1>8, <1>9, SMT
<1> QED  BY <1>3, <1>4, <1>8, <1>10, SMT DEF doe, yoe

\* The first day of the n-th month from March on, and the date of the k-th
\* day after it in the year that begins in March of `year`.
Start(n) == (153 * n + 2) \div 5

Date(year, n, k) ==
  [year  |-> year + (IF n >= 10 THEN 1 ELSE 0),
   month |-> IF n < 10 THEN n + 3 ELSE n - 9,
   day   |-> k + 1]

\* A day of the year is in one month.
LEMMA MonthOfDay ==
  ASSUME NEW t \in Nat, t <= 365
  PROVE  \E n \in Nat, k \in Nat : n <= 11 /\ t = Start(n) + k /\ Start(n) + k < Start(n + 1)
<1> DEFINE n == (5 * t + 2) \div 153
<1>1. n \in Nat /\ n <= 11  BY SMT
<1>2. Start(n) <= t /\ t < Start(n + 1) /\ Start(n) \in Nat  BY <1>1, SMT DEF Start
<1> HIDE DEF n
<1>3. t - Start(n) \in Nat /\ t = Start(n) + (t - Start(n))  BY <1>2, SMT
<1> QED  BY <1>1, <1>2, <1>3, SMT

\* civil_from_days finds that date.
LEMMA CivilIs ==
  ASSUME NEW e \in Nat, NEW c, NEW q, NEW y, NEW t, Cycle(c, q, y, t),
         NEW n \in Nat, NEW k \in Nat, n <= 11, t = Start(n) + k, Start(n) + k < Start(n + 1),
         NEW days \in Int, days + 719468 = 146097 * e + DayOfEra(c, q, y, t)
  PROVE  CivilFromDays(days) = Date(400 * e + 100 * c + 4 * q + y, n, k)
<1> DEFINE z   == days + 719468
           era == z \div 146097
           doe == z - era * 146097
           yoe == (doe - doe \div 1460 + doe \div 36524 - doe \div 146096) \div 365
           doy == doe - (365 * yoe + yoe \div 4 - yoe \div 100)
           mp  == (5 * doy + 2) \div 153
           month == IF mp < 10 THEN mp + 3 ELSE mp - 9
<1>0. CivilFromDays(days) = [year  |-> yoe + era * 400 + (IF month <= 2 THEN 1 ELSE 0),
                             month |-> month,
                             day   |-> doy - (153 * mp + 2) \div 5 + 1]
  BY SMT DEF CivilFromDays
<1>1. DayOfEra(c, q, y, t) \in Nat /\ DayOfEra(c, q, y, t) <= 146096  BY YearOfDay, SMT
<1>2. era = e /\ doe = DayOfEra(c, q, y, t)  BY <1>1, SMT
<1> HIDE DEF doe, era
<1>3. yoe = 100 * c + 4 * q + y /\ doy = t  BY <1>2, YearOfDay, SMT
<1> HIDE DEF yoe, doy
<1>4. t \in Nat /\ c \in Nat /\ q \in Nat /\ y \in Nat  BY SMT DEF Cycle
<1>5. mp = n  BY <1>3, <1>4, SMT DEF Start
<1>6. doy - (153 * mp + 2) \div 5 + 1 = k + 1  BY <1>3, <1>5, SMT DEF Start
<1> HIDE DEF mp
<1>7. month = (IF n < 10 THEN n + 3 ELSE n - 9) /\ (month <= 2 <=> n >= 10)  BY <1>5, SMT
<1> HIDE DEF month
<1>8. yoe + era * 400 + (IF month <= 2 THEN 1 ELSE 0) = 400 * e + 100 * c + 4 * q + y + (IF n >= 10 THEN 1 ELSE 0)
  BY <1>2, <1>3, <1>4, <1>7, SMT
<1> QED  BY <1>0, <1>6, <1>7, <1>8, SMT DEF Date

\* The months from March on have the lengths of the calendar, February as the
\* rest of its year has it.
LEMMA MonthIs ==
  ASSUME NEW year \in Nat, NEW n \in Nat, n <= 11, NEW k
  PROVE  MonthLength(Date(year, n, k).year, Date(year, n, k).month) =
           IF n = 11 THEN IF IsLeap(year + 1) THEN 29 ELSE 28 ELSE Start(n + 1) - Start(n)
<1> DEFINE d == Date(year, n, k)
<1>1. d.year = year + (IF n >= 10 THEN 1 ELSE 0) /\ d.month = IF n < 10 THEN n + 3 ELSE n - 9  BY SMT DEF Date
<1> HIDE DEF d
<1>2. CASE n = 11  BY <1>1, <1>2, SMT DEF MonthLength, d
<1>3. CASE n \in {0, 2, 4, 5, 7, 9, 10}
  <2>1. Start(n + 1) - Start(n) = 31  BY <1>3, SMT DEF Start
  <2>2. d.month \notin {2, 4, 6, 9, 11}  BY <1>1, <1>3, SMT
  <2> QED  BY <1>3, <2>1, <2>2, SMT DEF MonthLength, d
<1>4. CASE n \in {1, 3, 6, 8}
  <2>1. Start(n + 1) - Start(n) = 30  BY <1>4, SMT DEF Start
  <2>2. d.month \in {4, 6, 9, 11}  BY <1>1, <1>4, SMT
  <2> QED  BY <1>4, <2>1, <2>2, SMT DEF MonthLength, d
<1>5. n \in {0, 2, 4, 5, 7, 9, 10} \/ n \in {1, 3, 6, 8} \/ n = 11  BY SMT
<1> QED  BY <1>2, <1>3, <1>4, <1>5, SMT DEF d

\* February has its 29th day in the last year of a cycle, but for three of the
\* four centuries of an era.
LEMMA LeapIs ==
  ASSUME NEW e \in Nat, NEW c, NEW q, NEW y, NEW t, Cycle(c, q, y, t)
  PROVE  IsLeap(400 * e + 100 * c + 4 * q + y + 1) <=> y = 3 /\ (q = 24 => c = 3)
<1> DEFINE year == 400 * e + 100 * c + 4 * q + y + 1
<1>1. c \in Nat /\ q \in Nat /\ y \in Nat /\ c <= 3 /\ q <= 24 /\ y <= 3  BY SMT DEF Cycle
<1>2. year % 4 = (y + 1) % 4  BY <1>1, SMT
<1>3. year % 4 = 0 <=> y = 3  BY <1>1, <1>2, SMT
<1>4. year % 100 = (4 * q + y + 1) % 100  BY <1>1, SMT
<1>5. year % 100 = 0 <=> q = 24 /\ y = 3  BY <1>1, <1>4, SMT
<1>6. year % 400 = (100 * c + 4 * q + y + 1) % 400  BY <1>1, SMT
<1>7. year % 400 = 0 <=> c = 3 /\ q = 24 /\ y = 3  BY <1>1, <1>6, SMT
<1> HIDE DEF year
<1>8. IsLeap(year) <=> y = 3 /\ (q = 24 => c = 3)  BY <1>3, <1>5, <1>7, SMT DEF IsLeap
<1> QED  BY <1>8 DEF year

\* A day, by its era, its day of that, and its month.
IsDay(days, e, c, q, y, t, n, k) ==
  /\ e \in Nat /\ Cycle(c, q, y, t) /\ n \in Nat /\ k \in Nat /\ n <= 11
  /\ t = Start(n) + k /\ Start(n) + k < Start(n + 1)
  /\ days + 719468 = 146097 * e + DayOfEra(c, q, y, t)

YearOf(e, c, q, y) == 400 * e + 100 * c + 4 * q + y

\* Every day from the epoch has such coordinates.
LEMMA DayIs ==
  ASSUME NEW days \in Nat
  PROVE  \E e, c, q, y, t, n, k : IsDay(days, e, c, q, y, t, n, k)
<1> DEFINE z == days + 719468
           e == z \div 146097
           doe == z - e * 146097
<1>1. e \in Nat /\ doe \in Nat /\ doe <= 146096 /\ z = 146097 * e + doe  BY SMT
<1> HIDE DEF e, doe
<1>2. PICK c, q, y, t : Cycle(c, q, y, t) /\ doe = DayOfEra(c, q, y, t)  BY <1>1, EveryDay
<1>3. t \in Nat /\ t <= 365  BY <1>2, SMT DEF Cycle
<1>4. PICK n \in Nat, k \in Nat : n <= 11 /\ t = Start(n) + k /\ Start(n) + k < Start(n + 1)  BY <1>3, MonthOfDay
<1>5. IsDay(days, e, c, q, y, t, n, k)  BY <1>1, <1>2, <1>4 DEF IsDay
<1> QED  BY <1>5

\* civil_from_days computes the date from the coordinates of the day.
LEMMA DateIs ==
  ASSUME NEW days \in Nat, NEW e, NEW c, NEW q, NEW y, NEW t, NEW n, NEW k, IsDay(days, e, c, q, y, t, n, k)
  PROVE  CivilFromDays(days) = Date(YearOf(e, c, q, y), n, k) /\ YearOf(e, c, q, y) \in Nat
<1>1. /\ e \in Nat /\ Cycle(c, q, y, t) /\ n \in Nat /\ k \in Nat /\ n <= 11
      /\ t = Start(n) + k /\ Start(n) + k < Start(n + 1) /\ days \in Int
      /\ days + 719468 = 146097 * e + DayOfEra(c, q, y, t)
  BY SMT DEF IsDay
<1>2. c \in Nat /\ q \in Nat /\ y \in Nat  BY <1>1, SMT DEF Cycle
<1>3. YearOf(e, c, q, y) \in Nat  BY <1>1, <1>2, SMT DEF YearOf
<1>4. CivilFromDays(days) = Date(400 * e + 100 * c + 4 * q + y, n, k)  BY <1>1, CivilIs
<1> QED  BY <1>3, <1>4 DEF YearOf

\* The day after, within its month, at the end of one before February, and at
\* the end of February, where the next year begins.
LEMMA DayAfter ==
  ASSUME NEW days \in Nat, NEW e, NEW c, NEW q, NEW y, NEW t, NEW n, NEW k, IsDay(days, e, c, q, y, t, n, k)
  PROVE  LET year == YearOf(e, c, q, y)
             length == MonthLength(Date(year, n, k).year, Date(year, n, k).month)
         IN  /\ k + 1 <= length /\ length \in Nat
             /\ k + 1 < length => IsDay(days + 1, e, c, q, y, t + 1, n, k + 1)
             /\ k + 1 = length /\ n < 11 => IsDay(days + 1, e, c, q, y, t + 1, n + 1, 0)
             /\ k + 1 = length /\ n = 11 =>
                  \E f, d, r, x : IsDay(days + 1, f, d, r, x, 0, 0, 0) /\ YearOf(f, d, r, x) = year + 1
<1> DEFINE year == YearOf(e, c, q, y)
           length == MonthLength(Date(year, n, k).year, Date(year, n, k).month)
           leap == y = 3 /\ (q = 24 => c = 3)
<1>1. /\ e \in Nat /\ Cycle(c, q, y, t) /\ n \in Nat /\ k \in Nat /\ n <= 11
      /\ t = Start(n) + k /\ Start(n) + k < Start(n + 1)
      /\ days + 719468 = 146097 * e + DayOfEra(c, q, y, t)
  BY DEF IsDay
<1>2. /\ c \in Nat /\ q \in Nat /\ y \in Nat /\ t \in Nat /\ c <= 3 /\ q <= 24 /\ y <= 3 /\ t <= 365
      /\ t = 365 => leap
  BY <1>1, SMT DEF Cycle
<1>3. year \in Nat  BY DateIs
<1>4. IsLeap(year + 1) <=> leap
  <2>1. IsLeap(400 * e + 100 * c + 4 * q + y + 1) <=> leap  BY <1>1, LeapIs
  <2> QED  BY <2>1 DEF YearOf
<1> HIDE DEF year
<1>5. length = IF n = 11 THEN IF leap THEN 29 ELSE 28 ELSE Start(n + 1) - Start(n)  BY <1>1, <1>3, <1>4, MonthIs
<1> HIDE DEF length
<1>6. Start(n) \in Nat /\ Start(n + 1) \in Nat /\ Start(11) = 337 /\ Start(12) = 367 /\ (n < 11 => Start(n + 1) <= 337)
  BY <1>1, SMT DEF Start
<1>7. k + 1 <= length /\ length \in Nat
  <2>1. CASE n = 11  BY <1>1, <1>2, <1>5, <1>6, <2>1, SMT
  <2>2. CASE n < 11  BY <1>1, <1>2, <1>5, <1>6, <2>2, SMT
  <2> QED  BY <1>1, <2>1, <2>2, SMT
<1>8. ASSUME NEW s \in Nat, s = t + 1, s <= 364 \/ (s = 365 /\ leap)
      PROVE  /\ Cycle(c, q, y, s)
             /\ (days + 1) + 719468 = 146097 * e + DayOfEra(c, q, y, s)
  <2>1. Cycle(c, q, y, s)  BY <1>2, <1>8, SMT DEF Cycle
  <2>2. (days + 1) + 719468 = 146097 * e + DayOfEra(c, q, y, s)  BY <1>1, <1>2, <1>8, SMT DEF DayOfEra
  <2> QED  BY <2>1, <2>2
<1>9. ASSUME k + 1 < length PROVE IsDay(days + 1, e, c, q, y, t + 1, n, k + 1)
  <2>1. /\ t + 1 \in Nat /\ (t + 1 <= 364 \/ (t + 1 = 365 /\ leap))
        /\ t + 1 = Start(n) + (k + 1) /\ Start(n) + (k + 1) < Start(n + 1)
    <3>1. CASE n = 11  BY <1>1, <1>2, <1>5, <1>6, <1>9, <3>1, SMT
    <3>2. CASE n < 11  BY <1>1, <1>2, <1>5, <1>6, <1>9, <3>2, SMT
    <3> QED  BY <1>1, <3>1, <3>2, SMT
  <2>2. Cycle(c, q, y, t + 1) /\ (days + 1) + 719468 = 146097 * e + DayOfEra(c, q, y, t + 1)  BY <1>8, <2>1
  <2>3. k + 1 \in Nat  BY <1>1
  <2> QED  BY <1>1, <2>1, <2>2, <2>3 DEF IsDay
<1>10. ASSUME k + 1 = length, n < 11 PROVE IsDay(days + 1, e, c, q, y, t + 1, n + 1, 0)
  <2>1. t + 1 \in Nat /\ t + 1 <= 364 /\ t + 1 = Start(n + 1) + 0 /\ n + 1 \in Nat /\ n + 1 <= 11
    BY <1>1, <1>2, <1>5, <1>6, <1>10, SMT
  <2>2. Start(n + 1) + 0 < Start((n + 1) + 1)  BY <1>1, SMT DEF Start
  <2>3. Cycle(c, q, y, t + 1) /\ (days + 1) + 719468 = 146097 * e + DayOfEra(c, q, y, t + 1)  BY <1>8, <2>1
  <2> QED  BY <1>1, <2>1, <2>2, <2>3 DEF IsDay
<1>11. ASSUME k + 1 = length, n = 11
       PROVE  \E f, d, r, x : IsDay(days + 1, f, d, r, x, 0, 0, 0) /\ YearOf(f, d, r, x) = year + 1
  <2>1. t = IF leap THEN 365 ELSE 364  BY <1>1, <1>2, <1>5, <1>6, <1>11, SMT
  <2>2. Start(0) = 0 /\ Start(0) + 0 < Start(0 + 1)  BY SMT DEF Start
  <2>3. ASSUME NEW f \in Nat, NEW d \in Nat, NEW r \in Nat, NEW x \in Nat, d <= 3, r <= 24, x <= 3,
               (days + 1) + 719468 = 146097 * f + 36524 * d + 1461 * r + 365 * x
        PROVE  IsDay(days + 1, f, d, r, x, 0, 0, 0)
    <3>1. Cycle(d, r, x, 0)  BY <2>3, SMT DEF Cycle
    <3>2. (days + 1) + 719468 = 146097 * f + DayOfEra(d, r, x, 0)  BY <2>3, SMT DEF DayOfEra
    <3>3. 0 = Start(0) + 0 /\ 0 \in Nat /\ 0 <= 11  BY <2>2, SMT
    <3> QED  BY <2>2, <2>3, <3>1, <3>2, <3>3 DEF IsDay
  <2>4. days + 719468 = 146097 * e + 36524 * c + 1461 * q + 365 * y + t  BY <1>1, <1>2, SMT DEF DayOfEra
  <2>5. CASE y < 3
    <3>1. t = 364 /\ y + 1 \in Nat /\ y + 1 <= 3  BY <1>2, <2>1, <2>5, SMT
    <3>2. (days + 1) + 719468 = 146097 * e + 36524 * c + 1461 * q + 365 * (y + 1)  BY <1>1, <1>2, <2>4, <3>1, SMT
    <3>3. IsDay(days + 1, e, c, q, y + 1, 0, 0, 0)  BY <1>1, <1>2, <2>3, <3>1, <3>2
    <3>4. YearOf(e, c, q, y + 1) = year + 1  BY <1>1, <1>2, SMT DEF YearOf, year
    <3> QED  BY <3>3, <3>4
  <2>6. CASE y = 3 /\ q < 24
    <3>1. t = 365 /\ q + 1 \in Nat /\ q + 1 <= 24  BY <1>2, <2>1, <2>6, SMT
    <3>2. (days + 1) + 719468 = 146097 * e + 36524 * c + 1461 * (q + 1) + 365 * 0  BY <1>1, <1>2, <2>4, <2>6, <3>1, SMT
    <3>3. IsDay(days + 1, e, c, q + 1, 0, 0, 0, 0)  BY <1>1, <1>2, <2>3, <3>1, <3>2
    <3>4. YearOf(e, c, q + 1, 0) = year + 1  BY <1>1, <1>2, <2>6, SMT DEF YearOf, year
    <3> QED  BY <3>3, <3>4
  <2>7. CASE y = 3 /\ q = 24 /\ c < 3
    <3>1. t = 364 /\ c + 1 \in Nat /\ c + 1 <= 3  BY <1>2, <2>1, <2>7, SMT
    <3>2. (days + 1) + 719468 = 146097 * e + 36524 * (c + 1) + 1461 * 0 + 365 * 0  BY <1>1, <1>2, <2>4, <2>7, <3>1, SMT
    <3>3. IsDay(days + 1, e, c + 1, 0, 0, 0, 0, 0)  BY <1>1, <1>2, <2>3, <3>1, <3>2
    <3>4. YearOf(e, c + 1, 0, 0) = year + 1  BY <1>1, <1>2, <2>7, SMT DEF YearOf, year
    <3> QED  BY <3>3, <3>4
  <2>8. CASE y = 3 /\ q = 24 /\ c = 3
    <3>1. t = 365 /\ e + 1 \in Nat  BY <1>1, <1>2, <2>1, <2>8, SMT
    <3>2. (days + 1) + 719468 = 146097 * (e + 1) + 36524 * 0 + 1461 * 0 + 365 * 0  BY <1>1, <1>2, <2>4, <2>8, <3>1, SMT
    <3>3. IsDay(days + 1, e + 1, 0, 0, 0, 0, 0, 0)  BY <1>1, <1>2, <2>3, <3>1, <3>2
    <3>4. YearOf(e + 1, 0, 0, 0) = year + 1  BY <1>1, <1>2, <2>8, SMT DEF YearOf, year
    <3> QED  BY <3>3, <3>4
  <2> QED  BY <1>2, <2>5, <2>6, <2>7, <2>8, SMT
<1> QED  BY <1>7, <1>9, <1>10, <1>11 DEF year, length

\* What follows a date, and why it is later.
LaterDate(a, b) ==
  \/ a.year < b.year
  \/ a.year = b.year /\ a.month < b.month
  \/ a.year = b.year /\ a.month = b.month /\ a.day < b.day

IsDate(a) == /\ a.year \in Nat /\ a.month \in Nat /\ a.day \in Nat
             /\ a.month <= 12 /\ a.day <= 31

\* The fields of a date.
LEMMA DateFields ==
  ASSUME NEW year \in Nat, NEW n \in Nat, n <= 11, NEW k \in Nat
  PROVE  LET d == Date(year, n, k)
         IN  /\ d.year = year + (IF n >= 10 THEN 1 ELSE 0)
             /\ d.month = (IF n < 10 THEN n + 3 ELSE n - 9) /\ d.day = k + 1
             /\ d.year \in Nat /\ d.month \in 1..12 /\ d.day \in Nat
             /\ d = [year |-> d.year, month |-> d.month, day |-> d.day]
<1> DEFINE d == Date(year, n, k)
<1>1. d = [year |-> year + (IF n >= 10 THEN 1 ELSE 0), month |-> IF n < 10 THEN n + 3 ELSE n - 9, day |-> k + 1]
  BY DEF Date
<1> HIDE DEF d
<1>2. /\ d.year = year + (IF n >= 10 THEN 1 ELSE 0)
      /\ d.month = (IF n < 10 THEN n + 3 ELSE n - 9) /\ d.day = k + 1
  BY <1>1
<1>3. d = [year |-> d.year, month |-> d.month, day |-> d.day]  BY <1>1
<1>4. d.year \in Nat /\ d.month \in 1..12 /\ d.day \in Nat  BY <1>2, SMT
<1> QED  BY <1>2, <1>3, <1>4 DEF d

\* The three ways in which a day follows another.
LEMMA TomorrowIs ==
  ASSUME NEW a, NEW year \in Nat, NEW month \in 1..12, NEW day \in Nat,
         a = [year |-> year, month |-> month, day |-> day]
  PROVE  /\ day < MonthLength(year, month) => Tomorrow(a) = [year |-> year, month |-> month, day |-> day + 1]
         /\ day = MonthLength(year, month) /\ month < 12 =>
              Tomorrow(a) = [year |-> year, month |-> month + 1, day |-> 1]
         /\ day = MonthLength(year, month) /\ month = 12 =>
              Tomorrow(a) = [year |-> year + 1, month |-> 1, day |-> 1]
<1>1. a.year = year /\ a.month = month /\ a.day = day  OBVIOUS
<1>2. MonthLength(year, month) \in Nat  BY DEF MonthLength
<1> DEFINE m == MonthLength(year, month)
<1>3. ASSUME day < m PROVE Tomorrow(a) = [year |-> year, month |-> month, day |-> day + 1]
  <2>1. Tomorrow(a) = [a EXCEPT !.day = @ + 1]  BY <1>1, <1>3 DEF Tomorrow
  <2> QED  BY <1>1, <2>1
<1>4. ASSUME day = m, month < 12 PROVE Tomorrow(a) = [year |-> year, month |-> month + 1, day |-> 1]
  <2>0. ~(day < m)  BY <1>2, <1>4
  <2>1. Tomorrow(a) = [a EXCEPT !.day = 1, !.month = @ + 1]  BY <1>1, <1>4, <2>0 DEF Tomorrow
  <2> QED  BY <1>1, <2>1
<1>5. ASSUME day = m, month = 12 PROVE Tomorrow(a) = [year |-> year + 1, month |-> 1, day |-> 1]
  <2>0. ~(day < m) /\ ~(month < 12)  BY <1>2, <1>5
  <2>1. Tomorrow(a) = [year |-> a.year + 1, month |-> 1, day |-> 1]  BY <1>1, <1>5, <2>0 DEF Tomorrow
  <2> QED  BY <1>1, <2>1
<1> QED  BY <1>3, <1>4, <1>5

\* The days of the count are those of the Gregorian calendar.
LEMMA CalendarFollows ==
  ASSUME NEW days \in Nat
  PROVE  /\ CivilFromDays(days + 1) = Tomorrow(CivilFromDays(days))
         /\ LaterDate(CivilFromDays(days), CivilFromDays(days + 1))
         /\ IsDate(CivilFromDays(days))
<1>1. PICK e, c, q, y, t, n, k : IsDay(days, e, c, q, y, t, n, k)  BY DayIs
<1> DEFINE Y == YearOf(e, c, q, y)
           a == Date(Y, n, k)
           length == MonthLength(a.year, a.month)
           b == CivilFromDays(days + 1)
<1>2. CivilFromDays(days) = a /\ Y \in Nat  BY <1>1, DateIs
<1>3. n \in Nat /\ n <= 11 /\ k \in Nat /\ days + 1 \in Nat  BY <1>1 DEF IsDay
<1>4. /\ k + 1 <= length /\ length \in Nat
      /\ k + 1 < length => IsDay(days + 1, e, c, q, y, t + 1, n, k + 1)
      /\ k + 1 = length /\ n < 11 => IsDay(days + 1, e, c, q, y, t + 1, n + 1, 0)
      /\ k + 1 = length /\ n = 11 =>
           \E f, d, r, x : IsDay(days + 1, f, d, r, x, 0, 0, 0) /\ YearOf(f, d, r, x) = Y + 1
  BY <1>1, DayAfter
<1> HIDE DEF Y
<1>5. /\ a.year = Y + (IF n >= 10 THEN 1 ELSE 0) /\ a.month = (IF n < 10 THEN n + 3 ELSE n - 9) /\ a.day = k + 1
      /\ a.year \in Nat /\ a.month \in 1..12 /\ a.day \in Nat
      /\ a = [year |-> a.year, month |-> a.month, day |-> a.day]
  BY <1>2, <1>3, DateFields
<1>6. length <= 31  BY DEF MonthLength
<1> HIDE DEF a, length
<1>7. IsDate(a)  BY <1>3, <1>4, <1>5, <1>6 DEF IsDate
<1> DEFINE yy == a.year
           mm == a.month
           dd == a.day
<1>8. /\ dd < length => Tomorrow(a) = [year |-> yy, month |-> mm, day |-> dd + 1]
      /\ dd = length /\ mm < 12 => Tomorrow(a) = [year |-> yy, month |-> mm + 1, day |-> 1]
      /\ dd = length /\ mm = 12 => Tomorrow(a) = [year |-> yy + 1, month |-> 1, day |-> 1]
  <2>1. yy \in Nat /\ mm \in 1..12 /\ dd \in Nat /\ a = [year |-> yy, month |-> mm, day |-> dd]  BY <1>5
  <2>2. length = MonthLength(yy, mm)  BY DEF length
  <2> HIDE DEF yy, mm, dd
  <2> QED  BY <2>1, <2>2, TomorrowIs
<1>9. CASE k + 1 < length
  <2>1. b = Date(Y, n, k + 1)
    <3>1. IsDay(days + 1, e, c, q, y, t + 1, n, k + 1)  BY <1>4, <1>9
    <3> QED  BY <1>3, <3>1, DateIs DEF Y
  <2>2. b = [year |-> Y + (IF n >= 10 THEN 1 ELSE 0), month |-> IF n < 10 THEN n + 3 ELSE n - 9, day |-> k + 1 + 1]
    BY <2>1 DEF Date
  <2>3. Tomorrow(a) = [year |-> a.year, month |-> a.month, day |-> a.day + 1]  BY <1>5, <1>8, <1>9
  <2> HIDE DEF b
  <2>4. b = Tomorrow(a)  BY <1>5, <2>2, <2>3
  <2>5. b.year = a.year /\ b.month = a.month /\ b.day = a.day + 1  BY <2>3, <2>4
  <2>6. LaterDate(a, b)  BY <1>5, <2>5 DEF LaterDate
  <2> QED  BY <1>2, <1>7, <2>4, <2>6 DEF b
<1>10. CASE k + 1 = length /\ n < 11
  <2>1. b = Date(Y, n + 1, 0)
    <3>1. IsDay(days + 1, e, c, q, y, t + 1, n + 1, 0)  BY <1>4, <1>10
    <3> QED  BY <1>3, <3>1, DateIs DEF Y
  <2>2. b = [year |-> Y + (IF n + 1 >= 10 THEN 1 ELSE 0), month |-> IF n + 1 < 10 THEN n + 1 + 3 ELSE (n + 1) - 9, day |-> 0 + 1]
    <3> HIDE DEF b
    <3> QED  BY ONLY <2>1 DEF Date
  <2> HIDE DEF b
  <2>3. CASE n = 9
    <3>1. a.month = 12 /\ a.year = Y  BY <1>2, <1>5, <2>3
    <3>2. Tomorrow(a) = [year |-> a.year + 1, month |-> 1, day |-> 1]  BY <1>5, <1>8, <1>10, <3>1
    <3>3. b = [year |-> Y + 1, month |-> 1, day |-> 1]  BY <2>2, <2>3
    <3>4. b = Tomorrow(a)  BY <3>1, <3>2, <3>3
    <3>5. b.year = a.year + 1  BY <3>1, <3>3
    <3>6. LaterDate(a, b)  BY <1>5, <3>5 DEF LaterDate
    <3> QED  BY <1>2, <1>7, <3>4, <3>6 DEF b
  <2>4. CASE n # 9
    <3>1. a.month < 12  BY <1>3, <1>5, <1>10, <2>4
    <3>2. Tomorrow(a) = [year |-> a.year, month |-> a.month + 1, day |-> 1]  BY <1>5, <1>8, <1>10, <3>1
    <3>3. Y + (IF n + 1 >= 10 THEN 1 ELSE 0) = a.year /\ (IF n + 1 < 10 THEN n + 1 + 3 ELSE (n + 1) - 9) = a.month + 1
      BY <1>2, <1>3, <1>5, <2>4
    <3>4. b = Tomorrow(a)  BY <2>2, <3>2, <3>3
    <3>5. b.year = a.year /\ b.month = a.month + 1  BY <3>2, <3>4
    <3>6. LaterDate(a, b)  BY <1>5, <3>5 DEF LaterDate
    <3> QED  BY <1>2, <1>7, <3>4, <3>6 DEF b
  <2> QED  BY <2>3, <2>4
<1>11. CASE k + 1 = length /\ n = 11
  <2>1. PICK f, d, r, x : IsDay(days + 1, f, d, r, x, 0, 0, 0) /\ YearOf(f, d, r, x) = Y + 1  BY <1>4, <1>11
  <2>2. b = Date(Y + 1, 0, 0)
    <3>1. b = Date(YearOf(f, d, r, x), 0, 0)  BY <1>3, <2>1, DateIs
    <3> QED  BY <2>1, <3>1
  <2>3. b = [year |-> Y + 1 + 0, month |-> 0 + 3, day |-> 0 + 1]  BY <2>2 DEF Date
  <2> HIDE DEF b
  <2>4. a.month = 2 /\ a.year = Y + 1  BY <1>5, <1>11
  <2>5. Tomorrow(a) = [year |-> a.year, month |-> a.month + 1, day |-> 1]  BY <1>5, <1>8, <1>11, <2>4
  <2>6. b = Tomorrow(a)  BY <1>2, <2>3, <2>4, <2>5
  <2>7. b.year = a.year /\ b.month = a.month + 1  BY <2>5, <2>6
  <2>8. LaterDate(a, b)  BY <1>5, <2>7 DEF LaterDate
  <2> QED  BY <1>2, <1>7, <2>6, <2>8 DEF b
<1>12. (k + 1 < length) \/ (k + 1 = length /\ n < 11) \/ (k + 1 = length /\ n = 11)  BY <1>3, <1>4
<1> QED  BY <1>9, <1>10, <1>11, <1>12

\* 9999-12-31 is the last day of the year 9999.
LEMMA YearBound ==
  ASSUME NEW days \in Nat, days <= LastDay
  PROVE  CivilFromDays(days).year <= 9999
<1>1. PICK e, c, q, y, t, n, k : IsDay(days, e, c, q, y, t, n, k)  BY DayIs
<1> DEFINE Y == YearOf(e, c, q, y)
           a == Date(Y, n, k)
<1>2. CivilFromDays(days) = a /\ Y \in Nat  BY <1>1, DateIs
<1>3. /\ e \in Nat /\ Cycle(c, q, y, t) /\ n \in Nat /\ k \in Nat /\ n <= 11
      /\ t = Start(n) + k /\ Start(n) \in Nat /\ (n >= 10 => Start(n) >= 306)
      /\ days + 719468 = 146097 * e + DayOfEra(c, q, y, t)
  <2>1. n \in Nat /\ n <= 11  BY <1>1 DEF IsDay
  <2>2. Start(n) \in Nat /\ (n >= 10 => Start(n) >= 306)  BY <2>1, SMT DEF Start
  <2> QED  BY <1>1, <2>1, <2>2 DEF IsDay
<1>4. c \in Nat /\ q \in Nat /\ y \in Nat /\ t \in Nat /\ c <= 3 /\ q <= 24 /\ y <= 3  BY <1>3, SMT DEF Cycle
<1>5. 146097 * e + 36524 * c + 1461 * q + 365 * y + t <= 3652364  BY <1>3, <1>4, SMT DEF DayOfEra, LastDay
<1>6. e <= 24  BY <1>3, <1>4, <1>5, SMT
<1>7. Y = 400 * e + 100 * c + 4 * q + y  BY DEF YearOf
<1> HIDE DEF Y
<1>8. Y <= 9999  BY <1>3, <1>4, <1>6, <1>7, SMT
<1>9. Y = 9999 => n < 10
  <2> SUFFICES ASSUME Y = 9999, n >= 10 PROVE FALSE  BY <1>3
  <2>1. e = 24 /\ c = 3 /\ q = 24 /\ y = 3  BY <1>3, <1>4, <1>6, <1>7, SMT
  <2>2. t >= 306  BY <1>3, SMT
  <2> QED  BY <1>4, <1>5, <2>1, <2>2, SMT
<1>10. a.year = Y + (IF n >= 10 THEN 1 ELSE 0)  BY <1>2, <1>3, DateFields
<1> HIDE DEF a
<1> QED  BY <1>2, <1>3, <1>8, <1>9, <1>10, SMT

-----------------------------------------------------------------------------
(* Digits sort as the numbers they write, field after field.                 *)

\* Two texts joined, place by place.
LEMMA Joins ==
  ASSUME NEW a \in Seq(Nat), NEW b \in Seq(Nat)
  PROVE  /\ a \o b \in Seq(Nat) /\ Len(a \o b) = Len(a) + Len(b) /\ DOMAIN (a \o b) = 1..(Len(a) + Len(b))
         /\ \A i \in 1..Len(a) : (a \o b)[i] = a[i]
         /\ \A i \in 1..Len(b) : (a \o b)[Len(a) + i] = b[i]
<1>0. Len(a) \in Nat /\ Len(b) \in Nat  BY LenProperties
<1>1. /\ a \o b \in Seq(Nat) /\ Len(a \o b) = Len(a) + Len(b)
      /\ \A i \in 1..(Len(a) + Len(b)) : (a \o b)[i] = IF i <= Len(a) THEN a[i] ELSE b[i - Len(a)]
  BY ConcatProperties
<1> DEFINE c == a \o b
<1> HIDE DEF c
<1>2. DOMAIN c = 1..Len(c)  BY <1>1, LenProperties DEF c
<1>3. \A i \in 1..Len(a) : c[i] = a[i]  BY <1>0, <1>1 DEF c
<1>4. ASSUME NEW i \in 1..Len(b) PROVE c[Len(a) + i] = b[i]
  <2>1. Len(a) + i \in 1..(Len(a) + Len(b)) /\ ~(Len(a) + i <= Len(a)) /\ (Len(a) + i) - Len(a) = i  BY <1>0
  <2> QED  BY <1>1, <2>1 DEF c
<1> QED  BY <1>1, <1>2, <1>3, <1>4 DEF c

\* A difference in the first fields decides, whatever follows.
LEMMA SortsAhead ==
  ASSUME NEW a \in Seq(Nat), NEW b \in Seq(Nat), Len(a) = Len(b), SortsBefore(a, b),
         NEW c \in Seq(Nat), NEW d \in Seq(Nat)
  PROVE  SortsBefore(a \o c, b \o d)
<1>0. Len(a) \in Nat /\ DOMAIN a = 1..Len(a) /\ Len(c) \in Nat  BY LenProperties
<1> DEFINE x == a \o c
           z == b \o d
<1>1. DOMAIN x = 1..(Len(a) + Len(c)) /\ \A i \in 1..Len(a) : x[i] = a[i]  BY Joins
<1>2. \A i \in 1..Len(a) : z[i] = b[i]  BY Joins
<1> HIDE DEF x, z
<1>3. PICK i \in 1..Len(a) : a[i] < b[i] /\ \A j \in 1..(i - 1) : a[j] = b[j]  BY <1>0 DEF SortsBefore
<1>4. i \in DOMAIN x  BY <1>0, <1>1
<1>5. x[i] < z[i]  BY <1>1, <1>2, <1>3
<1>6. \A j \in 1..(i - 1) : x[j] = z[j]
  <2> TAKE j \in 1..(i - 1)
  <2>1. j \in 1..Len(a)  BY <1>0
  <2> QED  BY <1>1, <1>2, <1>3, <2>1
<1> QED  BY <1>4, <1>5, <1>6 DEF SortsBefore, x, z

\* Equal first fields leave the decision to the rest.
LEMMA SortsBehind ==
  ASSUME NEW a \in Seq(Nat), NEW c \in Seq(Nat), NEW d \in Seq(Nat), Len(c) = Len(d), SortsBefore(c, d)
  PROVE  SortsBefore(a \o c, a \o d)
<1>0. Len(a) \in Nat /\ DOMAIN c = 1..Len(c) /\ Len(c) \in Nat  BY LenProperties
<1> DEFINE x == a \o c
           z == a \o d
<1>1. /\ DOMAIN x = 1..(Len(a) + Len(c)) /\ \A i \in 1..Len(a) : x[i] = a[i]
      /\ \A i \in 1..Len(c) : x[Len(a) + i] = c[i]
  BY Joins
<1>2. (\A i \in 1..Len(a) : z[i] = a[i]) /\ \A i \in 1..Len(c) : z[Len(a) + i] = d[i]  BY Joins
<1> HIDE DEF x, z
<1>3. PICK i \in 1..Len(c) : c[i] < d[i] /\ \A j \in 1..(i - 1) : c[j] = d[j]  BY <1>0 DEF SortsBefore
<1>4. Len(a) + i \in DOMAIN x  BY <1>0, <1>1
<1>5. x[Len(a) + i] < z[Len(a) + i]  BY <1>1, <1>2, <1>3
<1>6. \A j \in 1..((Len(a) + i) - 1) : x[j] = z[j]
  <2> TAKE j \in 1..((Len(a) + i) - 1)
  <2>1. CASE j <= Len(a)
    <3>1. j \in 1..Len(a)  BY <1>0, <2>1
    <3> QED  BY <1>1, <1>2, <3>1
  <2>2. CASE j > Len(a)
    <3>1. j - Len(a) \in 1..Len(c) /\ j - Len(a) \in 1..(i - 1) /\ j = Len(a) + (j - Len(a))  BY <1>0, <2>2
    <3>2. x[Len(a) + (j - Len(a))] = c[j - Len(a)] /\ z[Len(a) + (j - Len(a))] = d[j - Len(a)]  BY <1>1, <1>2, <3>1
    <3>3. x[j] = c[j - Len(a)] /\ z[j] = d[j - Len(a)]  BY <3>1, <3>2
    <3> QED  BY <1>3, <3>1, <3>3
  <2> QED  BY <1>0, <2>1, <2>2
<1> QED  BY <1>4, <1>5, <1>6 DEF SortsBefore, x, z

\* {:02}: the two digits of a number.
LEMMA PairIs ==
  ASSUME NEW n \in Nat
  PROVE  Pair(n) \in Seq(Nat) /\ Len(Pair(n)) = 2 /\ Pair(n)[1] = (n \div 10) % 10 /\ Pair(n)[2] = n % 10
<1> DEFINE u == <<10, 1>>
           p == [i \in 1..2 |-> (n \div u[i]) % 10]
<1>1. u[1] = 10 /\ u[2] = 1 /\ DOMAIN u = 1..2  OBVIOUS
<1>2. Pair(n) = p  BY <1>1 DEF Pair, Padded
<1> HIDE DEF u
<1>3. p[1] = (n \div 10) % 10 /\ p[2] = (n \div 1) % 10  BY <1>1
<1>4. n \div 1 = n  BY SMT
<1>5. (n \div 10) % 10 \in Nat /\ n % 10 \in Nat  BY SMT
<1>6. p \in [1..2 -> Nat]
  <2>1. \A i \in 1..2 : i = 1 \/ i = 2  OBVIOUS
  <2>2. p[1] \in Nat /\ p[2] \in Nat  BY <1>3, <1>4, <1>5
  <2> QED  BY <2>1, <2>2
<1>7. p \in Seq(Nat) /\ Len(p) = 2  BY <1>6
<1> QED  BY <1>2, <1>3, <1>4, <1>7

Units == <<1000, 100, 10, 1>>
DigitAt(n, unit) == (n \div unit) % 10

\* {:04}: the four digits of a year.
LEMMA YearDigits ==
  ASSUME NEW n \in Nat
  PROVE  /\ Padded(n, Units) \in Seq(Nat) /\ Len(Padded(n, Units)) = 4
         /\ Padded(n, Units)[1] = DigitAt(n, 1000) /\ Padded(n, Units)[2] = DigitAt(n, 100)
         /\ Padded(n, Units)[3] = DigitAt(n, 10) /\ Padded(n, Units)[4] = DigitAt(n, 1)
<1> DEFINE u == Units
           p == [i \in 1..4 |-> DigitAt(n, u[i])]
<1>1. u[1] = 1000 /\ u[2] = 100 /\ u[3] = 10 /\ u[4] = 1 /\ DOMAIN u = 1..4  BY DEF Units
<1>2. Padded(n, Units) = p  BY <1>1 DEF Padded, DigitAt
<1> HIDE DEF u
<1>3. p[1] = DigitAt(n, 1000) /\ p[2] = DigitAt(n, 100) /\ p[3] = DigitAt(n, 10) /\ p[4] = DigitAt(n, 1)  BY <1>1
<1>4. DigitAt(n, 1000) \in Nat /\ DigitAt(n, 100) \in Nat /\ DigitAt(n, 10) \in Nat /\ DigitAt(n, 1) \in Nat
  BY SMT DEF DigitAt
<1>5. p \in [1..4 -> Nat]
  <2>1. \A i \in 1..4 : i = 1 \/ i = 2 \/ i = 3 \/ i = 4  OBVIOUS
  <2>2. p[1] \in Nat /\ p[2] \in Nat /\ p[3] \in Nat /\ p[4] \in Nat  BY <1>3, <1>4
  <2> QED  BY <2>1, <2>2
<1>6. p \in Seq(Nat) /\ Len(p) = 4  BY <1>5
<1> QED  BY <1>2, <1>3, <1>6

\* Two digits sort as numbers up to 99.
LEMMA PairsSort ==
  ASSUME NEW m \in Nat, NEW n \in Nat, m < n, n <= 99
  PROVE  SortsBefore(Pair(m), Pair(n))
<1> DEFINE a == Pair(m)
           b == Pair(n)
<1>1. /\ a \in Seq(Nat) /\ Len(a) = 2 /\ a[1] = (m \div 10) % 10 /\ a[2] = m % 10
      /\ b[1] = (n \div 10) % 10 /\ b[2] = n % 10
  BY PairIs
<1>2. DOMAIN a = 1..2  BY <1>1, LenProperties
<1> HIDE DEF a, b
<1>3. \/ (m \div 10) % 10 < (n \div 10) % 10
      \/ (m \div 10) % 10 = (n \div 10) % 10 /\ m % 10 < n % 10
  BY SMT
<1>4. CASE a[1] < b[1]
  <2>1. \A j \in 1..(1 - 1) : a[j] = b[j]  OBVIOUS
  <2> QED  BY <1>2, <1>4, <2>1 DEF SortsBefore, a, b
<1>5. CASE a[1] = b[1] /\ a[2] < b[2]
  <2>1. \A j \in 1..(2 - 1) : a[j] = b[j]
    <3>1. \A j \in 1..(2 - 1) : j = 1  OBVIOUS
    <3> QED  BY <1>5, <3>1
  <2> QED  BY <1>2, <1>5, <2>1 DEF SortsBefore, a, b
<1> QED  BY <1>1, <1>3, <1>4, <1>5

\* Four digits sort as numbers up to 9999.
LEMMA YearsSort ==
  ASSUME NEW m \in Nat, NEW n \in Nat, m < n, n <= 9999
  PROVE  SortsBefore(Padded(m, Units), Padded(n, Units))
<1> DEFINE a == Padded(m, Units)
           b == Padded(n, Units)
<1>1. /\ a \in Seq(Nat) /\ Len(a) = 4 /\ a[1] = DigitAt(m, 1000) /\ a[2] = DigitAt(m, 100)
      /\ a[3] = DigitAt(m, 10) /\ a[4] = DigitAt(m, 1)
      /\ b[1] = DigitAt(n, 1000) /\ b[2] = DigitAt(n, 100) /\ b[3] = DigitAt(n, 10) /\ b[4] = DigitAt(n, 1)
  BY YearDigits
<1>2. DOMAIN a = 1..4  BY <1>1, LenProperties
<1> HIDE DEF a, b
<1>3. \/ a[1] < b[1]
      \/ a[1] = b[1] /\ a[2] < b[2]
      \/ a[1] = b[1] /\ a[2] = b[2] /\ a[3] < b[3]
      \/ a[1] = b[1] /\ a[2] = b[2] /\ a[3] = b[3] /\ a[4] < b[4]
  <2> DEFINE m1 == m \div 10
             m2 == m \div 100
             m3 == m \div 1000
             n1 == n \div 10
             n2 == n \div 100
             n3 == n \div 1000
  <2>1. /\ m1 \in Nat /\ m2 \in Nat /\ m3 \in Nat /\ n1 \in Nat /\ n2 \in Nat /\ n3 \in Nat
        /\ m3 <= 9 /\ n3 <= 9
    BY SMT
  <2>2. m = 10 * m1 + (m % 10) /\ n = 10 * n1 + (n % 10) /\ m % 10 \in 0..9 /\ n % 10 \in 0..9  BY SMT
  <2>3. m1 = 10 * m2 + (m1 % 10) /\ n1 = 10 * n2 + (n1 % 10) /\ m1 % 10 \in 0..9 /\ n1 % 10 \in 0..9  BY SMT
  <2>4. m2 = 10 * m3 + (m2 % 10) /\ n2 = 10 * n3 + (n2 % 10) /\ m2 % 10 \in 0..9 /\ n2 % 10 \in 0..9  BY SMT
  <2>5. m3 % 10 = m3 /\ n3 % 10 = n3  BY <2>1, SMT
  <2>6. m1 < n1 \/ (m1 = n1 /\ m % 10 < n % 10)  BY <2>1, <2>2, SMT
  <2>7. m1 < n1 => m2 < n2 \/ (m2 = n2 /\ m1 % 10 < n1 % 10)  BY <2>1, <2>3, SMT
  <2>8. m2 < n2 => m3 < n3 \/ (m3 = n3 /\ m2 % 10 < n2 % 10)  BY <2>1, <2>4, SMT
  <2>9. m1 = n1 => m2 = n2 /\ m3 = n3 /\ m1 % 10 = n1 % 10 /\ m2 % 10 = n2 % 10  BY SMT
  <2>10. m2 = n2 => m3 = n3 /\ m2 % 10 = n2 % 10  BY SMT
  <2>11. a[1] = m3 /\ b[1] = n3 /\ a[2] = m2 % 10 /\ b[2] = n2 % 10 /\ a[3] = m1 % 10 /\ b[3] = n1 % 10
         /\ a[4] = m % 10 /\ b[4] = n % 10
    <3>1. m \div 1 = m /\ n \div 1 = n  BY SMT
    <3> QED  BY <1>1, <2>5, <3>1 DEF DigitAt
  <2> HIDE DEF m1, m2, m3, n1, n2, n3
  <2> QED  BY <2>6, <2>7, <2>8, <2>9, <2>10, <2>11
<1>4. CASE a[1] < b[1]
  <2>1. \A j \in 1..(1 - 1) : a[j] = b[j]  OBVIOUS
  <2> QED  BY <1>2, <1>4, <2>1 DEF SortsBefore, a, b
<1>5. CASE a[1] = b[1] /\ a[2] < b[2]
  <2>1. \A j \in 1..(2 - 1) : j = 1  OBVIOUS
  <2>2. \A j \in 1..(2 - 1) : a[j] = b[j]  BY <1>5, <2>1
  <2> QED  BY <1>2, <1>5, <2>2 DEF SortsBefore, a, b
<1>6. CASE a[1] = b[1] /\ a[2] = b[2] /\ a[3] < b[3]
  <2>1. \A j \in 1..(3 - 1) : j = 1 \/ j = 2  OBVIOUS
  <2>2. \A j \in 1..(3 - 1) : a[j] = b[j]  BY <1>6, <2>1
  <2> QED  BY <1>2, <1>6, <2>2 DEF SortsBefore, a, b
<1>7. CASE a[1] = b[1] /\ a[2] = b[2] /\ a[3] = b[3] /\ a[4] < b[4]
  <2>1. \A j \in 1..(4 - 1) : j = 1 \/ j = 2 \/ j = 3  OBVIOUS
  <2>2. \A j \in 1..(4 - 1) : a[j] = b[j]  BY <1>7, <2>1
  <2> QED  BY <1>2, <1>7, <2>2 DEF SortsBefore, a, b
<1> QED  BY <1>3, <1>4, <1>5, <1>6, <1>7

-----------------------------------------------------------------------------
(* Timestamps.                                                               *)

DateText(a) == (Padded(a.year, Units) \o Pair(a.month)) \o Pair(a.day)
Timed(date, h, m, s) == ((date \o Pair(h)) \o Pair(m)) \o Pair(s)

\* The text of a date has eight digits.
LEMMA DateTextIs ==
  ASSUME NEW a, IsDate(a)
  PROVE  /\ Padded(a.year, Units) \in Seq(Nat) /\ Len(Padded(a.year, Units)) = 4
         /\ Pair(a.month) \in Seq(Nat) /\ Len(Pair(a.month)) = 2 /\ Pair(a.day) \in Seq(Nat) /\ Len(Pair(a.day)) = 2
         /\ Padded(a.year, Units) \o Pair(a.month) \in Seq(Nat) /\ Len(Padded(a.year, Units) \o Pair(a.month)) = 6
         /\ DateText(a) \in Seq(Nat) /\ Len(DateText(a)) = 8
<1> DEFINE y == Padded(a.year, Units)
           m == Pair(a.month)
           d == Pair(a.day)
<1>1. a.year \in Nat /\ a.month \in Nat /\ a.day \in Nat  BY DEF IsDate
<1>2. y \in Seq(Nat) /\ Len(y) = 4
  <2> DEFINE year == a.year
  <2>1. year \in Nat  BY <1>1
  <2> HIDE DEF year
  <2>2. Padded(year, Units) \in Seq(Nat) /\ Len(Padded(year, Units)) = 4  BY ONLY <2>1, YearDigits
  <2> QED  BY <2>2 DEF year
<1>3. m \in Seq(Nat) /\ Len(m) = 2 /\ d \in Seq(Nat) /\ Len(d) = 2  BY <1>1, PairIs
<1>4. DateText(a) = (y \o m) \o d  BY DEF DateText
<1> HIDE DEF y, m, d
<1>5. y \o m \in Seq(Nat) /\ Len(y \o m) = Len(y) + Len(m)  BY <1>2, <1>3, Joins
<1> DEFINE ym == y \o m
<1> HIDE DEF ym
<1>6. ym \in Seq(Nat) /\ Len(ym) = 6  BY <1>2, <1>3, <1>5 DEF ym
<1>7. ym \o d \in Seq(Nat) /\ Len(ym \o d) = Len(ym) + Len(d)  BY <1>3, <1>6, Joins
<1>8. DateText(a) \in Seq(Nat) /\ Len(DateText(a)) = 8  BY <1>3, <1>4, <1>6, <1>7 DEF ym
<1> QED  BY <1>2, <1>3, <1>6, <1>8 DEF y, m, d, ym

\* Texts of dates sort as the dates do.
LEMMA DatesSort ==
  ASSUME NEW a, IsDate(a), NEW b, IsDate(b), LaterDate(a, b), b.year <= 9999
  PROVE  SortsBefore(DateText(a), DateText(b))
<1> DEFINE y == Padded(a.year, Units)
           m == Pair(a.month)
           d == Pair(a.day)
           z == Padded(b.year, Units)
           n == Pair(b.month)
           e == Pair(b.day)
<1>0. /\ a.year \in Nat /\ a.month \in Nat /\ a.day \in Nat /\ b.year \in Nat /\ b.month \in Nat /\ b.day \in Nat
      /\ b.month <= 12 /\ b.day <= 31
  BY DEF IsDate
<1>1. /\ y \in Seq(Nat) /\ Len(y) = 4 /\ m \in Seq(Nat) /\ Len(m) = 2 /\ d \in Seq(Nat) /\ Len(d) = 2
      /\ y \o m \in Seq(Nat) /\ Len(y \o m) = 6 /\ DateText(a) = (y \o m) \o d
  BY DateTextIs DEF DateText
<1>2. /\ z \in Seq(Nat) /\ Len(z) = 4 /\ n \in Seq(Nat) /\ Len(n) = 2 /\ e \in Seq(Nat) /\ Len(e) = 2
      /\ z \o n \in Seq(Nat) /\ Len(z \o n) = 6 /\ DateText(b) = (z \o n) \o e
  BY DateTextIs DEF DateText
<1> DEFINE ym == y \o m
           zn == z \o n
<1>3. CASE a.year < b.year
  <2>1. SortsBefore(y, z)  BY <1>0, <1>3, YearsSort
  <2> HIDE DEF y, m, d, z, n, e
  <2>2. SortsBefore(ym, zn)
    <3>1. y \in Seq(Nat) /\ z \in Seq(Nat) /\ Len(y) = Len(z) /\ m \in Seq(Nat) /\ n \in Seq(Nat)  BY <1>1, <1>2
    <3> QED  BY ONLY <2>1, <3>1, SortsAhead
  <2> HIDE DEF ym, zn
  <2>3. ym \in Seq(Nat) /\ zn \in Seq(Nat) /\ Len(ym) = Len(zn)  BY <1>1, <1>2 DEF ym, zn
  <2>4. SortsBefore(ym \o d, zn \o e)  BY <1>1, <1>2, <2>2, <2>3, SortsAhead
  <2> QED  BY <1>1, <1>2, <2>4 DEF ym, zn
<1>4. CASE a.year = b.year /\ a.month < b.month
  <2>0. y = z  BY <1>4
  <2>1. SortsBefore(m, n)
    <3>1. b.month <= 99  BY <1>0
    <3> QED  BY <1>0, <1>4, <3>1, PairsSort
  <2> HIDE DEF y, m, d, z, n, e
  <2>2. SortsBefore(ym, zn)
    <3>1. SortsBefore(y \o m, y \o n)  BY <1>1, <1>2, <2>1, SortsBehind
    <3>2. zn = y \o n  BY ONLY <2>0
    <3> QED  BY ONLY <3>1, <3>2
  <2> HIDE DEF ym, zn
  <2>3. ym \in Seq(Nat) /\ zn \in Seq(Nat) /\ Len(ym) = Len(zn)  BY <1>1, <1>2 DEF ym, zn
  <2>4. SortsBefore(ym \o d, zn \o e)  BY <1>1, <1>2, <2>2, <2>3, SortsAhead
  <2> QED  BY <1>1, <1>2, <2>4 DEF ym, zn
<1>5. CASE a.year = b.year /\ a.month = b.month /\ a.day < b.day
  <2>0. y = z /\ m = n  BY <1>5
  <2>1. SortsBefore(d, e)
    <3>1. b.day <= 99  BY <1>0
    <3> QED  BY <1>0, <1>5, <3>1, PairsSort
  <2> HIDE DEF y, m, d, z, n, e
  <2>2. ym = zn /\ ym \in Seq(Nat)  BY <1>1, <2>0
  <2> HIDE DEF ym, zn
  <2>3. SortsBefore(ym \o d, ym \o e)  BY <1>1, <1>2, <2>1, <2>2, SortsBehind
  <2> QED  BY <1>1, <1>2, <2>2, <2>3 DEF ym, zn
<1> QED  BY <1>3, <1>4, <1>5 DEF LaterDate

\* A later date sorts later at any time of day.
LEMMA TimedSort ==
  ASSUME NEW a \in Seq(Nat), NEW b \in Seq(Nat), Len(a) = Len(b), SortsBefore(a, b),
         NEW h \in Nat, NEW m \in Nat, NEW s \in Nat, NEW i \in Nat, NEW j \in Nat, NEW k \in Nat
  PROVE  SortsBefore(Timed(a, h, m, s), Timed(b, i, j, k))
<1> DEFINE ph == Pair(h)
           pm == Pair(m)
           ps == Pair(s)
           pi == Pair(i)
           pj == Pair(j)
           pk == Pair(k)
<1>1. /\ ph \in Seq(Nat) /\ Len(ph) = 2 /\ pm \in Seq(Nat) /\ Len(pm) = 2 /\ ps \in Seq(Nat)
      /\ pi \in Seq(Nat) /\ Len(pi) = 2 /\ pj \in Seq(Nat) /\ Len(pj) = 2 /\ pk \in Seq(Nat)
  BY PairIs
<1> HIDE DEF ph, pm, ps, pi, pj, pk
<1> DEFINE x == a \o ph
           y == b \o pi
<1>2. SortsBefore(x, y)  BY <1>1, SortsAhead
<1>3. x \in Seq(Nat) /\ y \in Seq(Nat) /\ Len(x) = Len(y)
  <2>1. x \in Seq(Nat) /\ Len(x) = Len(a) + Len(ph)  BY <1>1, Joins
  <2>2. y \in Seq(Nat) /\ Len(y) = Len(b) + Len(pi)  BY <1>1, Joins
  <2> HIDE DEF x, y
  <2> QED  BY <1>1, <2>1, <2>2
<1> HIDE DEF x, y
<1> DEFINE v == x \o pm
           w == y \o pj
<1>4. SortsBefore(v, w)  BY <1>1, <1>2, <1>3, SortsAhead
<1>5. v \in Seq(Nat) /\ w \in Seq(Nat) /\ Len(v) = Len(w)
  <2>1. v \in Seq(Nat) /\ Len(v) = Len(x) + Len(pm)  BY <1>1, <1>3, Joins
  <2>2. w \in Seq(Nat) /\ Len(w) = Len(y) + Len(pj)  BY <1>1, <1>3, Joins
  <2> HIDE DEF v, w
  <2> QED  BY <1>1, <1>3, <2>1, <2>2
<1> HIDE DEF v, w
<1>6. SortsBefore(v \o ps, w \o pk)  BY <1>1, <1>4, <1>5, SortsAhead
<1> QED  BY <1>6 DEF Timed, x, y, v, w, ph, pm, ps, pi, pj, pk

\* A later minute or second of the same hour sorts later.
LEMMA SecondsSort ==
  ASSUME NEW a \in Seq(Nat), NEW h \in Nat, NEW m \in Nat, NEW s \in Nat, NEW j \in Nat, NEW k \in Nat,
         j <= 99, k <= 99, m < j \/ (m = j /\ s < k)
  PROVE  SortsBefore(Timed(a, h, m, s), Timed(a, h, j, k))
<1> DEFINE ph == Pair(h)
           pm == Pair(m)
           ps == Pair(s)
           pj == Pair(j)
           pk == Pair(k)
<1>1. /\ ph \in Seq(Nat) /\ pm \in Seq(Nat) /\ Len(pm) = 2 /\ ps \in Seq(Nat) /\ Len(ps) = 2
      /\ pj \in Seq(Nat) /\ Len(pj) = 2 /\ pk \in Seq(Nat) /\ Len(pk) = 2
  BY PairIs
<1>2. m < j => SortsBefore(pm, pj)  BY PairsSort
<1>3. s < k => SortsBefore(ps, pk)  BY PairsSort
<1>4. m = j => pm = pj  OBVIOUS
<1> HIDE DEF ph, pm, ps, pj, pk
<1> DEFINE x == a \o ph
<1>5. x \in Seq(Nat)  BY <1>1, Joins
<1> HIDE DEF x
<1> DEFINE v == x \o pm
           w == x \o pj
<1>6. v \in Seq(Nat) /\ w \in Seq(Nat) /\ Len(v) = Len(w)
  <2>1. v \in Seq(Nat) /\ Len(v) = Len(x) + Len(pm)  BY <1>1, <1>5, Joins
  <2>2. w \in Seq(Nat) /\ Len(w) = Len(x) + Len(pj)  BY <1>1, <1>5, Joins
  <2> HIDE DEF v, w
  <2> QED  BY <1>1, <2>1, <2>2
<1>7. CASE m < j
  <2>1. SortsBefore(v, w)  BY <1>1, <1>2, <1>5, <1>7, SortsBehind
  <2> HIDE DEF v, w
  <2>2. SortsBefore(v \o ps, w \o pk)  BY <1>1, <1>6, <2>1, SortsAhead
  <2> QED  BY <2>2 DEF Timed, x, v, w, ph, pm, ps, pj, pk
<1>8. CASE m = j /\ s < k
  <2>1. v = w  BY <1>4, <1>8
  <2> HIDE DEF v, w
  <2>2. SortsBefore(v \o ps, v \o pk)  BY <1>1, <1>3, <1>6, <1>8, SortsBehind
  <2>3. SortsBefore(v \o ps, w \o pk)  BY <2>1, <2>2
  <2> QED  BY <2>3 DEF Timed, x, v, w, ph, pm, ps, pj, pk
<1> QED  BY <1>7, <1>8

\* A later hour of the same day sorts later.
LEMMA HoursSort ==
  ASSUME NEW a \in Seq(Nat), NEW h \in Nat, NEW m \in Nat, NEW s \in Nat, NEW i \in Nat, NEW j \in Nat,
         NEW k \in Nat, i <= 99, h < i
  PROVE  SortsBefore(Timed(a, h, m, s), Timed(a, i, j, k))
<1> DEFINE ph == Pair(h)
           pm == Pair(m)
           ps == Pair(s)
           pi == Pair(i)
           pj == Pair(j)
           pk == Pair(k)
<1>1. /\ ph \in Seq(Nat) /\ Len(ph) = 2 /\ pm \in Seq(Nat) /\ Len(pm) = 2 /\ ps \in Seq(Nat)
      /\ pi \in Seq(Nat) /\ Len(pi) = 2 /\ pj \in Seq(Nat) /\ Len(pj) = 2 /\ pk \in Seq(Nat)
  BY PairIs
<1>2. SortsBefore(ph, pi)  BY PairsSort
<1> HIDE DEF ph, pm, ps, pi, pj, pk
<1> DEFINE x == a \o ph
           y == a \o pi
<1>3. SortsBefore(x, y)  BY <1>1, <1>2, SortsBehind
<1>4. x \in Seq(Nat) /\ y \in Seq(Nat) /\ Len(x) = Len(y)
  <2>1. x \in Seq(Nat) /\ Len(x) = Len(a) + Len(ph)  BY <1>1, Joins
  <2>2. y \in Seq(Nat) /\ Len(y) = Len(a) + Len(pi)  BY <1>1, Joins
  <2> HIDE DEF x, y
  <2> QED  BY <1>1, <2>1, <2>2
<1> HIDE DEF x, y
<1> DEFINE v == x \o pm
           w == y \o pj
<1>5. SortsBefore(v, w)  BY <1>1, <1>3, <1>4, SortsAhead
<1>6. v \in Seq(Nat) /\ w \in Seq(Nat) /\ Len(v) = Len(w)
  <2>1. v \in Seq(Nat) /\ Len(v) = Len(x) + Len(pm)  BY <1>1, <1>4, Joins
  <2>2. w \in Seq(Nat) /\ Len(w) = Len(y) + Len(pj)  BY <1>1, <1>4, Joins
  <2> HIDE DEF v, w
  <2> QED  BY <1>1, <1>4, <2>1, <2>2
<1> HIDE DEF v, w
<1>7. SortsBefore(v \o ps, w \o pk)  BY <1>1, <1>5, <1>6, SortsAhead
<1> QED  BY <1>7 DEF Timed, x, y, v, w, ph, pm, ps, pi, pj, pk

\* From the epoch on, format_timestamp writes the date and the time of day.
LEMMA TimestampIs ==
  ASSUME NEW days \in Nat, NEW tod \in Nat
  PROVE  FormatTimestamp(days, tod) =
           Timed(DateText(CivilFromDays(days)), tod \div 3600, (tod % 3600) \div 60, tod % 60)
<1> DEFINE Written(d, t) == Padded(CivilFromDays(d).year, <<1000, 100, 10, 1>>)
                            \o Pair(CivilFromDays(d).month) \o Pair(CivilFromDays(d).day)
                            \o Pair(t \div 3600) \o Pair((t % 3600) \div 60) \o Pair(t % 60)
<1>1. (IF days < 0 THEN 0 ELSE days) = days /\ (IF days < 0 THEN 0 ELSE tod) = tod  OBVIOUS
<1>2. FormatTimestamp(days, tod) = Written(IF days < 0 THEN 0 ELSE days, IF days < 0 THEN 0 ELSE tod)
  BY Zenon DEF FormatTimestamp
<1>3. Written(days, tod) = Timed(DateText(CivilFromDays(days)), tod \div 3600, (tod % 3600) \div 60, tod % 60)
  BY Zenon DEF Timed, DateText, Units
<1> HIDE DEF Written
<1> QED  BY <1>1, <1>2, <1>3

-----------------------------------------------------------------------------
(* The requests.                                                             *)

(* A sum of naturals up to every place of a sequence exists: the function a  *)
(* recursive definition of the sum picks.                                     *)
LEMMA CountsUp ==
  ASSUME NEW N \in Nat, NEW step, step \in [1..N -> [Nat -> Nat]]
  PROVE  \E f \in [0..N -> Nat] : f[0] = 0 /\ \A n \in 1..N : f[n] = step[n][f[n - 1]]
<1>1. ASSUME NEW S, S = Nat, NEW base, base = 0
      PROVE  \E f \in [0..N -> Nat] : f[0] = 0 /\ \A n \in 1..N : f[n] = step[n][f[n - 1]]
  <2>1. base \in S  BY <1>1
  <2>2. step \in [1..N -> [S -> S]]  BY <1>1
  <2>3. \E f \in [0..N -> S] : f[0] = base /\ \A n \in 1..N : f[n] = step[n][f[n - 1]]
    BY ONLY <2>1, <2>2, N \in Nat, Recursion
  <2> QED  BY <1>1, <2>3
<1> QED  BY <1>1, Zenon

\* Days add up to a day from the epoch.
LEMMA TotalType == ASSUME NEW days \in Seq(Nat) PROVE Total(days) \in Nat
<1> DEFINE N == Len(days)
           step == [n \in 1..N |-> [x \in Nat |-> x + days[n]]]
           Rec(p) == [n \in 0..N |-> IF n = 0 THEN 0 ELSE p[n - 1] + days[n]]
           P == CHOOSE p : p = Rec(p)
<1>1. N \in Nat /\ \A n \in 1..N : days[n] \in Nat  BY LenProperties, ElementOfSeq
<1>2. step \in [1..N -> [Nat -> Nat]]  BY <1>1
<1>3. \E f \in [0..N -> Nat] : f[0] = 0 /\ \A n \in 1..N : f[n] = step[n][f[n - 1]]
  <2> HIDE DEF step, N, P, Rec
  <2>1. N \in Nat  BY <1>1
  <2>2. \A st : st \in [1..N -> [Nat -> Nat]] =>
                \E f \in [0..N -> Nat] : f[0] = 0 /\ \A n \in 1..N : f[n] = st[n][f[n - 1]]
    BY ONLY <2>1, CountsUp
  <2> QED  BY <2>2, <1>2
<1>4. PICK f \in [0..N -> Nat] : f[0] = 0 /\ \A n \in 1..N : f[n] = step[n][f[n - 1]]  BY <1>3
<1>5. \A n \in 1..N : f[n] = f[n - 1] + days[n]
  <2> TAKE n \in 1..N
  <2>1. n - 1 \in 0..N  BY <1>1
  <2> QED  BY <1>1, <1>4, <2>1
<1>6. f = Rec(f)
  <2>1. ASSUME NEW n \in 0..N PROVE f[n] = Rec(f)[n]
    <3>1. CASE n = 0  BY <1>4, <3>1
    <3>2. CASE n # 0
      <4>1. n \in 1..N  BY <1>1, <3>2
      <4> QED  BY <1>5, <3>2, <4>1
    <3> QED  BY <3>1, <3>2
  <2> QED  BY <2>1
<1>7. P = Rec(P)  BY <1>6
<1>8. Total(days) = P[N]  BY DEF Total
<1> HIDE DEF P
<1>9. ASSUME NEW n \in 0..N PROVE P[n] = IF n = 0 THEN 0 ELSE P[n - 1] + days[n]  BY <1>7
<1> DEFINE Whole == {m \in Nat : m <= N => P[m] \in Nat}
<1>10. 0 \in Whole
  <2>1. 0 \in 0..N  BY <1>1
  <2>2. P[0] = 0  BY <1>9, <2>1
  <2> QED  BY <2>2
<1>11. ASSUME NEW m \in Nat, m \in Whole PROVE m + 1 \in Whole
  <2> SUFFICES ASSUME m + 1 <= N PROVE P[m + 1] \in Nat  OBVIOUS
  <2>1. m + 1 \in 0..N /\ m + 1 \in 1..N /\ m + 1 # 0 /\ (m + 1) - 1 = m /\ m <= N  BY <1>1
  <2>2. P[m + 1] = P[m] + days[m + 1]  BY <1>9, <2>1
  <2> QED  BY <1>1, <1>11, <2>1, <2>2
<1> HIDE DEF Whole
<1>12. \A n \in Nat : n \in Whole  BY <1>10, <1>11, SetInduction
<1>13. P[N] \in Nat  BY <1>1, <1>12 DEF Whole
<1> QED  BY <1>8, <1>13

Instants == form \in Forms /\ (form = "instant" => text \in Seq(Nat))

\* Every step of a request keeps its list of days.
LEMMA AlwaysInstants == Spec => []Instants
<1>0. /\ DOMAIN Starts = Forms
      /\ "instant" \in Forms => Starts["instant"] \subseteq Seq(Nat) /\ Pieces["instant"] \subseteq Seq(Nat)
  BY RequestsAssumption DEF Forms
<1>1. Init => Instants  BY <1>0 DEF Init, Instants
<1>2. Instants /\ [Next]_vars => Instants'
  <2> SUFFICES ASSUME Instants, [Next]_vars PROVE Instants'  OBVIOUS
  <2>1. CASE Write
    <3>1. PICK piece \in Pieces[form] : text' = text \o piece /\ form' = form  BY <2>1 DEF Write
    <3>2. ASSUME form = "instant" PROVE text' \in Seq(Nat)
      <4>1. text \in Seq(Nat) /\ piece \in Seq(Nat)  BY <1>0, <3>1, <3>2 DEF Instants
      <4> QED  BY <3>1, <4>1, Joins
    <3> QED  BY <3>1, <3>2 DEF Instants, Forms
  <2>2. CASE StartOver  BY <1>0, <2>2 DEF StartOver, Instants, Forms
  <2>3. CASE UNCHANGED vars  BY <2>3 DEF vars, Instants, Forms
  <2> QED  BY <2>1, <2>2, <2>3 DEF Next
<1> QED  BY <1>1, <1>2, PTL DEF Spec

\* Day 0 is 1970-01-01.
LEMMA Epoch == CivilFromDays(0) = [year |-> 1970, month |-> 1, day |-> 1]
<1>1. /\ Start(10) = 306 /\ Start(11) = 337  BY SMT DEF Start
<1>2. Cycle(3, 17, 1, 306)  BY SMT DEF Cycle
<1>3. DayOfEra(3, 17, 1, 306) = 135080  BY SMT DEF DayOfEra
<1>4. IsDay(0, 4, 3, 17, 1, 306, 10, 0)
  <2>1. 0 + 719468 = 146097 * 4 + DayOfEra(3, 17, 1, 306)  BY <1>3, SMT
  <2>2. 306 = Start(10) + 0 /\ Start(10) + 0 < Start(10 + 1)  BY <1>1, SMT
  <2>3. 4 \in Nat /\ 10 \in Nat /\ 0 \in Nat /\ 10 <= 11  BY SMT
  <2> QED  BY <1>2, <2>1, <2>2, <2>3 DEF IsDay
<1>5. CivilFromDays(0) = Date(YearOf(4, 3, 17, 1), 10, 0)  BY <1>4, DateIs
<1>6. YearOf(4, 3, 17, 1) = 1969  BY SMT DEF YearOf
<1>7. Date(1969, 10, 0) = [year |-> 1969 + 1, month |-> 10 - 9, day |-> 0 + 1]  BY SMT DEF Date
<1>8. 1969 + 1 = 1970 /\ 10 - 9 = 1 /\ 0 + 1 = 1  BY SMT
<1> QED  BY <1>5, <1>6, <1>7, <1>8

\* Each day of a timestamp's range is the one that follows in the Gregorian
\* calendar, and the text of each of its seconds, the first of an hour or of a
\* day included, sorts after that of the second before it.
THEOREM TimestampsSort == Spec => []CalendarKeepsOrder
<1>1. Instants => CalendarKeepsOrder
  <2> SUFFICES ASSUME Instants, form = "instant" PROVE CalendarKeepsOrder  BY DEF CalendarKeepsOrder
  <2> DEFINE day == Total(text)
  <2>1. day \in Nat  BY TotalType DEF Instants
  <2> HIDE DEF day
  <2>2. FormatTimestamp(-1, LastSecond) = FormatTimestamp(0, 0)
    <3>1. -1 < 0 /\ ~(0 < 0)  OBVIOUS
    <3> QED  BY <3>1 DEF FormatTimestamp
  <2>3. ASSUME NEW d \in day..(day + 366), d < LastDay
        PROVE  /\ CivilFromDays(d + 1) = Tomorrow(CivilFromDays(d))
               /\ SortsBefore(FormatTimestamp(d, LastSecond), FormatTimestamp(d + 1, 0))
    <3> DEFINE a == CivilFromDays(d)
               b == CivilFromDays(d + 1)
               s == DateText(a)
               t == DateText(b)
    <3>1. d \in Nat /\ d + 1 \in Nat /\ d + 1 <= LastDay  BY <2>1, <2>3 DEF LastDay
    <3>2. b = Tomorrow(a) /\ LaterDate(a, b) /\ IsDate(a)  BY <3>1, CalendarFollows
    <3>3. IsDate(b)  BY <3>1, CalendarFollows
    <3>4. b.year <= 9999  BY <3>1, YearBound
    <3> HIDE DEF a, b
    <3>5. SortsBefore(s, t) /\ s \in Seq(Nat) /\ t \in Seq(Nat) /\ Len(s) = Len(t)
      <4>1. s \in Seq(Nat) /\ Len(s) = 8  BY <3>2, DateTextIs
      <4>2. t \in Seq(Nat) /\ Len(t) = 8  BY <3>3, DateTextIs
      <4>3. SortsBefore(s, t)  BY <3>2, <3>3, <3>4, DatesSort
      <4> QED  BY <4>1, <4>2, <4>3
    <3> HIDE DEF s, t
    <3> DEFINE h1 == LastSecond \div 3600
               m1 == (LastSecond % 3600) \div 60
               s1 == LastSecond % 60
               h2 == 0 \div 3600
               m2 == (0 % 3600) \div 60
               s2 == 0 % 60
    <3>6. h1 \in Nat /\ m1 \in Nat /\ s1 \in Nat /\ h2 \in Nat /\ m2 \in Nat /\ s2 \in Nat
      BY SMT DEF LastSecond
    <3>7. FormatTimestamp(d, LastSecond) = Timed(s, h1, m1, s1)  BY <3>1, TimestampIs DEF s, a, LastSecond
    <3>8. FormatTimestamp(d + 1, 0) = Timed(t, h2, m2, s2)  BY <3>1, TimestampIs DEF t, b
    <3> HIDE DEF h1, m1, s1, h2, m2, s2
    <3>9. SortsBefore(Timed(s, h1, m1, s1), Timed(t, h2, m2, s2))  BY <3>5, <3>6, TimedSort
    <3> QED  BY <3>2, <3>7, <3>8, <3>9 DEF a, b
  <2>4. ASSUME NEW tod \in 0..(LastSecond - 1)
        PROVE  SortsBefore(FormatTimestamp(day, tod), FormatTimestamp(day, tod + 1))
    <3> DEFINE s == DateText(CivilFromDays(day))
               h1 == tod \div 3600
               r  == tod % 3600
               m1 == r \div 60
               s1 == tod % 60
               h2 == (tod + 1) \div 3600
               q  == (tod + 1) % 3600
               m2 == q \div 60
               s2 == (tod + 1) % 60
    <3>1. tod \in Nat /\ tod + 1 \in Nat /\ tod <= 86398  BY SMT DEF LastSecond
    <3>2. h1 \in Nat /\ r \in Nat /\ r <= 3599 /\ tod = h1 * 3600 + r  BY <3>1, SMT
    <3>3. h2 \in Nat /\ q \in Nat /\ q <= 3599 /\ tod + 1 = h2 * 3600 + q  BY <3>1, SMT
    <3>4. s1 = r % 60 /\ s2 = q % 60
      <4> HIDE DEF h1, r, h2, q
      <4> QED  BY <3>1, <3>2, <3>3, SMT
    <3>5. FormatTimestamp(day, tod) = Timed(s, h1, m1, s1)  BY <2>1, <3>1, TimestampIs
    <3>6. FormatTimestamp(day, tod + 1) = Timed(s, h2, m2, s2)  BY <2>1, <3>1, TimestampIs
    <3>7. s \in Seq(Nat)
      <4>1. IsDate(CivilFromDays(day))  BY <2>1, CalendarFollows
      <4> QED  BY <4>1, DateTextIs
    <3> HIDE DEF s, h1, r, h2, q
    <3>8. m1 \in Nat /\ r % 60 \in Nat /\ m2 \in Nat /\ q % 60 \in Nat /\ m2 <= 99 /\ q % 60 <= 99
      BY <3>2, <3>3, SMT
    <3>9. \/ h1 = h2 /\ q = r + 1
          \/ h1 < h2 /\ h2 <= 99
      BY <3>1, <3>2, <3>3, SMT
    <3>10. h1 \in Nat /\ m1 \in Nat /\ s1 \in Nat /\ h2 \in Nat /\ m2 \in Nat /\ s2 \in Nat
      BY <3>2, <3>3, <3>4, <3>8
    <3>11. m2 <= 99 /\ s2 <= 99  BY <3>4, <3>8
    <3>12. CASE h1 = h2 /\ q = r + 1
      <4>1. m1 < m2 \/ (m1 = m2 /\ r % 60 < q % 60)  BY <3>2, <3>12, SMT
      <4> HIDE DEF m1, m2, s1, s2
      <4>2. m1 < m2 \/ (m1 = m2 /\ s1 < s2)  BY <3>4, <4>1
      <4>3. SortsBefore(Timed(s, h1, m1, s1), Timed(s, h1, m2, s2))
        BY <3>7, <3>10, <3>11, <4>2, SecondsSort
      <4> QED  BY <3>5, <3>6, <3>12, <4>3
    <3>13. CASE h1 < h2 /\ h2 <= 99
      <4> HIDE DEF m1, m2, s1, s2
      <4>1. SortsBefore(Timed(s, h1, m1, s1), Timed(s, h2, m2, s2))
        BY <3>7, <3>13, <3>10, HoursSort
      <4> QED  BY <3>5, <3>6, <4>1
    <3> QED  BY <3>9, <3>12, <3>13
  <2> QED  BY <2>2, <2>3, <2>4, Epoch DEF CalendarKeepsOrder, day
<1> QED  BY <1>1, AlwaysInstants, PTL
=============================================================================
