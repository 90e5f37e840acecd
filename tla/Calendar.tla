------------------------------ MODULE Calendar ------------------------------
(***************************************************************************)
(* Dates as serials (xlite-core/src/model/date.rs) and the functions that  *)
(* count them (xlite-core/src/functions/date).  Serial 1 is 1900-01-01 and *)
(* serial 60 is 1900-02-29, a day that never was.  Times of day are left   *)
(* out: serials are whole.                                                 *)
(***************************************************************************)
EXTENDS CellValues

NumError == Error("#NUM!")
ValueError == Error("#VALUE!")

MinYear == 1900
MaxYear == 9999
MaxSerial == 2958465

------------------------------------------------------------------------------
(* Serials and dates.                                                      *)

\* Days since 1970-01-01; \div rounds down, as the eras of the code do.
DaysFromCivil(year, month, day) ==
  LET y == year - Truth(month <= 2)
      era == y \div 400
      yoe == y - era * 400
      doy == (153 * (month + (IF month > 2 THEN -3 ELSE 9)) + 2) \div 5 + day - 1
      doe == yoe * 365 + yoe \div 4 - yoe \div 100 + doy
  IN  era * 146097 + doe - 719468

CivilFromDays(days) ==
  LET z == days + 719468
      era == z \div 146097
      doe == z - era * 146097
      yoe == (doe - doe \div 1460 + doe \div 36524 - doe \div 146096) \div 365
      doy == doe - (365 * yoe + yoe \div 4 - yoe \div 100)
      mp == (5 * doy + 2) \div 153
      month == mp + (IF mp < 10 THEN 3 ELSE -9)
  IN  [year |-> yoe + era * 400 + Truth(month <= 2), month |-> month,
       day |-> doy - (153 * mp + 2) \div 5 + 1]

Epoch == DaysFromCivil(1899, 12, 31)

SerialToYmd(serial) ==
  IF serial = 60 THEN [year |-> 1900, month |-> 2, day |-> 29]
  ELSE CivilFromDays(Epoch + IF serial > 60 THEN serial - 1 ELSE serial)

YmdToSerial(year, month, day) ==
  IF <<year, month, day>> = <<1900, 2, 29>> THEN 60
  ELSE LET serial == DaysFromCivil(year, month, day) - Epoch
       IN  IF serial >= 60 THEN serial + 1 ELSE serial

Year(serial) == SerialToYmd(serial).year
Month(serial) == SerialToYmd(serial).month
Day(serial) == SerialToYmd(serial).day

\* validate_supported_serial
IsSupported(serial) ==
  serial \in YmdToSerial(MinYear, 1, 1) .. YmdToSerial(MaxYear, 12, 31)
Supported(serial) == IF IsSupported(serial) THEN Number(serial) ELSE NumError

------------------------------------------------------------------------------
(* DATE, EDATE, EOMONTH.                                                   *)

\* The year and the month that lies so many months after January of year 0.
YearMonth(months) == [year |-> months \div 12, month |-> (months % 12) + 1]
MonthIndex(year, month) == year * 12 + month - 1

NormalYear(year) == IF year \in 0 .. 1899 THEN year + 1900 ELSE year

DATE(year, month, day) ==
  IF year \notin 0 .. MaxYear THEN NumError
  ELSE LET target == YearMonth(MonthIndex(NormalYear(year), month))
       IN  Supported(YmdToSerial(target.year, target.month, 1) + day - 1)

IsLeapYear(year) == (year % 4 = 0 /\ year % 100 # 0) \/ year % 400 = 0

\* Faulty variant: the day that never was is not counted.
DaysInMonthReal(year, month) ==
  CASE month \in {1, 3, 5, 7, 8, 10, 12} -> 31
    [] month \in {4, 6, 9, 11} -> 30
    [] month = 2 -> IF IsLeapYear(year) THEN 29 ELSE 28

DaysInMonth(year, month) ==
  CASE year = 1900 /\ month = 2 -> 29
    [] month \in {1, 3, 5, 7, 8, 10, 12} -> 31
    [] month \in {4, 6, 9, 11} -> 30
    [] month = 2 /\ year # 1900 -> IF IsLeapYear(year) THEN 29 ELSE 28

\* The same day of another month, or its last.
EDATE(start, months) ==
  LET date == SerialToYmd(start)
      target == YearMonth(MonthIndex(date.year, date.month) + months)
      last == DaysInMonth(target.year, target.month)
  IN  IF ~IsSupported(start) \/ target.year \notin MinYear .. MaxYear
      THEN NumError
      ELSE Supported(YmdToSerial(target.year, target.month,
                                 Min({date.day, last})))

\* The day before the first of the month after.
EOMONTH(start, months) ==
  LET date == SerialToYmd(start)
      next == YearMonth(MonthIndex(date.year, date.month) + months + 1)
  IN  IF ~IsSupported(start) THEN NumError
      ELSE Supported(YmdToSerial(next.year, next.month, 1) - 1)

------------------------------------------------------------------------------
(* DATEDIF.                                                                *)

Earlier(a, b) == a.month < b.month \/ (a.month = b.month /\ a.day < b.day)

CompleteYears(start, end) ==
  end.year - start.year - Truth(Earlier(end, start))

CompleteMonths(start, end) ==
  (end.year - start.year) * 12 + end.month - start.month
    - Truth(end.day < start.day)

DATEDIF(start, end, unit) ==
  LET from == SerialToYmd(start)
      to == SerialToYmd(end)
  IN  IF {start, end} \subseteq 1 .. MaxSerial /\ start <= end
      THEN CASE unit = "Y" -> Number(CompleteYears(from, to))
             [] unit = "M" -> Number(CompleteMonths(from, to))
             [] unit = "D" -> Number(end - start)
             [] OTHER -> NumError
      ELSE NumError

------------------------------------------------------------------------------
(* WEEKDAY and WEEKNUM.                                                    *)

SundayBased(serial) == ((serial - 1) % 7) + 1

\* The first day of the week for a return type, counted from Sunday.
FirstDay(type) ==
  CASE type \in {1, 17} -> 1 [] type \in {2, 11} -> 2
    [] type \in 12 .. 16 -> type - 9

WeekTypes == {1, 2} \cup 11 .. 17

WEEKDAY(serial, type) ==
  IF serial \notin 1 .. MaxSerial THEN NumError
  ELSE IF type \in WeekTypes
       THEN Number(((SundayBased(serial) - FirstDay(type)) % 7) + 1)
  ELSE IF type = 3 THEN Number((SundayBased(serial) - 2) % 7)
  ELSE NumError

DayOfYear(date) ==
  MapThenSumSet(LAMBDA m : DaysInMonth(date.year, m), 1 .. date.month - 1)
    + date.day

MonthOffsets == <<0, 3, 2, 5, 0, 3, 5, 1, 4, 6, 2, 4>>

\* 1 is Monday.
IsoWeekday(year, month, day) ==
  LET y == year - Truth(month < 3)
      w == (y + y \div 4 - y \div 100 + y \div 400 + MonthOffsets[month] + day) % 7
  IN  IF w = 0 THEN 7 ELSE w

IsoWeeksInYear(year) ==
  LET jan1 == IsoWeekday(year, 1, 1)
  IN  IF jan1 = 4 \/ (jan1 = 3 /\ IsLeapYear(year)) THEN 53 ELSE 52

IsoWeek(date) ==
  LET weekday == IsoWeekday(date.year, date.month, date.day)
      week == (DayOfYear(date) - weekday + 10) \div 7
  IN  IF week < 1 THEN IsoWeeksInYear(date.year - 1)
      ELSE IF week > IsoWeeksInYear(date.year) THEN 1 ELSE week

\* Weeks counted from the one of January 1.
PlainWeek(serial, first) ==
  LET day == DayOfYear(SerialToYmd(serial))
      offset == (SundayBased(serial - day + 1) - first) % 7
  IN  (day + offset - 1) \div 7 + 1

WEEKNUM(serial, type) ==
  IF serial \notin 1 .. MaxSerial THEN NumError
  ELSE IF type \in WeekTypes
       THEN Number(PlainWeek(serial, FirstDay(type)))
  ELSE IF type = 21 THEN Number(IsoWeek(SerialToYmd(serial)))
  ELSE NumError

------------------------------------------------------------------------------
(* Working days.  Every holiday must be a date.                            *)

IsWorkday(serial) == SundayBased(serial) \notin {1, 7}

\* Whole weeks have five; the days beyond them are looked at.
WorkdaysBetween(start, end) ==
  LET days == end - start + 1
  IN  (days \div 7) * 5
        + Cardinality({k \in 0 .. (days % 7) - 1 : IsWorkday(start + k)})

NETWORKDAYS(start, end, holidays) ==
  LET lower == Min({start, end})
      upper == Max({start, end})
      off == {h \in holidays : h \in lower .. upper /\ IsWorkday(h)}
      count == WorkdaysBetween(lower, upper) - Cardinality(off)
  IN  IF ~({start, end} \cup holidays \subseteq 1 .. MaxSerial) THEN ValueError
      ELSE Number(IF start <= end THEN count ELSE -count)

\* The day after which so many working days have been met on the way.
WORKDAY(start, days, holidays) ==
  LET direction == IF days > 0 THEN 1 ELSE -1
      goal == IF days > 0 THEN days ELSE -days
      after[met \in 0 .. goal, day \in Int] ==
        IF met = goal THEN Number(day)
        ELSE LET next == day + direction
             IN  IF next \notin 1 .. MaxSerial THEN NumError
                 ELSE after[IF IsWorkday(next) /\ next \notin holidays
                            THEN met + 1 ELSE met, next]
  IN  IF ~({start} \cup holidays \subseteq 1 .. MaxSerial) THEN ValueError
      ELSE after[0, start]
=============================================================================
