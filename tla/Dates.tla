-------------------------------- MODULE Dates --------------------------------
(***************************************************************************)
(* HTTP dates in their three formats: HttpDate of src/src/date.rs, and the *)
(* conditions on dates of src/src/conditional.rs.  Day and month names are *)
(* words of a text.  The day of the week is a number, 1 for Sunday.        *)
(***************************************************************************)
EXTENDS Text

DayNames == <<"Sun", "Mon", "Tue", "Wed", "Thu", "Fri", "Sat">>
LongDayNames ==
    <<"Sunday", "Monday", "Tuesday", "Wednesday", "Thursday", "Friday", "Saturday">>
Months == <<"Jan", "Feb", "Mar", "Apr", "May", "Jun",
            "Jul", "Aug", "Sep", "Oct", "Nov", "Dec">>

\* DayOfWeek::from_name and parse_month.
ParseDayName(s) == {d \in 1..7 : s = <<DayNames[d]>> \/ s = <<LongDayNames[d]>>}
ParseMonth(s) == {m \in 1..12 : s = <<Months[m]>>}

\* max_day_in_month.
IsLeap(year) == year % 4 = 0 /\ (year % 100 # 0 \/ year % 400 = 0)
MaxDayInMonth(month, year) ==
    IF month = 2 THEN (IF IsLeap(year) THEN 29 ELSE 28)
    ELSE IF month \in {4, 6, 9, 11} THEN 30 ELSE 31

\* HttpDate::new: the day of the week is not compared with the date.
NewDate(weekday, day, month, year, time) ==
    IF /\ month \in 1..12 /\ day \in 1..MaxDayInMonth(month, year) /\ year >= 1
       /\ time[1] <= 23 /\ time[2] <= 59 /\ time[3] <= 60
    THEN {[weekday |-> weekday, day |-> day, month |-> month, year |-> year, time |-> time]}
    ELSE {}

-----------------------------------------------------------------------------
\* parse::<u8>.
ParseU8(s) == IF IsRustNumber(s) /\ RustNumber(s) <= 255 THEN {RustNumber(s)} ELSE {}

\* split_whitespace.
Words(s) == SelectSeq(Split(s, "SP"), LAMBDA w : w # << >>)

\* parse_time: HH:MM:SS.
ParseTime(s) ==
    LET p == Split(s, ":")
    IN  IF Len(p) # 3 THEN {}
        ELSE {t \in ParseU8(p[1]) \X ParseU8(p[2]) \X ParseU8(p[3]) :
                t[1] <= 23 /\ t[2] <= 59 /\ t[3] <= 60}

\* HttpDate::new on parsed parts, an error in one of them being an error.
DateOf(weekdays, days, months, years, times) ==
    UNION {NewDate(w, d, m, y, t) :
             w \in weekdays, d \in days, m \in months, y \in years, t \in times}

\* parse_imf_fixdate: 06 Nov 1994 08:49:37 GMT.
ParseImfFixdate(day_name, rest) ==
    LET p == Words(rest)
    IN  IF Len(p) # 5 \/ p[5] # <<"GMT">> THEN {}
        ELSE DateOf(ParseDayName(day_name), ParseU8(p[1]), ParseMonth(p[2]),
                    ParseU16(p[3]), ParseTime(p[4]))

\* parse_asctime: Sun Nov  6 08:49:37 1994.
ParseAsctime(s) ==
    LET p == Words(s)
    IN  IF Len(p) # 5 THEN {}
        ELSE DateOf(ParseDayName(p[1]), ParseU8(p[3]), ParseMonth(p[2]),
                    ParseU16(p[5]), ParseTime(p[4]))

\* Mutant: the century of the reference year, whatever the distance.
InterpretSameCentury(two_digit, reference_year) ==
    (reference_year \div 100) * 100 + two_digit

\* u16 arithmetic as a release build does it; a build with overflow checks
\* panics wherever this wraps.
U16(n) == n % (U16Max + 1)

\* interpret_two_digit_year, in u16.
InterpretTwoDigitYear(two_digit, reference_year) ==
    LET candidate == U16((reference_year \div 100) * 100 + two_digit)
    IN  IF candidate > U16(reference_year + 50) THEN U16(candidate - 100) ELSE candidate

\* One of its three operations leaves u16.
YearOverflows(two_digit, reference_year) ==
    LET candidate == (reference_year \div 100) * 100 + two_digit
    IN  \/ candidate > U16Max \/ reference_year + 50 > U16Max
        \/ candidate > reference_year + 50 /\ candidate < 100

\* parse_rfc850_inner: 06-Nov-94 08:49:37 GMT, a year of another length than
\* two being taken as it is.
ParseRfc850Inner(day_name, rest, reference_year) ==
    LET p == Words(rest)
        d == Split(p[1], "-")
        Year(y) == IF Len(d[3]) = 2 THEN InterpretTwoDigitYear(y, reference_year) ELSE y
    IN  IF Len(p) # 3 \/ Len(d) # 3 \/ p[3] # <<"GMT">> THEN {}
        ELSE DateOf(ParseDayName(day_name), ParseU8(d[1]), ParseMonth(d[2]),
                    {Year(y) : y \in ParseU16(d[3])}, ParseTime(p[2]))

\* HttpDate::parse, and parse_rfc850 where it returns Rfc850Date: the way
\* IfModifiedSince, IfRange and Expires read a date.
ParseDate(text, reference_year) ==
    LET s == Trim(text)
        day_name == Before(s, {","})
        rest == After(s, {","})
    IN  IF ~Holds(s, {","}) THEN ParseAsctime(s)
        ELSE IF Holds(rest, {"-"}) THEN ParseRfc850Inner(day_name, rest, reference_year)
        ELSE ParseImfFixdate(day_name, rest)

TimeText(t) == Padded(t[1], 2) \o <<":">> \o Padded(t[2], 2) \o <<":">> \o Padded(t[3], 2)

\* Display: IMF-fixdate.
DateText(d) ==
    <<DayNames[d.weekday], ",", "SP">> \o Padded(d.day, 2) \o <<"SP", Months[d.month], "SP">>
    \o Padded(d.year, 4) \o <<"SP">> \o TimeText(d.time) \o <<"SP", "GMT">>

-----------------------------------------------------------------------------
\* Ord: the fields in order, the day of the week left out.
Fields(d) == <<d.year, d.month, d.day>> \o d.time
Earlier(d, e) ==
    \E i \in 1..6 : /\ Fields(d)[i] < Fields(e)[i]
                    /\ \A j \in 1..(i - 1) : Fields(d)[j] = Fields(e)[j]

\* IfModifiedSince::is_modified.
IsModified(since, last_modified) == Earlier(since, last_modified)
=============================================================================
