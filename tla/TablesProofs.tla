---------------------------- MODULE TablesProofs ----------------------------
(***************************************************************************)
(* Proofs about Tables: in which months the dates that tdt.c computes are  *)
(* the day's, until 28 February 2100, and that the sections can be read by *)
(* their length fields, for configured strings of at most 250 bytes.  The  *)
(* walk counts days one by one; the invariant is that the formula of EN    *)
(* 300 468, with each product truncated, counts them too.  The dates of    *)
(* tdt.c are compared with that.  The reader recurses over descriptors:    *)
(* its recursion is well founded (ReaderStep), and over joined descriptors *)
(* it arrives where their total length says (JoinedIsRead, by induction).  *)
(***************************************************************************)
EXTENDS Tables, Numbers, SequenceTheorems, TLAPS

Early(m) == IF m <= 2 THEN 1 ELSE 0
Years(y, m) == ((y - 1900 - Early(m)) * 1461) \div 4
Months(m) == ((m + 1 + 12 * Early(m)) * 306001) \div 10000
EnMjd(y, m, d) == 14956 + d + Years(y, m) + Months(m)

(* What a date is made of, in the range of the formula. *)
CalYears == 1900..2100
CalMonths == 1..12
CalDays == 1..31

Dated(y, m, d) ==
  /\ y \in 1900..2100 /\ m \in 1..12 /\ d \in 1..Length(y, m)
  /\ y = 1900 => m > 2
  /\ y = 2100 => m <= 2

DateInv ==
  /\ Dated(year, month, day)
  /\ year = LastYear => month <= 2
  /\ year <= LastYear
  /\ mjd = EnMjd(year, month, day)
  /\ clock = ClockDate(year, month, day)

IInv == TypeOK /\ DateInv

-----------------------------------------------------------------------------
LEMMA MonthCases ==
  ASSUME NEW m \in 1..12
  PROVE  \/ m = 1 \/ m = 2 \/ m = 3 \/ m = 4 \/ m = 5 \/ m = 6
         \/ m = 7 \/ m = 8 \/ m = 9 \/ m = 10 \/ m = 11 \/ m = 12
  OBVIOUS

LEMMA LengthType ==
  ASSUME NEW y \in Int, NEW m \in 1..12
  PROVE  Length(y, m) \in 28..31
  BY DEF Length

(* The formula is a positive integer. *)
LEMMA EnMjdType ==
  ASSUME NEW y, NEW m, NEW d, Dated(y, m, d)
  PROVE  EnMjd(y, m, d) \in Nat
<1>1. Length(y, m) \in 28..31
  BY LengthType, SMT DEF Dated
<1>2. Years(y, m) \in Nat
  <2>1. y - 1900 - Early(m) \in Nat
    BY SMT DEF Dated, Early
  <2> QED
    BY <2>1, SMT DEF Years
<1>3. Months(m) \in Nat
  <2>1. m + 1 + 12 * Early(m) \in Nat
    BY SMT DEF Dated, Early
  <2> QED
    BY <2>1, SMT DEF Months
<1> QED
  BY <1>1, <1>2, <1>3, SMT DEF EnMjd, Dated

(* From the end of a month to the first of the next, the formula advances by
   one: in the year, at its end, and over the end of February. *)
LEMMA NextMonth ==
  ASSUME NEW y \in 1900..2099, NEW m \in 1..12, m # 2, m # 12
  PROVE  EnMjd(y, m + 1, 1) = EnMjd(y, m, Length(y, m)) + 1
<1>1. \/ m = 1 \/ m = 3 \/ m = 4 \/ m = 5 \/ m = 6
      \/ m = 7 \/ m = 8 \/ m = 9 \/ m = 10 \/ m = 11
  BY MonthCases, SMT
<1>2. Years(y, m + 1) = Years(y, m) /\ Years(y, m) \in Int
  BY <1>1, SMT DEF Years, Early
<1>3. Months(m + 1) = Months(m) + Length(y, m)
      /\ Months(m) \in Int /\ Length(y, m) \in Int
  BY <1>1, SMT DEF Months, Length, Early
<1> QED
  BY <1>2, <1>3, SMT DEF EnMjd

LEMMA NextYear ==
  ASSUME NEW y \in 1900..2099
  PROVE  EnMjd(y + 1, 1, 1) = EnMjd(y, 12, Length(y, 12)) + 1
<1>1. Years(y + 1, 1) = Years(y, 12) /\ Years(y, 12) \in Int
  BY SMT DEF Years, Early
<1>2. Months(1) = 428 /\ Months(12) = 397 /\ Length(y, 12) = 31
  BY SMT DEF Months, Length, Early
<1> QED
  BY <1>1, <1>2, SMT DEF EnMjd

LEMMA FebruaryEnds ==
  ASSUME NEW y \in 1901..2099
  PROVE  EnMjd(y, 3, 1) = EnMjd(y, 2, Length(y, 2)) + 1
<1>1. Months(2) = 459 /\ Months(3) = 122
  BY SMT DEF Months, Early
<1>2. Years(y, 3) = ((y - 1900) * 1461) \div 4
  BY SMT DEF Years, Early
<1>3. Years(y, 2) = ((y - 1901) * 1461) \div 4
  BY SMT DEF Years, Early
<1>4. ((y - 1900) * 1461) \div 4
        = ((y - 1901) * 1461) \div 4 + (IF y % 4 = 0 THEN 366 ELSE 365)
  BY SMT
<1>5. Length(y, 2) = IF y % 4 = 0 THEN 29 ELSE 28
  BY SMT DEF Length
<1> QED
  BY <1>1, <1>2, <1>3, <1>4, <1>5, SMT DEF EnMjd

(* The quarters of a day that the year leaves over do not carry the month's
   days into the next one. *)
LEMMA NoCarry ==
  ASSUME NEW r \in 0..3, NEW m \in 3..12, r = 0 \/ m \notin MonthsAhead[r]
  PROVE  (r * 2500 + (m + 1) * 306001) \div 10000 = ((m + 1) * 306001) \div 10000
<1>1. CASE r = 0  BY <1>1, SMT
<1>2. CASE r = 1
  <2>1. m \notin {7, 12}  BY <1>2, SMT DEF MonthsAhead
  <2>2. m \in {3, 4, 5, 6, 8, 9, 10, 11}  BY <2>1, SMT
  <2>3. QED  BY <1>2, <2>2, SMT
<1>3. CASE r = 2
  <2>1. m \notin {5, 7, 10, 12}  BY <1>3, SMT DEF MonthsAhead
  <2>2. m \in {3, 4, 6, 8, 9, 11}  BY <2>1, SMT
  <2>3. QED  BY <1>3, <2>2, SMT
<1>4. CASE r = 3
  <2>1. m \notin {3, 5, 7, 8, 10, 12}  BY <1>4, SMT DEF MonthsAhead
  <2>2. m \in {4, 6, 9, 11}  BY <2>1, SMT
  <2>3. QED  BY <1>4, <2>2, SMT
<1>5. QED  BY <1>1, <1>2, <1>3, <1>4, SMT

LEMMA YearQuarters ==
  ASSUME NEW y \in 1900..2100
  PROVE  /\ ((y - 1900) * 1461) \div 4 \in Nat
         /\ y % 4 \in 0..3
         /\ (y - 1900) * 1461 = 4 * (((y - 1900) * 1461) \div 4) + (y % 4)
<1>1. PICK t \in Nat, r \in 0..3 : y = 4 * t + r
  <2>1. y \div 4 \in Nat /\ y % 4 \in 0..3 /\ y = 4 * (y \div 4) + (y % 4)
    BY SMT
  <2> QED
    BY <2>1, SMT
<1>2. y % 4 = r
  BY <1>1, SMT
<1>3. PICK n \in Int : n = 1461 * t - 693975 + 365 * r
  BY <1>1, SMT
<1>4. (y - 1900) * 1461 = 4 * n + r /\ n \in Nat
  BY <1>1, <1>3, SMT
<1>5. ((y - 1900) * 1461) \div 4 = n
  BY <1>4, SMT
<1> QED
  BY <1>2, <1>4, <1>5, SMT

(* The code's sum: the year's whole days, and the month's with the quarters
   that the year leaves over. *)
WholeDays(y) == ((y - 1900) * 1461) \div 4
MonthDays(y, m) == ((y % 4) * 2500 + (m + 1) * 306001) \div 10000

LEMMA FromMarchSum ==
  ASSUME NEW y \in CalYears, NEW m \in CalMonths, NEW d \in CalDays
  PROVE  MjdFromMarch(y, m, d) = 14956 + d + WholeDays(y) + MonthDays(y, m)
<1> y \in 1900..2100 /\ m \in 1..12 /\ d \in 1..31
  BY SMT DEF CalYears, CalMonths, CalDays
<1>1. PICK q \in Nat, r \in 0..3 :
        q = WholeDays(y) /\ r = y % 4 /\ (y - 1900) * 1461 = 4 * q + r
  <2>1. /\ ((y - 1900) * 1461) \div 4 \in Nat
        /\ y % 4 \in 0..3
        /\ (y - 1900) * 1461 = 4 * (((y - 1900) * 1461) \div 4) + (y % 4)
    BY YearQuarters, SMT
  <2>2. WholeDays(y) = ((y - 1900) * 1461) \div 4
    BY SMT DEF WholeDays
  <2>3. (y - 1900) * 1461 = 4 * WholeDays(y) + (y % 4)
    BY <2>1, <2>2, SMT
  <2> QED
    BY <2>1, <2>2, <2>3, SMT
<1>2. PICK b \in Nat : b = r * 2500 + (m + 1) * 306001
  BY SMT
<1>3. (14956 + d) * 10000 + (y - 1900) * 3652500 + (m + 1) * 306001
        = (14956 + d + q) * 10000 + b
  <2>1. (y - 1900) * 3652500 = 2500 * ((y - 1900) * 1461)
    BY SMT
  <2>2. (y - 1900) * 3652500 = 10000 * q + 2500 * r
    BY <1>1, <2>1, SMT
  <2> QED
    BY <1>2, <2>2, SMT
<1>4. MjdFromMarch(y, m, d) = ((14956 + d + q) * 10000 + b) \div 10000
  BY <1>3, SMT DEF MjdFromMarch
<1>5. ((14956 + d + q) * 10000 + b) \div 10000
        = 14956 + d + q + (b \div 10000)
  BY SMT
<1>6. MonthDays(y, m) = b \div 10000
  BY <1>1, <1>2, SMT DEF MonthDays
<1> QED
  BY <1>1, <1>4, <1>5, <1>6, SMT

(* The branch for March to December, in the months in which nothing is
   carried. *)
LEMMA FromMarch ==
  ASSUME NEW y, NEW m, NEW d, Dated(y, m, d), m > 2, ~Carried(y, m)
  PROVE  MjdFromMarch(y, m, d) = EnMjd(y, m, d)
<1>1. y \in 1900..2100 /\ m \in 3..12 /\ m \in 1..12 /\ d \in 1..31
  BY LengthType, SMT DEF Dated
<1>2. y % 4 \in 0..3  BY <1>1, YearQuarters
<1>3. Early(m) = 0  BY <1>1, SMT DEF Early
<1>4. Years(y, m) = WholeDays(y)  BY <1>1, <1>3, SMT DEF Years, WholeDays
<1>5. Months(m) = ((m + 1) * 306001) \div 10000  BY <1>1, <1>3, SMT DEF Months
<1>6. MonthDays(y, m) = ((m + 1) * 306001) \div 10000
  <2>1. y % 4 = 0 \/ m \notin MonthsAhead[y % 4]  BY DEF Carried
  <2>2. QED  BY <1>1, <1>2, <2>1, NoCarry DEF MonthDays
<1>7. y \in CalYears /\ m \in CalMonths /\ d \in CalDays
  BY <1>1, SMT DEF CalYears, CalMonths, CalDays
<1>8. MjdFromMarch(y, m, d) = 14956 + d + WholeDays(y) + MonthDays(y, m)
  BY <1>7, FromMarchSum
<1>9. QED  BY <1>4, <1>5, <1>6, <1>8 DEF EnMjd

LEMMA MjdType ==
  ASSUME NEW y \in CalYears, NEW m \in CalMonths, NEW d \in CalDays
  PROVE  MjdFromMarch(y, m, d) \in Int /\ MjdToFebruary(y, m, d) \in Int
  BY SMT DEF MjdFromMarch, MjdToFebruary, CalYears, CalMonths, CalDays

LEMMA ClockDateType ==
  ASSUME NEW y \in CalYears, NEW m \in CalMonths, NEW d \in CalDays
  PROVE  ClockDate(y, m, d) \in 0..(Width - 1)
<1>1. ASSUME NEW x \in Int PROVE x % Width \in 0..(Width - 1)
  BY SMT DEF Width
<1>2. CASE m > 2
  <2>1. ClockDate(y, m, d) = MjdFromMarch(y, m, d) % Width
    BY <1>2, Zenon DEF ClockDate
  <2> QED
    BY <1>1, <2>1, MjdType, Zenon
<1>3. CASE ~(m > 2)
  <2>1. ClockDate(y, m, d) = MjdToFebruary(y, m, d) % Width
    BY <1>3, Zenon DEF ClockDate
  <2> QED
    BY <1>1, <2>1, MjdType, Zenon
<1> QED
  BY <1>2, <1>3, Zenon

-----------------------------------------------------------------------------
LEMMA InitInv == Init => IInv
<1> SUFFICES ASSUME Init PROVE IInv
  OBVIOUS
<1>1. Length(1900, 3) = 31
  BY SMT DEF Length
<1>2. EnMjd(1900, 3, 1) = 15079
  BY SMT DEF EnMjd, Years, Months, Early
<1>3. clock \in 0..(Width - 1)
  <2>1. year \in CalYears /\ month \in CalMonths /\ day \in CalDays
    BY SMT DEF Init, CalYears, CalMonths, CalDays
  <2>2. clock = ClockDate(year, month, day)
    BY SMT DEF Init
  <2> QED
    BY <2>1, <2>2, ClockDateType, Zenon
<1> QED
  BY <1>1, <1>2, <1>3, TablesAssumption, SMT DEF Init, IInv, TypeOK, DateInv, Dated

(* What is misdated in a month is added under that month. *)
LEMMA MisdatedInv ==
  ASSUME misdated \subseteq Stamps \X (1..12), month' \in 1..12, NextDay
  PROVE  misdated' \subseteq Stamps \X (1..12)
<1>1. \A w \in Wrong(year', month', day', mjd') :
        \E f \in Stamps : w = <<f, month'>>
  BY DEF Wrong
<1>2. Wrong(year', month', day', mjd') \subseteq Stamps \X (1..12)
  BY <1>1
<1>3. misdated' = (IF year' = year THEN misdated ELSE {})
                  \cup Wrong(year', month', day', mjd')
  BY Zenon DEF NextDay
<1> QED
  BY <1>2, <1>3

LEMMA NextDayInv == IInv /\ NextDay => IInv'
<1> SUFFICES ASSUME IInv, NextDay PROVE IInv'
  OBVIOUS
<1> USE DEF IInv, TypeOK, DateInv, Dated
<1>0. year \in 1900..2100 /\ month \in 1..12 /\ LastYear \in 1901..2100
  BY TablesAssumption, SMT
<1>1. Length(year, month) \in 28..31 /\ day \in 1..31
  BY <1>0, LengthType, SMT
<1>2. /\ year' \in 1900..LastYear /\ month' \in 1..12
      /\ day' \in 1..Length(year', month')
      /\ year' = 1900 => month' > 2
      /\ year' = LastYear => month' <= 2
      /\ EnMjd(year', month', day') = EnMjd(year, month, day) + 1
  <2>1. CASE day < Length(year, month)
    BY <1>0, <1>1, <2>1, EnMjdType, SMT DEF NextDay, EnMjd, Years, Months, Early
  <2>2. CASE day = Length(year, month) /\ month = 12
    <3>1. year' = year + 1 /\ month' = 1 /\ day' = 1
      BY <1>0, <2>2, SMT DEF NextDay
    <3>2. year \in 1900..2099 /\ year + 1 <= LastYear
      BY <1>0, <2>2, SMT
    <3>3. Length(year', month') = 31
      BY <3>1, SMT DEF Length
    <3> QED
      BY <1>0, <2>2, <3>1, <3>2, <3>3, NextYear, SMT
  <2>3. CASE day = Length(year, month) /\ month = 2
    <3>1. year' = year /\ month' = 3 /\ day' = 1 /\ year # LastYear
      BY <1>0, <2>3, SMT DEF NextDay
    <3>2. year \in 1901..2099
      BY <1>0, <2>3, <3>1, SMT
    <3>3. Length(year', month') = 31
      BY <3>1, SMT DEF Length
    <3> QED
      BY <1>0, <2>3, <3>1, <3>2, <3>3, FebruaryEnds, SMT
  <2>4. CASE day = Length(year, month) /\ month # 12 /\ month # 2
    <3>1. year' = year /\ month' = month + 1 /\ day' = 1
      BY <1>0, <2>4, SMT DEF NextDay
    <3>2. \/ year \in 1900..2099
          \/ year = 2100 /\ month = 1
      BY <1>0, <2>4, SMT
    <3>3. Length(year', month') \in 28..31
      BY <1>0, <2>4, <3>1, LengthType, SMT
    <3>4. EnMjd(year, month + 1, 1)
            = EnMjd(year, month, Length(year, month)) + 1
      <4>1. CASE year \in 1900..2099
        BY <1>0, <2>4, <4>1, NextMonth, SMT
      <4>2. CASE year = 2100 /\ month = 1
        BY <4>2, SMT DEF EnMjd, Years, Months, Early, Length
      <4> QED
        BY <3>2, <4>1, <4>2, SMT
    <3> QED
      BY <1>0, <2>4, <3>1, <3>3, <3>4, SMT
  <2> QED
    BY <1>0, <1>1, <2>1, <2>2, <2>3, <2>4, SMT
<1>3. mjd' = EnMjd(year', month', day') /\ mjd' \in Nat
  BY <1>2, SMT DEF NextDay
<1>4. clock' = ClockDate(year', month', day')
  BY SMT DEF NextDay
<1>5. Length(year', month') \in 28..31
  BY <1>0, <1>2, LengthType, SMT
<1>6. clock' \in 0..(Width - 1)
  <2>1. year' \in CalYears /\ month' \in CalMonths /\ day' \in CalDays
    BY <1>0, <1>2, <1>5, SMT DEF CalYears, CalMonths, CalDays
  <2>2. ClockDate(year', month', day') \in 0..(Width - 1)
    BY <2>1, ClockDateType, SMT
  <2> QED
    BY <1>4, <2>2, SMT
<1>7. text' = text /\ main' = main
  BY SMT DEF NextDay
<1>8. misdated' \subseteq Stamps \X (1..12)
  <2>1. misdated \subseteq Stamps \X (1..12)  OBVIOUS
  <2>2. month' \in 1..12  BY <1>2
  <2> QED
    BY <2>1, <2>2, MisdatedInv
<1> QED
  BY <1>0, <1>2, <1>3, <1>4, <1>6, <1>7, <1>8, SMT

LEMMA StartInv == IInv /\ Start => IInv'
<1> SUFFICES ASSUME IInv, Start PROVE IInv'
  OBVIOUS
<1>1. main' \in {"starts", "runs", "returned", "crashed"}
  BY SMT DEF Start
<1> QED
  BY <1>1, SMT DEF Start, IInv, TypeOK, DateInv

THEOREM Invariance == Spec => []IInv
<1>1. IInv /\ [Next]_vars => IInv'
  <2>1. IInv /\ UNCHANGED vars => IInv'
    BY DEF IInv, TypeOK, DateInv, vars
  <2> QED
    BY <2>1, NextDayInv, StartInv DEF Next
<1> QED
  BY <1>1, InitInv, PTL DEF Spec

(* Dates and counters keep their types; a date has sixteen bits. *)
THEOREM TypeCorrect == Spec => []TypeOK
<1>1. IInv => TypeOK
  BY DEF IInv
<1> QED
  BY <1>1, Invariance, PTL

(* In the months from March on in which nothing is carried, TDT and TOT carry
   today's date and an event that starts now is dated today, on every day
   until 2100. *)
THEOREM DatesToday == Spec => []DatesAreToday
<1>1. IInv => DatesAreToday
  <2> SUFFICES ASSUME IInv, month > 2, ~Carried(year, month)
               PROVE  /\ clock = mjd % Width
                      /\ EventDate(year, month, day) = mjd % Width
    BY DEF DatesAreToday
  <2>1. Dated(year, month, day) /\ mjd = EnMjd(year, month, day)
    BY DEF IInv, DateInv
  <2>2. MjdFromMarch(year, month, day) = mjd  BY <2>1, FromMarch
  <2>3. clock = ClockDate(year, month, day)  BY DEF IInv, DateInv
  <2>4. ClockDate(year, month, day) = mjd % Width  BY <2>2, Zenon DEF ClockDate
  <2>5. QED  BY <2>2, <2>3, <2>4 DEF EventDate
<1>2. QED  BY <1>1, Invariance, PTL

-----------------------------------------------------------------------------
(* The receiver's recursion over descriptors is well founded: position i is
   the end, or there is a descriptor at i and the one behind it counts. *)
LEMMA ReaderStep ==
  ASSUME NEW b \in Seq(Nat), NEW e \in 0..Len(b), NEW i \in Nat
  PROVE  DescriptorsEnd(b, i, e)
           <=> (i = e \/ (i + 1 < e /\ DescriptorsEnd(b, i + 2 + b[i + 1], e)))
<1> DEFINE Behind(p) == p + 2 + b[p + 1]
           Step(f) == [p \in Nat |-> p = e \/ (p + 1 < e /\ f[p + 2 + b[p + 1]])]
           Closed(X) == e \in X /\ \A p \in Nat : p + 1 < e /\ Behind(p) \in X => p \in X
           R == {p \in Nat : \A X \in SUBSET Nat : Closed(X) => p \in X}
           T == {p \in Nat : p = e \/ (p + 1 < e /\ Behind(p) \in R)}
           f == [p \in Nat |-> p \in R]
           ends == CHOOSE g : g = Step(g)
<1>1. e \in Nat /\ \A p \in Nat : p + 1 < e => Behind(p) \in Nat
  <2>1. Len(b) \in Nat  BY LenProperties
  <2>2. ASSUME NEW p \in Nat, p + 1 < e  PROVE b[p + 1] \in Nat
    <3>1. p + 1 \in 1..Len(b)  BY <2>1, <2>2
    <3>2. QED  BY <3>1, ElementOfSeq
  <2>3. QED  BY <2>1, <2>2
<1> HIDE DEF Behind
<1>2. Closed(R)  BY <1>1
<1>3. T \subseteq R  BY <1>2
<1>4. Closed(T)  BY <1>1, <1>3
<1>5. T \in SUBSET Nat  OBVIOUS
<1>6. R \subseteq T  BY <1>4, <1>5
<1>7. \A p \in Nat : p \in R <=> (p = e \/ (p + 1 < e /\ Behind(p) \in R))
  BY <1>3, <1>6
<1>8. f = Step(f)
  <2> HIDE DEF R
  <2>0. \A q \in Nat : f[q] <=> q \in R  BY Zenon
  <2> HIDE DEF f
  <2>1. ASSUME NEW p \in Nat
        PROVE  (p \in R) = (p = e \/ (p + 1 < e /\ f[p + 2 + b[p + 1]]))
    <3> DEFINE q == p + 2 + b[p + 1]
    <3>1. p \in R <=> (p = e \/ (p + 1 < e /\ q \in R))  BY <1>7 DEF Behind
    <3>2. p + 1 < e => q \in Nat  BY <1>1 DEF Behind
    <3> HIDE DEF q
    <3>3. p \in R <=> (p = e \/ (p + 1 < e /\ f[q]))  BY <2>0, <3>1, <3>2, Zenon
    <3>4. (p \in R) = (p = e \/ (p + 1 < e /\ f[q]))  BY <3>3, SMT
    <3>5. QED  BY <3>4 DEF q
  <2>2. Step(f) = [p \in Nat |-> p \in R]  BY <2>1, Zenon
  <2>3. QED  BY <2>2 DEF f
<1>9. ends = Step(ends)  BY <1>8, Zenon
<1>10. \A p : DescriptorsEnd(b, p, e) = ends[p]  BY DEF DescriptorsEnd
<1> HIDE DEF ends, f, R, T
<1>11. ends[i] = (i = e \/ (i + 1 < e /\ ends[i + 2 + b[i + 1]]))  BY <1>9, Zenon
<1>12. QED  BY <1>10, <1>11, Zenon

(* A reader that finds each length where it should arrives at the end. *)
LEMMA Arrives ==
  ASSUME NEW b \in Seq(Nat), NEW e \in 0..Len(b), NEW K \in Nat,
         NEW p \in [0..K -> Nat], p[K] = e,
         \A n \in 1..K : p[n - 1] + 1 < e /\ p[n] = p[n - 1] + 2 + b[p[n - 1] + 1]
  PROVE  DescriptorsEnd(b, p[0], e)
<1> DEFINE S == {n \in 0..K : DescriptorsEnd(b, p[K - n], e)}
<1>1. 0 \in S
  <2>1. e \in Nat  OBVIOUS
  <2>2. DescriptorsEnd(b, e, e)  BY <2>1, ReaderStep
  <2>3. p[K - 0] = e  OBVIOUS
  <2>4. QED  BY <2>2, <2>3
<1>2. ASSUME NEW n \in 1..K, n - 1 \in S  PROVE n \in S
  <2> DEFINE i == p[K - n]
  <2>1. K - n \in 0..K /\ K - (n - 1) = K - n + 1 /\ K - n + 1 \in 1..K
    OBVIOUS
  <2>2. i \in Nat  BY <2>1
  <2>3. i + 1 < e /\ p[K - n + 1] = i + 2 + b[i + 1]
    <3>1. (K - n + 1) - 1 = K - n  OBVIOUS
    <3>2. QED  BY <2>1, <3>1
  <2>4. DescriptorsEnd(b, p[K - n + 1], e)  BY <1>2, <2>1
  <2> HIDE DEF i
  <2>5. DescriptorsEnd(b, i + 2 + b[i + 1], e)  BY <2>3, <2>4
  <2>6. DescriptorsEnd(b, i, e)
          <=> (i = e \/ (i + 1 < e /\ DescriptorsEnd(b, i + 2 + b[i + 1], e)))
    BY <2>2, ReaderStep
  <2>7. DescriptorsEnd(b, i, e)  BY <2>3, <2>5, <2>6
  <2>8. QED  BY <2>7 DEF i
<1> HIDE DEF S
<1>3. 0..K \subseteq S  BY <1>1, <1>2, Induction
<1>4. K \in S  BY <1>3
<1>5. DescriptorsEnd(b, p[K - K], e)  BY <1>4, Zenon DEF S
<1>6. K - K = 0  OBVIOUS
<1>7. QED  BY <1>5, <1>6

-----------------------------------------------------------------------------
(* Joined and Total, step by step. *)
IsJoined(j, ds) ==
  /\ j[0] = <<>>
  /\ \A n \in 1..Len(ds) : j[n] = j[n - 1] \o ds[n]
  /\ j \in [0..Len(ds) -> Seq(Nat)]

IsTotal(t, ds) ==
  /\ t[0] = 0
  /\ \A n \in 1..Len(ds) : t[n] = t[n - 1] + Len(ds[n])
  /\ t \in [0..Len(ds) -> Nat]

LEMMA JoinedSteps ==
  ASSUME NEW ds \in Seq(Seq(Nat))
  PROVE  \E j : IsJoined(j, ds) /\ Joined(ds) = j[Len(ds)]
<1> DEFINE N == Len(ds)
           Step(f) == [n \in 0..N |-> IF n = 0 THEN <<>> ELSE f[n - 1] \o ds[n]]
           joined == CHOOSE f : f = Step(f)
           h == [n \in 1..N |-> [v \in Seq(Nat) |-> v \o ds[n]]]
<1>1. N \in Nat  BY LenProperties
<1>2. Joined(ds) = joined[N]  BY DEF Joined
<1>3. \A n \in 1..N : ds[n] \in Seq(Nat)  BY ElementOfSeq, Zenon
<1> HIDE DEF N
<1>4. h \in [1..N -> [Seq(Nat) -> Seq(Nat)]]
  <2>1. \A n \in 1..N : \A v \in Seq(Nat) : v \o ds[n] \in Seq(Nat)
    BY <1>3, ConcatProperties, Zenon
  <2>2. QED  BY <2>1, Zenon
<1>5. \E f : f = Step(f)
  <2>1. PICK f : IsRecursive(f, N, Seq(Nat), <<>>, h)
    <3>1. <<>> \in Seq(Nat)  BY EmptySeq
    <3> HIDE DEF h
    <3>2. QED  BY <1>1, <1>4, <3>1, Recursion, Zenon
  <2>2. f \in [0..N -> Seq(Nat)] /\ f[0] = <<>>
    BY <2>1, Zenon DEF IsRecursive
  <2>3. \A n \in 1..N : f[n] = h[n][f[n - 1]]
    BY <2>1, Zenon DEF IsRecursive
  <2>4. ASSUME NEW n \in 1..N  PROVE f[n] = f[n - 1] \o ds[n]
    <3>1. n - 1 \in 0..N  BY <1>1
    <3>2. f[n - 1] \in Seq(Nat)  BY <2>2, <3>1, Zenon
    <3> DEFINE v == f[n - 1]
    <3> HIDE DEF v
    <3>3. h[n][v] = v \o ds[n]  BY <3>2, Zenon DEF v
    <3>4. QED  BY <2>3, <3>3, Zenon DEF v
  <2> HIDE DEF h
  <2>5. \A n \in 0..N : f[n] = IF n = 0 THEN <<>> ELSE f[n - 1] \o ds[n]
    <3>1. \A n \in 0..N : n # 0 => n \in 1..N  BY <1>1
    <3>2. QED  BY <2>2, <2>4, <3>1, Zenon
  <2>6. f = Step(f)  BY <2>2, <2>5, Zenon
  <2>7. QED  BY <2>6, Zenon
<1>6. joined = Step(joined)  BY <1>5, Zenon
<1> HIDE DEF joined, h
<1>7. joined[0] = <<>> /\ \A n \in 1..N : joined[n] = joined[n - 1] \o ds[n]
  <2>1. 0 \in 0..N /\ \A n \in 1..N : n \in 0..N /\ n # 0  BY <1>1
  <2>2. QED  BY <1>6, <2>1, Zenon
<1>8. joined = [n \in 0..N |-> joined[n]]  BY <1>6, Zenon
<1> DEFINE S == {n \in Nat : joined[n] \in Seq(Nat)}
<1>9. 0 \in S
  <2>1. 0 \in Nat /\ <<>> \in Seq(Nat)  BY EmptySeq
  <2>2. QED  BY <1>7, <2>1, Zenon
<1>10. ASSUME NEW n \in 1..N, n - 1 \in S  PROVE n \in S
  <2> DEFINE v == joined[n - 1]
             d == ds[n]
  <2>1. v \in Seq(Nat) /\ d \in Seq(Nat)  BY <1>3, <1>10, Zenon
  <2>2. n \in Nat  BY <1>1
  <2>3. joined[n] = v \o d  BY <1>7, Zenon
  <2> HIDE DEF v, d
  <2>4. v \o d \in Seq(Nat)  BY <2>1, ConcatProperties, Zenon
  <2>5. QED  BY <2>2, <2>3, <2>4, Zenon
<1> HIDE DEF S
<1>11. 0..N \subseteq S  BY <1>1, <1>9, <1>10, Induction
<1>12. \A n \in 0..N : joined[n] \in Seq(Nat)  BY <1>11 DEF S
<1>13. joined \in [0..N -> Seq(Nat)]  BY <1>8, <1>12, Zenon
<1>14. IsJoined(joined, ds)  BY <1>7, <1>13 DEF IsJoined, N
<1>15. QED  BY <1>2, <1>14, Zenon DEF N

LEMMA TotalSteps ==
  ASSUME NEW ds \in Seq(Seq(Nat))
  PROVE  \E t : IsTotal(t, ds) /\ Total(ds) = t[Len(ds)]
<1> DEFINE N == Len(ds)
           Step(f) == [n \in 0..N |-> IF n = 0 THEN 0 ELSE f[n - 1] + Len(ds[n])]
           total == CHOOSE f : f = Step(f)
           h == [n \in 1..N |-> [v \in Nat |-> v + Len(ds[n])]]
<1>1. N \in Nat  BY LenProperties
<1>2. Total(ds) = total[N]  BY DEF Total
<1>3. \A n \in 1..N : Len(ds[n]) \in Nat
  BY ElementOfSeq, LenProperties, Zenon
<1> HIDE DEF N
<1>4. h \in [1..N -> [Nat -> Nat]]  BY <1>3
<1>5. \E f : f = Step(f)
  <2>1. PICK f : IsRecursive(f, N, Nat, 0, h)
    <3>1. 0 \in Nat  OBVIOUS
    <3> HIDE DEF h
    <3>2. QED  BY <1>1, <1>4, <3>1, Recursion, Zenon
  <2>2. f \in [0..N -> Nat] /\ f[0] = 0
    BY <2>1, Zenon DEF IsRecursive
  <2>3. \A n \in 1..N : f[n] = h[n][f[n - 1]]
    BY <2>1, Zenon DEF IsRecursive
  <2>4. ASSUME NEW n \in 1..N  PROVE f[n] = f[n - 1] + Len(ds[n])
    <3>1. f[n - 1] \in Nat  BY <1>1, <2>2
    <3>2. h[n] = [v \in Nat |-> v + Len(ds[n])]  OBVIOUS
    <3>3. QED  BY <2>3, <3>1, <3>2
  <2> HIDE DEF h
  <2>5. f = Step(f)  BY <1>1, <2>2, <2>4
  <2>6. QED  BY <2>5, Zenon
<1>6. total = Step(total)  BY <1>5, Zenon
<1> HIDE DEF total, h
<1>7. total[0] = 0 /\ \A n \in 1..N : total[n] = total[n - 1] + Len(ds[n])
  BY <1>1, <1>6
<1>8. total = [n \in 0..N |-> total[n]]  BY <1>6, Zenon
<1> DEFINE S == {n \in Nat : total[n] \in Nat}
<1>9. 0 \in S  BY <1>7
<1>10. ASSUME NEW n \in 1..N, n - 1 \in S  PROVE n \in S
  BY <1>1, <1>3, <1>7, <1>10
<1> HIDE DEF S
<1>11. 0..N \subseteq S  BY <1>1, <1>9, <1>10, Induction
<1>12. \A n \in 0..N : total[n] \in Nat  BY <1>11 DEF S
<1>13. total \in [0..N -> Nat]  BY <1>8, <1>12, Zenon
<1>14. IsTotal(total, ds)  BY <1>7, <1>13 DEF IsTotal, N
<1>15. QED  BY <1>2, <1>14, Zenon DEF N

(* What stands where when one sequence is appended to another. *)
LEMMA Appended ==
  ASSUME NEW s \in Seq(Nat), NEW u \in Seq(Nat)
  PROVE  /\ s \o u \in Seq(Nat)
         /\ Len(s) \in Nat /\ Len(u) \in Nat
         /\ Len(s \o u) = Len(s) + Len(u)
         /\ \A x \in 1..Len(s) : (s \o u)[x] = s[x]
         /\ \A x \in 1..Len(u) : (s \o u)[Len(s) + x] = u[x]
<1> DEFINE w == s \o u
           k == Len(s)
           m == Len(u)
<1>1. k \in Nat /\ m \in Nat  BY LenProperties
<1>2. w \in Seq(Nat) /\ Len(w) = k + m
      /\ \A x \in 1..(k + m) : w[x] = IF x <= k THEN s[x] ELSE u[x - k]
  BY ConcatProperties
<1> HIDE DEF w, k, m
<1>3. ASSUME NEW x \in 1..k  PROVE w[x] = s[x]
  <2>1. x \in 1..(k + m) /\ x <= k  BY <1>1
  <2>2. QED  BY <1>2, <2>1
<1>4. ASSUME NEW x \in 1..m  PROVE w[k + x] = u[x]
  <2>1. k + x \in 1..(k + m) /\ ~(k + x <= k) /\ (k + x) - k = x  BY <1>1
  <2>2. QED  BY <1>2, <2>1
<1>5. QED  BY <1>1, <1>2, <1>3, <1>4 DEF w, k, m

(* Joined descriptors take their total length, and each stands where those
   before it end. *)
LEMMA JoinedParts ==
  ASSUME NEW ds \in Seq(Seq(Nat)), NEW j, NEW t, IsJoined(j, ds), IsTotal(t, ds),
         NEW n \in 0..Len(ds)
  PROVE  /\ Len(j[n]) = t[n]
         /\ \A k \in 0..n : t[k] <= t[n]
         /\ \A k \in 1..n : \A x \in 1..Len(ds[k]) : j[n][t[k - 1] + x] = ds[k][x]
<1> DEFINE N == Len(ds)
           Lengths(i) == Len(j[i]) = t[i] /\ \A k \in 0..i : t[k] <= t[i]
           Parts(i) == \A k \in 1..i : \A x \in 1..Len(ds[k]) : j[i][t[k - 1] + x] = ds[k][x]
           S == {i \in Nat : Lengths(i) /\ Parts(i)}
<1>1. N \in Nat /\ \A i \in 1..N : ds[i] \in Seq(Nat)
  BY LenProperties, ElementOfSeq
<1>2. j[0] = <<>> /\ j \in [0..N -> Seq(Nat)]
      /\ \A i \in 1..N : j[i] = j[i - 1] \o ds[i]
  BY Zenon DEF IsJoined
<1>3. t[0] = 0 /\ t \in [0..N -> Nat]
      /\ \A i \in 1..N : t[i] = t[i - 1] + Len(ds[i])
  BY Zenon DEF IsTotal
<1>4. n \in 0..N  OBVIOUS
<1> HIDE DEF N
<1>5. 0 \in S
  <2>1. Len(j[0]) = t[0]  BY <1>2, <1>3, EmptySeq
  <2>2. \A k \in 0..0 : t[k] <= t[0]  BY <1>3
  <2>3. Parts(0)
    <3>1. 1..0 = {}  OBVIOUS
    <3>2. QED  BY <3>1, Zenon
  <2> HIDE DEF Parts
  <2>4. QED  BY <2>1, <2>2, <2>3
<1>6. ASSUME NEW i \in 1..N, i - 1 \in S  PROVE i \in S
  <2> DEFINE v == j[i - 1]
             d == ds[i]
             w == v \o d
  <2>1. i \in Nat /\ i - 1 \in 0..N /\ i \in 0..N  BY <1>1
  <2>2. v \in Seq(Nat) /\ d \in Seq(Nat) /\ j[i] = w
    BY <1>1, <1>2, <2>1, Zenon
  <2>3. Lengths(i - 1) /\ Parts(i - 1)  BY <1>6, Zenon
  <2>4. Len(v) = t[i - 1]  BY <2>3, Zenon
  <2>5. t[i] = t[i - 1] + Len(d) /\ t[i - 1] \in Nat /\ t[i] \in Nat
    BY <1>3, <2>1, Zenon
  <2> HIDE DEF v, d, Parts
  <2>6. /\ Len(d) \in Nat /\ Len(w) = Len(v) + Len(d)
        /\ \A x \in 1..Len(v) : w[x] = v[x]
        /\ \A x \in 1..Len(d) : w[Len(v) + x] = d[x]
    BY <2>2, Appended, Zenon
  <2> HIDE DEF w
  <2>7. Lengths(i)
    <3>1. Len(j[i]) = t[i]  BY <2>2, <2>4, <2>5, <2>6
    <3>2. ASSUME NEW k \in 0..i  PROVE t[k] <= t[i]
      <4>1. CASE k = i  BY <2>5, <4>1
      <4>2. CASE k \in 0..(i - 1)
        <5>0. k \in 0..N  BY <1>1, <2>1, <4>2
        <5>1. t[k] \in Nat  BY <1>3, <5>0, Zenon
        <5>2. t[k] <= t[i - 1]  BY <2>3, <4>2
        <5>3. QED  BY <2>5, <2>6, <5>1, <5>2
      <4>3. QED  BY <2>1, <4>1, <4>2
    <3>3. QED  BY <3>1, <3>2
  <2>8. ASSUME NEW k \in 1..i, NEW x \in 1..Len(ds[k])
        PROVE  j[i][t[k - 1] + x] = ds[k][x]
    <3>1. CASE k = i
      <4>1. x \in 1..Len(d) /\ ds[k] = d  BY <3>1, Zenon DEF d
      <4>2. j[i][t[k - 1] + x] = w[Len(v) + x]  BY <2>2, <2>4, <3>1, Zenon
      <4>3. QED  BY <2>6, <4>1, <4>2, Zenon
    <3>2. CASE k # i
      <4>1. k \in 1..(i - 1) /\ k \in 1..N /\ k \in 0..(i - 1) /\ k - 1 \in 0..N
            /\ k \in 0..N
        BY <1>1, <3>2
      <4>2. t[k] = t[k - 1] + Len(ds[k]) /\ t[k] <= t[i - 1]
        BY <1>3, <2>3, <4>1, Zenon
      <4>3. t[k - 1] \in Nat /\ t[k] \in Nat  BY <1>3, <4>1, Zenon
      <4>4. Len(ds[k]) \in Nat  BY <1>1, <4>1, LenProperties, Zenon
      <4> DEFINE a == t[k - 1]
                 l == Len(ds[k])
      <4>5. a + x \in 1..Len(v)
        <5>1. a \in Nat /\ l \in Nat /\ x \in 1..l /\ Len(v) \in Nat /\ a + l <= Len(v)
          BY <2>4, <2>5, <4>2, <4>3, <4>4
        <5> HIDE DEF a, l
        <5>2. QED  BY <5>1
      <4>6. w[a + x] = v[a + x]  BY <2>6, <4>5, Zenon
      <4>7. v[a + x] = ds[k][x]  BY <2>3, <4>1, Zenon DEF Parts, v
      <4>8. QED  BY <2>2, <4>6, <4>7, Zenon
    <3>3. QED  BY <3>1, <3>2
  <2>9. Parts(i)  BY <2>8, Zenon DEF Parts
  <2>10. QED  BY <2>1, <2>7, <2>9, Zenon
<1> HIDE DEF S, Lengths, Parts
<1>7. 0..N \subseteq S  BY <1>1, <1>5, <1>6, Induction
<1>8. Lengths(n) /\ Parts(n)  BY <1>4, <1>7, Zenon DEF S
<1>9. QED  BY <1>8 DEF Lengths, Parts

(* A descriptor whose length byte counts the bytes behind it. *)
Descriptors == {d \in Seq(Nat) : Len(d) >= 2 /\ d[2] = Len(d) - 2}

(* The receiver arrives exactly behind any descriptors that are joined. *)
LEMMA JoinedIsRead ==
  ASSUME NEW ds \in Seq(Descriptors), NEW b \in Seq(Nat), NEW i \in Nat \ {0},
         i + Total(ds) <= Len(b),
         \A x \in 1..Total(ds) : b[i + (x - 1)] = Joined(ds)[x]
  PROVE  DescriptorsEnd(b, i, i + Total(ds))
<1> DEFINE N == Len(ds)
           e == i + Total(ds)
<1>1. ds \in Seq(Seq(Nat))  BY SeqMonotonic DEF Descriptors
<1>2. PICK j : IsJoined(j, ds) /\ Joined(ds) = j[N]  BY <1>1, JoinedSteps
<1>3. PICK t : IsTotal(t, ds) /\ Total(ds) = t[N]  BY <1>1, TotalSteps
<1>4. N \in Nat  BY LenProperties
<1>5. /\ \A n \in 1..N : t[n] = t[n - 1] + Len(ds[n])
      /\ t[0] = 0 /\ t \in [0..N -> Nat]
  BY <1>3, Zenon DEF IsTotal
<1>6. /\ \A k \in 0..N : t[k] <= t[N]
      /\ \A k \in 1..N : \A x \in 1..Len(ds[k]) : j[N][t[k - 1] + x] = ds[k][x]
  <2>1. N \in 0..N  BY <1>4
  <2>2. QED  BY <1>1, <1>2, <1>3, <2>1, JoinedParts
<1>7. \A n \in 1..N : ds[n] \in Descriptors  BY ElementOfSeq
<1> DEFINE p == [n \in 0..N |-> i + t[n]]
<1>8. \A x \in 1..t[N] : b[i + (x - 1)] = j[N][x]  BY <1>2, <1>3
<1>9. i + t[N] <= Len(b) /\ Len(b) \in Nat  BY <1>3, LenProperties
<1>10. e = i + t[N]  BY <1>3
<1> HIDE DEF N, e
<1>11. p \in [0..N -> Nat] /\ p[0] = i /\ p[N] = e
  BY <1>4, <1>5, <1>10
<1>12. ASSUME NEW n \in 1..N
       PROVE  p[n - 1] + 1 < e /\ p[n] = p[n - 1] + 2 + b[p[n - 1] + 1]
  <2> DEFINE a == t[n - 1]
             l == Len(ds[n])
  <2>1. n - 1 \in 0..N /\ n \in 0..N  BY <1>4
  <2>2. a \in Nat /\ t[n] \in Nat /\ t[N] \in Nat /\ t[n] = a + l /\ t[n] <= t[N]
    BY <1>4, <1>5, <1>6, <2>1
  <2>3. l \in Nat /\ l >= 2 /\ ds[n][2] = l - 2
    BY <1>7, LenProperties DEF Descriptors
  <2>4. p[n - 1] = i + a /\ p[n] = i + t[n]  BY <2>1, Zenon
  <2>5. 2 \in 1..l /\ a + 2 \in 1..t[N] /\ i + ((a + 2) - 1) = i + a + 1
    <3> HIDE DEF a, l
    <3>1. QED  BY <2>2, <2>3
  <2>6. j[N][a + 2] = ds[n][2]  BY <1>6, <2>5, Zenon
  <2>7. b[i + a + 1] = j[N][a + 2]  BY <1>8, <2>5
  <2> HIDE DEF a, l, p
  <2>8. p[n - 1] + 1 < e
    <3>1. a + 1 < t[N]  BY <2>2, <2>3
    <3>2. i + a + 1 < i + t[N]  BY <2>2, <3>1
    <3>3. QED  BY <1>10, <2>4, <3>2
  <2>9. p[n] = p[n - 1] + 2 + (l - 2)  BY <2>2, <2>3, <2>4
  <2>10. b[p[n - 1] + 1] = l - 2  BY <2>3, <2>4, <2>6, <2>7, Zenon
  <2>11. QED  BY <2>8, <2>9, <2>10
<1> HIDE DEF p
<1>13. e \in 0..Len(b)  BY <1>4, <1>5, <1>9, <1>10
<1>14. DescriptorsEnd(b, p[0], e)
  BY <1>4, <1>11, <1>12, <1>13, Arrives, Zenon
<1>15. QED  BY <1>11, <1>14 DEF e
-----------------------------------------------------------------------------
(* The pieces that sections are made of. *)
LEMMA OtherType ==
  ASSUME NEW n \in Nat
  PROVE  /\ Other(n) \in Seq(Nat) /\ Len(Other(n)) = n
         /\ \A x \in 1..n : Other(n)[x] = 0
  BY DEF Other

LEMMA FieldType ==
  ASSUME NEW v \in 0..255
  PROVE  Field(v) \in Seq(Nat) /\ Len(Field(v)) = 2 /\ Field(v)[1] = 240 /\ Field(v)[2] = v
<1>1. v \div 256 = 0 /\ v % 256 = v  OBVIOUS
<1>2. Field(v) = <<240, v>>  BY <1>1 DEF Field
<1>3. QED  BY <1>2

(* gst_mpegts_descriptor_from_custom, when the length is that of the data. *)
LEMMA DescriptorType ==
  ASSUME NEW data \in Seq(Nat), NEW n \in Nat, Len(data) = n
  PROVE  /\ Descriptor(data, n) \in Descriptors
         /\ Len(Descriptor(data, n)) = n + 2
         /\ Descriptor(data, n)[2] = n
         /\ \A x \in 1..n : Descriptor(data, n)[2 + x] = data[x]
<1> DEFINE h == <<0, n>>
           d == h \o data
<1>1. SubSeq(data, 1, n) = data  BY SubSeqFull
<1>2. h \in Seq(Nat) /\ Len(h) = 2 /\ h[2] = n  OBVIOUS
<1>3. Descriptor(data, n) = d  BY <1>1 DEF Descriptor
<1> HIDE DEF h
<1>4. /\ d \in Seq(Nat) /\ Len(d) = Len(h) + Len(data)
      /\ \A x \in 1..Len(h) : d[x] = h[x]
      /\ \A x \in 1..Len(data) : d[Len(h) + x] = data[x]
  BY <1>2, Appended, Zenon
<1> HIDE DEF d
<1>5. Len(d) = n + 2 /\ d[2] = n  BY <1>2, <1>4
<1>6. \A x \in 1..n : d[2 + x] = data[x]  BY <1>2, <1>4
<1>7. d \in Descriptors  BY <1>4, <1>5 DEF Descriptors
<1>8. QED  BY <1>3, <1>5, <1>6, <1>7

(* A header, its descriptors, and a CRC: the descriptors end where the
   header's length and theirs say. *)
LaidOut(b, head, ds) ==
  /\ Total(ds) \in Nat
  /\ b \in Seq(Nat) /\ Len(b) = Len(head) + Total(ds) + 4
  /\ \A x \in 1..Len(head) : b[x] = head[x]
  /\ \A x \in 1..Total(ds) : b[Len(head) + x] = Joined(ds)[x]
  /\ DescriptorsEnd(b, Len(head) + 1, Len(head) + 1 + Total(ds))

LEMMA Layout ==
  ASSUME NEW head \in Seq(Nat), NEW ds \in Seq(Descriptors),
         NEW b, b = head \o Joined(ds) \o Other(4)
  PROVE  LaidOut(b, head, ds)
<1> DEFINE u == Joined(ds)
           v == head \o u
           o == Other(4)
           n == Len(head)
           m == Total(ds)
<1>1. u \in Seq(Nat) /\ Len(u) = m /\ m \in Nat
  <2>1. ds \in Seq(Seq(Nat))  BY SeqMonotonic DEF Descriptors
  <2>2. PICK j : IsJoined(j, ds) /\ Joined(ds) = j[Len(ds)]  BY <2>1, JoinedSteps
  <2>3. PICK t : IsTotal(t, ds) /\ Total(ds) = t[Len(ds)]  BY <2>1, TotalSteps
  <2>4. Len(ds) \in Nat /\ Len(ds) \in 0..Len(ds)  BY LenProperties
  <2>5. Len(j[Len(ds)]) = t[Len(ds)]  BY <2>1, <2>2, <2>3, <2>4, JoinedParts
  <2>6. t[Len(ds)] \in Nat /\ j[Len(ds)] \in Seq(Nat)
    BY <2>2, <2>3, <2>4, Zenon DEF IsTotal, IsJoined
  <2>7. QED  BY <2>2, <2>3, <2>5, <2>6, Zenon
<1>2. o \in Seq(Nat) /\ Len(o) = 4  BY OtherType
<1>3. n \in Nat  BY LenProperties
<1> HIDE DEF u, o, m
<1>4. /\ v \in Seq(Nat) /\ Len(v) = Len(head) + Len(u)
      /\ \A x \in 1..Len(head) : v[x] = head[x]
      /\ \A x \in 1..Len(u) : v[Len(head) + x] = u[x]
  BY <1>1, Appended, Zenon
<1>5. b = v \o o  BY Zenon DEF u, o
<1> HIDE DEF v, n
<1>6. /\ b \in Seq(Nat) /\ Len(b) = Len(v) + Len(o)
      /\ \A x \in 1..Len(v) : b[x] = v[x]
  <2> DEFINE w == v \o o
  <2>1. w \in Seq(Nat) /\ Len(w) = Len(v) + Len(o) /\ \A x \in 1..Len(v) : w[x] = v[x]
    BY <1>2, <1>4, Appended, Zenon
  <2> HIDE DEF w
  <2>2. b = w  BY <1>5 DEF w
  <2>3. QED  BY <2>1, <2>2
<1>7. Len(v) = n + m /\ Len(b) = n + m + 4
  BY <1>1, <1>2, <1>3, <1>4, <1>6 DEF n
<1>8. \A x \in 1..n : b[x] = head[x]
  <2>1. \A x \in 1..n : x \in 1..(n + m)  BY <1>1, <1>3
  <2>2. QED  BY <1>4, <1>6, <1>7, <2>1, Zenon DEF n
<1>9. \A x \in 1..m : b[n + x] = u[x]
  <2>1. \A x \in 1..m : n + x \in 1..(n + m)  BY <1>1, <1>3
  <2>2. QED  BY <1>1, <1>4, <1>6, <1>7, <2>1, Zenon DEF n
<1>10. DescriptorsEnd(b, n + 1, n + 1 + m)
  <2>1. n + 1 \in Nat \ {0} /\ n + 1 + m <= Len(b)  BY <1>1, <1>3, <1>7
  <2>2. ASSUME NEW x \in 1..m  PROVE b[(n + 1) + (x - 1)] = u[x]
    <3>1. (n + 1) + (x - 1) = n + x  BY <1>1, <1>3
    <3>2. QED  BY <1>9, <3>1
  <2>3. QED  BY <1>6, <2>1, <2>2, JoinedIsRead, Zenon DEF u, m
<1>11. QED  BY <1>1, <1>6, <1>7, <1>8, <1>9, <1>10, Zenon DEF n, m, u, LaidOut
-----------------------------------------------------------------------------
(* Sequence w is s with n bytes more behind it. *)
Extends(w, s, n) ==
  /\ w \in Seq(Nat) /\ Len(w) = Len(s) + n
  /\ \A x \in 1..Len(s) : w[x] = s[x]
  /\ \A x \in 1..(Len(s) - 1) : FieldAt(w, x) = FieldAt(s, x)

LEMMA ThenBytes ==
  ASSUME NEW s \in Seq(Nat), NEW u \in Seq(Nat)
  PROVE  Extends(s \o u, s, Len(u))
<1> DEFINE w == s \o u
<1>1. w \in Seq(Nat) /\ Len(s) \in Nat /\ Len(w) = Len(s) + Len(u)
      /\ \A x \in 1..Len(s) : w[x] = s[x]
  BY Appended, Zenon
<1> HIDE DEF w
<1>2. ASSUME NEW x \in 1..(Len(s) - 1)  PROVE FieldAt(w, x) = FieldAt(s, x)
  <2>1. x \in 1..Len(s) /\ x + 1 \in 1..Len(s)  BY <1>1
  <2>2. w[x] = s[x] /\ w[x + 1] = s[x + 1]  BY <1>1, <2>1
  <2>3. QED  BY <2>2 DEF FieldAt
<1>3. Extends(w, s, Len(u))  BY <1>1, <1>2 DEF Extends
<1>4. QED  BY <1>3 DEF w

LEMMA ThenOther ==
  ASSUME NEW s \in Seq(Nat), NEW n \in Nat
  PROVE  Extends(s \o Other(n), s, n)
<1>1. Other(n) \in Seq(Nat) /\ Len(Other(n)) = n  BY OtherType
<1>2. QED  BY <1>1, ThenBytes

(* A length field can be read where it has been appended. *)
LEMMA ThenField ==
  ASSUME NEW s \in Seq(Nat), NEW v \in 0..255
  PROVE  Extends(s \o Field(v), s, 2) /\ FieldAt(s \o Field(v), Len(s) + 1) = v
<1> DEFINE u == Field(v)
           w == s \o u
<1>1. u \in Seq(Nat) /\ Len(u) = 2 /\ u[1] = 240 /\ u[2] = v  BY FieldType
<1> HIDE DEF u
<1>2. /\ Extends(w, s, Len(u)) /\ Len(s) \in Nat
      /\ \A x \in 1..Len(u) : w[Len(s) + x] = u[x]
  <2>1. u \in Seq(Nat)  BY <1>1
  <2>2. Extends(w, s, Len(u))  BY <2>1, ThenBytes, Zenon
  <2>3. \A x \in 1..Len(u) : w[Len(s) + x] = u[x]  BY <2>1, Appended, Zenon
  <2>4. QED  BY <2>2, <2>3, LenProperties
<1> HIDE DEF w
<1>3. w[Len(s) + 1] = 240 /\ w[(Len(s) + 1) + 1] = v
  <2>1. (Len(s) + 1) + 1 = Len(s) + 2  BY <1>2
  <2>2. QED  BY <1>1, <1>2, <2>1
<1>4. FieldAt(w, Len(s) + 1) = v
  <2>1. 240 % 16 = 0  OBVIOUS
  <2>2. QED  BY <1>3, <2>1 DEF FieldAt
<1>5. QED  BY <1>1, <1>2, <1>4 DEF w, u

(* What fits into the lower byte of a length field. *)
Byte == 0..255

(* The lengths of the AIT's header, where packetize_ait puts them. *)
AitHead(s, l, t) ==
  <<116>> \o Field(s) \o Other(5) \o Field(0) \o Field(l) \o Other(7) \o Field(t)

AitFields(h, s, l, t) ==
  /\ h \in Seq(Nat) /\ Len(h) = 21
  /\ FieldAt(h, 2) = s /\ FieldAt(h, 9) = 0
  /\ FieldAt(h, 11) = l /\ FieldAt(h, 20) = t

LEMMA AitHeadFields ==
  ASSUME NEW s \in Byte, NEW l \in Byte, NEW t \in Byte, NEW h, h = AitHead(s, l, t)
  PROVE  AitFields(h, s, l, t)
<1> DEFINE h1 == <<116>>
           h2 == h1 \o Field(s)
           h3 == h2 \o Other(5)
           h4 == h3 \o Field(0)
           h5 == h4 \o Field(l)
           h6 == h5 \o Other(7)
           h7 == h6 \o Field(t)
<1>0. \A v \in Byte : v \in 0..255  BY DEF Byte
<1>1. h = h7  BY DEF AitHead
<1>2. h1 \in Seq(Nat) /\ Len(h1) = 1  OBVIOUS
<1> HIDE DEF h1
<1>3. Extends(h2, h1, 2) /\ FieldAt(h2, Len(h1) + 1) = s  BY <1>0, <1>2, ThenField
<1> HIDE DEF h2
<1>4. h2 \in Seq(Nat) /\ Len(h2) = 3 /\ FieldAt(h2, 2) = s  BY <1>2, <1>3 DEF Extends
<1>5. Extends(h3, h2, 5)  BY <1>4, ThenOther
<1> HIDE DEF h3
<1>6. h3 \in Seq(Nat) /\ Len(h3) = 8 /\ FieldAt(h3, 2) = s  BY <1>4, <1>5 DEF Extends
<1>7. Extends(h4, h3, 2) /\ FieldAt(h4, Len(h3) + 1) = 0
  <2>1. 0 \in 0..255  OBVIOUS
  <2>2. QED  BY <1>6, <2>1, ThenField, Zenon
<1> HIDE DEF h4
<1>8. h4 \in Seq(Nat) /\ Len(h4) = 10 /\ FieldAt(h4, 2) = s /\ FieldAt(h4, 9) = 0
  BY <1>6, <1>7 DEF Extends
<1>9. Extends(h5, h4, 2) /\ FieldAt(h5, Len(h4) + 1) = l  BY <1>0, <1>8, ThenField
<1> HIDE DEF h5
<1>10. h5 \in Seq(Nat) /\ Len(h5) = 12
       /\ FieldAt(h5, 2) = s /\ FieldAt(h5, 9) = 0 /\ FieldAt(h5, 11) = l
  BY <1>8, <1>9 DEF Extends
<1>11. Extends(h6, h5, 7)  BY <1>10, ThenOther
<1> HIDE DEF h6
<1>12. h6 \in Seq(Nat) /\ Len(h6) = 19
       /\ FieldAt(h6, 2) = s /\ FieldAt(h6, 9) = 0 /\ FieldAt(h6, 11) = l
  BY <1>10, <1>11 DEF Extends
<1>13. Extends(h7, h6, 2) /\ FieldAt(h7, Len(h6) + 1) = t  BY <1>0, <1>12, ThenField
<1> HIDE DEF h7
<1>14. QED  BY <1>1, <1>12, <1>13 DEF Extends, AitFields

(* The EIT's, of which two are read. *)
EitHead(s, t) ==
  <<78>> \o Field(s) \o Other(11) \o Other(2 + 5 + 3) \o Field(t)

LEMMA EitHeadFields ==
  ASSUME NEW s \in Byte, NEW t \in Byte, NEW h, h = EitHead(s, t)
  PROVE  h \in Seq(Nat) /\ Len(h) = 26 /\ FieldAt(h, 2) = s /\ FieldAt(h, 25) = t
<1> DEFINE h1 == <<78>>
           h2 == h1 \o Field(s)
           h3 == h2 \o Other(11)
           h4 == h3 \o Other(2 + 5 + 3)
           h5 == h4 \o Field(t)
<1>0. \A v \in Byte : v \in 0..255  BY DEF Byte
<1>1. h = h5  BY DEF EitHead
<1>2. h1 \in Seq(Nat) /\ Len(h1) = 1  OBVIOUS
<1> HIDE DEF h1
<1>3. Extends(h2, h1, 2) /\ FieldAt(h2, Len(h1) + 1) = s  BY <1>0, <1>2, ThenField
<1> HIDE DEF h2
<1>4. h2 \in Seq(Nat) /\ Len(h2) = 3 /\ FieldAt(h2, 2) = s  BY <1>2, <1>3 DEF Extends
<1>5. Extends(h3, h2, 11)  BY <1>4, ThenOther
<1> HIDE DEF h3
<1>6. h3 \in Seq(Nat) /\ Len(h3) = 14 /\ FieldAt(h3, 2) = s  BY <1>4, <1>5 DEF Extends
<1>7. Extends(h4, h3, 2 + 5 + 3)  BY <1>6, ThenOther
<1> HIDE DEF h4
<1>8. h4 \in Seq(Nat) /\ Len(h4) = 24 /\ FieldAt(h4, 2) = s  BY <1>6, <1>7 DEF Extends
<1>9. Extends(h5, h4, 2) /\ FieldAt(h5, Len(h4) + 1) = t  BY <1>0, <1>8, ThenField
<1> HIDE DEF h5
<1>10. QED  BY <1>1, <1>8, <1>9 DEF Extends

(* The TOT is laid out as a whole; its one descriptor has length 13. *)
LEMMA TotFields ==
  /\ Tot \in Seq(Nat) /\ Len(Tot) = 29
  /\ FieldAt(Tot, 2) = 26 /\ FieldAt(Tot, 9) = 15 /\ Tot[12] = 13
<1> DEFINE h1 == <<115>>
           h2 == h1 \o Field(26)
           h3 == h2 \o Other(5)
           h4 == h3 \o Field(15)
           tag == <<88, 13>>
           h5 == h4 \o tag
           h6 == h5 \o Other(3 + 1 + 2 + 5 + 2)
           h7 == h6 \o Other(4)
<1>1. Tot = h7  BY DEF Tot
<1>2. h1 \in Seq(Nat) /\ Len(h1) = 1  OBVIOUS
<1> HIDE DEF h1
<1>3. Extends(h2, h1, 2) /\ FieldAt(h2, Len(h1) + 1) = 26
  <2>1. 26 \in 0..255  OBVIOUS
  <2>2. QED  BY <1>2, <2>1, ThenField, Zenon
<1> HIDE DEF h2
<1>4. h2 \in Seq(Nat) /\ Len(h2) = 3 /\ FieldAt(h2, 2) = 26  BY <1>2, <1>3 DEF Extends
<1>5. Extends(h3, h2, 5)  BY <1>4, ThenOther
<1> HIDE DEF h3
<1>6. h3 \in Seq(Nat) /\ Len(h3) = 8 /\ FieldAt(h3, 2) = 26  BY <1>4, <1>5 DEF Extends
<1>7. Extends(h4, h3, 2) /\ FieldAt(h4, Len(h3) + 1) = 15
  <2>1. 15 \in 0..255  OBVIOUS
  <2>2. QED  BY <1>6, <2>1, ThenField, Zenon
<1> HIDE DEF h4
<1>8. h4 \in Seq(Nat) /\ Len(h4) = 10 /\ FieldAt(h4, 2) = 26 /\ FieldAt(h4, 9) = 15
  BY <1>6, <1>7 DEF Extends
<1>9. tag \in Seq(Nat) /\ Len(tag) = 2 /\ tag[2] = 13  OBVIOUS
<1> HIDE DEF tag
<1>10. Extends(h5, h4, Len(tag)) /\ \A x \in 1..Len(tag) : h5[Len(h4) + x] = tag[x]
  BY <1>8, <1>9, ThenBytes, Appended
<1> HIDE DEF h5
<1>11. h5 \in Seq(Nat) /\ Len(h5) = 12
       /\ FieldAt(h5, 2) = 26 /\ FieldAt(h5, 9) = 15 /\ h5[12] = 13
  BY <1>8, <1>9, <1>10 DEF Extends
<1>12. Extends(h6, h5, 3 + 1 + 2 + 5 + 2)  BY <1>11, ThenOther
<1> HIDE DEF h6
<1>13. h6 \in Seq(Nat) /\ Len(h6) = 25
       /\ FieldAt(h6, 2) = 26 /\ FieldAt(h6, 9) = 15 /\ h6[12] = 13
  BY <1>11, <1>12 DEF Extends
<1>14. Extends(h7, h6, 4)  BY <1>13, ThenOther
<1> HIDE DEF h7
<1>15. QED  BY <1>1, <1>13, <1>14 DEF Extends
-----------------------------------------------------------------------------
(* What is read of the first descriptor, and what one alone takes. *)
LEMMA FirstPart ==
  ASSUME NEW ds \in Seq(Descriptors), Len(ds) >= 1
  PROVE  /\ Len(ds[1]) \in Nat /\ Len(ds[1]) <= Total(ds)
         /\ \A x \in 1..Len(ds[1]) : Joined(ds)[x] = ds[1][x]
         /\ Len(ds) = 1 => Total(ds) = Len(ds[1])
<1> DEFINE N == Len(ds)
<1>1. ds \in Seq(Seq(Nat))  BY SeqMonotonic DEF Descriptors
<1>2. PICK j : IsJoined(j, ds) /\ Joined(ds) = j[N]  BY <1>1, JoinedSteps
<1>3. PICK t : IsTotal(t, ds) /\ Total(ds) = t[N]  BY <1>1, TotalSteps
<1>4. N \in Nat /\ N >= 1  BY LenProperties
<1>5. /\ \A k \in 0..N : t[k] <= t[N]
      /\ \A k \in 1..N : \A x \in 1..Len(ds[k]) : j[N][t[k - 1] + x] = ds[k][x]
  <2>1. N \in 0..N  BY <1>4
  <2>2. QED  BY <1>1, <1>2, <1>3, <2>1, JoinedParts
<1>6. t[0] = 0 /\ \A n \in 1..N : t[n] = t[n - 1] + Len(ds[n])
  BY <1>3, Zenon DEF IsTotal
<1>7. ds[1] \in Seq(Nat)  BY <1>1, <1>4, ElementOfSeq
<1>8. Len(ds[1]) \in Nat  BY <1>7, LenProperties
<1> HIDE DEF N
<1>9. 1 \in 0..N /\ 1 \in 1..N /\ 1 - 1 = 0  BY <1>4
<1>10. t[1] = Len(ds[1])  BY <1>6, <1>8, <1>9
<1>11. t[1] <= t[N]  BY <1>5, <1>9
<1>12. \A x \in 1..Len(ds[1]) : j[N][x] = ds[1][x]
  <2>1. \A x \in 1..Len(ds[1]) : j[N][0 + x] = ds[1][x]
    BY <1>5, <1>6, <1>9
  <2>2. \A x \in 1..Len(ds[1]) : 0 + x = x  OBVIOUS
  <2>3. QED  BY <2>1, <2>2
<1>13. QED  BY <1>2, <1>3, <1>8, <1>10, <1>11, <1>12 DEF N

(* The four descriptors of the application, as long as their length says;
   the first says how long the url in it is. *)
LEMMA FirstDescriptor ==
  ASSUME NEW url \in 0..250
  PROVE  LET d == TransportProtocol(url) IN
         d \in Descriptors /\ Len(d) >= 6 /\ d[2] = url + 5 /\ d[6] = url
<1> DEFINE h == <<0, 3, 1, url>>
           u == Other(url + 1)
           data == h \o u
           n == url + 5
           d == Descriptor(data, n)
<1>1. url % 256 = url /\ (url + 5) % 256 = n /\ n \in Nat  OBVIOUS
<1>2. TransportProtocol(url) = d  BY <1>1 DEF TransportProtocol
<1>3. h \in Seq(Nat) /\ Len(h) = 4 /\ h[4] = url  OBVIOUS
<1>4. u \in Seq(Nat) /\ Len(u) = url + 1  BY OtherType
<1> HIDE DEF h, u
<1>5. /\ data \in Seq(Nat) /\ Len(data) = Len(h) + Len(u)
      /\ \A x \in 1..Len(h) : data[x] = h[x]
  BY <1>3, <1>4, Appended
<1> HIDE DEF data
<1>6. Len(data) = n /\ data[4] = url  BY <1>3, <1>4, <1>5
<1> HIDE DEF n
<1>7. /\ d \in Descriptors /\ Len(d) = n + 2 /\ d[2] = n
      /\ \A x \in 1..n : d[2 + x] = data[x]
  BY <1>1, <1>5, <1>6, DescriptorType
<1> HIDE DEF d
<1>8. 4 \in 1..n /\ 2 + 4 = 6 /\ n + 2 >= 6  BY DEF n
<1>9. d[6] = url  BY <1>6, <1>7, <1>8
<1>10. QED  BY <1>2, <1>7, <1>8, <1>9 DEF n

LEMMA OtherDescriptors ==
  ASSUME NEW name \in 0..250, NEW path \in 0..250
  PROVE  /\ ApplicationDescriptor \in Descriptors
         /\ ApplicationName(name) \in Descriptors
         /\ ApplicationLocation(path) \in Descriptors
<1>1. ApplicationDescriptor \in Descriptors
  <2> DEFINE h == <<5>>
             u == Other(8)
             data == h \o u
             n == 9
  <2>1. h \in Seq(Nat) /\ Len(h) = 1  OBVIOUS
  <2>2. u \in Seq(Nat) /\ Len(u) = 8  BY OtherType
  <2> HIDE DEF h, u
  <2>3. data \in Seq(Nat) /\ Len(data) = Len(h) + Len(u)  BY <2>1, <2>2, Appended
  <2> HIDE DEF data
  <2>4. Len(data) = n /\ n \in Nat  BY <2>1, <2>2, <2>3
  <2> HIDE DEF n
  <2>5. Descriptor(data, n) \in Descriptors  BY <2>3, <2>4, DescriptorType
  <2>6. QED  BY <2>5 DEF ApplicationDescriptor, n, data, h, u
<1>2. ApplicationName(name) \in Descriptors
  <2> DEFINE o == Other(3)
             h == <<name>>
             u == Other(name)
             s == o \o h
             data == s \o u
             n == name + 4
  <2>1. name % 256 = name /\ (name + 4) % 256 = n /\ n \in Nat  OBVIOUS
  <2>2. ApplicationName(name) = Descriptor(data, n)
    BY <2>1 DEF ApplicationName
  <2>3. h \in Seq(Nat) /\ Len(h) = 1  OBVIOUS
  <2>4. o \in Seq(Nat) /\ Len(o) = 3 /\ u \in Seq(Nat) /\ Len(u) = name
    <3>1. 3 \in Nat /\ name \in Nat  OBVIOUS
    <3>2. o \in Seq(Nat) /\ Len(o) = 3  BY <3>1, OtherType, Zenon
    <3>3. u \in Seq(Nat) /\ Len(u) = name  BY <3>1, OtherType, Zenon
    <3>4. QED  BY <3>2, <3>3
  <2> HIDE DEF o, h, u
  <2>5. s \in Seq(Nat) /\ Len(s) = Len(o) + Len(h)  BY <2>3, <2>4, Appended
  <2> HIDE DEF s
  <2>6. data \in Seq(Nat) /\ Len(data) = Len(s) + Len(u)  BY <2>4, <2>5, Appended
  <2> HIDE DEF data
  <2>7. Len(data) = n  BY <2>3, <2>4, <2>5, <2>6
  <2> HIDE DEF n
  <2>8. Descriptor(data, n) \in Descriptors  BY <2>1, <2>6, <2>7, DescriptorType
  <2>9. QED  BY <2>2, <2>8
<1>3. ApplicationLocation(path) \in Descriptors
  <2>1. path % 256 = path  OBVIOUS
  <2>2. Other(path) \in Seq(Nat) /\ Len(Other(path)) = path  BY OtherType
  <2>3. Descriptor(Other(path), path) \in Descriptors  BY <2>2, DescriptorType
  <2>4. QED  BY <2>1, <2>3 DEF ApplicationLocation
<1>4. QED  BY <1>1, <1>2, <1>3

TextLength == 0..250

FirstHolds(ds, url) ==
  Len(ds) >= 1 /\ Len(ds[1]) >= 6 /\ ds[1][2] = url + 5 /\ ds[1][6] = url

LEMMA AitDescriptorsType ==
  ASSUME NEW x \in [{"url", "name", "path"} -> TextLength]
  PROVE  /\ AitDescriptors(x) \in Seq(Descriptors)
         /\ FirstHolds(AitDescriptors(x), x.url) /\ x.url \in Nat
<1> DEFINE d1 == TransportProtocol(x.url)
           d2 == ApplicationDescriptor
           d3 == ApplicationName(x.name)
           d4 == ApplicationLocation(x.path)
           ds == <<d1, d2, d3, d4>>
<1>0. x.url \in 0..250 /\ x.name \in 0..250 /\ x.path \in 0..250  BY DEF TextLength
<1>1. d1 \in Descriptors /\ Len(d1) >= 6 /\ d1[2] = x.url + 5 /\ d1[6] = x.url
  BY <1>0, FirstDescriptor
<1>2. d2 \in Descriptors /\ d3 \in Descriptors /\ d4 \in Descriptors
  BY <1>0, OtherDescriptors
<1>3. AitDescriptors(x) = ds  BY DEF AitDescriptors
<1> HIDE DEF d1, d2, d3, d4
<1>4. ds \in Seq(Descriptors) /\ Len(ds) = 4 /\ ds[1] = d1  BY <1>1, <1>2
<1>5. FirstHolds(ds, x.url)  BY <1>1, <1>4 DEF FirstHolds
<1>6. QED  BY <1>0, <1>3, <1>4, <1>5

-----------------------------------------------------------------------------
(* The descriptors' length is a number. *)
LEMMA TotalType ==
  ASSUME NEW ds \in Seq(Descriptors)
  PROVE  Total(ds) \in Nat
<1>1. ds \in Seq(Seq(Nat))  BY SeqMonotonic DEF Descriptors
<1>2. PICK t : IsTotal(t, ds) /\ Total(ds) = t[Len(ds)]  BY <1>1, TotalSteps
<1>3. Len(ds) \in 0..Len(ds)  BY LenProperties
<1>4. QED  BY <1>2, <1>3, Zenon DEF IsTotal

AitFits(ds) == AitSize(ds) <= 182

(* The AIT is read, for every text that is accepted. *)
LEMMA AitIsRead ==
  ASSUME NEW ds \in Seq(Descriptors), NEW url \in Nat, FirstHolds(ds, url),
         AitFits(ds)
  PROVE  /\ AitSize(ds) \in Nat /\ Len(Ait(ds)) = AitSize(ds)
         /\ AitReads(Ait(ds))
<1> DEFINE T == Total(ds)
           s == AitSize(ds) - 3
           l == 9 + T
           h == AitHead(s, l, T)
           b == Ait(ds)
           e == Len(h) + 1 + T
<1>1. /\ Len(ds) >= 1 /\ Len(ds[1]) >= 6
      /\ ds[1][2] = url + 5 /\ ds[1][6] = url
  BY DEF FirstHolds
<1>2. /\ Len(ds[1]) \in Nat /\ Len(ds[1]) <= T
      /\ \A x \in 1..Len(ds[1]) : Joined(ds)[x] = ds[1][x]
  BY <1>1, FirstPart
<1>3. T \in Nat  BY <1>1, TotalType
<1>4. AitSize(ds) = 25 + T  BY <1>3 DEF AitSize
<1>5. s = 22 + T /\ s \in Byte /\ l \in Byte /\ T \in Byte
  <2>1. AitSize(ds) <= 182  BY DEF AitFits
  <2>2. s = (25 + T) - 3 /\ 25 + T <= 182  BY <1>4, <2>1
  <2> HIDE DEF T, s
  <2>3. QED  BY <1>3, <2>2 DEF Byte
<1>6. b = h \o Joined(ds) \o Other(4)  BY DEF Ait, AitHead
<1> HIDE DEF T, s, l, b
<1>7. /\ h \in Seq(Nat) /\ Len(h) = 21
      /\ FieldAt(h, 2) = s /\ FieldAt(h, 9) = 0
      /\ FieldAt(h, 11) = l /\ FieldAt(h, 20) = T
  <2>1. s \in Byte /\ l \in Byte /\ T \in Byte  BY <1>5
  <2>2. AitFields(h, s, l, T)  BY <2>1, AitHeadFields, Zenon
  <2>3. QED  BY <2>2 DEF AitFields
<1> HIDE DEF h, e
<1>8. /\ b \in Seq(Nat) /\ Len(b) = Len(h) + T + 4
      /\ \A x \in 1..Len(h) : b[x] = h[x]
      /\ \A x \in 1..T : b[Len(h) + x] = Joined(ds)[x]
      /\ DescriptorsEnd(b, Len(h) + 1, e)
  <2>1. h \in Seq(Nat)  BY <1>7
  <2>2. LaidOut(b, h, ds)  BY <1>6, <2>1, Layout, Zenon
  <2>3. QED  BY <2>2, Zenon DEF LaidOut, T, e
<1>9. \A x \in 1..20 : FieldAt(b, x) = FieldAt(h, x)
  <2>1. ASSUME NEW x \in 1..20  PROVE FieldAt(b, x) = FieldAt(h, x)
    <3>1. x \in 1..Len(h) /\ x + 1 \in 1..Len(h)  BY <1>7
    <3>2. b[x] = h[x] /\ b[x + 1] = h[x + 1]  BY <1>8, <3>1
    <3>3. QED  BY <3>2 DEF FieldAt
  <2>2. QED  BY <2>1
<1>10. /\ FieldAt(b, 2) = s /\ FieldAt(b, 9) = 0
       /\ FieldAt(b, 11) = l /\ FieldAt(b, 20) = T
  BY <1>7, <1>9
<1>11. e = 22 + T  BY <1>3, <1>7 DEF e
<1>12. CrcAt(b) = e  BY <1>5, <1>10, <1>11 DEF CrcAt
<1>13. Whole(b)  BY <1>3, <1>7, <1>8, <1>11, <1>12 DEF Whole
<1>14. 13 + FieldAt(b, 11) = CrcAt(b)
  BY <1>3, <1>10, <1>11, <1>12 DEF l
<1>15. LoopEnds(b, 20, CrcAt(b))
  <2>1. 20 + 2 = Len(h) + 1 /\ 20 + 2 + T = e  BY <1>3, <1>7, <1>11
  <2>2. DescriptorsEnd(b, 20 + 2, e)  BY <1>8, <2>1
  <2>3. QED  BY <1>10, <1>12, <2>1, <2>2 DEF LoopEnds
<1>16. b[22 + 1] = 4 + b[22 + 5] + 1
  <2>1. 2 \in 1..T /\ 6 \in 1..T /\ 2 \in 1..Len(ds[1]) /\ 6 \in 1..Len(ds[1])
    BY <1>1, <1>2, <1>3
  <2>2. b[Len(h) + 2] = ds[1][2] /\ b[Len(h) + 6] = ds[1][6]
    BY <1>2, <1>8, <2>1
  <2>3. Len(h) + 2 = 22 + 1 /\ Len(h) + 6 = 22 + 5  BY <1>7
  <2>4. b[22 + 1] = url + 5 /\ b[22 + 5] = url  BY <1>1, <2>2, <2>3
  <2>5. QED  BY <2>4
<1>17. AitReads(b)  BY <1>10, <1>13, <1>14, <1>15, <1>16 DEF AitReads
<1>18. Len(b) = AitSize(ds)  BY <1>3, <1>4, <1>7, <1>8
<1>19. QED  BY <1>3, <1>4, <1>17, <1>18 DEF b

(* The TOT is read: one descriptor, which ends where the CRC begins. *)
LEMMA TotIsRead == TotReads(Tot)
<1> DEFINE b == Tot
           e == 26
<1>1. /\ b \in Seq(Nat) /\ Len(b) = 29
      /\ FieldAt(b, 2) = e /\ FieldAt(b, 9) = 15 /\ b[12] = 13
  BY TotFields
<1> HIDE DEF b
<1>2. e \in 0..Len(b) /\ 11 \in Nat  BY <1>1
<1>3. CrcAt(b) = e /\ Whole(b)  BY <1>1 DEF CrcAt, Whole
<1>4. DescriptorsEnd(b, 11, e)
  <2> DEFINE i == 11
             k == i + 2 + b[i + 1]
  <2>1. k = e /\ i + 1 < e /\ i \in Nat /\ e \in Nat  BY <1>1
  <2> HIDE DEF i, k, e
  <2>2. DescriptorsEnd(b, e, e)  BY <1>1, <1>2, <2>1, ReaderStep, Zenon
  <2>3. DescriptorsEnd(b, i + 2 + b[i + 1], e)  BY <2>1, <2>2 DEF k
  <2>4. DescriptorsEnd(b, i, e)  BY <1>1, <1>2, <2>1, <2>3, ReaderStep, Zenon
  <2>5. QED  BY <2>4 DEF i
<1>5. LoopEnds(b, 9, CrcAt(b))
  <2>1. 9 + 2 = 11 /\ 9 + 2 + 15 = e  OBVIOUS
  <2>2. QED  BY <1>1, <1>3, <1>4, <2>1 DEF LoopEnds
<1>6. QED  BY <1>3, <1>5 DEF TotReads, b

(* The event of the EIT: 31 bytes of data. *)
LEMMA EventType ==
  ShortEvent(Title, Description) \in Descriptors /\ Len(ShortEvent(Title, Description)) = 33
<1> DEFINE o1 == Other(3)
           t1 == <<10>>
           o2 == Other(10)
           t2 == <<16>>
           o3 == Other(16)
           d1 == o1 \o t1
           d2 == d1 \o o2
           d3 == d2 \o t2
           d4 == d3 \o o3
           n == 31
<1>1. ShortEvent(Title, Description) = Descriptor(d4, n)
  <2>1. 5 + 10 + 16 = n  OBVIOUS
  <2>2. QED  BY <2>1 DEF ShortEvent, Title, Description
<1>2. 3 \in Nat /\ 10 \in Nat /\ 16 \in Nat /\ n \in Nat  OBVIOUS
<1>3. o1 \in Seq(Nat) /\ Len(o1) = 3  BY <1>2, OtherType, Zenon
<1>4. o2 \in Seq(Nat) /\ Len(o2) = 10  BY <1>2, OtherType, Zenon
<1>5. o3 \in Seq(Nat) /\ Len(o3) = 16  BY <1>2, OtherType, Zenon
<1>6. t1 \in Seq(Nat) /\ Len(t1) = 1 /\ t2 \in Seq(Nat) /\ Len(t2) = 1  OBVIOUS
<1> HIDE DEF o1, o2, o3, t1, t2
<1>7. d1 \in Seq(Nat) /\ Len(d1) = 4
  <2>1. d1 \in Seq(Nat) /\ Len(d1) = Len(o1) + Len(t1)  BY <1>3, <1>6, Appended
  <2>2. QED  BY <1>3, <1>6, <2>1
<1> HIDE DEF d1
<1>8. d2 \in Seq(Nat) /\ Len(d2) = 14
  <2>1. d2 \in Seq(Nat) /\ Len(d2) = Len(d1) + Len(o2)  BY <1>4, <1>7, Appended
  <2>2. QED  BY <1>4, <1>7, <2>1
<1> HIDE DEF d2
<1>9. d3 \in Seq(Nat) /\ Len(d3) = 15
  <2>1. d3 \in Seq(Nat) /\ Len(d3) = Len(d2) + Len(t2)  BY <1>6, <1>8, Appended
  <2>2. QED  BY <1>6, <1>8, <2>1
<1> HIDE DEF d3
<1>10. d4 \in Seq(Nat) /\ Len(d4) = n
  <2>1. d4 \in Seq(Nat) /\ Len(d4) = Len(d3) + Len(o3)  BY <1>5, <1>9, Appended
  <2>2. QED  BY <1>5, <1>9, <2>1
<1> HIDE DEF d4, n
<1>11. Descriptor(d4, n) \in Descriptors /\ Len(Descriptor(d4, n)) = n + 2
  BY <1>2, <1>10, DescriptorType
<1>12. n + 2 = 33  BY DEF n
<1>13. QED  BY <1>1, <1>11, <1>12

LEMMA EitIsRead == EitReads(Eit(<<ShortEvent(Title, Description)>>))
<1> DEFINE d == ShortEvent(Title, Description)
           ds == <<d>>
           T == Total(ds)
           s == EitSize(ds) - 3
           h == EitHead(s, T)
           b == Eit(ds)
           e == Len(h) + 1 + T
<1>1. d \in Descriptors /\ Len(d) = 33  BY EventType
<1> HIDE DEF d
<1>2. ds \in Seq(Descriptors) /\ Len(ds) = 1 /\ ds[1] = d  BY <1>1
<1> HIDE DEF ds
<1>3. T = 33
  <2>1. Len(ds) >= 1  BY <1>2
  <2>2. Len(ds) = 1 => T = Len(ds[1])  BY <1>2, <2>1, FirstPart
  <2>3. QED  BY <1>1, <1>2, <2>2
<1>4. s = 60 /\ s \in Byte /\ T \in Byte  BY <1>3 DEF EitSize, Byte
<1>5. b = h \o Joined(ds) \o Other(4)  BY DEF Eit, EitHead
<1> HIDE DEF T, s, b
<1>6. h \in Seq(Nat) /\ Len(h) = 26 /\ FieldAt(h, 2) = s /\ FieldAt(h, 25) = T
  <2>1. s \in Byte /\ T \in Byte  BY <1>4
  <2>2. QED  BY <2>1, EitHeadFields, Zenon
<1> HIDE DEF h, e
<1>7. /\ b \in Seq(Nat) /\ Len(b) = Len(h) + T + 4
      /\ \A x \in 1..Len(h) : b[x] = h[x]
      /\ DescriptorsEnd(b, Len(h) + 1, e)
  <2>1. h \in Seq(Nat)  BY <1>6
  <2>2. LaidOut(b, h, ds)  BY <1>2, <1>5, <2>1, Layout, Zenon
  <2>3. QED  BY <2>2, Zenon DEF LaidOut, T, e
<1>8. \A x \in 1..25 : FieldAt(b, x) = FieldAt(h, x)
  <2>1. ASSUME NEW x \in 1..25  PROVE FieldAt(b, x) = FieldAt(h, x)
    <3>1. x \in 1..Len(h) /\ x + 1 \in 1..Len(h)  BY <1>6
    <3>2. b[x] = h[x] /\ b[x + 1] = h[x + 1]  BY <1>7, <3>1
    <3>3. QED  BY <3>2 DEF FieldAt
  <2>2. QED  BY <2>1
<1>9. FieldAt(b, 2) = 60 /\ FieldAt(b, 25) = 33  BY <1>3, <1>4, <1>6, <1>8
<1>10. e = 60  BY <1>3, <1>6 DEF e
<1>11. CrcAt(b) = e /\ Whole(b)  BY <1>3, <1>6, <1>7, <1>9, <1>10 DEF CrcAt, Whole
<1>12. LoopEnds(b, 25, CrcAt(b))
  <2>1. 25 + 2 = Len(h) + 1 /\ 25 + 2 + 33 = e  BY <1>6, <1>10
  <2>2. DescriptorsEnd(b, 25 + 2, e)  BY <1>7, <2>1
  <2>3. QED  BY <1>9, <1>11, <2>1, <2>2 DEF LoopEnds
<1>13. QED  BY <1>11, <1>12 DEF EitReads, b, ds, d

-----------------------------------------------------------------------------
(* The program runs only with a text that construct_ait accepted. *)
Accepted == main = "runs" => AitAccepted(text)

(* For configured strings of at most 250 bytes each, whose AIT construct_ait
   accepts: once the program runs, a receiver that follows the lengths arrives
   at the CRC of AIT, TOT and EIT, and AIT and TOT fit into their packets. *)
THEOREM SectionsAreRead == Spec => []SectionsRead
<1>1. Init => Accepted  BY DEF Init, Accepted
<1>2. Accepted /\ [Next]_vars => Accepted'
  <2>1. SUFFICES ASSUME Accepted, [Next]_vars PROVE Accepted'  OBVIOUS
  <2>2. CASE Start
    <3>1. AitAccepted(text)' = AitAccepted(text)  BY <2>2, Zenon DEF Start, AitAccepted
    <3>2. QED  BY <2>2, <3>1 DEF Start, Accepted
  <2>3. CASE NextDay
    <3>1. AitAccepted(text)' = AitAccepted(text)  BY <2>3, Zenon DEF NextDay, AitAccepted
    <3>2. QED  BY <2>1, <2>3, <3>1 DEF NextDay, Accepted
  <2>4. CASE UNCHANGED vars
    <3>1. AitAccepted(text)' = AitAccepted(text)  BY <2>4, Zenon DEF vars, AitAccepted
    <3>2. QED  BY <2>1, <2>4, <3>1 DEF vars, Accepted
  <2>5. QED  BY <2>1, <2>2, <2>3, <2>4 DEF Next
<1>3. TypeOK /\ Accepted => SectionsRead
  <2>1. SUFFICES ASSUME TypeOK, Accepted, main = "runs", Short(text)
                 PROVE  SectionsRead
    BY DEF SectionsRead
  <2> DEFINE ds == AitDescriptors(text)
  <2>2. text \in [{"url", "name", "path"} -> TextLength]
    <3>1. text \in [{"url", "name", "path"} -> Texts]  BY <2>1 DEF TypeOK
    <3>2. Texts \subseteq Nat  BY TablesAssumption
    <3>3. text \in [{"url", "name", "path"} -> Nat]  BY <3>1, <3>2
    <3>4. \A f \in {"url", "name", "path"} : text[f] \in TextLength
      BY <2>1, <3>3 DEF Short, TextLength
    <3>5. QED  BY <3>3, <3>4
  <2>3. /\ ds \in Seq(Descriptors) /\ FirstHolds(ds, text.url)
        /\ text.url \in Nat
    BY <2>2, AitDescriptorsType
  <2>4. AitFits(ds)  BY <2>1 DEF Accepted, AitAccepted, AitFits
  <2> HIDE DEF ds
  <2>5. /\ AitSize(ds) \in Nat /\ Len(Ait(ds)) = AitSize(ds)
        /\ AitReads(Ait(ds))
    BY <2>3, <2>4, AitIsRead
  <2>6. AitSize(ds) <= Packet  BY <2>4, <2>5 DEF Packet, AitFits
  <2>7. Len(Tot) <= Packet  BY TotFields DEF Packet
  <2>8. QED
    BY <2>5, <2>6, <2>7, TotIsRead, EitIsRead DEF SectionsRead, ds
<1>4. QED  BY <1>1, <1>2, <1>3, TypeCorrect, PTL DEF Spec
=============================================================================
