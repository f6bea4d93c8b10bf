------------------------------- MODULE Tables -------------------------------
(***************************************************************************)
(* The tables that the program makes itself: laid out once at start from   *)
(* the configuration (construct_ait, construct_tot, add_eit), and dated    *)
(* day by day as they are sent (get_tdt_packet, get_tot_packet).  When     *)
(* they are sent, and their continuity counters, are in ProcessBuffer.     *)
(***************************************************************************)
EXTENDS Dates, Sections

CONSTANTS
  Texts,       \* lengths of a configured string tried
  DatedText,   \* the one configuration under which days are walked
  LastYear     \* the walk ends before March of this year

ASSUME TablesAssumption ==
  /\ Texts \subseteq Nat
  /\ DatedText \in [{"url", "name", "path"} -> Texts]
  /\ LastYear \in 1901..2100

VARIABLES
  text,            \* the lengths of url_base, app_name, initial_path
  main,            \* "starts"; "runs", or "returned" after construct_ait failed,
                   \* or "crashed" in it
  year, month, day, \* the date in UTC
  clock,           \* the date field of TDT and TOT as they are sent today
  mjd,             \* ghost: days since 17 November 1858
  misdated         \* ghost: the dates of this year that were another day's,
                   \* by where they stand and the month

vars == <<text, main, year, month, day, clock, mjd, misdated>>

(* The months' lengths; 1900 and 2100 are no leap years, and the walk never
   meets February 1900. *)
Length(y, m) ==
  IF m = 2 THEN (IF y % 4 = 0 /\ y # 2100 THEN 29 ELSE 28)
  ELSE IF m \in {4, 6, 9, 11} THEN 30 ELSE 31

(* Where dates stand: in TDT and TOT, and in the event of an EIT made today. *)
Stamps == {"clock", "event"}
DateIn(f, y, m, d) == IF f = "clock" THEN ClockDate(y, m, d) ELSE EventDate(y, m, d)
Wrong(y, m, d, today) ==
  {f \in Stamps : DateIn(f, y, m, d) # today % Width} \X {m}

TypeOK ==
  /\ text \in [{"url", "name", "path"} -> Texts]
  /\ main \in {"starts", "runs", "returned", "crashed"}
  /\ year \in 1900..LastYear /\ month \in 1..12
  /\ day \in 1..Length(year, month)
  /\ clock \in 0..(Width - 1)
  /\ mjd \in Nat
  /\ misdated \subseteq Stamps \X (1..12)

(* The first day for which EN 300 468 gives its formula: 1 March 1900. *)
Init ==
  /\ text \in [{"url", "name", "path"} -> Texts]
  /\ main = "starts"
  /\ year = 1900 /\ month = 3 /\ day = 1
  /\ clock = ClockDate(1900, 3, 1)
  /\ mjd = 15079
  /\ misdated = {}

Start ==
  /\ main = "starts"
  /\ main' = IF NothingAllocated(text.url) THEN "crashed"
             ELSE IF AitAccepted(text) THEN "runs" ELSE "returned"
  /\ UNCHANGED <<text, year, month, day, clock, mjd, misdated>>

(* No text depends on the date: one configuration is enough. *)
NextDay ==
  /\ main = "runs" /\ text = DatedText
  /\ IF day < Length(year, month)
     THEN day' = day + 1 /\ UNCHANGED <<month, year>>
     ELSE /\ day' = 1
          /\ month' = (month % 12) + 1
          /\ year' = IF month = 12 THEN year + 1 ELSE year
  /\ ~(year' = LastYear /\ month' = 3)
  /\ clock' = ClockDate(year', month', day')
  /\ mjd' = mjd + 1
  /\ misdated' = (IF year' = year THEN misdated ELSE {})
                   \cup Wrong(year', month', day', mjd')
  /\ UNCHANGED <<text, main>>

Next == Start \/ NextDay

Spec == Init /\ [][Next]_vars

-----------------------------------------------------------------------------
(* The months from March on in which the quarters of a day that the year
   leaves over carry the month's days into the next one, by the years since
   the last leap year: tdt.c truncates the two products together, where
   EN 300 468 truncates each (tdt.c:25,45). *)
MonthsAhead == <<{7, 12}, {5, 7, 10, 12}, {3, 5, 7, 8, 10, 12}>>
Carried(y, m) == y % 4 # 0 /\ m \in MonthsAhead[y % 4]

(* In all other months from March on, TDT and TOT carry today's date, and an
   event that starts now is dated today (tdt.c:24-25,44-45, eit.c:134): in a
   leap year that is until December. *)
DatesAreToday ==
  month > 2 /\ ~Carried(year, month) =>
    clock = mjd % Width /\ EventDate(year, month, day) = mjd % Width

(* Strings for which no descriptor's length passes eight bits. *)
Short(x) == \A f \in DOMAIN x : x[f] <= 250

(* Once the program runs on short strings, a receiver that follows the length
   fields arrives at the CRC of each section, and each fits into the one
   packet that carries it, behind a header and a pointer field (ait.c:17-157,
   203-215, tdt.c:56-103, eit.c:105-194). *)
Packet == 188 - 5
SectionsRead ==
  main = "runs" /\ Short(text) =>
    LET ait == Ait(AitDescriptors(text)) IN
    /\ Len(ait) = AitSize(AitDescriptors(text)) /\ AitReads(ait)
    /\ Len(ait) <= Packet
    /\ TotReads(Tot) /\ Len(Tot) <= Packet
    /\ EitReads(Eit(<<ShortEvent(Title, Description)>>))

-----------------------------------------------------------------------------
(* What the code says of itself, and does not keep.  tdt.c:64: "Next 5 bytes
   are for UTC", and eit.c:134: "start_time", which main.c:124 makes the
   present: over a year, none of these dates is another day's. *)
YearIsUtc ==
  main = "runs" /\ month = 12 /\ day = 31 => misdated = {}
=============================================================================
