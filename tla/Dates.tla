------------------------------- MODULE Dates -------------------------------
(***************************************************************************)
(* The modified Julian dates of tdt.c.  The code computes in double and    *)
(* truncates the sum once; here the same sum is in integers, with 365.25   *)
(* and 30.6001 scaled by 10000.  No product is close enough to an integer  *)
(* for the rounding of a double to matter.                                 *)
(***************************************************************************)
EXTENDS Integers

(* The branch for March to December. *)
MjdFromMarch_RoundedUp(y, m, d) ==
  ((14956 + d) * 10000 + (y - 1900) * 3652500 + (m + 1) * 306001 + 9999) \div 10000
MjdFromMarch(y, m, d) ==
  ((14956 + d) * 10000 + (y - 1900) * 3652500 + (m + 1) * 306001) \div 10000

(* The branch for January and February; 306001 is as in the code. *)
MjdToFebruary(y, m, d) ==
  14956 + d + ((y - 1901) * 1461) \div 4 + (m + 13) * 306001

Width == 65536   \* the date has 16 bits

(* get_tdt_packet and get_tot_packet; and the time of change in the TOT. *)
ClockDate_Unmasked(y, m, d) ==
  IF m > 2 THEN MjdFromMarch(y, m, d) ELSE MjdToFebruary(y, m, d)
ClockDate(y, m, d) ==
  (IF m > 2 THEN MjdFromMarch(y, m, d) ELSE MjdToFebruary(y, m, d)) % Width

(* get_tdt_time, which asks whether the month is not zero: the start of an
   event in the EIT. *)
EventDate(y, m, d) == MjdFromMarch(y, m, d) % Width
=============================================================================
