---------------------------- MODULE CampusClock ----------------------------
(***************************************************************************)
(* Campus time (common/time/campus-clock.ts).                              *)
(*                                                                         *)
(* An instant is a number of seconds of UTC counted from midnight of a     *)
(* reference Sunday.  A campus date is a number of days counted from that  *)
(* Sunday and a campus time of day a number of minutes, which is what the  *)
(* "YYYY-MM-DD" and "HH:MM" strings of the code order and compare by.      *)
(***************************************************************************)
EXTENDS Integers

SecondsPerDay == 86400

\* CAMPUS_UTC_OFFSET: the campus is seven hours ahead of UTC all year round.
CampusOffset == 25200

\* The instant of a campus date and time of day.
CampusDateTime(date, time) == date * SecondsPerDay + time * 60 - CampusOffset

IsFutureCampusTime(date, time, clock) == CampusDateTime(date, time) > clock

\* The campus calendar date of an instant.
CampusDateOf(clock) == (clock + CampusOffset) \div SecondsPerDay

\* The campus time of day of an instant; the seconds are truncated.
SecondOfDay(clock)  == (clock + CampusOffset) % SecondsPerDay
CampusTimeOf(clock) == SecondOfDay(clock) \div 60

\* getUTCDay of a campus date: 0 is Sunday.
WeekdayOf(date) == date % 7
============================================================================
