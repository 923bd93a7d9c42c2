-------------------------------- MODULE Cron --------------------------------
(***************************************************************************)
(* cron: each line of crontab is a job with its next date.  A job whose     *)
(* date has come is run, and then its date is moved on and written over     *)
(* the old one.  cron is started again and again while the clock runs; the  *)
(* clock is read field by field, and the machine may stop at any step.      *)
(***************************************************************************)
EXTENDS Integers, Sequences

CONSTANTS
  Tables,      \* the crontabs: sequences of [freq, inc, sched]
  StartTimes,  \* where the clock may start, in half hours since 1988 began
  Steps,       \* what the clock advances by, in half hours
  MaxTicks,    \* bound: how often the clock advances
  MaxReboots   \* bound

VARIABLES
  clock,    \* half hours since the start of 1988
  ticks,    \* how often it has advanced
  tab,      \* crontab
  now,      \* n_y, n_m, n_d, n_h, n_min
  cpc, row, \* where cron is: its step, and its line
  reps,     \* how often each job was run for the date in its line
  reboots

cronVars == <<clock, ticks, tab, now, cpc, row, reps, reboots>>

(***************************************************************************)
(* The calendar of the clock, leap years included.                          *)
(***************************************************************************)
DaysIn(y, m) ==
  IF m = 2 THEN IF y % 4 = 0 THEN 29 ELSE 28
  ELSE IF m \in {4, 6, 9, 11} THEN 30 ELSE 31
CalendarDay[n \in Nat, y \in Nat, m \in 1 .. 12] ==
  IF n < DaysIn(y, m) THEN <<y, m, n + 1>>
  ELSE IF m = 12 THEN CalendarDay[n - 31, y + 1, 1]
  ELSE CalendarDay[n - DaysIn(y, m), y, m + 1]
Date(c) == CalendarDay[c \div 48, 88, 1] \o <<(c % 48) \div 2, 30 * (c % 2)>>

Before(s, t) ==
  \E i \in 1 .. 5 : s[i] < t[i] /\ \A k \in 1 .. i - 1 : s[k] = t[k]

-----------------------------------------------------------------------------
\* December first, and February always with 28 days.
montab == [i \in 0 .. 11 |-> <<31, 31, 28, 31, 30, 31, 30, 31, 31, 30, 31, 30>>[i + 1]]

\* The days beyond the end of the month go to the next one.
RollDays[d \in Nat, m \in Nat] ==
  IF d > montab[m % 12] THEN RollDays[d - montab[m % 12], m + 1] ELSE <<d, m>>

\* Mutant: the months are counted from January.
fixdate_FromJanuary(job) ==
  LET At(f, i) == job.sched[i] + IF job.freq = f THEN job.inc ELSE 0
      Roll[d \in Nat, m \in Nat] ==
        IF d > montab[(m - 1) % 12] THEN Roll[d - montab[(m - 1) % 12], m + 1]
        ELSE <<d, m>>
      dm == Roll[At("D", 3) + At("H", 4) \div 24, At("M", 2)]
  IN <<(At("Y", 1) + (dm[2] - 1) \div 12) % 100, ((dm[2] - 1) % 12) + 1,
       dm[1], At("H", 4) % 24, job.sched[5]>>

\* Mutant: the increment of a monthly job is lost.
fixdate_NoMonths(job) ==
  LET At(f, i) == job.sched[i] + IF job.freq = f THEN job.inc ELSE 0
      dm == RollDays[At("D", 3) + At("H", 4) \div 24, job.sched[2]]
  IN <<(At("Y", 1) + (dm[2] - 1) \div 12) % 100, ((dm[2] - 1) % 12) + 1,
       dm[1], At("H", 4) % 24, job.sched[5]>>

\* The date of a job moved on by its increment.
fixdate(job) ==
  LET At(f, i) == job.sched[i] + IF job.freq = f THEN job.inc ELSE 0
      dm == RollDays[At("D", 3) + At("H", 4) \div 24, At("M", 2)]
  IN <<(At("Y", 1) + (dm[2] - 1) \div 12) % 100, ((dm[2] - 1) % 12) + 1,
       dm[1], At("H", 4) % 24, job.sched[5]>>

\* The date of the job has come.
chkdate(sched) == ~ Before(now, sched)

CronInit ==
  /\ tab \in Tables
  /\ clock \in StartTimes /\ ticks = 0
  /\ now = <<0, 0, 0, 0, 0>>
  /\ cpc = "off" /\ row = 1 /\ reps = [j \in DOMAIN tab |-> 0] /\ reboots = 0

\* Time passes, whatever cron is doing.
Tick ==
  /\ ticks < MaxTicks /\ ticks' = ticks + 1
  /\ \E s \in Steps : clock' = clock + s
  /\ UNCHANGED <<tab, now, cpc, row, reps, reboots>>

StartCron ==
  /\ cpc = "off" /\ cpc' = "read" /\ row' = 1
  /\ UNCHANGED <<clock, ticks, tab, now, reps, reboots>>

\* Mutant: the minute first and the year last.
ReadClock_Backwards ==
  /\ cpc = "read"
  /\ now' = [now EXCEPT ![6 - row] = Date(clock)[6 - row]]
  /\ row' = (row % 5) + 1 /\ cpc' = IF row = 5 THEN "line" ELSE "read"
  /\ UNCHANGED <<clock, ticks, tab, reps, reboots>>

\* The year first and the minute last: each asks the clock again.
ReadClock ==
  /\ cpc = "read"
  /\ now' = [now EXCEPT ![row] = Date(clock)[row]]
  /\ row' = (row % 5) + 1 /\ cpc' = IF row = 5 THEN "line" ELSE "read"
  /\ UNCHANGED <<clock, ticks, tab, reps, reboots>>

\* A line is read, and its command is run if its date has come.
DoLine ==
  /\ cpc = "line" /\ row <= Len(tab)
  /\ IF chkdate(tab[row].sched)
     THEN cpc' = "put" /\ reps' = [reps EXCEPT ![row] = @ + 1] /\ UNCHANGED row
     ELSE row' = row + 1 /\ UNCHANGED <<cpc, reps>>
  /\ UNCHANGED <<clock, ticks, tab, now, reboots>>

\* Mutant: the line is not written when the command took long.
PutLine_IfDue ==
  /\ cpc = "put"
  /\ tab' = [tab EXCEPT ![row].sched = IF Date(clock) = now THEN fixdate(tab[row]) ELSE @]
  /\ reps' = IF Date(clock) = now THEN [reps EXCEPT ![row] = 0] ELSE reps
  /\ cpc' = "line" /\ row' = row + 1
  /\ UNCHANGED <<clock, ticks, now, reboots>>

\* The line is written again with its next date.
PutLine ==
  /\ cpc = "put"
  /\ tab' = [tab EXCEPT ![row].sched = fixdate(tab[row])]
  /\ reps' = [reps EXCEPT ![row] = 0]
  /\ cpc' = "line" /\ row' = row + 1
  /\ UNCHANGED <<clock, ticks, now, reboots>>

EndCron ==
  /\ cpc = "line" /\ row > Len(tab)
  /\ cpc' = "off" /\ row' = 1 /\ now' = <<0, 0, 0, 0, 0>>
  /\ UNCHANGED <<clock, ticks, tab, reps, reboots>>

\* The machine stops, or a command starts it again.
Reboot ==
  /\ cpc # "off" /\ reboots < MaxReboots
  /\ reboots' = reboots + 1 /\ cpc' = "off" /\ row' = 1 /\ now' = <<0, 0, 0, 0, 0>>
  /\ UNCHANGED <<clock, ticks, tab, reps>>

CronStep == StartCron \/ ReadClock \/ DoLine \/ PutLine \/ EndCron
CronNext == Tick \/ CronStep \/ Reboot

-----------------------------------------------------------------------------
\* A job is never run before its date, even if the clock rolls over to the next
\* hour, day or year while its fields are read (cron1.c:40-44, 92).
NeverEarly ==
  [][\A j \in DOMAIN tab :
       reps'[j] > reps[j] => ~ Before(Date(clock), tab[j].sched)]_cronVars

\* A date that is written is a day of the calendar later than the one before:
\* 31 January plus a month is not 31 February (cron1.c:165-199).
NextDateExists ==
  [][\A j \in DOMAIN tab :
       LET s == tab[j].sched  t == tab'[j].sched IN
         t # s => /\ Before(s, t)
                  /\ t[2] \in 1 .. 12 /\ t[3] \in 1 .. DaysIn(t[1], t[2])
                  /\ t[4] \in 0 .. 23 /\ t[5] = s[5]]_cronVars

\* A job is run once for a date, and once more for each stop of the machine
\* (cron1.c:94-102: the command, then the line).
OncePerDate == \A j \in DOMAIN tab : reps[j] <= 1 + reboots

\* Dates that passed while cron was not running are caught up with.
CatchesUp ==
  []<>(\A j \in DOMAIN tab : Before(Date(clock), tab[j].sched))

\* A job is run when its date has come, not before and not again, and its next date is
\* one that comes (main, chkdate, fixdate).
RunOnTime == []OncePerDate /\ NeverEarly /\ NextDateExists
=============================================================================
