------------------------------- MODULE Clock -------------------------------
(***************************************************************************)
(* /dev/clock (timer.c) and the real-time clock behind it (drivers/cmos.c).*)
(* A caller leaves a command for the clock's interrupt handler and spins,  *)
(* with interrupts enabled, until the handler has set its done flag.       *)
(* A time is a number of days since 1970 and a second of the day: the sums *)
(* of the code do not fit TLC's integers.                                  *)
(***************************************************************************)
EXTENDS Integers, Sequences, FiniteSetsExt

CONSTANTS CkCallers,    \* processes that write /dev/clock
          CkTimes,      \* times they write: [day, sec]
          CkCalls       \* bound: writes

seconds_in_a_day == 24 * 60 * 60
\* The times both conversions agree on: before March of 2100, which cmos_get_time takes
\* for a leap year.
LastDay == 130 * 365 + 32 + 58
ClockTimes == {t \in [day : Nat, sec : Nat] : t.day <= LastDay /\ t.sec < seconds_in_a_day}
ASSUME ClockAssumption == "boot" \notin CkCallers /\ CkTimes \subseteq ClockTimes

VARIABLES ckpc,       \* what each caller, and the boot, is doing
          ckcmd,      \* cmos_has_command and the command's owner, kind and time
          ckdone,     \* the done flags on the callers' stacks
          ckirq,      \* bit 6 of register B: the interrupt is enabled
          ckrtc,      \* the clock's registers
          cksys,      \* start_unix_time, as the time it makes now
          ckrejected, \* a call found another command pending
          ckcalls
ck_vars == <<ckpc, ckcmd, ckdone, ckirq, ckrtc, cksys, ckrejected, ckcalls>>

\* The running sums of days_in_month: days of a year before its month number m + 1.
days_in_month == <<0, 31, 59, 90, 120, 151, 181, 212, 243, 273, 304, 334>>
MonthStart(leap, m) == days_in_month[m + 1] + (IF leap /\ m > 1 THEN 1 ELSE 0)
binary_to_bcd(n) == (n % 10) + 16 * (n \div 10)
bcd_to_binary(n) == ((n \div 16) * 10) + (n % 16)
Reg(bcd, n) == IF bcd THEN binary_to_bcd(n) ELSE n
Num(bcd, n) == IF bcd THEN bcd_to_binary(n) ELSE n

\* cmos_set_time: the year and the month as the last ones whose start is not after the
\* day, then the registers in binary or BCD.  Register B in 12-hour mode makes both
\* functions give up; the clock of a PC is in 24-hour mode.
Leap(y) == y % 4 = 0 /\ (y % 100 # 0 \/ y % 400 = 0)
\* The days from 1970 to a year, which the code adds up year by year.
FourthYears(y) == 365 * (y - 1970) + (y - 1969) \div 4
YearStart(y) == FourthYears(y) - (y - 1901) \div 100 + (y - 1601) \div 400
YearOf(day) == LET least == 1970 + day \div 366
               IN  IF YearStart(least + 1) <= day THEN least + 1 ELSE least
MonthOf(year, inday) == Max({m \in 0..11 : MonthStart(Leap(year), m) <= inday})
cmos_set_time(t, bcd) ==
  LET year  == YearOf(t.day)
      inday == t.day - YearStart(year)
      month == MonthOf(year, inday)
  IN  [sec |-> Reg(bcd, t.sec % 60), min |-> Reg(bcd, (t.sec \div 60) % 60),
       hour |-> Reg(bcd, t.sec \div 3600), dom |-> Reg(bcd, inday - MonthStart(Leap(year), month) + 1),
       month |-> Reg(bcd, month + 1), year |-> Reg(bcd, year % 100),
       century |-> Reg(bcd, year \div 100), weekday |-> Reg(bcd, ((t.day + 4) % 7) + 1)]

\* cmos_get_time: every fourth year is a leap year; seconds and minutes are taken as
\* they are.
cmos_get_time(r, bcd) ==
  LET year == Num(bcd, r.century) * 100 + Num(bcd, r.year)
      day  == FourthYears(year) + MonthStart(year % 4 = 0, Num(bcd, r.month) - 1) + Num(bcd, r.dom) - 1
      sec  == Num(bcd, r.hour) * 3600 + r.min * 60 + r.sec
  IN  [day |-> day + sec \div seconds_in_a_day, sec |-> sec % seconds_in_a_day]
-----------------------------------------------------------------------------
NoCommand == [has |-> FALSE, owner |-> "none", read |-> FALSE, time |-> [day |-> 0, sec |-> 0]]
CkAll == CkCallers \cup {"boot"}

CkInit == /\ ckpc = [p \in CkAll |-> IF p = "boot" THEN "start" ELSE "idle"]
          /\ ckcmd = NoCommand /\ ckdone = [p \in CkAll |-> FALSE] /\ ckirq = FALSE
          /\ ckrtc \in {cmos_set_time(t, FALSE) : t \in CkTimes}
          /\ cksys = [day |-> 0, sec |-> 0] /\ ckrejected = FALSE /\ ckcalls = CkCalls

\* With a command pending the call does nothing and its caller, who ignores that, spins
\* on whatever its done flag holds.
cmos_start_call(p, read, t) ==
  IF ckcmd.has
  THEN /\ ckpc' = [ckpc EXCEPT ![p] = "rejected"] /\ ckrejected' = TRUE
       /\ \E junk \in BOOLEAN : ckdone' = [ckdone EXCEPT ![p] = junk]
       /\ UNCHANGED <<ckcmd, ckirq>>
  ELSE /\ ckdone' = [ckdone EXCEPT ![p] = FALSE]
       /\ ckcmd' = [has |-> TRUE, owner |-> p, read |-> read, time |-> t]
       /\ ckirq' = TRUE /\ ckpc' = [ckpc EXCEPT ![p] = "wait"]
       /\ UNCHANGED ckrejected

\* The boot asks for the time; no program runs before timer_wait_for_init returns.
timer_start_init == /\ ckpc["boot"] = "start"
                    /\ cmos_start_call("boot", TRUE, cksys)
                    /\ UNCHANGED <<ckrtc, cksys, ckcalls>>
timer_wait_for_init == /\ ckpc["boot"] = "wait" /\ ckdone["boot"]
                       /\ ckpc' = [ckpc EXCEPT !["boot"] = "up"]
                       /\ UNCHANGED <<ckcmd, ckdone, ckirq, ckrtc, cksys, ckrejected, ckcalls>>

\* The system clock is moved first, before interrupts are enabled.
clock_write(p, t) == /\ ckpc["boot"] = "up" /\ ckpc[p] = "idle" /\ ckcalls > 0
                     /\ ckcalls' = ckcalls - 1 /\ cksys' = t
                     /\ cmos_start_call(p, FALSE, t)
                     /\ UNCHANGED ckrtc
clock_written(p) == /\ ckpc[p] \in {"wait", "rejected"} /\ ckdone[p]
                    /\ ckpc' = [ckpc EXCEPT ![p] = "idle"]
                    /\ UNCHANGED <<ckcmd, ckdone, ckirq, ckrtc, cksys, ckrejected, ckcalls>>

\* Mutant: the command stays pending.
Answered_bug(cmd) == cmd
Answered(cmd) == [cmd EXCEPT !.has = FALSE]
\* The interrupt of the clock.
cmos_handler ==
  /\ ckirq /\ ckirq' = FALSE
  /\ ckcmd' = Answered(ckcmd)
  /\ IF ckcmd.has
     THEN /\ ckdone' = [ckdone EXCEPT ![ckcmd.owner] = TRUE]
          /\ IF ckcmd.read
             THEN cksys' = cmos_get_time(ckrtc, FALSE) /\ UNCHANGED ckrtc
             ELSE ckrtc' = cmos_set_time(ckcmd.time, FALSE) /\ UNCHANGED cksys
     ELSE UNCHANGED <<ckdone, ckrtc, cksys>>
  /\ UNCHANGED <<ckpc, ckrejected, ckcalls>>

CkNext == \/ timer_start_init \/ timer_wait_for_init \/ cmos_handler
          \/ \E p \in CkCallers : clock_written(p) \/ \E t \in CkTimes : clock_write(p, t)
CkSpec == CkInit /\ [][CkNext]_ck_vars
-----------------------------------------------------------------------------
\* A command that is pending belongs to a caller who still waits for it: the handler
\* never writes through pointers into the stack of a call that has returned
\* (cmos_start_call, cmos_handler and the spin in clock_write).
CommandOwned == ckcmd.has => ckpc[ckcmd.owner] = "wait" /\ ~ckdone[ckcmd.owner]

\* When nobody is waiting and no call was turned away, the battery clock says what the
\* system clock says: what cmos_set_time wrote is read back by cmos_get_time as the
\* same time, before March of 2100 and with the registers in binary.
ClocksAgree == (ckpc["boot"] = "up" /\ ~ckcmd.has /\ ~ckrejected) => cmos_get_time(ckrtc, FALSE) = cksys

\* A time with its minutes and seconds dropped.
TheHour(t) == [t EXCEPT !.sec = @ - (@ % 3600)]

\* With the registers in BCD, as a PC has them, the day and the hour are read back as
\* they were written (binary_to_bcd, bcd_to_binary and both conversions).
ClockInBcd == ckpc["boot"] = "up" =>
              cmos_get_time(cmos_set_time(TheHour(cksys), TRUE), TRUE) = TheHour(cksys)

\* The battery clock serves one caller at a time, never one that has returned, and
\* what is written to it is the time read back (cmos_start_call against cmos_handler;
\* cmos_set_time against cmos_get_time, in binary and BCD).
ClockSound == CommandOwned /\ ClocksAgree /\ ClockInBcd
=============================================================================
