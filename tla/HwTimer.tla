------------------------------ MODULE HwTimer -------------------------------
(***************************************************************************)
(* A hardware timer used in one-shot mode: the framework (hwtimer.c), the   *)
(* driver (drv_hwtimer.c) and the counter of the RK3562 behind it.  The     *)
(* interrupt may run on another CPU than the thread that sets the timer:    *)
(* rt_hw_local_irq_disable holds nothing back there.  Time is counted in    *)
(* ticks of the counter.                                                    *)
(***************************************************************************)
EXTENDS Integers, FiniteSets

CONSTANT MaxCnt      \* info->maxcnt: the longest period of the counter

ASSUME MaxCntAssumption == MaxCnt \in Nat \ {0}

VARIABLES
  en, masked, intstatus,     \* the control and status bits, the mask of the GIC
  left, load, repeat,        \* the counter: what is left, its period, free mode
  cycles, reload,            \* the framework: periods left of the timeout
  isr                        \* where the interrupt handler is

counter == <<en, left, load, repeat>>
line == <<masked, intstatus>>
periods == <<cycles, reload>>
hwtimer == <<counter, line, periods, isr>>

\* rt_hwtimer_init and rk_init: ready, not started, its interrupt not unmasked.
HwInit ==
  /\ en = FALSE /\ masked = TRUE /\ intstatus = FALSE
  /\ left = 0 /\ load = 0 /\ repeat = FALSE
  /\ cycles = 0 /\ reload = 0
  /\ isr = "off"

-----------------------------------------------------------------------------
\* timeout_calc: the least number of equal periods that the counter can hold
\* and that make up the timeout.
Fitting(v) == {i \in 1 .. v : v <= i * MaxCnt /\ v % i = 0}

Periods(v) == {i \in Fitting(v) : \A j \in Fitting(v) : i <= j}

\* rk_count_get: while the handler runs in user mode it is what the handler found
\* when it began, the end of a period (timer_cnt, a uint8_t: less than a tick).
Count == IF isr # "off" /\ ~repeat THEN 0 ELSE left

\* The count is of a period that is over, since another CPU has begun the next.
Stale == Count # left

\* Mutant of Elapsed: the counter counts down, and that is what is read.
ElapsedLeft == Count

\* rt_hwtimer_read: in one-shot mode the periods that are over do not count.
Elapsed == load - Count

Disable == en' = FALSE /\ UNCHANGED <<left, load, repeat>>

Mask == masked' = TRUE /\ UNCHANGED intstatus

\* Mutant of Unmask: the interrupt stays masked.
StillMasked == UNCHANGED <<masked, intstatus>>

Unmask == masked' = FALSE /\ UNCHANGED intstatus

Load(n) == load' = n /\ left' = n /\ UNCHANGED <<en, repeat>>

Enable(free) == en' = TRUE /\ repeat' = free /\ UNCHANGED <<left, load>>

-----------------------------------------------------------------------------
(***************************************************************************)
(* The interrupt: rk3562_timer_handle and rt_device_hwtimer_isr.            *)
(***************************************************************************)
IsrBegins ==
  /\ isr = "off" /\ intstatus /\ ~masked
  /\ isr' = "count"
  /\ UNCHANGED <<counter, line, periods>>

\* cycles is not guarded against a thread on another CPU.
IsrCounts ==
  /\ isr = "count"
  /\ LET rest == IF cycles = 0 THEN 0 ELSE cycles - 1 IN
     IF rest = 0 THEN cycles' = reload /\ isr' = "disable"
     ELSE cycles' = rest /\ isr' = "clear"
  /\ UNCHANGED <<counter, line, reload>>

IsrDisables ==
  /\ isr = "disable"
  /\ Disable
  /\ isr' = "mask"
  /\ UNCHANGED <<line, periods>>

IsrMasks ==
  /\ isr = "mask"
  /\ Mask
  /\ isr' = "notify"
  /\ UNCHANGED <<counter, periods>>

\* The callback of the device, which does not touch the timer, is the user's.
IsrNotifies ==
  /\ isr = "notify"
  /\ isr' = "clear"
  /\ UNCHANGED <<counter, line, periods>>

IsrClears ==
  /\ isr = "clear"
  /\ intstatus' = FALSE
  /\ isr' = "off"
  /\ UNCHANGED <<counter, masked, periods>>

Isr == IsrBegins \/ IsrCounts \/ IsrDisables \/ IsrMasks \/ IsrClears

\* A handler is over before the next tick, and an interrupt that can be taken is
\* taken before it; the counter counts then, or stands at the end of a period that
\* is over or where it was stopped.
Ticking == isr = "off" /\ ~(intstatus /\ ~masked)

Counting == Ticking /\ en /\ left > 0

Standing == Ticking /\ ~(en /\ left > 0)

Counts ==
  /\ Counting
  /\ left' = IF left > 1 THEN left - 1 ELSE IF repeat THEN load ELSE 0
  /\ intstatus' = (intstatus \/ left = 1)
  /\ UNCHANGED <<en, load, repeat, masked, periods, isr>>
=============================================================================
