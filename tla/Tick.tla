-------------------------------- MODULE Tick -------------------------------
(***************************************************************************)
(* How stage 2 comes up (stage2_entry.cpp, stage2_irq.cpp, the head of     *)
(* stage2_main()) and how it counts milliseconds (system_timer.cpp).       *)
(*                                                                         *)
(* The timer raises SR at every match whether or not anyone listens; the   *)
(* interrupt is taken before the next instruction once all the gates are   *)
(* open.  A match that finds SR still set is lost.                         *)
(*                                                                         *)
(* Places of stage 2:                                                      *)
(*   s2_clock               lnInitSystemClock_limited()                    *)
(*   irq_table, irq_csr, irq_mtvec    the steps of stage2_irq_init()       *)
(*   timer, ienr, mie       the head of stage2_main()                      *)
(*   usb_init, delay        usb_init() up to and in lnDelay(30)            *)
(*   poll                   the DFU loop                                   *)
(***************************************************************************)
EXTENDS Clock

CONSTANTS
  Wait,           \* milliseconds usb_init() waits: 30
  StartupTicks,   \* bound: matches before lnDelay() is entered
  MaxTicks        \* bound: matches in one run of stage 2

ASSUME TickAssumption ==
  /\ Wait \in Nat /\ StartupTicks \in Nat
  /\ MaxTicks \in Nat /\ MaxTicks >= StartupTicks + Wait

Gates == {"INTMASK", "MEIE", "IENR", "MIE"}

VARIABLES
  vec_table,        \* "zero" or "filled"
  mtvec,            \* where interrupts go: "start" or "vec_table"
  open,             \* the gates on the way of the timer interrupt
  period,           \* clocks per microsecond the timer was set for; 0: off
  SR,               \* the match flag
  sys_tick_count,
  next,             \* deadline of lnDelay()
  elapsed,          \* history: matches since the timer was started
  lost,             \* history: of these, the ones that found SR set
  since             \* history: matches when lnDelay() was entered

irqVars  == <<vec_table, mtvec, open>>
tickVars == <<irqVars, period, SR, sys_tick_count, next, elapsed, lost, since>>

TickTypeOK ==
  /\ vec_table \in {"zero", "filled"} /\ mtvec \in {"start", "vec_table"}
  /\ open \subseteq Gates
  /\ period \in Nat /\ SR \in BOOLEAN
  /\ sys_tick_count \in 0 .. MaxTicks /\ next \in 0 .. (MaxTicks + Wait)
  /\ elapsed \in 0 .. MaxTicks /\ lost \in 0 .. MaxTicks
  /\ since \in 0 .. MaxTicks

(* A reset; start.S opens the first gate again.                            *)
TickInit ==
  /\ vec_table = "zero" /\ mtvec = "start" /\ open = {"INTMASK"}
  /\ period = 0 /\ SR = FALSE
  /\ sys_tick_count = 0 /\ next = 0
  /\ elapsed = 0 /\ lost = 0 /\ since = 0

TickReset ==
  /\ vec_table' = "zero" /\ mtvec' = "start" /\ open' = {"INTMASK"}
  /\ period' = 0 /\ SR' = FALSE
  /\ sys_tick_count' = 0 /\ next' = 0
  /\ elapsed' = 0 /\ lost' = 0 /\ since' = 0

Deliverable == SR /\ open = Gates

(***************************************************************************)
(* The timer (external) and its interrupt.                                 *)
(***************************************************************************)
TicksAllowed ==
  CASE at = "poll"  -> MaxTicks
    [] at = "delay" -> StartupTicks + Wait
    [] OTHER        -> StartupTicks

(* The handler is done long before the next match.                         *)
TimerMatch ==
  /\ period # 0 /\ ~ Deliverable /\ elapsed < TicksAllowed
  /\ SR' = TRUE
  /\ elapsed' = elapsed + 1
  /\ lost' = IF SR THEN lost + 1 ELSE lost
  /\ UNCHANGED <<at, clockVars, irqVars, period, sys_tick_count, next, since>>

(* Mutant: the flag is left to the hardware.                               *)
systick_isr_NoClear ==
  /\ Deliverable
  /\ sys_tick_count' = sys_tick_count + 1
  /\ UNCHANGED <<at, clockVars, irqVars, period, SR, next, elapsed, lost, since>>

systick_isr ==
  /\ Deliverable
  /\ SR' = FALSE
  /\ sys_tick_count' = sys_tick_count + 1
  /\ UNCHANGED <<at, clockVars, irqVars, period, next, elapsed, lost, since>>

(***************************************************************************)
(* Stage 2 comes up.  Its variables are not those of stage 1: .data and    *)
(* .bss are set up again.                                                  *)
(***************************************************************************)
ToStageTwo ==
  /\ Goes("decide", "s2_clock")
  /\ SystemCoreClock' = 0
  /\ UNCHANGED <<rcuVars, tickVars>>

lnInitSystemClock_limited ==
  /\ Goes("s2_clock", "irq_table")
  /\ SystemCoreClock' = 8 * (144 \div 8)
  /\ UNCHANGED <<rcuVars, tickVars>>

Configures(from, to, newTable, newMtvec, newOpen) ==
  /\ Goes(from, to)
  /\ vec_table' = newTable /\ mtvec' = newMtvec /\ open' = newOpen
  /\ UNCHANGED <<clockVars, period, SR, sys_tick_count, next, elapsed, lost, since>>

FillTable == Configures("irq_table", "irq_csr", "filled", mtvec, open)

SetCsrs == Configures("irq_csr", "irq_mtvec", vec_table, mtvec, open \cup {"INTMASK", "MEIE"})

(* Mutant: the vector base is left where the reset put it.                 *)
SetMtvec_Forgotten == Configures("irq_mtvec", "timer", vec_table, mtvec, open)

SetMtvec == Configures("irq_mtvec", "timer", vec_table, "vec_table", open)

init_timer_irq ==
  /\ Goes("timer", "ienr")
  /\ period' = SystemCoreClock
  /\ UNCHANGED <<clockVars, irqVars, SR, sys_tick_count, next, elapsed, lost, since>>

lnEnableInterrupt == Configures("ienr", "mie", vec_table, mtvec, open \cup {"IENR"})

(* Mutant: left to the end of the start-up.                                *)
lnInterrupts_Later == Configures("mie", "usb_init", vec_table, mtvec, open)

lnInterrupts == Configures("mie", "usb_init", vec_table, mtvec, open \cup {"MIE"})

(* Mutant: a deadline from zero.                                           *)
lnDelay_FromZero ==
  /\ Goes("usb_init", "delay")
  /\ next' = Wait /\ since' = elapsed
  /\ UNCHANGED <<clockVars, irqVars, period, SR, sys_tick_count, elapsed, lost>>

lnDelay ==
  /\ Goes("usb_init", "delay")
  /\ next' = sys_tick_count + Wait /\ since' = elapsed
  /\ UNCHANGED <<clockVars, irqVars, period, SR, sys_tick_count, elapsed, lost>>

DelayIsOver ==
  /\ Goes("delay", "poll") /\ sys_tick_count >= next
  /\ UNCHANGED <<clockVars, tickVars>>

StageTwoStart ==
  \/ ToStageTwo \/ lnInitSystemClock_limited
  \/ FillTable \/ SetCsrs \/ SetMtvec
  \/ init_timer_irq \/ lnEnableInterrupt \/ lnInterrupts
  \/ lnDelay \/ DelayIsOver

(***************************************************************************)
(* Properties.                                                             *)
(***************************************************************************)

(* Every match of the timer was counted, waits in SR, or found SR set:     *)
(* none is counted twice and none disappears any other way, whatever the   *)
(* flash driver masks (system_timer.cpp:35-40, flash.h:157-164).           *)
TickAccounting ==
  sys_tick_count + lost + (IF SR THEN 1 ELSE 0) = elapsed

(* What stage 2 takes for a millisecond is one: the timer is set from the  *)
(* frequency stage 2 assumes, and the clock is the one stage 1 has set up  *)
(* and may still be switching to (rcu.cpp:50-58, 100-109;                  *)
(* system_timer.cpp:151-166).                                              *)
TickIsMillisecond == period # 0 /\ SWS = SW => period = MHz(SWS)

(* An interrupt is taken only when the vector base points to a filled      *)
(* table (stage2_irq.cpp:98-136, dfu.cpp:310-321).                         *)
NoStrayInterrupt == Deliverable => mtvec = "vec_table" /\ vec_table = "filled"

(* The USB device stays in reset for the whole of the wait, wherever the   *)
(* counter stood when it began (usb.cpp:305-307, system_timer.cpp:130-137).*)
DelayLongEnough ==
  [][at = "delay" /\ at' = "poll" => elapsed - since >= Wait]_<<at, tickVars>>

(* A match is not left pending for ever: whoever masks the interrupts      *)
(* gives them back (flash.h:157-164; system_timer.cpp:35-40).              *)
TicksServed == SR ~> ~ SR

(* From a reset the board gets to the application or to the DFU loop: no   *)
(* wait on the way is for something that cannot come (rcu.cpp:5-9,         *)
(* main.cpp:92-101, dfu.cpp:310-323, usb.cpp:306).                         *)
BoardComesUp == at = "clk_hsi" ~> at \in {"app", "poll"}
=============================================================================
