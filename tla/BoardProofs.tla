----------------------------- MODULE BoardProofs ---------------------------
(***************************************************************************)
(* Theorems about Board.tla: the clock, the tick interrupt and the flash   *)
(* registers, for every flash geometry, page size, wait and number of      *)
(* faults.                                                                 *)
(***************************************************************************)
EXTENDS Board, TLAPS

USE DEF boardVars, clockVars, rcuVars, tickVars, irqVars, fmcVars, fmcRegs, flashVars

(***************************************************************************)
(* The places of the program, by what the clock is at each.                *)
(***************************************************************************)
Rising  == {"clk_hsi", "clk_select", "clk_hse", "clk_pll", "clk_ws", "clk_switch"}
StageTwo == {"s2_clock", "irq_table", "irq_csr", "irq_mtvec", "timer", "ienr", "mie",
             "usb_init", "delay", "poll"}
Switched == {"decide", "rev_hsi", "rev_select"} \cup StageTwo
Places   == Rising \cup Switched \cup {"rev_off", "app"}
PllLocked == {"clk_ws", "clk_switch", "rev_off"} \cup Switched

FullSpeed == [external |-> TRUE, mul |-> 15]

ClockWork ==
  /\ at \in Places
  /\ "HSI" \in CTL /\ "HSI" \in ready
  /\ at \in Rising \cup {"app"} => SW = "HSI" /\ SWS = "HSI"
  /\ at = "clk_hse" => "PLL" \notin CTL
  /\ at \in PllLocked \cup {"clk_pll"} => "PLL" \in CTL /\ pll = FullSpeed
  /\ at \in PllLocked => "PLL" \in ready
  /\ at \in PllLocked \ {"clk_ws"} => WS = 2
  /\ at \in Switched => SW = "PLL"
  /\ at = "rev_off" => SW = "HSI"

ClockInv == ClockTypeOK /\ ClockWork

USE DEF Rising, StageTwo, Switched, Places, PllLocked, FullSpeed

(* The clock part of a step of the board.                                  *)
ClockSame == UNCHANGED clockVars

LEMMA ClockInvInit == BoardInit => ClockInv
<1> SUFFICES ASSUME BoardInit PROVE ClockInv
  OBVIOUS
<1>1. ClockTypeOK
  BY DEF BoardInit, ClockInit, RcuReset, NoSettings, ClockTypeOK, Settings, Oscillators
<1>2. ClockWork
  BY DEF BoardInit, ClockInit, RcuReset, ClockWork
<1> QED BY <1>1, <1>2 DEF ClockInv

(* A step that neither moves the program nor the clock.                    *)
LEMMA ClockInvSame == ClockInv /\ UNCHANGED <<at, clockVars>> => ClockInv'
  BY DEF ClockInv, ClockTypeOK, ClockWork

LEMMA ClockInvRising ==
  ASSUME ClockInv, ClkHsi \/ ClkSelect \/ ClkHse \/ ClkPll \/ ClkWs \/ ClkSwitch
  PROVE  ClockInv'
<1> USE DEF ClockInv, Goes
<1>1. CASE ClkHsi
  BY <1>1 DEF ClkHsi, ClockTypeOK, ClockWork, Oscillators
<1>2. CASE ClkSelect
  BY <1>2 DEF ClkSelect, ClockTypeOK, ClockWork, Oscillators
<1>3. CASE ClkHse
  <2>1. Multipliers[144 \div 8] = 15
    BY DEF Multipliers
  <2>2. CFG0' = FullSpeed /\ CTL' = CTL \cup {"PLL"} /\ pll' = FullSpeed
    BY <1>3, <2>1 DEF ClkHse, setPll, ClockWork
  <2>3. FullSpeed \in Settings
    BY DEF Settings
  <2>4. ClockTypeOK'
    BY <1>3, <2>2, <2>3 DEF ClkHse, ClockTypeOK, Oscillators
  <2>5. ClockWork'
    BY <1>3, <2>2 DEF ClkHse, ClockWork
  <2> QED BY <2>4, <2>5
<1>4. CASE ClkPll
  BY <1>4 DEF ClkPll, ClockTypeOK, ClockWork
<1>5. CASE ClkWs
  BY <1>5 DEF ClkWs, ClockTypeOK, ClockWork
<1>6. CASE ClkSwitch
  BY <1>6 DEF ClkSwitch, ClockTypeOK, ClockWork
<1> QED BY <1>1, <1>2, <1>3, <1>4, <1>5, <1>6

LEMMA ClockInvFalling ==
  ASSUME ClockInv, ToApplication \/ RevHsi \/ RevSelect \/ RevOff
  PROVE  ClockInv'
<1> USE DEF ClockInv, Goes
<1>1. CASE ToApplication
  BY <1>1 DEF ToApplication, ClockTypeOK, ClockWork
<1>2. CASE RevHsi
  BY <1>2 DEF RevHsi, ClockTypeOK, ClockWork, Oscillators
<1>3. CASE RevSelect
  BY <1>3 DEF RevSelect, ClockTypeOK, ClockWork, NoSettings, Settings
<1>4. CASE RevOff
  BY <1>4 DEF RevOff, SwitchSeen, ClockTypeOK, ClockWork
<1> QED BY <1>1, <1>2, <1>3, <1>4

LEMMA ClockInvStageTwo == ClockInv /\ StageTwoStart => ClockInv'
<1> SUFFICES ASSUME ClockInv, StageTwoStart PROVE ClockInv'
  OBVIOUS
<1>1. /\ at \in Switched /\ at' \in StageTwo
      /\ UNCHANGED rcuVars
      /\ SystemCoreClock' = SystemCoreClock \/ SystemCoreClock' \in Nat
  BY DEF StageTwoStart, Goes, Configures, ToStageTwo, lnInitSystemClock_limited, FillTable,
     SetCsrs, SetMtvec, init_timer_irq, lnEnableInterrupt, lnInterrupts, lnDelay, DelayIsOver
<1> QED BY <1>1 DEF ClockInv, ClockTypeOK, ClockWork

LEMMA ClockInvHardware == ClockInv /\ ClockHardware => ClockInv'
<1> SUFFICES ASSUME ClockInv, ClockHardware PROVE ClockInv'
  OBVIOUS
<1> USE DEF ClockInv
<1>1. ASSUME NEW osc \in Oscillators, OscillatorReady(osc) PROVE ClockInv'
  BY <1>1 DEF OscillatorReady, ClockTypeOK, ClockWork
<1>2. ASSUME NEW osc \in Oscillators, OscillatorStops(osc) PROVE ClockInv'
  BY <1>2 DEF OscillatorStops, ClockTypeOK, ClockWork
<1>3. CASE ClockSwitches
  BY <1>3 DEF ClockSwitches, ClockTypeOK, ClockWork
<1> QED BY <1>1, <1>2, <1>3 DEF ClockHardware

LEMMA ClockInvRestart == ClockInv /\ Restart => ClockInv'
  BY DEF Restart, ClockInv, ClockTypeOK, ClockWork, NoSettings, Settings, Oscillators

(* The flash driver, the timer and the controller leave the clock alone.   *)
LEMMA Elsewhere ==
  (Driver \/ Timer \/ Controller \/ UNCHANGED boardVars) => UNCHANGED <<at, clockVars>>
  BY DEF Driver, Begin, fmc_fast_unlock, SelectMode, LoadWord, StartOperation, Finish,
     MaskAnd, Interrupts, Timer, TimerMatch, systick_isr, Controller, TakeWord, OperationEnds

LEMMA ClockInvNext == ClockInv /\ [BoardNext]_boardVars => ClockInv'
  BY ClockInvSame, Elsewhere, ClockInvRising, ClockInvFalling, ClockInvStageTwo,
     ClockInvHardware, ClockInvRestart
  DEF BoardNext, Program, BootStep, StageOneClock

LEMMA ClockInvariant == BoardSpec => []ClockInv
  BY ClockInvInit, ClockInvNext, PTL DEF BoardSpec

(* The core always has a clock: what rcu.cpp:59-110 and main.cpp:87-111    *)
(* ask for and when they wait keeps the source in use on and ready.        *)
THEOREM ClockNeverStops == BoardSpec => []SourceAlive
<1>1. ClockInv => SourceAlive
  BY DEF ClockInv, ClockTypeOK, ClockWork, SourceAlive
<1> QED BY <1>1, ClockInvariant, PTL

(* Two wait states are set before the PLL can be in use (rcu.cpp:102).     *)
THEOREM WaitStatesSuffice == BoardSpec => []FlashFastEnough
<1>1. ASSUME ClockInv PROVE FlashFastEnough
  <2>1. CASE SWS = "HSI"
    BY <2>1, <1>1 DEF FlashFastEnough, NeededStates, MHz, ClockInv, ClockTypeOK
  <2>2. CASE SWS = "PLL"
    BY <2>2, <1>1 DEF FlashFastEnough, NeededStates, ClockInv, ClockTypeOK, ClockWork
  <2> QED BY <1>1, <2>1, <2>2 DEF ClockInv, ClockTypeOK
<1> QED BY <1>1, ClockInvariant, PTL

(***************************************************************************)
(* Ticks and the gates of the interrupt.                                   *)
(***************************************************************************)
Filled   == {"irq_csr", "irq_mtvec", "timer", "ienr", "mie", "usb_init", "delay", "poll"}
Vectored == Filled \ {"irq_csr", "irq_mtvec"}
Ticking  == {"ienr", "mie", "usb_init", "delay", "poll"}
Clocked  == StageTwo \ {"s2_clock"}

ClosedAt == Places \ {"irq_mtvec", "timer", "ienr", "mie", "usb_init", "delay", "poll"}

OpenAt(gates) ==
  /\ at \in ClosedAt                        => gates = {"INTMASK"}
  /\ at \in {"irq_mtvec", "timer", "ienr"} => gates = {"INTMASK", "MEIE"}
  /\ at = "mie"                            => gates = {"INTMASK", "MEIE", "IENR"}
  /\ at \in {"usb_init", "delay"}          => gates = Gates
  /\ at = "poll"                           => gates \cup {"MIE"} = Gates

Pending == IF SR THEN 1 ELSE 0

TickTypes ==
  /\ vec_table \in {"zero", "filled"} /\ mtvec \in {"start", "vec_table"}
  /\ open \subseteq Gates
  /\ period \in Nat /\ SR \in BOOLEAN
  /\ sys_tick_count \in Nat /\ next \in Nat
  /\ elapsed \in 0 .. MaxTicks /\ lost \in Nat /\ since \in 0 .. MaxTicks

TickWork ==
  /\ TickAccounting
  /\ next <= MaxTicks + Wait
  /\ at \in Filled => vec_table = "filled"
  /\ at \in Vectored => mtvec = "vec_table"
  /\ OpenAt(open)
  /\ at \in Clocked => SystemCoreClock = 144
  /\ period = IF at \in Ticking THEN 144 ELSE 0
  /\ at = "delay" => sys_tick_count + Pending + Wait <= next + (elapsed - since)

TickInv == TickTypes /\ TickWork

USE DEF Filled, Vectored, Ticking, Clocked, ClosedAt, Gates

(* Whatever a reset leaves in the variables of this part.                  *)
LEMMA TickInvReset ==
  ASSUME at = "clk_hsi", TickInit
  PROVE  TickInv
<1>1. TickTypes
  <2>1. open \subseteq Gates /\ SR \in BOOLEAN
    BY DEF TickInit
  <2>2. 0 \in 0 .. MaxTicks
    BY TickAssumption
  <2> QED BY <2>1, <2>2 DEF TickInit, TickTypes
<1>2. OpenAt(open)
  BY DEF TickInit, OpenAt
<1>3. TickWork
  BY <1>2, TickAssumption DEF TickInit, TickWork, TickAccounting
<1> QED BY <1>1, <1>3 DEF TickInv

LEMMA TickInvInit == BoardInit => TickInv
  BY TickInvReset DEF BoardInit, ClockInit

LEMMA TickInvStageOne == ClockInv /\ TickInv /\ StageOneClock /\ UNCHANGED tickVars => TickInv'
<1> SUFFICES ASSUME ClockInv, TickInv, StageOneClock, UNCHANGED tickVars PROVE TickInv'
  OBVIOUS
<1>1. /\ at \in Rising \cup {"decide", "rev_hsi", "rev_select", "rev_off"}
      /\ at' \in Rising \cup {"decide", "rev_hsi", "rev_select", "rev_off", "app"}
  BY DEF StageOneClock, Goes, ClkHsi, ClkSelect, ClkHse, ClkPll, ClkWs, ClkSwitch,
     ToApplication, RevHsi, RevSelect, RevOff
<1> QED BY <1>1 DEF TickInv, TickTypes, TickWork, TickAccounting, OpenAt, Pending

LEMMA TickInvStageTwo == ClockInv /\ TickInv /\ StageTwoStart /\ ~ Deliverable => TickInv'
<1> SUFFICES ASSUME ClockInv, TickInv, StageTwoStart, ~ Deliverable PROVE TickInv'
  OBVIOUS
<1> USE TickAssumption
    DEF TickInv, TickTypes, TickWork, TickAccounting, OpenAt, Pending, Goes, Configures
<1>1. CASE ToStageTwo
  BY <1>1 DEF ToStageTwo
<1>2. CASE lnInitSystemClock_limited
  BY <1>2 DEF lnInitSystemClock_limited
<1>3. CASE FillTable
  BY <1>3 DEF FillTable
<1>4. CASE SetCsrs
  BY <1>4 DEF SetCsrs
<1>5. CASE SetMtvec
  BY <1>5 DEF SetMtvec
<1>6. CASE init_timer_irq
  BY <1>6 DEF init_timer_irq
<1>7. CASE lnEnableInterrupt
  BY <1>7 DEF lnEnableInterrupt
<1>8. CASE lnInterrupts
  BY <1>8 DEF lnInterrupts
<1>9. CASE lnDelay
  <2>1. ~ SR
    BY <1>9 DEF lnDelay, Deliverable
  <2>2. sys_tick_count <= elapsed
    OBVIOUS
  <2> QED BY <1>9, <2>1, <2>2 DEF lnDelay
<1>10. CASE DelayIsOver
  BY <1>10 DEF DelayIsOver
<1> QED BY <1>1, <1>2, <1>3, <1>4, <1>5, <1>6, <1>7, <1>8, <1>9, <1>10 DEF StageTwoStart

LEMMA TickInvTimer == TickInv /\ (TimerMatch \/ systick_isr) => TickInv'
<1> SUFFICES ASSUME TickInv, TimerMatch \/ systick_isr PROVE TickInv'
  OBVIOUS
<1> USE TickAssumption DEF TickInv, TickTypes, TickWork, TickAccounting, OpenAt, Pending
<1>1. CASE TimerMatch
  <2>1. TicksAllowed \in {MaxTicks, StartupTicks + Wait, StartupTicks}
    BY Zenon DEF TicksAllowed
  <2>2. elapsed + 1 <= MaxTicks
    BY <1>1, <2>1 DEF TimerMatch
  <2> QED BY <1>1, <2>2 DEF TimerMatch
<1>2. CASE systick_isr
  <2>1. /\ SR = TRUE /\ SR' = FALSE /\ sys_tick_count' = sys_tick_count + 1
        /\ UNCHANGED <<at, clockVars, irqVars, period, next, elapsed, lost, since>>
    BY <1>2 DEF systick_isr, Deliverable
  <2>2. TickTypes'
    <3>1. SR' \in BOOLEAN
      BY <2>1, Zenon
    <3>2. sys_tick_count' \in Nat
      BY <2>1
    <3> QED BY <2>1, <3>1, <3>2
  <2>3. TickWork'
    BY <2>1
  <2> QED BY <2>2, <2>3
<1> QED BY <1>1, <1>2

LEMMA TickInvRestart == Restart => TickInv'
<1> SUFFICES ASSUME Restart PROVE TickInv'
  OBVIOUS
<1>1. /\ at' = "clk_hsi" /\ vec_table' = "zero" /\ mtvec' = "start" /\ open' = {"INTMASK"}
      /\ period' = 0 /\ SR' = FALSE /\ sys_tick_count' = 0 /\ next' = 0
      /\ elapsed' = 0 /\ lost' = 0 /\ since' = 0
  BY DEF Restart, TickReset
<1>2. TickTypes'
  <2>1. open' \subseteq Gates /\ SR' \in BOOLEAN
    BY <1>1
  <2>2. 0 \in 0 .. MaxTicks
    BY TickAssumption
  <2> QED BY <1>1, <2>1, <2>2 DEF TickTypes
<1>3. OpenAt(open)'
  BY <1>1 DEF OpenAt
<1>4. TickWork'
  BY <1>1, <1>3, TickAssumption DEF TickWork, TickAccounting
<1> QED BY <1>2, <1>4 DEF TickInv

LEMMA TickInvHardware == TickInv /\ ClockHardware /\ UNCHANGED tickVars => TickInv'
  BY DEF ClockHardware, OscillatorReady, OscillatorStops, ClockSwitches,
     TickInv, TickTypes, TickWork, TickAccounting, OpenAt, Pending

LEMMA TickInvSame == TickInv /\ UNCHANGED <<at, clockVars, tickVars>> => TickInv'
  BY DEF TickInv, TickTypes, TickWork, TickAccounting, OpenAt, Pending

(* The flash driver masks and unmasks the timer interrupt.                 *)
LEMMA TickInvMask ==
  ASSUME TickInv, at = "poll", NEW gates \in {open, open \ {"MIE"}, open \cup {"MIE"}},
         MaskAnd(gates)
  PROVE  TickInv'
<1>1. /\ open' = gates
      /\ UNCHANGED <<at, clockVars, vec_table, mtvec, period, SR, sys_tick_count,
                     next, elapsed, lost, since>>
  BY DEF MaskAnd
<1>2. TickTypes'
  BY <1>1 DEF TickInv, TickTypes
<1>3. OpenAt(open)'
  BY <1>1 DEF TickInv, TickWork, OpenAt
<1>4. TickWork'
  BY <1>1, <1>3 DEF TickInv, TickWork, TickAccounting, Pending
<1> QED BY <1>2, <1>4 DEF TickInv

(***************************************************************************)
(* The flash driver: what each place in a call knows of the registers.     *)
(***************************************************************************)
Locked  == {"LK", "FASTUNLOCK"}
Armed   == {"load", "start", "finish"}
Masked  == Armed \cup {"mode"}
Quiet   == {"idle", "unlock", "mode", "load", "start"}

DriverInv ==
  /\ step \in Armed \cup Quiet
  /\ step # "idle" => at = "poll" /\ call \in Calls
  /\ step \in {"idle", "unlock"} => FMC_CTL \in {{}, Locked}
  /\ step = "mode" => FMC_CTL = {}
  /\ step \in Armed => FMC_CTL = {call.mode}
  /\ step \in Masked => "MIE" \notin open
  /\ step \in Quiet => FMC_STAT \cap {"ENDF", "ERR", "BUSY"} = {}
  /\ at \in {"delay", "poll"} /\ step = "idle" => "MIE" \in open

USE DEF Locked, Armed, Masked, Quiet

LEMMA CallModes == \A c \in Calls : c.mode \in Modes
  BY DEF Calls, Modes

LEMMA DriverInvInit == BoardInit => DriverInv
  BY DEF BoardInit, ClockInit, TickInit, FmcInit, DriverInv

LEMMA DriverInvBoot == TickInv /\ DriverInv /\ BootStep => DriverInv'
<1> SUFFICES ASSUME TickInv, DriverInv, BootStep PROVE DriverInv'
  OBVIOUS
<1>1. UNCHANGED fmcVars /\ at # "poll"
  BY DEF BootStep, StageOneClock, StageTwoStart, Goes, Configures, ClkHsi, ClkSelect, ClkHse,
     ClkPll, ClkWs, ClkSwitch, ToApplication, RevHsi, RevSelect, RevOff, ToStageTwo,
     lnInitSystemClock_limited, FillTable, SetCsrs, SetMtvec, init_timer_irq,
     lnEnableInterrupt, lnInterrupts, lnDelay, DelayIsOver
<1>2. step = "idle"
  BY <1>1 DEF DriverInv
<1>3. at' \in {"delay", "poll"} => open' = open /\ open = Gates
  BY DEF BootStep, StageOneClock, StageTwoStart, Goes, Configures, ClkHsi, ClkSelect, ClkHse,
     ClkPll, ClkWs, ClkSwitch, ToApplication, RevHsi, RevSelect, RevOff, ToStageTwo,
     lnInitSystemClock_limited, FillTable, SetCsrs, SetMtvec, init_timer_irq,
     lnEnableInterrupt, lnInterrupts, lnDelay, DelayIsOver, TickInv, TickWork, OpenAt
<1> QED BY <1>1, <1>2, <1>3 DEF DriverInv

LEMMA DriverInvDriver == DriverInv /\ Driver => DriverInv'
<1> SUFFICES ASSUME DriverInv, Driver PROVE DriverInv'
  OBVIOUS
<1> USE DEF DriverInv, MaskAnd, Interrupts
<1>1. ASSUME NEW c \in Calls, Begin(c) PROVE DriverInv'
  BY <1>1 DEF Begin
<1>2. CASE fmc_fast_unlock
  <2>1. FMC_CTL' = {}
    BY <1>2 DEF fmc_fast_unlock
  <2> QED BY <1>2, <2>1 DEF fmc_fast_unlock
<1>3. CASE SelectMode
  <2>1. FMC_CTL' = {call.mode}
    BY <1>3 DEF SelectMode, WriteCtl
  <2> QED BY <1>3, <2>1 DEF SelectMode
<1>4. CASE LoadWord
  BY <1>4 DEF LoadWord
<1>5. CASE StartOperation
  BY <1>5 DEF StartOperation
<1>6. CASE Finish
  <2>1. call \in Calls /\ call.mode \notin Locked /\ FMC_CTL = {call.mode}
    BY <1>6, CallModes DEF Finish, Modes
  <2>2. FMC_CTL' = {}
    BY <1>6, <2>1 DEF Finish, WriteCtl
  <2>3. FMC_STAT' \cap {"ENDF", "ERR", "BUSY"} = {}
    BY <1>6 DEF Finish, ClearedFlags
  <2>4. open' = open \cup {"MIE"} /\ step' = "idle" /\ at' = at
    BY <1>6 DEF Finish, Unmasked
  <2> QED BY <2>2, <2>3, <2>4
<1> QED BY <1>1, <1>2, <1>3, <1>4, <1>5, <1>6 DEF Driver

LEMMA DriverInvElse ==
  ASSUME DriverInv,
         \/ Restart \/ Timer \/ Controller \/ UNCHANGED boardVars
         \/ ClockHardware /\ UNCHANGED <<tickVars, fmcVars>>
  PROVE  DriverInv'
<1> USE DEF DriverInv
<1>1. CASE Restart
  <2>1. step = "idle" /\ step' = "idle"
    BY <1>1 DEF Restart, FmcReset
  <2> QED BY <1>1, <2>1 DEF Restart, FmcReset
<1>2. CASE Timer
  BY <1>2 DEF Timer, TimerMatch, systick_isr
<1>3. CASE Controller
  BY <1>3 DEF Controller, TakeWord, OperationEnds, Interrupts
<1>4. CASE UNCHANGED boardVars
  BY <1>4
<1>5. CASE ClockHardware /\ UNCHANGED <<tickVars, fmcVars>>
  BY <1>5 DEF ClockHardware, OscillatorReady, OscillatorStops, ClockSwitches
<1> QED BY <1>1, <1>2, <1>3, <1>4, <1>5

LEMMA TickInvDriver == TickInv /\ DriverInv /\ Driver => TickInv'
<1> SUFFICES ASSUME TickInv, DriverInv, Driver PROVE TickInv'
  OBVIOUS
<1>1. ASSUME NEW c \in Calls, Begin(c) PROVE TickInv'
  BY <1>1, TickInvMask DEF Begin
<1>2. CASE fmc_fast_unlock
  BY <1>2, TickInvMask DEF fmc_fast_unlock, DriverInv
<1>3. CASE SelectMode \/ LoadWord \/ StartOperation
  BY <1>3, TickInvSame DEF SelectMode, LoadWord, StartOperation, Interrupts
<1>4. CASE Finish
  BY <1>4, TickInvMask DEF Finish, Unmasked, DriverInv
<1> QED BY <1>1, <1>2, <1>3, <1>4 DEF Driver

(***************************************************************************)
(* The three parts are an inductive invariant together.                    *)
(***************************************************************************)
BoardInv == ClockInv /\ TickInv /\ DriverInv

LEMMA BoardInvNext == BoardInv /\ [BoardNext]_boardVars => BoardInv'
<1> SUFFICES ASSUME BoardInv, [BoardNext]_boardVars PROVE BoardInv'
  OBVIOUS
<1>1. ClockInv'
  BY ClockInvNext DEF BoardInv
<1>2. TickInv'
  <2>1. CASE ~ Deliverable /\ BootStep
    BY <2>1, TickInvStageOne, TickInvStageTwo DEF BootStep, BoardInv
  <2>2. CASE Driver
    BY <2>2, TickInvDriver DEF BoardInv
  <2>3. CASE Restart
    BY <2>3, TickInvRestart
  <2>4. CASE Timer
    BY <2>4, TickInvTimer DEF Timer, BoardInv
  <2>5. CASE ClockHardware /\ UNCHANGED <<tickVars, fmcVars>>
    BY <2>5, TickInvHardware DEF BoardInv
  <2>6. CASE Controller
    BY <2>6, TickInvSame DEF Controller, TakeWord, OperationEnds, Interrupts, BoardInv
  <2>7. CASE UNCHANGED boardVars
    BY <2>7, TickInvSame DEF BoardInv
  <2> QED BY <2>1, <2>2, <2>3, <2>4, <2>5, <2>6, <2>7 DEF BoardNext, Program
<1>3. DriverInv'
  BY DriverInvBoot, DriverInvDriver, DriverInvElse DEF BoardInv, BoardNext, Program
<1> QED BY <1>1, <1>2, <1>3 DEF BoardInv

LEMMA BoardInvariant == BoardSpec => []BoardInv
<1>1. BoardInit => BoardInv
  BY ClockInvInit, TickInvInit, DriverInvInit DEF BoardInv
<1> QED BY <1>1, BoardInvNext, PTL DEF BoardSpec

(* No match of the timer disappears unseen, whatever the driver masks      *)
(* (system_timer.cpp:35-40, flash.h:157-164).                              *)
THEOREM EveryMatchIsCounted == BoardSpec => []TickAccounting
<1>1. BoardInv => TickAccounting
  BY DEF BoardInv, TickInv, TickWork
<1> QED BY <1>1, BoardInvariant, PTL

(* The timer's period is a millisecond of the clock stage 1 leaves         *)
(* (rcu.cpp:50-58, 100-109; system_timer.cpp:151-166).                     *)
THEOREM TickIsExact == BoardSpec => []TickIsMillisecond
<1>1. ASSUME BoardInv, period # 0, SWS = SW PROVE period = MHz(SWS)
  <2>1. period = 144 /\ at \in Ticking
    BY <1>1 DEF BoardInv, TickInv, TickWork
  <2>2. SWS = "PLL" /\ pll = FullSpeed
    BY <1>1, <2>1 DEF BoardInv, ClockInv, ClockWork
  <2> QED BY <2>1, <2>2 DEF MHz, Factor
<1> QED BY <1>1, BoardInvariant, PTL DEF TickIsMillisecond

(* The vector base and the table are in place before an interrupt can be   *)
(* taken (stage2_irq.cpp:98-136, dfu.cpp:310-321).                         *)
THEOREM InterruptsFindTheirTable == BoardSpec => []NoStrayInterrupt
<1>1. ASSUME BoardInv, open = Gates PROVE mtvec = "vec_table" /\ vec_table = "filled"
  <2>1. at \in Vectored
    <3>1. at \in Places /\ OpenAt(open)
      BY <1>1 DEF BoardInv, ClockInv, ClockWork, TickInv, TickWork
    <3>2. "MIE" \in open /\ "IENR" \in open
      BY <1>1
    <3> QED BY <3>1, <3>2 DEF OpenAt
  <2> QED BY <1>1, <2>1 DEF BoardInv, TickInv, TickWork
<1>2. BoardInv => NoStrayInterrupt
  BY <1>1 DEF NoStrayInterrupt, Deliverable
<1> QED BY <1>2, BoardInvariant, PTL

(* The wait of usb_init() is never shorter than it says (usb.cpp:305-307,  *)
(* system_timer.cpp:130-137).                                              *)
THEOREM WaitIsWhole == BoardSpec => DelayLongEnough
<1>1. ASSUME BoardInv, [BoardNext]_boardVars, at = "delay", at' = "poll"
      PROVE  elapsed - since >= Wait
  <2>1. sys_tick_count >= next
    BY <1>1 DEF BoardNext, Program, BootStep, StageOneClock, StageTwoStart, Goes, Configures,
       ClkHsi, ClkSelect, ClkHse, ClkPll, ClkWs, ClkSwitch, ToApplication, RevHsi, RevSelect,
       RevOff, ToStageTwo, lnInitSystemClock_limited, FillTable, SetCsrs, SetMtvec,
       init_timer_irq, lnEnableInterrupt, lnInterrupts, lnDelay, DelayIsOver, Restart, Driver,
       Begin, fmc_fast_unlock, SelectMode, LoadWord, StartOperation, Finish, MaskAnd,
       Interrupts, Timer, TimerMatch, systick_isr, Controller, TakeWord, OperationEnds,
       ClockHardware, OscillatorReady, OscillatorStops, ClockSwitches
  <2>2. sys_tick_count + Pending + Wait <= next + (elapsed - since)
    BY <1>1 DEF BoardInv, TickInv, TickWork
  <2>3. Pending \in Nat
    BY DEF Pending
  <2> QED BY <1>1, <2>1, <2>2, <2>3, TickAssumption DEF BoardInv, TickInv, TickTypes
<1>2. BoardInv /\ [BoardNext]_boardVars =>
        [at = "delay" /\ at' = "poll" => elapsed - since >= Wait]_<<at, tickVars>>
  BY <1>1
<1> QED BY <1>2, BoardInvariant, PTL DEF BoardSpec, DelayLongEnough

(* The controller is unlocked, in one mode, with its flags clear and the   *)
(* interrupts masked whenever an operation starts (flash.h:130-164,        *)
(* 177-192, 269-306).                                                      *)
THEOREM OperationsStartClean == BoardSpec => []StartsClean
<1>1. BoardInv => StartsClean
  BY DEF BoardInv, DriverInv, StartsClean
<1> QED BY <1>1, BoardInvariant, PTL

(***************************************************************************)
(* What a call has done to the flash, seen from its end.                   *)
(***************************************************************************)
Ended == "ERR" \notin FMC_STAT /\ "ENDF" \in FMC_STAT

Paid(asIntended) ==
  IF asIntended THEN faults = before.faults
  ELSE before.faults > 0 /\ faults = before.faults - 1

(* Blanked and Disturbances of a flash that held "old".                    *)
BlankedFrom(old, pages) == [q \in Pages |-> IF q \in pages THEN Erased ELSE old[q]]

DisturbedFrom(old, erased, scarred, junk) ==
  [q \in Pages |-> CASE q \in erased  -> Erased
                     [] q \in scarred -> Scarred[old[q]]
                     [] q \in junk    -> Junk
                     [] OTHER         -> old[q]]

ScarrableFrom(old, pages) == {q \in pages : old[q] \in DOMAIN Scarred}

DisturbancesFrom(old, pages) ==
  UNION {UNION {{DisturbedFrom(old, erased, scarred, junk) :
                   junk \in SUBSET (pages \ (erased \cup scarred))} :
                scarred \in SUBSET ScarrableFrom(old, pages \ erased)} :
         erased \in SUBSET pages}

PageErased(p) ==
  \E left \in {Erased, before.flash[p]} \cup Garbled({before.flash[p]}) :
    Paid(left = Erased /\ Ended) /\ flash = [before.flash EXCEPT ![p] = left]

BlockErased(p) ==
  LET block == Span(p, BlockPages)
  IN \/ Paid(TRUE) /\ Ended /\ flash = BlankedFrom(before.flash, block)
     \/ Paid(FALSE) /\ flash \in DisturbancesFrom(before.flash, block)

PageWritten(p, datum) ==
  LET intended == IF before.flash[p] = Erased THEN datum ELSE Junk
  IN \E left \in {intended, before.flash[p]} \cup Garbled({before.flash[p], datum}) :
       Paid(left = intended /\ Ended) /\ flash = [before.flash EXCEPT ![p] = left]

WorkDone ==
  /\ call.mode = "FASTERASE"   => PageErased(call.page)
  /\ call.mode = "BER32"       => BlockErased(call.page)
  /\ call.mode = "FASTPROGRAM" => PageWritten(call.page, call.datum)

EffectInv ==
  /\ flash \in [Pages -> Content] /\ before.flash \in [Pages -> Content]
  /\ step = "idle" => call = NoCall
  /\ step # "finish" \/ "BUSY" \in FMC_STAT =>
       before.flash = flash /\ before.faults = faults
  /\ "BUSY" \in FMC_STAT => FMC_STAT \cap {"ENDF", "ERR"} = {}
  /\ step \in {"idle", "unlock", "mode"} => cached = 0 /\ i = 0
  /\ step = "load" => call.mode = "FASTPROGRAM" /\ cached = i /\ i \in 0 .. Words
  /\ step = "start" => call.mode # "FASTPROGRAM"
  /\ step = "finish" /\ "BUSY" \in FMC_STAT /\ call.mode = "FASTPROGRAM" => cached = Words
  /\ step = "finish" /\ "BUSY" \notin FMC_STAT => cached = 0 /\ WorkDone

LEMMA CallKinds ==
  ASSUME NEW c \in Calls
  PROVE  /\ c.mode \in Modes /\ c.page \in Pages /\ c.page \notin BootPages
         /\ c.mode = "BER32" => c.page % BlockPages = 0
         /\ c.mode = "FASTPROGRAM" => c.datum \in Data
  BY DEF Calls, Modes, AppPages

LEMMA FromHere ==
  ASSUME NEW pages
  PROVE  /\ Blanked(pages) = BlankedFrom(flash, pages)
         /\ Disturbances(pages) = DisturbancesFrom(flash, pages)
<1>1. Blanked(pages) = BlankedFrom(flash, pages)
  BY DEF Blanked, BlankedFrom
<1>2. Disturbances(pages) = DisturbancesFrom(flash, pages)
  BY DEF Disturbances, DisturbancesFrom, Disturbed, DisturbedFrom, Scarrable, ScarrableFrom
<1> QED BY <1>1, <1>2

LEMMA GarbledIsContent ==
  ASSUME NEW contents
  PROVE  Garbled(contents) \subseteq Content
<1>1. Scars(contents) \subseteq Scars(Data)
  BY ContentAssumption DEF Scars
<1> QED BY <1>1 DEF Garbled, Content

LEMMA DisturbedContent ==
  ASSUME flash \in [Pages -> Content], NEW pages, NEW left \in Disturbances(pages)
  PROVE  left \in [Pages -> Content]
<1>1. PICK erased \in SUBSET pages :
        left \in UNION {{Disturbed(erased, scarred, junk) :
                            junk \in SUBSET (pages \ (erased \cup scarred))} :
                         scarred \in SUBSET Scarrable(pages \ erased)}
  BY DEF Disturbances
<1>2. PICK scarred \in SUBSET Scarrable(pages \ erased) :
        left \in {Disturbed(erased, scarred, junk) :
                     junk \in SUBSET (pages \ (erased \cup scarred))}
  BY <1>1
<1>3. PICK junk \in SUBSET (pages \ (erased \cup scarred)) :
        left = Disturbed(erased, scarred, junk)
  BY <1>2
<1>4. \A q \in scarred : q \notin erased /\ q \notin junk /\ Scarred[flash[q]] \in Content
  <2>1. ASSUME NEW q \in scarred PROVE Scarred[flash[q]] \in Scars({flash[q]})
    BY DEF Scars, Scarrable
  <2> QED BY <2>1, GarbledIsContent DEF Garbled, Scarrable
<1>5. Erased \in Content /\ Junk \in Content
  BY DEF Content, Garbled
<1>6. ASSUME NEW q \in Pages
      PROVE  (CASE q \in erased  -> Erased
                [] q \in scarred -> Scarred[flash[q]]
                [] q \in junk    -> Junk
                [] OTHER         -> flash[q]) \in Content
  <2>1. CASE q \in scarred
    BY <1>4, <2>1
  <2>2. CASE q \notin scarred
    BY <1>3, <1>5, <2>2
  <2> QED BY <2>1, <2>2
<1> QED BY <1>3, <1>6 DEF Disturbed

LEMMA OutcomesOf ==
  /\ call.mode = "BER32" =>
       Outcomes = [good |-> Blanked(Span(call.page, BlockPages)),
                   bad  |-> Disturbances(Span(call.page, BlockPages))]
  /\ call.mode = "FASTERASE" =>
       Outcomes = [good |-> [flash EXCEPT ![call.page] = Erased],
                   bad  |-> {flash} \cup {[flash EXCEPT ![call.page] = left] :
                                           left \in Garbled({flash[call.page]})}]
  /\ call.mode = "FASTPROGRAM" =>
       Outcomes = [good |-> [flash EXCEPT ![call.page] =
                       IF cached = Words /\ flash[call.page] = Erased
                       THEN call.datum ELSE Junk],
                   bad  |-> {flash} \cup {[flash EXCEPT ![call.page] = left] :
                              left \in Garbled({flash[call.page], call.datum})}]
<1>1. "BER32" # "FASTERASE" /\ "BER32" # "FASTPROGRAM" /\ "FASTERASE" # "FASTPROGRAM"
  OBVIOUS
<1> QED BY <1>1, Zenon DEF Outcomes

(* The end of an operation that was in progress.                           *)
LEMMA OperationEffect ==
  ASSUME DriverInv, EffectInv, OperationEnds
  PROVE  flash' \in [Pages -> Content] /\ WorkDone'
<1> DEFINE p == call.page
           good == Outcomes.good
<1>1. /\ step = "finish" /\ call \in Calls /\ call' = call /\ before' = before
      /\ before.flash = flash /\ before.faults = faults
      /\ call.mode = "FASTPROGRAM" => cached = Words
  BY DEF OperationEnds, DriverInv, EffectInv
<1>2. PICK left \in {good} \cup Outcomes.bad, raised \in SUBSET {"ENDF", "ERR"} :
        /\ FaultUnless(left = good /\ raised = {"ENDF"})
        /\ flash' = left
        /\ FMC_STAT' = (FMC_STAT \ {"BUSY"}) \cup raised
  BY DEF OperationEnds
<1>3. Ended' <=> raised = {"ENDF"}
  <2>1. FMC_STAT \cap {"ENDF", "ERR"} = {}
    BY DEF EffectInv, OperationEnds
  <2> QED BY <1>2, <2>1 DEF Ended
<1>4. /\ left = good /\ raised = {"ENDF"} => faults' = before'.faults
      /\ ~ (left = good /\ raised = {"ENDF"}) =>
           before'.faults > 0 /\ faults' = before'.faults - 1
  BY <1>1, <1>2 DEF FaultUnless, Fault
<1>5. flash \in [Pages -> Content] /\ p \in Pages
  BY <1>1, CallKinds DEF EffectInv
<1>6. CASE call.mode = "FASTERASE"
  <2>1. good = [flash EXCEPT ![p] = Erased]
    BY <1>6, OutcomesOf
  <2>2. Outcomes.bad = {flash} \cup {[flash EXCEPT ![p] = x] : x \in Garbled({flash[p]})}
    BY <1>6, OutcomesOf
  <2>3. PICK x \in {Erased, flash[p]} \cup Garbled({flash[p]}) : left = [flash EXCEPT ![p] = x]
    <3>1. CASE left = good
      BY <2>1, <3>1
    <3>2. CASE left = flash
      <4>1. flash = [flash EXCEPT ![p] = flash[p]]
        BY <1>5
      <4> QED BY <3>2, <4>1
    <3>3. CASE left \in {[flash EXCEPT ![p] = x] : x \in Garbled({flash[p]})}
      BY <3>3
    <3> QED BY <1>2, <2>2, <3>1, <3>2, <3>3
  <2>4. left = good <=> x = Erased
    <3>1. left[p] = x /\ good[p] = Erased
      BY <1>5, <2>1, <2>3
    <3> HIDE DEF good
    <3> QED BY <2>1, <2>3, <3>1
  <2>5. PageErased(p)'
    BY <1>1, <1>2, <1>3, <1>4, <2>3, <2>4 DEF PageErased, Paid
  <2>6. flash' \in [Pages -> Content]
    <3>1. Erased \in Content
      BY DEF Content
    <3>2. x \in Content
      BY <1>5, <2>3, <3>1, GarbledIsContent
    <3> QED BY <1>2, <1>5, <2>3, <3>2
  <2> QED BY <1>1, <1>6, <2>5, <2>6 DEF WorkDone
<1>7. CASE call.mode = "FASTPROGRAM"
  <2> DEFINE intended == IF flash[p] = Erased THEN call.datum ELSE Junk
  <2>1. good = [flash EXCEPT ![p] = intended]
    BY <1>1, <1>7, OutcomesOf
  <2>2. Outcomes.bad =
          {flash} \cup {[flash EXCEPT ![p] = x] : x \in Garbled({flash[p], call.datum})}
    BY <1>7, OutcomesOf
  <2>3. PICK x \in {intended, flash[p]} \cup Garbled({flash[p], call.datum}) :
          left = [flash EXCEPT ![p] = x]
    BY <1>2, <1>5, <2>1, <2>2
  <2>4. left = good <=> x = intended
    BY <1>5, <2>1, <2>3
  <2>5. PageWritten(p, call.datum)'
    BY <1>1, <1>2, <1>3, <1>4, <2>3, <2>4 DEF PageWritten, Paid
  <2>6. flash' \in [Pages -> Content]
    <3>1. call.datum \in Data
      BY <1>1, <1>7, CallKinds
    <3>2. call.datum \in Content /\ Junk \in Content
      BY <3>1 DEF Content, Garbled
    <3>3. x \in Content
      BY <1>5, <2>3, <3>2, GarbledIsContent
    <3> QED BY <1>2, <1>5, <2>3, <3>3
  <2> QED BY <1>1, <1>7, <2>5, <2>6 DEF WorkDone
<1>8. CASE call.mode = "BER32"
  <2> DEFINE block == Span(p, BlockPages)
  <2>1. good = Blanked(block) /\ Outcomes.bad = Disturbances(block)
    BY <1>8, OutcomesOf
  <2>2. CASE left = good /\ raised = {"ENDF"}
    <3>1. flash' = BlankedFrom(flash, block)
      BY <1>2, <2>1, <2>2, FromHere
    <3>2. BlockErased(p)'
      BY <1>1, <1>3, <1>4, <2>2, <3>1 DEF BlockErased, Paid, BlankedFrom
    <3>3. flash' \in [Pages -> Content]
      BY <1>5, <3>1 DEF BlankedFrom, Content
    <3> QED BY <1>1, <1>8, <3>2, <3>3 DEF WorkDone
  <2>3. CASE ~ (left = good /\ raised = {"ENDF"})
    <3>1. flash' \in Disturbances(block)
      <4>1. CASE left \in Outcomes.bad
        BY <1>2, <2>1, <4>1
      <4>2. CASE left = good
        <5>1. Blanked(block) = Disturbed(block, {}, {})
          BY DEF Blanked, Disturbed
        <5> QED BY <1>2, <2>1, <4>2, <5>1 DEF Disturbances
      <4> QED BY <1>2, <4>1, <4>2
    <3>2. flash' \in DisturbancesFrom(before'.flash, block)
      BY <1>1, <3>1, FromHere
    <3>3. BlockErased(p)'
      BY <1>1, <1>4, <2>3, <3>2 DEF BlockErased, Paid
    <3> QED BY <1>1, <1>5, <1>8, <3>1, <3>3, DisturbedContent DEF WorkDone
  <2> QED BY <2>2, <2>3
<1> QED BY <1>1, <1>6, <1>7, <1>8, CallKinds DEF Modes

LEMMA EffectInvInit == BoardInit => EffectInv
<1> SUFFICES ASSUME BoardInit PROVE EffectInv
  OBVIOUS
<1>1. flash = [p \in Pages |-> IF p \in BootPages THEN BootCode ELSE Erased]
  BY DEF BoardInit, FmcInit, FlashInit
<1>2. flash \in [Pages -> Content]
  BY <1>1 DEF Content
<1>3. before.flash = flash /\ before.faults = faults
  BY DEF BoardInit, FmcInit, Now
<1> QED BY <1>2, <1>3 DEF BoardInit, FmcInit, EffectInv

LEMMA WorkDoneSame ==
  ASSUME WorkDone, UNCHANGED <<flash, faults, call, before>>, Ended' = Ended
  PROVE  WorkDone'
<1>1. CASE call.mode = "FASTERASE"
  <2>1. PageErased(call.page)
    BY <1>1 DEF WorkDone
  <2>2. PageErased(call.page)'
    BY <2>1 DEF PageErased, Paid
  <2> QED BY <1>1, <2>2 DEF WorkDone
<1>2. CASE call.mode = "BER32"
  <2>1. BlockErased(call.page)
    BY <1>2 DEF WorkDone
  <2>2. BlockErased(call.page)'
    <3> DEFINE block == Span(call.page, BlockPages)
    <3>1. /\ call'.page = call.page /\ before'.flash = before.flash
          /\ before'.faults = before.faults /\ faults' = faults /\ flash' = flash
      OBVIOUS
    <3>2. CASE Paid(TRUE) /\ Ended /\ flash = BlankedFrom(before.flash, block)
      <4>1. Ended'
        BY <3>2
      <4> QED BY <3>1, <3>2, <4>1 DEF BlockErased, Paid, BlankedFrom
    <3>3. CASE Paid(FALSE) /\ flash \in DisturbancesFrom(before.flash, block)
      <4>1. flash' \in DisturbancesFrom(before'.flash, Span(call'.page, BlockPages))
        BY <3>1, <3>3
      <4> QED BY <3>1, <3>3, <4>1 DEF BlockErased, Paid
    <3> QED BY <2>1, <3>2, <3>3 DEF BlockErased
  <2> QED BY <1>2, <2>2 DEF WorkDone
<1>3. CASE call.mode = "FASTPROGRAM"
  <2>1. PageWritten(call.page, call.datum)
    BY <1>3 DEF WorkDone
  <2>2. PageWritten(call.page, call.datum)'
    BY <2>1 DEF PageWritten, Paid
  <2> QED BY <1>3, <2>2 DEF WorkDone
<1> QED BY <1>1, <1>2, <1>3 DEF WorkDone

LEMMA EffectInvSame == EffectInv /\ UNCHANGED fmcVars => EffectInv'
<1> SUFFICES ASSUME EffectInv, UNCHANGED fmcVars PROVE EffectInv'
  OBVIOUS
<1>1. WorkDone => WorkDone'
  BY WorkDoneSame DEF Ended
<1> QED BY <1>1 DEF EffectInv

(* A step of the driver other than Finish touches neither the flash nor    *)
(* what is remembered of it.                                               *)
LEMMA EffectInvDriver == DriverInv /\ EffectInv /\ Driver => EffectInv'
<1> SUFFICES ASSUME DriverInv, EffectInv, Driver PROVE EffectInv'
  OBVIOUS
<1> USE FmcAssumption DEF DriverInv, EffectInv
<1>1. ASSUME NEW c \in Calls, Begin(c) PROVE EffectInv'
  BY <1>1 DEF Begin
<1>2. CASE fmc_fast_unlock
  BY <1>2 DEF fmc_fast_unlock
<1>3. CASE SelectMode
  BY <1>3 DEF SelectMode
<1>4. CASE LoadWord
  <2>1. "WR_BUSY" \notin FMC_STAT /\ cached # Words /\ cached' = i' /\ i' \in 0 .. Words
    BY <1>4 DEF LoadWord, CacheFree
  <2> QED BY <1>4, <2>1 DEF LoadWord
<1>5. CASE StartOperation
  <2>1. FMC_CTL \cap Modes # {}
    BY <1>5, CallModes DEF StartOperation
  <2>2. FMC_STAT' = FMC_STAT \cup {"BUSY"} /\ step' = "finish"
    BY <1>5, <2>1 DEF StartOperation
  <2>3. call.mode = "FASTPROGRAM" => cached = Words
    BY <1>5 DEF StartOperation
  <2> QED BY <1>5, <2>2, <2>3 DEF StartOperation
<1>6. CASE Finish
  <2>1. before'.flash = flash' /\ before'.faults = faults'
    BY <1>6 DEF Finish, Now
  <2>2. /\ step' = "idle" /\ call' = NoCall /\ i' = 0 /\ cached' = 0 /\ flash' = flash
        /\ "BUSY" \notin FMC_STAT'
    BY <1>6 DEF Finish
  <2> QED BY <2>1, <2>2
<1> QED BY <1>1, <1>2, <1>3, <1>4, <1>5, <1>6 DEF Driver

LEMMA EffectInvController == DriverInv /\ EffectInv /\ Controller => EffectInv'
<1> SUFFICES ASSUME DriverInv, EffectInv, Controller PROVE EffectInv'
  OBVIOUS
<1>1. CASE TakeWord
  <2>1. /\ FMC_STAT' = FMC_STAT \ {"WR_BUSY"}
        /\ UNCHANGED <<flash, faults, FMC_CTL, cached, call, step, i, result, before>>
    BY <1>1 DEF TakeWord
  <2>2. WorkDone => WorkDone'
    BY <2>1, WorkDoneSame DEF Ended
  <2> QED BY <2>1, <2>2 DEF EffectInv
<1>2. CASE OperationEnds
  <2>1. step = "finish" /\ step' = "finish" /\ before' = before /\ cached' = 0
    BY <1>2 DEF OperationEnds, DriverInv
  <2>2. "BUSY" \notin FMC_STAT'
    BY <1>2 DEF OperationEnds
  <2> QED BY <1>2, <2>1, <2>2, OperationEffect DEF EffectInv
<1> QED BY <1>1, <1>2 DEF Controller

LEMMA EffectInvNext == BoardInv /\ EffectInv /\ [BoardNext]_boardVars => EffectInv'
<1> SUFFICES ASSUME BoardInv, EffectInv, [BoardNext]_boardVars PROVE EffectInv'
  OBVIOUS
<1>1. CASE Driver
  BY <1>1, EffectInvDriver DEF BoardInv
<1>2. CASE Controller
  BY <1>2, EffectInvController DEF BoardInv
<1>3. CASE Restart
  <2>1. step = "idle"
    BY <1>3 DEF Restart, BoardInv, DriverInv
  <2>2. /\ FMC_STAT' = {} /\ cached' = 0 /\ i' = 0
        /\ UNCHANGED <<flash, faults, call, step, result, before>>
    BY <1>3 DEF Restart, FmcReset
  <2> QED BY <2>1, <2>2 DEF EffectInv
<1>4. CASE UNCHANGED fmcVars
  BY <1>4, EffectInvSame
<1> QED BY <1>1, <1>2, <1>3, <1>4 DEF BoardNext, Program, BootStep, Timer

LEMMA EffectInvariant == BoardSpec => []EffectInv
BY BoardInvariant, EffectInvInit, EffectInvNext, PTL DEF BoardSpec

(***************************************************************************)
(* What FlashDevice asks for is what the driver is called with, and its    *)
(* answer is the end of that call.                                         *)
(***************************************************************************)
FlashSeen  == IF step = "idle" THEN flash ELSE before.flash
FaultsSeen == IF step = "idle" THEN faults ELSE before.faults

LEMMA DeviceInitially == BoardInit => Device!DeviceInit
  BY DEF BoardInit, FmcInit, FlashInit, Now, Device!DeviceInit, Device!FlashInit,
     Device!Pages, Pages, Device!BootPages, BootPages, Device!flash_end, flash_end,
     Device!BootEnd, BootEnd

LEMMA FromSeen ==
  ASSUME NEW pages
  PROVE  /\ Device!Blanked(pages) = BlankedFrom(FlashSeen, pages)
         /\ Device!Disturbances(pages) = DisturbancesFrom(FlashSeen, pages)
<1> USE DEF FlashSeen, Device!Pages, Pages, Device!flash_end, flash_end
<1>1. Device!Blanked(pages) = BlankedFrom(FlashSeen, pages)
  BY DEF Device!Blanked, BlankedFrom
<1>2. Device!Disturbances(pages) = DisturbancesFrom(FlashSeen, pages)
  BY DEF Device!Disturbances, DisturbancesFrom, Device!Disturbed, DisturbedFrom,
     Device!Scarrable, ScarrableFrom
<1> QED BY <1>1, <1>2

(* The end of a call answers it, with the effect and the result of its     *)
(* operation.                                                              *)
LEMMA FinishAnswers ==
  ASSUME DriverInv, EffectInv, Finish
  PROVE  Device!Answer(result')
<1> DEFINE p == call.page
<1>1. /\ call \in Calls /\ WorkDone
      /\ FlashSeen = before.flash /\ FaultsSeen = before.faults
      /\ FlashSeen' = flash /\ FaultsSeen' = faults
  BY DEF Finish, DriverInv, EffectInv, FlashSeen, FaultsSeen
<1>2. result' = (Ended /\ (call.mode = "FASTERASE" => flash[p] = Erased))
  BY DEF Finish, Ended, fmc_page_is_erased
<1>3. result' \in BOOLEAN
  BY <1>2, Zenon
<1>4. p \in Pages /\ before.flash \in [Pages -> Content]
  BY <1>1, CallKinds DEF EffectInv
<1>5. Device!BlockPages = BlockPages /\ Device!Span(p, BlockPages) = Span(p, BlockPages)
  BY DEF Device!BlockPages, BlockPages, Device!Span, Span, Device!Pages, Pages,
     Device!flash_end, flash_end
<1>6. ASSUME NEW intended, Paid(intended) PROVE Device!FaultUnless(intended)
  BY <1>1, <1>6 DEF Paid, Device!FaultUnless, Device!Fault, FaultsSeen
<1> SUFFICES Device!Effect(call, result')
  BY <1>1, CallAssumption DEF Device!Answer, Finish
<1> USE DEF Device!Garbled, Garbled, Device!Scars, Scars
<1>7. CASE call.mode = "FASTERASE"
  <2>1. PICK left \in {Erased, before.flash[p]} \cup Garbled({before.flash[p]}) :
          Paid(left = Erased /\ Ended) /\ flash = [before.flash EXCEPT ![p] = left]
    BY <1>1, <1>7 DEF WorkDone, PageErased
  <2>2. flash[p] = left
    BY <1>1, <1>4, <2>1, CallKinds
  <2>3. result' = (Ended /\ left = Erased)
    BY <1>2, <1>7, <2>2
  <2>4. Ended \in BOOLEAN
    BY DEF Ended
  <2>5. Device!FaultUnless(left = Erased /\ Ended)
    BY <1>6, <2>1
  <2>6. Device!fmc_erase_page(p, result')
    BY <1>1, <2>1, <2>3, <2>4, <2>5 DEF Device!fmc_erase_page, FlashSeen
  <2> QED BY <1>7, <2>6 DEF Device!Effect
<1>8. CASE call.mode = "BER32"
  <2> DEFINE block == Span(p, BlockPages)
  <2>1. result' = Ended /\ Ended \in BOOLEAN
    BY <1>2, <1>8 DEF Ended
  <2>2. /\ Device!Blanked(block) = BlankedFrom(before.flash, block)
        /\ Device!Disturbances(block) = DisturbancesFrom(before.flash, block)
    BY <1>1, FromSeen
  <2>3. \/ Paid(TRUE) /\ Ended /\ flash = BlankedFrom(before.flash, block)
        \/ Paid(FALSE) /\ flash \in DisturbancesFrom(before.flash, block)
    BY <1>1, <1>8 DEF WorkDone, BlockErased
  <2>4. Device!fmc_erase_32k(p, result')
    BY <1>1, <1>5, <2>1, <2>2, <2>3
       DEF Device!fmc_erase_32k, Device!Fault, Paid, FlashSeen, FaultsSeen
  <2> QED BY <1>8, <2>4 DEF Device!Effect
<1>9. CASE call.mode = "FASTPROGRAM"
  <2> DEFINE intended == IF before.flash[p] = Erased THEN call.datum ELSE Junk
  <2>1. PICK left \in {intended, before.flash[p]} \cup Garbled({before.flash[p], call.datum}) :
          Paid(left = intended /\ Ended) /\ flash = [before.flash EXCEPT ![p] = left]
    BY <1>1, <1>9 DEF WorkDone, PageWritten
  <2>2. result' = Ended /\ Ended \in BOOLEAN
    BY <1>2, <1>9 DEF Ended
  <2>3. Device!FaultUnless(left = intended /\ Ended)
    BY <1>6, <2>1
  <2>4. Device!fmc_write_block(p, call.datum, result')
    BY <1>1, <2>1, <2>2, <2>3 DEF Device!fmc_write_block, FlashSeen
  <2> QED BY <1>9, <2>4 DEF Device!Effect
<1> QED BY <1>1, <1>7, <1>8, <1>9, CallKinds DEF Modes

LEMMA DeviceStep ==
  ASSUME BoardInv, EffectInv, [BoardNext]_boardVars
  PROVE  Device!DeviceNext \/ UNCHANGED <<FlashSeen, FaultsSeen, call, result>>
<1> USE DEF FlashSeen, FaultsSeen
<1>1. CASE Driver
  <2>1. CASE Finish
    <3>1. result' \in BOOLEAN
      BY <2>1, Zenon DEF Finish
    <3> QED BY <2>1, <3>1, FinishAnswers DEF BoardInv, Device!DeviceNext
  <2>2. ASSUME NEW c \in Calls, Begin(c) PROVE Device!DeviceNext
    <3>1. step = "idle" /\ step' = "unlock" /\ call = NoCall
      BY <2>2 DEF Begin, EffectInv
    <3>2. before.flash = flash /\ before.faults = faults
      BY <3>1 DEF EffectInv
    <3>3. call' = c /\ UNCHANGED <<flash, faults, before, result>>
      BY <2>2 DEF Begin
    <3> QED BY <3>1, <3>2, <3>3 DEF Device!DeviceNext, Device!Ask, Device!flashVars
  <2>3. CASE fmc_fast_unlock \/ SelectMode \/ LoadWord \/ StartOperation
    BY <2>3 DEF fmc_fast_unlock, SelectMode, LoadWord, StartOperation, EffectInv
  <2> QED BY <1>1, <2>1, <2>2, <2>3 DEF Driver
<1>2. CASE Controller
  <2>1. "BUSY" \in FMC_STAT => step = "finish"
    BY DEF BoardInv, DriverInv
  <2> QED BY <1>2, <2>1 DEF Controller, TakeWord, OperationEnds
<1>3. CASE Restart
  BY <1>3 DEF Restart, FmcReset
<1>4. CASE UNCHANGED fmcVars
  BY <1>4
<1> QED BY <1>1, <1>2, <1>3, <1>4 DEF BoardNext, Program, BootStep, Timer

(* The flash driver provides the operations the upper layers count on:     *)
(* each call ends with an effect of the operation asked for, on the page   *)
(* asked for, and returns what belongs to that effect, whatever else the   *)
(* board is doing (flash.h:170-205, 211-238, 265-338).                     *)
THEOREM DriverImplementsDevice == BoardSpec => ImplementsFlashDevice
<1>1. BoardInv /\ EffectInv /\ [BoardNext]_boardVars
        => [Device!DeviceNext]_<<Device!flashVars, call, result>>
  BY DeviceStep DEF Device!flashVars, FlashSeen, FaultsSeen
<1> QED BY <1>1, EffectInvariant, BoardInvariant, DeviceInitially, PTL
        DEF BoardSpec, ImplementsFlashDevice, Device!DeviceSpec

(***************************************************************************)
(* Types.                                                                  *)
(***************************************************************************)
FmcTypes ==
  /\ faults \in 0 .. MaxFaults /\ before.faults \in 0 .. MaxFaults
  /\ FMC_STAT \subseteq Flags
  /\ cached \in 0 .. Words /\ i \in 0 .. Words
  /\ call \in Calls \cup {NoCall} /\ (step = "idle" <=> call = NoCall)
  /\ result \in BOOLEAN

LEMMA FmcTypesSame == FmcTypes /\ UNCHANGED fmcVars => FmcTypes'
  BY DEF FmcTypes

LEMMA FmcTypesDriver ==
  ASSUME FmcTypes, Driver
  PROVE  FmcTypes'
<1> USE DEF FmcTypes
<1>1. ASSUME NEW c \in Calls, Begin(c) PROVE FmcTypes'
  BY <1>1, CallAssumption, FmcAssumption DEF Begin
<1>2. CASE fmc_fast_unlock
  BY <1>2 DEF fmc_fast_unlock
<1>3. CASE SelectMode
  BY <1>3 DEF SelectMode
<1>4. CASE LoadWord
  BY <1>4, FmcAssumption DEF LoadWord, Flags
<1>5. CASE StartOperation
  BY <1>5 DEF StartOperation, Flags
<1>6. CASE Finish
  <2>1. result' \in BOOLEAN /\ before'.faults = faults
    BY <1>6 DEF Finish, Now
  <2> QED BY <1>6, <2>1, FmcAssumption DEF Finish
<1> QED BY <1>1, <1>2, <1>3, <1>4, <1>5, <1>6 DEF Driver

LEMMA FmcTypesController ==
  ASSUME FmcTypes, Controller
  PROVE  FmcTypes'
<1> USE DEF FmcTypes
<1>1. CASE TakeWord
  BY <1>1 DEF TakeWord
<1>2. CASE OperationEnds
  <2>1. faults' \in 0 .. MaxFaults
    BY <1>2, GeometryAssumption DEF OperationEnds, FaultUnless, Fault
  <2>2. FMC_STAT' \subseteq Flags
    BY <1>2 DEF OperationEnds, Flags
  <2> QED BY <1>2, <2>1, <2>2, FmcAssumption DEF OperationEnds
<1> QED BY <1>1, <1>2 DEF Controller

LEMMA FmcTypesNext == FmcTypes /\ [BoardNext]_boardVars => FmcTypes'
<1> SUFFICES ASSUME FmcTypes, [BoardNext]_boardVars PROVE FmcTypes'
  OBVIOUS
<1>1. CASE BootStep
  <2>1. UNCHANGED fmcVars
    BY <1>1 DEF BootStep
  <2> QED BY <2>1, FmcTypesSame
<1>2. CASE Restart
  BY <1>2, FmcAssumption DEF Restart, FmcReset, FmcTypes
<1>3. CASE Timer \/ (ClockHardware /\ UNCHANGED <<tickVars, fmcVars>>) \/ UNCHANGED boardVars
  <2>1. UNCHANGED fmcVars
    BY <1>3 DEF Timer
  <2> QED BY <2>1, FmcTypesSame
<1> QED BY <1>1, <1>2, <1>3, FmcTypesDriver, FmcTypesController DEF BoardNext, Program

(* Clock, tick and flash registers keep their types: no count of ticks or  *)
(* words leaves its range, no flag outside STAT's is ever set, and a call  *)
(* is under way exactly while the driver is busy (rcu.cpp:59-110,          *)
(* system_timer.cpp:35-40, 151-166, flash.h:130-338).                      *)
THEOREM BoardTypeCorrect == BoardSpec => []BoardTypeOK
<1>1. BoardInit => FmcTypes
  <2>1. before = Now /\ Now.faults = faults /\ faults = MaxFaults
        => before.faults \in 0 .. MaxFaults /\ faults \in 0 .. MaxFaults
    BY GeometryAssumption
  <2> QED BY <2>1, FmcAssumption, CallAssumption DEF BoardInit, FmcInit, FlashInit, FmcTypes, Now
<1>2. BoardSpec => []FmcTypes
  BY <1>1, FmcTypesNext, PTL DEF BoardSpec
<1>3. BoardInv /\ EffectInv /\ FmcTypes => BoardTypeOK
  <2> SUFFICES ASSUME BoardInv, EffectInv, FmcTypes PROVE BoardTypeOK
    OBVIOUS
  <2>1. ClockTypeOK
    BY DEF BoardInv, ClockInv
  <2>2. TickTypeOK
    BY TickAssumption DEF BoardInv, TickInv, TickTypes, TickWork, TickAccounting, TickTypeOK
  <2>3. FMC_CTL \subseteq Modes \cup {"LK", "FASTUNLOCK"}
    BY CallModes DEF BoardInv, DriverInv
  <2>4. FmcTypeOK
    BY <2>3 DEF BoardInv, DriverInv, EffectInv, FmcTypes, FmcTypeOK, FlashTypeOK
  <2> QED BY <2>1, <2>2, <2>4 DEF BoardTypeOK
<1> QED BY <1>2, <1>3, BoardInvariant, EffectInvariant, PTL
=============================================================================
