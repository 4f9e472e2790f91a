-------------------------------- MODULE Clock ------------------------------
(***************************************************************************)
(* The clock tree (esprit_mini/rcu.cpp and revert_clock_to_hsi() of        *)
(* src_stage1/main.cpp): how stage 1 brings the chip from the internal 8   *)
(* MHz oscillator to 144 MHz, and back before it starts the application.   *)
(*                                                                         *)
(* Outside the repository is the hardware: an oscillator takes its time to *)
(* be ready, the PLL takes over its settings when it is switched on and    *)
(* ignores the registers after that, and the switch asked for in SW is     *)
(* made some time later, as SWS shows.                                     *)
(*                                                                         *)
(* "at" is the place of the program.  Stage 1, here:                       *)
(*   clk_hsi, clk_select, clk_hse, clk_pll, clk_ws, clk_switch             *)
(*                        the steps of lnInitSystemClock()                 *)
(*   decide               stage 1 chooses between the two ways on          *)
(*   rev_hsi, rev_select, rev_off   the steps of revert_clock_to_hsi()     *)
(*   app                  the application runs                             *)
(***************************************************************************)
EXTENDS Integers

Oscillators == {"HSI", "HSE", "PLL"}

VARIABLES
  at,
  CTL,               \* RCU: the oscillators switched on
  ready,             \* RCU: those that are ready (IRC8MSTB, HXTASTB, PLLSTB)
  CFG0,              \* RCU: PLLSEL and PLLMUL
  pll,               \* the settings the running PLL works with
  SW, SWS,           \* RCU: system clock asked for, and in use
  WS,                \* FMC: wait states
  SystemCoreClock    \* MHz

rcuVars   == <<CTL, ready, CFG0, pll, SW, SWS, WS>>
clockVars == <<rcuVars, SystemCoreClock>>

Settings == [external : BOOLEAN, mul : 0 .. 15]

(* Multipliers[]: the field for a multiplier.                              *)
Multipliers ==
  [m \in 0 .. 18 |-> CASE m < 2 -> 0 [] m \in 2 .. 16 -> m - 2
                       [] m = 17 -> 14 [] OTHER -> 15]

(* What the hardware makes of the field (external): x2 .. x16, x18.        *)
Factor(field) == IF field = 15 THEN 18 ELSE field + 2

MHz(osc) ==
  IF osc = "PLL" THEN Factor(pll.mul) * (IF pll.external THEN 8 ELSE 4) ELSE 8

ClockTypeOK ==
  /\ CTL \subseteq Oscillators /\ ready \subseteq Oscillators
  /\ CFG0 \in Settings /\ pll \in Settings
  /\ SW \in {"HSI", "PLL"} /\ SWS \in {"HSI", "PLL"}
  /\ WS \in 0 .. 2
  /\ SystemCoreClock \in Nat

NoSettings == [external |-> FALSE, mul |-> 0]

(* After a reset.                                                          *)
RcuReset ==
  /\ CTL = {"HSI"} /\ ready = {"HSI"}
  /\ CFG0 = NoSettings /\ pll = NoSettings
  /\ SW = "HSI" /\ SWS = "HSI" /\ WS = 0

ClockInit == at = "clk_hsi" /\ RcuReset /\ SystemCoreClock = 0

(***************************************************************************)
(* The hardware (external).                                                *)
(***************************************************************************)
OscillatorReady(osc) ==
  /\ osc \in CTL \ ready
  /\ osc = "PLL" => (IF pll.external THEN "HSE" ELSE "HSI") \in ready
  /\ ready' = ready \cup {osc}
  /\ UNCHANGED <<at, CTL, CFG0, pll, SW, SWS, WS, SystemCoreClock>>

OscillatorStops(osc) ==
  /\ osc \in ready \ CTL
  /\ ready' = ready \ {osc}
  /\ UNCHANGED <<at, CTL, CFG0, pll, SW, SWS, WS, SystemCoreClock>>

ClockSwitches ==
  /\ SWS # SW /\ SW \in ready /\ SWS' = SW
  /\ UNCHANGED <<at, CTL, ready, CFG0, pll, SW, WS, SystemCoreClock>>

ClockHardware ==
  \/ \E osc \in Oscillators : OscillatorReady(osc) \/ OscillatorStops(osc)
  \/ ClockSwitches

(***************************************************************************)
(* lnInitSystemClock().                                                    *)
(***************************************************************************)
Goes(from, to) == at = from /\ at' = to

ClkHsi ==
  /\ Goes("clk_hsi", "clk_select")
  /\ CTL' = CTL \cup {"HSI"}
  /\ UNCHANGED <<ready, CFG0, pll, SW, SWS, WS, SystemCoreClock>>

(* waitControlBit(IRC8MSTB).  The loop after the selection reads SW back,  *)
(* not SWS: it waits for nothing.                                          *)
ClkSelect ==
  /\ Goes("clk_select", "clk_hse") /\ "HSI" \in ready
  /\ SW' = "HSI"
  /\ CTL' = (CTL \ {"HSE", "PLL"}) \cup {"HSE"}
  /\ UNCHANGED <<ready, CFG0, pll, SWS, WS, SystemCoreClock>>

(* Mutant: the source bit is lost while the multiplier is set.             *)
setPll_Internal(multiplier, external) ==
  /\ CFG0' = [external |-> FALSE, mul |-> Multipliers[multiplier]]
  /\ CTL' = CTL \cup {"PLL"}
  /\ pll' = IF "PLL" \in CTL THEN pll ELSE CFG0'

setPll(multiplier, external) ==
  /\ CFG0' = [external |-> external, mul |-> Multipliers[multiplier]]
  /\ CTL' = CTL \cup {"PLL"}
  /\ pll' = IF "PLL" \in CTL THEN pll ELSE CFG0'

ClkHse ==
  /\ Goes("clk_hse", "clk_pll") /\ "HSE" \in ready
  /\ setPll(144 \div 8, TRUE)
  /\ UNCHANGED <<ready, SW, SWS, WS, SystemCoreClock>>

ClkPll ==
  /\ Goes("clk_pll", "clk_ws") /\ "PLL" \in ready
  /\ SystemCoreClock' = 8 * (144 \div 8)
  /\ UNCHANGED rcuVars

(* Mutant: the wait states are left for later.                             *)
ClkWs_Late ==
  /\ Goes("clk_ws", "clk_switch")
  /\ UNCHANGED clockVars

ClkWs ==
  /\ Goes("clk_ws", "clk_switch")
  /\ WS' = 2
  /\ UNCHANGED <<CTL, ready, CFG0, pll, SW, SWS, SystemCoreClock>>

(* Again the loop that follows reads SW.                                   *)
ClkSwitch ==
  /\ Goes("clk_switch", "decide")
  /\ SW' = "PLL"
  /\ UNCHANGED <<CTL, ready, CFG0, pll, SWS, WS, SystemCoreClock>>

(***************************************************************************)
(* revert_clock_to_hsi(), on the way to the application.                   *)
(***************************************************************************)
ToApplication == Goes("decide", "rev_hsi") /\ UNCHANGED clockVars

RevHsi ==
  /\ Goes("rev_hsi", "rev_select")
  /\ CTL' = CTL \cup {"HSI"}
  /\ UNCHANGED <<ready, CFG0, pll, SW, SWS, WS, SystemCoreClock>>

RevSelect ==
  /\ Goes("rev_select", "rev_off") /\ "HSI" \in ready
  /\ CFG0' = NoSettings /\ SW' = "HSI"
  /\ UNCHANGED <<CTL, ready, pll, SWS, WS, SystemCoreClock>>

(* Mutant: waits for SW as lnInitSystemClock() does.                       *)
SwitchSeen_Sw == SW = "HSI"

(* Here it is SWS (0x0C) that is waited for.                               *)
SwitchSeen == SWS = "HSI"

RevOff ==
  /\ Goes("rev_off", "app") /\ SwitchSeen
  /\ CTL' = CTL \ {"HSE", "PLL"}
  /\ UNCHANGED <<ready, CFG0, pll, SW, SWS, WS, SystemCoreClock>>

StageOneClock ==
  \/ ClkHsi \/ ClkSelect \/ ClkHse \/ ClkPll \/ ClkWs \/ ClkSwitch
  \/ ToApplication \/ RevHsi \/ RevSelect \/ RevOff

(***************************************************************************)
(* Properties.                                                             *)
(***************************************************************************)

(* The core is never without a clock: the source in use is on and ready,   *)
(* though a switch is made later than it is asked for (rcu.cpp:59-110,     *)
(* main.cpp:87-111).                                                       *)
SourceAlive == SWS \in CTL /\ SWS \in ready

(* At no moment does the core fetch from the flash with too few wait       *)
(* states: one per 48 MHz and two above 72 (rcu.cpp:100-109,               *)
(* lnFMC_priv.h:44-46).                                                    *)
NeededStates(mhz) == IF mhz > 72 THEN 2 ELSE IF mhz > 48 THEN 1 ELSE 0

FlashFastEnough == WS >= NeededStates(MHz(SWS))
=============================================================================
