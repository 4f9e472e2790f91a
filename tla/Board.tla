-------------------------------- MODULE Board ------------------------------
(***************************************************************************)
(* The board around the bootloader's logic: the clock tree and the way up  *)
(* and back (Clock), the start of stage 2 and its tick (Tick), and the     *)
(* flash driver under the interrupt mask (Fmc), with the timer, the        *)
(* oscillators and the flash controller running beside the program.  An    *)
(* interrupt is taken before the next instruction of the program.          *)
(***************************************************************************)
EXTENDS Fmc

boardVars == <<at, clockVars, tickVars, fmcVars>>

BoardInit == ClockInit /\ TickInit /\ FmcInit

(* system_reset() in the DFU loop, or a reset while the application runs.  *)
Restart ==
  /\ at = "app" \/ (at = "poll" /\ step = "idle")
  /\ at' = "clk_hsi"
  /\ CTL' = {"HSI"} /\ ready' = {"HSI"}
  /\ CFG0' = NoSettings /\ pll' = NoSettings
  /\ SW' = "HSI" /\ SWS' = "HSI" /\ WS' = 0
  /\ SystemCoreClock' = 0
  /\ TickReset /\ FmcReset

BootStep ==
  \/ StageOneClock /\ UNCHANGED <<tickVars, fmcVars>>
  \/ StageTwoStart /\ UNCHANGED fmcVars

Program == ~ Deliverable /\ (BootStep \/ Driver \/ Restart)

Timer == (TimerMatch \/ systick_isr) /\ UNCHANGED fmcVars

BoardNext ==
  \/ Program
  \/ Timer
  \/ ClockHardware /\ UNCHANGED <<tickVars, fmcVars>>
  \/ Controller

(* The processor runs and takes its interrupts; the timer, the oscillators *)
(* and the controller get on with their work.  Nothing says that the host  *)
(* asks for another flash operation, or for a reset.                       *)
BoardFairness ==
  /\ WF_boardVars(~ Deliverable /\ BootStep)
  /\ WF_boardVars(~ Deliverable /\ step # "idle" /\ Driver)
  /\ WF_boardVars(TimerMatch /\ UNCHANGED fmcVars)
  /\ WF_boardVars(systick_isr /\ UNCHANGED fmcVars)
  /\ \A osc \in Oscillators :
       WF_boardVars(OscillatorReady(osc) /\ UNCHANGED <<tickVars, fmcVars>>)
  /\ WF_boardVars(ClockSwitches /\ UNCHANGED <<tickVars, fmcVars>>)
  /\ WF_boardVars(TakeWord) /\ WF_boardVars(OperationEnds)

BoardSpec == BoardInit /\ [][BoardNext]_boardVars /\ BoardFairness

BoardTypeOK == ClockTypeOK /\ TickTypeOK /\ FmcTypeOK
=============================================================================
