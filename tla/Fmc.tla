--------------------------------- MODULE Fmc -------------------------------
(***************************************************************************)
(* The flash driver at the level of the FMC registers (src_stage2/flash.h),*)
(* with the interrupts masked around each operation.  The controller is    *)
(* outside the repository: it ignores writes to CTL while it is locked,    *)
(* works on its own once started, takes the words of a page one by one,    *)
(* reports in STAT, and may misbehave as in Flash.                         *)
(*                                                                         *)
(* "step" is the place in the running call:                                *)
(*   idle     no call                                                      *)
(*   unlock   about to unlock the controller                               *)
(*   mode     about to select fast erase, block erase or fast program      *)
(*   load     filling the write cache, word i                              *)
(*   start    about to start the operation                                 *)
(*   finish   waiting for the end of it                                    *)
(***************************************************************************)
EXTENDS Tick, Flash

CONSTANTS
  Words,       \* words in a page: 64
  NoCall

ASSUME FmcAssumption == Words \in Nat \ {0}

Flags == {"BUSY", "WR_BUSY", "ERR", "ENDF"}     \* ERR: PG_ERR or WP_ERR
Modes == {"FASTERASE", "BER32", "FASTPROGRAM"}

VARIABLES
  FMC_CTL,     \* the Modes, LK and FASTUNLOCK
  FMC_STAT,
  cached,      \* words the write cache has taken
  call,        \* the running call
  step, i,     \* where it is
  result,      \* what the last one returned
  before       \* history: the flash and the faults left when it began

fmcRegs == <<FMC_CTL, FMC_STAT, cached>>
fmcVars == <<flashVars, fmcRegs, call, step, i, result, before>>

AppPages == Pages \ BootPages

Calls ==
  [mode : {"FASTERASE"}, page : AppPages]
    \cup [mode : {"BER32"}, page : {p \in AppPages : p % BlockPages = 0}]
    \cup [mode : {"FASTPROGRAM"}, page : AppPages, datum : Data]

ASSUME CallAssumption == NoCall \notin Calls

Now == [flash |-> flash, faults |-> faults]

FmcTypeOK ==
  /\ FlashTypeOK
  /\ FMC_CTL \subseteq Modes \cup {"LK", "FASTUNLOCK"}
  /\ FMC_STAT \subseteq Flags
  /\ cached \in 0 .. Words /\ i \in 0 .. Words
  /\ call \in Calls \cup {NoCall} /\ (step = "idle" <=> call = NoCall)
  /\ step \in {"idle", "unlock", "mode", "load", "start", "finish"}
  /\ result \in BOOLEAN
  /\ before.flash \in [Pages -> Content] /\ before.faults \in 0 .. MaxFaults

FmcInit ==
  /\ FlashInit
  /\ FMC_CTL = {"LK", "FASTUNLOCK"} /\ FMC_STAT = {} /\ cached = 0
  /\ call = NoCall /\ step = "idle" /\ i = 0
  /\ result = TRUE /\ before = Now

(* A reset between two calls.                                              *)
FmcReset ==
  /\ FMC_CTL' = {"LK", "FASTUNLOCK"} /\ FMC_STAT' = {} /\ cached' = 0
  /\ i' = 0
  /\ UNCHANGED <<flashVars, call, step, result, before>>

MaskAnd(gates) ==
  /\ open' = gates
  /\ UNCHANGED <<at, clockVars, vec_table, mtvec, period, SR, sys_tick_count,
                 next, elapsed, lost, since>>

Interrupts == UNCHANGED <<at, clockVars, tickVars>>

(* A write to CTL by the program.                                          *)
WriteCtl(value) ==
  FMC_CTL' = IF FMC_CTL \cap {"LK", "FASTUNLOCK"} = {} THEN value ELSE FMC_CTL

(***************************************************************************)
(* The driver.  The erase functions mask first, fmc_write() unlocks first. *)
(***************************************************************************)
Begin(c) ==
  /\ at = "poll" /\ step = "idle"
  /\ call' = c /\ step' = "unlock" /\ i' = 0
  /\ MaskAnd(IF c.mode = "FASTPROGRAM" THEN open ELSE open \ {"MIE"})
  /\ UNCHANGED <<flashVars, fmcRegs, result, before>>

fmc_fast_unlock ==
  /\ step = "unlock" /\ step' = "mode"
  /\ FMC_CTL' = FMC_CTL \ {"LK", "FASTUNLOCK"}
  /\ MaskAnd(open \ {"MIE"})
  /\ UNCHANGED <<flashVars, FMC_STAT, cached, call, i, result, before>>

SelectMode ==
  /\ step = "mode"
  /\ WriteCtl(FMC_CTL \cup {call.mode})
  /\ step' = IF call.mode = "FASTPROGRAM" THEN "load" ELSE "start"
  /\ Interrupts
  /\ UNCHANGED <<flashVars, FMC_STAT, cached, call, i, result, before>>

(* Mutant: the next word is written without the wait.                      *)
CacheFree_Always == TRUE

CacheFree == FMC_STAT \cap {"BUSY", "WR_BUSY"} = {}

(* One word; the controller drops it while it is still at the last one.    *)
LoadWord ==
  /\ step = "load" /\ i < Words /\ CacheFree
  /\ i' = i + 1
  /\ cached' = IF "WR_BUSY" \in FMC_STAT \/ cached = Words THEN cached ELSE cached + 1
  /\ FMC_STAT' = FMC_STAT \cup {"WR_BUSY"}
  /\ Interrupts
  /\ UNCHANGED <<flashVars, FMC_CTL, call, step, result, before>>

(* START or FASTSTART: the controller works if a mode is selected.         *)
StartOperation ==
  /\ step = "start" \/ (step = "load" /\ i = Words /\ CacheFree)
  /\ step' = "finish"
  /\ FMC_STAT' = IF FMC_CTL \cap Modes # {} THEN FMC_STAT \cup {"BUSY"} ELSE FMC_STAT
  /\ Interrupts
  /\ UNCHANGED <<flashVars, FMC_CTL, cached, call, i, result, before>>

(* Mutant: the error flags are left to the next call.                      *)
ClearedFlags_EndOnly == {"ENDF"}

(* Whichever of them are set, they are cleared by writing them back.       *)
ClearedFlags == {"ENDF", "ERR"}

(* Mutant: the failing ways out leave the interrupts masked.               *)
Unmasked_OnSuccess(ok) == IF ok THEN open \cup {"MIE"} ELSE open

Unmasked(ok) == open \cup {"MIE"}

(* Read STAT, clear it, leave the mode; a page erase reads the page back.  *)
Finish ==
  LET good == "ERR" \notin FMC_STAT /\ "ENDF" \in FMC_STAT
      ok   == good /\ (call.mode = "FASTERASE" => fmc_page_is_erased(call.page))
  IN /\ step = "finish" /\ "BUSY" \notin FMC_STAT
     /\ FMC_STAT' = FMC_STAT \ ClearedFlags
     /\ WriteCtl(FMC_CTL \ {call.mode})
     /\ result' = ok
     /\ call' = NoCall /\ step' = "idle" /\ i' = 0
     /\ MaskAnd(Unmasked(ok))
     /\ before' = Now
     /\ UNCHANGED <<flashVars, cached>>

Driver ==
  \/ \E c \in Calls : Begin(c)
  \/ fmc_fast_unlock \/ SelectMode \/ LoadWord \/ StartOperation \/ Finish

(***************************************************************************)
(* The controller (external).                                              *)
(***************************************************************************)
TakeWord ==
  /\ "WR_BUSY" \in FMC_STAT /\ FMC_STAT' = FMC_STAT \ {"WR_BUSY"}
  /\ Interrupts
  /\ UNCHANGED <<flashVars, FMC_CTL, cached, call, step, i, result, before>>

(* The contents an operation may leave in its pages.                       *)
Outcomes ==
  LET p == call.page
      block == Span(p, BlockPages)
      bad(contents) == {flash} \cup {[flash EXCEPT ![p] = left] : left \in Garbled(contents)}
      whole == IF cached = Words /\ flash[p] = Erased THEN call.datum ELSE Junk
  IN CASE call.mode = "BER32" ->
            [good |-> Blanked(block), bad |-> Disturbances(block)]
       [] call.mode = "FASTERASE" ->
            [good |-> [flash EXCEPT ![p] = Erased], bad |-> bad({flash[p]})]
       [] OTHER ->
            [good |-> [flash EXCEPT ![p] = whole], bad |-> bad({flash[p], call.datum})]

OperationEnds ==
  /\ "BUSY" \in FMC_STAT
  /\ \E left \in {Outcomes.good} \cup Outcomes.bad, raised \in SUBSET {"ENDF", "ERR"} :
       /\ FaultUnless(left = Outcomes.good /\ raised = {"ENDF"})
       /\ flash' = left
       /\ FMC_STAT' = (FMC_STAT \ {"BUSY"}) \cup raised
  /\ cached' = 0
  /\ Interrupts
  /\ UNCHANGED <<FMC_CTL, call, step, i, result, before>>

Controller == TakeWord \/ OperationEnds

(***************************************************************************)
(* Properties.                                                             *)
(***************************************************************************)

(* An operation is started on a controller that is unlocked, in one mode,  *)
(* with no flag of an earlier one, while nothing can interrupt; between    *)
(* two calls the interrupts are on (flash.h:130-164, 177-192, 269-306).    *)
StartsClean ==
  /\ step \in {"start", "load", "finish"} =>
       FMC_CTL = {call.mode} /\ "MIE" \notin open
  /\ step \in {"start", "load"} => FMC_STAT \cap {"ENDF", "ERR"} = {}
  /\ at = "poll" /\ step = "idle" => "MIE" \in open

Device == INSTANCE FlashDevice
  WITH flash  <- IF step = "idle" THEN flash ELSE before.flash,
       faults <- IF step = "idle" THEN faults ELSE before.faults

(* The driver does what its callers build on.  Seen from outside, every    *)
(* call ends once, with one of the effects Flash lists for that operation  *)
(* on that page, and returns what belongs to that effect: TRUE without a   *)
(* fault of the controller means that the page or block asked for has been *)
(* erased, or an erased page programmed; FALSE that the controller         *)
(* misbehaved; an old flag or a lost word changes neither                  *)
(* (flash.h:170-205, 211-238, 265-338).                                    *)
ImplementsFlashDevice == Device!DeviceSpec
=============================================================================
