------------------------------ MODULE DfuDetach -----------------------------
(***************************************************************************)
(* The DFU state machine with the time a DETACH request names: wTimeout    *)
(* milliseconds (wValue, read at dfu.cpp:62), of which the code keeps      *)
(* nothing.  It is for what a comment says of that time.                   *)
(***************************************************************************)
EXTENDS Dfu

CONSTANT MaxTimeout     \* largest wTimeout: 65535

VARIABLE timeout        \* history: what is left of the time of the DETACH

timedVars == <<vars, timeout>>

DetachInit == Init /\ timeout = 0

DetachAfter(n) == Detach /\ timeout' = n

Millisecond ==
  /\ state = "APP_DETACH"
  /\ timeout > 0 /\ timeout' = timeout - 1
  /\ UNCHANGED vars

DetachNext ==
  \/ \E n \in 0 .. MaxTimeout : DetachAfter(n)
  \/ Millisecond
  \/ Next /\ UNCHANGED timeout

DetachSpec == DetachInit /\ [][DetachNext]_timedVars

(* dfu.cpp:71: "Non-zero timeout: signal detach, the main loop will jump   *)
(* to the application after the timeout expires".  What the main loop does *)
(* with APP_DETACH is to reset (dfu.cpp:347-350).                          *)
DetachWaits ==
  [][state = "APP_DETACH" /\ pc # "reset" /\ pc' = "reset" => timeout = 0]_timedVars
=============================================================================
