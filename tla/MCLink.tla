------------------------------- MODULE MCLink ------------------------------
(***************************************************************************)
(* A board of four pages for TLC: two pages per sector, one sector for    *)
(* the bootloader and one for the application.  Image "a" has two pages,   *)
(* "b" one.  A command is one short packet, a block two full packets that  *)
(* fill the receive buffer.                                                *)
(***************************************************************************)
EXTENDS Link

NoScars == [c \in {} |-> Erased]

MCSize == [v \in Versions |-> IF v = "a" THEN 2 ELSE 1]
MCImage == [v \in Versions |-> [k \in 0 .. (MCSize[v] - 1) |-> <<v, k>>]]
MCData == UNION {{<<v, k>> : k \in 0 .. (MCSize[v] - 1)} : v \in Versions}
=============================================================================
