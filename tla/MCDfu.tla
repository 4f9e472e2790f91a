------------------------------- MODULE MCDfu -------------------------------
(***************************************************************************)
(* A small board for TLC: sectors of two pages, 32 KB blocks of two        *)
(* sectors, one bootloader sector in the block it shares with the first    *)
(* application sector, three application sectors, blocks of two pages.     *)
(* Nobody here looks at less than a page: garbled pages are all alike.     *)
(***************************************************************************)
EXTENDS Dfu

NoScars == [c \in {} |-> Erased]
=============================================================================
