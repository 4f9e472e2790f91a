------------------------------- MODULE MCBoard -----------------------------
(* A flash of two bootloader pages and one erase block of two pages; two   *)
(* words to a page; a wait of two ticks.  The contents downloaded may lose *)
(* words no check looks at.                                                *)
EXTENDS Board

CONSTANTS d, scarred

MCScarred == d :> scarred
=============================================================================
