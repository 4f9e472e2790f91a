------------------------------ MODULE MCUpdate -----------------------------
(***************************************************************************)
(* Two images for TLC: "a" fills a sector and a half, "b" reaches into the *)
(* last sector.  Page contents are pairs <<version, page>>.  The first     *)
(* page of each has a word no check looks at; their sizes are whole words. *)
(***************************************************************************)
EXTENDS Update

MCSize == [v \in Versions |-> IF v = "a" THEN 3 ELSE 5]
MCImage == [v \in Versions |-> [k \in 0 .. (MCSize[v] - 1) |-> <<v, k>>]]
MCData == UNION {{<<v, k>> : k \in 0 .. (MCSize[v] - 1)} : v \in Versions}
MCScarred == [c \in {<<v, 0>> : v \in Versions} |-> <<"scarred", c>>]
=============================================================================
