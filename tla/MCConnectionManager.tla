------------------------- MODULE MCConnectionManager -------------------------
(***************************************************************************)
(* Instances of ConnectionManager for TLC.  laptop1 and laptop2 are two    *)
(* connections of one user under one device name (a reconnect, or two      *)
(* processes with the same name), desktop another device of that user, and *)
(* other a connection of another user.                                     *)
(*                                                                         *)
(* The name of the desktop is that of the laptop with an underscore after  *)
(* it.  The agents have the tool t of a server s, and may have it of a     *)
(* server _s and the tool s__t of a server l.  So l and _s__t make the     *)
(* name that l_ and s__t make, and l and s__t make a tool's own name.      *)
(***************************************************************************)
EXTENDS ConnectionManager, TLC

CONSTANTS alice, bob, laptop1, laptop2, desktop, other, r1, r2

Laptop == <<"l">>
Desktop == <<"l", "_">>
Tool == <<"s", "_", "_", "t">>
OfUnderscore == <<"_">> \o Tool
OfLaptop == <<"l", "_", "_">> \o Tool

MCUserOf == [c \in Conns |-> IF c = other THEN bob ELSE alice]
MCNameOf == [c \in Conns |-> IF c = desktop THEN Desktop ELSE Laptop]
MCCallerOf == [r \in Reqs |-> IF r = r1 THEN alice ELSE bob]

OneName == {Laptop}
TwoNames == {Laptop, Desktop}
OneTool == {Tool}
ThreeTools == {Tool, OfUnderscore, OfLaptop}
OneToolLists == SUBSET OneTool
ThreeToolLists == {{Tool, OfUnderscore}, {OfUnderscore, OfLaptop}}

\* The two connections of the laptop are alike.
LaptopSymmetry == Permutations({laptop1, laptop2})

=============================================================================
