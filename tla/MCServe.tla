------------------------------ MODULE MCServe ------------------------------
(* Two calls with the same arguments, and the widget of each.                *)
EXTENDS Serve
CONSTANTS h1, c1, c2, w1, w2, d1
MCArgsOf == [c \in Call |-> d1]
MCCallOf == [w \in Widget |-> IF w = w1 THEN c1 ELSE c2]
=============================================================================
