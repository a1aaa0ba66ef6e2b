------------------------------ MODULE MCTraps ------------------------------
(* Module Traps with words of eight bits, one line of each kind (timer, keyboard, *)
(* the spurious ones and the first of the slave) and two settings of the masks.   *)
EXTENDS Traps

Masks == {<<0, 0>>, <<128, 1>>}
============================================================================
