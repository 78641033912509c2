----------------------------- MODULE MCPortPins -----------------------------
(***************************************************************************)
(* Instances of PortPins.                                                   *)
(***************************************************************************)
EXTENDS PortPins

\* One pin whose task may be inverted, and one whose may not.
SomeSettings ==
  {[pin |-> 8, invert |-> FALSE], [pin |-> 8, invert |-> TRUE],
   [pin |-> 9, invert |-> FALSE]}
=============================================================================
