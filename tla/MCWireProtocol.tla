--------------------------- MODULE MCWireProtocol ---------------------------
(* Model-checking instance of WireProtocol: see README for the bounds.     *)
EXTENDS WireProtocol

(* Packages of three bytes: one full package, one and a bit with a field   *)
(* that ends on the border, a value over three packages, two full ones,    *)
(* and one package too many.                                               *)
MCMessages ==
  { [fno |-> 8, ends |-> <<1, 2, 2, 3>>],
    [fno |-> 9, ends |-> <<2, 3, 3, 4>>],
    [fno |-> 10, ends |-> <<1, 2, 6, 7>>],
    [fno |-> 11, ends |-> <<1, 2, 2, 3, 4, 5, 5, 6>>],
    [fno |-> 1, ends |-> <<1, 2>>],
    [fno |-> 6, ends |-> <<1, 2, 9, 10>>] }
=============================================================================
