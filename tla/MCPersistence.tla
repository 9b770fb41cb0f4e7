------------------------------ MODULE MCPersistence ------------------------------
(* Small instances of Persistence: of the names, x and y are not UTF-8 and *)
(* are both read back as u; s is blank.                                    *)
EXTENDS Persistence, TLC

CONSTANTS a, b, u, x, y, s, h

MCCoerce == [n \in Names |-> IF n \in {x, y} THEN u ELSE n]

(* Two states that may or may not be told apart afterwards, a third one    *)
(* with any targets, and maps that New does not accept.                    *)
MCInputs ==
  {a :> A @@ x :> X @@ z :> Z :
     A \in {{x}, {a, x}}, X, Z \in SUBSET {a, x}, z \in {b, y, u}}
  \cup {a :> {x}, a :> {s} @@ s :> {}}
================================================================================
