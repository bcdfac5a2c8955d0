------------------------- MODULE MCFieldCalculation -------------------------
(* Small instances of FieldCalculation for TLC. *)
EXTENDS FieldCalculation, TLC

CONSTANTS p, f, h, np, nf, nh

\* f refers to p by its name and to a name that no field has.  Giving it to f,
\* or to a field h that refers to f, closes a circle.
Stored == [kind |-> "plain", name |-> np, refs |-> {}]
Formula == [kind |-> "formula", name |-> nf, refs |-> {np, nh}]
New == [kind |-> "new", name |-> None, refs |-> {}]
Dangling == {p :> Stored @@ f :> Formula @@ h :> New}

OnlyP == {{p}}
InOrder == p :> 1 @@ f :> 2 @@ h :> 3
Alike == Permutations(Calcs)
=============================================================================
