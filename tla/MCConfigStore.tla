--------------------------- MODULE MCConfigStore ---------------------------
(* Small instances of ConfigStore for TLC: two kinds of plain fields that    *)
(* validate accepts and one that it refuses, two thresholds.                 *)
EXTENDS ConfigStore, TLC

CONSTANTS good, better, wrong, low, high, w1, w2, x1, x2, x3, x4,
          net1, net2

(* The two kinds of fields have different ports.                             *)
Ports == good :> net1 @@ better :> net2 @@ wrong :> net1

NoBody == [version |-> None, base |-> None, opt |-> None, typeError |-> FALSE]

(* PUT bodies: other fields, a threshold, a version that is newer and no     *)
(* threshold, a threshold together with wrong fields or a wrong type.        *)
AnyPuts == {[NoBody EXCEPT !.base = better], [NoBody EXCEPT !.opt = high],
            [NoBody EXCEPT !.version = 2, !.opt = Null],
            [NoBody EXCEPT !.opt = low, !.base = wrong],
            [NoBody EXCEPT !.opt = low, !.typeError = TRUE]}

(* Bodies that are refused, for their base or their type.                    *)
BadPuts == {[NoBody EXCEPT !.opt = high, !.base = wrong],
            [NoBody EXCEPT !.opt = high, !.typeError = TRUE]}

(* Forms: a threshold, what is not a number, and wrong fields.               *)
AnyForms == {[base |-> good, opt |-> low], [base |-> good, opt |-> NoNumber],
             [base |-> wrong, opt |-> low]}
GoodForms == {[base |-> b, opt |-> t] :
                b \in {good, better}, t \in {low, high}}

OldFile == [version |-> 0, base |-> better, opt |-> low]
NewFile == [version |-> 1, base |-> better, opt |-> low]

AnyWriter == Permutations({w1, w2})
=============================================================================
