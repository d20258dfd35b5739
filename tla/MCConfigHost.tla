---------------------------- MODULE MCConfigHost ----------------------------
(* ConfigHost for TLC: two rented servers and one on the panel's machine. *)
EXTENDS ConfigHost, TLC

CONSTANTS o1, o2, rented, other, own

MCWinsOf == [s \in Servers |-> s # own]

\* Requests are told apart by nothing else.
RequestSymmetry == Permutations(Ops)

\* A switch, a pull and a refresh: not all three in one behaviour.
FewEvents == count["switch"] + count["pull"] + count["refresh"] <= 2
=============================================================================
