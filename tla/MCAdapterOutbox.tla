-------------------------- MODULE MCAdapterOutbox --------------------------
(* Model-checking instances of AdapterOutbox. *)
EXTENDS AdapterOutbox, TLC

Workers == Permutations(Worker)
One == {1}
Two == {1, 2}
\* Revision 2 drops a name of revision 1 and adds one.
Renamed == <<{1}, {2}>>
=============================================================================
