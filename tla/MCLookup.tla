------------------------------ MODULE MCLookup ------------------------------
(* Ids of three bits, looked up for the target 5. *)
EXTENDS Lookup, Bitwise

SomeIds == {1, 2, 3, 4, 6}

Distance == [i \in Ids |-> i ^^ 5]

\* 3 and 4 are two identities behind one address.
Address == [i \in Ids |-> IF i = 3 THEN 4 ELSE i]

FromTable == {1, 6}

Lists == {{}, {2, 4}, {3, 6}, {3, 4}}

OneImpostor == {6}
=============================================================================
