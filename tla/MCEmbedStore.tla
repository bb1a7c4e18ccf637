---------------------------- MODULE MCEmbedStore ----------------------------
(* EmbedStore for TLC: embeds and deletes are interchangeable.  The lists   *)
(* of places have every set of ids, an id that comes again, and one that is *)
(* blank the second time.                                                   *)
EXTENDS EmbedStore, TLC

CONSTANTS i1, i2

Said(i)  == [id |-> i, blank |-> FALSE]
Blank(i) == [id |-> i, blank |-> TRUE]

MCPlaceLists ==
    {<<Blank(i1)>>, <<Said(i1)>>, <<Said(i2), Blank(i2)>>, <<Said(i1), Said(i2), Said(i1)>>}

Symmetry == Permutations(Embeds) \cup Permutations(Deletes)
=============================================================================
