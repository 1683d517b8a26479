--------------------------- MODULE MCCorpusRebuild ---------------------------
(* Small instances of CorpusRebuild for TLC.                                *)
EXTENDS CorpusRebuild, TLC

CONSTANTS a, b, v1, v2

Doc(n, t) == [name |-> n, text |-> t]

GroupWithOne == {Doc(a, v1)}

(* One drop that replaces a document and adds one, from two files.          *)
MixedDrop == {<< <<Doc(a, v2)>>, <<Doc(b, v1)>> >>}

(* The same from the rows of one CSV file, too.                             *)
DistinctDrops == MixedDrop \union {<< <<Doc(a, v2), Doc(b, v1)>> >>}

(* Two files of the same name, from two folders.                            *)
TwinDrop == {<< <<Doc(b, v1)>>, <<Doc(b, v2)>> >>}

NoInputs == {}
=============================================================================
