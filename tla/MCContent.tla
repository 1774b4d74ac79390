------------------------------ MODULE MCContent ------------------------------
EXTENDS Content

CONSTANTS k1, ben, cat, dan

Named == [u \in Users |-> k1]
Lists == {<<>>, <<dan>>, <<cat, cat>>, <<ben, cat>>}
=============================================================================
