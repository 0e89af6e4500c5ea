----------------------------- MODULE MCCatalog -----------------------------
EXTENDS Catalog, TLC

CONSTANTS r1, r2, b1, b2

\* One image; two of which the second is refused (twice the same name, or no such
\* blob); two blobs at once; a path.
MCBatches == {<< <<"x", b1>> >>, << <<"y", b1>> >>, << <<"x", b2>>, <<"x", b2>> >>,
              << <<"y", b1>>, <<"x", Missing>> >>, << <<"x", b1>>, <<"y", b2>> >>,
              << <<"x", Placeholder>> >>}

RequestSymmetry == Permutations({r1, r2})
=============================================================================
