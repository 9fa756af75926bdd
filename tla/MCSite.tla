------------------------------- MODULE MCSite -------------------------------
EXTENDS Site, Layouts
MCAddresses == {Path(<<"blog">>), [Path(<<"old">>) EXCEPT !.slash = TRUE], Path(<<"fr", "post">>)}
\* The visitors are alike.
MCSymmetry == Permutations(Visitor)
=============================================================================
