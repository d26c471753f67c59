------------------------ MODULE MCFramebufferLayout ------------------------
EXTENDS FramebufferLayout, TLC

Span(s, e) == [start |-> s, end |-> e]

\* Tilings of one, two and three pixels, a gap, and a range whose end is in
\* front of its start.
SomeRanges == {Span(0, 0), Span(0, 1), Span(1, 2), Span(2, 0)}

Symmetry == Permutations(Ids)
===========================================================================
