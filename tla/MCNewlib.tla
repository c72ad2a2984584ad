------------------------------ MODULE MCNewlib ------------------------------
EXTENDS Newlib

\* A cfg has no negative numbers.  The largest overflows unless the break is 0,
\* where it is refused.
MCIncrements == {-1, 0, 2, 7}
=============================================================================
