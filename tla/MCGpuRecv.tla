------------------------------ MODULE MCGpuRecv ------------------------------
EXTENDS GpuRecv

\* accept sets the record to 1; connect leaves what fresh memory holds.
Records == {0, 1}

\* Calls of whole packets; calls that end in a short one and of which two
\* fill a lap; and calls that end in a short one and cut each lap anew.
Lengths == {6, 7, 4}

\* A packet without payload, a short one, a whole one, one of half the ring,
\* and one that ends past it.
Words == {2, 4, 5, 13, 40}
===============================================================================
