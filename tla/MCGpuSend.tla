------------------------------ MODULE MCGpuSend ------------------------------
EXTENDS SendOffload

\* Two blocks of two units, with transfers that end in a short package so
\* that the second call starts at an odd address and wraps elsewhere.
TwoBlockLengths == {7, 12}
===============================================================================
