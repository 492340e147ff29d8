------------------------------ MODULE MCSgdTrain ------------------------------
EXTENDS SgdTrain

\* Four samples divide among two processes of two threads.  Of three the model
\* program accepts none, and the data program makes two.
BatchSizes == {3, 4}
===============================================================================
