-------------------------------- MODULE SgdData -------------------------------
(***************************************************************************)
(* How the training program reads a dataset (P4_FPGA/sw/src/sgd_pm.cpp,    *)
(* called by Test_sgd_top): a file in libsvm format is loaded line by line *)
(* into an array of samples, each feature is normalised over the samples,  *)
(* and the labels are copied.  What the loops cannot do is run past the    *)
(* arrays: they are of the size the caller names, the file is as it is.    *)
(***************************************************************************)
EXTENDS Integers, Sequences

CONSTANTS
  DataFiles,     \* files: a sequence of lines, and whether a newline ends the last
  DataSamples,   \* numSamples and numFeatures, as the caller may name them
  DataFeatures,
  DataValues     \* values of features

\* A line: its label and its pairs of index and value, the indexes from 1 on
\* and no larger than the number of features the caller names.
ASSUME DataAssumption ==
  /\ DataSamples \subseteq Nat \ {0} /\ DataFeatures \subseteq Nat \ {0}
  /\ DataValues \subseteq Int /\ 0 \in DataValues
  /\ \A f \in DataFiles :
       /\ f.lines \in Seq([label : Int, pairs : Seq(Nat \X DataValues)])
       /\ f.newline \in BOOLEAN

VARIABLES
  file, dr_numSamples, dr_numFeatures,
  dpc,         \* where the program is
  dindex,      \* the line it is at
  line,        \* what getline has left in the string
  dr_a,        \* the features, in one array
  dr_b,        \* labels
  dr_a_norm,   \* for each feature its place between the least and the greatest
  bi_fpga      \* labels for the FPGA

dataVars == <<file, dr_numSamples, dr_numFeatures, dpc, dindex, line, dr_a, dr_b,
              dr_a_norm, bi_fpga>>

NotSet == -99
Left == <<NotSet, 0>>   \* what malloc gave
NoLine == [label |-> NotSet, pairs |-> <<>>]
Places == 0..(dr_numSamples * dr_numFeatures - 1)
Samples == 0..(dr_numSamples - 1)

FitsIn(f, nf) ==
  \A i \in DOMAIN f.lines : \A k \in DOMAIN f.lines[i].pairs : f.lines[i].pairs[k][1] \in 1..nf

DataInit ==
  /\ dr_numSamples \in DataSamples /\ dr_numFeatures \in DataFeatures
  /\ file \in {f \in DataFiles : FitsIn(f, dr_numFeatures)}
  /\ dpc = "alloc" /\ dindex = 0 /\ line = NoLine
  /\ dr_a = <<>> /\ dr_b = <<>> /\ dr_a_norm = <<>> /\ bi_fpga = <<>>

dataArgs == <<file, dr_numSamples, dr_numFeatures>>

\* Three arrays, of which one is cleared; without one of them the program ends
\* where it uses it.  Without the file it goes on, and trains on zeros.
AllocData ==
  /\ dpc = "alloc"
  /\ \/ /\ dpc' \in {"getline", "normalize"}
        /\ dr_a' = [p \in Places |-> 0] /\ dr_b' = [i \in Samples |-> NotSet]
     \/ dpc' = "crashed" /\ UNCHANGED <<dr_a, dr_b>>
  /\ UNCHANGED <<dataArgs, dindex, line, dr_a_norm, bi_fpga>>

\* The string is emptied by a read that finds the end of the file, and kept by
\* one that starts there: after a last line without a newline.
NextLine ==
  IF dindex < Len(file.lines) THEN file.lines[dindex + 1]
  ELSE IF file.newline THEN NoLine ELSE line

\* A line without a label cannot be converted.
GetLine ==
  /\ dpc = "getline" /\ dindex < dr_numSamples
  /\ line' = NextLine
  /\ dpc' = IF NextLine = NoLine THEN "crashed" ELSE "parse"
  /\ UNCHANGED <<dataArgs, dindex, dr_a, dr_b, dr_a_norm, bi_fpga>>

\* mistake: indexes are taken as they are
PlaceAsIs(i, column) == i * dr_numFeatures + column
\* Where a feature of a sample goes.
Place(i, column) == i * dr_numFeatures + column - 1

\* The label, then each pair up to the one after which there is no colon.
ParseLine ==
  LET pairs == line.pairs
      last(p) == {k \in DOMAIN pairs : Place(dindex, pairs[k][1]) = p} IN
  /\ dpc = "parse"
  /\ dr_b' = [dr_b EXCEPT ![dindex] = line.label]
  /\ dr_a' = [p \in Places |->
       IF last(p) = {} THEN dr_a[p] ELSE pairs[CHOOSE k \in last(p) : \A l \in last(p) : l <= k][2]]
  /\ dindex' = dindex + 1 /\ dpc' = "getline"
  /\ UNCHANGED <<dataArgs, line, dr_a_norm, bi_fpga>>

LoadEnds ==
  /\ dpc = "getline" /\ dindex = dr_numSamples /\ dpc' = "normalize"
  /\ UNCHANGED <<dataArgs, dindex, line, dr_a, dr_b, dr_a_norm, bi_fpga>>

-------------------------------------------------------------------------------
(* a_normalize.                                                            *)

Column(j) == {dr_a[i * dr_numFeatures + j] : i \in Samples}

Least(S) == CHOOSE x \in S : \A y \in S : x <= y
\* The greatest starts from the least positive number, which is 0 here.
Greatest(S) == CHOOSE x \in S \cup {0} : \A y \in S \cup {0} : y <= x

\* There is a range unless all values are the same positive one: then the
\* feature keeps what malloc has left there.
HasRange(j) == Least(Column(j)) < Greatest(Column(j)) \/ Least(Column(j)) <= 0

\* A value between the least and the greatest: distance and range; 0 of 0 is
\* the column of zeros.
Between(v, j) == <<v - Least(Column(j)), Greatest(Column(j)) - Least(Column(j))>>

Normalize ==
  /\ dpc = "normalize" /\ dpc' = "labels"
  /\ dr_a_norm' = [p \in Places |->
       LET j == p % dr_numFeatures IN IF HasRange(j) THEN Between(dr_a[p], j) ELSE Left]
  /\ UNCHANGED <<dataArgs, dindex, line, dr_a, dr_b, bi_fpga>>

\* b_copy_to_fpga: dr_bi, which is filled with dr_b, is the label as an integer.
CopyLabels ==
  /\ dpc = "labels" /\ dpc' = "ready"
  /\ bi_fpga' = dr_b
  /\ UNCHANGED <<dataArgs, dindex, line, dr_a, dr_b, dr_a_norm>>

DataNext == AllocData \/ GetLine \/ ParseLine \/ LoadEnds \/ Normalize \/ CopyLabels
DataSpec == DataInit /\ [][DataNext]_dataVars /\ WF_dataVars(DataNext)

-------------------------------------------------------------------------------
(* Properties.                                                             *)

DataTypeOK ==
  /\ dpc \in {"alloc", "getline", "parse", "normalize", "labels", "ready", "crashed"}
  /\ dindex \in 0..dr_numSamples
  /\ dr_a # <<>> => dr_a \in [Places -> DataValues]
  /\ dr_b # <<>> => DOMAIN dr_b = Samples

\* The value the file has for a feature of a sample.
InFile(i, j) ==
  LET pairs == file.lines[i + 1].pairs
      here == {k \in DOMAIN pairs : pairs[k][1] = j + 1} IN
  IF here = {} THEN 0 ELSE pairs[CHOOSE k \in here : \A l \in here : l <= k][2]

\* If the file is there and has the lines the caller names, what is ready to be
\* woven is the file's: each sample with its label, each feature in its order between
\* 0 and 1, no sample's features in another one's place.  Only a feature with
\* the same positive value in all samples is left as malloc gave it.
RowsExact ==
  dpc = "ready" /\ dindex = dr_numSamples /\ Len(file.lines) >= dr_numSamples =>
    \A i \in Samples :
      /\ bi_fpga[i] = file.lines[i + 1].label
      /\ \A j \in 0..(dr_numFeatures - 1) :
           LET column == {InFile(r, j) : r \in Samples}
               norm == dr_a_norm[i * dr_numFeatures + j] IN
           \/ \E v \in column : v > 0 /\ column = {v} /\ norm = Left
           \/ /\ norm[1] \in 0..norm[2]
              /\ norm[1] = InFile(i, j) - Least(column)
              /\ norm[1] = norm[2] => \A v \in column : v <= InFile(i, j)
===============================================================================
