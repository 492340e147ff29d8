-------------------------- MODULE SwitchReduceProofs --------------------------
(***************************************************************************)
(* Proofs about SwitchReduce for every number of workers, width of the     *)
(* counter, number of rounds and length of the links that meet the         *)
(* module's assumptions.                                                   *)
(***************************************************************************)
EXTENDS SwitchReduce, FiniteSetTheorems, TLAPS

-------------------------------------------------------------------------------
(* Arithmetic.                                                             *)

LEMMA DivMod ==
  ASSUME NEW a \in Nat, NEW m \in Nat \ {0}
  PROVE  a = m * (a \div m) + (a % m)
  BY Z3

LEMMA ModUnique ==
  ASSUME NEW q \in Nat, NEW m \in Nat \ {0}, NEW r \in 0..(m - 1)
  PROVE  (m * q + r) % m = r
  OBVIOUS

LEMMA ModSmall ==
  ASSUME NEW n \in Nat \ {0}, NEW b \in 0..n
  PROVE  b % n = IF b = n THEN 0 ELSE b
<1>1. CASE b = n
  <2>1. n = n * 1 + 0 /\ 0 \in 0..(n - 1)
    OBVIOUS
  <2>2. (n * 1 + 0) % n = 0
    BY <2>1, ModUnique
  <2>. QED BY <1>1, <2>1, <2>2
<1>2. CASE b # n
  <2>1. b = n * 0 + b /\ b \in 0..(n - 1)
    BY <1>2
  <2>2. (n * 0 + b) % n = b
    BY <2>1, ModUnique
  <2>. QED BY <1>2, <2>1, <2>2
<1>. QED BY <1>1, <1>2

LEMMA ModSucc ==
  ASSUME NEW n \in Nat \ {0}, NEW c \in Nat
  PROVE  /\ c % n \in 0..(n - 1)
         /\ (c + 1) % n = IF (c % n) + 1 = n THEN 0 ELSE (c % n) + 1
<1>1. c = n * (c \div n) + (c % n)
  BY DivMod
<1>2. c \div n \in Nat
  OBVIOUS
<1>3. c % n \in 0..(n - 1)
  OBVIOUS
<1>. DEFINE q == c \div n  r == c % n
<1>4. c = n * q + r /\ q \in Nat /\ r \in 0..(n - 1)
  BY <1>1, <1>2, <1>3
<1>. HIDE DEF q, r
<1>5. CASE r + 1 < n
  <2>1. c + 1 = n * q + (r + 1) /\ r + 1 \in 0..(n - 1)
    BY <1>4, <1>5
  <2>2. (n * q + (r + 1)) % n = r + 1
    BY <2>1, <1>4, ModUnique
  <2>. QED BY <2>1, <2>2, <1>4, <1>5 DEF r
<1>6. CASE r + 1 = n
  <2>1. c + 1 = n * (q + 1) + 0 /\ 0 \in 0..(n - 1) /\ q + 1 \in Nat
    BY <1>4, <1>6
  <2>2. (n * (q + 1) + 0) % n = 0
    BY <2>1, ModUnique
  <2>. QED BY <2>1, <2>2, <1>4, <1>6 DEF r
<1>7. r + 1 < n \/ r + 1 = n
  BY <1>4
<1>. QED BY <1>3, <1>5, <1>6, <1>7

\* The counter wraps at a multiple of NODE_SIZE, so its residue goes on.
LEMMA CounterSucc ==
  ASSUME NEW c \in 0..(2^CntWidth - 1)
  PROVE  /\ (c + 1) % 2^CntWidth \in 0..(2^CntWidth - 1)
         /\ ((c + 1) % 2^CntWidth) % NodeSize = (c + 1) % NodeSize
<1>. DEFINE m == 2^CntWidth
<1>1. m \in Nat \ {0} /\ m % NodeSize = 0
  BY PowerAssumption
<1>2. NodeSize \in Nat \ {0}
  BY SwitchAssumption
<1>3. c \in 0..(m - 1)
  OBVIOUS
<1>. HIDE DEF m
<1>4. (c + 1) % m = IF c + 1 = m THEN 0 ELSE c + 1
  <2>1. c + 1 \in 0..m
    BY <1>1, <1>3
  <2>. QED BY <1>1, <2>1, ModSmall
<1>5. 0 % NodeSize = 0
  BY <1>2, ModSmall
<1>6. (c + 1) % m \in 0..(m - 1) /\ ((c + 1) % m) % NodeSize = (c + 1) % NodeSize
  BY <1>1, <1>2, <1>3, <1>4, <1>5
<1>. QED BY <1>6 DEF m
-------------------------------------------------------------------------------
(* The inductive invariant.                                                *)

\* The last round in which the switch has taken w's value; -1 before the first.
Last(w) == IF round[w] < Rounds /\ taken[w][round[w]] = 1 THEN round[w] ELSE round[w] - 1

\* What was taken of a worker is its rounds up to the last one.
TakenInv ==
  \A w \in Workers : \A r \in 0..(Rounds - 1) :
    taken[w][r] = IF r <= Last(w) THEN 1 ELSE 0

\* No packet of a round that has been followed by another is on its way.
UpInv ==
  \A w \in Workers :
    /\ \A k \in 1..Len(up[w]) :
         (up[w][k] = Last(w) \/ up[w][k] = Last(w) + 1) /\ up[w][k] <= round[w]
    /\ \A j, k \in 1..Len(up[w]) : j <= k => up[w][j] <= up[w][k]

\* A worker's bit is set in the slot of its last round, and only there.
BitInv ==
  \A w \in Workers : \A s \in Slots :
    w \in bitmap[s] <=> Last(w) >= 0 /\ SlotOf(Last(w)) = s

\* The value of a round somebody has left was taken from everybody.
TogetherInv == \A v, w \in Workers : round[v] - 1 <= Last(w)

DownInv ==
  \A w, v \in Workers : \A k \in 1..Len(down[w]) : down[w][k].round <= Last(v)

\* In the slot of the newest round m the counter and the bitmap agree, in the
\* other one everybody was counted.
NewestIs(m) ==
  /\ \A w \in Workers : Last(w) = m \/ Last(w) = m - 1
  /\ \E w \in Workers : Last(w) = m
  /\ counter[SlotOf(m)] % NodeSize = Cardinality(bitmap[SlotOf(m)]) % NodeSize
  /\ counter[Other(SlotOf(m))] % NodeSize = 0
CountInv == \E m \in -1..(Rounds - 1) : NewestIs(m)

IInv == TypeOK /\ TakenInv /\ UpInv /\ BitInv /\ TogetherInv /\ DownInv /\ CountInv

-------------------------------------------------------------------------------
(* Consequences of the invariant.                                          *)

LEMMA ConstFacts ==
  /\ NodeSize \in Nat \ {0} /\ Rounds \in Nat
  /\ Workers = 0..(NodeSize - 1) /\ 0 \in Workers
  /\ IsFiniteSet(Workers) /\ Cardinality(Workers) = NodeSize
<1>1. NodeSize \in Nat \ {0} /\ Rounds \in Nat
  BY SwitchAssumption
<1>2. NodeSize - 1 \in Int /\ ~(0 > NodeSize - 1) /\ NodeSize - 1 - 0 + 1 = NodeSize
  BY <1>1
<1>. QED BY <1>1, <1>2, FS_Interval DEF Workers

LEMMA SlotFacts ==
  ASSUME NEW r \in Int
  PROVE  /\ SlotOf(r) \in Slots /\ SlotOf(r + 1) = Other(SlotOf(r))
         /\ SlotOf(r - 1) = Other(SlotOf(r))
         /\ Other(SlotOf(r)) \in Slots /\ Other(SlotOf(r)) # SlotOf(r)
  BY DEF SlotOf, Slots, Other

LEMMA LastFacts ==
  ASSUME TypeOK, NEW w \in Workers
  PROVE  /\ round[w] \in 0..Rounds
         /\ Last(w) \in -1..(Rounds - 1)
         /\ Last(w) = round[w] \/ Last(w) = round[w] - 1
<1>1. round[w] \in 0..Rounds /\ Rounds \in Nat
  BY ConstFacts DEF TypeOK
<1>2. (Last(w) = round[w] /\ round[w] < Rounds) \/ Last(w) = round[w] - 1
  BY DEF Last
<1>. QED BY <1>1, <1>2

\* A set of workers is all of them if it is as large, or as large modulo
\* their number and not empty.
LEMMA AllOfThem ==
  ASSUME NEW B \in SUBSET Workers
  PROVE  /\ IsFiniteSet(B) /\ Cardinality(B) \in 0..NodeSize
         /\ B # {} /\ Cardinality(B) % NodeSize = 0 => B = Workers
         /\ \A w \in Workers \ B :
              Cardinality(B \cup {w}) = Cardinality(B) + 1
              /\ Cardinality(B) \in 0..(NodeSize - 1)
<1>1. IsFiniteSet(B) /\ Cardinality(B) <= NodeSize
      /\ (Cardinality(Workers) = Cardinality(B) => Workers = B)
  BY ConstFacts, FS_Subset
<1>2. Cardinality(B) \in Nat
  BY <1>1, FS_CardinalityType
<1>3. Cardinality(B) \in 0..NodeSize
  BY <1>1, <1>2, ConstFacts
<1>4. ASSUME B # {}, Cardinality(B) % NodeSize = 0
      PROVE  B = Workers
  <2>1. Cardinality(B) # 0
    BY <1>1, <1>4, FS_EmptySet
  <2>2. Cardinality(B) = NodeSize
    BY <1>3, <1>4, <2>1, ConstFacts, ModSmall
  <2>. QED BY <1>1, <2>2, ConstFacts
<1>5. ASSUME NEW w \in Workers \ B
      PROVE  /\ Cardinality(B \cup {w}) = Cardinality(B) + 1
             /\ Cardinality(B) \in 0..(NodeSize - 1)
  <2>1. Cardinality(B \cup {w}) = Cardinality(B) + 1
    BY <1>1, FS_AddElement
  <2>2. Cardinality(B) # NodeSize
    BY <1>1, ConstFacts
  <2>. QED BY <1>3, <2>1, <2>2, ConstFacts
<1>. QED BY <1>1, <1>3, <1>4, <1>5

LEMMA AppendFacts ==
  ASSUME NEW S, NEW seq \in Seq(S), NEW e \in S
  PROVE  /\ Len(seq) \in Nat /\ Len(Append(seq, e)) = Len(seq) + 1
         /\ Append(seq, e)[Len(seq) + 1] = e
         /\ \A k \in 1..Len(seq) : Append(seq, e)[k] = seq[k] /\ seq[k] \in S
  OBVIOUS

LEMMA ElementOf ==
  ASSUME NEW S, NEW seq \in Seq(S), NEW k \in 1..Len(seq)
  PROVE  seq[k] \in S
  OBVIOUS

LEMMA TailFacts ==
  ASSUME NEW S, NEW seq \in Seq(S), seq # <<>>
  PROVE  /\ Head(seq) \in S /\ Head(seq) = seq[1] /\ Tail(seq) \in Seq(S)
         /\ Len(seq) \in Nat \ {0} /\ Len(Tail(seq)) = Len(seq) - 1
         /\ \A k \in 1..Len(Tail(seq)) : k + 1 \in 1..Len(seq) /\ Tail(seq)[k] = seq[k + 1]
  OBVIOUS

\* The result a packet becomes.
ResultOf(w) ==
  [round  |-> Head(up[w]),
   value  |-> ReduceTable(HeadNew(w), HeadComplete(w), SlotOf(Head(up[w])),
                          Value(w, Head(up[w]))).value,
   resend |-> ~HeadNew(w)]

\* What a packet does to the results on their way.
LEMMA DownIs ==
  ASSUME NEW w \in Workers, Switch(w)
  PROVE  \E reached \in SUBSET Recipients(w) :
           down' = [u \in Workers |->
             IF u \in reached THEN Append(down[u], ResultOf(w)) ELSE down[u]]
<1>1. \E reached \in SUBSET {u \in Recipients(w) : Len(down[u]) < LinkDepth} :
        down' = [u \in Workers |->
          IF u \in reached THEN Append(down[u], ResultOf(w)) ELSE down[u]]
  BY Zenon DEF Switch, ResultOf
<1>. QED BY <1>1, Zenon

LEMMA DownAfter ==
  ASSUME TypeOK, NEW w \in Workers, Switch(w),
         NEW u \in Workers, NEW k \in 1..Len(down'[u])
  PROVE  \/ k \in 1..Len(down[u]) /\ down'[u][k] = down[u][k]
         \/ down'[u][k].round = Head(up[w]) /\ HeadComplete(w)
<1>1. PICK reached \in SUBSET Recipients(w) :
        down' = [v \in Workers |->
          IF v \in reached THEN Append(down[v], ResultOf(w)) ELSE down[v]]
  BY DownIs
<1>2. CASE u \in reached
  <2>1. HeadComplete(w)
    BY <1>1, <1>2 DEF Recipients, Receivers
  <2>2. down'[u] = Append(down[u], ResultOf(w)) /\ down[u] \in Seq(Result)
    BY <1>1, <1>2 DEF TypeOK
  <2>3. ResultOf(w).round = Head(up[w])
    BY DEF ResultOf
  <2>. QED BY <2>1, <2>2, <2>3
<1>3. CASE u \notin reached
  BY <1>1, <1>3
<1>. QED BY <1>2, <1>3

-------------------------------------------------------------------------------
(* The invariant's type part.                                              *)

LEMMA TypeInit == Init => TypeOK
<1>. SUFFICES ASSUME Init PROVE TypeOK
  OBVIOUS
<1>1. 0 \in 0..(2^CntWidth - 1)
  <2>. DEFINE m == 2^CntWidth
  <2>1. m \in Nat \ {0}
    BY PowerAssumption
  <2>. HIDE DEF m
  <2>2. 0 \in 0..(m - 1)
    BY <2>1
  <2>. QED BY <2>2 DEF m
<1>. QED BY <1>1, ConstFacts DEF Init, TypeOK

LEMMA TypeSwitch ==
  ASSUME TypeOK, NEW w \in Workers, Switch(w)
  PROVE  TypeOK'
<1>. DEFINE q == Head(up[w])  s == SlotOf(q)
<1>1. q \in 0..(Rounds - 1) /\ Tail(up[w]) \in Seq(0..(Rounds - 1))
  BY TailFacts DEF TypeOK, Switch
<1>2. s \in Slots /\ Other(s) \in Slots
  <2>1. q \in Int
    BY <1>1, ConstFacts
  <2>. QED BY <2>1, SlotFacts
<1>3. bitmap' \in [Slots -> SUBSET Workers]
  BY <1>2 DEF TypeOK, Switch, BitmapAfter, HeadSlot
<1>4. counter' \in [Slots -> 0..(2^CntWidth - 1)]
  <2>1. counter' = CounterAfter(w, s)
    BY DEF Switch, HeadSlot
  <2>2. counter[s] \in 0..(2^CntWidth - 1)
    BY <1>2 DEF TypeOK
  <2>3. (counter[s] + 1) % 2^CntWidth \in 0..(2^CntWidth - 1)
    BY <2>2, CounterSucc
  <2>. QED BY <2>1, <2>3, <1>2 DEF CounterAfter, TypeOK
<1>5. PICK reduced \in [reg : [Slots -> Nat], value : Nat] :
        reduced = ReduceTable(HeadNew(w), HeadComplete(w), SlotOf(q), Value(w, q))
  <2>1. Value(w, q) \in Nat
    BY <1>1, PowerAssumption
  <2>. DEFINE v == Value(w, q)
  <2>2. v \in Nat
    BY <2>1
  <2>. HIDE DEF v
  <2>3. \A z \in Slots : Other(z) \in Slots
    BY DEF Slots, Other
  <2>9. reg \in [Slots -> Nat] /\ \A z \in Slots : reg[z] + v \in Nat
    BY <2>2 DEF TypeOK
  <2>4. ASSUME NEW z \in Slots
        PROVE  ReducedAndReset(z, v) \in [reg : [Slots -> Nat], value : Nat]
    <3>1. [reg EXCEPT ![z] = @ + v, ![Other(z)] = 0] \in [Slots -> Nat]
      BY <2>9, <2>3
    <3>. QED BY <2>9, <3>1 DEF ReducedAndReset
  <2>5. ASSUME NEW z \in Slots
        PROVE  Reduced(z, v) \in [reg : [Slots -> Nat], value : Nat]
    <3>1. [reg EXCEPT ![z] = @ + v] \in [Slots -> Nat]
      BY <2>9
    <3>. QED BY <2>9, <3>1 DEF Reduced
  <2>6. Untouched(v) \in [reg : [Slots -> Nat], value : Nat]
    BY <2>2 DEF Untouched, TypeOK
  <2>7. 0 \in Slots
    BY DEF Slots
  <2>8. ReduceTable(HeadNew(w), HeadComplete(w), SlotOf(q), v) \in [reg : [Slots -> Nat], value : Nat]
    <3>1. CASE HeadComplete(w) /\ HeadNew(w)
      BY <3>1, <2>4, <2>7 DEF ReduceTable
    <3>2. CASE HeadComplete(w) /\ ~HeadNew(w)
      BY <3>2, <2>6 DEF ReduceTable
    <3>3. CASE ~HeadComplete(w) /\ HeadNew(w)
      BY <3>3, <2>5, <1>2 DEF ReduceTable
    <3>4. CASE ~HeadComplete(w) /\ ~HeadNew(w)
      BY <3>4, <2>6 DEF ReduceTable
    <3>. QED BY <3>1, <3>2, <3>3, <3>4
  <2>. QED BY <2>8 DEF v
<1>6. reg' \in [Slots -> Nat]
  BY <1>5 DEF Switch
<1>7. up' \in [Workers -> Seq(0..(Rounds - 1))]
  BY <1>1 DEF TypeOK, Switch
<1>8. down' \in [Workers -> Seq(Result)]
  <2>1. ResultOf(w) \in Result
    BY <1>1, <1>5 DEF Result, ResultOf, HeadNew, IsNew
  <2>2. PICK reached \in SUBSET Recipients(w) : down' = [u \in Workers |->
           IF u \in reached THEN Append(down[u], ResultOf(w)) ELSE down[u]]
    BY DownIs
  <2>3. \A u \in Workers :
          down[u] \in Seq(Result) /\ Append(down[u], ResultOf(w)) \in Seq(Result)
    BY <2>1 DEF TypeOK
  <2>. QED BY <2>2, <2>3
<1>9. taken' \in [Workers -> [0..(Rounds - 1) -> Nat]]
  BY <1>1 DEF TypeOK, Switch
<1>10. round' \in [Workers -> 0..Rounds]
  BY DEF TypeOK, Switch
<1>. QED BY <1>3, <1>4, <1>6, <1>7, <1>8, <1>9, <1>10 DEF TypeOK

LEMMA TypeStep == TypeOK /\ [Next]_vars => TypeOK'
<1>. SUFFICES ASSUME TypeOK, [Next]_vars PROVE TypeOK'
  OBVIOUS
<1>1. ASSUME NEW w \in Workers, Send(w) PROVE TypeOK'
  <2>1. round[w] \in 0..(Rounds - 1)
    BY <1>1, ConstFacts DEF Send, TypeOK
  <2>2. up' \in [Workers -> Seq(0..(Rounds - 1))]
    BY <1>1, <2>1 DEF Send, TypeOK
  <2>. QED BY <1>1, <2>2 DEF Send, swVars, TypeOK
<1>2. ASSUME NEW w \in Workers, Receive(w) PROVE TypeOK'
  <2>1. Head(down[w]) \in Result /\ Tail(down[w]) \in Seq(Result)
    BY <1>2, TailFacts DEF Receive, TypeOK
  <2>2. down' \in [Workers -> Seq(Result)]
    BY <1>2, <2>1 DEF Receive, TypeOK
  <2>3. round' \in [Workers -> 0..Rounds]
    <3>1. round \in [Workers -> 0..Rounds] /\ Head(down[w]).round \in 0..(Rounds - 1)
      BY <2>1 DEF TypeOK, Result
    <3>2. Head(down[w]).round = round[w] => round[w] + 1 \in 0..Rounds
      BY <3>1, ConstFacts
    <3>. QED BY <1>2, <3>1, <3>2 DEF Receive
  <2>. QED BY <1>2, <2>2, <2>3 DEF Receive, swVars, TypeOK
<1>3. ASSUME NEW w \in Workers, Lose(w) PROVE TypeOK'
  <2>1. Tail(up[w]) \in Seq(0..(Rounds - 1))
    BY <1>3, TailFacts DEF Lose, TypeOK
  <2>2. up' \in [Workers -> Seq(0..(Rounds - 1))]
    BY <1>3, <2>1 DEF Lose, TypeOK
  <2>. QED BY <1>3, <2>2 DEF Lose, swVars, TypeOK
<1>4. CASE UNCHANGED vars
  BY <1>4 DEF vars, TypeOK
<1>. QED BY <1>1, <1>2, <1>3, <1>4, TypeSwitch DEF Next, Finished

-------------------------------------------------------------------------------
(* The invariant holds at the start and after each action.                 *)

LEMMA InitStep == Init => IInv
<1>. SUFFICES ASSUME Init PROVE IInv
  OBVIOUS
<1>1. TypeOK
  BY TypeInit
<1>2. \A w \in Workers : Last(w) = -1 /\ round[w] = 0
  BY ConstFacts DEF Init, Last
<1>3. TakenInv
  BY <1>2, ConstFacts DEF TakenInv, Init
<1>4. UpInv /\ DownInv /\ TogetherInv
  BY <1>2 DEF UpInv, DownInv, TogetherInv, Init
<1>5. BitInv
  BY <1>2 DEF BitInv, Init
<1>6. NewestIs(-1)
  <2>1. SlotOf(-1) \in Slots /\ Other(SlotOf(-1)) \in Slots
    BY SlotFacts
  <2>2. Cardinality({}) = 0
    BY FS_EmptySet
  <2>3. 0 % NodeSize = 0
    BY ConstFacts, ModSmall
  <2>. QED BY <1>2, <2>1, <2>2, <2>3, ConstFacts DEF NewestIs, Init
<1>7. CountInv
  BY <1>6, ConstFacts DEF CountInv
<1>. QED BY <1>1, <1>3, <1>4, <1>5, <1>7 DEF IInv

\* Other steps than of a new packet leave Last, and what depends on it, alone.
LEMMA SwitchKept ==
  ASSUME IInv, bitmap' = bitmap, counter' = counter, taken' = taken,
         \A w \in Workers : Last(w)' = Last(w)
  PROVE  TakenInv' /\ BitInv' /\ CountInv'
<1>1. TakenInv'
  BY DEF IInv, TakenInv
<1>2. BitInv'
  BY DEF IInv, BitInv
<1>3. CountInv'
  BY DEF IInv, CountInv, NewestIs
<1>. QED BY <1>1, <1>2, <1>3

LEMMA SendStep ==
  ASSUME IInv, NEW w \in Workers, Send(w), TypeOK'
  PROVE  IInv' /\ \A v \in Workers : Last(v)' = Last(v)
<1>. USE DEF IInv
<1>1. /\ bitmap' = bitmap /\ counter' = counter /\ taken' = taken
      /\ round' = round /\ down' = down
  BY DEF Send, swVars
<1>2. \A v \in Workers : Last(v)' = Last(v)
  BY <1>1 DEF Last
<1>3. TogetherInv' /\ DownInv'
  BY <1>1, <1>2 DEF TogetherInv, DownInv
<1>4. UpInv'
  <2>1. ASSUME NEW v \in Workers, v # w
        PROVE  up'[v] = up[v]
    BY <2>1 DEF Send, TypeOK
  <2>2. up'[w] = Append(up[w], round[w]) /\ up[w] \in Seq(0..(Rounds - 1))
    BY DEF Send, TypeOK
  <2>3. /\ Len(up'[w]) = Len(up[w]) + 1 /\ up'[w][Len(up[w]) + 1] = round[w]
        /\ Len(up[w]) \in Nat
        /\ \A k \in 1..Len(up[w]) : up'[w][k] = up[w][k] /\ up[w][k] \in 0..(Rounds - 1)
    <3>. DEFINE S == 0..(Rounds - 1)
    <3>1. round[w] \in S /\ up[w] \in Seq(S)
      BY <2>2, ConstFacts DEF Send, TypeOK
    <3>2. up'[w] = Append(up[w], round[w])
      BY <2>2
    <3>. HIDE DEF S
    <3>3. /\ Len(up'[w]) = Len(up[w]) + 1 /\ up'[w][Len(up[w]) + 1] = round[w]
          /\ Len(up[w]) \in Nat
          /\ \A k \in 1..Len(up[w]) : up'[w][k] = up[w][k] /\ up[w][k] \in S
      BY <3>1, <3>2, AppendFacts
    <3>. QED BY <3>3 DEF S
  <2>4. /\ round[w] \in Int /\ Last(w) \in Int
        /\ Last(w) = round[w] \/ Last(w) = round[w] - 1
    BY LastFacts
  <2>5. \A k \in 1..Len(up'[w]) :
          (up'[w][k] = Last(w) \/ up'[w][k] = Last(w) + 1) /\ up'[w][k] <= round[w]
    <3>1. TAKE k \in 1..Len(up'[w])
    <3>2. CASE k \in 1..Len(up[w])
      BY <2>3, <3>2 DEF UpInv
    <3>3. CASE k = Len(up[w]) + 1
      BY <2>3, <2>4, <3>3
    <3>. QED BY <2>3, <3>2, <3>3
  <2>6. \A j, k \in 1..Len(up'[w]) : j <= k => up'[w][j] <= up'[w][k]
    <3>1. TAKE j, k \in 1..Len(up'[w])
    <3>2. CASE k \in 1..Len(up[w])
      <4>1. j <= k => j \in 1..Len(up[w])
        BY <2>3, <3>2
      <4>. QED BY <2>3, <3>2, <4>1 DEF UpInv
    <3>3. CASE k = Len(up[w]) + 1
      BY <2>3, <2>5, <3>3
    <3>. QED BY <2>3, <3>2, <3>3
  <2>. QED BY <1>1, <1>2, <2>1, <2>5, <2>6 DEF UpInv
<1>. QED BY <1>1, <1>2, <1>3, <1>4, SwitchKept

\* A packet less on a worker's link.
LEMMA UpShorter ==
  ASSUME IInv, NEW w \in Workers, up[w] # <<>>, up' = [up EXCEPT ![w] = Tail(@)],
         round' = round, \A v \in Workers : Last(v)' = Last(v)
  PROVE  UpInv'
<1>1. ASSUME NEW v \in Workers, v # w
      PROVE  up'[v] = up[v]
  BY <1>1 DEF IInv, TypeOK
<1>2. up'[w] = Tail(up[w]) /\ up[w] \in Seq(0..(Rounds - 1))
  BY DEF IInv, TypeOK
<1>3. \A k \in 1..Len(up'[w]) : k + 1 \in 1..Len(up[w]) /\ up'[w][k] = up[w][k + 1]
  <2>1. PICK s \in Seq(0..(Rounds - 1)) : s = up[w]
    BY <1>2
  <2>2. \A k \in 1..Len(Tail(s)) : k + 1 \in 1..Len(s) /\ Tail(s)[k] = s[k + 1]
    BY <2>1, TailFacts
  <2>. QED BY <1>2, <2>1, <2>2
<1>4. \A k \in 1..Len(up'[w]) :
        (up'[w][k] = Last(w) \/ up'[w][k] = Last(w) + 1) /\ up'[w][k] <= round[w]
  BY <1>3 DEF IInv, UpInv
<1>5. \A j, k \in 1..Len(up'[w]) : j <= k => up'[w][j] <= up'[w][k]
  BY <1>3 DEF IInv, UpInv
<1>. QED BY <1>1, <1>4, <1>5 DEF IInv, UpInv

LEMMA LoseStep ==
  ASSUME IInv, NEW w \in Workers, Lose(w), TypeOK'
  PROVE  IInv' /\ \A v \in Workers : Last(v)' = Last(v)
<1>1. /\ bitmap' = bitmap /\ counter' = counter /\ taken' = taken
      /\ round' = round /\ down' = down
  BY DEF Lose, swVars
<1>2. \A v \in Workers : Last(v)' = Last(v)
  BY <1>1 DEF Last
<1>3. TogetherInv' /\ DownInv'
  BY <1>1, <1>2 DEF IInv, TogetherInv, DownInv
<1>4. UpInv'
  BY <1>1, <1>2, UpShorter DEF Lose
<1>. QED BY <1>1, <1>2, <1>3, <1>4, SwitchKept DEF IInv

\* A result that takes a worker to its next round finds everybody's value of
\* this round taken.
LEMMA ReceiveStep ==
  ASSUME IInv, NEW w \in Workers, Receive(w), TypeOK'
  PROVE  /\ IInv'
         /\ \A v \in Workers : Last(v)' = Last(v)
         /\ \/ round' = round
            \/ /\ round' = [round EXCEPT ![w] = @ + 1]
               /\ \A v \in Workers : round[w] <= Last(v)
<1>. USE DEF IInv
<1>1. bitmap' = bitmap /\ counter' = counter /\ taken' = taken /\ up' = up
  BY DEF Receive, swVars
<1>2. /\ Head(down[w]) = down[w][1] /\ down[w] \in Seq(Result) /\ 1 \in 1..Len(down[w])
      /\ down'[w] = Tail(down[w])
      /\ \A k \in 1..Len(Tail(down[w])) :
           k + 1 \in 1..Len(down[w]) /\ Tail(down[w])[k] = down[w][k + 1]
  BY TailFacts DEF Receive, TypeOK
<1>3. \A v \in Workers : Head(down[w]).round <= Last(v)
  BY <1>2 DEF DownInv
<1>4. \/ round' = round
      \/ /\ round' = [round EXCEPT ![w] = @ + 1] /\ Head(down[w]).round = round[w]
  BY DEF Receive
<1>5. \A v \in Workers : Last(v)' = Last(v)
  <2>1. CASE round' = round
    BY <1>1, <2>1 DEF Last
  <2>2. CASE round' = [round EXCEPT ![w] = @ + 1] /\ Head(down[w]).round = round[w]
    <3>1. Last(w) = round[w] /\ round[w] \in 0..(Rounds - 1)
      BY <1>3, <2>2, LastFacts
    <3>2. round'[w] = round[w] + 1
      BY <2>2 DEF TypeOK
    <3>3. round'[w] < Rounds => taken[w][round'[w]] = 0
      BY <3>1, <3>2, ConstFacts DEF TakenInv
    <3>4. Last(w)' = Last(w)
      BY <1>1, <3>1, <3>2, <3>3 DEF Last
    <3>5. ASSUME NEW v \in Workers, v # w PROVE Last(v)' = Last(v)
      BY <1>1, <2>2, <3>5 DEF Last, TypeOK
    <3>. QED BY <3>4, <3>5
  <2>. QED BY <1>4, <2>1, <2>2
<1>6. \A v \in Workers : round[v] <= round'[v] /\ round[v] \in Int /\ round'[v] \in Int
  <2>1. \A v \in Workers : round[v] \in Int
    BY LastFacts
  <2>2. round \in [Workers -> 0..Rounds]
    BY DEF TypeOK
  <2>. QED BY <1>4, <2>1, <2>2
<1>7. TogetherInv'
  <2>1. CASE round' = round
    BY <1>5, <2>1 DEF TogetherInv
  <2>2. CASE round' = [round EXCEPT ![w] = @ + 1] /\ Head(down[w]).round = round[w]
    <3>1. \A v \in Workers : round'[w] - 1 <= Last(v)
      BY <1>3, <2>2, <1>6 DEF TypeOK
    <3>2. \A u, v \in Workers : u # w => round'[u] - 1 <= Last(v)
      BY <2>2 DEF TogetherInv, TypeOK
    <3>. QED BY <1>5, <3>1, <3>2 DEF TogetherInv
  <2>. QED BY <1>4, <2>1, <2>2
<1>8. UpInv'
  <2>1. \A v \in Workers : \A k \in 1..Len(up[v]) : up[v][k] \in Int
    <3>1. \A v \in Workers : up[v] \in Seq(0..(Rounds - 1))
      BY DEF TypeOK
    <3>2. 0..(Rounds - 1) \subseteq Int
      BY ConstFacts
    <3>. DEFINE S == 0..(Rounds - 1)
    <3>3. \A v \in Workers : up[v] \in Seq(S)
      BY <3>1
    <3>4. S \subseteq Int
      BY <3>2
    <3>. HIDE DEF S
    <3>5. \A v \in Workers : \A k \in 1..Len(up[v]) : up[v][k] \in S
      BY <3>3, ElementOf
    <3>. QED BY <3>4, <3>5
  <2>. QED BY <1>1, <1>5, <1>6, <2>1 DEF UpInv
<1>9. DownInv'
  <2>1. \A v \in Workers : v # w => down'[v] = down[v]
    BY DEF Receive, TypeOK
  <2>2. \A v \in Workers : \A k \in 1..Len(down'[w]) : down'[w][k].round <= Last(v)
    BY <1>2 DEF DownInv
  <2>3. \A u, v \in Workers : u # w => \A k \in 1..Len(down'[u]) : down'[u][k].round <= Last(v)
    BY <2>1 DEF DownInv
  <2>. QED BY <1>5, <2>2, <2>3 DEF DownInv
<1>. QED BY <1>1, <1>3, <1>4, <1>5, <1>7, <1>8, <1>9, SwitchKept

\* A resend: nothing is counted, and the slot is complete only if everybody's
\* value of the round was taken.
LEMMA ResendStep ==
  ASSUME IInv, NEW w \in Workers, Switch(w), Head(up[w]) = Last(w), TypeOK'
  PROVE  IInv' /\ \A v \in Workers : Last(v)' = Last(v)
<1>. DEFINE q == Head(up[w])  s == SlotOf(q)
<1>. USE DEF IInv
<1>1. q = Last(w) /\ q \in 0..(Rounds - 1) /\ q \in Int
  <2>1. q \in 0..(Rounds - 1)
    BY TailFacts DEF TypeOK, Switch
  <2>. QED BY <2>1, ConstFacts
<1>2. /\ s \in Slots /\ Other(s) \in Slots /\ Other(s) # s
      /\ \A z \in Slots : z = s \/ z = Other(s)
  BY <1>1, SlotFacts DEF Slots, Other
<1>3. w \in bitmap[s] /\ w \notin bitmap[Other(s)]
  BY <1>1, <1>2 DEF BitInv
<1>4. ~HeadNew(w)
  BY <1>3 DEF HeadNew, IsNew, HeadSlot
<1>5. bitmap' = bitmap
  <2>1. bitmap' = [bitmap EXCEPT ![s] = @ \cup {w}, ![Other(s)] = @ \ {w}]
    BY DEF Switch, BitmapAfter, HeadSlot
  <2>2. bitmap \in [Slots -> SUBSET Workers]
    BY DEF TypeOK
  <2>. QED BY <1>2, <1>3, <2>1, <2>2
<1>6. counter' = counter /\ taken' = taken /\ round' = round
  BY <1>4 DEF Switch, CounterAfter, HeadNew
<1>7. \A v \in Workers : Last(v)' = Last(v)
  BY <1>6 DEF Last
<1>8. TakenInv' /\ BitInv' /\ CountInv'
  BY <1>5, <1>6, <1>7, SwitchKept
<1>9. TogetherInv'
  BY <1>6, <1>7 DEF TogetherInv
<1>10. UpInv'
  BY <1>6, <1>7, UpShorter DEF Switch
<1>11. HeadComplete(w) => \A v \in Workers : q <= Last(v)
  <2>. SUFFICES ASSUME HeadComplete(w), NEW v \in Workers PROVE q <= Last(v)
    OBVIOUS
  <2>1. counter[s] % NodeSize = 0
    BY <1>4 DEF HeadComplete, Complete, CounterAfter, HeadNew, HeadSlot
  <2>2. PICK m \in -1..(Rounds - 1) : NewestIs(m)
    BY DEF CountInv
  <2>3. m \in Int /\ (Last(v) = m \/ Last(v) = m - 1) /\ (q = m \/ q = m - 1)
    BY <1>1, <2>2 DEF NewestIs
  <2>4. CASE q = m
    <3>1. Cardinality(bitmap[s]) % NodeSize = 0
      BY <2>1, <2>2, <2>4 DEF NewestIs
    <3>2. bitmap[s] = Workers
      BY <1>2, <1>3, <3>1, AllOfThem DEF TypeOK
    <3>3. SlotOf(Last(v)) = s
      BY <1>2, <3>2 DEF BitInv
    <3>4. SlotOf(m - 1) # s
      BY <2>3, <2>4, SlotFacts
    <3>. QED BY <2>3, <2>4, <3>3, <3>4
  <2>5. CASE q = m - 1
    BY <2>3, <2>5
  <2>. QED BY <2>3, <2>4, <2>5
<1>12. DownInv'
  <2>. SUFFICES ASSUME NEW u \in Workers, NEW v \in Workers, NEW k \in 1..Len(down'[u])
                PROVE  down'[u][k].round <= Last(v)
    BY <1>7 DEF DownInv
  <2>1. CASE k \in 1..Len(down[u]) /\ down'[u][k] = down[u][k]
    BY <2>1 DEF DownInv
  <2>2. CASE down'[u][k].round = q /\ HeadComplete(w)
    BY <1>11, <2>2
  <2>. QED BY <2>1, <2>2, DownAfter
<1>. QED BY <1>7, <1>8, <1>9, <1>10, <1>12

\* A new packet is of the round its worker is in, one after its last one, and
\* of the newest round of all or one newer; the counter of its slot goes on
\* with the bitmap, and is a multiple of their number only if all are in.
LEMMA NewStep ==
  ASSUME IInv, NEW w \in Workers, Switch(w), Head(up[w]) = Last(w) + 1, TypeOK'
  PROVE  /\ IInv'
         /\ taken' = [taken EXCEPT ![w][round[w]] = @ + 1] /\ round' = round
         /\ Last(w) = round[w] - 1 /\ round[w] < Rounds
<1>. DEFINE q == Head(up[w])  s == SlotOf(q)
<1>. USE DEF IInv
<1>1. /\ q \in 0..(Rounds - 1) /\ q \in Int /\ Last(w) \in Int /\ q = Last(w) + 1
      /\ q = round[w] /\ Last(w) = round[w] - 1 /\ round[w] < Rounds
  <2>1. up[w] \in Seq(0..(Rounds - 1)) /\ up[w] # <<>>
    BY DEF TypeOK, Switch
  <2>2. q \in 0..(Rounds - 1) /\ q = up[w][1] /\ 1 \in 1..Len(up[w])
    <3>. DEFINE S == 0..(Rounds - 1)
    <3>1. up[w] \in Seq(S) /\ up[w] # <<>>
      BY <2>1
    <3>. HIDE DEF S
    <3>2. q \in S /\ q = up[w][1] /\ 1 \in 1..Len(up[w])
      BY <3>1, TailFacts
    <3>. QED BY <3>2 DEF S
  <2>3. q <= round[w]
    BY <2>2 DEF UpInv
  <2>. QED BY <2>2, <2>3, LastFacts, ConstFacts
<1>2. /\ s \in Slots /\ Other(s) \in Slots /\ Other(s) # s
      /\ SlotOf(Last(w)) = Other(s)
      /\ \A z \in Slots : z = s \/ z = Other(s)
  <2>1. Last(w) = q - 1
    BY <1>1
  <2>. QED BY <1>1, <2>1, SlotFacts DEF Slots, Other
<1>3. w \notin bitmap[s] /\ HeadNew(w)
  BY <1>2 DEF BitInv, HeadNew, IsNew, HeadSlot
<1>4. /\ bitmap \in [Slots -> SUBSET Workers]
      /\ bitmap' = [bitmap EXCEPT ![s] = @ \cup {w}, ![Other(s)] = @ \ {w}]
      /\ counter' = [counter EXCEPT ![s] = (@ + 1) % 2^CntWidth]
      /\ taken' = [taken EXCEPT ![w][q] = @ + 1] /\ round' = round
  BY <1>3 DEF TypeOK, Switch, BitmapAfter, CounterAfter, HeadSlot, HeadNew
<1>5. taken[w][q] = 0 /\ taken'[w][q] = 1
  <2>1. taken[w][q] = 0
    BY <1>1 DEF TakenInv
  <2>. QED BY <1>1, <1>4, <2>1 DEF TypeOK
<1>6. Last(w)' = q /\ \A v \in Workers : v # w => Last(v)' = Last(v)
  <2>1. Last(w)' = q
    BY <1>1, <1>4, <1>5 DEF Last
  <2>2. ASSUME NEW v \in Workers, v # w PROVE taken'[v] = taken[v]
    BY <1>4, <2>2 DEF TypeOK
  <2>. QED BY <1>4, <2>1, <2>2 DEF Last
<1>7. \A v \in Workers : Last(v) \in Int /\ q - 1 <= Last(v) /\ Last(v) <= Last(v)'
  BY <1>1, <1>6, LastFacts DEF TogetherInv
<1>8. TakenInv'
  <2>1. ASSUME NEW r \in 0..(Rounds - 1)
        PROVE  taken'[w][r] = IF r <= q THEN 1 ELSE 0
    <3>1. CASE r = q
      BY <1>1, <1>5, <3>1
    <3>2. CASE r # q
      <4>1. taken'[w][r] = taken[w][r]
        BY <1>1, <1>4, <3>2 DEF TypeOK
      <4>. QED BY <1>1, <3>2, <4>1, ConstFacts DEF TakenInv
    <3>. QED BY <3>1, <3>2
  <2>2. ASSUME NEW v \in Workers, v # w PROVE taken'[v] = taken[v]
    BY <1>4, <2>2 DEF TypeOK
  <2>. QED BY <1>6, <2>1, <2>2 DEF TakenInv
<1>9. bitmap'[s] = bitmap[s] \cup {w} /\ bitmap'[Other(s)] = bitmap[Other(s)] \ {w}
  BY <1>2, <1>4
<1>10. BitInv'
  <2>1. ASSUME NEW z \in Slots PROVE w \in bitmap'[z] <=> Last(w)' >= 0 /\ SlotOf(Last(w)') = z
    BY <1>1, <1>2, <1>6, <1>9
  <2>2. ASSUME NEW v \in Workers, v # w, NEW z \in Slots
        PROVE  v \in bitmap'[z] <=> Last(v)' >= 0 /\ SlotOf(Last(v)') = z
    <3>1. v \in bitmap'[z] <=> v \in bitmap[z]
      BY <1>2, <1>9, <2>2
    <3>. QED BY <1>6, <2>2, <3>1 DEF BitInv
  <2>. QED BY <2>1, <2>2 DEF BitInv
\* Of the two slots before the packet.
<1>11. PICK m \in -1..(Rounds - 1) : NewestIs(m)
  BY DEF CountInv
<1>12. m \in Int /\ (q = m + 1 \/ q = m)
  BY <1>1, <1>11 DEF NewestIs
<1>13. /\ counter[s] % NodeSize = Cardinality(bitmap[s]) % NodeSize
       /\ counter[Other(s)] % NodeSize = 0
       /\ \A v \in Workers : Last(v) = q \/ Last(v) = q - 1
  <2>1. CASE q = m
    BY <1>11, <2>1 DEF NewestIs
  <2>2. CASE q = m + 1
    <3>1. \A v \in Workers : Last(v) = m
      BY <1>7, <1>11, <1>12, <2>2 DEF NewestIs
    <3>2. SlotOf(m) = Other(s) /\ Other(Other(s)) = s
      BY <1>1, <1>2, <2>2, <3>1 DEF Other, Slots
    <3>3. bitmap[s] = {}
      BY <1>2, <1>4, <3>1, <3>2 DEF BitInv
    <3>4. counter[s] % NodeSize = Cardinality(bitmap[s]) % NodeSize
      BY <1>11, <3>2, <3>3, FS_EmptySet, ConstFacts, ModSmall DEF NewestIs
    <3>5. counter[Other(s)] % NodeSize = 0
      <4>1. counter[Other(s)] % NodeSize = Cardinality(bitmap[Other(s)]) % NodeSize
        BY <1>11, <3>2 DEF NewestIs
      <4>2. bitmap[Other(s)] = {} \/ bitmap[Other(s)] = Workers
        BY <1>2, <1>4, <3>1, <3>2 DEF BitInv
      <4>3. Cardinality(bitmap[Other(s)]) \in {0, NodeSize}
        BY <4>2, FS_EmptySet, ConstFacts
      <4>4. 0 \in 0..NodeSize /\ NodeSize \in 0..NodeSize
        BY ConstFacts
      <4>. QED BY <4>1, <4>3, <4>4, ConstFacts, ModSmall
    <3>. QED BY <3>1, <3>4, <3>5, <2>2, <1>12
  <2>. QED BY <1>12, <2>1, <2>2
\* And after it.
<1>14. counter'[s] % NodeSize = Cardinality(bitmap'[s]) % NodeSize
  <2>. DEFINE b == Cardinality(bitmap[s])  c == counter[s]
  <2>1. /\ b \in 0..(NodeSize - 1) /\ Cardinality(bitmap'[s]) = b + 1
    BY <1>2, <1>3, <1>4, <1>9, AllOfThem
  <2>2. c \in 0..(2^CntWidth - 1) /\ counter'[s] = (c + 1) % 2^CntWidth
    BY <1>2, <1>4 DEF TypeOK
  <2>3. counter'[s] % NodeSize = (c + 1) % NodeSize
    BY <2>2, CounterSucc
  <2>4. c \in Nat
    <3>. DEFINE p == 2^CntWidth
    <3>1. p \in Nat \ {0} /\ c \in 0..(p - 1)
      BY <2>2, PowerAssumption
    <3>. HIDE DEF p
    <3>. QED BY <3>1
  <2>5. c % NodeSize = b % NodeSize
    BY <1>13
  <2>. HIDE DEF b, c
  <2>6. b % NodeSize = b /\ (b + 1) % NodeSize = IF b + 1 = NodeSize THEN 0 ELSE b + 1
    <3>1. b \in 0..NodeSize /\ b + 1 \in 0..NodeSize /\ b # NodeSize
      BY <2>1, ConstFacts
    <3>. QED BY <3>1, ConstFacts, ModSmall
  <2>7. (c + 1) % NodeSize = IF (c % NodeSize) + 1 = NodeSize THEN 0 ELSE (c % NodeSize) + 1
    BY <2>4, ConstFacts, ModSucc
  <2>. QED BY <2>1, <2>3, <2>5, <2>6, <2>7
<1>15. CountInv'
  <2>1. counter'[Other(s)] = counter[Other(s)]
    BY <1>2, <1>4 DEF TypeOK
  <2>2. \A v \in Workers : Last(v)' = q \/ Last(v)' = q - 1
    BY <1>6, <1>13
  <2>3. PICK p \in -1..(Rounds - 1) : p = q
    BY <1>1, ConstFacts
  <2>4. NewestIs(p)'
    BY <1>6, <1>13, <1>14, <2>1, <2>2, <2>3 DEF NewestIs
  <2>. QED BY <2>4 DEF CountInv
<1>16. HeadComplete(w) => \A v \in Workers : q <= Last(v)'
  <2>. SUFFICES ASSUME HeadComplete(w), NEW v \in Workers PROVE q <= Last(v)'
    OBVIOUS
  <2>1. counter'[s] % NodeSize = 0
    BY DEF HeadComplete, Complete, Switch, HeadSlot
  <2>2. bitmap'[s] = Workers
    BY <1>2, <1>4, <1>9, <1>14, <2>1, AllOfThem
  <2>3. SlotOf(Last(v)') = s
    BY <1>2, <1>10, <2>2 DEF BitInv
  <2>4. SlotOf(q - 1) # s /\ (Last(v)' = q \/ Last(v)' = q - 1)
    BY <1>1, <1>2, <1>6, <1>13
  <2>. QED BY <1>1, <2>3, <2>4
<1>17. DownInv'
  <2>. SUFFICES ASSUME NEW u \in Workers, NEW v \in Workers, NEW k \in 1..Len(down'[u])
                PROVE  down'[u][k].round <= Last(v)'
    BY DEF DownInv
  <2>1. CASE k \in 1..Len(down[u]) /\ down'[u][k] = down[u][k]
    <3>1. down[u][k].round <= Last(v) /\ down[u][k].round \in Int
      <4>1. down[u] \in Seq(Result)
        BY DEF TypeOK
      <4>2. down[u][k] \in Result
        BY <2>1, <4>1, ElementOf
      <4>. QED BY <2>1, <4>2, ConstFacts DEF DownInv, Result
    <3>2. Last(v)' \in Int
      BY <1>1, <1>6, <1>7
    <3>. QED BY <1>7, <2>1, <3>1, <3>2
  <2>2. CASE down'[u][k].round = q /\ HeadComplete(w)
    BY <1>16, <2>2
  <2>. QED BY <2>1, <2>2, DownAfter
<1>18. UpInv'
  <2>1. ASSUME NEW v \in Workers, v # w PROVE up'[v] = up[v]
    BY <2>1 DEF Switch, TypeOK
  <2>2. up'[w] = Tail(up[w]) /\ up[w] \in Seq(0..(Rounds - 1)) /\ up[w] # <<>>
    BY DEF Switch, TypeOK
  <2>3. /\ q = up[w][1] /\ 1 \in 1..Len(up[w])
        /\ \A k \in 1..Len(up'[w]) : k + 1 \in 1..Len(up[w]) /\ up'[w][k] = up[w][k + 1]
    BY <2>2, TailFacts
  <2>4. \A k \in 1..Len(up'[w]) : up'[w][k] = q
    <3>1. TAKE k \in 1..Len(up'[w])
    <3>2. k + 1 \in 1..Len(up[w]) /\ 1 <= k + 1 /\ up'[w][k] = up[w][k + 1]
      BY <2>3
    <3>3. up'[w][k] <= round[w] /\ q <= up'[w][k] /\ up'[w][k] \in Int
      BY <2>3, <3>2, <1>1 DEF UpInv
    <3>. QED BY <3>3, <1>1
  <2>5. \A k \in 1..Len(up'[w]) :
          (up'[w][k] = Last(w)' \/ up'[w][k] = Last(w)' + 1) /\ up'[w][k] <= round'[w]
    BY <1>1, <1>4, <1>6, <2>4
  <2>6. \A j, k \in 1..Len(up'[w]) : j <= k => up'[w][j] <= up'[w][k]
    BY <1>1, <2>4
  <2>. QED BY <1>4, <1>6, <2>1, <2>5, <2>6 DEF UpInv
<1>19. TogetherInv'
  <2>1. ASSUME NEW u \in Workers, NEW v \in Workers PROVE round'[u] - 1 <= Last(v)'
    <3>1. round[u] \in Int /\ round[u] - 1 <= Last(v)
      BY LastFacts DEF TogetherInv
    <3>2. Last(v)' \in Int
      BY <1>1, <1>6, <1>7
    <3>. QED BY <1>4, <1>7, <3>1, <3>2
  <2>. QED BY <2>1 DEF TogetherInv
<1>. QED BY <1>1, <1>4, <1>8, <1>10, <1>15, <1>17, <1>18, <1>19

LEMMA SwitchStep ==
  ASSUME IInv, NEW w \in Workers, Switch(w), TypeOK'
  PROVE  /\ IInv' /\ round' = round
         /\ \/ \A v \in Workers : Last(v)' = Last(v)
            \/ /\ taken' = [taken EXCEPT ![w][round[w]] = @ + 1]
               /\ Last(w) = round[w] - 1 /\ round[w] < Rounds
<1>1. Head(up[w]) = Last(w) \/ Head(up[w]) = Last(w) + 1
  <2>1. up[w] \in Seq(0..(Rounds - 1)) /\ up[w] # <<>>
    BY DEF IInv, TypeOK, Switch
  <2>2. Head(up[w]) = up[w][1] /\ 1 \in 1..Len(up[w])
    BY <2>1, TailFacts
  <2>. QED BY <2>2 DEF IInv, UpInv
<1>2. round' = round
  BY DEF Switch
<1>. QED BY <1>1, <1>2, ResendStep, NewStep

LEMMA IInvInductive == IInv /\ [Next]_vars => IInv'
<1>. SUFFICES ASSUME IInv, [Next]_vars PROVE IInv'
  OBVIOUS
<1>1. TypeOK'
  BY TypeStep DEF IInv
<1>2. CASE UNCHANGED vars
  <2>1. \A w \in Workers : Last(w)' = Last(w)
    BY <1>2 DEF vars, Last
  <2>2. UpInv' /\ TogetherInv' /\ DownInv'
    BY <1>2, <2>1 DEF vars, IInv, UpInv, TogetherInv, DownInv
  <2>3. TakenInv' /\ BitInv' /\ CountInv'
    BY <1>2, <2>1, SwitchKept DEF vars
  <2>. QED BY <1>1, <2>2, <2>3 DEF IInv
<1>3. ASSUME NEW w \in Workers, Switch(w) \/ Send(w) \/ Receive(w) \/ Lose(w)
      PROVE  IInv'
  BY <1>1, <1>3, SwitchStep, SendStep, ReceiveStep, LoseStep
<1>. QED BY <1>2, <1>3 DEF Next, Finished

LEMMA Invariant == Spec => []IInv
  BY InitStep, IInvInductive, PTL DEF Spec

-------------------------------------------------------------------------------
(* Theorems.                                                               *)

\* Every variable has its type: no slot, round or counter leaves its range.
THEOREM TypeCorrect == Spec => []TypeOK
<1>1. IInv => TypeOK
  BY DEF IInv
<1>. QED BY <1>1, Invariant, PTL

\* The switch (bitmap.p4, reduce.p4) adds a worker's value of a round at most
\* once, however many workers and whatever is lost, resent or delayed.
THEOREM AddedOnce == Spec => []TakenOnce
<1>1. IInv => TakenOnce
  BY DEF IInv, TakenInv, TakenOnce
<1>. QED BY <1>1, Invariant, PTL

\* A result on its way (counter.p4, forward.p4) is of a round in which every
\* worker's value was taken, for any width of the counter, which wraps.
THEOREM ResultsComplete == Spec => []CompleteMeansAll
<1>. SUFFICES ASSUME IInv PROVE CompleteMeansAll
  BY Invariant, PTL
<1>1. ASSUME NEW w \in Workers, NEW k \in 1..Len(down[w]), NEW v \in Workers
      PROVE  taken[v][down[w][k].round] = 1
  <2>1. down[w] \in Seq(Result)
    BY DEF IInv, TypeOK
  <2>2. down[w][k].round \in 0..(Rounds - 1)
    <3>1. down[w][k] \in Result
      BY <2>1, ElementOf
    <3>. QED BY <3>1 DEF Result
  <2>3. down[w][k].round <= Last(v)
    BY DEF IInv, DownInv
  <2>. QED BY <2>2, <2>3 DEF IInv, TakenInv
<1>. QED BY <1>1 DEF CompleteMeansAll

-------------------------------------------------------------------------------
(* The switch and its workers are a barrier.                               *)

\* As many rounds were taken of a worker as come up to its last one.
LEMMA Counted ==
  ASSUME NEW f, NEW l \in -1..(Rounds - 1),
         \A r \in 0..(Rounds - 1) : f[r] = IF r <= l THEN 1 ELSE 0
  PROVE  Cardinality({r \in 0..(Rounds - 1) : f[r] > 0}) = l + 1
<1>1. {r \in 0..(Rounds - 1) : f[r] > 0} = 0..l
  BY ConstFacts
<1>2. Cardinality(0..l) = l + 1
  <2>1. l \in Int
    OBVIOUS
  <2>. QED BY <2>1, FS_Interval
<1>. QED BY <1>1, <1>2

LEMMA TakenIs == IInv => \A w \in Workers : Taken(w) = Last(w) + 1
  BY Counted, LastFacts DEF IInv, TakenInv, Taken

LEMMA BarrierInit == Init => Barrier!Init
<1>. SUFFICES ASSUME Init PROVE Barrier!Init
  OBVIOUS
<1>1. IInv
  BY InitStep
<1>2. \A w \in Workers : Taken(w) = 0
  BY <1>1, TakenIs, ConstFacts DEF Init, Last
<1>. QED BY <1>2 DEF Init, Barrier!Init

LEMMA BarrierStep ==
  IInv /\ IInv' /\ [Next]_vars
    => [Barrier!Next]_<<[w \in Workers |-> Taken(w)], round>>
<1>. SUFFICES ASSUME IInv, IInv', [Next]_vars
              PROVE  [Barrier!Next]_<<[w \in Workers |-> Taken(w)], round>>
  OBVIOUS
<1>. DEFINE arrived == [w \in Workers |-> Taken(w)]
<1>1. TypeOK'
  BY DEF IInv
<1>2. \A w \in Workers : Taken(w) = Last(w) + 1
  BY TakenIs
<1>3. \A w \in Workers : Taken(w)' = Last(w)' + 1
  <2>1. TAKE w \in Workers
  <2>2. Last(w)' \in -1..(Rounds - 1)
    <3>1. round'[w] \in 0..Rounds /\ Rounds \in Nat
      BY <1>1, ConstFacts DEF TypeOK
    <3>2. (Last(w)' = round'[w] /\ round'[w] < Rounds) \/ Last(w)' = round'[w] - 1
      BY DEF Last
    <3>. QED BY <3>1, <3>2
  <2>3. \A r \in 0..(Rounds - 1) : taken'[w][r] = IF r <= Last(w)' THEN 1 ELSE 0
    BY DEF IInv, TakenInv
  <2>. QED BY <2>2, <2>3, Counted DEF Taken
<1>4. ASSUME round' = round, \A w \in Workers : Last(w)' = Last(w)
      PROVE  UNCHANGED <<arrived, round>>
  BY <1>2, <1>3, <1>4
<1>5. ASSUME NEW w \in Workers, Switch(w)
      PROVE  [Barrier!Next]_<<arrived, round>>
  <2>1. CASE \A v \in Workers : Last(v)' = Last(v)
    BY <1>1, <1>4, <1>5, <2>1, SwitchStep
  <2>2. CASE /\ taken' = [taken EXCEPT ![w][round[w]] = @ + 1]
             /\ Last(w) = round[w] - 1 /\ round[w] < Rounds
    <3>1. round' = round
      BY <1>1, <1>5, SwitchStep
    <3>2. ASSUME NEW v \in Workers, v # w PROVE Last(v)' = Last(v)
      BY <2>2, <3>1, <3>2 DEF Last, IInv, TypeOK
    <3>3. Last(w)' = round[w]
      <4>1. taken[w][round[w]] = 0 /\ round[w] \in 0..(Rounds - 1)
        BY <2>2, LastFacts, ConstFacts DEF IInv, TakenInv
      <4>2. taken'[w][round[w]] = 1
        BY <2>2, <4>1 DEF IInv, TypeOK
      <4>. QED BY <2>2, <3>1, <4>2 DEF Last
    <3>4. /\ arrived[w] = round[w] /\ arrived[w] < Rounds /\ arrived'[w] = round[w] + 1
          /\ \A v \in Workers : v # w => arrived'[v] = arrived[v]
      BY <1>2, <1>3, <2>2, <3>2, <3>3, LastFacts DEF IInv
    <3>5. arrived' = [arrived EXCEPT ![w] = @ + 1]
      BY <3>4
    <3>6. Barrier!Arrive(w)
      BY <3>1, <3>4, <3>5 DEF Barrier!Arrive
    <3>. QED BY <3>6 DEF Barrier!Next
  <2>. QED BY <1>1, <1>5, <2>1, <2>2, SwitchStep
<1>6. ASSUME NEW w \in Workers, Receive(w)
      PROVE  [Barrier!Next]_<<arrived, round>>
  <2>1. /\ \A v \in Workers : Last(v)' = Last(v)
        /\ \/ round' = round
           \/ /\ round' = [round EXCEPT ![w] = @ + 1]
              /\ \A v \in Workers : round[w] <= Last(v)
    BY <1>1, <1>6, ReceiveStep
  <2>2. CASE round' = round
    BY <1>4, <2>1, <2>2
  <2>3. CASE /\ round' = [round EXCEPT ![w] = @ + 1]
             /\ \A v \in Workers : round[w] <= Last(v)
    <3>1. \A v \in Workers : arrived[v] > round[w]
      BY <1>2, <2>3, LastFacts DEF IInv
    <3>2. UNCHANGED arrived
      BY <1>2, <1>3, <2>1
    <3>3. Barrier!Leave(w)
      BY <2>3, <3>1, <3>2 DEF Barrier!Leave
    <3>. QED BY <3>3 DEF Barrier!Next
  <2>. QED BY <2>1, <2>2, <2>3
<1>7. ASSUME NEW w \in Workers, Send(w) \/ Lose(w)
      PROVE  UNCHANGED <<arrived, round>>
  <2>1. round' = round /\ \A v \in Workers : Last(v)' = Last(v)
    BY <1>1, <1>7, SendStep, LoseStep DEF Send, Lose
  <2>. QED BY <1>4, <2>1
<1>8. CASE UNCHANGED vars
  BY <1>4, <1>8 DEF vars, Last
<1>. QED BY <1>5, <1>6, <1>7, <1>8 DEF Next, Finished

\* The switch implements the abstract barrier: nobody leaves a round before
\* the values of all have been taken, whatever is lost or resent.
THEOREM SwitchIsBarrier == Spec => ImplementsBarrier
<1>1. Init => Barrier!Init
  BY BarrierInit
<1>2. IInv /\ IInv' /\ [Next]_vars
        => [Barrier!Next]_<<[w \in Workers |-> Taken(w)], round>>
  BY BarrierStep
<1>. QED BY <1>1, <1>2, Invariant, PTL DEF Spec, ImplementsBarrier, Barrier!Spec
-------------------------------------------------------------------------------
(* Nobody resends in vain.                                                 *)

\* The packet a worker sends for its round is counted, or it is answered.
Moves(w) ==
  LET s == SlotOf(round[w])
  IN  \/ IsNew(w, s)
      \/ w \in Receivers(IsNew(w, s), Complete(CounterAfter(w, s)[s]), w)

\* Whoever waits for a result gets it by resending, or the round lacks a value
\* of somebody whose own packet is counted or answered.
NeverInVain ==
  \A w \in Workers : round[w] < Rounds =>
    \E v \in Workers :
      /\ v = w \/ taken[v][round[w]] = 0
      /\ round[v] <= round[w] /\ Moves(v)

\* A worker whose packet is no longer new can be answered as soon as its slot
\* is complete.
LEMMA MovesIf ==
  ASSUME NEW w \in Workers,
         IsNew(w, SlotOf(round[w])) \/ Complete(counter[SlotOf(round[w])])
  PROVE  Moves(w)
<1>1. CASE IsNew(w, SlotOf(round[w]))
  BY <1>1 DEF Moves
<1>2. CASE ~IsNew(w, SlotOf(round[w])) /\ Complete(counter[SlotOf(round[w])])
  BY <1>2 DEF Moves, CounterAfter, Receivers
<1>. QED BY <1>1, <1>2

LEMMA InVainNowhere == IInv => NeverInVain
<1>. SUFFICES ASSUME IInv, NEW w \in Workers, round[w] < Rounds
              PROVE  \E v \in Workers :
                       /\ v = w \/ taken[v][round[w]] = 0
                       /\ round[v] <= round[w] /\ Moves(v)
  BY DEF NeverInVain
<1>. DEFINE r == round[w]
<1>1. r \in 0..(Rounds - 1) /\ Rounds \in Nat
  BY ConstFacts DEF IInv, TypeOK
<1>2. CASE IsNew(w, SlotOf(r))
  BY <1>1, <1>2, MovesIf
<1>3. CASE ~IsNew(w, SlotOf(r))
  <2>1. SlotOf(r) \in Slots /\ SlotOf(r - 1) = Other(SlotOf(r))
        /\ SlotOf(r + 1) = Other(SlotOf(r)) /\ SlotOf(r - 1) # SlotOf(r)
        /\ Other(SlotOf(r + 1)) = SlotOf(r)
    <3>1. r \in Int
      BY <1>1
    <3>. QED BY <3>1, SlotFacts DEF Other, SlotOf, Slots
  <2>2. Last(w) = r
    <3>1. SlotOf(Last(w)) = SlotOf(r)
      BY <1>3, <2>1 DEF IsNew, IInv, BitInv
    <3>2. Last(w) = r \/ Last(w) = r - 1
      BY LastFacts DEF IInv
    <3>. QED BY <3>1, <3>2, <2>1
  <2>3. PICK m \in -1..(Rounds - 1) : NewestIs(m)
    BY DEF IInv, CountInv
  <2>4. m = r \/ m = r + 1
    <3>1. Last(w) = m \/ Last(w) = m - 1
      BY <2>3 DEF NewestIs
    <3>. QED BY <3>1, <2>2, <1>1
  <2>5. CASE m = r + 1
    <3>1. Complete(counter[SlotOf(r)])
      BY <2>1, <2>3, <2>5 DEF NewestIs, Complete
    <3>. QED BY <3>1, <1>1, MovesIf
  <2>6. CASE m = r /\ \A v \in Workers : Last(v) = r
    <3>1. bitmap[SlotOf(r)] = Workers
      <4>1. bitmap[SlotOf(r)] \in SUBSET Workers
        BY <2>1 DEF IInv, TypeOK
      <4>2. \A v \in Workers : v \in bitmap[SlotOf(r)]
        BY <1>1, <2>1, <2>6 DEF IInv, BitInv
      <4>. QED BY <4>1, <4>2
    <3>2. NodeSize \in Nat \ {0} /\ Cardinality(Workers) = NodeSize
      BY ConstFacts
    <3>3. NodeSize % NodeSize = 0
      BY <3>2, ModSmall
    <3>4. counter[SlotOf(r)] % NodeSize = 0
      BY <2>3, <2>6, <3>1, <3>2, <3>3 DEF NewestIs
    <3>. QED BY <3>4, <1>1, MovesIf DEF Complete
  <2>7. ASSUME m = r, NEW v \in Workers, Last(v) # r
        PROVE  taken[v][r] = 0 /\ round[v] <= r /\ Moves(v)
    <3>1. Last(v) = r - 1
      BY <2>3, <2>7 DEF NewestIs
    <3>2. taken[v][r] = 0
      <4>1. ~(r <= Last(v))
        BY <1>1, <3>1
      <4>. QED BY <1>1, <4>1 DEF IInv, TakenInv
    <3>3. round[v] = r \/ round[v] = r - 1
      <4>1. round[v] \in 0..Rounds /\ (Last(v) = round[v] \/ Last(v) = round[v] - 1)
        BY LastFacts DEF IInv
      <4>. QED BY <1>1, <3>1, <4>1
    <3>4. CASE round[v] = r
      <4>1. ~(SlotOf(Last(v)) = SlotOf(r))
        BY <2>1, <3>1
      <4>2. IsNew(v, SlotOf(r))
        BY <2>1, <4>1 DEF IInv, BitInv, IsNew
      <4>. QED BY <1>1, <3>2, <3>4, <4>2, MovesIf
    <3>5. CASE round[v] = r - 1
      <4>1. Complete(counter[SlotOf(r - 1)])
        BY <2>1, <2>3, <2>7 DEF NewestIs, Complete
      <4>2. Moves(v)
        BY <3>5, <4>1, MovesIf
      <4>. QED BY <1>1, <3>2, <3>5, <4>2
    <3>. QED BY <3>3, <3>4, <3>5
  <2>. QED BY <2>4, <2>5, <2>6, <2>7
<1>. QED BY <1>2, <1>3

\* In every state, whatever was lost, somebody's next packet goes through
\* bitmap.p4 and counter.p4 as new or is answered by forward.p4, and whoever is
\* not answered waits for the value of one of those: resending never ends in
\* workers that all ask and are not heard.
THEOREM ResendNeverInVain == Spec => []NeverInVain
  BY InVainNowhere, Invariant, PTL
===============================================================================
