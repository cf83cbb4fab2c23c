-------------------------- MODULE RaftStoreProofs --------------------------
(***************************************************************************)
(* The log and stable store of a Raft node, for numbers of any width, any  *)
(* number of entries, terms and candidates: the order of byte keys is that *)
(* of numbers, so that the store implements the log store hraft expects,   *)
(* and what is persisted keeps a node from voting twice.                   *)
(*                                                                         *)
(* Facts about the recursive functions of the encoding are proved by       *)
(* induction over sets of numbers (NatInd).                                *)
(***************************************************************************)
EXTENDS RaftStore, WellFoundedInduction, TLAPS

-----------------------------------------------------------------------------
(* Induction.                                                              *)

(***************************************************************************)
(* A non-empty set of numbers has a least one.                             *)
(***************************************************************************)
LEMMA NatMin ==
  ASSUME NEW T, T \subseteq Nat, T # {}
  PROVE  \E m \in T : \A n \in T : m <= n
<1>1. PICK m \in T : \A n \in T : ~(<<n, m>> \in OpToRel(<, Nat))
  BY WFMin, NatLessThanWellFounded, Zenon
<1>2. \A n \in T : n \in Nat /\ m \in Nat
  OBVIOUS
<1>3. \A n \in T : ~(n < m)
  BY <1>1, <1>2 DEF OpToRel
<1>. QED
  BY <1>2, <1>3

(***************************************************************************)
(* Induction over numbers, for a set.                                      *)
(***************************************************************************)
LEMMA NatInd ==
  ASSUME NEW S, 0 \in S, \A n \in Nat : n \in S => n + 1 \in S
  PROVE  Nat \subseteq S
<1>. SUFFICES ASSUME Nat \ S # {} PROVE FALSE
  OBVIOUS
<1>1. PICK m \in Nat \ S : \A n \in Nat \ S : m <= n
  BY NatMin
<1>2. m # 0 /\ m - 1 \in Nat
  BY <1>1
<1>3. m - 1 \in S
  BY <1>1, <1>2
<1>. QED
  BY <1>1, <1>2, <1>3

-----------------------------------------------------------------------------
(* Numbers as keys.                                                        *)

\* The numbers uint64ToBytes takes bytes from, the values of prefixes of b, and
\* the bytes of MaxUint64.
Shifted(u) == CHOOSE f : f = [n \in 0..MaxLen |-> IF n = 0 THEN u ELSE f[n - 1] \div Base]
Value(b) == CHOOSE f : f = [i \in 0..MaxLen |-> IF i = 0 THEN 0 ELSE Base * f[i - 1] + b[i]]
Full == [i \in 1..MaxLen |-> Base - 1]

(***************************************************************************)
(* uint64ToBytes (store.go:310) by the numbers it shifts out.              *)
(***************************************************************************)
LEMMA Enc ==
  ASSUME NEW u
  PROVE  uint64ToBytes(u) = [i \in 1..MaxLen |-> Shifted(u)[MaxLen - i] % Base]
BY DEF uint64ToBytes, Shifted

(***************************************************************************)
(* bytesToUint64 (store.go:305) by the values of prefixes.                 *)
(***************************************************************************)
LEMMA Dec ==
  ASSUME NEW b
  PROVE  bytesToUint64(b) = Value(b)[MaxLen]
BY DEF bytesToUint64, Value

(***************************************************************************)
(* The recursion of uint64ToBytes is well defined (store.go:310).          *)
(***************************************************************************)
LEMMA ShiftedDef ==
  ASSUME NEW u
  PROVE  /\ Shifted(u)[0] = u
         /\ \A n \in 1..MaxLen : Shifted(u)[n] = Shifted(u)[n - 1] \div Base
<1>. DEFINE Rec(f, m) == f = [n \in 0..m |-> IF n = 0 THEN u ELSE f[n - 1] \div Base]
            S == {m \in Nat : \E f : Rec(f, m)}
<1>1. 0 \in S
  <2>1. Rec([n \in 0..0 |-> u], 0)
    OBVIOUS
  <2>. QED
    BY <2>1
<1>2. ASSUME NEW m \in Nat, m \in S PROVE m + 1 \in S
  <2>1. PICK f : Rec(f, m)
    BY <1>2
  <2>. DEFINE g == [n \in 0..(m + 1) |-> IF n = m + 1 THEN f[m] \div Base ELSE f[n]]
  <2>2. \A n \in 0..m : f[n] = IF n = 0 THEN u ELSE f[n - 1] \div Base
    BY <2>1
  <2>3. \A n \in 0..(m + 1) : g[n] = IF n = 0 THEN u ELSE g[n - 1] \div Base
    <3>. TAKE n \in 0..(m + 1)
    <3>1. CASE n = 0
      BY <3>1, <2>2
    <3>2. CASE n = m + 1
      BY <3>2
    <3>3. CASE n \in 1..m
      BY <3>3, <2>2
    <3>. QED
      BY <3>1, <3>2, <3>3
  <2>4. Rec(g, m + 1)
    BY <2>3
  <2>. HIDE DEF g, Rec
  <2>. QED
    BY <2>4
<1>. HIDE DEF S
<1>3. MaxLen \in S
  BY <1>1, <1>2, NatInd, KeysAssumption
<1>4. \E f : Rec(f, MaxLen)
  BY <1>3 DEF S
<1>5. Rec(Shifted(u), MaxLen)
  BY <1>4 DEF Shifted
<1>. QED
  BY <1>5, KeysAssumption

(***************************************************************************)
(* The recursion of bytesToUint64 is well defined (store.go:305).          *)
(***************************************************************************)
LEMMA ValueDef ==
  ASSUME NEW b
  PROVE  /\ Value(b)[0] = 0
         /\ \A i \in 1..MaxLen : Value(b)[i] = Base * Value(b)[i - 1] + b[i]
<1>. DEFINE Rec(f, m) == f = [i \in 0..m |-> IF i = 0 THEN 0 ELSE Base * f[i - 1] + b[i]]
            S == {m \in Nat : \E f : Rec(f, m)}
<1>1. 0 \in S
  <2>1. Rec([i \in 0..0 |-> 0], 0)
    OBVIOUS
  <2>. HIDE DEF Rec
  <2>. QED
    BY <2>1
<1>2. ASSUME NEW m \in Nat, m \in S PROVE m + 1 \in S
  <2>1. PICK f : Rec(f, m)
    BY <1>2
  <2>. DEFINE g == [i \in 0..(m + 1) |-> IF i = m + 1 THEN Base * f[m] + b[i] ELSE f[i]]
  <2>2. \A i \in 0..m : f[i] = IF i = 0 THEN 0 ELSE Base * f[i - 1] + b[i]
    BY <2>1
  <2>3. \A i \in 0..(m + 1) : g[i] = IF i = 0 THEN 0 ELSE Base * g[i - 1] + b[i]
    <3>. TAKE i \in 0..(m + 1)
    <3>1. CASE i = 0
      BY <3>1, <2>2
    <3>2. CASE i = m + 1
      BY <3>2
    <3>3. CASE i \in 1..m
      BY <3>3, <2>2
    <3>. QED
      BY <3>1, <3>2, <3>3
  <2>4. Rec(g, m + 1)
    BY <2>3
  <2>. HIDE DEF g, Rec
  <2>. QED
    BY <2>4
<1>. HIDE DEF S
<1>3. MaxLen \in S
  BY <1>1, <1>2, NatInd, KeysAssumption
<1>4. \E f : Rec(f, MaxLen)
  BY <1>3 DEF S
<1>5. Rec(Value(b), MaxLen)
  BY <1>4 DEF Value
<1>. QED
  BY <1>5, KeysAssumption

(***************************************************************************)
(* bytesToUint64 computes with natural numbers.                            *)
(***************************************************************************)
LEMMA ValueType ==
  ASSUME NEW b \in [1..MaxLen -> Bytes]
  PROVE  \A i \in 0..MaxLen : Value(b)[i] \in Nat
<1>. DEFINE S == {i \in Nat : i \in 0..MaxLen => Value(b)[i] \in Nat}
<1>1. 0 \in S
  BY ValueDef
<1>2. ASSUME NEW i \in Nat, i \in S PROVE i + 1 \in S
  <2>. SUFFICES ASSUME i + 1 \in 0..MaxLen PROVE Value(b)[i + 1] \in Nat
    OBVIOUS
  <2>1. i + 1 \in 1..MaxLen /\ i \in 0..MaxLen /\ b[i + 1] \in Nat /\ (i + 1) - 1 = i
    BY KeysAssumption DEF Bytes
  <2>2. Value(b)[i + 1] = Base * Value(b)[i] + b[i + 1]
    BY <2>1, ValueDef
  <2>3. Value(b)[i] \in Nat
    BY <1>2, <2>1
  <2>. QED
    BY <2>1, <2>2, <2>3, KeysAssumption
<1>. HIDE DEF S
<1>3. Nat \subseteq S
  BY <1>1, <1>2, NatInd
<1>. QED
  BY <1>3, KeysAssumption DEF S

(***************************************************************************)
(* What uint64ToBytes shifts out of a number fits into the bytes left.     *)
(***************************************************************************)
LEMMA ShiftedBound ==
  ASSUME NEW u \in Nat, u <= MaxUint64
  PROVE  \A n \in 0..MaxLen : Shifted(u)[n] \in Nat /\ Shifted(u)[n] <= Value(Full)[MaxLen - n]
<1>. DEFINE S == {n \in Nat : n \in 0..MaxLen =>
                    Shifted(u)[n] \in Nat /\ Shifted(u)[n] <= Value(Full)[MaxLen - n]}
<1>0. Full \in [1..MaxLen -> Bytes] /\ MaxUint64 = Value(Full)[MaxLen]
  BY Dec, KeysAssumption DEF Full, Bytes, MaxUint64
<1>1. 0 \in S
  BY <1>0, ShiftedDef, KeysAssumption
<1>2. ASSUME NEW n \in Nat, n \in S PROVE n + 1 \in S
  <2>. SUFFICES ASSUME n + 1 \in 0..MaxLen
       PROVE Shifted(u)[n + 1] \in Nat /\ Shifted(u)[n + 1] <= Value(Full)[MaxLen - (n + 1)]
    OBVIOUS
  <2>. DEFINE x == Shifted(u)[n]  y == Value(Full)[MaxLen - (n + 1)]
  <2>1. /\ n + 1 \in 1..MaxLen /\ n \in 0..MaxLen
        /\ MaxLen - n \in 1..MaxLen /\ (MaxLen - n) - 1 = MaxLen - (n + 1)
    BY KeysAssumption
  <2>2. Shifted(u)[n + 1] = x \div Base
    BY <2>1, ShiftedDef
  <2>3. Full[MaxLen - n] = Base - 1
    BY <2>1 DEF Full
  <2>4. Value(Full)[MaxLen - n] = Base * y + (Base - 1)
    BY <2>1, <2>3, ValueDef
  <2>5. y \in Nat
    BY <1>0, <2>1, ValueType, KeysAssumption
  <2>6. x \in Nat /\ x <= Base * y + (Base - 1)
    BY <1>2, <2>1, <2>4
  <2>. HIDE DEF x, y
  <2>7. x \div Base \in Nat /\ x \div Base <= y
    BY <2>5, <2>6, KeysAssumption
  <2>. QED
    BY <2>2, <2>7 DEF y
<1>. HIDE DEF S
<1>3. Nat \subseteq S
  BY <1>1, <1>2, NatInd
<1>. QED
  BY <1>3, KeysAssumption DEF S

(***************************************************************************)
(* A number that is read back from a store is the one that was written,    *)
(* for any number of bytes (store.go:305-314).                             *)
(***************************************************************************)
LEMMA RoundTrip ==
  ASSUME NEW u \in Nat, u <= MaxUint64
  PROVE  /\ uint64ToBytes(u) \in [1..MaxLen -> Bytes]
         /\ bytesToUint64(uint64ToBytes(u)) = u
<1>. DEFINE b == uint64ToBytes(u)
            S == {i \in Nat : i \in 0..MaxLen => Value(b)[i] = Shifted(u)[MaxLen - i]}
<1>0. \A n \in 0..MaxLen : Shifted(u)[n] \in Nat
  BY ShiftedBound
<1>1. \A i \in 1..MaxLen : b[i] = Shifted(u)[MaxLen - i] % Base
  BY Enc
<1>2. b \in [1..MaxLen -> Bytes]
  <2>1. \A i \in 1..MaxLen : Shifted(u)[MaxLen - i] % Base \in Bytes
    <3>. TAKE i \in 1..MaxLen
    <3>1. Shifted(u)[MaxLen - i] \in Nat
      BY <1>0, KeysAssumption
    <3>. QED
      BY <3>1, KeysAssumption DEF Bytes
  <2>. QED
    BY <2>1, Enc
<1>3. 0 \in S
  <2>1. Value(Full)[0] = 0 /\ Value(b)[0] = 0
    BY ValueDef
  <2>2. Shifted(u)[MaxLen] \in Nat /\ Shifted(u)[MaxLen] <= Value(Full)[MaxLen - MaxLen]
    BY ShiftedBound, KeysAssumption
  <2>3. Shifted(u)[MaxLen] = 0
    BY <2>1, <2>2, KeysAssumption
  <2>. QED
    BY <2>1, <2>3, KeysAssumption
<1>4. ASSUME NEW i \in Nat, i \in S PROVE i + 1 \in S
  <2>. SUFFICES ASSUME i + 1 \in 0..MaxLen
                PROVE  Value(b)[i + 1] = Shifted(u)[MaxLen - (i + 1)]
    OBVIOUS
  <2>. DEFINE x == Shifted(u)[MaxLen - (i + 1)]
  <2>1. /\ i + 1 \in 1..MaxLen /\ i \in 0..MaxLen /\ MaxLen - i \in 1..MaxLen
        /\ (MaxLen - i) - 1 = MaxLen - (i + 1) /\ MaxLen - (i + 1) \in 0..MaxLen
    BY KeysAssumption
  <2>2. Value(b)[i + 1] = Base * Value(b)[i] + b[i + 1]
    BY <2>1, ValueDef
  <2>3. Shifted(u)[MaxLen - i] = x \div Base
    BY <2>1, ShiftedDef
  <2>4. b[i + 1] = x % Base
    BY <1>1, <2>1
  <2>5. Value(b)[i] = Shifted(u)[MaxLen - i]
    BY <1>4, <2>1
  <2>6. x \in Nat
    BY <1>0, <2>1
  <2>. HIDE DEF x
  <2>7. Base * (x \div Base) + (x % Base) = x
    BY <2>6, KeysAssumption
  <2>. QED
    BY <2>2, <2>3, <2>4, <2>5, <2>7 DEF x
<1>. HIDE DEF S
<1>5. Nat \subseteq S
  BY <1>3, <1>4, NatInd
<1>6. Value(b)[MaxLen] = Shifted(u)[0]
  BY <1>5, KeysAssumption DEF S
<1>. QED
  BY <1>2, <1>6, Dec, ShiftedDef

(***************************************************************************)
(* Encoded numbers are byte sequences of one length.                       *)
(***************************************************************************)
LEMMA KeySeq ==
  ASSUME NEW a \in [1..MaxLen -> Bytes]
  PROVE  a \in Seq(Bytes) /\ Len(a) = MaxLen
BY KeysAssumption

(***************************************************************************)
(* Keys of one length are ordered by the first byte that differs           *)
(* (bytes.Compare).                                                        *)
(***************************************************************************)
LEMMA FirstDiff ==
  ASSUME NEW a \in [1..MaxLen -> Bytes], NEW b \in [1..MaxLen -> Bytes]
  PROVE  Less(a, b) <=> \E i \in 1..MaxLen : a[i] < b[i] /\ \A j \in 1..(i - 1) : a[j] = b[j]
<1>1. Len(a) = MaxLen /\ Len(b) = MaxLen /\ MaxLen \in Nat /\ a \in Seq(Bytes) /\ b \in Seq(Bytes)
  BY KeySeq, KeysAssumption
<1>2. ~(HasPrefix(b, a) /\ a # b)
  <2>1. SubSeq(b, 1, MaxLen) = b
    BY <1>1
  <2>. QED
    BY <1>1, <2>1 DEF HasPrefix
<1>3. ASSUME NEW i \in 1..MaxLen
      PROVE  SubSeq(a, 1, i - 1) = SubSeq(b, 1, i - 1) <=> \A j \in 1..(i - 1) : a[j] = b[j]
  <2>1. /\ SubSeq(a, 1, i - 1) = [j \in 1..(i - 1) |-> a[j]]
        /\ SubSeq(b, 1, i - 1) = [j \in 1..(i - 1) |-> b[j]]
    BY <1>1
  <2>. QED
    BY <2>1
<1>. QED
  BY <1>1, <1>2, <1>3 DEF Less

(***************************************************************************)
(* A smaller key decodes to a smaller number.                              *)
(***************************************************************************)
LEMMA LessValue ==
  ASSUME NEW a \in [1..MaxLen -> Bytes], NEW b \in [1..MaxLen -> Bytes], Less(a, b)
  PROVE  bytesToUint64(a) < bytesToUint64(b)
<1>1. PICK i \in 1..MaxLen : a[i] < b[i] /\ \A j \in 1..(i - 1) : a[j] = b[j]
  BY FirstDiff
<1>2. \A j \in 0..MaxLen : Value(a)[j] \in Nat /\ Value(b)[j] \in Nat
  BY ValueType
<1>3. Value(a)[0] = 0 /\ Value(b)[0] = 0
  BY ValueDef
<1>4. \A j \in 1..MaxLen : /\ Value(a)[j] = Base * Value(a)[j - 1] + a[j]
                          /\ Value(b)[j] = Base * Value(b)[j - 1] + b[j]
  BY ValueDef
<1>. DEFINE S == {j \in Nat : j \in 0..(i - 1) => Value(a)[j] = Value(b)[j]}
            T == {j \in Nat : j \in i..MaxLen => Value(a)[j] < Value(b)[j]}
<1>5. Nat \subseteq S
  <2>1. 0 \in S
    BY <1>3
  <2>2. ASSUME NEW j \in Nat, j \in S PROVE j + 1 \in S
    <3>. SUFFICES ASSUME j + 1 \in 0..(i - 1) PROVE Value(a)[j + 1] = Value(b)[j + 1]
      OBVIOUS
    <3>1. /\ j + 1 \in 1..MaxLen /\ j + 1 \in 1..(i - 1) /\ j \in 0..(i - 1) /\ (j + 1) - 1 = j
      BY KeysAssumption
    <3>2. Value(a)[j] = Value(b)[j]
      BY <2>2, <3>1
    <3>3. a[j + 1] = b[j + 1]
      BY <1>1, <3>1
    <3>. QED
      BY <1>4, <3>1, <3>2, <3>3
  <2>. HIDE DEF S
  <2>. QED
    BY <2>1, <2>2, NatInd
<1>6. Value(a)[i - 1] = Value(b)[i - 1]
  BY <1>5
<1>7. Value(a)[i] < Value(b)[i]
  <2>1. i - 1 \in 0..MaxLen /\ a[i] \in Nat /\ b[i] \in Nat
    BY KeysAssumption DEF Bytes
  <2>. DEFINE x == Value(a)[i - 1]
  <2>2. x \in Nat /\ Value(a)[i] = Base * x + a[i] /\ Value(b)[i] = Base * x + b[i]
    BY <1>2, <1>4, <1>6, <2>1
  <2>. HIDE DEF x
  <2>. QED
    BY <1>1, <2>1, <2>2, KeysAssumption
<1>8. Nat \subseteq T
  <2>1. 0 \in T
    BY KeysAssumption
  <2>2. ASSUME NEW j \in Nat, j \in T PROVE j + 1 \in T
    <3>. SUFFICES ASSUME j + 1 \in i..MaxLen PROVE Value(a)[j + 1] < Value(b)[j + 1]
      OBVIOUS
    <3>1. CASE j + 1 = i
      BY <1>7, <3>1
    <3>2. CASE j \in i..MaxLen
      <4>. DEFINE x == Value(a)[j]  y == Value(b)[j]
      <4>1. j + 1 \in 1..MaxLen /\ j \in 0..MaxLen /\ (j + 1) - 1 = j
        BY <3>2, KeysAssumption
      <4>2. /\ Value(a)[j + 1] = Base * x + a[j + 1]
            /\ Value(b)[j + 1] = Base * y + b[j + 1]
        BY <1>4, <4>1
      <4>3. x \in Nat /\ y \in Nat /\ x < y
        BY <1>2, <2>2, <3>2, <4>1
      <4>4. a[j + 1] \in 0..(Base - 1) /\ b[j + 1] \in 0..(Base - 1)
        BY <4>1 DEF Bytes
      <4>. HIDE DEF x, y
      <4>5. Base * x + a[j + 1] < Base * y + b[j + 1]
        BY <4>3, <4>4, KeysAssumption
      <4>. QED
        BY <4>2, <4>5
    <3>. QED
      BY <3>1, <3>2, KeysAssumption
  <2>. HIDE DEF T
  <2>. QED
    BY <2>1, <2>2, NatInd
<1>. QED
  BY <1>8, KeysAssumption, Dec

(***************************************************************************)
(* Different keys of one length are ordered.                               *)
(***************************************************************************)
LEMMA LessTotal ==
  ASSUME NEW a \in [1..MaxLen -> Bytes], NEW b \in [1..MaxLen -> Bytes], a # b
  PROVE  Less(a, b) \/ Less(b, a)
<1>. DEFINE T == {j \in 1..MaxLen : a[j] # b[j]}
<1>1. T # {} /\ T \subseteq Nat
  BY KeysAssumption
<1>. HIDE DEF T
<1>2. PICK i \in T : \A j \in T : i <= j
  BY <1>1, NatMin
<1>3. i \in 1..MaxLen /\ a[i] # b[i] /\ a[i] \in Nat /\ b[i] \in Nat
  BY <1>2, KeysAssumption DEF T, Bytes
<1>4. \A j \in 1..(i - 1) : a[j] = b[j]
  BY <1>2, <1>3, KeysAssumption DEF T
<1>5. CASE a[i] < b[i]
  BY <1>3, <1>4, <1>5, FirstDiff
<1>6. CASE b[i] < a[i]
  BY <1>3, <1>4, <1>6, FirstDiff
<1>. QED
  BY <1>3, <1>5, <1>6

(***************************************************************************)
(* The order of keys in the store is the order of indexes, on which        *)
(* FirstIndex, LastIndex and DeleteRange rest (store.go:173-199, 247-255). *)
(***************************************************************************)
THEOREM KeyOrder ==
  ASSUME NEW u \in Nat, NEW v \in Nat, u <= MaxUint64, v <= MaxUint64
  PROVE  Less(uint64ToBytes(u), uint64ToBytes(v)) <=> u < v
<1>. DEFINE a == uint64ToBytes(u)  b == uint64ToBytes(v)
<1>1. /\ a \in [1..MaxLen -> Bytes] /\ b \in [1..MaxLen -> Bytes]
      /\ bytesToUint64(a) = u /\ bytesToUint64(b) = v
  BY RoundTrip
<1>. HIDE DEF a, b
<1>2. Less(a, b) => u < v
  BY <1>1, LessValue
<1>3. Less(b, a) => v < u
  BY <1>1, LessValue
<1>4. u # v => Less(a, b) \/ Less(b, a)
  BY <1>1, LessTotal
<1>. QED
  BY <1>2, <1>3, <1>4 DEF a, b

(***************************************************************************)
(* math.MaxUint64 is a number.                                             *)
(***************************************************************************)
LEMMA MaxType == MaxUint64 \in Nat
<1>1. Full \in [1..MaxLen -> Bytes] /\ MaxUint64 = Value(Full)[MaxLen]
  BY Dec, KeysAssumption DEF Full, Bytes, MaxUint64
<1>. QED
  BY <1>1, ValueType, KeysAssumption

(***************************************************************************)
(* The keys of indexes, and of the exclusive bound after the last of them  *)
(* (store.go:247-255).                                                     *)
(***************************************************************************)
LEMMA KeyFacts ==
  ASSUME NEW i \in 0..(MaxIndex + 1)
  PROVE  /\ i \in Nat /\ i <= MaxUint64
         /\ uint64ToBytes(i) \in [1..MaxLen -> Bytes]
         /\ uint64ToBytes(i) # Nil
         /\ bytesToUint64(uint64ToBytes(i)) = i
         /\ \A j \in 0..(MaxIndex + 1) : Less(uint64ToBytes(i), uint64ToBytes(j)) <=> i < j
<1>1. \A j \in 0..(MaxIndex + 1) : j \in Nat /\ j <= MaxUint64
  BY MaxType, StoreAssumption
<1>2. uint64ToBytes(i) \in Keys
  BY <1>1, RoundTrip, KeysAssumption DEF Keys
<1>. QED
  BY <1>1, <1>2, RoundTrip, KeyOrder, KeysAssumption

-----------------------------------------------------------------------------
(* The log.                                                                *)

\* The keys are those of indexes.
OfIndexes(K) == \A k \in K : \E i \in Indexes : k = uint64ToBytes(i)

(***************************************************************************)
(* A scan starts at the least index (store.go:173-183).                    *)
(***************************************************************************)
LEMMA LeastKey ==
  ASSUME NEW K, K # {}, OfIndexes(K)
  PROVE  \E i \in Indexes : /\ uint64ToBytes(i) \in K /\ bytesToUint64(Least(K)) = i
                            /\ \A j \in Indexes : uint64ToBytes(j) \in K => i <= j
<1>. DEFINE T == {i \in Indexes : uint64ToBytes(i) \in K}
<1>1. T # {} /\ T \subseteq Nat
  BY DEF OfIndexes, Indexes
<1>2. PICK i \in T : \A j \in T : i <= j
  BY <1>1, NatMin
<1>3. Indexes \subseteq 0..(MaxIndex + 1)
  BY StoreAssumption DEF Indexes
<1>4. \A l \in K \ {uint64ToBytes(i)} : Less(uint64ToBytes(i), l)
  <2>. TAKE l \in K \ {uint64ToBytes(i)}
  <2>1. PICK j \in Indexes : l = uint64ToBytes(j)
    BY DEF OfIndexes
  <2>2. i # j /\ i <= j
    BY <1>2, <2>1
  <2>. QED
    BY <1>3, <2>1, <2>2, KeyFacts, StoreAssumption DEF Indexes
<1>5. Least(K) \in K /\ \A l \in K \ {Least(K)} : Less(Least(K), l)
  BY <1>4 DEF Least
<1>6. PICK m \in Indexes : Least(K) = uint64ToBytes(m)
  BY <1>5 DEF OfIndexes
<1>7. m \in T /\ i <= m
  BY <1>2, <1>5, <1>6
<1>8. uint64ToBytes(i) # Least(K) => m < i
  BY <1>3, <1>5, <1>6, KeyFacts
<1>9. m = i
  BY <1>3, <1>6, <1>7, <1>8, KeyFacts DEF Indexes
<1>. QED
  BY <1>2, <1>3, <1>6, <1>9, KeyFacts

(***************************************************************************)
(* A reverse scan starts at the greatest index (store.go:188-198).         *)
(***************************************************************************)
LEMMA GreatestKey ==
  ASSUME NEW K, K # {}, OfIndexes(K)
  PROVE  \E i \in Indexes : /\ uint64ToBytes(i) \in K /\ bytesToUint64(Greatest(K)) = i
                            /\ \A j \in Indexes : uint64ToBytes(j) \in K => j <= i
<1>. DEFINE T == {n \in 0..MaxIndex :
                    MaxIndex - n \in Indexes /\ uint64ToBytes(MaxIndex - n) \in K}
<1>1. \A j \in Indexes : uint64ToBytes(j) \in K => MaxIndex - j \in T
  <2>. TAKE j \in Indexes
  <2>1. MaxIndex - j \in 0..MaxIndex /\ MaxIndex - (MaxIndex - j) = j
    BY StoreAssumption DEF Indexes
  <2>. QED
    BY <2>1
<1>2. T # {} /\ T \subseteq Nat
  BY <1>1 DEF OfIndexes
<1>3. PICK n \in T : \A x \in T : n <= x
  BY <1>2, NatMin
<1>. DEFINE i == MaxIndex - n
<1>4. i \in Indexes /\ uint64ToBytes(i) \in K /\ n \in Nat
  BY <1>3
<1>5. \A j \in Indexes : uint64ToBytes(j) \in K => j <= i
  <2>. TAKE j \in Indexes
  <2>. HAVE uint64ToBytes(j) \in K
  <2>1. n <= MaxIndex - j
    BY <1>1, <1>3
  <2>. QED
    BY <1>4, <2>1, StoreAssumption DEF Indexes
<1>. HIDE DEF T, i
<1>6. Indexes \subseteq 0..(MaxIndex + 1)
  BY StoreAssumption DEF Indexes
<1>7. \A l \in K \ {uint64ToBytes(i)} : Less(l, uint64ToBytes(i))
  <2>. TAKE l \in K \ {uint64ToBytes(i)}
  <2>1. PICK j \in Indexes : l = uint64ToBytes(j)
    BY DEF OfIndexes
  <2>2. i # j /\ j <= i
    BY <1>5, <2>1
  <2>. QED
    BY <1>4, <1>6, <2>1, <2>2, KeyFacts, StoreAssumption DEF Indexes
<1>8. Greatest(K) \in K /\ \A l \in K \ {Greatest(K)} : Less(l, Greatest(K))
  BY <1>4, <1>7 DEF Greatest
<1>9. PICK m \in Indexes : Greatest(K) = uint64ToBytes(m)
  BY <1>8 DEF OfIndexes
<1>10. m <= i
  BY <1>5, <1>8, <1>9
<1>11. uint64ToBytes(i) # Greatest(K) => i < m
  BY <1>4, <1>6, <1>8, <1>9, KeyFacts
<1>12. m = i
  BY <1>4, <1>6, <1>9, <1>10, <1>11, KeyFacts DEF Indexes
<1>. QED
  BY <1>4, <1>5, <1>6, <1>9, <1>12, KeyFacts

\* The log holds terms under the keys of indexes.
LogInv == OfIndexes(DOMAIN log) /\ \A k \in DOMAIN log : log[k] \in Terms

\* The indexes stored, and what the operations tell of them.
Stored == {i \in Indexes : uint64ToBytes(i) \in DOMAIN log}

EndsInv ==
  /\ DOMAIN Entries = Stored
  /\ \A i \in Stored : /\ Entries[i] = log[uint64ToBytes(i)] /\ Entries[i] \in Terms
                       /\ Entries[i] # Nil
  /\ \A i \in Indexes : GetLog(i) = IF i \in Stored THEN Entries[i] ELSE Nil
  /\ Stored = {} => FirstIndex = 0 /\ LastIndex = 0
  /\ Stored # {} => /\ FirstIndex \in Stored /\ \A i \in Stored : FirstIndex <= i
                    /\ LastIndex \in Stored /\ \A i \in Stored : i <= LastIndex

(***************************************************************************)
(* What hraft reads from the log store (store.go:173-213).                 *)
(***************************************************************************)
LEMMA LogFacts == LogInv => EndsInv
<1>. SUFFICES ASSUME LogInv PROVE EndsInv
  OBVIOUS
<1>1. Nil \notin Terms
  BY KeysAssumption, StoreAssumption DEF Terms
<1>2. \A i \in Indexes : GetLog(i) # Nil <=> i \in Stored
  BY <1>1 DEF GetLog, Stored, LogInv
<1>3. DOMAIN Entries = Stored
  BY <1>2 DEF Entries, Stored
<1>4. \A i \in Stored : /\ Entries[i] = log[uint64ToBytes(i)] /\ Entries[i] \in Terms
                        /\ Entries[i] # Nil
  BY <1>1, <1>2 DEF Entries, GetLog, Stored, LogInv
<1>5. \A i \in Indexes : GetLog(i) = IF i \in Stored THEN Entries[i] ELSE Nil
  BY <1>2, <1>4 DEF GetLog, Stored
<1>6. Within(log, Nil, Nil) = DOMAIN log
  BY DEF Within
<1>7. CASE Stored = {}
  <2>1. DOMAIN log = {}
    BY <1>7 DEF Stored, LogInv, OfIndexes
  <2>. QED
    BY <1>3, <1>4, <1>5, <1>7, <2>1 DEF EndsInv, FirstIndex, LastIndex
<1>8. CASE Stored # {}
  <2>1. DOMAIN log # {} /\ OfIndexes(DOMAIN log)
    BY <1>8 DEF Stored, LogInv
  <2>2. FirstIndex \in Stored /\ \A i \in Stored : FirstIndex <= i
    BY <1>6, <2>1, LeastKey DEF FirstIndex, Stored
  <2>3. LastIndex \in Stored /\ \A i \in Stored : i <= LastIndex
    BY <1>6, <2>1, GreatestKey DEF LastIndex, Stored
  <2>. QED
    BY <1>3, <1>4, <1>5, <1>8, <2>2, <2>3 DEF EndsInv
<1>. QED
  BY <1>7, <1>8

(***************************************************************************)
(* The same after a step.                                                  *)
(***************************************************************************)
LEMMA LogFactsNext == LogInv' => EndsInv'
BY LogFacts, PTL

(***************************************************************************)
(* The batch of StoreLogs without its first entry.                         *)
(***************************************************************************)
LEMMA BatchFacts ==
  ASSUME NEW S, NEW s \in Seq(S), s # << >>
  PROVE  /\ Len(s) \in Nat \ {0} /\ Head(s) = s[1] /\ Head(s) \in S
         /\ Tail(s) \in Seq(S) /\ Len(Tail(s)) = Len(s) - 1
         /\ \A i \in 1..Len(Tail(s)) : Tail(s)[i] = s[i + 1]
         /\ Len(s) = 1 <=> Tail(s) = << >>
<1>1. Len(s) \in Nat \ {0} /\ Head(s) = s[1] /\ Head(s) \in S /\ Tail(s) \in Seq(S)
  OBVIOUS
<1>2. Len(Tail(s)) = Len(s) - 1 /\ \A i \in 1..Len(Tail(s)) : Tail(s)[i] = s[i + 1]
  OBVIOUS
<1>3. \A t \in Seq(S) : t = << >> <=> Len(t) = 0
  OBVIOUS
<1>4. Tail(s) = << >> <=> Len(Tail(s)) = 0
  BY <1>1, <1>3
<1>5. Len(s) = 1 <=> Tail(s) = << >>
  BY <1>1, <1>2, <1>4
<1>. QED
  BY <1>1, <1>2, <1>5

(***************************************************************************)
(* DeleteRange deletes the indexes from min to max, both included, and no  *)
(* others (store.go:247-255).                                              *)
(***************************************************************************)
LEMMA RangeDeleted ==
  ASSUME LogInv, NEW min \in Indexes, NEW max \in Indexes, DeleteRange(min, max)
  PROVE  /\ LogInv' /\ Stored' = Stored \ (min..max)
         /\ \A i \in Stored' : Entries'[i] = Entries[i]
<1>1. \A i \in Indexes : i \in 0..(MaxIndex + 1) /\ i + 1 \in 0..(MaxIndex + 1) /\ i # MaxUint64
  BY MaxType, StoreAssumption DEF Indexes
<1>2. \A i \in Indexes : /\ uint64ToBytes(i + 1) # Nil
                         /\ ~Less(uint64ToBytes(i), uint64ToBytes(min)) <=> i >= min
                         /\ Less(uint64ToBytes(i), uint64ToBytes(max + 1)) <=> i <= max
  <2>. TAKE i \in Indexes
  <2>1. Less(uint64ToBytes(i), uint64ToBytes(min)) <=> i < min
    BY <1>1, KeyFacts
  <2>2. Less(uint64ToBytes(i), uint64ToBytes(max + 1)) <=> i < max + 1
    BY <1>1, KeyFacts
  <2>. QED
    BY <1>1, <2>1, <2>2, KeyFacts DEF Indexes
<1>3. log' = Without(log, {k \in DOMAIN log : /\ ~Less(k, uint64ToBytes(min))
                                              /\ Less(k, uint64ToBytes(max + 1))})
  BY <1>1, <1>2 DEF DeleteRange, DeletedRange
<1>4. /\ DOMAIN log' \subseteq DOMAIN log /\ \A k \in DOMAIN log' : log'[k] = log[k]
      /\ \A k \in DOMAIN log : k \in DOMAIN log' <=>
           ~(~Less(k, uint64ToBytes(min)) /\ Less(k, uint64ToBytes(max + 1)))
  BY <1>3 DEF Without
<1>5. LogInv'
  BY <1>4 DEF LogInv, OfIndexes
<1>6. \A i \in Indexes : uint64ToBytes(i) \in DOMAIN log' <=>
        uint64ToBytes(i) \in DOMAIN log /\ ~(min <= i /\ i <= max)
  BY <1>2, <1>4 DEF Indexes
<1>7. Stored' = Stored \ (min..max)
  BY <1>6 DEF Stored, Indexes
<1>8. EndsInv /\ EndsInv'
  BY <1>5, LogFacts, LogFactsNext
<1>9. \A i \in Stored' : Entries'[i] = Entries[i]
  BY <1>4, <1>7, <1>8 DEF EndsInv, Stored
<1>. QED
  BY <1>5, <1>7, <1>9

\* What hraft appends.
Entry == [index : Indexes, term : Terms]

(***************************************************************************)
(* SetB of StoreLogs stores its entry under its index only                 *)
(* (store.go:223-242).                                                     *)
(***************************************************************************)
LEMMA EntryStored ==
  ASSUME LogInv, batch \in Seq(Entry), StoreNext
  PROVE  /\ LogInv' /\ Head(batch).index \in Indexes /\ Head(batch).term \in Terms
         /\ Stored' = Stored \cup {Head(batch).index}
         /\ \A i \in Stored' :
              Entries'[i] = IF i = Head(batch).index THEN Head(batch).term ELSE Entries[i]
<1>. DEFINE e == Head(batch)
<1>1. e \in Entry
  BY BatchFacts DEF StoreNext
<1>. HIDE DEF e
<1>2. e.index \in Indexes /\ e.term \in Terms
  BY <1>1 DEF Entry
<1>3. log' = [k \in DOMAIN log \cup {uint64ToBytes(e.index)} |->
                IF k = uint64ToBytes(e.index) THEN e.term ELSE log[k]]
  BY DEF StoreNext, e
<1>4. LogInv'
  BY <1>2, <1>3 DEF LogInv, OfIndexes
<1>5. \A i, j \in Indexes : uint64ToBytes(i) = uint64ToBytes(j) => i = j
  <2>1. \A i \in Indexes : bytesToUint64(uint64ToBytes(i)) = i
    BY KeyFacts, StoreAssumption DEF Indexes
  <2>. QED
    BY <2>1
<1>6. Stored' = Stored \cup {e.index}
  BY <1>2, <1>3, <1>5 DEF Stored
<1>7. EndsInv /\ EndsInv'
  BY <1>4, LogFacts, LogFactsNext
<1>8. \A i \in Stored' : Entries'[i] = IF i = e.index THEN e.term ELSE Entries[i]
  BY <1>2, <1>3, <1>5, <1>6, <1>7 DEF EndsInv, Stored
<1>. QED
  BY <1>2, <1>4, <1>6, <1>8 DEF e

-----------------------------------------------------------------------------
(* The invariant.                                                          *)

\* The terms hraft reads back.
Term == GetUint64("CurrentTerm")
VoteTerm == GetUint64("LastVoteTerm")

\* Types, in terms of indexes. Outside of an open store nothing is in progress.
TypeInv ==
  /\ store \in {"closed", "open", "leaked"}
  /\ LogInv
  /\ DOMAIN stable = StableKeys
  /\ batch \in Seq(Entry)
  /\ range \in {<< >>} \cup (Indexes \X Indexes)
  /\ lastLog \in 0..MaxIndex
  /\ voting \in Candidates \cup {Nil}
  /\ failed \in BOOLEAN
  /\ granted \subseteq Terms \X Candidates
  /\ store # "open" => batch = << >> /\ voting = Nil

\* The term of the last vote is written before the candidate. Votes are of terms up
\* to it; one of that very term is for the candidate written, once both writes are
\* done.
VoteInv ==
  /\ Term \in 0..MaxTerm /\ VoteTerm \in 0..MaxTerm /\ VoteTerm <= Term
  /\ voting # Nil => VoteTerm = Term /\ Term # 0
  /\ \A v \in granted :
       /\ v[1] <= VoteTerm
       /\ v[1] = VoteTerm => voting = Nil /\ v[2] = Get("LastVoteCand")
  /\ OneVote

\* Terms do not decrease in the log, nor in what is still to be appended, and hraft
\* knows the last index, unless an append has failed.
Ascending == \A i, j \in Stored : i < j => Entries[i] <= Entries[j]

AppendInv ==
  ~failed =>
    /\ Ascending
    /\ store = "open" /\ batch = << >> => lastLog = LastIndex
    /\ batch # << >> => \A i \in Stored : i < batch[1].index /\ Entries[i] <= batch[1].term
    /\ \A i, j \in 1..Len(batch) :
         i < j => batch[i].index < batch[j].index /\ batch[i].term <= batch[j].term

(***************************************************************************)
(* The inductive invariant (store.go:173-314).                             *)
(***************************************************************************)
IInv == TypeInv /\ VoteInv /\ AppendInv

-----------------------------------------------------------------------------
(* The steps.                                                              *)

(***************************************************************************)
(* Terms survive the stable store (store.go:286, 293).                     *)
(***************************************************************************)
LEMMA TermKey ==
  ASSUME NEW t \in 0..MaxTerm
  PROVE  uint64ToBytes(t) # Nil /\ bytesToUint64(uint64ToBytes(t)) = t
<1>1. t \in Nat /\ t <= MaxUint64
  BY MaxType, StoreAssumption
<1>2. uint64ToBytes(t) \in Keys
  BY <1>1, RoundTrip, KeysAssumption DEF Keys
<1>. QED
  BY <1>1, <1>2, RoundTrip, KeysAssumption

(***************************************************************************)
(* SetUint64 changes one key of the stable store (store.go:286).           *)
(***************************************************************************)
LEMMA NewTermFacts ==
  ASSUME DOMAIN stable = StableKeys, NEW t \in 0..MaxTerm, NEW key \in StableKeys,
         SetUint64(key, t)
  PROVE  /\ DOMAIN stable' = StableKeys
         /\ stable'[key] # Nil /\ bytesToUint64(stable'[key]) = t
         /\ \A k \in StableKeys \ {key} : stable'[k] = stable[k]
BY TermKey DEF SetUint64

(***************************************************************************)
(* Terms and votes: each of the two writes of a vote, and a crash between  *)
(* them, keeps VoteInv.                                                    *)
(***************************************************************************)
LEMMA VoteStep == TypeInv /\ VoteInv /\ [Next]_vars => VoteInv'
<1>. SUFFICES ASSUME TypeInv, VoteInv, [Next]_vars PROVE VoteInv'
  OBVIOUS
<1>0. {"CurrentTerm", "LastVoteTerm", "LastVoteCand"} = StableKeys
  BY DEF StableKeys
<1>1. CASE UNCHANGED <<stable, granted>> /\ voting' \in {voting, Nil}
  BY <1>1 DEF VoteInv, Term, VoteTerm, GetUint64, Get, OneVote
<1>2. ASSUME NEW t \in Terms, NewTerm(t) PROVE VoteInv'
  <2>1. t \in 0..MaxTerm /\ t > Term /\ voting = Nil /\ UNCHANGED <<voting, granted>>
    BY <1>2 DEF Terms, NewTerm, Idle, Term
  <2>2. Term' = t /\ VoteTerm' = VoteTerm /\ Get("LastVoteCand")' = Get("LastVoteCand")
    BY <1>0, <1>2, <2>1, NewTermFacts DEF NewTerm, TypeInv, Term, VoteTerm, GetUint64, Get
  <2>. QED
    BY <2>1, <2>2 DEF VoteInv, OneVote
<1>3. ASSUME NEW c \in Candidates, Vote(c) PROVE VoteInv'
  <2>0. Term # 0 /\ voting = Nil /\ Term \in 0..MaxTerm
    BY <1>3 DEF Vote, Idle, Term, VoteInv
  <2>1. CASE /\ VoteTerm = Term /\ Get("LastVoteCand") = c
             /\ granted' = granted \cup {<<Term, c>>}
             /\ UNCHANGED <<stable, voting>>
    <3>1. Term' = Term /\ VoteTerm' = VoteTerm /\ Get("LastVoteCand")' = c
      BY <2>1 DEF Term, VoteTerm, GetUint64, Get
    <3>2. \A v \in granted' : v[1] <= VoteTerm /\ (v[1] = VoteTerm => v[2] = c)
      BY <2>0, <2>1 DEF VoteInv
    <3>3. OneVote'
      BY <2>0, <2>1 DEF VoteInv, OneVote
    <3>. QED
      BY <2>0, <2>1, <3>1, <3>2, <3>3 DEF VoteInv
  <2>2. CASE /\ VoteTerm # Term /\ SetUint64("LastVoteTerm", Term)
             /\ voting' = c /\ UNCHANGED granted
    <3>1. Term' = Term /\ VoteTerm' = Term
      BY <1>0, <2>0, <2>2, NewTermFacts DEF TypeInv, Term, VoteTerm, GetUint64
    <3>2. \A v \in granted : v[1] \in Nat /\ v[1] <= VoteTerm
      BY DEF TypeInv, VoteInv, Terms
    <3>3. \A v \in granted : v[1] < Term
      BY <2>0, <2>2, <3>2 DEF VoteInv
    <3>. QED
      BY <2>0, <2>2, <3>1, <3>2, <3>3 DEF VoteInv, OneVote
  <2>. QED
    BY <1>3, <2>1, <2>2 DEF Vote, Term, VoteTerm
<1>4. CASE VoteCand
  <2>1. voting # Nil /\ voting' = Nil /\ granted' = granted \cup {<<Term, voting>>}
    BY <1>4 DEF VoteCand, Term
  <2>2. Term' = Term /\ VoteTerm' = VoteTerm /\ Get("LastVoteCand")' = voting
    BY <1>0, <1>4, <2>1 DEF VoteCand, Set, TypeInv, Term, VoteTerm, GetUint64, Get
  <2>3. VoteTerm = Term /\ Term # 0 /\ \A v \in granted : v[1] # Term /\ v[1] <= VoteTerm
    BY <2>1 DEF VoteInv
  <2>4. OneVote'
    BY <2>1, <2>3 DEF VoteInv, OneVote
  <2>5. \A v \in granted' : v[1] <= VoteTerm /\ (v[1] = VoteTerm => v[2] = voting)
    BY <2>1, <2>3 DEF VoteInv
  <2>. QED
    BY <2>1, <2>2, <2>3, <2>4, <2>5 DEF VoteInv
<1>. QED
  BY <1>1, <1>2, <1>3, <1>4 DEF Next, vars, NewRaftStore, NewRaftStoreFails, Close, Crash,
     StoreLogs,
     StoreNext, StoreFails, TruncateSuffix, Compact

(***************************************************************************)
(* FirstIndex and LastIndex return indexes or zero.                        *)
(***************************************************************************)
LEMMA StoredIndex ==
  LogInv => /\ LastIndex \in 0..MaxIndex /\ FirstIndex \in 0..MaxIndex
            /\ FirstIndex # 0 => FirstIndex \in Indexes
BY LogFacts, StoreAssumption DEF EndsInv, Stored, Indexes

(***************************************************************************)
(* The batches hraft passes to StoreLogs.                                  *)
(***************************************************************************)
LEMMA BatchType ==
  ASSUME NEW index \in Indexes, NEW terms \in Batches, index + Len(terms) - 1 <= MaxIndex
  PROVE  LET b == Consecutive(index, terms)
         IN  /\ b \in Seq(Entry) /\ b # << >> /\ Len(b) = Len(terms)
             /\ \A i \in 1..Len(terms) :
                  b[i].index = index + i - 1 /\ b[i].term = terms[i]
<1>1. PICK n \in 1..MaxBatch : terms \in [1..n -> Terms]
  BY DEF Batches
<1>2. Len(terms) = n /\ n \in Nat \ {0}
  BY <1>1, StoreAssumption
<1>. DEFINE b == [i \in 1..n |-> [index |-> index + i - 1, term |-> terms[i]]]
<1>3. \A i \in 1..n : [index |-> index + i - 1, term |-> terms[i]] \in Entry
  BY <1>1, <1>2, StoreAssumption DEF Entry, Indexes
<1>4. b \in Seq(Entry) /\ Len(b) = n
  BY <1>2, <1>3
<1>5. b # << >>
  BY <1>2, <1>4
<1>6. \A i \in 1..n : b[i].index = index + i - 1 /\ b[i].term = terms[i]
  OBVIOUS
<1>7. Consecutive(index, terms) = b
  BY <1>2 DEF Consecutive
<1>. HIDE DEF b
<1>. QED
  BY <1>2, <1>4, <1>5, <1>6, <1>7

(***************************************************************************)
(* Terms that do not decrease from one entry to the next do not decrease.  *)
(***************************************************************************)
LEMMA OrderedPairs ==
  ASSUME NEW ts \in Batches, Ordered(ts)
  PROVE  /\ Len(ts) \in Nat \ {0} /\ \A i \in 1..Len(ts) : ts[i] \in Nat
         /\ \A i, j \in 1..Len(ts) : i < j => ts[i] <= ts[j]
<1>1. PICK n \in 1..MaxBatch : ts \in [1..n -> Terms]
  BY DEF Batches
<1>2. Len(ts) \in Nat \ {0} /\ \A i \in 1..Len(ts) : ts[i] \in Nat
  BY <1>1, StoreAssumption DEF Terms
<1>. DEFINE S == {j \in Nat : j \in 1..Len(ts) =>
                    \A i \in 1..Len(ts) : i < j => ts[i] <= ts[j]}
<1>3. 0 \in S
  OBVIOUS
<1>4. ASSUME NEW j \in Nat, j \in S PROVE j + 1 \in S
  <2>. SUFFICES ASSUME j + 1 \in 1..Len(ts), NEW i \in 1..Len(ts), i < j + 1
                PROVE  ts[i] <= ts[j + 1]
    OBVIOUS
  <2>1. j \in 1..Len(ts) /\ ts[j + 1] >= ts[j]
    BY <1>2 DEF Ordered
  <2>2. i = j \/ ts[i] <= ts[j]
    BY <1>4, <2>1
  <2>. QED
    BY <1>2, <2>1, <2>2
<1>. HIDE DEF S
<1>5. Nat \subseteq S
  BY <1>3, <1>4, NatInd
<1>. QED
  BY <1>2, <1>5 DEF S

(***************************************************************************)
(* Every step keeps the types.                                             *)
(***************************************************************************)
LEMMA TypeStep == TypeInv /\ VoteInv /\ [Next]_vars => TypeInv'
<1>. SUFFICES ASSUME TypeInv, VoteInv, [Next]_vars PROVE TypeInv'
  OBVIOUS
<1>0. << >> \in Seq(Entry)
  OBVIOUS
<1>1. CASE NewRaftStore \/ NewRaftStoreFails \/ Close \/ Crash
  BY <1>0, <1>1, StoredIndex DEF NewRaftStore, NewRaftStoreFails, Close, Crash, Idle, TypeInv,
     LogInv
<1>2. ASSUME NEW i \in Indexes, NEW ts \in Batches, StoreLogs(i, ts) PROVE TypeInv'
  BY <1>2, BatchType DEF StoreLogs, Idle, TypeInv, LogInv
<1>3. CASE StoreNext
  <2>1. LogInv' /\ Head(batch).index \in Indexes
    BY <1>3, EntryStored DEF TypeInv
  <2>2. Tail(batch) \in Seq(Entry)
    BY <1>3, BatchFacts DEF StoreNext, TypeInv
  <2>. QED
    BY <1>3, <2>1, <2>2 DEF StoreNext, TypeInv, Indexes
<1>4. CASE StoreFails
  BY <1>0, <1>4 DEF StoreFails, TypeInv, LogInv
<1>5. ASSUME NEW i \in Indexes, NEW ts \in Batches, TruncateSuffix(i, ts) PROVE TypeInv'
  <2>1. lastLog \in Indexes
    BY <1>5 DEF TruncateSuffix, TypeInv, Indexes
  <2>2. LogInv'
    BY <1>5, <2>1, RangeDeleted DEF TruncateSuffix, TypeInv
  <2>3. batch' \in Seq(Entry)
    BY <1>5, BatchType DEF TruncateSuffix
  <2>4. range' \in Indexes \X Indexes
    BY <1>5, <2>1 DEF TruncateSuffix
  <2>. QED
    BY <1>5, <2>2, <2>3, <2>4 DEF TruncateSuffix, Idle, TypeInv
<1>6. ASSUME NEW i \in Indexes, Compact(i) PROVE TypeInv'
  <2>1. FirstIndex \in Indexes
    BY <1>6, StoredIndex DEF Compact, TypeInv
  <2>2. LogInv'
    BY <1>6, <2>1, RangeDeleted DEF Compact, TypeInv
  <2>3. range' \in Indexes \X Indexes
    BY <1>6, <2>1 DEF Compact
  <2>. QED
    BY <1>6, <2>2, <2>3 DEF Compact, TypeInv
<1>7. ASSUME NEW t \in Terms, NewTerm(t) PROVE TypeInv'
  BY <1>7 DEF NewTerm, Idle, SetUint64, TypeInv, LogInv
<1>8. ASSUME NEW c \in Candidates, Vote(c) PROVE TypeInv'
  <2>1. Term \in Terms
    BY <1>8 DEF Vote, VoteInv, Term, Terms
  <2>2. DOMAIN stable' = StableKeys /\ granted' \subseteq Terms \X Candidates
    BY <1>8, <2>1 DEF Vote, SetUint64, TypeInv, Term
  <2>. QED
    BY <1>8, <2>2 DEF Vote, Idle, TypeInv, LogInv
<1>9. CASE VoteCand
  <2>1. Term \in Terms /\ voting \in Candidates
    BY <1>9 DEF VoteCand, VoteInv, TypeInv, Term, Terms
  <2>. QED
    BY <1>9, <2>1 DEF VoteCand, Set, TypeInv, LogInv, Term
<1>10. CASE UNCHANGED vars
  BY <1>10 DEF vars, TypeInv, LogInv
<1>. QED
  BY <1>1, <1>2, <1>3, <1>4, <1>5, <1>6, <1>7, <1>8, <1>9, <1>10 DEF Next

(***************************************************************************)
(* Appending, truncating, compacting and restarting keep terms in order,   *)
(* unless StoreLogs fails midway.                                          *)
(***************************************************************************)
LEMMA AppendStep == TypeInv /\ AppendInv /\ [Next]_vars => AppendInv'
<1>. SUFFICES ASSUME TypeInv, AppendInv, [Next]_vars PROVE AppendInv'
  OBVIOUS
<1>0. EndsInv /\ LogInv /\ batch \in Seq(Entry)
  BY LogFacts DEF TypeInv
<1>00. UNCHANGED log => UNCHANGED <<Stored, Entries, LastIndex>>
  BY DEF Stored, Entries, GetLog, LastIndex
<1>1. CASE NewRaftStore \/ NewRaftStoreFails
  BY <1>1, <1>00 DEF NewRaftStore, NewRaftStoreFails, TypeInv, AppendInv, Ascending
<1>2. CASE Close \/ Crash
  <2>1. \A i, j \in 1..Len(<< >>) : i < j => FALSE
    OBVIOUS
  <2>. QED
    BY <1>2, <1>00, <2>1 DEF Close, Crash, Idle, AppendInv, Ascending
<1>3. ASSUME NEW index \in Indexes, NEW ts \in Batches, StoreLogs(index, ts) PROVE AppendInv'
  <2>. SUFFICES ASSUME ~failed PROVE AppendInv'
    BY <1>3 DEF StoreLogs, AppendInv
  <2>1. /\ batch' = Consecutive(index, ts) /\ batch' \in Seq(Entry)
        /\ batch' # << >> /\ Len(batch') = Len(ts)
    BY <1>3, BatchType DEF StoreLogs
  <2>2. Len(ts) \in Nat \ {0} /\ \A i \in 1..Len(ts) : ts[i] \in Nat
    BY <1>3, OrderedPairs DEF StoreLogs
  <2>3. lastLog = LastIndex /\ Ascending /\ index > lastLog
    BY <1>3 DEF StoreLogs, Idle, AppendInv
  <2>4. \A i \in Stored : i <= lastLog /\ Entries[i] <= ts[1]
    <3>. TAKE i \in Stored
    <3>1. lastLog \in Stored /\ i <= lastLog
      BY <1>0, <2>3 DEF EndsInv
    <3>2. Entries[i] <= Entries[lastLog]
      BY <1>0, <2>3, <3>1 DEF Ascending, EndsInv, Stored, Indexes, Terms
    <3>3. GetLog(lastLog) = Entries[lastLog] /\ GetLog(lastLog) # Nil
      BY <1>0, <3>1 DEF EndsInv, Stored
    <3>4. ts[1] >= GetLog(lastLog)
      BY <1>3, <2>2, <3>3 DEF StoreLogs
    <3>5. Entries[i] \in Nat /\ Entries[lastLog] \in Nat
      BY <1>0, <3>1 DEF EndsInv, Terms
    <3>. QED
      BY <2>2, <3>1, <3>2, <3>3, <3>4, <3>5
  <2>5. \A i, j \in 1..Len(ts) : i < j => ts[i] <= ts[j]
    BY <1>3, OrderedPairs DEF StoreLogs
  <2>6. \A i \in 1..Len(ts) : batch'[i].index = index + i - 1 /\ batch'[i].term = ts[i]
    BY <1>3, BatchType DEF StoreLogs
  <2>7. \A i, j \in 1..Len(batch') :
          i < j => batch'[i].index < batch'[j].index /\ batch'[i].term <= batch'[j].term
    BY <2>1, <2>2, <2>5, <2>6 DEF Indexes
  <2>8. \A i \in Stored : i < batch'[1].index /\ Entries[i] <= batch'[1].term
    BY <2>2, <2>3, <2>4, <2>6 DEF TypeInv, Stored, Indexes
  <2>. QED
    BY <1>3, <1>00, <2>1, <2>3, <2>7, <2>8 DEF StoreLogs, AppendInv, Ascending
<1>4. CASE StoreNext
  <2>. SUFFICES ASSUME ~failed PROVE AppendInv'
    BY <1>4 DEF StoreNext, AppendInv
  <2>. DEFINE e == Head(batch)
  <2>1. /\ batch # << >> /\ batch' = Tail(batch) /\ e = batch[1] /\ Len(batch) \in Nat \ {0}
        /\ Len(batch') = Len(batch) - 1 /\ \A i \in 1..Len(batch') : batch'[i] = batch[i + 1]
        /\ Len(batch) = 1 <=> batch' = << >>
    BY <1>0, <1>4, BatchFacts DEF StoreNext
  <2>2. /\ e.index \in Indexes /\ e.term \in Terms /\ LogInv' /\ Stored' = Stored \cup {e.index}
        /\ \A i \in Stored' : Entries'[i] = IF i = e.index THEN e.term ELSE Entries[i]
    BY <1>0, <1>4, EntryStored
  <2>3. \A i \in Stored : i < e.index /\ Entries[i] <= e.term
    BY <2>1 DEF AppendInv
  <2>. HIDE DEF e
  <2>4. Ascending'
    BY <1>0, <2>2, <2>3 DEF AppendInv, Ascending, EndsInv, Stored, Indexes, Terms
  <2>5. batch' = << >> => lastLog' = LastIndex'
    <3>. HAVE batch' = << >>
    <3>1. lastLog' = e.index
      BY <1>4, <2>1 DEF StoreNext, e
    <3>2. LastIndex' \in Stored' /\ e.index <= LastIndex'
      BY <2>2, LogFactsNext DEF EndsInv
    <3>. QED
      BY <2>2, <2>3, <3>1, <3>2 DEF Stored, Indexes
  <2>6. batch' # << >> => \A i \in Stored' : i < batch'[1].index /\ Entries'[i] <= batch'[1].term
    <3>. HAVE batch' # << >>
    <3>1. /\ 1 \in 1..Len(batch') /\ 1 \in 1..Len(batch) /\ 2 \in 1..Len(batch)
          /\ batch'[1] = batch[2]
      BY <2>1
    <3>2. batch[2] \in Entry
      BY <1>0, <3>1
    <3>3. e.index < batch[2].index /\ e.term <= batch[2].term
      BY <2>1, <3>1 DEF AppendInv
    <3>4. \A i \in Stored : i \in Nat /\ Entries[i] \in Nat
      BY <1>0 DEF EndsInv, Stored, Indexes, Terms
    <3>. QED
      BY <2>2, <2>3, <3>1, <3>2, <3>3, <3>4 DEF Entry, Indexes, Terms
  <2>7. \A i, j \in 1..Len(batch') :
          i < j => batch'[i].index < batch'[j].index /\ batch'[i].term <= batch'[j].term
    <3>. TAKE i, j \in 1..Len(batch')
    <3>1. /\ i + 1 \in 1..Len(batch) /\ j + 1 \in 1..Len(batch) /\ (i < j => i + 1 < j + 1)
          /\ batch'[i] = batch[i + 1] /\ batch'[j] = batch[j + 1]
      BY <2>1
    <3>. QED
      BY <3>1 DEF AppendInv
  <2>. QED
    BY <1>4, <2>4, <2>5, <2>6, <2>7 DEF AppendInv, StoreNext
<1>5. CASE StoreFails
  <2>1. \A i, j \in 1..Len(<< >>) : i < j => FALSE
    OBVIOUS
  <2>2. ~failed' => ~failed /\ LastIndex = lastLog
    BY <1>5 DEF StoreFails
  <2>. QED
    BY <1>5, <1>00, <2>1, <2>2 DEF StoreFails, AppendInv, Ascending
<1>6. ASSUME NEW index \in Indexes, NEW ts \in Batches, TruncateSuffix(index, ts)
      PROVE  AppendInv'
  <2>. SUFFICES ASSUME ~failed PROVE AppendInv'
    BY <1>6 DEF TruncateSuffix, AppendInv
  <2>1. lastLog = LastIndex /\ lastLog \in Indexes /\ index <= lastLog /\ Ascending
    BY <1>6 DEF TruncateSuffix, Idle, AppendInv, TypeInv, Indexes
  <2>2. Stored' = Stored \ (index..lastLog) /\ \A i \in Stored' : Entries'[i] = Entries[i]
    BY <1>0, <1>6, <2>1, RangeDeleted DEF TruncateSuffix
  <2>3. /\ Len(ts) \in Nat \ {0} /\ \A i \in 1..Len(ts) : ts[i] \in Nat
        /\ \A i, j \in 1..Len(ts) : i < j => ts[i] <= ts[j]
    BY <1>6, OrderedPairs DEF TruncateSuffix
  <2>4. \A i \in Stored' : i < index /\ Entries'[i] <= ts[1]
    <3>. TAKE i \in Stored'
    <3>1. i \in Stored /\ i \in Nat /\ i # 0 /\ i <= lastLog /\ ~(index <= i /\ i <= lastLog)
      BY <1>0, <2>1, <2>2 DEF EndsInv, Stored, Indexes
    <3>2. i < index /\ index # 1
      BY <3>1 DEF Indexes
    <3>3. index - 1 \in Indexes /\ GetLog(index - 1) # Nil /\ GetLog(index - 1) <= ts[1]
      <4>1. index - 1 \in Indexes
        BY <3>2, StoreAssumption DEF Indexes
      <4>2. GetLog(index - 1) # Nil /\ ts[1] >= GetLog(index - 1)
        BY <1>6, <3>2 DEF TruncateSuffix
      <4>3. GetLog(index - 1) \in Nat
        BY <1>0, <4>1, <4>2 DEF EndsInv, Terms
      <4>. QED
        BY <2>3, <4>1, <4>2, <4>3
    <3>4. index - 1 \in Stored /\ Entries[index - 1] = GetLog(index - 1)
      BY <1>0, <3>3 DEF EndsInv
    <3>5. i = index - 1 \/ Entries[i] <= Entries[index - 1]
      BY <2>1, <3>1, <3>2, <3>4 DEF Ascending, Indexes
    <3>6. Entries[i] \in Nat /\ Entries[index - 1] \in Nat
      <4>1. \A n \in Stored : Entries[n] \in Terms
        BY <1>0 DEF EndsInv
      <4>2. \A n \in Stored : Entries[n] \in Nat
        BY <4>1, StoreAssumption DEF Terms
      <4>. QED
        BY <3>1, <3>4, <4>2, Zenon
    <3>. QED
      BY <2>2, <2>3, <3>2, <3>3, <3>4, <3>5, <3>6
  <2>5. Ascending'
    BY <2>1, <2>2 DEF Ascending
  <2>6. /\ batch' # << >> /\ Len(batch') = Len(ts)
        /\ \A i \in 1..Len(ts) : batch'[i].index = index + i - 1 /\ batch'[i].term = ts[i]
    BY <1>6, BatchType DEF TruncateSuffix
  <2>7. batch'[1].index = index /\ batch'[1].term = ts[1]
    BY <2>3, <2>6 DEF Indexes
  <2>8. \A i, j \in 1..Len(batch') :
          i < j => batch'[i].index < batch'[j].index /\ batch'[i].term <= batch'[j].term
    BY <2>3, <2>6 DEF Indexes
  <2>. QED
    BY <2>4, <2>5, <2>6, <2>7, <2>8 DEF AppendInv
<1>7. ASSUME NEW max \in Indexes, Compact(max) PROVE AppendInv'
  <2>. SUFFICES ASSUME ~failed PROVE AppendInv'
    BY <1>7 DEF Compact, AppendInv
  <2>1. FirstIndex \in Indexes /\ LastIndex \in Nat /\ max < LastIndex
    BY <1>0, <1>7, StoredIndex DEF Compact
  <2>2. /\ LogInv' /\ Stored' = Stored \ (FirstIndex..max)
        /\ \A i \in Stored' : Entries'[i] = Entries[i]
    BY <1>0, <1>7, <2>1, RangeDeleted DEF Compact
  <2>3. LastIndex \in Stored
    BY <1>0, <2>1 DEF EndsInv, Indexes
  <2>4. LastIndex \in Stored'
    BY <2>1, <2>2, <2>3 DEF Indexes
  <2>5. LastIndex' = LastIndex
    <3>1. LastIndex' \in Stored' /\ LastIndex <= LastIndex'
      BY <2>2, <2>4, LogFactsNext DEF EndsInv
    <3>2. LastIndex' \in Stored /\ LastIndex' <= LastIndex
      BY <1>0, <2>2, <3>1 DEF EndsInv
    <3>. QED
      BY <2>1, <3>1, <3>2 DEF Stored, Indexes
  <2>6. Ascending'
    BY <2>2 DEF AppendInv, Ascending
  <2>. QED
    BY <1>7, <2>2, <2>5, <2>6 DEF AppendInv, Compact
<1>8. CASE UNCHANGED <<store, log, batch, lastLog, failed>>
  BY <1>8, <1>00 DEF AppendInv, Ascending
<1>. QED
  BY <1>1, <1>2, <1>3, <1>4, <1>5, <1>6, <1>7, <1>8 DEF Next, vars, NewTerm, Vote, VoteCand

-----------------------------------------------------------------------------
(* The refinement.                                                         *)

(***************************************************************************)
(* FirstIndex and LastIndex always tell the ends of the log                *)
(* (store.go:173-199).                                                     *)
(***************************************************************************)
LEMMA EndsNext ==
  ASSUME LogInv'
  PROVE  Abstract!Ends(DOMAIN Entries')
<1>1. EndsInv'
  BY LogFactsNext
<1>2. DOMAIN Entries' = Stored'
  BY <1>1 DEF EndsInv
<1>. QED
  BY <1>1, <1>2 DEF EndsInv, Abstract!Ends

(***************************************************************************)
(* DeleteRange with its exclusive upper bound implements the deletion of   *)
(* the inclusive range it is called with (store.go:247-255).                                  *)
(***************************************************************************)
LEMMA DeleteRefines ==
  ASSUME LogInv, NEW min \in Indexes, NEW max \in Indexes, DeleteRange(min, max),
         range' = <<min, max>>, batch # << >> => UNCHANGED batch
  PROVE  Abstract!Delete(min, max)
<1>1. /\ LogInv' /\ Stored' = Stored \ (min..max)
      /\ \A i \in Stored' : Entries'[i] = Entries[i]
  BY RangeDeleted
<1>2. DOMAIN Entries = Stored /\ DOMAIN Entries' = Stored'
  BY <1>1, LogFacts, LogFactsNext DEF EndsInv
<1>3. Entries' = [i \in DOMAIN Entries' |-> Entries'[i]]
  BY DEF Entries
<1>4. Entries' = [i \in DOMAIN Entries \ (min..max) |-> Entries[i]]
  BY <1>1, <1>2, <1>3
<1>. QED
  BY <1>1, <1>4, EndsNext DEF Abstract!Delete

(***************************************************************************)
(* Every step of the store is a step of LogStore, or invisible to it.      *)
(***************************************************************************)
LEMMA NextRefines == TypeInv /\ [Next]_vars => [Abstract!Next]_(Abstract!vars)
<1>. SUFFICES ASSUME TypeInv, [Next]_vars PROVE [Abstract!Next]_(Abstract!vars)
  OBVIOUS
<1>1. LogInv /\ EndsInv /\ batch \in Seq(Entry)
  BY LogFacts DEF TypeInv
<1>2. UNCHANGED log => UNCHANGED <<Entries, FirstIndex, LastIndex>>
  BY DEF Entries, GetLog, FirstIndex, LastIndex
<1>3. CASE UNCHANGED <<log, batch, range>>
  BY <1>2, <1>3 DEF Abstract!vars
<1>4. CASE UNCHANGED log /\ batch' = << >> /\ range' = << >>
  BY <1>2, <1>4 DEF Abstract!Next, Abstract!Abort
<1>5. ASSUME NEW i \in Indexes, NEW ts \in Batches, StoreLogs(i, ts) PROVE Abstract!Begin
  <2>1. batch = << >> /\ range' = << >> /\ UNCHANGED log
    BY <1>5 DEF StoreLogs, Idle
  <2>2. batch' # << >>
    BY <1>5, BatchType DEF StoreLogs
  <2>. QED
    BY <1>2, <2>1, <2>2 DEF Abstract!Begin
<1>6. CASE StoreNext
  <2>. DEFINE e == Head(batch)
  <2>1. /\ LogInv' /\ Stored' = Stored \cup {e.index}
        /\ \A i \in Stored' : Entries'[i] = IF i = e.index THEN e.term ELSE Entries[i]
    BY <1>1, <1>6, EntryStored
  <2>2. DOMAIN Entries = Stored /\ DOMAIN Entries' = Stored'
    BY <1>1, <2>1, LogFactsNext DEF EndsInv
  <2>3. Entries' = [i \in DOMAIN Entries' |-> Entries'[i]]
    BY DEF Entries
  <2>4. Entries' = [i \in DOMAIN Entries \cup {e.index} |->
                      IF i = e.index THEN e.term ELSE Entries[i]]
    BY <2>1, <2>2, <2>3
  <2>5. batch # << >> /\ batch' = Tail(batch) /\ range' = << >>
    BY <1>6 DEF StoreNext
  <2>6. Abstract!Put
    BY <2>1, <2>4, <2>5, EndsNext DEF Abstract!Put
  <2>. QED
    BY <2>6 DEF Abstract!Next
<1>7. ASSUME NEW i \in Indexes, NEW ts \in Batches, TruncateSuffix(i, ts)
      PROVE  Abstract!Next
  <2>1. lastLog \in Indexes /\ batch = << >>
    BY <1>7 DEF TruncateSuffix, Idle, TypeInv, Indexes
  <2>2. Abstract!Delete(i, lastLog)
    BY <1>1, <1>7, <2>1, DeleteRefines DEF TruncateSuffix
  <2>. QED
    BY <2>1, <2>2 DEF Abstract!Next
<1>8. ASSUME NEW i \in Indexes, Compact(i) PROVE Abstract!Next
  <2>1. FirstIndex \in Indexes
    BY <1>1, <1>8, StoredIndex DEF Compact
  <2>2. Abstract!Delete(FirstIndex, i)
    BY <1>1, <1>8, <2>1, DeleteRefines DEF Compact
  <2>. QED
    BY <2>1, <2>2 DEF Abstract!Next
<1>9. (\E i \in Indexes, ts \in Batches : StoreLogs(i, ts)) => Abstract!Next
  BY <1>5 DEF Abstract!Next
<1>. QED
  BY <1>3, <1>4, <1>6, <1>7, <1>8, <1>9 DEF Next, vars, NewRaftStore, NewRaftStoreFails, Close,
     Crash, StoreFails, NewTerm, Vote, VoteCand

-----------------------------------------------------------------------------
(* The theorems.                                                           *)

(***************************************************************************)
(* An empty store.                                                         *)
(***************************************************************************)
LEMMA InitHolds == Init => IInv
<1>. SUFFICES ASSUME Init PROVE IInv
  OBVIOUS
<1>1. << >> \in Seq(Entry) /\ Len(<< >>) = 0
  OBVIOUS
<1>2. DOMAIN log = {}
  BY DEF Init, Empty
<1>3. TypeInv
  <2>1. LogInv
    BY <1>2 DEF LogInv, OfIndexes
  <2>2. DOMAIN stable = StableKeys /\ 0 \in 0..MaxIndex
    BY StoreAssumption DEF Init
  <2>. QED
    BY <1>1, <2>1, <2>2 DEF Init, TypeInv
<1>4. Term = 0 /\ VoteTerm = 0
  BY DEF Init, Term, VoteTerm, GetUint64, StableKeys
<1>5. VoteInv
  BY <1>4, StoreAssumption DEF Init, VoteInv, OneVote
<1>6. Stored = {} /\ LastIndex = 0
  BY <1>2 DEF Stored, LastIndex
<1>7. AppendInv
  BY <1>1, <1>6 DEF Init, AppendInv, Ascending
<1>. QED
  BY <1>3, <1>5, <1>7 DEF IInv

(***************************************************************************)
(* The invariant holds in every behaviour, crashes, failed writes and      *)
(* concurrent compaction included (store.go:77-314).                       *)
(***************************************************************************)
THEOREM Invariant == Spec => []IInv
<1>1. IInv /\ [Next]_vars => IInv'
  BY TypeStep, VoteStep, AppendStep DEF IInv
<1>. QED
  BY <1>1, InitHolds, PTL DEF Spec

(***************************************************************************)
(* Keys of the log store are encoded indexes, and values have their types  *)
(* (store.go:223-314).                                                     *)
(***************************************************************************)
THEOREM TypeCorrect == Spec => []TypeOK
<1>1. ASSUME IInv PROVE TypeOK
  <2>1. TypeInv /\ Indexes \subseteq 0..(MaxIndex + 1)
    BY <1>1, StoreAssumption DEF IInv, Indexes
  <2>2. ASSUME NEW k \in DOMAIN log
        PROVE  /\ k \in [1..MaxLen -> Bytes] /\ log[k] \in Terms
               /\ uint64ToBytes(bytesToUint64(k)) = k /\ bytesToUint64(k) \in Indexes
    <3>1. PICK i \in Indexes : k = uint64ToBytes(i)
      BY <2>1 DEF TypeInv, LogInv, OfIndexes
    <3>. QED
      BY <2>1, <3>1, KeyFacts DEF TypeInv, LogInv
  <2>. QED
    BY <2>1, <2>2 DEF TypeInv, TypeOK, Entry
<1>. QED
  BY <1>1, Invariant, PTL

(***************************************************************************)
(* A node never votes for two candidates in one term, however often it     *)
(* restarts (store.go:265-302).                                            *)
(***************************************************************************)
THEOREM VotesOnce == Spec => []OneVote
<1>1. IInv => OneVote
  BY DEF IInv, VoteInv
<1>. QED
  BY <1>1, Invariant, PTL

(***************************************************************************)
(* Terms in the log never decrease, unless StoreLogs has failed midway     *)
(* (store.go:223-255).                                                     *)
(***************************************************************************)
THEOREM LogAscends == Spec => []TermsAscend
<1>1. ASSUME IInv PROVE TermsAscend
  <2>1. DOMAIN Entries = Stored
    BY <1>1, LogFacts DEF IInv, TypeInv, EndsInv
  <2>. QED
    BY <1>1, <2>1 DEF IInv, AppendInv, Ascending, TermsAscend
<1>. QED
  BY <1>1, Invariant, PTL

(***************************************************************************)
(* For any number of bytes and entries, the store implements hraft's       *)
(* LogStore; in particular a call of DeleteRange deletes exactly the       *)
(* entries from its min to its max (store.go:173-263).                     *)
(***************************************************************************)
THEOREM Refinement == Spec => ImplementsLogStore
<1>1. Init => Abstract!Init
  <2>. SUFFICES ASSUME Init PROVE Abstract!Init
    OBVIOUS
  <2>1. DOMAIN log = {} /\ batch = << >> /\ range = << >>
    BY DEF Init, Empty
  <2>2. EndsInv
    BY InitHolds, LogFacts DEF IInv, TypeInv
  <2>3. Stored = {}
    BY <2>1 DEF Stored
  <2>. QED
    BY <2>1, <2>2, <2>3 DEF EndsInv, Abstract!Init
<1>2. IInv /\ [Next]_vars => [Abstract!Next]_(Abstract!vars)
  BY NextRefines DEF IInv
<1>. QED
  BY <1>1, <1>2, Invariant, PTL DEF Spec, ImplementsLogStore, Abstract!Spec
=============================================================================
