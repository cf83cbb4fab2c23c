------------------------- MODULE PebbleBindingProofs -------------------------
(***************************************************************************)
(* The Pebble binding, for keys and values of any size, any number of keys *)
(* and any number of callers: scans show exactly the keys they are for, in *)
(* order and as they are at that moment; a prefix deletes the keys that    *)
(* have it; and a crash loses no acknowledged write. The proofs rest on    *)
(* facts about the lexicographic order and the upper bound of a prefix,    *)
(* shown by induction over sets of numbers (NatInd).                       *)
(***************************************************************************)
EXTENDS PebbleBinding, FiniteSetTheorems, WellFoundedInduction, TLAPS

-----------------------------------------------------------------------------
(* Induction.                                                               *)

(***************************************************************************)
(* A non-empty set of numbers has a least one.                             *)
(***************************************************************************)
LEMMA NatMin ==
  ASSUME NEW T, T \subseteq Nat, T # {}
  PROVE  \E m \in T : \A n \in T : m <= n
<1>1. PICK m \in T : \A n \in T : ~(<<n, m>> \in OpToRel(<, Nat))
  BY WFMin, NatLessThanWellFounded, Zenon
<1>2. \A n \in T : n \in Nat /\ m \in Nat
  OBVIOUS
<1>3. \A n \in T : ~(n < m)
  BY <1>1, <1>2 DEF OpToRel
<1>. QED
  BY <1>2, <1>3

(***************************************************************************)
(* Induction over numbers, for a set.                                      *)
(***************************************************************************)
LEMMA NatInd ==
  ASSUME NEW S, 0 \in S, \A n \in Nat : n \in S => n + 1 \in S
  PROVE  Nat \subseteq S
<1>. SUFFICES ASSUME Nat \ S # {} PROVE FALSE
  OBVIOUS
<1>1. PICK m \in Nat \ S : \A n \in Nat \ S : m <= n
  BY NatMin
<1>2. m # 0 /\ m - 1 \in Nat
  BY <1>1
<1>3. m - 1 \in S
  BY <1>1, <1>2
<1>. QED
  BY <1>1, <1>2, <1>3

-----------------------------------------------------------------------------
(* The order of keys.                                                       *)

\* Key a is less than b because of position i, where it ends or has a lesser byte.
LessBy(a, b, i) ==
  /\ i <= Len(b)
  /\ \A j \in 1..(i - 1) : j <= Len(a) /\ a[j] = b[j]
  /\ i = Len(a) + 1 \/ (i <= Len(a) /\ a[i] < b[i])

(***************************************************************************)
(* A key is a sequence of bytes of bounded length (pebble.go:124).         *)
(***************************************************************************)
LEMMA KeyFacts ==
  ASSUME NEW a \in Keys
  PROVE  /\ a \in Seq(Bytes) /\ Len(a) \in Nat /\ DOMAIN a = 1..Len(a)
         /\ \A i \in 1..Len(a) : a[i] \in Nat /\ a[i] <= Base - 1
         /\ Len(a) <= MaxLen
<1>1. PICK n \in 0..MaxLen : a \in [1..n -> Bytes]
  BY DEF Keys
<1>2. n \in Nat
  BY KeysAssumption
<1>3. a \in Seq(Bytes) /\ Len(a) = n
  BY <1>1, <1>2
<1>. QED
  BY <1>1, <1>2, <1>3, KeysAssumption DEF Bytes

(***************************************************************************)
(* Keys with the same bytes are equal.                                     *)
(***************************************************************************)
LEMMA KeyEqual ==
  ASSUME NEW a \in Keys, NEW b \in Keys, Len(a) = Len(b), \A i \in 1..Len(a) : a[i] = b[i]
  PROVE  a = b
BY KeyFacts

(***************************************************************************)
(* bytes.HasPrefix, byte by byte.                                          *)
(***************************************************************************)
LEMMA PrefixAt ==
  ASSUME NEW a \in Keys, NEW p \in Keys
  PROVE  HasPrefix(a, p) <=> Len(p) <= Len(a) /\ \A j \in 1..Len(p) : a[j] = p[j]
<1>1. a \in Seq(Bytes) /\ p \in Seq(Bytes) /\ Len(a) \in Nat /\ Len(p) \in Nat
  BY KeyFacts
<1>2. ASSUME Len(p) <= Len(a)
      PROVE  SubSeq(a, 1, Len(p)) = p <=> \A j \in 1..Len(p) : a[j] = p[j]
  <2>1. SubSeq(a, 1, Len(p)) = [j \in 1..Len(p) |-> a[j]]
    BY <1>1, <1>2
  <2>2. p = [j \in 1..Len(p) |-> p[j]]
    BY <1>1
  <2>. QED
    BY <2>1, <2>2
<1>. QED
  BY <1>2 DEF HasPrefix

(***************************************************************************)
(* bytes.Compare(a, b) < 0 by the first byte that decides.                 *)
(***************************************************************************)
LEMMA LessAt ==
  ASSUME NEW a \in Keys, NEW b \in Keys
  PROVE  Less(a, b) <=> \E i \in Nat \ {0} : LessBy(a, b, i)
<1>1. /\ a \in Seq(Bytes) /\ b \in Seq(Bytes) /\ Len(a) \in Nat /\ Len(b) \in Nat
  BY KeyFacts
<1>2. ASSUME NEW i \in 1..Len(a), i <= Len(b)
      PROVE  SubSeq(a, 1, i - 1) = SubSeq(b, 1, i - 1) <=> \A j \in 1..(i - 1) : a[j] = b[j]
  <2>1. SubSeq(a, 1, i - 1) = [j \in 1..(i - 1) |-> a[j]]
    BY <1>1, <1>2
  <2>2. SubSeq(b, 1, i - 1) = [j \in 1..(i - 1) |-> b[j]]
    BY <1>1, <1>2
  <2>. QED
    BY <2>1, <2>2
<1>3. ASSUME Less(a, b) PROVE \E i \in Nat \ {0} : LessBy(a, b, i)
  <2>1. CASE HasPrefix(b, a) /\ a # b
    <3>1. Len(a) <= Len(b) /\ \A j \in 1..Len(a) : b[j] = a[j]
      BY <2>1, PrefixAt
    <3>2. Len(a) # Len(b)
      BY <2>1, <3>1, KeyEqual
    <3>3. LessBy(a, b, Len(a) + 1)
      BY <1>1, <3>1, <3>2 DEF LessBy
    <3>. QED
      BY <1>1, <3>3
  <2>2. CASE \E i \in 1..Len(a) :
               /\ i <= Len(b) /\ a[i] < b[i]
               /\ SubSeq(a, 1, i - 1) = SubSeq(b, 1, i - 1)
    <3>1. PICK i \in 1..Len(a) : /\ i <= Len(b) /\ a[i] < b[i]
                                 /\ SubSeq(a, 1, i - 1) = SubSeq(b, 1, i - 1)
      BY <2>2
    <3>2. LessBy(a, b, i)
      BY <1>1, <1>2, <3>1 DEF LessBy
    <3>. QED
      BY <1>1, <3>2
  <2>. QED
    BY <1>3, <2>1, <2>2 DEF Less
<1>4. ASSUME NEW i \in Nat \ {0}, LessBy(a, b, i) PROVE Less(a, b)
  <2>1. CASE i = Len(a) + 1
    <3>1. Len(a) < Len(b) /\ \A j \in 1..Len(a) : b[j] = a[j]
      BY <1>1, <1>4, <2>1 DEF LessBy
    <3>2. HasPrefix(b, a) /\ a # b
      BY <1>1, <3>1, PrefixAt
    <3>. QED
      BY <3>2 DEF Less
  <2>2. CASE i <= Len(a) /\ a[i] < b[i]
    <3>1. i \in 1..Len(a) /\ i <= Len(b)
      BY <1>1, <1>4, <2>2 DEF LessBy
    <3>2. SubSeq(a, 1, i - 1) = SubSeq(b, 1, i - 1)
      BY <1>2, <1>4, <3>1 DEF LessBy
    <3>. QED
      BY <2>2, <3>1, <3>2 DEF Less
  <2>. QED
    BY <1>4, <2>1, <2>2 DEF LessBy
<1>. QED
  BY <1>3, <1>4

(***************************************************************************)
(* No key is less than itself.                                             *)
(***************************************************************************)
LEMMA LessIrreflexive == ASSUME NEW a \in Keys PROVE ~Less(a, a)
<1>1. ASSUME NEW i \in Nat \ {0}, LessBy(a, a, i) PROVE FALSE
  BY <1>1, KeyFacts DEF LessBy
<1>. QED
  BY <1>1, LessAt

(***************************************************************************)
(* The order of keys is transitive.                                        *)
(***************************************************************************)
LEMMA LessTransitive ==
  ASSUME NEW a \in Keys, NEW b \in Keys, NEW c \in Keys, Less(a, b), Less(b, c)
  PROVE  Less(a, c)
<1>1. PICK i \in Nat \ {0} : LessBy(a, b, i)
  BY LessAt
<1>2. PICK k \in Nat \ {0} : LessBy(b, c, k)
  BY LessAt
<1>3. /\ Len(a) \in Nat /\ Len(b) \in Nat /\ Len(c) \in Nat
      /\ \A j \in 1..Len(a) : a[j] \in Nat
      /\ \A j \in 1..Len(b) : b[j] \in Nat
      /\ \A j \in 1..Len(c) : c[j] \in Nat
  BY KeyFacts
<1>4. CASE i < k
  <2>1. i <= Len(b) /\ b[i] = c[i]
    BY <1>2, <1>4 DEF LessBy
  <2>2. i <= Len(c)
    BY <1>2, <1>3, <1>4 DEF LessBy
  <2>3. \A j \in 1..(i - 1) : j <= Len(a) /\ a[j] = c[j]
    BY <1>1, <1>2, <1>4 DEF LessBy
  <2>4. LessBy(a, c, i)
    BY <1>1, <2>1, <2>2, <2>3 DEF LessBy
  <2>. QED
    BY <2>4, LessAt
<1>5. CASE k < i
  <2>1. k <= Len(a) /\ a[k] = b[k] /\ k <= Len(b)
    BY <1>1, <1>3, <1>5 DEF LessBy
  <2>2. \A j \in 1..(k - 1) : j <= Len(a) /\ a[j] = c[j]
    BY <1>1, <1>2, <1>5 DEF LessBy
  <2>3. LessBy(a, c, k)
    BY <1>2, <1>3, <2>1, <2>2 DEF LessBy
  <2>. QED
    BY <2>3, LessAt
<1>6. CASE i = k
  <2>1. \A j \in 1..(i - 1) : j <= Len(a) /\ a[j] = c[j]
    BY <1>1, <1>2, <1>6 DEF LessBy
  <2>2. i <= Len(b) /\ i <= Len(c) /\ b[i] < c[i]
    BY <1>1, <1>2, <1>3, <1>6 DEF LessBy
  <2>3. i = Len(a) + 1 \/ (i <= Len(a) /\ a[i] < c[i])
    BY <1>1, <1>3, <2>2 DEF LessBy
  <2>4. LessBy(a, c, i)
    BY <2>1, <2>2, <2>3 DEF LessBy
  <2>. QED
    BY <2>4, LessAt
<1>. QED
  BY <1>4, <1>5, <1>6

(***************************************************************************)
(* The order of keys is total.                                             *)
(***************************************************************************)
LEMMA LessTotal ==
  ASSUME NEW a \in Keys, NEW b \in Keys, a # b
  PROVE  Less(a, b) \/ Less(b, a)
<1>. DEFINE T == {i \in Nat \ {0} : i > Len(a) \/ i > Len(b) \/ a[i] # b[i]}
<1>1. /\ Len(a) \in Nat /\ Len(b) \in Nat
      /\ \A j \in 1..Len(a) : a[j] \in Nat
      /\ \A j \in 1..Len(b) : b[j] \in Nat
  BY KeyFacts
<1>2. T \subseteq Nat /\ Len(a) + 1 \in T
  BY <1>1
<1>3. PICK i \in T : \A n \in T : i <= n
  <2>. HIDE DEF T
  <2>. QED
    BY <1>2, NatMin
<1>4. i \in Nat \ {0} /\ \A j \in 1..(i - 1) : j <= Len(a) /\ j <= Len(b) /\ a[j] = b[j]
  BY <1>1, <1>3
<1>5. i > Len(a) \/ i > Len(b) \/ a[i] # b[i]
  OBVIOUS
<1>. HIDE DEF T
<1>6. CASE i > Len(a) /\ i > Len(b)
  <2>1. Len(a) = Len(b)
    BY <1>1, <1>4, <1>6
  <2>2. \A j \in 1..Len(a) : a[j] = b[j]
    BY <1>1, <1>4, <1>6
  <2>. QED
    BY <2>1, <2>2, KeyEqual
<1>7. CASE i > Len(a) /\ i <= Len(b)
  <2>1. i = Len(a) + 1
    BY <1>1, <1>4, <1>7
  <2>2. LessBy(a, b, i)
    BY <1>4, <1>7, <2>1 DEF LessBy
  <2>. QED
    BY <1>4, <2>2, LessAt
<1>8. CASE i <= Len(a) /\ i > Len(b)
  <2>1. i = Len(b) + 1
    BY <1>1, <1>4, <1>8
  <2>2. LessBy(b, a, i)
    BY <1>4, <1>8, <2>1 DEF LessBy
  <2>. QED
    BY <1>4, <2>2, LessAt
<1>9. CASE i <= Len(a) /\ i <= Len(b)
  <2>1. a[i] < b[i] \/ b[i] < a[i]
    BY <1>1, <1>4, <1>5, <1>9
  <2>2. LessBy(a, b, i) \/ LessBy(b, a, i)
    BY <1>4, <1>9, <2>1 DEF LessBy
  <2>. QED
    BY <1>4, <2>2, LessAt
<1>. QED
  BY <1>1, <1>4, <1>6, <1>7, <1>8, <1>9

-----------------------------------------------------------------------------
(* The upper bound of a prefix.                                             *)

\* What KeyUpperBound finds in the first bytes of a key, and the key that it makes
\* of the bytes up to position i.
End(key) ==
  CHOOSE f : f = [i \in 0..Len(key) |->
                    IF i = 0 THEN Nil
                    ELSE IF (key[i] + 1) % Base # 0
                         THEN Append(SubSeq(key, 1, i - 1), (key[i] + 1) % Base)
                    ELSE f[i - 1]]
Incremented(key, i) == Append(SubSeq(key, 1, i - 1), key[i] + 1)

(***************************************************************************)
(* The recursion that stands for the loop of KeyUpperBound is well defined *)
(* (pebble.go:308-321).                                                    *)
(***************************************************************************)
LEMMA EndDef ==
  ASSUME NEW p \in Keys
  PROVE  /\ End(p)[0] = Nil
         /\ \A i \in 1..Len(p) :
              End(p)[i] = IF (p[i] + 1) % Base # 0
                          THEN Append(SubSeq(p, 1, i - 1), (p[i] + 1) % Base)
                          ELSE End(p)[i - 1]
<1>. DEFINE Step(i, x) == IF (p[i] + 1) % Base # 0
                          THEN Append(SubSeq(p, 1, i - 1), (p[i] + 1) % Base)
                          ELSE x
            Rec(f, m) == f = [i \in 0..m |-> IF i = 0 THEN Nil ELSE Step(i, f[i - 1])]
            S == {m \in Nat : \E f : Rec(f, m)}
<1>. HIDE DEF Step
<1>1. 0 \in S
  <2>1. Rec([i \in 0..0 |-> Nil], 0)
    OBVIOUS
  <2>. HIDE DEF Rec
  <2>. QED
    BY <2>1
<1>2. ASSUME NEW m \in Nat, m \in S PROVE m + 1 \in S
  <2>1. PICK f : Rec(f, m)
    BY <1>2
  <2>. DEFINE g == [i \in 0..(m + 1) |-> IF i = m + 1 THEN Step(i, f[m]) ELSE f[i]]
  <2>2. \A i \in 0..m : f[i] = IF i = 0 THEN Nil ELSE Step(i, f[i - 1])
    BY <2>1
  <2>3. \A i \in 0..(m + 1) : g[i] = IF i = 0 THEN Nil ELSE Step(i, g[i - 1])
    <3>. TAKE i \in 0..(m + 1)
    <3>1. CASE i = 0
      BY <3>1, <2>2
    <3>2. CASE i = m + 1
      BY <3>2
    <3>3. CASE i \in 1..m
      BY <3>3, <2>2
    <3>. QED
      BY <3>1, <3>2, <3>3
  <2>4. Rec(g, m + 1)
    BY <2>3
  <2>. HIDE DEF g, Rec
  <2>. QED
    BY <2>4
<1>. HIDE DEF S
<1>3. Len(p) \in S
  BY <1>1, <1>2, NatInd, KeyFacts
<1>4. \E f : Rec(f, Len(p))
  BY <1>3 DEF S
<1>5. Rec(End(p), Len(p))
  BY <1>4 DEF End, Step
<1>6. End(p)[0] = Nil /\ \A i \in 1..Len(p) : End(p)[i] = Step(i, End(p)[i - 1])
  <2>1. Len(p) \in Nat
    BY KeyFacts
  <2>2. \A i \in 0..Len(p) : End(p)[i] = IF i = 0 THEN Nil ELSE Step(i, End(p)[i - 1])
    BY <1>5, Zenon
  <2>. QED
    BY <2>1, <2>2
<1>. QED
  BY <1>6 DEF Step

(***************************************************************************)
(* What KeyUpperBound returns for a byte that does not wrap around is a    *)
(* key (pebble.go:311-317).                                                *)
(***************************************************************************)
LEMMA IncrementedFacts ==
  ASSUME NEW p \in Keys, NEW i \in 1..Len(p), p[i] < Base - 1
  PROVE  /\ Incremented(p, i) \in Keys /\ Len(Incremented(p, i)) = i
         /\ \A j \in 1..(i - 1) : Incremented(p, i)[j] = p[j]
         /\ Incremented(p, i)[i] = p[i] + 1
<1>1. p \in Seq(Bytes) /\ Len(p) \in Nat /\ Len(p) <= MaxLen /\ p[i] \in Nat /\ i \in Nat
  BY KeyFacts
<1>2. p[i] + 1 \in Bytes
  BY <1>1, KeysAssumption DEF Bytes
<1>. DEFINE u == Incremented(p, i)
<1>3. SubSeq(p, 1, i - 1) \in Seq(Bytes) /\ Len(SubSeq(p, 1, i - 1)) = i - 1
  BY <1>1
<1>4. u \in Seq(Bytes) /\ Len(u) = i /\ u[i] = p[i] + 1
  BY <1>1, <1>2, <1>3 DEF Incremented
<1>5. \A j \in 1..(i - 1) : u[j] = p[j]
  BY <1>1, <1>3 DEF Incremented
<1>6. u \in [1..i -> Bytes]
  BY <1>1, <1>4
<1>7. i \in 0..MaxLen
  BY <1>1, KeysAssumption
<1>8. u \in Keys
  BY <1>6, <1>7 DEF Keys
<1>. QED
  BY <1>4, <1>5, <1>8

(***************************************************************************)
(* KeyUpperBound increments the last byte that can be incremented and cuts *)
(* off the bytes after it, all of which are 0xff; it returns nil if there  *)
(* is no such byte (pebble.go:308-321).                                    *)
(***************************************************************************)
LEMMA UpperBound ==
  ASSUME NEW p \in Keys
  PROVE  \/ KeyUpperBound(p) = Nil /\ \A j \in 1..Len(p) : p[j] = Base - 1
         \/ \E i \in 1..Len(p) : /\ p[i] < Base - 1
                                 /\ \A j \in (i + 1)..Len(p) : p[j] = Base - 1
                                 /\ KeyUpperBound(p) = Incremented(p, i)
<1>. DEFINE P(n) == \/ End(p)[n] = Nil /\ \A j \in 1..n : p[j] = Base - 1
                    \/ \E i \in 1..n : /\ p[i] < Base - 1
                                       /\ \A j \in (i + 1)..n : p[j] = Base - 1
                                       /\ End(p)[n] = Incremented(p, i)
            S == {n \in Nat : n \in 0..Len(p) => P(n)}
<1>1. P(0)
  BY EndDef
<1>2. ASSUME NEW n \in Nat, n + 1 \in 0..Len(p), P(n) PROVE P(n + 1)
  <2>0. /\ n + 1 \in 1..Len(p) /\ n \in 0..Len(p) /\ (n + 1) - 1 = n
        /\ p[n + 1] \in Nat /\ p[n + 1] <= Base - 1
    BY <1>2, KeyFacts
  <2>1. End(p)[n + 1] = IF (p[n + 1] + 1) % Base # 0
                        THEN Append(SubSeq(p, 1, (n + 1) - 1), (p[n + 1] + 1) % Base)
                        ELSE End(p)[n]
    BY <2>0, EndDef
  <2>2. CASE p[n + 1] = Base - 1
    <3>1. (p[n + 1] + 1) % Base = 0
      BY <2>0, <2>2, KeysAssumption
    <3>2. End(p)[n + 1] = End(p)[n]
      BY <2>1, <3>1
    <3>3. CASE End(p)[n] = Nil /\ \A j \in 1..n : p[j] = Base - 1
      BY <2>2, <3>2, <3>3
    <3>4. ASSUME NEW i \in 1..n, p[i] < Base - 1, \A j \in (i + 1)..n : p[j] = Base - 1,
                 End(p)[n] = Incremented(p, i)
          PROVE  P(n + 1)
      <4>1. i \in 1..(n + 1) /\ \A j \in (i + 1)..(n + 1) : p[j] = Base - 1
        BY <2>2, <3>4
      <4>. QED
        BY <3>2, <3>4, <4>1
    <3>. QED
      BY <1>2, <3>3, <3>4
  <2>3. CASE p[n + 1] < Base - 1
    <3>1. (p[n + 1] + 1) % Base = p[n + 1] + 1
      BY <2>0, <2>3, KeysAssumption
    <3>2. p[n + 1] + 1 # 0
      BY <2>0
    <3>3. End(p)[n + 1] = Incremented(p, n + 1)
      BY <2>1, <3>1, <3>2 DEF Incremented
    <3>4. n + 1 \in 1..(n + 1) /\ \A j \in ((n + 1) + 1)..(n + 1) : p[j] = Base - 1
      OBVIOUS
    <3>. QED
      BY <2>3, <3>3, <3>4
  <2>. QED
    BY <2>0, <2>2, <2>3, KeysAssumption
<1>. HIDE DEF P
<1>3. 0 \in S /\ \A n \in Nat : n \in S => n + 1 \in S
  BY <1>1, <1>2, KeyFacts
<1>. HIDE DEF S
<1>4. Nat \subseteq S
  BY <1>3, NatInd
<1>5. Len(p) \in Nat /\ Len(p) \in 0..Len(p)
  BY KeyFacts
<1>6. P(Len(p))
  BY <1>4, <1>5 DEF S
<1>7. KeyUpperBound(p) = End(p)[Len(p)]
  BY DEF KeyUpperBound, End
<1>. QED
  BY <1>6, <1>7 DEF P

(***************************************************************************)
(* The keys with a prefix are those from the prefix up to its upper bound, *)
(* and to the end of all keys if there is no bound: the range that         *)
(* DeletePrefix and ScanPrefix use (pebble.go:193, 234).                   *)
(***************************************************************************)
LEMMA PrefixRange ==
  ASSUME NEW p \in Keys, NEW k \in Keys
  PROVE  HasPrefix(k, p) <=> ~Less(k, p) /\ (KeyUpperBound(p) = Nil \/ Less(k, KeyUpperBound(p)))
<1>. DEFINE u == KeyUpperBound(p)
<1>1. /\ Len(k) \in Nat /\ Len(p) \in Nat
      /\ \A j \in 1..Len(k) : k[j] \in Nat /\ k[j] <= Base - 1
      /\ \A j \in 1..Len(p) : p[j] \in Nat /\ p[j] <= Base - 1
  BY KeyFacts
<1>2. ASSUME HasPrefix(k, p) PROVE ~Less(k, p)
  <2>1. Len(p) <= Len(k) /\ \A j \in 1..Len(p) : k[j] = p[j]
    BY <1>2, PrefixAt
  <2>2. ASSUME NEW i \in Nat \ {0}, LessBy(k, p, i) PROVE FALSE
    <3>1. i \in 1..Len(p) /\ i <= Len(k)
      BY <1>1, <2>1, <2>2 DEF LessBy
    <3>2. k[i] = p[i] /\ k[i] < p[i]
      BY <1>1, <2>1, <2>2, <3>1 DEF LessBy
    <3>. QED
      BY <1>1, <3>1, <3>2
  <2>. QED
    BY <2>2, LessAt
<1>3. ASSUME NEW i \in 1..Len(p), p[i] < Base - 1, u = Incremented(p, i), HasPrefix(k, p)
      PROVE  Less(k, u)
  <2>1. Len(p) <= Len(k) /\ \A j \in 1..Len(p) : k[j] = p[j]
    BY <1>3, PrefixAt
  <2>2. /\ u \in Keys /\ Len(u) = i /\ u[i] = p[i] + 1
        /\ \A j \in 1..(i - 1) : u[j] = p[j]
    BY <1>3, IncrementedFacts
  <2>. HIDE DEF u
  <2>3. LessBy(k, u, i)
    BY <1>1, <2>1, <2>2 DEF LessBy
  <2>. QED
    BY <2>2, <2>3, LessAt
<1>4. ASSUME ~Less(k, p), ~HasPrefix(k, p)
      PROVE  \E d \in 1..Len(p) : /\ d <= Len(k) /\ p[d] < k[d]
                                  /\ \A j \in 1..(d - 1) : p[j] = k[j]
  <2>1. k # p
    BY <1>1, <1>4, PrefixAt
  <2>2. PICK d \in Nat \ {0} : LessBy(p, k, d)
    BY <1>4, <2>1, LessTotal, LessAt
  <2>3. d # Len(p) + 1
    BY <1>1, <1>4, <2>2, PrefixAt DEF LessBy
  <2>. QED
    BY <1>1, <2>2, <2>3 DEF LessBy
<1>5. ASSUME NEW i \in 1..Len(p), p[i] < Base - 1, \A j \in (i + 1)..Len(p) : p[j] = Base - 1,
             u = Incremented(p, i), Less(k, u), ~Less(k, p), ~HasPrefix(k, p)
      PROVE  FALSE
  <2>1. /\ u \in Keys /\ Len(u) = i /\ u[i] = p[i] + 1
        /\ \A j \in 1..(i - 1) : u[j] = p[j]
    BY <1>5, IncrementedFacts
  <2>2. PICK d \in 1..Len(p) : /\ d <= Len(k) /\ p[d] < k[d]
                               /\ \A j \in 1..(d - 1) : p[j] = k[j]
    BY <1>4, <1>5
  <2>. HIDE DEF u
  <2>3. PICK e \in Nat \ {0} : LessBy(k, u, e)
    BY <1>5, <2>1, LessAt
  <2>4. d <= i /\ d \in 1..Len(k) /\ i \in Nat
    BY <1>1, <1>5, <2>2
  <2>5. u[d] <= k[d] /\ u[d] \in Nat /\ k[d] \in Nat
    BY <1>1, <2>1, <2>2, <2>4
  <2>6. CASE e < d
    <3>1. e <= Len(k) /\ k[e] < u[e] /\ e \in 1..(d - 1) /\ e \in 1..(i - 1)
      BY <1>1, <2>3, <2>4, <2>6 DEF LessBy
    <3>2. k[e] = u[e] /\ k[e] \in Nat
      BY <1>1, <2>1, <2>2, <3>1
    <3>. QED
      BY <3>1, <3>2
  <2>7. CASE e = d
    BY <1>1, <2>3, <2>4, <2>5, <2>7 DEF LessBy
  <2>8. CASE e > d
    <3>1. k[d] = u[d] /\ e <= i
      BY <2>1, <2>3, <2>4, <2>8 DEF LessBy
    <3>2. d < i
      BY <2>3, <2>4, <2>8, <3>1
    <3>3. u[d] = p[d]
      BY <2>1, <2>4, <3>2
    <3>. QED
      BY <2>2, <2>5, <3>1, <3>3
  <2>. QED
    BY <2>4, <2>6, <2>7, <2>8
<1>6. CASE u = Nil /\ \A j \in 1..Len(p) : p[j] = Base - 1
  <2>1. ASSUME ~Less(k, p), ~HasPrefix(k, p) PROVE FALSE
    BY <1>1, <1>4, <1>6, <2>1, KeysAssumption
  <2>. QED
    BY <1>2, <1>6, <2>1
<1>7. ASSUME NEW i \in 1..Len(p), p[i] < Base - 1, \A j \in (i + 1)..Len(p) : p[j] = Base - 1,
             u = Incremented(p, i)
      PROVE  HasPrefix(k, p) <=> ~Less(k, p) /\ (u = Nil \/ Less(k, u))
  <2>1. u # Nil
    BY <1>7, IncrementedFacts, KeysAssumption
  <2>. HIDE DEF u
  <2>. QED
    BY <1>2, <1>3, <1>5, <1>7, <2>1
<1>. HIDE DEF u
<1>8. HasPrefix(k, p) <=> ~Less(k, p) /\ (u = Nil \/ Less(k, u))
  BY <1>6, <1>7, UpperBound DEF u
<1>. QED
  BY <1>8 DEF u

-----------------------------------------------------------------------------
(* Ends of a set of keys.                                                   *)

(***************************************************************************)
(* Finitely many keys have a first one.                                    *)
(***************************************************************************)
LEMMA LeastKey ==
  ASSUME NEW K, K \subseteq Keys, IsFiniteSet(K), K # {}
  PROVE  Least(K) \in K /\ \A l \in K \ {Least(K)} : Less(Least(K), l)
<1>. DEFINE Below(k) == {l \in K : Less(l, k)}
            T == {Cardinality(Below(k)) : k \in K}
<1>1. \A k \in K : Below(k) \in SUBSET K /\ IsFiniteSet(Below(k)) /\ Cardinality(Below(k)) \in Nat
  <2>. TAKE k \in K
  <2>1. Below(k) \in SUBSET K
    OBVIOUS
  <2>. HIDE DEF Below
  <2>2. IsFiniteSet(Below(k))
    BY <2>1, FS_Subset
  <2>. QED
    BY <2>1, <2>2, FS_CardinalityType
<1>2. ASSUME NEW k \in K, NEW l \in K, Less(l, k) PROVE Cardinality(Below(l)) < Cardinality(Below(k))
  <2>1. Below(l) \in SUBSET Below(k)
    BY <1>2, LessTransitive
  <2>2. l \in Below(k) /\ l \notin Below(l)
    BY <1>2, LessIrreflexive
  <2>. HIDE DEF Below
  <2>3. Cardinality(Below(l)) <= Cardinality(Below(k)) /\ Cardinality(Below(k)) # Cardinality(Below(l))
    BY <1>1, <2>1, <2>2, FS_Subset
  <2>. QED
    BY <1>1, <2>3
<1>. HIDE DEF Below
<1>3. T \subseteq Nat /\ T # {}
  BY <1>1
<1>4. PICK m \in T : \A n \in T : m <= n
  <2>. HIDE DEF T
  <2>. QED
    BY <1>3, NatMin
<1>5. PICK k \in K : m = Cardinality(Below(k))
  OBVIOUS
<1>6. \A l \in K \ {k} : Less(k, l)
  <2>. TAKE l \in K \ {k}
  <2>1. Cardinality(Below(k)) <= Cardinality(Below(l))
    BY <1>4, <1>5
  <2>2. ~Less(l, k)
    BY <1>1, <1>2, <2>1
  <2>. QED
    BY <2>2, LessTotal
<1>. QED
  BY <1>6 DEF Least

(***************************************************************************)
(* Finitely many keys have a last one.                                     *)
(***************************************************************************)
LEMMA GreatestKey ==
  ASSUME NEW K, K \subseteq Keys, IsFiniteSet(K), K # {}
  PROVE  Greatest(K) \in K /\ \A l \in K \ {Greatest(K)} : Less(l, Greatest(K))
<1>. DEFINE Above(k) == {l \in K : Less(k, l)}
            T == {Cardinality(Above(k)) : k \in K}
<1>1. \A k \in K : Above(k) \in SUBSET K /\ IsFiniteSet(Above(k)) /\ Cardinality(Above(k)) \in Nat
  <2>. TAKE k \in K
  <2>1. Above(k) \in SUBSET K
    OBVIOUS
  <2>. HIDE DEF Above
  <2>2. IsFiniteSet(Above(k))
    BY <2>1, FS_Subset
  <2>. QED
    BY <2>1, <2>2, FS_CardinalityType
<1>2. ASSUME NEW k \in K, NEW l \in K, Less(k, l) PROVE Cardinality(Above(l)) < Cardinality(Above(k))
  <2>1. Above(l) \in SUBSET Above(k)
    BY <1>2, LessTransitive
  <2>2. l \in Above(k) /\ l \notin Above(l)
    BY <1>2, LessIrreflexive
  <2>. HIDE DEF Above
  <2>3. Cardinality(Above(l)) <= Cardinality(Above(k)) /\ Cardinality(Above(k)) # Cardinality(Above(l))
    BY <1>1, <2>1, <2>2, FS_Subset
  <2>. QED
    BY <1>1, <2>3
<1>. HIDE DEF Above
<1>3. T \subseteq Nat /\ T # {}
  BY <1>1
<1>4. PICK m \in T : \A n \in T : m <= n
  <2>. HIDE DEF T
  <2>. QED
    BY <1>3, NatMin
<1>5. PICK k \in K : m = Cardinality(Above(k))
  OBVIOUS
<1>6. \A l \in K \ {k} : Less(l, k)
  <2>. TAKE l \in K \ {k}
  <2>1. Cardinality(Above(k)) <= Cardinality(Above(l))
    BY <1>4, <1>5
  <2>2. ~Less(k, l)
    BY <1>1, <1>2, <2>1
  <2>. QED
    BY <2>2, LessTotal
<1>. QED
  BY <1>6 DEF Greatest

(***************************************************************************)
(* KeyUpperBound returns a key or nil (pebble.go:308-321).                 *)
(***************************************************************************)
LEMMA BoundType == ASSUME NEW p \in Keys PROVE KeyUpperBound(p) \in Keys \cup {Nil}
BY UpperBound, IncrementedFacts

-----------------------------------------------------------------------------
(* The inductive invariant.                                                 *)

\* What a store holds: values under finitely many keys.
IsContents(c) ==
  /\ c = [k \in DOMAIN c |-> c[k]] /\ IsFiniteSet(DOMAIN c)
  /\ DOMAIN c \subseteq Keys /\ \A k \in DOMAIN c : c[k] \in Values

\* Types, but for those of scans.
TypeInv ==
  /\ IsContents(db) /\ IsContents(disk)
  /\ open \in BOOLEAN /\ deleting \in BOOLEAN /\ unflushed \in BOOLEAN
  /\ DOMAIN scan \subseteq Callers

\* b.mu excludes: while DeleteAll runs nobody scans, and the binding is open. What is
\* not flushed is gone when it is closed.
LockInv == (deleting => open /\ DOMAIN scan = {}) /\ (~open => DOMAIN scan = {} /\ ~unflushed)

\* A store that is not being emptied is on disk, unless a flush has failed.
DiskInv ==
  open => /\ DOMAIN db \subseteq DOMAIN disk /\ \A k \in DOMAIN db : disk[k] = db[k]
          /\ ~deleting /\ ~unflushed => disk = db

\* The order in which a scan shows keys.
Precedes(it, a, b) == IF it.reverse THEN Less(b, a) ELSE Less(a, b)

\* The keys a scan has shown are in range and in order, and come before all others.
InOrder(it) ==
  /\ \A i \in DOMAIN it.seen : it.seen[i] \in Within(it.of, it.lower, it.upper)
  /\ \A i, j \in DOMAIN it.seen : i < j => Precedes(it, it.seen[i], it.seen[j])
  /\ \A i \in DOMAIN it.seen : \A k \in Ahead(it) : Precedes(it, it.seen[i], k)

\* An iterator over the contents c: its bounds, which for a prefix scan are those of
\* the prefix, and the keys it has shown.
IsScan(it, c) ==
  /\ it \in [of : {c}, lower : Keys \cup {Nil}, upper : Keys \cup {Nil},
             prefix : Keys \cup {Nil}, reverse : BOOLEAN, seen : Seq(Keys)]
  /\ it.prefix # Nil => it.lower = it.prefix /\ it.upper = KeyUpperBound(it.prefix)
  /\ InOrder(it)

\* Scans iterate over what the store holds now.
ScanInv == \A t \in DOMAIN scan : IsScan(scan[t], db)

(***************************************************************************)
(* The inductive invariant: the lock, the disk and the iterators           *)
(* (pebble.go:124-305).                                                    *)
(***************************************************************************)
IInv == TypeInv /\ LockInv /\ DiskInv /\ ScanInv

(***************************************************************************)
(* What is left of a store after deletions.                                *)
(***************************************************************************)
LEMMA WithoutContents ==
  ASSUME NEW c, IsContents(c), NEW K
  PROVE  /\ IsContents(Without(c, K))
         /\ DOMAIN Without(c, K) \subseteq DOMAIN c
         /\ \A k \in DOMAIN Without(c, K) : Without(c, K)[k] = c[k]
<1>1. /\ DOMAIN Without(c, K) \in SUBSET DOMAIN c
      /\ \A k \in DOMAIN Without(c, K) : Without(c, K)[k] = c[k]
      /\ Without(c, K) = [k \in DOMAIN Without(c, K) |-> Without(c, K)[k]]
  BY DEF Without
<1>2. IsFiniteSet(DOMAIN Without(c, K))
  BY <1>1, FS_Subset DEF IsContents
<1>. QED
  BY <1>1, <1>2 DEF IsContents

(***************************************************************************)
(* An empty store.                                                         *)
(***************************************************************************)
LEMMA EmptyContents == IsContents(Empty) /\ DOMAIN Empty = {}
BY FS_EmptySet DEF IsContents, Empty

(***************************************************************************)
(* A synced write (pebble.go:135, 154, 193, 212) preserves the invariant.  *)
(***************************************************************************)
LEMMA SyncedSafe ==
  ASSUME IInv, NEW contents, IsContents(contents), Synced(contents)
  PROVE  IInv'
<1>1. DOMAIN scan = {} /\ ~deleting /\ open
  BY DEF Synced, CanLock
<1>2. LockInv' /\ ScanInv'
  BY <1>1 DEF Synced, LockInv, ScanInv
<1>3. DiskInv' /\ TypeInv'
  BY <1>1 DEF Synced, DiskInv, IInv, TypeInv
<1>. QED
  BY <1>2, <1>3 DEF IInv

(***************************************************************************)
(* A callback gets the first of the keys not shown yet, in the direction   *)
(* of the scan (pebble.go:238, 270, 295).                                  *)
(***************************************************************************)
LEMMA NextInOrder ==
  ASSUME NEW c, IsContents(c), NEW it, IsScan(it, c), Ahead(it) # {},
         NEW x, x = IF it.reverse THEN Greatest(Ahead(it)) ELSE Least(Ahead(it)),
         NEW jt, jt = [it EXCEPT !.seen = Append(@, x)]
  PROVE  IsScan(jt, c)
<1>1. /\ it \in [of : {c}, lower : Keys \cup {Nil}, upper : Keys \cup {Nil},
                 prefix : Keys \cup {Nil}, reverse : BOOLEAN, seen : Seq(Keys)]
      /\ it.of = c /\ it.seen \in Seq(Keys) /\ it.reverse \in BOOLEAN
  BY DEF IsScan
<1>2. Ahead(it) \in SUBSET DOMAIN c /\ Ahead(it) \subseteq Keys
  BY <1>1 DEF Ahead, Within, IsContents
<1>3. IsFiniteSet(Ahead(it))
  BY <1>2, FS_Subset DEF IsContents
<1>4. x \in Ahead(it) /\ \A k \in Ahead(it) \ {x} : Precedes(it, x, k)
  BY <1>1, <1>2, <1>3, LeastKey, GreatestKey DEF Precedes
<1>5. x \in Keys
  BY <1>2, <1>4
<1>6. /\ jt.seen = Append(it.seen, x) /\ jt.of = it.of /\ jt.lower = it.lower
      /\ jt.upper = it.upper /\ jt.prefix = it.prefix /\ jt.reverse = it.reverse
  BY <1>1
<1>7. jt \in [of : {c}, lower : Keys \cup {Nil}, upper : Keys \cup {Nil},
              prefix : Keys \cup {Nil}, reverse : BOOLEAN, seen : Seq(Keys)]
  <2>1. Append(it.seen, x) \in Seq(Keys)
    BY <1>1, <1>5
  <2>. QED
    BY <1>1, <2>1
<1>. DEFINE n == Len(it.seen)
<1>8. /\ n \in Nat /\ DOMAIN it.seen = 1..n /\ DOMAIN jt.seen = 1..(n + 1)
      /\ \A i \in 1..n : jt.seen[i] = it.seen[i]
      /\ jt.seen[n + 1] = x
  BY <1>1, <1>5, <1>6
<1>. HIDE DEF n
<1>9. Ahead(jt) = Ahead(it) \ {x}
  <2>1. \A k : (\A i \in DOMAIN jt.seen : jt.seen[i] # k) <=>
               (k # x /\ \A i \in DOMAIN it.seen : it.seen[i] # k)
    BY <1>8
  <2>2. Within(jt.of, jt.lower, jt.upper) = Within(it.of, it.lower, it.upper)
    BY <1>6
  <2>3. \A k : k \in Ahead(jt) <=> k \in Ahead(it) /\ k # x
    BY <2>1, <2>2 DEF Ahead
  <2>. QED
    BY <2>3
<1>10. \A a, b : Precedes(jt, a, b) <=> Precedes(it, a, b)
  BY <1>6 DEF Precedes
<1>11. InOrder(it)
  BY DEF IsScan
<1>12. \A i \in DOMAIN jt.seen : jt.seen[i] \in Within(jt.of, jt.lower, jt.upper)
  <2>. TAKE i \in DOMAIN jt.seen
  <2>1. CASE i \in 1..n
    BY <1>6, <1>8, <1>11, <2>1 DEF InOrder
  <2>2. CASE i = n + 1
    BY <1>4, <1>6, <1>8, <2>2 DEF Ahead
  <2>. QED
    BY <1>8, <2>1, <2>2
<1>13. \A i, j \in DOMAIN jt.seen : i < j => Precedes(jt, jt.seen[i], jt.seen[j])
  <2>. TAKE i, j \in DOMAIN jt.seen
  <2>. HAVE i < j
  <2>1. i \in 1..n
    BY <1>8
  <2>2. CASE j \in 1..n
    BY <1>8, <1>10, <1>11, <2>1, <2>2 DEF InOrder
  <2>3. CASE j = n + 1
    BY <1>4, <1>8, <1>10, <1>11, <2>1, <2>3 DEF InOrder
  <2>. QED
    BY <1>8, <2>2, <2>3
<1>14. \A i \in DOMAIN jt.seen : \A k \in Ahead(jt) : Precedes(jt, jt.seen[i], k)
  <2>. TAKE i \in DOMAIN jt.seen
  <2>. TAKE k \in Ahead(jt)
  <2>1. k \in Ahead(it) \ {x}
    BY <1>9
  <2>2. CASE i \in 1..n
    BY <1>8, <1>10, <1>11, <2>1, <2>2 DEF InOrder
  <2>3. CASE i = n + 1
    BY <1>4, <1>8, <1>10, <2>1, <2>3
  <2>. QED
    BY <1>8, <2>2, <2>3
<1>15. InOrder(jt)
  BY <1>12, <1>13, <1>14 DEF InOrder
<1>16. jt.prefix # Nil => jt.lower = jt.prefix /\ jt.upper = KeyUpperBound(jt.prefix)
  BY <1>6 DEF IsScan
<1>. QED
  BY <1>7, <1>15, <1>16 DEF IsScan

(***************************************************************************)
(* Every operation, and a crash, preserves the invariant.                  *)
(***************************************************************************)
LEMMA NextSafe == ASSUME IInv, [Next]_vars PROVE IInv'
<1>. USE DEF IInv
<1>1. CASE Open
  <2>1. LockInv' /\ ScanInv'
    BY <1>1 DEF Open, CanLock, LockInv, ScanInv
  <2>2. TypeInv' /\ DiskInv'
    BY <1>1 DEF Open, CanLock, TypeInv, DiskInv
  <2>. QED
    BY <2>1, <2>2
<1>2. CASE Close
  BY <1>2, EmptyContents DEF Close, CanLock, TypeInv, LockInv, DiskInv, ScanInv
<1>3. CASE Crash
  <2>1. DOMAIN scan' = {} /\ ~deleting' /\ ~unflushed' /\ open' = FALSE
        /\ deleting' \in BOOLEAN /\ unflushed' \in BOOLEAN
    BY <1>3 DEF Crash, NoScans
  <2>2. IsContents(db')
    BY <1>3, EmptyContents DEF Crash
  <2>3. IsContents(disk')
    <3>1. disk' = disk \/ \E K : disk' = Without(disk, K)
      BY <1>3 DEF Crash
    <3>. QED
      BY <3>1, WithoutContents DEF TypeInv
  <2>. QED
    BY <2>1, <2>2, <2>3 DEF TypeInv, LockInv, DiskInv, ScanInv
<1>4. ASSUME NEW k \in Keys, NEW v \in Values \cup {Nil}, SetB(k, v) PROVE IInv'
  <2>. DEFINE c == [l \in DOMAIN db \cup {k} |-> IF l = k THEN v ELSE db[l]]
  <2>1. v \in Values /\ Synced(c)
    BY <1>4 DEF SetB
  <2>2. IsFiniteSet(DOMAIN db \cup {k})
    BY FS_AddElement DEF TypeInv, IsContents
  <2>3. IsContents(c)
    BY <2>1, <2>2 DEF TypeInv, IsContents
  <2>. HIDE DEF c
  <2>. QED
    BY <2>1, <2>3, SyncedSafe
<1>5. ASSUME NEW K, Synced(Without(db, K)) PROVE IInv'
  BY <1>5, SyncedSafe, WithoutContents DEF TypeInv
<1>6. ASSUME NEW k, NEW l, DeleteRangeB(k, l) PROVE IInv'
  BY <1>5, <1>6 DEF DeleteRangeB
<1>7. ASSUME NEW k \in Keys, DeleteB(k) \/ DeletePrefixB(k) PROVE IInv'
  BY <1>5, <1>6, <1>7 DEF DeleteB, DeletePrefixB
<1>8. CASE DeleteAll
  BY <1>8 DEF DeleteAll, CanLock, TypeInv, LockInv, DiskInv, ScanInv
<1>9. CASE DeleteNext
  <2>1. PICK K : db' = Without(db, K)
    BY <1>9 DEF DeleteNext
  <2>2. /\ IsContents(db') /\ DOMAIN db' \subseteq DOMAIN db
        /\ \A k \in DOMAIN db' : db'[k] = db[k]
    BY <2>1, WithoutContents DEF TypeInv
  <2>3. DOMAIN scan = {} /\ deleting /\ UNCHANGED <<open, disk, scan, deleting, unflushed>>
    BY <1>9 DEF DeleteNext, LockInv
  <2>. QED
    BY <2>2, <2>3 DEF TypeInv, LockInv, DiskInv, ScanInv
<1>10. CASE DeleteAllReturn
  BY <1>10 DEF DeleteAllReturn, TypeInv, LockInv, DiskInv, ScanInv
<1>11. ASSUME NEW t \in Callers, NEW lower \in Keys \cup {Nil}, NEW upper \in Keys \cup {Nil},
              NEW prefix \in Keys \cup {Nil}, NEW reverse \in BOOLEAN,
              prefix # Nil => lower = prefix /\ upper = KeyUpperBound(prefix),
              Scan(t, lower, upper, prefix, reverse)
       PROVE  IInv'
  <2>. DEFINE it == [of |-> db, lower |-> lower, upper |-> upper,
                     prefix |-> prefix, reverse |-> reverse, seen |-> << >>]
  <2>1. IsScan(it, db)
    <3>1. it \in [of : {db}, lower : Keys \cup {Nil}, upper : Keys \cup {Nil},
                  prefix : Keys \cup {Nil}, reverse : BOOLEAN, seen : Seq(Keys)]
      OBVIOUS
    <3>2. DOMAIN it.seen = {}
      OBVIOUS
    <3>3. InOrder(it)
      <4>. HIDE DEF it
      <4>. QED
        BY <3>2 DEF InOrder
    <3>. QED
      BY <1>11, <3>1, <3>3 DEF IsScan
  <2>2. /\ DOMAIN scan' = DOMAIN scan \cup {t} /\ scan'[t] = it
        /\ \A u \in DOMAIN scan \ {t} : scan'[u] = scan[u]
        /\ open /\ ~deleting /\ UNCHANGED <<open, db, disk, deleting, unflushed>>
    BY <1>11 DEF Scan, CanRLock
  <2>. HIDE DEF it
  <2>3. ScanInv'
    BY <2>1, <2>2 DEF ScanInv
  <2>. QED
    BY <2>2, <2>3 DEF TypeInv, LockInv, DiskInv
<1>12. ASSUME NEW t \in Callers, ScanNext(t) PROVE IInv'
  <2>. DEFINE x == IF scan[t].reverse THEN Greatest(Ahead(scan[t])) ELSE Least(Ahead(scan[t]))
              jt == [scan[t] EXCEPT !.seen = Append(@, x)]
  <2>1. /\ t \in DOMAIN scan /\ Ahead(scan[t]) # {} /\ DOMAIN scan' = DOMAIN scan
        /\ \A u \in DOMAIN scan \ {t} : scan'[u] = scan[u]
        /\ UNCHANGED <<open, db, disk, deleting, unflushed>>
    BY <1>12 DEF ScanNext
  <2>2. scan'[t] = jt
    BY <1>12 DEF ScanNext
  <2>3. IsScan(jt, db)
    BY <2>1, NextInOrder DEF TypeInv, ScanInv
  <2>. HIDE DEF x, jt
  <2>4. ScanInv'
    BY <2>1, <2>2, <2>3 DEF ScanInv
  <2>. QED
    BY <2>1, <2>4 DEF TypeInv, LockInv, DiskInv
<1>13. ASSUME NEW t \in Callers, ScanReturn(t) PROVE IInv'
  <2>1. /\ DOMAIN scan' \subseteq DOMAIN scan /\ \A u \in DOMAIN scan' : scan'[u] = scan[u]
        /\ UNCHANGED <<open, db, disk, deleting, unflushed>>
    BY <1>13 DEF ScanReturn
  <2>2. ScanInv'
    BY <2>1 DEF ScanInv
  <2>. QED
    BY <2>1, <2>2 DEF TypeInv, LockInv, DiskInv
<1>14. ASSUME NEW t \in Callers, NEW k \in Keys, ScanPrefixB(t, k) PROVE IInv'
  <2>1. KeyUpperBound(k) \in Keys \cup {Nil}
    BY BoundType
  <2>. QED
    BY <1>11, <1>14, <2>1 DEF ScanPrefixB
<1>15. ASSUME NEW t \in Callers, NEW k \in Bounds, NEW l \in Bounds,
              ScanRangeB(t, k, l) \/ ScanRangeReverseB(t, k, l)
       PROVE  IInv'
  <2>1. k \in Keys \cup {Nil} /\ l \in Keys \cup {Nil}
    BY BoundsAssumption
  <2>2. CASE Scan(t, k, l, Nil, FALSE)
    BY <1>11, <2>1, <2>2
  <2>3. CASE Scan(t, k, l, Nil, TRUE)
    BY <1>11, <2>1, <2>3
  <2>. QED
    BY <1>15, <2>2, <2>3 DEF ScanRangeB, ScanRangeReverseB
<1>16. CASE UNCHANGED vars
  BY <1>16 DEF vars, TypeInv, LockInv, DiskInv, ScanInv
<1>. QED
  BY <1>1, <1>2, <1>3, <1>4, <1>6, <1>7, <1>8, <1>9, <1>10, <1>12, <1>13, <1>14, <1>15, <1>16
     DEF Next

(***************************************************************************)
(* Invariance: the lock discipline of the binding holds in all behaviours  *)
(* and with it what it is there for (pebble.go:41-44).                     *)
(***************************************************************************)
THEOREM Invariance == Spec => []IInv
<1>1. Init => IInv
  BY EmptyContents DEF Init, NoScans, IInv, TypeInv, LockInv, DiskInv, ScanInv
<1>. QED
  BY <1>1, NextSafe, PTL DEF Spec

-----------------------------------------------------------------------------
(* What the binding promises.                                              *)

(***************************************************************************)
(* TypeCorrect: the store holds values under keys, and what a scan shows   *)
(* are keys: an iterator that has not ended is at a key                    *)
(* (pebble.go:226-305).                                                    *)
(***************************************************************************)
THEOREM TypeCorrect == Spec => []TypeOK
<1>1. IInv => TypeOK
  BY DEF IInv, TypeInv, ScanInv, IsScan, IsContents, TypeOK
<1>. QED
  BY <1>1, Invariance, PTL

(***************************************************************************)
(* Durability: a crash at any moment loses no acknowledged write, also     *)
(* while DeleteAll deletes without syncing, and brings back nothing that   *)
(* was deleted, unless DeleteAll has not flushed it (pebble.go:124-178).   *)
(***************************************************************************)
THEOREM Durability == Spec => []Durable
<1>1. IInv => Durable
  BY DEF IInv, DiskInv, Durable
<1>. QED
  BY <1>1, Invariance, PTL

\* What scans iterate over is what the store holds now.
ScanCurrent == \A t \in DOMAIN scan : scan[t].of = db

(***************************************************************************)
(* Isolation: whatever other goroutines do, an iterator shows the contents *)
(* of the store at the moment of each callback (pebble.go:226-305).        *)
(***************************************************************************)
THEOREM Isolation == Spec => []ScanCurrent
<1>1. IInv => ScanCurrent
  BY DEF IInv, ScanInv, IsScan, ScanCurrent
<1>. QED
  BY <1>1, Invariance, PTL

(***************************************************************************)
(* Scans: the keys a scan has shown are keys it is for, in order and       *)
(* without a gap, and when it ends it has shown all of them, for scans of  *)
(* prefixes and of ranges in both directions (pebble.go:226-305).          *)
(***************************************************************************)
THEOREM Scans == Spec => []ScanExact
<1>1. ASSUME IInv, NEW t \in DOMAIN scan, NEW it, it = scan[t],
             NEW seen, seen = {it.seen[i] : i \in DOMAIN it.seen}
      PROVE  /\ seen \subseteq Wanted(it)
             /\ \A i, j \in DOMAIN it.seen : i < j => Precedes(it, it.seen[i], it.seen[j])
             /\ \A k \in seen, l \in Wanted(it) : Precedes(it, l, k) => l \in seen
             /\ Ahead(it) = {} => seen = Wanted(it)
  <2>1. IsScan(it, db) /\ it.of = db
    BY <1>1 DEF IInv, ScanInv, IsScan
  <2>2. InOrder(it)
    BY <2>1 DEF IsScan
  <2>3. DOMAIN db \subseteq Keys
    BY <1>1 DEF IInv, TypeInv, IsContents
  <2>4. Wanted(it) = Within(db, it.lower, it.upper)
    <3>1. CASE it.prefix = Nil
      BY <3>1 DEF Wanted
    <3>2. CASE it.prefix # Nil
      <4>1. it.prefix \in Keys /\ it.lower = it.prefix /\ it.upper = KeyUpperBound(it.prefix)
        BY <2>1, <3>2 DEF IsScan
      <4>2. \A k \in DOMAIN db :
              HasPrefix(k, it.prefix) <=>
              ~Less(k, it.lower) /\ (it.upper = Nil \/ Less(k, it.upper))
        BY <2>3, <4>1, PrefixRange
      <4>. QED
        BY <3>2, <4>1, <4>2 DEF Wanted, Within
    <3>. QED
      BY <3>1, <3>2
  <2>5. Wanted(it) \subseteq Keys
    BY <2>3, <2>4 DEF Within
  <2>6. Ahead(it) = Wanted(it) \ seen
    BY <1>1, <2>1, <2>4 DEF Ahead
  <2>7. seen \subseteq Wanted(it)
    BY <1>1, <2>1, <2>2, <2>4 DEF InOrder
  <2>8. ASSUME NEW k \in seen, NEW l \in Wanted(it), Precedes(it, l, k), l \notin seen PROVE FALSE
    <3>1. Precedes(it, k, l)
      BY <1>1, <2>2, <2>6, <2>8 DEF InOrder
    <3>2. k \in Keys /\ l \in Keys
      BY <2>5, <2>7
    <3>3. Less(k, l) /\ Less(l, k)
      BY <2>8, <3>1 DEF Precedes
    <3>. QED
      BY <3>2, <3>3, LessTransitive, LessIrreflexive
  <2>. QED
    BY <2>2, <2>6, <2>7, <2>8 DEF InOrder
<1>2. IInv => ScanExact
  BY <1>1 DEF ScanExact, Precedes
<1>. QED
  BY <1>2, Invariance, PTL

(***************************************************************************)
(* PrefixDeletion: what DeletePrefix deletes are the keys with the prefix, *)
(* no more and no less, if the prefix has an upper bound                   *)
(* (pebble.go:186-197).                                                    *)
(***************************************************************************)
THEOREM PrefixDeletion == Spec => []DeletesPrefix
<1>1. IInv => DeletesPrefix
  <2>. SUFFICES ASSUME IInv, NEW p \in Keys, KeyUpperBound(p) # Nil
       PROVE  DeletedRange(db, p, KeyUpperBound(p)) = {k \in DOMAIN db : HasPrefix(k, p)}
    BY DEF DeletesPrefix
  <2>1. DOMAIN db \subseteq Keys
    BY DEF IInv, TypeInv, IsContents
  <2>. QED
    BY <2>1, PrefixRange DEF DeletedRange
<1>. QED
  BY <1>1, Invariance, PTL
=============================================================================
