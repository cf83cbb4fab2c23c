----------------------------- MODULE PebbleKeys -----------------------------
(***************************************************************************)
(* Keys of the Pebble store, services/store/pebble/pebble.go: byte slices  *)
(* in lexicographic order, the upper bound of a prefix, and the range      *)
(* operations of the engine as the binding uses them.                      *)
(***************************************************************************)
EXTENDS Naturals, Sequences, FiniteSets

CONSTANTS
  Base,             \* number of values of a byte, 256 in the program
  MaxLen,           \* bound: length of a key
  Values,           \* values of keys
  Nil               \* []byte(nil)

Bytes == 0..(Base - 1)
Keys == UNION {[1..n -> Bytes] : n \in 0..MaxLen}

ASSUME KeysAssumption ==
  /\ Base \in Nat \ {0, 1}
  /\ MaxLen \in Nat
  /\ Nil \notin Values /\ Nil \notin Keys

\* What an empty store holds, and a store without some keys.
Empty == [k \in {} |-> Nil]
Without(map, K) == [k \in DOMAIN map \ K |-> map[k]]

\* Key a starts with p.
HasPrefix(a, p) == Len(p) <= Len(a) /\ SubSeq(a, 1, Len(p)) = p

\* The order of keys: bytes.Compare(a, b) < 0.
Less(a, b) ==
  \/ HasPrefix(b, a) /\ a # b
  \/ \E i \in 1..Len(a) :
       /\ i <= Len(b) /\ a[i] < b[i]
       /\ SubSeq(a, 1, i - 1) = SubSeq(b, 1, i - 1)

\* Mutant: only the last byte is incremented, and it wraps around.
MutantKeyUpperBound(key) ==
  IF key = << >> THEN Nil ELSE [key EXCEPT ![Len(key)] = (@ + 1) % Base]

\* Increments the key from its last byte on; a byte that wraps around to zero is
\* cut off and the byte before it is incremented.
KeyUpperBound(key) ==
  LET end[i \in 0..Len(key)] ==
        IF i = 0 THEN Nil
        ELSE IF (key[i] + 1) % Base # 0 THEN Append(SubSeq(key, 1, i - 1), (key[i] + 1) % Base)
        ELSE end[i - 1]
  IN  end[Len(key)]

\* Keys an iterator with the given bounds visits; Nil is no bound.
Within(map, lower, upper) ==
  {k \in DOMAIN map : (lower = Nil \/ ~Less(k, lower)) /\ (upper = Nil \/ Less(k, upper))}

\* Keys DeleteRange of the engine deletes. It has no unbounded ranges: a nil end
\* compares as the empty key, so that nothing is in range.
DeletedRange(map, start, end) ==
  IF end = Nil THEN {} ELSE {k \in DOMAIN map : ~Less(k, start) /\ Less(k, end)}

\* The first and the last key of a set of keys.
Least(K) == CHOOSE k \in K : \A l \in K \ {k} : Less(k, l)
Greatest(K) == CHOOSE k \in K : \A l \in K \ {k} : Less(l, k)
=============================================================================
