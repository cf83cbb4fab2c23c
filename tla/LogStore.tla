------------------------------ MODULE LogStore ------------------------------
(***************************************************************************)
(* What hraft expects of its log store (hraft.LogStore, which RaftStore in *)
(* services/state/raft/store.go implements): a map from indexes to log     *)
(* entries, of which the first and the last index can be asked for. A      *)
(* batch is stored in the order of its entries, so that a failure leaves a *)
(* prefix of it; a range is deleted at once, both of its ends included.    *)
(* Of an entry only its term is kept.                                      *)
(***************************************************************************)
EXTENDS Naturals, Sequences

CONSTANTS Indexes,  \* indexes of log entries, a set of numbers without 0
          Terms     \* terms of log entries

VARIABLES entries,  \* the stored entries
          first,    \* what FirstIndex returns, 0 if there is no entry
          last,     \* what LastIndex returns, 0 if there is no entry
          pending,  \* entries StoreLogs has still to store
          range     \* arguments of DeleteRange, if it was called last

vars == <<entries, first, last, pending, range>>

\* FirstIndex and LastIndex always tell the least and the greatest index.
Ends(stored) ==
  IF stored = {} THEN first' = 0 /\ last' = 0
  ELSE /\ first' \in stored /\ \A i \in stored : first' <= i
       /\ last' \in stored /\ \A i \in stored : i <= last'

Init ==
  /\ DOMAIN entries = {} /\ pending = << >> /\ range = << >>
  /\ first = 0 /\ last = 0

\* StoreLogs starts, stores its next entry, or ends early.
Begin ==
  /\ pending = << >> /\ pending' # << >> /\ range' = << >>
  /\ UNCHANGED <<entries, first, last>>

Put ==
  /\ pending # << >> /\ pending' = Tail(pending) /\ range' = << >>
  /\ LET e == Head(pending)
     IN  entries' = [i \in DOMAIN entries \cup {e.index} |->
                       IF i = e.index THEN e.term ELSE entries[i]]
  /\ Ends(DOMAIN entries')

Abort ==
  /\ pending' = << >> /\ range' = << >>
  /\ UNCHANGED <<entries, first, last>>

\* DeleteRange(min, max) deletes the entries from min to max, both included, and
\* no other. A caller that has no batch in progress may go on with one.
Delete(min, max) ==
  /\ range' = <<min, max>>
  /\ entries' = [i \in DOMAIN entries \ (min..max) |-> entries[i]]
  /\ Ends(DOMAIN entries')
  /\ pending # << >> => UNCHANGED pending

Next == Begin \/ Put \/ Abort \/ \E min, max \in Indexes : Delete(min, max)

Spec == Init /\ [][Next]_vars
=============================================================================
