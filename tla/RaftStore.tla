----------------------------- MODULE RaftStore -----------------------------
(***************************************************************************)
(* The log and the stable store of a Raft node                             *)
(* (services/state/raft/store.go) on top of two Pebble stores, whose       *)
(* writes are on disk when they return. Indexes and terms are written as   *)
(* big endian byte sequences, so that the order of keys is the order of    *)
(* indexes. Observers of membership changes are the subject of Membership. *)
(*                                                                         *)
(* The user of the store is hraft, modelled from the calls it makes: its   *)
(* main goroutine appends, truncates and persists terms and votes, its     *)
(* snapshot goroutine compacts the log meanwhile. The process may die at   *)
(* any point, and a write may fail.                                        *)
(***************************************************************************)
EXTENDS PebbleKeys

CONSTANTS
  MaxTerm,          \* bound: terms
  MaxIndex,         \* bound: indexes of log entries
  MaxBatch,         \* bound: entries of one StoreLogs
  Candidates        \* servers that ask for a vote

\* Mutant: the bytes are in little endian order.
MutantUint64ToBytes(u) == [i \in 1..MaxLen |-> (u \div Base^(i - 1)) % Base]

\* Mutant: indexes are counted from one, keys from two.
MutantShifted(u) == [i \in 1..MaxLen |-> ((u + 1) \div Base^(MaxLen - i)) % Base]

\* Big endian encoding and decoding of a number, which has MaxLen bytes here.
uint64ToBytes(u) ==
  LET shifted[n \in 0..MaxLen] == IF n = 0 THEN u ELSE shifted[n - 1] \div Base
  IN  [i \in 1..MaxLen |-> shifted[MaxLen - i] % Base]

bytesToUint64(b) ==
  LET value[i \in 0..MaxLen] == IF i = 0 THEN 0 ELSE Base * value[i - 1] + b[i]
  IN  value[MaxLen]

\* math.MaxUint64: all bytes have their greatest value.
MaxUint64 == bytesToUint64([i \in 1..MaxLen |-> Base - 1])

ASSUME StoreAssumption ==
  /\ MaxTerm \in Nat \ {0} /\ MaxTerm <= MaxUint64
  /\ MaxIndex \in Nat \ {0} /\ MaxIndex < MaxUint64
  /\ MaxBatch \in Nat \ {0}
  /\ Values = 1..MaxTerm
  /\ Nil \notin Candidates

VARIABLES
  store,            \* "closed", "open", or "leaked": only the log store is open
  log,              \* contents of the log store, entries abstracted to their terms
  stable,           \* contents of the stable store
  batch,            \* entries StoreLogs has still to store
  range,            \* arguments of DeleteRange, if it was the last call on the log store
  lastLog,          \* hraft's idea of the last index
  voting,           \* the candidate hraft is about to vote for, or Nil
  failed,           \* history: StoreLogs has failed, with a log unlike hraft's idea of it
  granted           \* history: votes given, pairs of term and candidate

vars == <<store, log, stable, batch, range, lastLog, voting, failed, granted>>

Indexes == 1..MaxIndex
Terms == 1..MaxTerm

\* The scans over all keys stop at the first one, the reverse scan at the last.
FirstIndex == IF DOMAIN log = {} THEN 0 ELSE bytesToUint64(Least(Within(log, Nil, Nil)))
LastIndex == IF DOMAIN log = {} THEN 0 ELSE bytesToUint64(Greatest(Within(log, Nil, Nil)))

\* GetLog(index), Nil is ErrLogNotFound.
GetLog(index) ==
  IF uint64ToBytes(index) \in DOMAIN log THEN log[uint64ToBytes(index)] ELSE Nil

-----------------------------------------------------------------------------
(* Stable store. hraft keeps its term and its last vote there. *)

StableKeys == {"CurrentTerm", "LastVoteTerm", "LastVoteCand"}

\* Mutant: little endian, while numbers are read as big endian.
MutantSetUint64(key, val) == stable' = [stable EXCEPT ![key] = MutantUint64ToBytes(val)]

Set(key, val) == stable' = [stable EXCEPT ![key] = val]
SetUint64(key, val) == stable' = [stable EXCEPT ![key] = uint64ToBytes(val)]

\* Get and GetUint64: the zero value where the key is not found.
Get(key) == IF stable[key] = Nil THEN << >> ELSE stable[key]
GetUint64(key) == IF stable[key] = Nil THEN 0 ELSE bytesToUint64(stable[key])

TypeOK ==
  /\ store \in {"closed", "open", "leaked"}
  /\ \A k \in DOMAIN log :
       /\ k \in [1..MaxLen -> Bytes] /\ log[k] \in Terms
       /\ uint64ToBytes(bytesToUint64(k)) = k /\ bytesToUint64(k) \in Indexes
  /\ DOMAIN stable = StableKeys
  /\ batch \in Seq([index: Indexes, term: Terms])
  /\ range \in {<< >>} \cup (Indexes \X Indexes)
  /\ lastLog \in 0..MaxIndex
  /\ voting \in Candidates \cup {Nil}
  /\ failed \in BOOLEAN
  /\ granted \subseteq Terms \X Candidates

Init ==
  /\ store = "closed"
  /\ log = Empty /\ stable = [k \in StableKeys |-> Nil]
  /\ batch = << >> /\ range = << >> /\ lastLog = 0 /\ voting = Nil
  /\ failed = FALSE /\ granted = {}

\* NewRaftStore opens the log store, then the stable store. hraft starts with the
\* last index it finds.
NewRaftStore ==
  /\ store = "closed"
  /\ store' = "open" /\ lastLog' = LastIndex
  /\ UNCHANGED <<log, stable, batch, range, voting, failed, granted>>

\* The stable store cannot be opened. Nobody closes the log store, which keeps its
\* directory locked, so that no later NewRaftStore of this process succeeds.
NewRaftStoreFails ==
  /\ store = "closed"
  /\ store' = "leaked"
  /\ UNCHANGED <<log, stable, batch, range, lastLog, voting, failed, granted>>

\* The main goroutine of hraft has no call in progress.
Idle == store = "open" /\ batch = << >> /\ voting = Nil

\* Close after hraft has ended; the files are kept.
Close ==
  /\ Idle
  /\ store' = "closed"
  /\ UNCHANGED <<log, stable, batch, range, lastLog, voting, failed, granted>>

-----------------------------------------------------------------------------
(* Log store. *)

\* Entries of a leader have terms up to the current one that do not decrease.
Ordered(terms) ==
  \A i \in 1..Len(terms) :
    terms[i] <= GetUint64("CurrentTerm") /\ (i > 1 => terms[i] >= terms[i - 1])

Consecutive(index, terms) ==
  [i \in 1..Len(terms) |-> [index |-> index + i - 1, term |-> terms[i]]]

\* hraft appends entries of the current term or, as follower, of the terms before,
\* after the last one or, after a snapshot of another server, after a gap.
StoreLogs(index, terms) ==
  /\ Idle /\ index > lastLog /\ index + Len(terms) - 1 <= MaxIndex
  /\ Ordered(terms) /\ (GetLog(lastLog) # Nil => terms[1] >= GetLog(lastLog))
  /\ batch' = Consecutive(index, terms) /\ range' = << >>
  /\ UNCHANGED <<store, log, stable, lastLog, voting, failed, granted>>

\* SetB of the next entry; after the last one hraft has a new last index.
StoreNext ==
  /\ store = "open" /\ batch # << >>
  /\ LET key == uint64ToBytes(Head(batch).index)
     IN  log' = [k \in DOMAIN log \cup {key} |-> IF k = key THEN Head(batch).term ELSE log[k]]
  /\ batch' = Tail(batch) /\ range' = << >>
  /\ lastLog' = IF Len(batch) = 1 THEN Head(batch).index ELSE lastLog
  /\ UNCHANGED <<store, stable, voting, failed, granted>>

\* SetB fails, and so does StoreLogs. Entries that are stored already stay, those
\* deleted before are gone, and hraft keeps its last index.
StoreFails ==
  /\ store = "open" /\ batch # << >>
  /\ batch' = << >> /\ range' = << >>
  /\ failed' = (failed \/ LastIndex # lastLog)
  /\ UNCHANGED <<store, log, stable, lastLog, voting, granted>>

\* Mutant: the range excludes max.
MutantDeleteRange(min, max) ==
  log' = Without(log, DeletedRange(log, uint64ToBytes(min), uint64ToBytes(max)))

DeleteRange(min, max) ==
  LET maxb == IF max = MaxUint64 THEN KeyUpperBound(uint64ToBytes(max))
              ELSE uint64ToBytes(max + 1)
  IN  log' = Without(log, DeletedRange(log, uint64ToBytes(min), maxb))

\* A follower whose entry at index has another term than the leader's deletes its
\* entries from index on; it goes on to store all entries the leader sent from there.
\* hraft has compared the entry before, or index is the first.
TruncateSuffix(index, terms) ==
  /\ Idle /\ index <= lastLog /\ index + Len(terms) - 1 <= MaxIndex
  /\ GetLog(index) # Nil /\ GetLog(index) # terms[1] /\ Ordered(terms)
  /\ index = 1 \/ (GetLog(index - 1) # Nil /\ terms[1] >= GetLog(index - 1))
  /\ DeleteRange(index, lastLog) /\ range' = <<index, lastLog>>
  /\ batch' = Consecutive(index, terms)
  /\ UNCHANGED <<store, stable, lastLog, voting, failed, granted>>

\* The snapshot goroutine deletes entries the snapshot covers, but for trailing ones.
Compact(max) ==
  /\ store = "open" /\ FirstIndex # 0 /\ FirstIndex <= max
  /\ max < LastIndex /\ max < lastLog
  /\ DeleteRange(FirstIndex, max) /\ range' = <<FirstIndex, max>>
  /\ UNCHANGED <<store, stable, batch, lastLog, voting, failed, granted>>

-----------------------------------------------------------------------------
(* Terms and votes. *)

NewTerm(term) ==
  /\ Idle /\ term > GetUint64("CurrentTerm")
  /\ SetUint64("CurrentTerm", term)
  /\ UNCHANGED <<store, log, batch, range, lastLog, voting, failed, granted>>

\* A vote that was given in this term is repeated, otherwise the new vote is
\* persisted, first its term, then the candidate.
Vote(c) ==
  /\ Idle /\ GetUint64("CurrentTerm") # 0
  /\ \/ /\ GetUint64("LastVoteTerm") = GetUint64("CurrentTerm")
        /\ Get("LastVoteCand") = c
        /\ granted' = granted \cup {<<GetUint64("CurrentTerm"), c>>}
        /\ UNCHANGED <<stable, voting>>
     \/ /\ GetUint64("LastVoteTerm") # GetUint64("CurrentTerm")
        /\ SetUint64("LastVoteTerm", GetUint64("CurrentTerm"))
        /\ voting' = c
        /\ UNCHANGED granted
  /\ UNCHANGED <<store, log, batch, range, lastLog, failed>>

VoteCand ==
  /\ store = "open" /\ voting # Nil
  /\ Set("LastVoteCand", voting)
  /\ granted' = granted \cup {<<GetUint64("CurrentTerm"), voting>>}
  /\ voting' = Nil
  /\ UNCHANGED <<store, log, batch, range, lastLog, failed>>

\* The process dies.
Crash ==
  /\ store # "closed"
  /\ store' = "closed" /\ batch' = << >> /\ range' = << >> /\ voting' = Nil
  /\ UNCHANGED <<log, stable, lastLog, failed, granted>>

Batches == UNION {[1..n -> Terms] : n \in 1..MaxBatch}

Next ==
  \/ NewRaftStore \/ NewRaftStoreFails \/ Close \/ Crash
  \/ \E i \in Indexes, ts \in Batches : StoreLogs(i, ts)
  \/ StoreNext \/ StoreFails
  \/ \E i \in Indexes, ts \in Batches : TruncateSuffix(i, ts)
  \/ \E i \in Indexes : Compact(i)
  \/ \E t \in Terms : NewTerm(t)
  \/ \E c \in Candidates : Vote(c)
  \/ VoteCand

Spec == Init /\ [][Next]_vars

-----------------------------------------------------------------------------
(* Properties. *)

\* The log as numbered entries.
Entries == [i \in {j \in Indexes : GetLog(j) # Nil} |-> GetLog(i)]

Abstract == INSTANCE LogStore
  WITH entries <- Entries, first <- FirstIndex, last <- LastIndex, pending <- batch

(***************************************************************************)
(* ImplementsLogStore: through byte keys, their order and exclusive upper  *)
(* bounds, RaftStore is the store of numbered entries that hraft expects:  *)
(* scans find the first and last index, a call of DeleteRange deletes the  *)
(* entries from min to max, both included, and no other, and a crash or    *)
(* error leaves a prefix of the batch (store.go:173-263).                  *)
(***************************************************************************)
ImplementsLogStore == Abstract!Spec

(***************************************************************************)
(* TermsAscend: in the log a node restarts with, terms do not decrease, on *)
(* which the comparison of logs in elections rests. Excepted is a log in   *)
(* which StoreLogs has failed midway: its entries stay, are overwritten    *)
(* one by one, and what is left of them may follow entries of a later term *)
(* (store.go:223-242).                                                     *)
(***************************************************************************)
TermsAscend ==
  failed \/ \A i, j \in DOMAIN Entries : i < j => Entries[i] <= Entries[j]

(***************************************************************************)
(* OneVote: what a restarted node reads back from the stable store keeps   *)
(* it from voting for two candidates in one term, also if the process died *)
(* between the two writes of a vote (store.go:265-314).                    *)
(***************************************************************************)
OneVote == \A v, w \in granted : v[1] = w[1] => v[2] = w[2]
=============================================================================
