--------------------------- MODULE PebbleBinding ---------------------------
(***************************************************************************)
(* The Pebble storage binding, services/store/pebble/pebble.go: the        *)
(* operations of the local store under b.mu. Writes are synced to disk     *)
(* before they return; only DeleteAll deletes key by key without syncing   *)
(* and flushes at the end, without looking whether that works. A scan      *)
(* holds b.mu for reading while the caller looks at one key after the      *)
(* other. The store has a location on disk; one in memory differs in that  *)
(* nothing is left of it after Close. Other errors of the engine, and      *)
(* calls while the binding is not open, change nothing.                    *)
(***************************************************************************)
EXTENDS PebbleKeys

CONSTANTS
  Callers,          \* goroutines that use the store
  Bounds            \* bound: keys or Nil that limit the ranges of scans

ASSUME BoundsAssumption == Bounds \subseteq Keys \cup {Nil}

VARIABLES
  open,             \* b.db # nil
  db,               \* contents as the engine shows them
  disk,             \* contents that survive a crash
  scan,             \* scans in progress: iterator, direction, keys visited
  deleting,         \* DeleteAll is in progress
  unflushed         \* DeleteAll has returned, but its flush has failed

vars == <<open, db, disk, scan, deleting, unflushed>>

\* No scan is in progress.
NoScans == [t \in {} |-> Nil]

TypeOK ==
  /\ open \in BOOLEAN
  /\ DOMAIN db \subseteq Keys /\ \A k \in DOMAIN db : db[k] \in Values
  /\ DOMAIN disk \subseteq Keys /\ \A k \in DOMAIN disk : disk[k] \in Values
  /\ DOMAIN scan \subseteq Callers
  /\ \A t \in DOMAIN scan : scan[t].seen \in Seq(Keys) /\ scan[t].reverse \in BOOLEAN
  /\ deleting \in BOOLEAN /\ unflushed \in BOOLEAN

Init ==
  /\ open = FALSE
  /\ db = Empty /\ disk = Empty
  /\ scan = NoScans
  /\ deleting = FALSE /\ unflushed = FALSE

\* b.mu can be locked for writing; it can be locked for reading.
CanLock == DOMAIN scan = {} /\ ~deleting
CanRLock == ~deleting

Open ==
  /\ CanLock /\ ~open
  /\ open' = TRUE /\ db' = disk
  /\ UNCHANGED <<disk, scan, deleting, unflushed>>

\* The engine brings what is left to disk, unless it fails; the error is only logged.
Close ==
  /\ CanLock /\ open
  /\ open' = FALSE /\ db' = Empty
  /\ disk' \in {db, disk}
  /\ unflushed' = FALSE
  /\ UNCHANGED <<scan, deleting>>

\* A write with pebble.Sync is on disk when it returns, and with it all that was
\* written to the log of the engine before it.
Synced(contents) ==
  /\ CanLock /\ open
  /\ db' = contents /\ disk' = contents
  /\ unflushed' = FALSE
  /\ UNCHANGED <<open, scan, deleting>>

\* Mutant: the write is not synced.
MutantSetB(k, v) ==
  /\ CanLock /\ open /\ v # Nil
  /\ db' = [l \in DOMAIN db \cup {k} |-> IF l = k THEN v ELSE db[l]]
  /\ UNCHANGED <<open, disk, scan, deleting, unflushed>>

\* Mutant: a nil value is not refused.
MutantSetNil(k, v) ==
  Synced([l \in DOMAIN db \cup {k} |-> IF l = k THEN v ELSE db[l]])

\* A nil value is an error.
SetB(k, v) ==
  /\ v # Nil
  /\ Synced([l \in DOMAIN db \cup {k} |-> IF l = k THEN v ELSE db[l]])

DeleteB(k) == Synced(Without(db, {k}))

DeleteRangeB(start, end) == Synced(Without(db, DeletedRange(db, start, end)))

DeletePrefixB(prefix) == DeleteRangeB(prefix, KeyUpperBound(prefix))

\* Mutant: the lock of DeleteAll is a read lock, as in a scan.
MutantDeleteAll ==
  /\ CanRLock /\ open
  /\ db' = Empty /\ disk' = Empty
  /\ UNCHANGED <<open, scan, deleting, unflushed>>

\* DeleteAll locks b.mu, then deletes key by key in the order of the keys.
DeleteAll ==
  /\ CanLock /\ open
  /\ deleting' = TRUE
  /\ UNCHANGED <<open, db, disk, scan, unflushed>>

DeleteNext ==
  /\ deleting /\ DOMAIN db # {}
  /\ db' = Without(db, {Least(DOMAIN db)})
  /\ UNCHANGED <<open, disk, scan, deleting, unflushed>>

\* The deferred flush, after the last key or after the first error. Nobody looks at
\* its error: when it fails, the deletions are not on disk yet.
DeleteAllReturn ==
  /\ deleting
  /\ deleting' = FALSE
  /\ \/ disk' = db /\ unflushed' = FALSE
     \/ disk' = disk /\ unflushed' = TRUE
  /\ UNCHANGED <<open, db, scan>>

\* A goroutine starts to scan with b.mu locked for reading. The iterator shows the
\* store as it is now; a prefix scan keeps the prefix, a range scan Nil.
Scan(t, lower, upper, prefix, reverse) ==
  /\ CanRLock /\ open /\ t \notin DOMAIN scan
  /\ scan' = [u \in DOMAIN scan \cup {t} |->
                IF u = t THEN [of |-> db, lower |-> lower, upper |-> upper,
                               prefix |-> prefix, reverse |-> reverse, seen |-> << >>]
                ELSE scan[u]]
  /\ UNCHANGED <<open, db, disk, deleting, unflushed>>

ScanPrefixB(t, prefix) == Scan(t, prefix, KeyUpperBound(prefix), prefix, FALSE)
ScanRangeB(t, start, end) == Scan(t, start, end, Nil, FALSE)
ScanRangeReverseB(t, start, end) == Scan(t, start, end, Nil, TRUE)

\* Keys the iterator of a scan has not visited yet.
Ahead(it) == {k \in Within(it.of, it.lower, it.upper) : \A i \in DOMAIN it.seen : it.seen[i] # k}

\* The callback gets the next key.
ScanNext(t) ==
  /\ t \in DOMAIN scan /\ Ahead(scan[t]) # {}
  /\ scan' = [scan EXCEPT ![t].seen =
                Append(@, IF scan[t].reverse THEN Greatest(Ahead(scan[t])) ELSE Least(Ahead(scan[t])))]
  /\ UNCHANGED <<open, db, disk, deleting, unflushed>>

\* The iterator is exhausted or the callback has returned false.
ScanReturn(t) ==
  /\ t \in DOMAIN scan
  /\ scan' = [u \in DOMAIN scan \ {t} |-> scan[u]]
  /\ UNCHANGED <<open, db, disk, deleting, unflushed>>

\* The process dies. Of the deletions of DeleteAll that have not been flushed the
\* first ones may be on disk.
Crash ==
  /\ open
  /\ open' = FALSE /\ db' = Empty /\ deleting' = FALSE /\ unflushed' = FALSE
  /\ scan' = NoScans
  /\ \/ disk' = disk
     \/ \E k \in DOMAIN disk \ DOMAIN db :
          disk' = Without(disk, {l \in DOMAIN disk : l = k \/ Less(l, k)})

Next ==
  \/ Open \/ Close \/ Crash
  \/ \E k \in Keys, v \in Values \cup {Nil} : SetB(k, v)
  \/ \E k \in Keys : DeleteB(k) \/ DeletePrefixB(k)
  \/ \E k, l \in Keys : DeleteRangeB(k, l)
  \/ DeleteAll \/ DeleteNext \/ DeleteAllReturn
  \/ \E t \in Callers :
       \/ \E k \in Keys : ScanPrefixB(t, k)
       \/ \E k, l \in Bounds : ScanRangeB(t, k, l) \/ ScanRangeReverseB(t, k, l)
       \/ ScanNext(t) \/ ScanReturn(t)

Spec == Init /\ [][Next]_vars

-----------------------------------------------------------------------------
(* Properties. *)

\* The keys a scan is for: those with the prefix, or those in [lower, upper).
Wanted(it) ==
  IF it.prefix # Nil THEN {k \in DOMAIN db : HasPrefix(k, it.prefix)}
  ELSE Within(db, it.lower, it.upper)

(***************************************************************************)
(* ScanExact: a scan shows its caller keys that are in the store at that   *)
(* very moment, in their order, without leaving one out: the keys seen are *)
(* wanted, ordered, and no wanted key lies before the last one seen; when  *)
(* the iterator ends, all wanted keys have been seen (pebble.go:226-305).  *)
(***************************************************************************)
ScanExact ==
  \A t \in DOMAIN scan :
    LET it == scan[t]
        seen == {it.seen[i] : i \in DOMAIN it.seen}
        before(a, b) == IF it.reverse THEN Less(b, a) ELSE Less(a, b)
    IN  /\ seen \subseteq Wanted(it)
        /\ \A i, j \in DOMAIN it.seen : i < j => before(it.seen[i], it.seen[j])
        /\ \A k \in seen, l \in Wanted(it) : before(l, k) => l \in seen
        /\ Ahead(it) = {} => seen = Wanted(it)

(***************************************************************************)
(* DeletesPrefix: whatever the store holds, the range that DeletePrefix    *)
(* deletes, from the prefix to its upper bound, has exactly the keys with  *)
(* the prefix (pebble.go:186-197). A prefix without an upper bound, the    *)
(* empty one or one of bytes 0xff only, is excepted: its nil bound makes   *)
(* the call delete nothing, although it returns no error.                  *)
(***************************************************************************)
DeletesPrefix ==
  \A p \in Keys : KeyUpperBound(p) # Nil =>
    DeletedRange(db, p, KeyUpperBound(p)) = {k \in DOMAIN db : HasPrefix(k, p)}

(***************************************************************************)
(* Durable: everything the callers see is on disk: a crash loses no        *)
(* acknowledged write. And nothing else is: what was deleted does not come *)
(* back after a crash, except what DeleteAll has deleted until it returns  *)
(* and, if its flush fails, until the next write (pebble.go:124-178).      *)
(***************************************************************************)
Durable ==
  open => /\ \A k \in DOMAIN db : k \in DOMAIN disk /\ disk[k] = db[k]
          /\ ~deleting /\ ~unflushed => DOMAIN disk = DOMAIN db
=============================================================================
