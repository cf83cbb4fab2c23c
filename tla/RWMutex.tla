------------------------------ MODULE RWMutex ------------------------------
(***************************************************************************)
(* Go's sync.RWMutex as operators on a lock value, shared by the modules   *)
(* that model code guarded by one.  A lock value is a record of three sets *)
(* of holds:                                                               *)
(*   readers  the read holds currently granted,                            *)
(*   pending  the writer (at most one) that called Lock, owns the internal *)
(*            writer mutex and waits for the readers to leave,             *)
(*   writer   the writer (at most one) that owns the lock.                 *)
(* As in Go, a pending writer already keeps new readers out: RLock blocks  *)
(* while a writer waits, which is why a read lock must not be taken twice  *)
(* by one goroutine.  A hold is any value that names a goroutine and, where*)
(* a goroutine locks repeatedly, the place it locks at.                    *)
(***************************************************************************)

Free == [readers |-> {}, pending |-> {}, writer |-> {}]

LockValues(Holds) ==
  [readers : SUBSET Holds, pending : SUBSET Holds, writer : SUBSET Holds]

\* RLock: granted when no writer owns the lock or waits for it.
CanRLock(l) == l.pending = {} /\ l.writer = {}
RLock(l, h) ==
  [readers |-> l.readers \cup {h}, pending |-> l.pending, writer |-> l.writer]
RUnlock(l, h) ==
  [readers |-> l.readers \ {h}, pending |-> l.pending, writer |-> l.writer]

\* Lock, first half: win the internal mutex against other writers and make
\* the wait visible to readers.
CanAnnounce(l) == l.pending = {} /\ l.writer = {}
Announce(l, h) ==
  [readers |-> l.readers, pending |-> {h}, writer |-> l.writer]

\* Lock, second half: the last reader has left.
CanLock(l, h) == l.pending = {h} /\ l.readers = {}
Lock(l, h) ==
  [readers |-> l.readers, pending |-> {}, writer |-> {h}]
Unlock(l) ==
  [readers |-> l.readers, pending |-> l.pending, writer |-> {}]
=============================================================================
