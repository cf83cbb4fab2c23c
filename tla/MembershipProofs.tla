-------------------------- MODULE MembershipProofs --------------------------
(***************************************************************************)
(* Observers of membership changes, for any number of members, observers   *)
(* and configurations and any channel capacity.                            *)
(*                                                                         *)
(* Nothing is assumed of the callers: calls may overlap and contexts may   *)
(* be done at any time. A send on a closed channel, which both can lead    *)
(* to, ends the process with s.mu locked.                                  *)
(***************************************************************************)
EXTENDS Membership, FiniteSetTheorems, TLAPS

\* Calls that have taken an id. As many ids have been given out, and both
\* goroutines are started together.
Started == {o \in Observers : watchPc[o] # "idle"}
StartInv ==
  /\ nextObserverId = Cardinality(Started)
  /\ \A o \in Observers : watchPc[o] = "idle" <=> initPc[o] = "idle"

\* At most one goroutine is in a critical section of s.mu.
LockInv ==
  /\ mu = {} <=> raftPc # "sending" /\ \A o \in Observers : initPc[o] # "send"
  /\ raftPc = "sending" => \A o \in Observers : initPc[o] # "send"
  /\ \A o, p \in Observers : initPc[o] = "send" /\ initPc[p] = "send" => o = p

\* Some observer is registered or is being told the members.
Used == ~NoObservers \/ \E o \in Observers : initPc[o] = "send"

\* The current members are kept for observers only. They are those of the entry
\* passed to StoreLogs last, unless the first initialization has overtaken
\* hraft; that entry is the one in the log unless its write is due or failed.
LogInv ==
  /\ ~Used => memberIds = {}
  /\ Used /\ ~raced => memberIds = appended
  /\ raftPc \in {"idle", "stored"} /\ ~failed => stored = appended

(***************************************************************************)
(* Types, ids, lock and log (store.go:144-168, 231-248, 316-376).          *)
(***************************************************************************)
GInv == TypeOK /\ StartInv /\ LockInv /\ LogInv

\* Only initialized observers are registered, each under one id.
RegInv ==
  /\ \A i \in Ids : observers[i] # None => initPc[observers[i]] = "done"
  /\ \A i, j \in Ids : observers[i] # None /\ observers[i] = observers[j] => i = j

\* What observers have been told, and what they will be told next.
ViewInv ==
  /\ raftPc # "sending" => unsent = {}
  /\ \A m \in Members, i \in Ids : <<m, i>> \in unsent => observers[i] # None
  /\ \A o \in Observers : initPc[o] \in {"idle", "want"} => view[o] = {}
  /\ \A o \in Observers : initPc[o] = "send" => view[o] \cup initTodo[o] = memberIds
  /\ \A i \in Ids : observers[i] # None =>
       \A m \in Members : (m \in view[observers[i]] <=> m \in memberIds) <=> <<m, i>> \notin unsent

\* A panic leaves s.mu locked; up to it ViewInv holds.
PanicInv ==
  /\ panicked => mu # {}
  /\ ~panicked => ViewInv

-----------------------------------------------------------------------------
(* Types and ids.                                                          *)

(***************************************************************************)
(* The ids given out are those of the observers' map.                      *)
(***************************************************************************)
LEMMA StartedCount ==
  ASSUME GInv
  PROVE  /\ IsFiniteSet(Started) /\ Cardinality(Observers) \in Nat
         /\ nextObserverId \in 0..Cardinality(Observers)
         /\ \A o \in Observers : watchPc[o] # "idle" => nextObserverId \in Ids
         /\ \A o \in Observers : watchPc[o] = "idle" => nextObserverId + 1 \in Ids
<1>1. IsFiniteSet(Observers) /\ Started \in SUBSET Observers
  BY MembershipAssumption DEF Started
<1>2. /\ IsFiniteSet(Started) /\ Cardinality(Started) <= Cardinality(Observers)
      /\ Cardinality(Observers) = Cardinality(Started) => Observers = Started
      /\ Cardinality(Observers) \in Nat /\ Cardinality(Started) \in Nat
  BY <1>1, FS_Subset, FS_CardinalityType
<1>3. nextObserverId = Cardinality(Started)
  BY DEF GInv, StartInv
<1>4. ASSUME NEW o \in Observers, watchPc[o] # "idle" PROVE Cardinality(Started) # 0
  <2>1. Started # {}
    BY <1>4 DEF Started
  <2>. QED
    BY <1>2, <2>1, FS_EmptySet
<1>5. ASSUME NEW o \in Observers, watchPc[o] = "idle" PROVE Cardinality(Observers) # Cardinality(Started)
  BY <1>2, <1>5 DEF Started
<1>. QED
  BY <1>2, <1>3, <1>4, <1>5 DEF Ids

(***************************************************************************)
(* Send either panics or adds one change to a channel with room            *)
(* (store.go:335-338, 361-372).                                            *)
(***************************************************************************)
LEMMA SendTypes ==
  ASSUME TypeOK, NEW o, NEW m \in Members, NEW joined, Send(o, m, joined)
  PROVE  /\ buffered' \in [Observers -> 0..Capacity] /\ panicked' \in BOOLEAN
         /\ view' \in [Observers -> SUBSET Members]
<1>0. Capacity \in Nat
  BY MembershipAssumption
<1>1. CASE o \in closed
  BY <1>1 DEF TypeOK, Send
<1>2. CASE o \notin Observers
  BY <1>2 DEF TypeOK, Send
<1>3. CASE o \in Observers \ closed
  <2>1. o \in Observers /\ buffered[o] \in 0..Capacity /\ buffered[o] < Capacity
    BY <1>3 DEF TypeOK, Send, HasRoom
  <2>2. buffered' \in [Observers -> 0..Capacity]
    BY <1>0, <1>3, <2>1 DEF TypeOK, Send
  <2>3. view' \in [Observers -> SUBSET Members]
    BY <1>3 DEF TypeOK, Send
  <2>4. panicked' \in BOOLEAN
    BY <1>3 DEF TypeOK, Send
  <2>. QED
    BY <2>2, <2>3, <2>4
<1>. QED
  BY <1>1, <1>2, <1>3

-----------------------------------------------------------------------------
(* Every step preserves GInv.                                              *)

(***************************************************************************)
(* Taking an id (store.go:144-151).                                        *)
(***************************************************************************)
LEMMA ObserveGeneral == ASSUME GInv, NEW o \in Observers, Observe(o) PROVE GInv'
<1>1. /\ nextObserverId \in 0..Cardinality(Observers) /\ nextObserverId + 1 \in Ids
      /\ Cardinality(Observers) \in Nat /\ IsFiniteSet(Started)
  BY StartedCount DEF Observe
<1>2. /\ initPc' = [initPc EXCEPT ![o] = "want"] /\ watchPc' = [watchPc EXCEPT ![o] = "wait"]
      /\ nextObserverId' = nextObserverId + 1 /\ initPc[o] = "idle" /\ watchPc[o] = "idle"
  BY DEF Observe, GInv, StartInv
<1>3. TypeOK'
  <2>1. nextObserverId' \in 0..Cardinality(Observers) /\ idOf' \in [Observers -> 0..Cardinality(Observers)]
    BY <1>1 DEF GInv, TypeOK, Observe, Ids
  <2>. QED
    BY <1>2, <2>1 DEF GInv, TypeOK, Observe, raftVars, chanVars, Ids
<1>4. StartInv'
  <2>1. Started' = Started \cup {o} /\ o \notin Started
    BY <1>2 DEF Started, GInv, TypeOK
  <2>2. Cardinality(Started') = Cardinality(Started) + 1
    BY <1>1, <2>1, FS_AddElement
  <2>3. \A p \in Observers : watchPc'[p] = "idle" <=> initPc'[p] = "idle"
    BY <1>2 DEF GInv, TypeOK, StartInv
  <2>. QED
    BY <1>2, <2>2, <2>3 DEF GInv, StartInv
<1>5. \A p \in Observers : initPc'[p] = "send" <=> initPc[p] = "send"
  BY <1>2 DEF GInv, TypeOK
<1>6. LockInv'
  BY <1>5 DEF GInv, LockInv, Observe, raftVars
<1>7. LogInv'
  BY <1>5 DEF GInv, LogInv, Used, NoObservers, Observe, raftVars
<1>. QED
  BY <1>3, <1>4, <1>6, <1>7 DEF GInv

(***************************************************************************)
(* Starting to tell an observer the members (store.go:316-334).            *)
(***************************************************************************)
LEMMA InitLockGeneral == ASSUME GInv, NEW o \in Observers, InitLock(o) PROVE GInv'
<1>1. /\ initPc' = [initPc EXCEPT ![o] = "send"] /\ initPc[o] = "want"
      /\ \A p \in Observers : initPc'[p] = IF p = o THEN "send" ELSE initPc[p]
  BY DEF InitLock, GInv, TypeOK
<1>2. TypeOK'
  <2>1. initTodo' \in [Observers -> SUBSET Members] /\ memberIds' \subseteq Members
    BY DEF GInv, TypeOK, InitLock, CurrentMembers
  <2>2. raced' \in BOOLEAN
    BY Zenon DEF GInv, TypeOK, InitLock
  <2>3. mu' \subseteq Observers \cup {"store"}
    BY DEF InitLock
  <2>. QED
    BY <1>1, <2>1, <2>2, <2>3 DEF GInv, TypeOK, InitLock, raftVars, chanVars, Ids
<1>3. StartInv'
  BY <1>1 DEF GInv, StartInv, Started, InitLock
<1>4. LockInv'
  BY <1>1 DEF GInv, LockInv, InitLock, raftVars
<1>5. LogInv'
  <2>1. Used'
    BY <1>1 DEF Used
  <2>2. CASE NoObservers
    <3>1. ~Used
      BY <2>2 DEF GInv, LockInv, Used, InitLock
    <3>2. memberIds' = latest /\ raced' = (latest # appended) /\ appended' = appended
      BY <2>2, <3>1 DEF GInv, LogInv, InitLock, raftVars
    <3>. QED
      BY <2>1, <3>2 DEF GInv, LogInv, InitLock, raftVars
  <2>3. CASE ~NoObservers
    BY <2>1, <2>3 DEF GInv, LogInv, Used, InitLock, raftVars
  <2>. QED
    BY <2>2, <2>3
<1>. QED
  BY <1>2, <1>3, <1>4, <1>5 DEF GInv

(***************************************************************************)
(* Telling an observer a member (store.go:335-338).                        *)
(***************************************************************************)
LEMMA InitSendGeneral ==
  ASSUME GInv, NEW o \in Observers, NEW m \in Members, InitSend(o, m)
  PROVE  GInv'
<1>1. /\ buffered' \in [Observers -> 0..Capacity] /\ panicked' \in BOOLEAN
      /\ view' \in [Observers -> SUBSET Members]
  BY SendTypes DEF GInv, InitSend
<1>2. initTodo' \in [Observers -> SUBSET Members]
  BY DEF GInv, TypeOK, InitSend
<1>3. TypeOK'
  BY <1>1, <1>2 DEF GInv, TypeOK, InitSend, raftVars, Ids
<1>. QED
  BY <1>3 DEF GInv, StartInv, Started, LockInv, LogInv, Used, NoObservers, InitSend, raftVars

(***************************************************************************)
(* Registering an observer under the id given out last (store.go:340-346). *)
(***************************************************************************)
LEMMA InitRegisterGeneral == ASSUME GInv, NEW o \in Observers, InitRegister(o) PROVE GInv'
<1>1. /\ initPc' = [initPc EXCEPT ![o] = "done"] /\ initPc[o] = "send"
      /\ \A p \in Observers : initPc'[p] = IF p = o THEN "done" ELSE initPc[p]
  BY DEF InitRegister, GInv, TypeOK
<1>2. nextObserverId \in Ids /\ watchPc[o] # "idle"
  BY <1>1, StartedCount DEF GInv, StartInv
<1>3. observers' \in [Ids -> Observers \cup {None}] /\ observers'[nextObserverId] = o
  BY <1>2 DEF GInv, TypeOK, InitRegister
<1>4. TypeOK'
  BY <1>1, <1>3 DEF GInv, TypeOK, InitRegister, raftVars, chanVars, Ids
<1>5. StartInv'
  BY <1>1, <1>2 DEF GInv, StartInv, Started, InitRegister
<1>6. LockInv'
  BY <1>1 DEF GInv, LockInv, InitRegister, raftVars
<1>7. LogInv'
  <2>1. Used
    BY <1>1 DEF Used
  <2>2. Used'
    BY <1>2, <1>3, MembershipAssumption DEF Used, NoObservers, Ids
  <2>. QED
    BY <2>1, <2>2 DEF GInv, LogInv, InitRegister, raftVars
<1>. QED
  BY <1>4, <1>5, <1>6, <1>7 DEF GInv

(***************************************************************************)
(* Deregistering an observer (store.go:160-168).                           *)
(***************************************************************************)
LEMMA WatchRemoveGeneral == ASSUME GInv, NEW o \in Observers, WatchRemove(o) PROVE GInv'
<1>1. /\ watchPc' = [watchPc EXCEPT ![o] = "close"] /\ watchPc[o] = "wait"
      /\ \A p \in Observers : watchPc'[p] = "idle" <=> watchPc[p] = "idle"
  BY DEF WatchRemove, GInv, TypeOK
<1>2. observers' \in [Ids -> Observers \cup {None}]
  BY DEF GInv, TypeOK, WatchRemove
<1>3. TypeOK'
  BY <1>1, <1>2 DEF GInv, TypeOK, WatchRemove, raftVars, chanVars, Ids
<1>4. StartInv'
  BY <1>1 DEF GInv, StartInv, Started, WatchRemove
<1>5. LockInv'
  BY DEF GInv, LockInv, WatchRemove, raftVars
<1>6. LogInv'
  <2>1. \A p \in Observers : initPc'[p] # "send"
    BY DEF GInv, LockInv, WatchRemove
  <2>2. Used' <=> ~NoObservers'
    BY <2>1 DEF Used
  <2>3. memberIds' = IF NoObservers' THEN {} ELSE memberIds
    BY DEF WatchRemove, NoObservers
  <2>4. NoObservers => NoObservers'
    BY DEF GInv, TypeOK, WatchRemove, NoObservers
  <2>. QED
    BY <2>2, <2>3, <2>4 DEF GInv, LogInv, Used, WatchRemove, raftVars
<1>. QED
  BY <1>3, <1>4, <1>5, <1>6 DEF GInv

(***************************************************************************)
(* Contexts that are done, closing and reading channels (raft.go:335-339). *)
(***************************************************************************)
LEMMA CallerGeneral ==
  ASSUME GInv, NEW o \in Observers, Cancel(o) \/ WatchClose(o) \/ Receive(o)
  PROVE  GInv'
<1>1. CASE Cancel(o)
  BY <1>1 DEF GInv, TypeOK, StartInv, Started, LockInv, LogInv, Used, NoObservers, Cancel,
              raftVars, chanVars, Ids
<1>2. CASE WatchClose(o)
  <2>1. /\ watchPc' = [watchPc EXCEPT ![o] = "closed"]
        /\ \A p \in Observers : watchPc'[p] = "idle" <=> watchPc[p] = "idle"
    BY <1>2 DEF WatchClose, GInv, TypeOK
  <2>2. TypeOK'
    BY <1>2, <2>1 DEF GInv, TypeOK, WatchClose, raftVars, Ids
  <2>. QED
    BY <1>2, <2>1, <2>2 DEF GInv, StartInv, Started, LockInv, LogInv, Used, NoObservers,
                            WatchClose, raftVars
<1>3. CASE Receive(o)
  <2>1. buffered' \in [Observers -> 0..Capacity]
    BY <1>3, MembershipAssumption DEF Receive, GInv, TypeOK
  <2>2. TypeOK'
    BY <1>3, <2>1 DEF GInv, TypeOK, Receive, raftVars, callVars, Ids
  <2>. QED
    BY <1>3, <2>2 DEF GInv, StartInv, Started, LockInv, LogInv, Used, NoObservers, Receive,
                      raftVars, callVars
<1>. QED
  BY <1>1, <1>2, <1>3

(***************************************************************************)
(* hraft stores a configuration entry (store.go:223-242, 349-376).         *)
(***************************************************************************)
LEMMA StoreGeneral ==
  ASSUME GInv, NEW servers \in SUBSET Members, StoreConfiguration(servers)
  PROVE  GInv'
<1>1. TypeOK'
  <2>1. configs' \in 0..MaxConfigs
    BY MembershipAssumption DEF GInv, TypeOK, StoreConfiguration
  <2>2. unsent' \subseteq Members \X Ids /\ memberIds' \subseteq Members
    BY DEF GInv, TypeOK, StoreConfiguration, Replaced
  <2>3. raced' \in BOOLEAN
    BY Zenon DEF GInv, TypeOK, StoreConfiguration
  <2>4. raftPc' \in {"idle", "sending", "write", "stored"} /\ mu' \subseteq Observers \cup {"store"}
    BY DEF GInv, TypeOK, StoreConfiguration
  <2>. QED
    BY <2>1, <2>2, <2>3, <2>4 DEF GInv, TypeOK, StoreConfiguration, callVars, chanVars, Ids
<1>2. StartInv'
  BY DEF GInv, StartInv, Started, StoreConfiguration, callVars
<1>3. LockInv'
  BY DEF GInv, LockInv, StoreConfiguration, callVars
<1>4. LogInv'
  BY DEF GInv, LogInv, LockInv, Used, NoObservers, StoreConfiguration, Replaced, callVars
<1>. QED
  BY <1>1, <1>2, <1>3, <1>4 DEF GInv

(***************************************************************************)
(* Sending the changes of an entry, writing it, and hraft taking it for    *)
(* its latest configuration (store.go:236-248, 361-376).                   *)
(***************************************************************************)
LEMMA StoringGeneral ==
  ASSUME GInv, \/ \E m \in Members, i \in Ids : StoreSend(m, i)
               \/ StoreUnlock \/ WriteEntry \/ WriteFails \/ SetLatest
  PROVE  GInv'
<1>1. ASSUME NEW m \in Members, NEW i \in Ids, StoreSend(m, i) PROVE GInv'
  <2>1. /\ buffered' \in [Observers -> 0..Capacity] /\ panicked' \in BOOLEAN
        /\ view' \in [Observers -> SUBSET Members]
    BY <1>1, SendTypes DEF GInv, StoreSend
  <2>2. TypeOK'
    BY <1>1, <2>1 DEF GInv, TypeOK, StoreSend, callVars, Ids
  <2>. QED
    BY <1>1, <2>2 DEF GInv, StartInv, Started, LockInv, LogInv, Used, NoObservers, StoreSend,
                      callVars
<1>2. CASE StoreUnlock \/ SetLatest
  <2>1. TypeOK'
    BY <1>2 DEF GInv, TypeOK, StoreUnlock, SetLatest, callVars, chanVars, Ids
  <2>. QED
    BY <1>2, <2>1 DEF GInv, StartInv, Started, LockInv, LogInv, Used, NoObservers,
                      StoreUnlock, SetLatest, callVars
<1>3. CASE WriteEntry \/ WriteFails
  <2>1. failed' \in BOOLEAN
    BY <1>3, Zenon DEF WriteEntry, WriteFails
  <2>2. TypeOK'
    BY <1>3, <2>1 DEF GInv, TypeOK, WriteEntry, WriteFails, callVars, chanVars, Ids
  <2>3. StartInv' /\ LockInv'
    BY <1>3 DEF GInv, StartInv, Started, LockInv, WriteEntry, WriteFails, callVars
  <2>4. UNCHANGED <<memberIds, appended, raced, initPc, observers>>
    BY <1>3 DEF WriteEntry, WriteFails, callVars
  <2>5. raftPc' \in {"idle", "stored"} /\ ~failed' => stored' = appended'
    BY <1>3, <2>4 DEF WriteEntry, WriteFails
  <2>6. LogInv'
    BY <2>4, <2>5 DEF GInv, LogInv, Used, NoObservers, Ids
  <2>. QED
    BY <2>2, <2>3, <2>6 DEF GInv
<1>. QED
  BY <1>1, <1>2, <1>3

(***************************************************************************)
(* GInv is an invariant, whenever observers come and go                    *)
(* (store.go:144-168, 316-376).                                            *)
(***************************************************************************)
THEOREM General == Spec => []GInv
<1>1. ASSUME Init PROVE GInv
  <2>1. Started = {} /\ Cardinality(Started) = 0
    BY <1>1, FS_EmptySet DEF Init, Started
  <2>2. Cardinality(Observers) \in Nat
    BY MembershipAssumption, FS_CardinalityType
  <2>3. raced \in BOOLEAN /\ failed \in BOOLEAN /\ panicked \in BOOLEAN
    BY <1>1, Zenon DEF Init
  <2>4. TypeOK
    BY <1>1, <2>2, <2>3, MembershipAssumption DEF Init, TypeOK
  <2>. QED
    BY <1>1, <2>1, <2>4 DEF Init, GInv, StartInv, LockInv, LogInv, Used, NoObservers
<1>2. ASSUME GInv, [Next]_vars PROVE GInv'
  <2>1. CASE UNCHANGED vars
    BY <1>2, <2>1 DEF vars, GInv, TypeOK, StartInv, Started, LockInv, LogInv, Used, NoObservers, Ids
  <2>. QED
    BY <1>2, <2>1, ObserveGeneral, InitLockGeneral, InitSendGeneral, InitRegisterGeneral,
       WatchRemoveGeneral, CallerGeneral, StoreGeneral, StoringGeneral DEF Next, Step
<1>. QED
  BY <1>1, <1>2, PTL DEF Spec

(***************************************************************************)
(* TypeCorrect: types, ids within the map, and no channel is overfull.     *)
(***************************************************************************)
THEOREM TypeCorrect == Spec => []TypeOK
<1>1. GInv => TypeOK
  BY DEF GInv
<1>. QED
  BY <1>1, General, PTL

(***************************************************************************)
(* MembersFollowLog: registered observers share the members of the entry   *)
(* passed to StoreLogs last, which is the one in the log once written, but *)
(* for the race with hraft and a failed write, which StoreLogs announces   *)
(* before (store.go:231-248, 320-335, 353-357).                            *)
(***************************************************************************)
THEOREM MembersFollowLog == Spec => []FollowsLog
<1>1. GInv => FollowsLog
  BY DEF GInv, TypeOK, LockInv, LogInv, Used, FollowsLog
<1>. QED
  BY <1>1, General, PTL

-----------------------------------------------------------------------------
(* What observers are told.                                                *)

(***************************************************************************)
(* A send that does not panic is one on an open channel                    *)
(* (store.go:335-338, 361-372).                                            *)
(***************************************************************************)
LEMMA SendOpen ==
  ASSUME NEW o, NEW m, NEW joined, Send(o, m, joined), ~panicked'
  PROVE  o \notin closed
  BY DEF Send

(***************************************************************************)
(* Every step preserves RegInv: an observer is registered once, at the end *)
(* of its initialization (store.go:340-346).                               *)
(***************************************************************************)
LEMMA RegStep == ASSUME GInv, RegInv, [Next]_vars PROVE RegInv'
<1>0. /\ initPc \in [Observers -> {"idle", "want", "send", "done"}]
      /\ observers \in [Ids -> Observers \cup {None}] /\ None \notin Observers
      /\ \A o \in Observers : watchPc[o] = "idle" <=> initPc[o] = "idle"
  BY MembershipAssumption DEF GInv, TypeOK, StartInv
<1>1. ASSUME NEW o \in Observers, Observe(o) \/ InitLock(o) PROVE RegInv'
  <2>1. /\ \A p \in Observers \ {o} : initPc'[p] = initPc[p]
        /\ initPc[o] \in {"idle", "want"} /\ observers' = observers
    BY <1>0, <1>1 DEF Observe, InitLock
  <2>2. \A i \in Ids : observers[i] # None => observers[i] \in Observers \ {o}
    BY <1>0, <2>1 DEF RegInv
  <2>. QED
    BY <2>1, <2>2 DEF RegInv, Ids
<1>2. ASSUME NEW o \in Observers, InitRegister(o) PROVE RegInv'
  <2>1. /\ \A p \in Observers : initPc'[p] = IF p = o THEN "done" ELSE initPc[p]
        /\ initPc[o] = "send"
        /\ \A i \in Ids : observers'[i] = IF i = nextObserverId THEN o ELSE observers[i]
    BY <1>0, <1>2 DEF InitRegister
  <2>2. \A i \in Ids : observers[i] # None => observers[i] \in Observers \ {o}
    BY <1>0, <2>1 DEF RegInv
  <2>. QED
    BY <2>1, <2>2 DEF RegInv, Ids
<1>3. ASSUME NEW o \in Observers, WatchRemove(o) PROVE RegInv'
  <2>1. /\ initPc' = initPc
        /\ \A i \in Ids : observers'[i] # None => observers'[i] = observers[i]
    BY <1>0, <1>3 DEF WatchRemove
  <2>. QED
    BY <2>1 DEF RegInv, Ids
<1>4. CASE UNCHANGED <<initPc, observers>>
  BY <1>4 DEF RegInv, Ids
<1>5. ASSUME NEW o \in Observers,
             Cancel(o) \/ WatchClose(o) \/ Receive(o) \/ \E m \in Members : InitSend(o, m)
      PROVE  UNCHANGED <<initPc, observers>>
  BY <1>5 DEF Cancel, WatchClose, Receive, InitSend, callVars
<1>6. ASSUME \/ \E servers \in SUBSET Members : StoreConfiguration(servers)
             \/ \E m \in Members, i \in Ids : StoreSend(m, i)
             \/ StoreUnlock \/ WriteEntry \/ WriteFails \/ SetLatest \/ UNCHANGED vars
      PROVE  UNCHANGED <<initPc, observers>>
  BY <1>6 DEF StoreConfiguration, StoreSend, StoreUnlock, WriteEntry, WriteFails, SetLatest,
              vars, callVars
<1>. QED
  BY <1>1, <1>2, <1>3, <1>4, <1>5, <1>6 DEF Next, Step

(***************************************************************************)
(* Every step preserves ViewInv: what has been told and what is left to    *)
(* tell always make up the current members, up to a panic                  *)
(* (store.go:316-376).                                                     *)
(***************************************************************************)
LEMMA ViewStep ==
  ASSUME GInv, RegInv, ViewInv, [Next]_vars, ~panicked'
  PROVE  ViewInv'
<1>0. /\ initPc \in [Observers -> {"idle", "want", "send", "done"}]
      /\ observers \in [Ids -> Observers \cup {None}] /\ None \notin Observers
      /\ view \in [Observers -> SUBSET Members] /\ initTodo \in [Observers -> SUBSET Members]
      /\ memberIds \subseteq Members /\ unsent \subseteq Members \X Ids
      /\ raftPc \in {"idle", "sending", "write", "stored"}
  BY MembershipAssumption DEF GInv, TypeOK
<1>a. \A i \in Ids : observers[i] # None => observers[i] \in Observers /\ initPc[observers[i]] = "done"
  BY <1>0 DEF RegInv
<1>1. ASSUME NEW o \in Observers, Observe(o) PROVE ViewInv'
  <2>1. /\ \A p \in Observers : initPc'[p] = IF p = o THEN "want" ELSE initPc[p]
        /\ initPc[o] = "idle" /\ UNCHANGED <<observers, memberIds, initTodo, raftPc, unsent, view>>
    BY <1>0, <1>1 DEF Observe, raftVars, chanVars, GInv, StartInv
  <2>. QED
    BY <2>1 DEF ViewInv, Ids
<1>2. ASSUME NEW o \in Observers, InitLock(o) PROVE ViewInv'
  <2>1. /\ \A p \in Observers : initPc'[p] = IF p = o THEN "send" ELSE initPc[p]
        /\ initPc[o] = "want" /\ view[o] = {} /\ mu = {}
        /\ UNCHANGED <<observers, raftPc, unsent, view>>
    BY <1>0, <1>2 DEF InitLock, raftVars, chanVars, ViewInv
  <2>2. \A p \in Observers : initPc[p] # "send"
    BY <2>1 DEF GInv, LockInv
  <2>3. initTodo'[o] = memberIds'
    <3>1. CASE NoObservers
      <4>1. memberIds = {}
        BY <2>2, <3>1 DEF GInv, LogInv, Used
      <4>. QED
        BY <1>0, <1>2, <3>1, <4>1 DEF InitLock
    <3>2. CASE ~NoObservers
      BY <1>0, <1>2, <3>2 DEF InitLock, CurrentMembers
    <3>. QED
      BY <3>1, <3>2
  <2>4. \A i \in Ids : observers[i] # None => memberIds' = memberIds
    BY <1>2 DEF InitLock, NoObservers
  <2>5. \A p \in Observers : initPc'[p] = "send" => view[p] \cup initTodo'[p] = memberIds'
    BY <2>1, <2>2, <2>3
  <2>6. \A p \in Observers : initPc'[p] \in {"idle", "want"} => view[p] = {}
    BY <2>1 DEF ViewInv
  <2>. QED
    BY <2>1, <2>4, <2>5, <2>6 DEF ViewInv, Ids
<1>3. ASSUME NEW o \in Observers, NEW m \in Members, InitSend(o, m) PROVE ViewInv'
  <2>1. /\ initPc[o] = "send" /\ m \in initTodo[o]
        /\ view' = [view EXCEPT ![o] = @ \cup {m}]
        /\ initTodo' = [initTodo EXCEPT ![o] = @ \ {m}]
        /\ UNCHANGED <<observers, memberIds, raftPc, unsent, initPc>>
    BY <1>3, SendOpen DEF InitSend, Send, raftVars
  <2>2. /\ view'[o] = view[o] \cup {m} /\ initTodo'[o] = initTodo[o] \ {m}
        /\ \A p \in Observers \ {o} : view'[p] = view[p] /\ initTodo'[p] = initTodo[p]
    BY <1>0, <2>1
  <2>3. view[o] \cup initTodo[o] = memberIds
    BY <2>1 DEF ViewInv
  <2>4. view'[o] \cup initTodo'[o] = memberIds
    BY <2>1, <2>2, <2>3
  <2>5. \A p \in Observers : initPc[p] = "send" => view'[p] \cup initTodo'[p] = memberIds
    BY <2>2, <2>4 DEF ViewInv
  <2>6. \A i \in Ids : observers[i] # None => view'[observers[i]] = view[observers[i]]
    BY <1>a, <2>1, <2>2
  <2>7. \A p \in Observers : initPc[p] \in {"idle", "want"} => view'[p] = {}
    BY <2>1, <2>2 DEF ViewInv
  <2>. QED
    BY <2>1, <2>5, <2>6, <2>7 DEF ViewInv, Ids
<1>4. ASSUME NEW o \in Observers, InitRegister(o) PROVE ViewInv'
  <2>1. /\ \A p \in Observers : initPc'[p] = IF p = o THEN "done" ELSE initPc[p]
        /\ initPc[o] = "send" /\ initTodo[o] = {}
        /\ observers' = [observers EXCEPT ![nextObserverId] = o]
        /\ UNCHANGED <<memberIds, raftPc, unsent, view, initTodo>>
    BY <1>0, <1>4 DEF InitRegister, raftVars, chanVars
  <2>2. view[o] = memberIds /\ unsent = {}
    BY <2>1 DEF ViewInv, GInv, LockInv
  <2>3. \A i \in Ids : observers'[i] \in {o, observers[i]}
    BY <1>0, <2>1
  <2>4. \A i \in Ids : observers'[i] # None =>
          \A m \in Members : (m \in view[observers'[i]] <=> m \in memberIds) <=> <<m, i>> \notin unsent
    BY <2>2, <2>3 DEF ViewInv
  <2>5. /\ \A p \in Observers : initPc'[p] \in {"idle", "want"} => view[p] = {}
        /\ \A p \in Observers : initPc'[p] = "send" => view[p] \cup initTodo[p] = memberIds
    BY <2>1 DEF ViewInv
  <2>. QED
    BY <2>1, <2>2, <2>4, <2>5 DEF ViewInv, Ids
<1>5. ASSUME NEW o \in Observers, WatchRemove(o) PROVE ViewInv'
  <2>1. /\ \A i \in Ids : observers'[i] = IF i = idOf[o] THEN None ELSE observers[i]
        /\ mu = {} /\ UNCHANGED <<initPc, raftPc, unsent, view, initTodo>>
        /\ \A i \in Ids : observers'[i] # None => memberIds' = memberIds
    BY <1>0, <1>5 DEF WatchRemove, OwnId, raftVars, chanVars
  <2>2. unsent = {} /\ \A p \in Observers : initPc[p] # "send"
    BY <2>1 DEF ViewInv, GInv, LockInv
  <2>3. \A i \in Ids : observers'[i] # None => observers'[i] = observers[i] /\ memberIds' = memberIds
    BY <2>1
  <2>. QED
    BY <2>1, <2>2, <2>3 DEF ViewInv, Ids
<1>6. ASSUME NEW servers \in SUBSET Members, StoreConfiguration(servers) PROVE ViewInv'
  <2>1. mu = {} /\ raftPc = "idle" /\ UNCHANGED <<observers, initPc, initTodo, view>>
    BY <1>6 DEF StoreConfiguration, callVars, chanVars
  <2>2. unsent = {} /\ \A p \in Observers : initPc[p] # "send"
    BY <2>1 DEF ViewInv, GInv, LockInv
  <2>3. CASE NoObservers
    <3>1. raftPc' = "write" /\ unsent' = {} /\ \A i \in Ids : observers[i] = None
      BY <1>6, <2>2, <2>3 DEF StoreConfiguration, NoObservers
    <3>. QED
      BY <2>1, <2>2, <3>1 DEF ViewInv, Ids
  <2>4. CASE ~NoObservers
    <3>1. /\ raftPc' = "sending" /\ memberIds' = servers
          /\ unsent' = {change \in Members \X Ids :
               /\ observers[change[2]] # None
               /\ change[1] \in (memberIds \ servers) \cup (servers \ memberIds)}
      BY <1>6, <2>4 DEF StoreConfiguration, Replaced
    <3>2. \A m \in Members, i \in Ids : <<m, i>> \in unsent' <=>
            /\ observers[i] # None
            /\ m \in (memberIds \ servers) \cup (servers \ memberIds)
      BY <3>1
    <3>3. \A i \in Ids : observers[i] # None =>
            \A m \in Members : m \in view[observers[i]] <=> m \in memberIds
      BY <2>2 DEF ViewInv
    <3>4. \A i \in Ids : observers[i] # None =>
            \A m \in Members : (m \in view[observers[i]] <=> m \in servers) <=> <<m, i>> \notin unsent'
      BY <3>2, <3>3
    <3>. QED
      BY <2>1, <2>2, <3>1, <3>2, <3>4 DEF ViewInv, Ids
  <2>. QED
    BY <2>3, <2>4
<1>7. ASSUME NEW m \in Members, NEW i \in Ids, StoreSend(m, i) PROVE ViewInv'
  <2> DEFINE o == observers[i]
  <2>1. o \in Observers \ closed /\ <<m, i>> \in unsent /\ initPc[o] = "done" /\ raftPc = "sending"
    BY <1>7, <1>a, SendOpen DEF StoreSend, ViewInv
  <2>2. /\ view' = [view EXCEPT ![o] = IF m \in memberIds THEN @ \cup {m} ELSE @ \ {m}]
        /\ unsent' = unsent \ {<<m, i>>}
        /\ UNCHANGED <<observers, memberIds, raftPc, initPc, initTodo>>
    BY <1>7, <2>1 DEF StoreSend, Send, callVars
  <2>3. /\ \A n \in Members : n \in view'[o] <=> IF n = m THEN m \in memberIds ELSE n \in view[o]
        /\ \A p \in Observers \ {o} : view'[p] = view[p]
    BY <1>0, <2>1, <2>2
  <2>4. \A j \in Ids : observers[j] = o => i = j
    BY <1>0, <2>1 DEF RegInv
  <2>5. \A n \in Members, j \in Ids : <<n, j>> \in unsent' <=> <<n, j>> \in unsent /\ ~(n = m /\ j = i)
    BY <2>2
  <2>6. ASSUME NEW j \in Ids, observers[j] # None, NEW n \in Members
        PROVE  (n \in view'[observers[j]] <=> n \in memberIds) <=> <<n, j>> \notin unsent'
    <3>1. (n \in view[observers[j]] <=> n \in memberIds) <=> <<n, j>> \notin unsent
      BY <2>6 DEF ViewInv
    <3>2. CASE j # i
      <4>1. observers[j] \in Observers \ {o}
        BY <1>a, <2>4, <2>6, <3>2
      <4>. QED
        BY <2>3, <2>5, <3>1, <3>2, <4>1
    <3>3. CASE j = i
      BY <2>1, <2>3, <2>5, <3>1, <3>3
    <3>. QED
      BY <3>2, <3>3
  <2>7. /\ \A p \in Observers : initPc[p] \in {"idle", "want"} => view'[p] = {}
        /\ \A p \in Observers : initPc[p] = "send" => view'[p] \cup initTodo[p] = memberIds
    BY <2>1, <2>3 DEF ViewInv
  <2>8. \A n \in Members, j \in Ids : <<n, j>> \in unsent' => observers[j] # None
    BY <2>5 DEF ViewInv
  <2>. HIDE DEF o
  <2>. QED
    BY <2>1, <2>2, <2>6, <2>7, <2>8 DEF ViewInv, Ids
<1>8. CASE StoreUnlock \/ WriteEntry \/ WriteFails \/ SetLatest
  <2>1. UNCHANGED <<observers, memberIds, initPc, initTodo, view, unsent>> /\ unsent = {}
    BY <1>8 DEF StoreUnlock, WriteEntry, WriteFails, SetLatest, callVars, chanVars, ViewInv
  <2>. QED
    BY <2>1 DEF ViewInv, Ids
<1>9. CASE UNCHANGED <<observers, memberIds, initPc, initTodo, raftPc, unsent, view>>
  BY <1>9 DEF ViewInv, Ids
<1>10. ASSUME (\E o \in Observers : Cancel(o) \/ WatchClose(o) \/ Receive(o)) \/ UNCHANGED vars
       PROVE  UNCHANGED <<observers, memberIds, initPc, initTodo, raftPc, unsent, view>>
  BY <1>10 DEF Cancel, WatchClose, Receive, vars, raftVars, callVars, chanVars
<1>. QED
  BY <1>1, <1>2, <1>3, <1>4, <1>5, <1>6, <1>7, <1>8, <1>9, <1>10 DEF Next, Step

(***************************************************************************)
(* A panic happens in a sender, which has s.mu locked (store.go:317, 350). *)
(***************************************************************************)
LEMMA PanicStep ==
  ASSUME GInv, PanicInv, [Next]_vars
  PROVE  panicked' => mu' # {}
<1>1. ASSUME NEW o \in Observers, NEW m \in Members, InitSend(o, m) PROVE mu' # {}
  BY <1>1 DEF InitSend, GInv, LockInv
<1>2. ASSUME NEW m \in Members, NEW i \in Ids, StoreSend(m, i) PROVE mu' # {}
  BY <1>2 DEF StoreSend, GInv, LockInv
<1>3. CASE UNCHANGED vars
  BY <1>3 DEF vars, PanicInv
<1>4. ASSUME ~panicked, panicked' = panicked PROVE ~panicked'
  BY <1>4
<1>5. ASSUME NEW o \in Observers,
             \/ Observe(o) \/ InitLock(o) \/ InitRegister(o) \/ Cancel(o)
             \/ WatchRemove(o) \/ WatchClose(o) \/ Receive(o)
      PROVE  panicked' = panicked
  BY <1>5 DEF Observe, InitLock, InitRegister, Cancel, WatchRemove, WatchClose, Receive, chanVars
<1>6. ASSUME \/ \E servers \in SUBSET Members : StoreConfiguration(servers)
             \/ StoreUnlock \/ WriteEntry \/ WriteFails \/ SetLatest
      PROVE  panicked' = panicked
  BY <1>6 DEF StoreConfiguration, StoreUnlock, WriteEntry, WriteFails, SetLatest, chanVars
<1>. QED
  BY <1>1, <1>2, <1>3, <1>4, <1>5, <1>6 DEF Next, Step

(***************************************************************************)
(* TellingInvariance: what a registered observer has been told and what it *)
(* is still to be told make up the current members, until the process ends *)
(* in a panic (store.go:316-376).                                          *)
(***************************************************************************)
THEOREM TellingInvariance == Spec => [](GInv /\ RegInv /\ PanicInv)
<1>1. Init => RegInv /\ PanicInv
  BY DEF Init, RegInv, PanicInv, ViewInv
<1>2. ASSUME GInv, RegInv, PanicInv, [Next]_vars PROVE RegInv' /\ PanicInv'
  <2>1. ~panicked' => ~panicked
    BY <1>2 DEF Next, vars
  <2>2. ~panicked' => ViewInv'
    BY <1>2, <2>1, ViewStep DEF PanicInv
  <2>. QED
    BY <1>2, <2>2, RegStep, PanicStep DEF PanicInv
<1>. QED
  BY <1>1, <1>2, General, PTL DEF Spec

(***************************************************************************)
(* ObserversAgree: all registered observers have been told the same        *)
(* members, whenever they registered, whether or not calls overlap and     *)
(* whenever contexts are done (store.go:316-376).                          *)
(***************************************************************************)
THEOREM ObserversAgree == Spec => []RegisteredAgree
<1>1. GInv /\ PanicInv => RegisteredAgree
  <2>1. SUFFICES ASSUME GInv, PanicInv, mu = {}, NEW o \in Observers, NEW i \in Ids,
                        observers[i] = o
                 PROVE  view[o] = memberIds
    BY DEF RegisteredAgree, Registered
  <2>2. ViewInv
    BY <2>1 DEF PanicInv
  <2>3. unsent = {} /\ o # None
    BY <2>1, <2>2, MembershipAssumption DEF GInv, LockInv, ViewInv
  <2>4. \A m \in Members : m \in view[o] <=> m \in memberIds
    BY <2>1, <2>2, <2>3 DEF ViewInv
  <2>. QED
    BY <2>1, <2>4 DEF GInv, TypeOK
<1>. QED
  BY <1>1, TellingInvariance, PTL
=============================================================================
