--------------------------- MODULE RaftFsmProofs ---------------------------
(***************************************************************************)
(* Proofs about RaftFsm for any sets of keys, values and observers, any    *)
(* channel capacity and any number of log entries and installed snapshots. *)
(* The inductive invariant says who holds f.mu (MuInv), how the goroutines *)
(* of an observer stand to its registration (RegInv), what an observer has *)
(* been sent relative to the state (ViewInv) and what the snapshots hold   *)
(* (SnapInv).                                                              *)
(***************************************************************************)
EXTENDS RaftFsm, TLAPS

\* The senders hold f.mu; Apply sends to registered observers only.
MuInv ==
  /\ fsmPc = "sending" => mu = {"fsm"}
  /\ fsmPc = "idle" => unsent = {}
  /\ unsent \subseteq observers
  /\ \A o \in Observers : synPc[o] = "send" => mu = {o}

\* An observer is registered from Observe to WatchRemove, closed after.
RegInv ==
  \A o \in Observers :
    /\ o \in observers => watchPc[o] = "wait"
    /\ o \in closed => watchPc[o] = "closed"
    /\ watchPc[o] \in {"close", "closed"} => o \in ctxDone
    /\ watchPc[o] = "idle" => synPc[o] = "idle" /\ view[o] = Empty
    /\ watchPc[o] # "idle" => synPc[o] # "idle"

\* What the inputs sent to an observer amount to once a pending Apply has
\* sent its own.
Settled(o) == IF o \in unsent THEN Update(view[o], input) ELSE view[o]

\* Before the synthetic inputs an observer knows the current value of a key
\* or nothing of it; during their emission the keys already sent and the
\* absent keys are right; afterwards all are.
ViewInv ==
  \A o \in observers \ stale :
    /\ synPc[o] = "want" =>
         \A k \in Keys : Settled(o)[k] \in {NoValue, state[k]}
    /\ synPc[o] = "send" =>
         /\ synMap[o] = state
         /\ \A k \in Keys : k \in synTodo[o] \/ view[o][k] = state[k]
    /\ synPc[o] = "done" => Settled(o) = state

\* A snapshot holds the state after the entries that its index counts.
SnapInv ==
  /\ Len(states) > 0
  /\ state = states[Len(states)]
  /\ snap.idx < Len(states) /\ snap.map = states[snap.idx + 1]
  /\ saved.idx < Len(states) /\ saved.map = states[saved.idx + 1]

USE FsmAssumption

\* The FSM starts with variables of their types.
LEMMA TypeInit == Init => TypeOK
<1> SUFFICES ASSUME Init PROVE TypeOK
  OBVIOUS
<1>1. Empty \in Maps /\ NoInput \in Inputs
  BY DEF Maps, Empty, Inputs, NoInput
<1>2. mu = {} /\ state \in Maps /\ input \in Inputs /\ fsmPc = "idle"
  BY <1>1 DEF Init
<1>3. /\ synPc \in [Observers -> {"idle", "want", "send", "done"}]
      /\ synMap \in [Observers -> Maps]
      /\ synTodo \in [Observers -> SUBSET Keys]
      /\ watchPc \in [Observers -> {"idle", "wait", "close", "closed"}]
  BY <1>1 DEF Init
<1>4. /\ chan \in [Observers -> Seq(Inputs)]
      /\ \A o \in Observers : Len(chan[o]) <= Capacity
  BY DEF Init
<1>5. /\ snap \in [idx : Nat, map : Maps]
      /\ saved \in [idx : Nat, map : Maps]
  BY <1>1 DEF Init
<1>6. states \in Seq(Maps) /\ Len(states) > 0
  BY <1>1 DEF Init
<1>7. view \in [Observers -> Maps]
  BY <1>1 DEF Init
<1>8. /\ observers = {} /\ unsent = {} /\ ctxDone = {} /\ closed = {}
      /\ stale = {} /\ restores \in 0..MaxRestores
  BY DEF Init
<1>9. panicked \in BOOLEAN
  BY Zenon DEF Init
<1> QED
  BY <1>2, <1>3, <1>4, <1>5, <1>6, <1>7, <1>8, <1>9 DEF TypeOK

\* An updated map is a map.
LEMMA UpdateType ==
  ASSUME NEW m \in Maps, NEW in \in Inputs
  PROVE  Update(m, in) \in Maps
  BY DEF Update, Maps, Inputs

\* Sending an input keeps the types of the channels.
LEMMA SendType ==
  ASSUME TypeOK, NEW o \in Observers, NEW in \in Inputs, Send(o, in)
  PROVE  /\ chan' \in [Observers -> Seq(Inputs)]
         /\ \A p \in Observers : Len(chan'[p]) <= Capacity
         /\ view' \in [Observers -> Maps]
         /\ panicked' \in BOOLEAN
<1>1. /\ chan \in [Observers -> Seq(Inputs)]
      /\ \A p \in Observers : Len(chan[p]) <= Capacity
      /\ view \in [Observers -> Maps]
      /\ panicked \in BOOLEAN
  BY DEF TypeOK
<1>2. CASE o \in closed
  BY <1>1, <1>2 DEF Send
<1>3. CASE o \notin closed
  <2>1. /\ chan' = [chan EXCEPT ![o] = Append(chan[o], in)]
        /\ view' = [view EXCEPT ![o] = Update(view[o], in)]
        /\ Len(chan[o]) < Capacity
        /\ panicked' = panicked
    BY <1>3, Zenon DEF Send, HasRoom
  <2>2. /\ Append(chan[o], in) \in Seq(Inputs)
        /\ Len(Append(chan[o], in)) <= Capacity
    BY <1>1, <2>1
  <2>3. view' \in [Observers -> Maps]
    BY <1>1, <2>1, UpdateType
  <2>4. chan' \in [Observers -> Seq(Inputs)]
    BY <1>1, <2>1, <2>2
  <2>5. \A p \in Observers : Len(chan'[p]) <= Capacity
    BY <1>1, <2>1, <2>2
  <2> QED
    BY <1>1, <2>1, <2>3, <2>4, <2>5
<1> QED
  BY <1>2, <1>3

\* Every step keeps the types.
LEMMA TypeStep ==
  TypeOK /\ [Next]_vars => TypeOK'
<1> SUFFICES ASSUME TypeOK, [Next]_vars
             PROVE TypeOK'
  OBVIOUS
<1> USE DEF TypeOK, obsVars, chanVars, snapVars
<1>1. ASSUME NEW o \in Observers,
             Observe(o)
      PROVE TypeOK'
  BY <1>1 DEF Observe
<1>2. ASSUME NEW o \in Observers,
             SynLock(o)
      PROVE TypeOK'
  BY <1>2 DEF SynLock
<1>3. ASSUME NEW o \in Observers, NEW k \in Keys,
             SynSend(o, k)
      PROVE TypeOK'
  <2>1. [key |-> k, val |-> synMap[o][k]] \in Inputs
    BY DEF Inputs, Maps
  <2>2. /\ chan' \in [Observers -> Seq(Inputs)]
        /\ \A p \in Observers : Len(chan'[p]) <= Capacity
        /\ view' \in [Observers -> Maps]
        /\ panicked' \in BOOLEAN
    BY <1>3, <2>1, SendType DEF SynSend
  <2> QED
    BY <1>3, <2>2 DEF SynSend
<1>4. ASSUME NEW o \in Observers,
             SynUnlock(o)
      PROVE TypeOK'
  BY <1>4 DEF SynUnlock
<1>5. ASSUME NEW o \in Observers,
             Cancel(o)
      PROVE TypeOK'
  BY <1>5 DEF Cancel
<1>6. ASSUME NEW o \in Observers,
             WatchRemove(o)
      PROVE TypeOK'
  BY <1>6 DEF WatchRemove, Deregistered
<1>7. ASSUME NEW o \in Observers,
             WatchClose(o)
      PROVE TypeOK'
  BY <1>7 DEF WatchClose
<1>8. ASSUME NEW o \in Observers,
             Receive(o)
      PROVE TypeOK'
  BY <1>8 DEF Receive
<1>9. ASSUME NEW in \in Inputs,
             ApplyLock(in)
      PROVE TypeOK'
  <2>1. Update(state, in) \in Maps
    BY UpdateType
  <2> QED
    BY <1>9, <2>1 DEF ApplyLock
<1>10. ASSUME 
             ApplyNone
      PROVE TypeOK'
  BY <1>10 DEF ApplyNone
<1>11. ASSUME NEW o \in Observers,
             ApplySend(o)
      PROVE TypeOK'
  <2>1. /\ chan' \in [Observers -> Seq(Inputs)]
        /\ \A p \in Observers : Len(chan'[p]) <= Capacity
        /\ view' \in [Observers -> Maps]
        /\ panicked' \in BOOLEAN
    BY <1>11, SendType DEF ApplySend
  <2> QED
    BY <1>11, <2>1 DEF ApplySend
<1>12. ASSUME 
             ApplyUnlock
      PROVE TypeOK'
  BY <1>12 DEF ApplyUnlock
<1>13. ASSUME 
             Snapshot
      PROVE TypeOK'
  BY <1>13 DEF Snapshot
<1>14. ASSUME 
             Persist
      PROVE TypeOK'
  BY <1>14 DEF Persist, PersistedState
<1>15. ASSUME NEW m \in Maps,
             Restore(m)
      PROVE TypeOK'
  BY <1>15 DEF Restore
<1>16. CASE UNCHANGED vars
  BY <1>16 DEF vars
<1> QED
  BY <1>1, <1>2, <1>3, <1>4, <1>5, <1>6, <1>7, <1>8, <1>9, <1>10, <1>11,
     <1>12, <1>13, <1>14, <1>15, <1>16
     DEF Next, Step, ObserverStep, ApplyStep

\* Every step keeps the senders in possession of f.mu.
LEMMA MuStep ==
  TypeOK /\ MuInv /\ [Next]_vars => MuInv'
<1> SUFFICES ASSUME TypeOK, MuInv, [Next]_vars
             PROVE MuInv'
  OBVIOUS
<1>t. /\ DOMAIN synPc = Observers /\ observers \subseteq Observers
      /\ fsmPc \in {"idle", "sending"}
  BY DEF TypeOK
<1> USE <1>t DEF MuInv, obsVars, chanVars, snapVars
<1>1. ASSUME NEW o \in Observers,
             Observe(o)
      PROVE MuInv'
  BY <1>1 DEF Observe
<1>2. ASSUME NEW o \in Observers,
             SynLock(o)
      PROVE MuInv'
  BY <1>2 DEF SynLock
<1>3. ASSUME NEW o \in Observers, NEW k \in Keys,
             SynSend(o, k)
      PROVE MuInv'
  BY <1>3 DEF SynSend, Send
<1>4. ASSUME NEW o \in Observers,
             SynUnlock(o)
      PROVE MuInv'
  BY <1>4 DEF SynUnlock
<1>5. ASSUME NEW o \in Observers,
             Cancel(o)
      PROVE MuInv'
  BY <1>5 DEF Cancel
<1>6. ASSUME NEW o \in Observers,
             WatchRemove(o)
      PROVE MuInv'
  BY <1>6 DEF WatchRemove, Deregistered
<1>7. ASSUME NEW o \in Observers,
             WatchClose(o)
      PROVE MuInv'
  BY <1>7 DEF WatchClose
<1>8. ASSUME NEW o \in Observers,
             Receive(o)
      PROVE MuInv'
  BY <1>8 DEF Receive
<1>9. ASSUME NEW in \in Inputs,
             ApplyLock(in)
      PROVE MuInv'
  BY <1>9 DEF ApplyLock
<1>10. ASSUME 
             ApplyNone
      PROVE MuInv'
  BY <1>10 DEF ApplyNone
<1>11. ASSUME NEW o \in Observers,
             ApplySend(o)
      PROVE MuInv'
  BY <1>11 DEF ApplySend, Send
<1>12. ASSUME 
             ApplyUnlock
      PROVE MuInv'
  BY <1>12 DEF ApplyUnlock
<1>13. ASSUME 
             Snapshot
      PROVE MuInv'
  BY <1>13 DEF Snapshot
<1>14. ASSUME 
             Persist
      PROVE MuInv'
  BY <1>14 DEF Persist, PersistedState
<1>15. ASSUME NEW m \in Maps,
             Restore(m)
      PROVE MuInv'
  BY <1>15 DEF Restore
<1>16. CASE UNCHANGED vars
  BY <1>16 DEF vars
<1> QED
  BY <1>1, <1>2, <1>3, <1>4, <1>5, <1>6, <1>7, <1>8, <1>9, <1>10, <1>11,
     <1>12, <1>13, <1>14, <1>15, <1>16
     DEF Next, Step, ObserverStep, ApplyStep

\* Every step keeps registration and goroutines in line.
LEMMA RegStep ==
  TypeOK /\ MuInv /\ RegInv /\ [Next]_vars => RegInv'
<1> SUFFICES ASSUME TypeOK, MuInv, RegInv, [Next]_vars
             PROVE RegInv'
  OBVIOUS
<1>t. /\ synPc \in [Observers -> {"idle", "want", "send", "done"}]
      /\ DOMAIN watchPc = Observers /\ DOMAIN view = Observers
      /\ observers \subseteq Observers
  BY DEF TypeOK
<1> USE <1>t DEF RegInv, obsVars, chanVars, snapVars
<1>1. ASSUME NEW o \in Observers,
             Observe(o)
      PROVE RegInv'
  BY <1>1 DEF Observe
<1>2. ASSUME NEW o \in Observers,
             SynLock(o)
      PROVE RegInv'
  BY <1>2 DEF SynLock
<1>3. ASSUME NEW o \in Observers, NEW k \in Keys,
             SynSend(o, k)
      PROVE RegInv'
  BY <1>3 DEF SynSend, Send
<1>4. ASSUME NEW o \in Observers,
             SynUnlock(o)
      PROVE RegInv'
  BY <1>4 DEF SynUnlock
<1>5. ASSUME NEW o \in Observers,
             Cancel(o)
      PROVE RegInv'
  BY <1>5 DEF Cancel
<1>6. ASSUME NEW o \in Observers,
             WatchRemove(o)
      PROVE RegInv'
  BY <1>6 DEF WatchRemove, Deregistered
<1>7. ASSUME NEW o \in Observers,
             WatchClose(o)
      PROVE RegInv'
  BY <1>7 DEF WatchClose
<1>8. ASSUME NEW o \in Observers,
             Receive(o)
      PROVE RegInv'
  BY <1>8 DEF Receive
<1>9. ASSUME NEW in \in Inputs,
             ApplyLock(in)
      PROVE RegInv'
  BY <1>9 DEF ApplyLock
<1>10. ASSUME 
             ApplyNone
      PROVE RegInv'
  BY <1>10 DEF ApplyNone
<1>11. ASSUME NEW o \in Observers,
             ApplySend(o)
      PROVE RegInv'
  <2>1. watchPc[o] = "wait"
    BY <1>11 DEF ApplySend, MuInv
  <2> QED
    BY <1>11, <2>1 DEF ApplySend, Send
<1>12. ASSUME 
             ApplyUnlock
      PROVE RegInv'
  BY <1>12 DEF ApplyUnlock
<1>13. ASSUME 
             Snapshot
      PROVE RegInv'
  BY <1>13 DEF Snapshot
<1>14. ASSUME 
             Persist
      PROVE RegInv'
  BY <1>14 DEF Persist, PersistedState
<1>15. ASSUME NEW m \in Maps,
             Restore(m)
      PROVE RegInv'
  BY <1>15 DEF Restore
<1>16. CASE UNCHANGED vars
  BY <1>16 DEF vars
<1> QED
  BY <1>1, <1>2, <1>3, <1>4, <1>5, <1>6, <1>7, <1>8, <1>9, <1>10, <1>11,
     <1>12, <1>13, <1>14, <1>15, <1>16
     DEF Next, Step, ObserverStep, ApplyStep

\* Every step keeps the snapshots equal to prefixes of the log.
LEMMA SnapStep ==
  TypeOK /\ SnapInv /\ [Next]_vars => SnapInv'
<1> SUFFICES ASSUME TypeOK, SnapInv, [Next]_vars
             PROVE SnapInv'
  OBVIOUS
<1>t. /\ states \in Seq(Maps) /\ state \in Maps
      /\ snap \in [idx : Nat, map : Maps] /\ saved \in [idx : Nat, map : Maps]
  BY DEF TypeOK
<1> USE <1>t DEF SnapInv, obsVars, chanVars, snapVars
<1>1. ASSUME NEW o \in Observers,
             Observe(o) \/ SynLock(o) \/ SynUnlock(o) \/ Cancel(o) \/
               WatchRemove(o) \/ WatchClose(o) \/ Receive(o) \/ ApplySend(o)
      PROVE SnapInv'
  BY <1>1 DEF Observe, SynLock, SynUnlock, Cancel, WatchRemove, Deregistered,
         WatchClose, Receive, ApplySend, Send
<1>2. ASSUME NEW o \in Observers, NEW k \in Keys,
             SynSend(o, k)
      PROVE SnapInv'
  BY <1>2 DEF SynSend, Send
<1>3. ASSUME NEW in \in Inputs,
             ApplyLock(in)
      PROVE SnapInv'
  <2>1. Update(state, in) \in Maps
    BY UpdateType
  <2> QED
    BY <1>3, <2>1 DEF ApplyLock
<1>4. ASSUME 
             ApplyNone
      PROVE SnapInv'
  BY <1>4 DEF ApplyNone
<1>5. ASSUME 
             ApplyUnlock
      PROVE SnapInv'
  BY <1>5 DEF ApplyUnlock
<1>6. ASSUME 
             Snapshot
      PROVE SnapInv'
  BY <1>6 DEF Snapshot
<1>7. ASSUME 
             Persist
      PROVE SnapInv'
  BY <1>7 DEF Persist, PersistedState
<1>8. ASSUME NEW m \in Maps,
             Restore(m)
      PROVE SnapInv'
  BY <1>8 DEF Restore
<1>9. CASE UNCHANGED vars
  BY <1>9 DEF vars
<1> QED
  BY <1>1, <1>2, <1>3, <1>4, <1>5, <1>6, <1>7, <1>8, <1>9
     DEF Next, Step, ObserverStep, ApplyStep

\* Every step keeps the observers on the way to the state.
LEMMA ViewStep ==
  TypeOK /\ MuInv /\ RegInv /\ ViewInv /\ [Next]_vars => ViewInv'
<1> SUFFICES ASSUME TypeOK, MuInv, RegInv, ViewInv, [Next]_vars
             PROVE ViewInv'
  OBVIOUS
<1>t. /\ synPc \in [Observers -> {"idle", "want", "send", "done"}]
      /\ DOMAIN synMap = Observers /\ DOMAIN synTodo = Observers
      /\ view \in [Observers -> Maps] /\ state \in Maps /\ input \in Inputs
      /\ observers \subseteq Observers /\ fsmPc \in {"idle", "sending"}
  BY DEF TypeOK
<1> USE <1>t DEF ViewInv, Settled, obsVars, chanVars, snapVars
<1>1. ASSUME NEW o \in Observers,
             Observe(o)
      PROVE ViewInv'
  <2>1. o \notin unsent /\ view[o] = Empty
    BY <1>1 DEF Observe, MuInv, RegInv
  <2> QED
    BY <1>1, <2>1 DEF Observe, Empty
<1>2. ASSUME NEW o \in Observers,
             SynLock(o)
      PROVE ViewInv'
  <2>1. unsent = {}
    BY <1>2 DEF SynLock, MuInv
  <2> QED
    BY <1>2, <2>1 DEF SynLock, Settled, Maps
<1>3. ASSUME NEW o \in Observers, NEW k \in Keys,
             SynSend(o, k)
      PROVE ViewInv'
  <2>1. unsent = {}
    BY <1>3 DEF SynSend, MuInv
  <2>2. CASE o \in closed
    <3>1. o \notin observers
      BY <2>2 DEF RegInv
    <3> QED
      BY <1>3, <2>1, <2>2, <3>1 DEF SynSend, Send, Settled
  <2>3. CASE o \notin closed
    <3>1. view' = [view EXCEPT ![o] = [view[o] EXCEPT ![k] = synMap[o][k]]]
      BY <1>3, <2>3 DEF SynSend, Send, Update
    <3> QED
      BY <1>3, <2>1, <3>1 DEF SynSend, Settled, Maps
  <2> QED
    BY <2>2, <2>3
<1>4. ASSUME NEW o \in Observers,
             SynUnlock(o)
      PROVE ViewInv'
  <2>1. unsent = {}
    BY <1>4 DEF SynUnlock, MuInv
  <2>2. o \in observers \ stale => view[o] = state
    BY <1>4 DEF SynUnlock, Maps
  <2> QED
    BY <1>4, <2>1, <2>2 DEF SynUnlock, Settled
<1>5. ASSUME NEW o \in Observers,
             Cancel(o)
      PROVE ViewInv'
  BY <1>5 DEF Cancel, Settled
<1>6. ASSUME NEW o \in Observers,
             WatchRemove(o)
      PROVE ViewInv'
  BY <1>6 DEF WatchRemove, Deregistered, Settled
<1>7. ASSUME NEW o \in Observers,
             WatchClose(o)
      PROVE ViewInv'
  BY <1>7 DEF WatchClose, Settled
<1>8. ASSUME NEW o \in Observers,
             Receive(o)
      PROVE ViewInv'
  BY <1>8 DEF Receive, Settled
<1>9. ASSUME NEW in \in Inputs,
             ApplyLock(in)
      PROVE ViewInv'
  <2>1. unsent = {} /\ \A o \in Observers : synPc[o] # "send"
    BY <1>9 DEF ApplyLock, MuInv
  <2>2. \A o \in observers : Settled(o)' = Update(view[o], in)
    BY <1>9 DEF ApplyLock, Settled
  <2>3. \A o \in observers : Settled(o) = view[o]
    BY <2>1 DEF Settled
  <2>4. ASSUME NEW o \in observers \ stale, synPc[o] = "want", NEW k \in Keys
        PROVE  Settled(o)'[k] \in {NoValue, state'[k]}
    BY <1>9, <2>2, <2>3, <2>4 DEF ApplyLock, Update, Maps
  <2>5. ASSUME NEW o \in observers \ stale, synPc[o] = "done"
        PROVE  Settled(o)' = state'
    BY <1>9, <2>2, <2>3, <2>5 DEF ApplyLock
  <2> QED
    BY <1>9, <2>1, <2>4, <2>5 DEF ApplyLock
<1>10. ASSUME 
             ApplyNone
      PROVE ViewInv'
  BY <1>10 DEF ApplyNone, Settled
<1>11. ASSUME NEW o \in Observers,
             ApplySend(o)
      PROVE ViewInv'
  <2>1. o \in observers /\ o \notin closed
    BY <1>11 DEF ApplySend, MuInv, RegInv
  <2>2. view' = [view EXCEPT ![o] = Update(view[o], input)]
    BY <1>11, <2>1 DEF ApplySend, Send
  <2>3. \A p \in observers : Settled(p)' = Settled(p)
    BY <1>11, <2>2 DEF ApplySend, Settled
  <2>4. \A p \in Observers : synPc[p] # "send"
    BY <1>11 DEF ApplySend, MuInv
  <2> QED
    BY <1>11, <2>3, <2>4 DEF ApplySend
<1>12. ASSUME 
             ApplyUnlock
      PROVE ViewInv'
  BY <1>12 DEF ApplyUnlock, Settled
<1>13. ASSUME 
             Snapshot
      PROVE ViewInv'
  BY <1>13 DEF Snapshot, Settled
<1>14. ASSUME 
             Persist
      PROVE ViewInv'
  BY <1>14 DEF Persist, PersistedState, Settled
<1>15. ASSUME NEW m \in Maps,
             Restore(m)
      PROVE ViewInv'
  <2>1. observers' \ stale' = {}
    BY <1>15 DEF Restore
  <2> QED
    BY <2>1
<1>16. CASE UNCHANGED vars
  BY <1>16 DEF vars
<1> QED
  BY <1>1, <1>2, <1>3, <1>4, <1>5, <1>6, <1>7, <1>8, <1>9, <1>10, <1>11,
     <1>12, <1>13, <1>14, <1>15, <1>16
     DEF Next, Step, ObserverStep, ApplyStep

-----------------------------------------------------------------------------

\* Every reachable state is well typed and no observer's channel holds more
\* inputs than its capacity.
THEOREM TypeCorrect == Spec => []TypeOK
  BY TypeInit, TypeStep, PTL DEF Spec

\* The inductive invariant of the FSM.
IInv == TypeOK /\ MuInv /\ RegInv /\ ViewInv /\ SnapInv

\* The inductive invariant holds in every reachable state.
THEOREM Invariance == Spec => []IInv
<1>1. Init => IInv
  <2> SUFFICES ASSUME Init PROVE IInv
    OBVIOUS
  <2>1. TypeOK
    BY TypeInit
  <2>2. MuInv /\ RegInv /\ ViewInv
    BY DEF Init, MuInv, RegInv, ViewInv
  <2>3. SnapInv
    BY DEF Init, SnapInv
  <2> QED
    BY <2>1, <2>2, <2>3 DEF IInv
<1>2. IInv /\ [Next]_vars => IInv'
  BY TypeStep, MuStep, RegStep, ViewStep, SnapStep DEF IInv
<1> QED
  BY <1>1, <1>2, PTL DEF Spec

\* What an observer was sent adds up to the replicated state whenever its
\* synthetic inputs are out and no Apply is sending, for any number of
\* observers, entries and keys.
THEOREM ObserversFollow == Spec => []ObserverInSync
<1>1. IInv => ObserverInSync
  BY DEF IInv, TypeOK, MuInv, ViewInv, Settled, ObserverInSync
<1> QED
  BY <1>1, Invariance, PTL

\* A persisted snapshot is the state after exactly the entries its index
\* counts, however many are applied while Persist runs.
THEOREM SnapshotsConsistent == Spec => []SnapshotIsPrefix
<1>1. IInv => SnapshotIsPrefix
  BY DEF IInv, SnapInv, SnapshotIsPrefix
<1> QED
  BY <1>1, Invariance, PTL

\* Apply sends on open channels only, although contexts may be done at any
\* time: an observer is deregistered under the lock before it is closed, and
\* Apply keeps the lock from collecting the observers to its last send.
THEOREM ApplyNeverPanics == Spec => []ApplySendsOpen
<1>1. IInv => ApplySendsOpen
  BY DEF IInv, TypeOK, MuInv, RegInv, ApplySendsOpen
<1> QED
  BY <1>1, Invariance, PTL
=============================================================================
