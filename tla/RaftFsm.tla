------------------------------ MODULE RaftFsm ------------------------------
(***************************************************************************)
(* The replicated key-value state of one Raft node and its observers       *)
(* (src/services/state/raft/fsm.go with ObserveStateChange of raft.go).    *)
(* The FSM goroutine of hraft calls Apply, Snapshot and Restore one at a   *)
(* time.  A call of ObserveStateChange registers a channel and starts two  *)
(* goroutines: one emits the current state as synthetic Set inputs, one    *)
(* waits for the context to be done, deregisters the channel and closes    *)
(* it.  All of them, except Restore, meet at the mutex f.mu, which Apply   *)
(* and the synthetic emission keep while they send.                        *)
(*                                                                         *)
(* One element of Observers is one call of ObserveStateChange, standing    *)
(* for its observer id, its channel, its context and its reader.           *)
(***************************************************************************)
EXTENDS Naturals, Sequences

CONSTANTS
  Keys, Values,
  NoValue,      \* what an absent key maps to
  Observers,    \* calls of ObserveStateChange
  Capacity,     \* buffer size of an observer's channel (256 in the code)
  MaxApplies,   \* bound: committed log entries
  MaxRestores   \* bound: snapshots installed by a leader on the running node

ASSUME FsmAssumption ==
  /\ NoValue \notin Values
  /\ Capacity \in Nat \ {0}
  /\ MaxApplies \in Nat
  /\ MaxRestores \in Nat
  /\ Keys # {}
  /\ "fsm" \notin Observers

VARIABLES
  mu,         \* holder of f.mu: {}, {"fsm"} or the emission for an observer
  state,      \* f.state
  observers,  \* f.observers
  fsmPc,      \* the FSM goroutine is idle or sending inside Apply
  input,      \* the input Apply is sending
  unsent,     \* observers that Apply has still to send it to
  synPc,      \* the synthetic emission for an observer
  synMap,     \* the map the emission ranges over
  synTodo,    \* keys it has still to send
  watchPc,    \* the goroutine that waits for the context
  ctxDone,    \* contexts that are done
  chan,       \* contents of the observers' channels
  closed,     \* channels that are closed
  panicked,   \* a goroutine has sent on a closed channel
  snap,       \* the snapshot handed to hraft, with its log index
  saved,      \* the snapshot that Persist wrote last, with its log index
  restores,   \* number of snapshots installed
  stale,      \* history: observers registered when a snapshot was installed
  states,     \* history: the state after each applied entry
  view        \* history: what the inputs sent to an observer add up to

obsVars == <<observers, synPc, synMap, synTodo, watchPc, ctxDone>>
chanVars == <<chan, closed, panicked, view>>
snapVars == <<snap, saved, restores, stale>>
vars == <<mu, state, observers, fsmPc, input, unsent, synPc, synMap, synTodo,
          watchPc, ctxDone, chan, closed, panicked, snap, saved, restores,
          stale, states, view>>

Maps == [Keys -> Values \cup {NoValue}]
Empty == [k \in Keys |-> NoValue]
Inputs == [key : Keys, val : Values \cup {NoValue}]

\* The effect of an input on a map; the value NoValue stands for a Delete.
Update(m, in) == [m EXCEPT ![in.key] = in.val]

NoInput == [key |-> CHOOSE k \in Keys : TRUE, val |-> NoValue]

\* NewRaftFsm.
Init ==
  /\ mu = {}
  /\ state = Empty
  /\ observers = {}
  /\ fsmPc = "idle"
  /\ input = NoInput
  /\ unsent = {}
  /\ synPc = [o \in Observers |-> "idle"]
  /\ synMap = [o \in Observers |-> Empty]
  /\ synTodo = [o \in Observers |-> {}]
  /\ watchPc = [o \in Observers |-> "idle"]
  /\ ctxDone = {}
  /\ chan = [o \in Observers |-> <<>>]
  /\ closed = {}
  /\ panicked = FALSE
  /\ snap = [idx |-> 0, map |-> Empty]
  /\ saved = [idx |-> 0, map |-> Empty]
  /\ restores = 0
  /\ stale = {}
  /\ states = <<Empty>>
  /\ view = [o \in Observers |-> Empty]

-----------------------------------------------------------------------------
(* Sending on a channel: blocks while it is full, panics when it is closed.*)

\* Mutant: a channel without a bound.
AlwaysRoom(o) == TRUE

HasRoom(o) == Len(chan[o]) < Capacity

Send(o, in) ==
  IF o \in closed
  THEN /\ panicked' = TRUE
       /\ UNCHANGED <<chan, view>>
  ELSE /\ HasRoom(o)
       /\ chan' = [chan EXCEPT ![o] = Append(@, in)]
       /\ view' = [view EXCEPT ![o] = Update(@, in)]
       /\ UNCHANGED panicked

-----------------------------------------------------------------------------
(* ObserveStateChange and its goroutines.                                  *)

\* AddStateChangeObserver registers the channel and starts the emission; its
\* caller starts the goroutine that waits for the context.
Observe(o) ==
  /\ watchPc[o] = "idle"
  /\ mu = {}
  /\ observers' = observers \cup {o}
  /\ synPc' = [synPc EXCEPT ![o] = "want"]
  /\ watchPc' = [watchPc EXCEPT ![o] = "wait"]
  /\ UNCHANGED <<mu, state, fsmPc, input, unsent, synMap, synTodo, ctxDone,
                 chanVars, snapVars, states>>

\* Mutant: the emission copies the map and sends without the lock.
SynLockReleased(o) ==
  /\ synPc[o] = "want"
  /\ mu = {}
  /\ synPc' = [synPc EXCEPT ![o] = "send"]
  /\ synMap' = [synMap EXCEPT ![o] = state]
  /\ synTodo' = [synTodo EXCEPT ![o] = {k \in Keys : state[k] # NoValue}]
  /\ UNCHANGED <<mu, state, observers, fsmPc, input, unsent, watchPc, ctxDone,
                 chanVars, snapVars, states>>

\* The emission locks f.mu and ranges over the map f.state refers to.
SynLock(o) ==
  /\ synPc[o] = "want"
  /\ mu = {}
  /\ mu' = {o}
  /\ synPc' = [synPc EXCEPT ![o] = "send"]
  /\ synMap' = [synMap EXCEPT ![o] = state]
  /\ synTodo' = [synTodo EXCEPT ![o] = {k \in Keys : state[k] # NoValue}]
  /\ UNCHANGED <<state, observers, fsmPc, input, unsent, watchPc, ctxDone,
                 chanVars, snapVars, states>>

SynSend(o, k) ==
  /\ synPc[o] = "send"
  /\ k \in synTodo[o]
  /\ Send(o, [key |-> k, val |-> synMap[o][k]])
  /\ synTodo' = [synTodo EXCEPT ![o] = @ \ {k}]
  /\ UNCHANGED <<mu, state, observers, fsmPc, input, unsent, synPc, synMap,
                 watchPc, ctxDone, closed, snapVars, states>>

\* Mutant: the emission keeps the lock.
SynKeepLock(o) ==
  /\ synPc[o] = "send"
  /\ synTodo[o] = {}
  /\ synPc' = [synPc EXCEPT ![o] = "done"]
  /\ UNCHANGED <<mu, state, observers, fsmPc, input, unsent, synMap, synTodo,
                 watchPc, ctxDone, chanVars, snapVars, states>>

SynUnlock(o) ==
  /\ synPc[o] = "send"
  /\ synTodo[o] = {}
  /\ mu' = {}
  /\ synPc' = [synPc EXCEPT ![o] = "done"]
  /\ UNCHANGED <<state, observers, fsmPc, input, unsent, synMap, synTodo,
                 watchPc, ctxDone, chanVars, snapVars, states>>

\* The context is canceled or times out, at any time: it may be done before
\* the synthetic inputs are sent, or before the call.
Cancel(o) ==
  /\ o \notin ctxDone
  /\ ctxDone' = ctxDone \cup {o}
  /\ UNCHANGED <<mu, state, observers, fsmPc, input, unsent, synPc, synMap,
                 synTodo, watchPc, chanVars, snapVars, states>>

\* Mutant: the channel is closed but stays registered.
StillObserving(o) == observers

Deregistered(o) == observers \ {o}

\* RemoveStateChangeObserver, once the context is done.
WatchRemove(o) ==
  /\ watchPc[o] = "wait"
  /\ o \in ctxDone
  /\ mu = {}
  /\ observers' = Deregistered(o)
  /\ watchPc' = [watchPc EXCEPT ![o] = "close"]
  /\ UNCHANGED <<mu, state, fsmPc, input, unsent, synPc, synMap, synTodo,
                 ctxDone, chanVars, snapVars, states>>

\* The deferred close of the channel.
WatchClose(o) ==
  /\ watchPc[o] = "close"
  /\ closed' = closed \cup {o}
  /\ watchPc' = [watchPc EXCEPT ![o] = "closed"]
  /\ UNCHANGED <<mu, state, observers, fsmPc, input, unsent, synPc, synMap,
                 synTodo, ctxDone, chan, panicked, view, snapVars, states>>

\* The reader takes an input from its channel.
Receive(o) ==
  /\ chan[o] # <<>>
  /\ chan' = [chan EXCEPT ![o] = Tail(@)]
  /\ UNCHANGED <<mu, state, fsmPc, input, unsent, obsVars, closed, panicked,
                 view, snapVars, states>>

-----------------------------------------------------------------------------
(* The FSM goroutine of hraft.                                             *)

\* Apply of a Set or a Delete: lock, change the map, start sending.
ApplyLock(in) ==
  /\ fsmPc = "idle"
  /\ Len(states) <= MaxApplies
  /\ mu = {}
  /\ mu' = {"fsm"}
  /\ state' = Update(state, in)
  /\ states' = Append(states, Update(state, in))
  /\ input' = in
  /\ unsent' = observers
  /\ fsmPc' = "sending"
  /\ UNCHANGED <<obsVars, chanVars, snapVars>>

\* Apply of an Undefined input, of an unknown operation or of an entry that
\* cannot be decoded returns without touching the map.
ApplyNone ==
  /\ fsmPc = "idle"
  /\ Len(states) <= MaxApplies
  /\ states' = Append(states, state)
  /\ UNCHANGED <<mu, state, fsmPc, input, unsent, obsVars, chanVars, snapVars>>

\* Mutant: sendStateChange locks f.mu, which its caller holds.
SendRelocks(o) ==
  /\ fsmPc = "sending"
  /\ o \in unsent
  /\ mu = {}
  /\ Send(o, input)
  /\ unsent' = unsent \ {o}
  /\ UNCHANGED <<mu, state, fsmPc, input, obsVars, closed, snapVars, states>>

\* sendStateChange, for one observer; the range over the map has any order.
ApplySend(o) ==
  /\ fsmPc = "sending"
  /\ o \in unsent
  /\ Send(o, input)
  /\ unsent' = unsent \ {o}
  /\ UNCHANGED <<mu, state, fsmPc, input, obsVars, closed, snapVars, states>>

\* Apply returns.
ApplyUnlock ==
  /\ fsmPc = "sending"
  /\ unsent = {}
  /\ mu' = {}
  /\ fsmPc' = "idle"
  /\ UNCHANGED <<state, input, unsent, obsVars, chanVars, snapVars, states>>

\* Snapshot deep-copies the map under the lock.
Snapshot ==
  /\ fsmPc = "idle"
  /\ mu = {}
  /\ snap' = [idx |-> Len(states) - 1, map |-> state]
  /\ UNCHANGED <<mu, state, fsmPc, input, unsent, obsVars, chanVars, saved,
                 restores, stale, states>>

\* Mutant: Snapshot captures the map without copying it.
AliasedState == [idx |-> snap.idx, map |-> state]

\* What Persist encodes.
PersistedState == snap

\* Persist runs concurrently with Apply; on a failure it cancels the sink,
\* which leaves the snapshot saved before.
Persist ==
  /\ saved' = PersistedState
  /\ UNCHANGED <<mu, state, fsmPc, input, unsent, obsVars, chanVars, snap,
                 restores, stale, states>>

\* Restore replaces the map, without lock and without telling observers, by
\* the one in a snapshot of the leader.
Restore(m) ==
  /\ fsmPc = "idle"
  /\ restores < MaxRestores
  /\ Len(states) <= MaxApplies
  /\ restores' = restores + 1
  /\ state' = m
  /\ stale' = stale \cup observers
  /\ states' = Append(states, m)
  /\ UNCHANGED <<mu, fsmPc, input, unsent, obsVars, chanVars, snap, saved>>

-----------------------------------------------------------------------------

ObserverStep(o) ==
  \/ SynLock(o) \/ SynUnlock(o) \/ WatchRemove(o) \/ WatchClose(o)
  \/ \E k \in Keys : SynSend(o, k)

ApplyStep == ApplyUnlock \/ \E o \in Observers : ApplySend(o)

Step ==
  \/ \E o \in Observers : Observe(o) \/ Cancel(o) \/ ObserverStep(o)
                            \/ Receive(o)
  \/ \E in \in Inputs : ApplyLock(in)
  \/ ApplyNone \/ ApplyStep \/ Snapshot \/ Persist
  \/ \E m \in Maps : Restore(m)

\* A panic in one goroutine ends the process.
Next == ~panicked /\ Step

Spec == Init /\ [][Next]_vars

\* Goroutines that can run do run, and the Go mutex hands the lock to every
\* goroutine that keeps waiting for it (it is fair beyond a millisecond).
GoroutineFairness ==
  /\ WF_vars(~panicked /\ ApplyStep)
  /\ \A o \in Observers :
       /\ SF_vars(~panicked /\ SynLock(o))
       /\ SF_vars(~panicked /\ WatchRemove(o))
       /\ WF_vars(~panicked /\ ObserverStep(o))

\* A reader receives as long as its context is not done.  Afterwards it may
\* stop: the gRPC server does (grpc.go:700-701).
ReadUntilCancel ==
  \A o \in Observers : WF_vars(~panicked /\ o \notin ctxDone /\ Receive(o))

FairSpec == Spec /\ GoroutineFairness /\ ReadUntilCancel

-----------------------------------------------------------------------------
(* Properties.                                                             *)

\* Every variable has its type and every channel respects its capacity.
TypeOK ==
  /\ mu \subseteq Observers \cup {"fsm"}
  /\ state \in Maps
  /\ observers \subseteq Observers
  /\ fsmPc \in {"idle", "sending"}
  /\ input \in Inputs
  /\ unsent \subseteq Observers
  /\ synPc \in [Observers -> {"idle", "want", "send", "done"}]
  /\ synMap \in [Observers -> Maps]
  /\ synTodo \in [Observers -> SUBSET Keys]
  /\ watchPc \in [Observers -> {"idle", "wait", "close", "closed"}]
  /\ ctxDone \subseteq Observers
  /\ chan \in [Observers -> Seq(Inputs)]
  /\ \A o \in Observers : Len(chan[o]) <= Capacity
  /\ closed \subseteq Observers
  /\ panicked \in BOOLEAN
  /\ snap \in [idx : Nat, map : Maps]
  /\ saved \in [idx : Nat, map : Maps]
  /\ restores \in 0..MaxRestores
  /\ stale \subseteq Observers
  /\ states \in Seq(Maps) /\ Len(states) > 0
  /\ view \in [Observers -> Maps]

\* Once an observer has been sent its synthetic inputs and no Apply is in
\* the middle of sending, the inputs it was sent add up to the state: no
\* interleaving of Apply with registration and emission loses, repeats or
\* reorders a change in a way that matters (fsm.go:45-62 against 85-109).
\* An observer registered when a snapshot is installed is not told of it and
\* is left out (fsm.go:138-146).
ObserverInSync ==
  \A o \in observers \ stale :
    synPc[o] = "done" /\ fsmPc = "idle" => view[o] = state

\* Apply never sends on a closed channel, whenever contexts are done and
\* their goroutines deregister and close between two of its sends
\* (fsm.go:64-71 and 148-152 with raft.go:311-315).
ApplySendsOpen == unsent \cap closed = {}

\* No goroutine sends on a closed channel: once RemoveStateChangeObserver has
\* returned, its caller may close the channel (fsm.go:64-71, raft.go:311-315).
\* The synthetic emission does send on it (fsm.go:57), when the context is
\* done before the emission has the lock.
NoPanic == ~panicked

\* A snapshot on disk is the state after exactly the log entries its index
\* says, although Persist runs while Apply goes on (fsm.go:125-131).
SnapshotIsPrefix == saved.map = states[saved.idx + 1]

\* A sender with the lock waits on the full channel of a reader whose context
\* is done and that may have stopped reading.
StuckOn(o) ==
  /\ o \in ctxDone
  /\ ~HasRoom(o)
  /\ o \in unsent \/ (synPc[o] = "send" /\ synTodo[o] # {})

Stuck == \E o \in Observers : StuckOn(o)

\* The channel of an observer is closed after its context is done
\* (raft.go:311-315), or the process has died.
CancelCloses ==
  \A o \in Observers :
    (watchPc[o] = "wait" /\ o \in ctxDone) ~> (o \in closed \/ panicked)

\* Nothing but a sender that stays blocked on the channel of a reader that
\* stopped at its cancellation keeps a channel from being closed: not the
\* lock, not the emission for the same or another observer, not Apply
\* (fsm.go:53-59 and 85-109 against raft.go:311-315).
CancelClosesUnlessStuck ==
  \A o \in Observers :
    <>[](watchPc[o] = "wait" /\ o \in ctxDone) => <>[](Stuck \/ panicked)

\* Apply returns, so that the log keeps being applied, unless it stays blocked
\* on the channel of a reader that stopped at its cancellation: no reader
\* whose context is not done holds up the log (fsm.go:85-109, 148-152).
ApplyReturns ==
  <>[](fsmPc = "sending")
    => <>[](panicked \/ \E o \in unsent : StuckOn(o))
=============================================================================
