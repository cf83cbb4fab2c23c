----------------------------- MODULE Membership -----------------------------
(***************************************************************************)
(* Membership change observers of a Raft node                              *)
(* (src/services/state/raft/store.go with ObserveMembershipChange of       *)
(* raft.go).  hraft stores a configuration log entry through StoreLogs,    *)
(* which tells the observers who joined and left, then writes the entry,   *)
(* which may fail; after that hraft makes it its latest configuration.     *)
(* A call of ObserveMembershipChange takes an observer id and starts two   *)
(* goroutines: one tells the observer the current members and then         *)
(* registers it, one waits for the context to be done, deregisters the id  *)
(* and closes the channel.  All meet at s.mu, which senders keep while     *)
(* they send.                                                              *)
(*                                                                         *)
(* One element of Observers is one such call: its channel, context, reader *)
(* and goroutines.  Of a channel only the number of buffered changes is    *)
(* kept, and what all changes sent on it amount to.                        *)
(***************************************************************************)
EXTENDS Naturals, FiniteSets

CONSTANTS
  Members,      \* ids of possible group members
  Bootstrap,    \* members of the initial configuration
  Observers,    \* calls of ObserveMembershipChange
  None,         \* no observer
  Capacity,     \* buffer size of an observer's channel (32 in the code)
  MaxConfigs    \* bound: configuration entries passed to StoreLogs

ASSUME MembershipAssumption ==
  /\ IsFiniteSet(Observers)
  /\ Bootstrap \subseteq Members
  /\ None \notin Observers
  /\ Capacity \in Nat \ {0}
  /\ MaxConfigs \in Nat

VARIABLES
  mu,              \* holder of s.mu: {}, {"store"} or an observer's goroutine
  nextObserverId,  \* s.nextObserverId
  idOf,            \* the id a call was given
  observers,       \* s.observers, None where an id is absent
  memberIds,       \* s.memberIds
  latest,          \* hraft's latest configuration
  appended,        \* configuration of the entry passed to StoreLogs last
  stored,          \* configuration of the entry written last
  raced,           \* history: memberIds were initialized from a configuration
                   \* other than the one passed to StoreLogs last
  failed,          \* history: the last write of a configuration entry failed
  configs,         \* number of configuration entries passed to StoreLogs
  raftPc,          \* hraft's main goroutine
  unsent,          \* changes StoreLogs has still to send
  initPc,          \* the goroutine that initializes an observer
  initTodo,        \* members it has still to tell
  watchPc,         \* the goroutine that waits for the context
  ctxDone,         \* contexts that are done
  buffered,        \* number of changes in a channel
  closed,          \* channels that are closed
  panicked,        \* a goroutine has sent on a closed channel
  view             \* history: the members that an observer was told

raftVars == <<latest, appended, stored, failed, configs, raftPc, unsent>>
callVars == <<nextObserverId, idOf, initPc, initTodo, watchPc, ctxDone>>
chanVars == <<buffered, closed, panicked, view>>
vars == <<mu, nextObserverId, idOf, observers, memberIds, latest, appended,
          stored, raced, failed, configs, raftPc, unsent, initPc, initTodo,
          watchPc, ctxDone, buffered, closed, panicked, view>>

Ids == 1..Cardinality(Observers)
NoObservers == \A i \in Ids : observers[i] = None
Registered(o) == \E i \in Ids : observers[i] = o

Init ==
  /\ mu = {}
  /\ nextObserverId = 0
  /\ idOf = [o \in Observers |-> 0]
  /\ observers = [i \in Ids |-> None]
  /\ memberIds = {}
  /\ latest = Bootstrap
  /\ appended = Bootstrap
  /\ stored = Bootstrap
  /\ raced = FALSE
  /\ failed = FALSE
  /\ configs = 0
  /\ raftPc = "idle"
  /\ unsent = {}
  /\ initPc = [o \in Observers |-> "idle"]
  /\ initTodo = [o \in Observers |-> {}]
  /\ watchPc = [o \in Observers |-> "idle"]
  /\ ctxDone = {}
  /\ buffered = [o \in Observers |-> 0]
  /\ closed = {}
  /\ panicked = FALSE
  /\ view = [o \in Observers |-> {}]

\* Mutant: a channel without a bound.
AlwaysRoom(o) == TRUE

HasRoom(o) == buffered[o] < Capacity

\* Sending a change: blocks while the channel is full, panics if it is closed.
Send(o, m, joined) ==
  IF o \in closed
  THEN /\ panicked' = TRUE
       /\ UNCHANGED <<buffered, view>>
  ELSE /\ HasRoom(o)
       /\ buffered' = [buffered EXCEPT ![o] = @ + 1]
       /\ view' = [view EXCEPT ![o] = IF joined THEN @ \cup {m} ELSE @ \ {m}]
       /\ UNCHANGED panicked

-----------------------------------------------------------------------------
(* ObserveMembershipChange and its goroutines.                             *)

\* AddMembershipChangeObserver: take an id, start the goroutines.  A call may
\* start before the goroutines of an earlier one have run.
Observe(o) ==
  /\ watchPc[o] = "idle"
  /\ mu = {}
  /\ nextObserverId' = nextObserverId + 1
  /\ idOf' = [idOf EXCEPT ![o] = nextObserverId + 1]
  /\ initPc' = [initPc EXCEPT ![o] = "want"]
  /\ watchPc' = [watchPc EXCEPT ![o] = "wait"]
  /\ UNCHANGED <<mu, observers, memberIds, raced, initTodo, ctxDone, raftVars,
                 chanVars>>

\* Mutant: late observers are told hraft's configuration, too.
LatestMembers == latest

\* What a late observer is told.
CurrentMembers == memberIds

\* sendMembershipChangesForObserver: the first observer is told the members
\* of hraft's configuration, which become the current members; a late one is
\* told the current members.  (GetConfiguration of hraft returns no error.)
InitLock(o) ==
  /\ initPc[o] = "want"
  /\ mu = {}
  /\ mu' = {o}
  /\ initPc' = [initPc EXCEPT ![o] = "send"]
  /\ IF NoObservers
     THEN /\ initTodo' = [initTodo EXCEPT ![o] = latest \ memberIds]
          /\ memberIds' = memberIds \cup latest
          /\ raced' = (latest # appended)
     ELSE /\ initTodo' = [initTodo EXCEPT ![o] = CurrentMembers]
          /\ UNCHANGED <<memberIds, raced>>
  /\ UNCHANGED <<observers, nextObserverId, idOf, watchPc, ctxDone, raftVars,
                 chanVars>>

InitSend(o, m) ==
  /\ initPc[o] = "send"
  /\ m \in initTodo[o]
  /\ Send(o, m, TRUE)
  /\ initTodo' = [initTodo EXCEPT ![o] = @ \ {m}]
  /\ UNCHANGED <<mu, observers, memberIds, raced, nextObserverId, idOf, initPc,
                 watchPc, ctxDone, closed, raftVars>>

\* The observer is registered at last, under the id given out last.
InitRegister(o) ==
  /\ initPc[o] = "send"
  /\ initTodo[o] = {}
  /\ observers' = [observers EXCEPT ![nextObserverId] = o]
  /\ initPc' = [initPc EXCEPT ![o] = "done"]
  /\ mu' = {}
  /\ UNCHANGED <<memberIds, raced, nextObserverId, idOf, initTodo, watchPc,
                 ctxDone, raftVars, chanVars>>

\* The context is canceled or times out, at any time.
Cancel(o) ==
  /\ o \notin ctxDone
  /\ ctxDone' = ctxDone \cup {o}
  /\ UNCHANGED <<mu, observers, memberIds, raced, nextObserverId, idOf, initPc,
                 initTodo, watchPc, raftVars, chanVars>>

\* The id that the goroutine deregisters.
OwnId(o) == idOf[o]

\* RemoveMembershipChangeObserver: with the last observer the members go.
WatchRemove(o) ==
  /\ watchPc[o] = "wait"
  /\ o \in ctxDone
  /\ mu = {}
  /\ observers' = [observers EXCEPT ![OwnId(o)] = None]
  /\ memberIds' = IF \A i \in Ids : observers'[i] = None THEN {} ELSE memberIds
  /\ watchPc' = [watchPc EXCEPT ![o] = "close"]
  /\ UNCHANGED <<mu, raced, nextObserverId, idOf, initPc, initTodo, ctxDone,
                 raftVars, chanVars>>

WatchClose(o) ==
  /\ watchPc[o] = "close"
  /\ closed' = closed \cup {o}
  /\ watchPc' = [watchPc EXCEPT ![o] = "closed"]
  /\ UNCHANGED <<mu, observers, memberIds, raced, nextObserverId, idOf, initPc,
                 initTodo, ctxDone, raftVars, buffered, panicked, view>>

\* The reader takes a change from its channel.
Receive(o) ==
  /\ buffered[o] > 0
  /\ buffered' = [buffered EXCEPT ![o] = @ - 1]
  /\ UNCHANGED <<mu, observers, memberIds, raced, callVars, raftVars, closed,
                 panicked, view>>

-----------------------------------------------------------------------------
(* hraft's main goroutine storing a configuration entry.                   *)

\* Mutant: members that left stay.
Joined(servers) == memberIds \cup servers

\* The current members once sendMembershipChangesForServers is through.
Replaced(servers) == servers

\* StoreLogs first calls sendMembershipChangesForServers.  Of the order in which an observer is
\* told leaves and joins nothing depends, as each concerns another member.
StoreConfiguration(servers) ==
  /\ raftPc = "idle"
  /\ configs < MaxConfigs
  /\ mu = {}
  /\ configs' = configs + 1
  /\ appended' = servers
  /\ IF NoObservers
     THEN /\ raftPc' = "write"
          /\ UNCHANGED <<mu, memberIds, raced, unsent>>
     ELSE /\ raftPc' = "sending"
          /\ mu' = {"store"}
          /\ raced' = FALSE
          /\ memberIds' = Replaced(servers)
          /\ unsent' = {change \in Members \X Ids :
               /\ observers[change[2]] # None
               /\ change[1] \in (memberIds \ Replaced(servers))
                                  \cup (Replaced(servers) \ memberIds)}
  /\ UNCHANGED <<latest, stored, failed, observers, callVars, chanVars>>

StoreSend(m, i) ==
  /\ raftPc = "sending"
  /\ <<m, i>> \in unsent
  /\ Send(observers[i], m, m \in memberIds)
  /\ unsent' = unsent \ {<<m, i>>}
  /\ UNCHANGED <<mu, observers, memberIds, raced, latest, appended, stored,
                 failed, configs, raftPc, callVars, closed>>

StoreUnlock ==
  /\ raftPc = "sending"
  /\ unsent = {}
  /\ mu' = {}
  /\ raftPc' = "write"
  /\ UNCHANGED <<observers, memberIds, raced, latest, appended, stored, failed,
                 configs, unsent, callVars, chanVars>>

\* The entry is written.
WriteEntry ==
  /\ raftPc = "write"
  /\ stored' = appended
  /\ failed' = FALSE
  /\ raftPc' = "stored"
  /\ UNCHANGED <<mu, observers, memberIds, raced, latest, appended, configs,
                 unsent, callVars, chanVars>>

\* It cannot be encoded or SetB fails: StoreLogs returns the error.  The
\* observers have been told all the same.  hraft makes the configuration its
\* latest one on the leader and does not on a follower.
WriteFails ==
  /\ raftPc = "write"
  /\ failed' = TRUE
  /\ latest' \in {latest, appended}
  /\ raftPc' = "idle"
  /\ UNCHANGED <<mu, observers, memberIds, raced, appended, stored, configs,
                 unsent, callVars, chanVars>>

\* After StoreLogs hraft makes the configuration its latest one.
SetLatest ==
  /\ raftPc = "stored"
  /\ latest' = appended
  /\ raftPc' = "idle"
  /\ UNCHANGED <<mu, observers, memberIds, raced, appended, stored, failed,
                 configs, unsent, callVars, chanVars>>

Step ==
  \/ \E o \in Observers :
       \/ Observe(o) \/ InitLock(o) \/ InitRegister(o) \/ Cancel(o)
       \/ WatchRemove(o) \/ WatchClose(o) \/ Receive(o)
       \/ \E m \in Members : InitSend(o, m)
  \/ \E servers \in SUBSET Members \ {{}} : StoreConfiguration(servers)
  \/ \E m \in Members, i \in Ids : StoreSend(m, i)
  \/ StoreUnlock
  \/ WriteEntry
  \/ WriteFails
  \/ SetLatest

\* A panic in one goroutine ends the process.
Next == ~panicked /\ Step

Spec == Init /\ [][Next]_vars

-----------------------------------------------------------------------------
(* Properties.                                                             *)

\* Every variable has its type and no channel exceeds its capacity.
TypeOK ==
  /\ mu \subseteq Observers \cup {"store"}
  /\ nextObserverId \in 0..Cardinality(Observers)
  /\ idOf \in [Observers -> 0..Cardinality(Observers)]
  /\ observers \in [Ids -> Observers \cup {None}]
  /\ memberIds \subseteq Members
  /\ latest \subseteq Members
  /\ appended \subseteq Members
  /\ stored \subseteq Members
  /\ raced \in BOOLEAN
  /\ failed \in BOOLEAN
  /\ configs \in 0..MaxConfigs
  /\ raftPc \in {"idle", "sending", "write", "stored"}
  /\ unsent \subseteq Members \X Ids
  /\ initPc \in [Observers -> {"idle", "want", "send", "done"}]
  /\ initTodo \in [Observers -> SUBSET Members]
  /\ watchPc \in [Observers -> {"idle", "wait", "close", "closed"}]
  /\ ctxDone \subseteq Observers
  /\ buffered \in [Observers -> 0..Capacity]
  /\ closed \subseteq Observers
  /\ panicked \in BOOLEAN
  /\ view \in [Observers -> SUBSET Members]

\* All registered observers have been told the same members, the current
\* ones, whenever they registered and whenever contexts are done
\* (store.go:316-347 against 349-376).
RegisteredAgree ==
  mu = {} => \A o \in Observers : Registered(o) => view[o] = memberIds

\* The current members are those of the configuration entry passed to
\* StoreLogs last, which is the one in the log once its write has ended well.
\* There are two exceptions, each until the next configuration entry: the
\* first observer was initialized while hraft's latest configuration was not
\* that entry's (raced), or the write failed after the observers were told
\* (failed) (store.go:231-248, 320-335, 353-357).
FollowsLog ==
  mu = {} /\ ~NoObservers /\ ~raced =>
    /\ memberIds = appended
    /\ raftPc # "write" /\ ~failed => memberIds = stored

\* Between two configuration entries the current members are those of hraft's
\* latest configuration.  They are not: if the first observer is initialized
\* between the announcement of an entry and SetLatest, it is told the
\* configuration before, and never the change (store.go:320-335, 353-357).
MembersCurrent ==
  mu = {} /\ ~NoObservers /\ raftPc = "idle" /\ ~failed =>
    memberIds = latest

\* An initialized observer stays registered until its own context is done:
\* it is told every later change.  It does not if two calls overlap, as each
\* is registered under the id given out last (store.go:346).
InitializedRegistered ==
  \A o \in Observers :
    initPc[o] = "done" /\ watchPc[o] = "wait" => Registered(o)

\* Nothing is sent on a closed channel.  It is if the context is done before
\* the observer is registered (store.go:338-346, raft.go:335-339).
NoPanic == ~panicked
=============================================================================
