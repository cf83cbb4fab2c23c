------------------------------- MODULE Router -------------------------------
(***************************************************************************)
(* The message router of a communication binding                           *)
(* (src/services/com/api/router.go): Add registers a route channel for a   *)
(* topic, subscribing on the binding when the topic is new; dispatch sends *)
(* an incoming message to the channels of its topic; remove, started by    *)
(* context.AfterFunc once the context of a channel is done, takes the      *)
(* channel out, unsubscribes with the last one and closes it.  All three   *)
(* run on goroutines of their own and meet at one RWMutex.                 *)
(*                                                                         *)
(* One element of Subs is one call of Add together with the route channel  *)
(* it creates, the context it was given and the goroutine AfterFunc starts *)
(* for it.  The route channels of a topic are kept as a set: the order of  *)
(* the slice decides only in which order dispatch visits them, and here    *)
(* dispatch visits them in any order.                                      *)
(***************************************************************************)
EXTENDS Naturals, FiniteSets, Sequences, RWMutex

CONSTANTS
  Subs,         \* calls of Add
  Topics,       \* topics of the binding
  Cids,         \* correlation ids of response routes
  NoCid,        \* the zero correlation id, of request and event routes
  TopicOf,      \* filter.Topic of each call of Add
  CidOf,        \* filter.CorrelationId of each call of Add
  Dispatchers,  \* goroutines of the binding that call Dispatch
  BufferSize,   \* capacity of a receive channel (receiveBufferSize)
  MaxMessages   \* bound: messages that arrive from the network

ASSUME RouteAssumption ==
  /\ TopicOf \in [Subs -> Topics]
  /\ CidOf \in [Subs -> Cids \cup {NoCid}]
  /\ NoCid \notin Cids
  /\ Topics # {}

ASSUME BoundAssumption ==
  /\ BufferSize \in Nat \ {0}
  /\ MaxMessages \in Nat
  /\ Subs \cap Dispatchers = {}
  /\ IsFiniteSet(Dispatchers)

VARIABLES
  lock,        \* r.mu
  topics,      \* keys of the map r.routes
  routes,      \* values of the map r.routes, {} where the key is absent
  pc,          \* where the goroutines of a call of Add are
  ctxDone,     \* contexts that are canceled or timed out
  chan,        \* contents of the receive channels
  closed,      \* receive channels that are closed
  brokerSubs,  \* topics the broker delivers to this client
  unacked,     \* history: topics whose unsubscribe failed for the router
               \* although the broker processed it
  arrived,     \* number of messages the network has delivered
  dpc,         \* where a dispatcher is
  dmsg,        \* the message a dispatcher has been handed
  todo,        \* route channels the dispatch loop has not visited yet
  target,      \* the route channel the dispatch loop is sending on, if any
  sent,        \* history: ids of the messages sent on each receive channel
  late         \* history: how many of them after the context was done

regVars == <<topics, routes, closed, brokerSubs, unacked>>
dispatchVars == <<arrived, dpc, dmsg, todo, target, sent, late>>
vars == <<lock, topics, routes, pc, ctxDone, chan, closed, brokerSubs,
          unacked, arrived, dpc, dmsg, todo, target, sent, late>>

Messages == [id : 0..MaxMessages, topic : Topics, cid : Cids \cup {NoCid},
             due : SUBSET Subs]

NoMessage == [id |-> 0, topic |-> CHOOSE t \in Topics : TRUE, cid |-> NoCid,
              due |-> {}]

\* NewRouter, before any goroutine uses it.
Init ==
  /\ lock = Free
  /\ topics = {}
  /\ routes = [t \in Topics |-> {}]
  /\ pc = [s \in Subs |-> "idle"]
  /\ ctxDone = {}
  /\ chan = [s \in Subs |-> <<>>]
  /\ closed = {}
  /\ brokerSubs = {}
  /\ unacked = {}
  /\ arrived = 0
  /\ dpc = [d \in Dispatchers |-> "idle"]
  /\ dmsg = [d \in Dispatchers |-> NoMessage]
  /\ todo = [d \in Dispatchers |-> {}]
  /\ target = [d \in Dispatchers |-> {}]
  /\ sent = [s \in Subs |-> {}]
  /\ late = [s \in Subs |-> 0]

-----------------------------------------------------------------------------
(* Writers: the goroutine calling Add, and the one AfterFunc starts.       *)

Goto(s, l) == pc' = [pc EXCEPT ![s] = l]

\* A caller enters Add.
Add(s) ==
  /\ pc[s] = "idle"
  /\ Goto(s, "addWant")
  /\ UNCHANGED <<lock, ctxDone, chan, regVars, dispatchVars>>

\* A context is canceled or times out, at any time.
Cancel(s) ==
  /\ s \notin ctxDone
  /\ ctxDone' = ctxDone \cup {s}
  /\ UNCHANGED <<lock, pc, chan, regVars, dispatchVars>>

\* The AfterFunc registered by a successful Add starts its goroutine.
AfterFunc(s) ==
  /\ pc[s] = "routed"
  /\ s \in ctxDone
  /\ Goto(s, "rmWant")
  /\ UNCHANGED <<lock, ctxDone, chan, regVars, dispatchVars>>

\* r.mu.Lock() in Add and in remove: wait for the other writers ...
AnnounceLock(s) ==
  /\ pc[s] \in {"addWant", "rmWant"}
  /\ CanAnnounce(lock)
  /\ lock' = Announce(lock, s)
  /\ UNCHANGED <<pc, ctxDone, chan, regVars, dispatchVars>>

\* ... then for the readers.  Add goes on with the subscription unless the
\* topic is already a key of the map.
AcquireLock(s) ==
  /\ CanLock(lock, s)
  /\ lock' = Lock(lock, s)
  /\ Goto(s, IF pc[s] = "rmWant" THEN "removing"
             ELSE IF TopicOf[s] \in topics THEN "publishing"
             ELSE "subscribing")
  /\ UNCHANGED <<ctxDone, chan, regVars, dispatchVars>>

\* Mutant: an error path of Add that forgets the lock.
FailLocked(s) ==
  /\ Goto(s, "failed")
  /\ UNCHANGED lock

\* Add returns an error, releasing the lock.
Fail(s) ==
  /\ Goto(s, "failed")
  /\ lock' = Unlock(lock)

\* subscribe() is acknowledged.
SubscribeOk(s) ==
  /\ pc[s] = "subscribing"
  /\ brokerSubs' = brokerSubs \cup {TopicOf[s]}
  /\ unacked' = unacked \ {TopicOf[s]}
  /\ Goto(s, "publishing")
  /\ UNCHANGED <<lock, ctxDone, chan, topics, routes, closed, dispatchVars>>

\* subscribe() fails, before or after the broker processed it.
SubscribeErr(s) ==
  /\ pc[s] = "subscribing"
  /\ brokerSubs' \in {brokerSubs, brokerSubs \cup {TopicOf[s]}}
  /\ Fail(s)
  /\ UNCHANGED <<ctxDone, chan, topics, routes, closed, unacked, dispatchVars>>

\* publish() succeeds; for request and event routes it is a no-op.
PublishOk(s) ==
  /\ pc[s] = "publishing"
  /\ Goto(s, "published")
  /\ UNCHANGED <<lock, ctxDone, chan, regVars, dispatchVars>>

\* publish() fails on a topic that was set up before.
PublishErr(s) ==
  /\ pc[s] = "publishing"
  /\ CidOf[s] # NoCid
  /\ TopicOf[s] \in topics
  /\ Fail(s)
  /\ UNCHANGED <<ctxDone, chan, regVars, dispatchVars>>

\* What the broker and the caller see of an unsubscribe() that is
\* acknowledged (ok) or fails, before or after the broker processed it.
Unsubscribe(s, ok) ==
  \/ /\ brokerSubs' = brokerSubs \ {TopicOf[s]}
     /\ unacked' = IF ok THEN unacked ELSE unacked \cup {TopicOf[s]}
  \/ ~ok /\ UNCHANGED <<brokerSubs, unacked>>

\* publish() fails on a topic that Add itself subscribed: it tries to undo
\* the subscription, ignores the outcome and returns the error.
PublishErrUndo(s) ==
  /\ pc[s] = "publishing"
  /\ CidOf[s] # NoCid
  /\ TopicOf[s] \notin topics
  /\ \E ok \in BOOLEAN : Unsubscribe(s, ok)
  /\ Fail(s)
  /\ UNCHANGED <<ctxDone, chan, topics, routes, closed, dispatchVars>>

\* Add enters the channel in the map, arms AfterFunc and returns.
Register(s) ==
  /\ pc[s] = "published"
  /\ topics' = topics \cup {TopicOf[s]}
  /\ routes' = [routes EXCEPT ![TopicOf[s]] = @ \cup {s}]
  /\ Goto(s, "routed")
  /\ lock' = Unlock(lock)
  /\ UNCHANGED <<ctxDone, chan, closed, brokerSubs, unacked, dispatchVars>>

\* remove takes the channel out of the map; what becomes of the topic is up
\* to the caller.  The deferred close runs before the deferred unlock.
TakeOut(s) ==
  /\ pc[s] = "removing"
  /\ routes' = [routes EXCEPT ![TopicOf[s]] = @ \ {s}]
  /\ closed' = closed \cup {s}
  /\ Goto(s, "removed")
  /\ lock' = Unlock(lock)
  /\ UNCHANGED <<ctxDone, chan, dispatchVars>>

\* Mutant: remove unsubscribes although other channels remain.
RemoveOneOfManyUnsubscribing(s) ==
  /\ routes[TopicOf[s]] # {s}
  /\ TakeOut(s)
  /\ Unsubscribe(s, TRUE)
  /\ UNCHANGED topics

\* remove, other channels are registered for the topic.
RemoveOneOfMany(s) ==
  /\ routes[TopicOf[s]] # {s}
  /\ TakeOut(s)
  /\ UNCHANGED <<topics, brokerSubs, unacked>>

\* remove, the last channel of the topic: unsubscribe with success ...
RemoveLast(s) ==
  /\ routes[TopicOf[s]] = {s}
  /\ TakeOut(s)
  /\ Unsubscribe(s, TRUE)
  /\ topics' = topics \ {TopicOf[s]}

\* ... or with an error, on which the topic is kept without a channel.
RemoveLastErr(s) ==
  /\ routes[TopicOf[s]] = {s}
  /\ TakeOut(s)
  /\ Unsubscribe(s, FALSE)
  /\ UNCHANGED topics

\* The subscriber takes a message from its receive channel.
Receive(s) ==
  /\ chan[s] # <<>>
  /\ chan' = [chan EXCEPT ![s] = Tail(@)]
  /\ UNCHANGED <<lock, pc, ctxDone, regVars, dispatchVars>>

-----------------------------------------------------------------------------
(* Readers: the binding's goroutines that call dispatch.                   *)

Matching(t, c) == {s \in Subs : TopicOf[s] = t /\ CidOf[s] = c}

\* The broker delivers a message on a subscribed topic and the binding calls
\* Dispatch.  The field due records for whom the message is: everyone with a
\* live context whose channel is registered, or who has transmitted the
\* request that this message responds to.
Arrive(d, t, c) ==
  /\ dpc[d] = "idle"
  /\ arrived < MaxMessages
  /\ t \in brokerSubs
  /\ arrived' = arrived + 1
  /\ dmsg' = [dmsg EXCEPT ![d] =
       [id |-> arrived + 1, topic |-> t, cid |-> c,
        due |-> {s \in Matching(t, c) :
                   pc[s] \in {"published", "routed"} /\ s \notin ctxDone}]]
  /\ dpc' = [dpc EXCEPT ![d] = "want"]
  /\ UNCHANGED <<lock, pc, ctxDone, chan, regVars, todo, target, sent, late>>

\* Mutant: dispatch reads the map without the lock.
EnterUnlocked(d) == UNCHANGED lock

\* r.mu.RLock()
EnterRead(d) ==
  /\ CanRLock(lock)
  /\ lock' = RLock(lock, d)

\* Dispatch looks up, under the lock, the channels that match the filter: all
\* with the message's correlation id, the zero one included.
DispatchLock(d) ==
  /\ dpc[d] = "want"
  /\ EnterRead(d)
  /\ todo' = [todo EXCEPT ![d] =
       routes[dmsg[d].topic] \cap Matching(dmsg[d].topic, dmsg[d].cid)]
  /\ dpc' = [dpc EXCEPT ![d] = "loop"]
  /\ UNCHANGED <<pc, ctxDone, chan, regVars, arrived, dmsg, target, sent, late>>

\* Mutant: the return for a done context leaves the whole loop.
DispatchReturn(d, s) ==
  /\ dpc[d] = "loop"
  /\ s \in todo[d] \cap ctxDone
  /\ todo' = [todo EXCEPT ![d] = {}]
  /\ UNCHANGED <<lock, pc, ctxDone, chan, regVars, arrived, dpc, dmsg, target,
                 sent, late>>

\* First select of the inner dispatch: skip a channel whose context is done.
DispatchSkip(d, s) ==
  /\ dpc[d] = "loop"
  /\ s \in todo[d] \cap ctxDone
  /\ todo' = [todo EXCEPT ![d] = @ \ {s}]
  /\ UNCHANGED <<lock, pc, ctxDone, chan, regVars, arrived, dpc, dmsg, target,
                 sent, late>>

\* Mutant: no first select.
Selectable(d) == todo[d]

\* The channels that pass the first select.
Open(d) == todo[d] \ ctxDone

\* The default of the first select: go on to the second one.
DispatchPick(d, s) ==
  /\ dpc[d] = "loop"
  /\ s \in Open(d)
  /\ todo' = [todo EXCEPT ![d] = @ \ {s}]
  /\ dpc' = [dpc EXCEPT ![d] = "send"]
  /\ target' = [target EXCEPT ![d] = {s}]
  /\ UNCHANGED <<lock, pc, ctxDone, chan, regVars, arrived, dmsg, sent, late>>

\* Back to the loop over the matching channels.
NextRoute(d) ==
  /\ dpc' = [dpc EXCEPT ![d] = "loop"]
  /\ target' = [target EXCEPT ![d] = {}]

\* Mutant: a send that does not wait for room.
AlwaysRoom(s) == TRUE

HasRoom(s) == Len(chan[s]) < BufferSize

\* Second select: the channel has room for the message ...
DispatchSend(d, s) ==
  /\ dpc[d] = "send"
  /\ s \in target[d]
  /\ HasRoom(s)
  /\ chan' = [chan EXCEPT ![s] = Append(@, dmsg[d].id)]
  /\ sent' = [sent EXCEPT ![s] = @ \cup {dmsg[d].id}]
  /\ late' = [late EXCEPT ![s] = @ + IF s \in ctxDone THEN 1 ELSE 0]
  /\ NextRoute(d)
  /\ UNCHANGED <<lock, pc, ctxDone, regVars, arrived, dmsg, todo>>

\* Mutant: a plain send instead of the second select.
DispatchNoAbort(d, s) == FALSE

\* ... or the context is done.
DispatchAbort(d, s) ==
  /\ dpc[d] = "send"
  /\ s \in target[d] \cap ctxDone
  /\ NextRoute(d)
  /\ UNCHANGED <<lock, pc, ctxDone, chan, regVars, arrived, dmsg, todo, sent,
                 late>>

\* The loop is over.
DispatchUnlock(d) ==
  /\ dpc[d] = "loop"
  /\ todo[d] = {}
  /\ lock' = RUnlock(lock, d)
  /\ dpc' = [dpc EXCEPT ![d] = "idle"]
  /\ UNCHANGED <<pc, ctxDone, chan, regVars, arrived, dmsg, todo, target, sent,
                 late>>

-----------------------------------------------------------------------------

\* The steps of the goroutines of one call of Add.
SubStep(s) ==
  \/ AfterFunc(s) \/ AnnounceLock(s) \/ AcquireLock(s)
  \/ SubscribeOk(s) \/ SubscribeErr(s)
  \/ PublishOk(s) \/ PublishErr(s) \/ PublishErrUndo(s) \/ Register(s)
  \/ RemoveOneOfMany(s) \/ RemoveLast(s) \/ RemoveLastErr(s)

\* The steps of a call of Dispatch.
DispatchStep(d) ==
  \/ DispatchLock(d)
  \/ \E s \in Subs : \/ DispatchSkip(d, s) \/ DispatchPick(d, s)
                     \/ DispatchSend(d, s) \/ DispatchAbort(d, s)
  \/ DispatchUnlock(d)

Next ==
  \/ \E s \in Subs : Add(s) \/ Cancel(s) \/ SubStep(s) \/ Receive(s)
  \/ \E d \in Dispatchers :
       \/ \E t \in Topics, c \in Cids \cup {NoCid} : Arrive(d, t, c)
       \/ DispatchStep(d)

Spec == Init /\ [][Next]_vars

\* Goroutines keep running and binding calls end (they time out).
GoroutineFairness ==
  /\ \A s \in Subs : WF_vars(SubStep(s))
  /\ \A d \in Dispatchers : WF_vars(DispatchStep(d))

\* A subscriber reads its channel for as long as it has not canceled.
ReaderFairness == \A s \in Subs : WF_vars(s \notin ctxDone /\ Receive(s))

FairSpec == Spec /\ GoroutineFairness /\ ReaderFairness

-----------------------------------------------------------------------------
(* Properties.                                                             *)

\* Every variable has its type, and no channel holds more than its buffer.
TypeOK ==
  /\ lock \in LockValues(Subs \cup Dispatchers)
  /\ topics \subseteq Topics
  /\ routes \in [Topics -> SUBSET Subs]
  /\ pc \in [Subs -> {"idle", "addWant", "subscribing", "publishing",
                      "published", "failed", "routed", "rmWant", "removing",
                      "removed"}]
  /\ ctxDone \subseteq Subs
  /\ chan \in [Subs -> Seq(0..MaxMessages)]
  /\ \A s \in Subs : Len(chan[s]) <= BufferSize
  /\ closed \subseteq Subs
  /\ brokerSubs \subseteq Topics
  /\ unacked \subseteq Topics
  /\ arrived \in 0..MaxMessages
  /\ dpc \in [Dispatchers -> {"idle", "want", "loop", "send"}]
  /\ dmsg \in [Dispatchers -> Messages]
  /\ todo \in [Dispatchers -> SUBSET Subs]
  /\ target \in [Dispatchers -> SUBSET Subs]
  /\ sent \in [Subs -> SUBSET (0..MaxMessages)]
  /\ late \in [Subs -> Nat]

\* dispatch never reaches the send of its second select with a channel that
\* remove has closed, which would panic (router.go:178-182 against 221).
NoSendOnClosed ==
  \A d \in Dispatchers : dpc[d] = "send" => target[d] \cap closed = {}

\* When a call of dispatch ends, everyone the message was for has it or has
\* a context that is done: neither a registration or removal in between nor
\* a canceled sibling loses it, and a response that overtakes the end of Add
\* reaches the publisher of the request (router.go:165-204).
NoLostMessage ==
  \A d \in Dispatchers :
    dpc[d] = "loop" /\ todo[d] = {} =>
      \A s \in dmsg[d].due : s \in ctxDone \/ dmsg[d].id \in sent[s]

\* A topic that has a route channel is subscribed at the broker: no order of
\* Add and remove takes the subscription away from a remaining channel
\* (router.go:120-142 against 223-233).  The one exception is a topic whose
\* unsubscribe was processed while its acknowledgement was lost: remove keeps
\* the topic, and a later Add takes it for subscribed.
RoutedSubscribed ==
  \A t \in Topics \ unacked : routes[t] # {} => t \in brokerSubs

\* Once a context is done, only dispatches that had passed the first select
\* may still send, each a single message (router.go:168-182).
NoFlowAfterCancel == \A s \in Subs : late[s] <= Cardinality(Dispatchers)

\* Canceling the context of a channel that Add returned closes it, even if
\* its owner stopped reading (router.go:125-127, 138-140 and 206-238).
CancelCloses ==
  \A s \in Subs : (pc[s] = "routed" /\ s \in ctxDone) ~> (s \in closed)

\* Every call of Add returns, whatever the dispatchers and the removals of
\* other channels do (router.go:107-109).
AddReturns ==
  \A s \in Subs :
    (pc[s] = "addWant") ~> (pc[s] \notin {"addWant", "subscribing",
                                          "publishing", "published"})
=============================================================================
