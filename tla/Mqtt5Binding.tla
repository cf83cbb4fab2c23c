---------------------------- MODULE Mqtt5Binding ----------------------------
(***************************************************************************)
(* The MQTT 5 communication binding (src/services/com/mqtt5/mqtt5.go): how *)
(* its API calls, its lifecycle, the removals that contexts trigger and    *)
(* the resubscription after a reconnect share the lock b.mu, the           *)
(* connection b.conn and the routers.                                      *)
(*                                                                         *)
(* The five routers are alike and appear as one; its operations (module    *)
(* Router) are steps under its lock rmu.  Open makes new routers, so they  *)
(* are numbered by the call of Open that made them; a route channel keeps  *)
(* the router it was added to.  A broker subscription is a pair of a share *)
(* name (NoShare if none) and a topic.                                     *)
(*                                                                         *)
(* One element of Subs is one call of SubscribeEvent, SubscribeAction,     *)
(* SubscribeQuery, PublishAction or PublishQuery with the route channel it *)
(* adds and the goroutine that removes it; one element of Pubs is one call *)
(* of PublishEvent, publishActionResult or publishQueryResult.  External   *)
(* are paho's connection and the broker: every connection starts with a    *)
(* clean session, and calls fail while the connection is down.             *)
(***************************************************************************)
EXTENDS Naturals, FiniteSets, RWMutex

CONSTANTS
  Subs, Pubs,
  Topics,
  Shares,
  NoShare,
  TopicOf,     \* pubTopic of each call
  ShareOf,     \* filter.Share of each call
  Requests,    \* the calls that publish: PublishAction and PublishQuery
  MaxCalls,    \* bound: calls of Open and Close
  MaxDrops     \* bound: connections lost

ASSUME BindingAssumption ==
  /\ TopicOf \in [Subs -> Topics]
  /\ ShareOf \in [Subs -> Shares \cup {NoShare}]
  /\ NoShare \notin Shares
  /\ Requests \subseteq Subs
  /\ Subs \cap Pubs = {}
  /\ MaxCalls \in Nat
  /\ MaxDrops \in Nat

VARIABLES
  bmu,         \* b.mu
  conn,        \* b.conn: number of the Open that set it, 0 for nil
  gen,         \* the routers in use: number of the last Open that made some
  up,          \* the broker connection is up
  brokerSubs,  \* subscriptions of the current broker session
  drops,       \* number of connections lost
  rmu,         \* who holds the lock of a router
  topics,      \* keys of a router's map
  routes,      \* route channels of a router, by topic
  pc,          \* where a call of Subs, or the removal after it, is
  rgen,        \* the router a call of Subs uses
  ppc,         \* where a call of Pubs is
  cpc,         \* the goroutine that calls Open and Close
  calls,       \* number of its calls
  upc,         \* the OnConnectionUp callback
  found,       \* topics it got from the router
  lost,        \* topics the binding takes for subscribed though the broker
               \* may have dropped them (see RoutedCovered)
  panicked     \* a method was called on a nil connection

linkVars == <<up, drops>>
routerVars == <<rmu, topics, routes>>
lifeVars == <<conn, gen, cpc, calls>>
resubVars == <<upc, found>>
vars == <<bmu, conn, gen, up, brokerSubs, drops, rmu, topics, routes, pc, rgen,
          ppc, cpc, calls, upc, found, lost, panicked>>

Gens == 1..MaxCalls

\* Holds on b.mu: a subscribing call locks in the API method and again in
\* subscribe; unsubscribe holds it as "inner", too.
Outer(s) == <<s, "outer">>
Inner(s) == <<s, "inner">>
Writer == <<"lifecycle", "outer">>
Holds == ((Subs \cup Pubs \cup {"resub"}) \X {"outer", "inner"}) \cup {Writer}

\* topicWithLevels: what a call subscribes to.
SubTopic(s) == <<ShareOf[s], TopicOf[s]>>

Init ==
  /\ bmu = Free
  /\ conn = 0
  /\ gen = 0
  /\ up = FALSE
  /\ brokerSubs = {}
  /\ drops = 0
  /\ rmu = [g \in Gens |-> {}]
  /\ topics = [g \in Gens |-> {}]
  /\ routes = [g \in Gens |-> [t \in Topics |-> {}]]
  /\ pc = [s \in Subs |-> "idle"]
  /\ rgen = [s \in Subs |-> 0]
  /\ ppc = [p \in Pubs |-> "idle"]
  /\ cpc = "idle"
  /\ calls = 0
  /\ upc = "idle"
  /\ found = {}
  /\ lost = {}
  /\ panicked = FALSE

Goto(s, l) == pc' = [pc EXCEPT ![s] = l]

\* r.mu of the router that s uses.
RouterFree(s) == rmu[rgen[s]] = {}
LockRouter(s) == rmu' = [rmu EXCEPT ![rgen[s]] = {s}]
UnlockRouter(s) == rmu' = [rmu EXCEPT ![rgen[s]] = {}]

-----------------------------------------------------------------------------
(* The lifecycle: Open and Close.                                          *)

\* A call of Open or Close reaches b.mu.Lock().
CallLifecycle(op) ==
  /\ cpc = "idle"
  /\ calls < MaxCalls
  /\ CanAnnounce(bmu)
  /\ bmu' = Announce(bmu, Writer)
  /\ calls' = calls + 1
  /\ cpc' = op
  /\ UNCHANGED <<conn, gen, linkVars, brokerSubs, routerVars, pc, rgen, ppc,
                 resubVars, lost, panicked>>

\* The lock is granted; Open and Close do their work under it.
LockLifecycle(op, locked) ==
  /\ cpc = op
  /\ CanLock(bmu, Writer)
  /\ bmu' = Lock(bmu, Writer)
  /\ cpc' = locked
  /\ UNCHANGED <<conn, gen, calls, linkVars, brokerSubs, routerVars, pc, rgen,
                 ppc, resubVars, lost, panicked>>

\* Mutant: Open makes new routers before it looks at b.conn.
OpenAgainNewRouters ==
  /\ cpc = "opening"
  /\ conn # 0
  /\ gen' = calls
  /\ bmu' = Unlock(bmu)
  /\ cpc' = "idle"
  /\ UNCHANGED <<conn, calls, linkVars, brokerSubs, routerVars, pc, rgen, ppc,
                 resubVars, lost, panicked>>

\* Open of an open binding changes nothing.
OpenAgain ==
  /\ cpc = "opening"
  /\ conn # 0
  /\ bmu' = Unlock(bmu)
  /\ cpc' = "idle"
  /\ UNCHANGED <<conn, gen, calls, linkVars, brokerSubs, routerVars, pc, rgen,
                 ppc, resubVars, lost, panicked>>

\* Open makes new routers and connects, or fails to connect in time.
Open(ok) ==
  /\ cpc = "opening"
  /\ conn = 0
  /\ gen' = calls
  /\ conn' = IF ok THEN calls ELSE 0
  /\ up' = ok
  /\ brokerSubs' = {}
  /\ lost' = {}
  /\ bmu' = Unlock(bmu)
  /\ cpc' = "idle"
  /\ UNCHANGED <<calls, drops, routerVars, pc, rgen, ppc, resubVars, panicked>>

\* Close disconnects; the routers stay.  Without a connection it returns.
Close ==
  /\ cpc = "closing"
  /\ conn' = 0
  /\ up' = FALSE
  /\ brokerSubs' = {}
  /\ bmu' = Unlock(bmu)
  /\ cpc' = "idle"
  /\ UNCHANGED <<gen, calls, drops, routerVars, pc, rgen, ppc, resubVars, lost,
                 panicked>>

-----------------------------------------------------------------------------
(* Calls that add a route channel.                                         *)

Call(s) ==
  /\ pc[s] = "idle"
  /\ Goto(s, "want")
  /\ UNCHANGED <<bmu, lifeVars, linkVars, brokerSubs, routerVars, rgen, ppc,
                 resubVars, lost, panicked>>

\* Mutant: the API method reads b.conn without locking b.mu.
HoldNot(h) == UNCHANGED bmu

\* b.mu.RLock() of an API method.
HoldRead(h) ==
  /\ CanRLock(bmu)
  /\ bmu' = RLock(bmu, h)

\* Under b.mu the method finds a connection and calls Add of the router ...
OuterLock(s) ==
  /\ pc[s] = "want"
  /\ conn # 0
  /\ HoldRead(Outer(s))
  /\ rgen' = [rgen EXCEPT ![s] = gen]
  /\ Goto(s, "add")
  /\ UNCHANGED <<lifeVars, linkVars, brokerSubs, routerVars, ppc, resubVars,
                 lost, panicked>>

\* ... or returns that the binding is not open.
NotOpen(s) ==
  /\ pc[s] = "want"
  /\ conn = 0
  /\ CanRLock(bmu)
  /\ Goto(s, "failed")
  /\ UNCHANGED <<bmu, lifeVars, linkVars, brokerSubs, routerVars, rgen, ppc,
                 resubVars, lost, panicked>>

\* Add locks the router and subscribes unless the topic is set up already.
AddLock(s) ==
  /\ pc[s] = "add"
  /\ RouterFree(s)
  /\ LockRouter(s)
  /\ Goto(s, IF TopicOf[s] \in topics[rgen[s]] THEN "publishing" ELSE "inner")
  /\ UNCHANGED <<bmu, lifeVars, linkVars, brokerSubs, topics, routes, rgen, ppc,
                 resubVars, lost, panicked>>

\* subscribe read-locks b.mu a second time.
InnerLock(s) ==
  /\ pc[s] = "inner"
  /\ HoldRead(Inner(s))
  /\ Goto(s, "subscribing")
  /\ UNCHANGED <<lifeVars, linkVars, brokerSubs, routerVars, rgen, ppc,
                 resubVars, lost, panicked>>

\* The broker acknowledges; subscribe returns to Add.
SubscribeOk(s) ==
  /\ pc[s] = "subscribing"
  /\ conn # 0
  /\ up
  /\ brokerSubs' = brokerSubs \cup {SubTopic(s)}
  /\ lost' = lost \ {TopicOf[s]}
  /\ bmu' = RUnlock(bmu, Inner(s))
  /\ Goto(s, "publishing")
  /\ UNCHANGED <<lifeVars, linkVars, routerVars, rgen, ppc, resubVars, panicked>>

\* Add and the API method return an error.
FailAdd(s) ==
  /\ UnlockRouter(s)
  /\ bmu' = RUnlock(RUnlock(bmu, Inner(s)), Outer(s))
  /\ Goto(s, "failed")
  /\ UNCHANGED <<lifeVars, linkVars, topics, routes, rgen, ppc, resubVars, lost,
                 panicked>>

\* subscribe fails: no connection, or no acknowledgement in time, although
\* the broker may have processed the request.
SubscribeErr(s) ==
  /\ pc[s] = "subscribing"
  /\ brokerSubs' \in {brokerSubs}
       \cup (IF up THEN {brokerSubs \cup {SubTopic(s)}} ELSE {})
  /\ FailAdd(s)

\* publish of a request fails; a subscription made for it is undone, with
\* or without success.
PublishErr(s) ==
  /\ pc[s] = "publishing"
  /\ s \in Requests
  /\ brokerSubs' \in {brokerSubs}
       \cup (IF TopicOf[s] \in topics[rgen[s]] THEN {}
             ELSE {brokerSubs \ {SubTopic(s)}})
  /\ FailAdd(s)

\* Add enters the channel in the map; the API method returns it.
Register(s) ==
  /\ pc[s] = "publishing"
  /\ topics' = [topics EXCEPT ![rgen[s]] = @ \cup {TopicOf[s]}]
  /\ routes' = [routes EXCEPT ![rgen[s]][TopicOf[s]] = @ \cup {s}]
  /\ UnlockRouter(s)
  /\ bmu' = RUnlock(bmu, Outer(s))
  /\ Goto(s, "routed")
  /\ UNCHANGED <<lifeVars, linkVars, brokerSubs, rgen, ppc, resubVars, lost,
                 panicked>>

-----------------------------------------------------------------------------
(* The removal of a route channel, on a goroutine of its own.              *)

\* The context is cancelled: AfterFunc starts remove.
Cancel(s) ==
  /\ pc[s] = "routed"
  /\ Goto(s, "remove")
  /\ UNCHANGED <<bmu, lifeVars, linkVars, brokerSubs, routerVars, rgen, ppc,
                 resubVars, lost, panicked>>

\* remove ends: the channel is gone, the topic too if dropTopic.
TakeOut(s, dropTopic) ==
  /\ routes' = [routes EXCEPT ![rgen[s]][TopicOf[s]] = @ \ {s}]
  /\ topics' = [topics EXCEPT ![rgen[s]] =
                  IF dropTopic THEN @ \ {TopicOf[s]} ELSE @]
  /\ UnlockRouter(s)
  /\ Goto(s, "removed")

\* Other channels share the topic: nothing to unsubscribe.
RemoveOneOfMany(s) ==
  /\ pc[s] = "remove"
  /\ RouterFree(s)
  /\ routes[rgen[s]][TopicOf[s]] # {s}
  /\ TakeOut(s, FALSE)
  /\ UNCHANGED <<bmu, lifeVars, linkVars, brokerSubs, rgen, ppc, resubVars,
                 lost, panicked>>

\* The last channel of the topic: remove calls unsubscribe.
RemoveLast(s) ==
  /\ pc[s] = "remove"
  /\ RouterFree(s)
  /\ routes[rgen[s]][TopicOf[s]] = {s}
  /\ LockRouter(s)
  /\ Goto(s, "try")
  /\ UNCHANGED <<bmu, lifeVars, linkVars, brokerSubs, topics, routes, rgen, ppc,
                 resubVars, lost, panicked>>

\* TryRLock: on failure unsubscribe goes on without the lock.
TryRLock(s) ==
  /\ pc[s] = "try"
  /\ bmu' = IF CanRLock(bmu) THEN RLock(bmu, Inner(s)) ELSE bmu
  /\ Goto(s, "check")
  /\ UNCHANGED <<lifeVars, linkVars, brokerSubs, routerVars, rgen, ppc,
                 resubVars, lost, panicked>>

\* unsubscribe returns without touching the broker: the binding is closed.
UnsubscribeNotOpen(s) ==
  /\ pc[s] = "check"
  /\ conn = 0
  /\ TakeOut(s, FALSE)
  /\ bmu' = RUnlock(bmu, Inner(s))
  /\ UNCHANGED <<lifeVars, linkVars, brokerSubs, rgen, ppc, resubVars, lost,
                 panicked>>

\* unsubscribe has seen a connection and is about to use b.conn.
UnsubscribeCheck(s) ==
  /\ pc[s] = "check"
  /\ conn # 0
  /\ Goto(s, "unsubscribing")
  /\ UNCHANGED <<bmu, lifeVars, linkVars, brokerSubs, routerVars, rgen, ppc,
                 resubVars, lost, panicked>>

\* b.conn is nil by now: the process panics.  (The model lets the other
\* goroutines go on; panicked tells these behaviours apart.)
UnsubscribeNil(s) ==
  /\ pc[s] = "unsubscribing"
  /\ conn = 0
  /\ panicked' = TRUE
  /\ Goto(s, "crashed")
  /\ UNCHANGED <<bmu, lifeVars, linkVars, brokerSubs, routerVars, rgen, ppc,
                 resubVars, lost>>

\* The broker acknowledges.  The connection may be a newer one than that of
\* the router the channel was added to.
UnsubscribeOk(s) ==
  /\ pc[s] = "unsubscribing"
  /\ conn # 0
  /\ up
  /\ brokerSubs' = brokerSubs \ {SubTopic(s)}
  /\ lost' = IF rgen[s] = gen THEN lost ELSE lost \cup {TopicOf[s]}
  /\ TakeOut(s, TRUE)
  /\ bmu' = RUnlock(bmu, Inner(s))
  /\ UNCHANGED <<lifeVars, linkVars, rgen, ppc, resubVars, panicked>>

\* No acknowledgement, although the broker may have processed the request.
UnsubscribeErr(s) ==
  /\ pc[s] = "unsubscribing"
  /\ conn # 0
  /\ \/ UNCHANGED <<brokerSubs, lost>>
     \/ /\ up
        /\ brokerSubs' = brokerSubs \ {SubTopic(s)}
        /\ lost' = lost \cup {TopicOf[s]}
  /\ TakeOut(s, FALSE)
  /\ bmu' = RUnlock(bmu, Inner(s))
  /\ UNCHANGED <<lifeVars, linkVars, rgen, ppc, resubVars, panicked>>

-----------------------------------------------------------------------------
(* Calls that publish only.                                                *)

CallPublish(p) ==
  /\ ppc[p] = "idle"
  /\ ppc' = [ppc EXCEPT ![p] = "want"]
  /\ UNCHANGED <<bmu, lifeVars, linkVars, brokerSubs, routerVars, pc, rgen,
                 resubVars, lost, panicked>>

\* The method publishes under b.mu; without a connection it returns at once.
PublishLock(p) ==
  /\ ppc[p] = "want"
  /\ HoldRead(Outer(p))
  /\ ppc' = [ppc EXCEPT ![p] = "publishing"]
  /\ UNCHANGED <<lifeVars, linkVars, brokerSubs, routerVars, pc, rgen,
                 resubVars, lost, panicked>>

PublishReturn(p) ==
  /\ ppc[p] = "publishing"
  /\ bmu' = RUnlock(bmu, Outer(p))
  /\ ppc' = [ppc EXCEPT ![p] = "done"]
  /\ UNCHANGED <<lifeVars, linkVars, brokerSubs, routerVars, pc, rgen,
                 resubVars, lost, panicked>>

-----------------------------------------------------------------------------
(* The broker connection and the OnConnectionUp callback.                  *)

\* External: the connection breaks, and with it the session.
Drop ==
  /\ up
  /\ drops < MaxDrops
  /\ drops' = drops + 1
  /\ up' = FALSE
  /\ brokerSubs' = {}
  /\ UNCHANGED <<bmu, lifeVars, routerVars, pc, rgen, ppc, resubVars, lost,
                 panicked>>

\* External: autopaho connects again and calls OnConnectionUp, one call
\* after the other.
Reconnect ==
  /\ conn # 0
  /\ ~up
  /\ upc = "idle"
  /\ up' = TRUE
  /\ brokerSubs' = {}
  /\ lost' = {}
  /\ upc' = "topics"
  /\ UNCHANGED <<bmu, lifeVars, drops, routerVars, pc, rgen, ppc, found,
                 panicked>>

\* Mutant: GetTopics reads the map without the lock.
RouterReadable(g) == TRUE

\* r.mu.RLock() of GetTopics, which unlocks at once.
RouterUnlocked(g) == rmu[g] = {}

\* getTopics: the topics of the routers in use now.
GetTopics ==
  /\ upc = "topics"
  /\ RouterUnlocked(gen)
  /\ found' = topics[gen]
  /\ upc' = IF topics[gen] = {} THEN "idle" ELSE "lock"
  /\ UNCHANGED <<bmu, lifeVars, linkVars, brokerSubs, routerVars, pc, rgen, ppc,
                 lost, panicked>>

\* subscribe read-locks b.mu.
ResubscribeLock ==
  /\ upc = "lock"
  /\ HoldRead(Inner("resub"))
  /\ upc' = "subscribing"
  /\ UNCHANGED <<lifeVars, linkVars, brokerSubs, routerVars, pc, rgen, ppc,
                 found, lost, panicked>>

\* The topics are the router's, that is, without share names.
Resubscribed == {<<NoShare, t>> : t \in found}

ResubscribeEnd ==
  /\ upc = "subscribing"
  /\ bmu' = RUnlock(bmu, Inner("resub"))
  /\ upc' = "idle"
  /\ found' = {}
  /\ UNCHANGED <<lifeVars, linkVars, routerVars, pc, rgen, ppc, panicked>>

ResubscribeOk ==
  /\ conn # 0
  /\ up
  /\ brokerSubs' = brokerSubs \cup Resubscribed
  /\ lost' = lost \ found
  /\ ResubscribeEnd

\* An error is logged, nothing else: the topics stay without subscription
\* unless the broker has processed the request.
ResubscribeErr ==
  /\ brokerSubs' \in {brokerSubs}
       \cup (IF up THEN {brokerSubs \cup Resubscribed} ELSE {})
  /\ lost' = lost \cup found
  /\ ResubscribeEnd

-----------------------------------------------------------------------------

LifecycleStep ==
  \/ LockLifecycle("open", "opening")
  \/ LockLifecycle("close", "closing")
  \/ OpenAgain
  \/ Open(TRUE)
  \/ Open(FALSE)
  \/ Close

AddStep(s) ==
  \/ OuterLock(s) \/ NotOpen(s)
  \/ AddLock(s)
  \/ InnerLock(s) \/ SubscribeOk(s) \/ SubscribeErr(s)
  \/ PublishErr(s) \/ Register(s)

RemoveStep(s) ==
  \/ RemoveOneOfMany(s) \/ RemoveLast(s)
  \/ TryRLock(s)
  \/ UnsubscribeNotOpen(s) \/ UnsubscribeCheck(s)
  \/ UnsubscribeNil(s) \/ UnsubscribeOk(s) \/ UnsubscribeErr(s)

PublishStep(p) == PublishLock(p) \/ PublishReturn(p)

ResubscribeStep ==
  \/ GetTopics
  \/ ResubscribeLock
  \/ ResubscribeOk
  \/ ResubscribeErr

Next ==
  \/ CallLifecycle("open") \/ CallLifecycle("close")
  \/ LifecycleStep
  \/ \E s \in Subs : Call(s) \/ AddStep(s) \/ Cancel(s) \/ RemoveStep(s)
  \/ \E p \in Pubs : CallPublish(p) \/ PublishStep(p)
  \/ Drop \/ Reconnect \/ ResubscribeStep

Spec == Init /\ [][Next]_vars

\* Every goroutine that can go on does so; the broker answers or paho times
\* out.  Nothing obliges callers to call, to cancel or to close, the
\* connection to break or to come back.
Fairness ==
  /\ WF_vars(LifecycleStep)
  /\ WF_vars(ResubscribeStep)
  /\ \A s \in Subs : /\ WF_vars(AddStep(s))
                     /\ WF_vars(RemoveStep(s))
  /\ \A p \in Pubs : WF_vars(PublishStep(p))

FairSpec == Spec /\ Fairness

-----------------------------------------------------------------------------
(* Properties.                                                             *)

\* The values of the variables; b.conn is nil or the connection made with the
\* routers in use, whatever the order of calls of Open and Close.
TypeOK ==
  /\ bmu \in LockValues(Holds)
  /\ gen \in 0..MaxCalls
  /\ conn \in {0, gen}
  /\ up \in BOOLEAN
  /\ brokerSubs \subseteq (Shares \cup {NoShare}) \X Topics
  /\ drops \in 0..MaxDrops
  /\ rmu \in [Gens -> SUBSET Subs]
  /\ topics \in [Gens -> SUBSET Topics]
  /\ routes \in [Gens -> [Topics -> SUBSET Subs]]
  /\ pc \in [Subs -> {"idle", "want", "failed", "add", "inner", "subscribing",
                      "publishing", "routed", "remove", "try", "check",
                      "unsubscribing", "removed", "crashed"}]
  /\ rgen \in [Subs -> 0..MaxCalls]
  /\ ppc \in [Pubs -> {"idle", "want", "publishing", "done"}]
  /\ cpc \in {"idle", "open", "close", "opening", "closing"}
  /\ calls \in 0..MaxCalls
  /\ upc \in {"idle", "topics", "lock", "subscribing"}
  /\ found \subseteq Topics
  /\ lost \subseteq Topics
  /\ panicked \in BOOLEAN

\* While a call adds a route, from the check of b.conn in the API method to
\* its return, the connection and the routers are those it started with,
\* whatever Close and Open do meanwhile: nobody sets b.conn to nil or
\* replaces it under the call, and the channel ends in a router in use.
CallKeepsConn ==
  \A s \in Subs :
    pc[s] \in {"add", "inner", "subscribing", "publishing"} =>
      conn # 0 /\ conn = rgen[s] /\ gen = rgen[s]

\* Once a connection is up and OnConnectionUp has returned, every topic with
\* a route channel is subscribed, however drops, reconnects, subscriptions
\* and removals interleave: GetTopics waits for an Add whose subscription
\* was acknowledged in an earlier session.  Left out are the topics in lost:
\* those of a resubscription that failed (the code logs it), of an
\* unsubscribe that the broker processed without the binding learning it,
\* and those unsubscribed by a removal from a router of an earlier Open.
RoutedCovered ==
  conn # 0 /\ up /\ upc = "idle" =>
    \A t \in Topics \ lost :
      routes[gen][t] # {} => \E sh \in Shares \cup {NoShare} :
                               <<sh, t>> \in brokerSubs

\* Every API method returns, as does Close, though all may be called from
\* concurrent goroutines.
CallsReturn ==
  /\ \A s \in Subs :
       pc[s] = "want" ~> (panicked \/ pc[s] \in {"failed", "routed"})
  /\ \A p \in Pubs : ppc[p] = "want" ~> (panicked \/ ppc[p] = "done")
  /\ cpc = "close" ~> (panicked \/ cpc = "idle")

\* unsubscribe never uses a nil connection: where it goes on without the lock it
\* is Close itself that holds it (mqtt5.go:654-660). It is not: TryRLock also
\* fails in the goroutine of a removal while Close waits or runs, and Close sets
\* b.conn to nil between the check and the use (mqtt5.go:665-669).
NoNilConn == ~panicked

\* After a reconnect a channel's subscription is the one it was made with, share
\* name included, where all channels of a topic use one. It is not: routers know
\* topics without share names (mqtt5.go:212-213, 677).
ShareKept ==
  conn # 0 /\ up /\ upc = "idle" =>
    \A t \in Topics \ lost : \A s \in routes[gen][t] : SubTopic(s) \in brokerSubs
=============================================================================
