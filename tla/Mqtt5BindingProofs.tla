------------------------- MODULE Mqtt5BindingProofs -------------------------
(***************************************************************************)
(* The MQTT 5 binding for any number of calls, topics and share names, of  *)
(* calls of Open and Close and of lost connections.                        *)
(***************************************************************************)
EXTENDS Mqtt5Binding, TLAPS

Adding == {"add", "inner", "subscribing", "publishing"}
RouterLocked == {"inner", "subscribing", "publishing",
                 "try", "check", "unsubscribing", "crashed"}

\* b.mu: Open and Close work while nobody reads, and a call that adds a route
\* reads throughout.
LockInv ==
  /\ cpc \in {"opening", "closing"} => bmu.writer # {} /\ bmu.readers = {}
  /\ \A s \in Subs : pc[s] \in Adding => Outer(s) \in bmu.readers

\* Routers are numbered in the order of the calls that made them, and one that
\* is still to be made is empty. OnConnectionUp runs only after an Open.
GenInv ==
  /\ gen <= calls
  /\ cpc \in {"open", "opening"} => gen < calls
  /\ upc = "topics" => gen # 0
  /\ \A s \in Subs : rgen[s] <= gen
  /\ \A g \in Gens : g > gen =>
       topics[g] = {} /\ \A t \in Topics : routes[g][t] = {}

\* The lock of a router belongs to the call or removal that works on it, and its
\* map has a key for each topic with channels.
RouterInv ==
  /\ \A s \in Subs : pc[s] \in RouterLocked => rmu[rgen[s]] = {s}
  /\ \A s \in Subs : pc[s] \notin {"idle", "want", "failed"} => rgen[s] # 0
  /\ \A s \in Subs : pc[s] \in {"try", "check", "unsubscribing"} =>
       routes[rgen[s]][TopicOf[s]] = {s}
  /\ \A g \in Gens, t \in Topics : routes[g][t] # {} => t \in topics[g]

\* The routers in use have a topic, or are about to have it.
Wanted(t) ==
  \/ t \in topics[gen]
  \/ \E s \in Subs : pc[s] = "publishing" /\ TopicOf[s] = t

Covered(t) == \E sh \in Shares \cup {NoShare} : <<sh, t>> \in brokerSubs

\* Once OnConnectionUp has asked for the topics, one that is wanted is subscribed
\* or among those it got.
CoverInv ==
  /\ upc \in {"idle", "topics"} => found = {}
  /\ conn # 0 /\ up /\ upc # "topics" =>
       \A t \in Topics \ lost : Wanted(t) => t \in found \/ Covered(t)

(***************************************************************************)
(* The inductive invariant (mqtt5.go:84-170, 200-383, 610-697).            *)
(***************************************************************************)
IInv == TypeOK /\ LockInv /\ GenInv /\ CallKeepsConn /\ RouterInv /\ CoverInv
-----------------------------------------------------------------------------
(* Facts used for several actions.                                         *)

(***************************************************************************)
(* A step of another part of the binding, which neither touches the broker *)
(* connection nor makes a topic wanted, keeps what is subscribed.          *)
(***************************************************************************)
LEMMA CoverKept ==
  ASSUME CoverInv, UNCHANGED <<conn, up, upc, found, lost>>, brokerSubs \subseteq brokerSubs',
         \A t \in Topics : Wanted(t)' => Wanted(t)
  PROVE  CoverInv'
<1>1. \A t : Covered(t) => Covered(t)'
  BY DEF Covered
<1>. QED
  BY <1>1 DEF CoverInv

(***************************************************************************)
(* A call or removal that goes on, but not to publish, makes no topic      *)
(* wanted.                                                                 *)
(***************************************************************************)
LEMMA GotoWanted ==
  ASSUME TypeOK, NEW s \in Subs, NEW l, l # "publishing", Goto(s, l), UNCHANGED gen,
         topics'[gen] \subseteq topics[gen]
  PROVE  \A t \in Topics : Wanted(t)' => Wanted(t)
<1>1. \A x \in Subs : pc'[x] = "publishing" => pc[x] = "publishing"
  BY DEF Goto, TypeOK
<1>. QED
  BY <1>1 DEF Wanted

(***************************************************************************)
(* A call or removal that has a router works on one that an Open has made, *)
(* and holds on b.mu are those of TypeOK (mqtt5.go:205, 630, 661).         *)
(***************************************************************************)
LEMMA CallFacts ==
  ASSUME TypeOK, RouterInv, NEW s \in Subs
  PROVE  /\ TopicOf[s] \in Topics
         /\ SubTopic(s) \in (Shares \cup {NoShare}) \X Topics
         /\ pc[s] \notin {"idle", "want", "failed"} => rgen[s] \in Gens
         /\ Outer(s) \in Holds /\ Inner(s) \in Holds
BY BindingAssumption DEF TypeOK, RouterInv, Gens, SubTopic, Outer, Inner, Holds

(***************************************************************************)
(* One call or removal at a time works on a router (router.go:108, 207).   *)
(***************************************************************************)
LEMMA RouterExclusive ==
  ASSUME RouterInv, NEW s \in Subs, NEW x \in Subs, rgen[s] = rgen[x],
         pc[x] \in RouterLocked, pc[s] \in RouterLocked \/ RouterFree(s)
  PROVE  s = x
BY DEF RouterInv, RouterFree

(***************************************************************************)
(* How remove ends (router.go:206): it takes out one channel and, once     *)
(* unsubscribed, the topic that has no other.                              *)
(***************************************************************************)
LEMMA TakeOutFacts ==
  ASSUME TypeOK, RouterInv, NEW s \in Subs, NEW drop \in BOOLEAN, TakeOut(s, drop),
         \/ pc[s] = "remove" /\ RouterFree(s) /\ ~drop
         \/ pc[s] \in {"check", "unsubscribing"},
         UNCHANGED rgen
  PROVE  /\ routes' \in [Gens -> [Topics -> SUBSET Subs]]
         /\ topics' \in [Gens -> SUBSET Topics]
         /\ rmu' \in [Gens -> SUBSET Subs]
         /\ \A g \in Gens : topics'[g] \subseteq topics[g]
         /\ \A g \in Gens, t \in Topics : routes'[g][t] \subseteq routes[g][t]
         /\ drop => TopicOf[s] \notin topics'[rgen[s]]
         /\ \A g \in Gens : g # rgen[s] => topics'[g] = topics[g]
         /\ \A t \in Topics \ {TopicOf[s]} : t \in topics[rgen[s]] => t \in topics'[rgen[s]]
         /\ RouterInv'
<1>1. rgen[s] \in Gens /\ TopicOf[s] \in Topics
  BY CallFacts
<1>2. /\ routes' \in [Gens -> [Topics -> SUBSET Subs]]
      /\ \A g \in Gens, t \in Topics : routes'[g][t] =
           IF g = rgen[s] /\ t = TopicOf[s] THEN routes[g][t] \ {s} ELSE routes[g][t]
  BY <1>1 DEF TakeOut, TypeOK
<1>3. /\ topics' \in [Gens -> SUBSET Topics]
      /\ \A g \in Gens : topics'[g] =
           IF g = rgen[s] /\ drop THEN topics[g] \ {TopicOf[s]} ELSE topics[g]
  BY <1>1 DEF TakeOut, TypeOK
<1>4. /\ rmu' \in [Gens -> SUBSET Subs]
      /\ \A g \in Gens : rmu'[g] = IF g = rgen[s] THEN {} ELSE rmu[g]
  BY <1>1 DEF TakeOut, UnlockRouter, TypeOK
<1>5. /\ pc' \in [Subs -> {"removed"} \cup {pc[x] : x \in Subs}] /\ pc'[s] = "removed"
      /\ \A x \in Subs : x # s => pc'[x] = pc[x]
  BY DEF TakeOut, Goto, TypeOK
<1>6. ASSUME NEW x \in Subs, pc'[x] \in RouterLocked
      PROVE  x # s /\ pc[x] = pc'[x] /\ rgen[x] # rgen[s]
  BY <1>5, <1>6, RouterExclusive DEF RouterLocked
<1>7. RouterInv'
  <2>1. \A x \in Subs : pc'[x] \in RouterLocked => rmu'[rgen[x]] = {x}
    BY <1>1, <1>4, <1>6, CallFacts DEF RouterInv, RouterLocked
  <2>2. \A x \in Subs : pc'[x] \notin {"idle", "want", "failed"} => rgen[x] # 0
    BY <1>5 DEF RouterInv
  <2>3. \A x \in Subs : pc'[x] \in {"try", "check", "unsubscribing"} =>
          routes'[rgen[x]][TopicOf[x]] = {x}
    <3>. TAKE x \in Subs
    <3>. HAVE pc'[x] \in {"try", "check", "unsubscribing"}
    <3>1. pc[x] = pc'[x] /\ rgen[x] # rgen[s]
      BY <1>6 DEF RouterLocked
    <3>2. rgen[x] \in Gens /\ TopicOf[x] \in Topics
      BY <3>1, CallFacts
    <3>. QED
      BY <1>2, <3>1, <3>2 DEF RouterInv
  <2>4. \A g \in Gens, t \in Topics : routes'[g][t] # {} => t \in topics'[g]
    <3>. TAKE g \in Gens, t \in Topics
    <3>1. routes[g][t] # {} => t \in topics[g]
      BY DEF RouterInv
    <3>2. drop => routes[rgen[s]][TopicOf[s]] = {s}
      BY DEF RouterInv
    <3>. QED
      BY <1>2, <1>3, <3>1, <3>2
  <2>. QED
    BY <2>1, <2>2, <2>3, <2>4 DEF RouterInv
<1>. QED
  BY <1>1, <1>2, <1>3, <1>4, <1>7

-----------------------------------------------------------------------------
(* The steps.                                                              *)

(***************************************************************************)
(* Open and Close (mqtt5.go:84-170).                                       *)
(***************************************************************************)
LEMMA LifecycleKeeps ==
  ASSUME IInv,
         \/ CallLifecycle("open")
         \/ CallLifecycle("close")
         \/ LockLifecycle("open", "opening")
         \/ LockLifecycle("close", "closing")
         \/ OpenAgain
         \/ Open(TRUE)
         \/ Open(FALSE)
         \/ Close
  PROVE  IInv'
<1>. USE BindingAssumption DEF IInv, lifeVars, linkVars, routerVars, resubVars
<1>1. CASE CallLifecycle("open")
  <2>1. TypeOK'
    BY <1>1 DEF CallLifecycle, CanAnnounce, Announce, TypeOK, Gens, LockValues, Holds,
       Outer, Inner, Writer, SubTopic
  <2>2. LockInv'
    BY <1>1, <2>1 DEF CallLifecycle, CanAnnounce, Announce, TypeOK, LockInv, Adding, Outer,
       Inner, LockValues
  <2>3. GenInv'
    BY <1>1, <2>1 DEF CallLifecycle, CanAnnounce, Announce, TypeOK, GenInv, LockInv, Gens
  <2>4. CallKeepsConn'
    BY <1>1, <2>1 DEF CallLifecycle, CanAnnounce, Announce, TypeOK, LockInv, CallKeepsConn,
       Adding
  <2>5. RouterInv'
    BY <1>1, <2>1 DEF CallLifecycle, CanAnnounce, Announce, TypeOK, GenInv, RouterInv,
       CallKeepsConn, RouterLocked, Gens
  <2>6. CoverInv'
    BY <1>1, CoverKept DEF CallLifecycle, Wanted
  <2>. QED
    BY <2>1, <2>2, <2>3, <2>4, <2>5, <2>6
<1>2. CASE CallLifecycle("close")
  <2>1. TypeOK'
    BY <1>2 DEF CallLifecycle, CanAnnounce, Announce, TypeOK, Gens, LockValues, Holds,
       Outer, Inner, Writer, SubTopic
  <2>2. LockInv'
    BY <1>2, <2>1 DEF CallLifecycle, CanAnnounce, Announce, TypeOK, LockInv, Adding, Outer,
       Inner, LockValues
  <2>3. GenInv'
    BY <1>2, <2>1 DEF CallLifecycle, CanAnnounce, Announce, TypeOK, GenInv, LockInv, Gens
  <2>4. CallKeepsConn'
    BY <1>2, <2>1 DEF CallLifecycle, CanAnnounce, Announce, TypeOK, LockInv, CallKeepsConn,
       Adding
  <2>5. RouterInv'
    BY <1>2, <2>1 DEF CallLifecycle, CanAnnounce, Announce, TypeOK, GenInv, RouterInv,
       CallKeepsConn, RouterLocked, Gens
  <2>6. CoverInv'
    BY <1>2, CoverKept DEF CallLifecycle, Wanted
  <2>. QED
    BY <2>1, <2>2, <2>3, <2>4, <2>5, <2>6
<1>3. CASE LockLifecycle("open", "opening")
  <2>1. TypeOK'
    BY <1>3 DEF LockLifecycle, CanLock, Lock, TypeOK, Gens, LockValues, Holds, Outer, Inner,
       Writer, SubTopic
  <2>2. LockInv'
    BY <1>3, <2>1 DEF LockLifecycle, CanLock, Lock, TypeOK, LockInv, Adding, Outer, Inner,
       LockValues
  <2>3. GenInv'
    BY <1>3, <2>1 DEF LockLifecycle, CanLock, Lock, TypeOK, GenInv, LockInv, Gens
  <2>4. CallKeepsConn'
    BY <1>3, <2>1 DEF LockLifecycle, CanLock, Lock, TypeOK, LockInv, CallKeepsConn, Adding
  <2>5. RouterInv'
    BY <1>3, <2>1 DEF LockLifecycle, CanLock, Lock, TypeOK, GenInv, RouterInv,
       CallKeepsConn, RouterLocked, Gens
  <2>6. CoverInv'
    BY <1>3, CoverKept DEF LockLifecycle, Wanted
  <2>. QED
    BY <2>1, <2>2, <2>3, <2>4, <2>5, <2>6
<1>4. CASE LockLifecycle("close", "closing")
  <2>1. TypeOK'
    BY <1>4 DEF LockLifecycle, CanLock, Lock, TypeOK, Gens, LockValues, Holds, Outer, Inner,
       Writer, SubTopic
  <2>2. LockInv'
    BY <1>4, <2>1 DEF LockLifecycle, CanLock, Lock, TypeOK, LockInv, Adding, Outer, Inner,
       LockValues
  <2>3. GenInv'
    BY <1>4, <2>1 DEF LockLifecycle, CanLock, Lock, TypeOK, GenInv, LockInv, Gens
  <2>4. CallKeepsConn'
    BY <1>4, <2>1 DEF LockLifecycle, CanLock, Lock, TypeOK, LockInv, CallKeepsConn, Adding
  <2>5. RouterInv'
    BY <1>4, <2>1 DEF LockLifecycle, CanLock, Lock, TypeOK, GenInv, RouterInv,
       CallKeepsConn, RouterLocked, Gens
  <2>6. CoverInv'
    BY <1>4, CoverKept DEF LockLifecycle, Wanted
  <2>. QED
    BY <2>1, <2>2, <2>3, <2>4, <2>5, <2>6
<1>5. CASE OpenAgain
  <2>1. TypeOK'
    BY <1>5 DEF OpenAgain, Unlock, TypeOK, Gens, LockValues, Holds, Outer, Inner, Writer,
       SubTopic
  <2>2. LockInv'
    BY <1>5, <2>1 DEF OpenAgain, Unlock, TypeOK, LockInv, Adding, Outer, Inner, LockValues
  <2>3. GenInv'
    BY <1>5, <2>1 DEF OpenAgain, Unlock, TypeOK, GenInv, LockInv, Gens
  <2>4. CallKeepsConn'
    BY <1>5, <2>1 DEF OpenAgain, Unlock, TypeOK, LockInv, CallKeepsConn, Adding
  <2>5. RouterInv'
    BY <1>5, <2>1 DEF OpenAgain, Unlock, TypeOK, GenInv, RouterInv, CallKeepsConn,
       RouterLocked, Gens
  <2>6. CoverInv'
    BY <1>5, CoverKept DEF OpenAgain, Wanted
  <2>. QED
    BY <2>1, <2>2, <2>3, <2>4, <2>5, <2>6
<1>6. CASE Open(TRUE)
  <2>1. TypeOK'
    BY <1>6 DEF Open, Unlock, TypeOK, Gens, LockValues, Holds, Outer, Inner, Writer,
       SubTopic
  <2>2. LockInv'
    BY <1>6, <2>1 DEF Open, Unlock, TypeOK, LockInv, Adding, Outer, Inner, LockValues
  <2>3. GenInv'
    <3>1. gen \in Nat /\ calls \in Nat /\ gen < calls /\ gen' = calls /\ cpc' = "idle"
      BY <1>6 DEF Open, GenInv, TypeOK
    <3>2. \A s \in Subs : rgen[s] \in Nat /\ rgen[s] <= gen
      BY DEF GenInv, TypeOK
    <3>3. \A s \in Subs : rgen[s] <= calls
      BY <3>1, <3>2
    <3>4. \A g \in Gens : g > calls => g > gen
      BY <3>1 DEF Gens
    <3>. QED
      BY <1>6, <3>1, <3>3, <3>4 DEF Open, GenInv
  <2>4. CallKeepsConn'
    BY <1>6, <2>1 DEF Open, Unlock, TypeOK, LockInv, CallKeepsConn, Adding
  <2>5. RouterInv'
    BY <1>6, <2>1 DEF Open, Unlock, TypeOK, GenInv, RouterInv, CallKeepsConn, RouterLocked,
       Gens
  <2>6. CoverInv'
    BY <1>6, <2>1 DEF Open, Unlock, TypeOK, LockInv, GenInv, RouterInv, CoverInv,
       CallKeepsConn, Adding, RouterLocked, Wanted, Covered, SubTopic, Gens
  <2>. QED
    BY <2>1, <2>2, <2>3, <2>4, <2>5, <2>6
<1>7. CASE Open(FALSE)
  <2>1. TypeOK'
    BY <1>7 DEF Open, Unlock, TypeOK, Gens, LockValues, Holds, Outer, Inner, Writer,
       SubTopic
  <2>2. LockInv'
    BY <1>7, <2>1 DEF Open, Unlock, TypeOK, LockInv, Adding, Outer, Inner, LockValues
  <2>3. GenInv'
    <3>1. gen \in Nat /\ calls \in Nat /\ gen < calls /\ gen' = calls /\ cpc' = "idle"
      BY <1>7 DEF Open, GenInv, TypeOK
    <3>2. \A s \in Subs : rgen[s] \in Nat /\ rgen[s] <= gen
      BY DEF GenInv, TypeOK
    <3>3. \A s \in Subs : rgen[s] <= calls
      BY <3>1, <3>2
    <3>4. \A g \in Gens : g > calls => g > gen
      BY <3>1 DEF Gens
    <3>. QED
      BY <1>7, <3>1, <3>3, <3>4 DEF Open, GenInv
  <2>4. CallKeepsConn'
    BY <1>7, <2>1 DEF Open, Unlock, TypeOK, LockInv, CallKeepsConn, Adding
  <2>5. RouterInv'
    BY <1>7, <2>1 DEF Open, Unlock, TypeOK, GenInv, RouterInv, CallKeepsConn, RouterLocked,
       Gens
  <2>6. CoverInv'
    BY <1>7, <2>1 DEF Open, Unlock, TypeOK, LockInv, GenInv, RouterInv, CoverInv,
       CallKeepsConn, Adding, RouterLocked, Wanted, Covered, SubTopic, Gens
  <2>. QED
    BY <2>1, <2>2, <2>3, <2>4, <2>5, <2>6
<1>8. CASE Close
  <2>1. TypeOK'
    BY <1>8 DEF Close, Unlock, TypeOK, Gens, LockValues, Holds, Outer, Inner, Writer,
       SubTopic
  <2>2. LockInv'
    BY <1>8, <2>1 DEF Close, Unlock, TypeOK, LockInv, Adding, Outer, Inner, LockValues
  <2>3. GenInv'
    BY <1>8, <2>1 DEF Close, Unlock, TypeOK, GenInv, LockInv, Gens
  <2>4. CallKeepsConn'
    BY <1>8, <2>1 DEF Close, Unlock, TypeOK, LockInv, CallKeepsConn, Adding
  <2>5. RouterInv'
    BY <1>8, <2>1 DEF Close, Unlock, TypeOK, GenInv, RouterInv, CallKeepsConn, RouterLocked,
       Gens
  <2>6. CoverInv'
    BY <1>8, <2>1 DEF Close, Unlock, TypeOK, LockInv, GenInv, RouterInv, CoverInv,
       CallKeepsConn, Adding, RouterLocked, Wanted, Covered, SubTopic, Gens
  <2>. QED
    BY <2>1, <2>2, <2>3, <2>4, <2>5, <2>6
<1>. QED
  BY <1>1, <1>2, <1>3, <1>4, <1>5, <1>6, <1>7, <1>8

(***************************************************************************)
(* The API methods that add a route channel (mqtt5.go:200-261, 280-342,    *)
(* 360-383, router.go:107-147).                                            *)
(***************************************************************************)
LEMMA AddKeeps ==
  ASSUME IInv, NEW s \in Subs,
         \/ Call(s)
         \/ OuterLock(s)
         \/ NotOpen(s)
         \/ AddLock(s)
         \/ InnerLock(s)
         \/ SubscribeOk(s)
         \/ SubscribeErr(s)
         \/ PublishErr(s)
         \/ Register(s)
  PROVE  IInv'
<1>. USE BindingAssumption DEF IInv, lifeVars, linkVars, routerVars, resubVars
<1>1. CASE Call(s)
  <2>1. TypeOK'
    BY <1>1 DEF Call, Goto, TypeOK, Gens, LockValues, Holds, Outer, Inner, Writer, SubTopic
  <2>2. LockInv'
    BY <1>1, <2>1 DEF Call, Goto, TypeOK, LockInv, Adding, Outer, Inner, LockValues
  <2>3. GenInv'
    BY <1>1, <2>1 DEF Call, Goto, TypeOK, GenInv, LockInv, Gens
  <2>4. CallKeepsConn'
    BY <1>1, <2>1 DEF Call, Goto, TypeOK, LockInv, CallKeepsConn, Adding
  <2>5. RouterInv'
    BY <1>1, <2>1 DEF Call, Goto, TypeOK, GenInv, RouterInv, CallKeepsConn, RouterLocked,
       Gens
  <2>6. CoverInv'
    BY <1>1, CoverKept, GotoWanted DEF Call
  <2>. QED
    BY <2>1, <2>2, <2>3, <2>4, <2>5, <2>6
<1>2. CASE OuterLock(s)
  <2>1. TypeOK'
    BY <1>2 DEF OuterLock, Goto, HoldRead, CanRLock, RLock, TypeOK, Gens, LockValues, Holds,
       Outer, Inner, Writer, SubTopic
  <2>2. LockInv'
    BY <1>2, <2>1 DEF OuterLock, Goto, HoldRead, CanRLock, RLock, TypeOK, LockInv, Adding,
       Outer, Inner, LockValues
  <2>3. GenInv'
    BY <1>2, <2>1 DEF OuterLock, Goto, HoldRead, CanRLock, RLock, TypeOK, GenInv, LockInv,
       Gens
  <2>4. CallKeepsConn'
    BY <1>2, <2>1 DEF OuterLock, Goto, HoldRead, CanRLock, RLock, TypeOK, LockInv,
       CallKeepsConn, Adding
  <2>5. RouterInv'
    BY <1>2, <2>1 DEF OuterLock, Goto, HoldRead, CanRLock, RLock, TypeOK, GenInv, RouterInv,
       CallKeepsConn, RouterLocked, Gens
  <2>6. CoverInv'
    BY <1>2, CoverKept, GotoWanted DEF OuterLock
  <2>. QED
    BY <2>1, <2>2, <2>3, <2>4, <2>5, <2>6
<1>3. CASE NotOpen(s)
  <2>1. TypeOK'
    BY <1>3 DEF NotOpen, Goto, TypeOK, Gens, LockValues, Holds, Outer, Inner, Writer,
       SubTopic
  <2>2. LockInv'
    BY <1>3, <2>1 DEF NotOpen, Goto, TypeOK, LockInv, Adding, Outer, Inner, LockValues
  <2>3. GenInv'
    BY <1>3, <2>1 DEF NotOpen, Goto, TypeOK, GenInv, LockInv, Gens
  <2>4. CallKeepsConn'
    BY <1>3, <2>1 DEF NotOpen, Goto, TypeOK, LockInv, CallKeepsConn, Adding
  <2>5. RouterInv'
    BY <1>3, <2>1 DEF NotOpen, Goto, TypeOK, GenInv, RouterInv, CallKeepsConn, RouterLocked,
       Gens
  <2>6. CoverInv'
    BY <1>3, CoverKept, GotoWanted DEF NotOpen
  <2>. QED
    BY <2>1, <2>2, <2>3, <2>4, <2>5, <2>6
<1>4. CASE AddLock(s)
  <2>1. TypeOK'
    BY <1>4 DEF AddLock, Goto, RouterFree, LockRouter, TypeOK, Gens, LockValues, Holds,
       Outer, Inner, Writer, SubTopic
  <2>2. LockInv'
    BY <1>4, <2>1 DEF AddLock, Goto, RouterFree, LockRouter, TypeOK, LockInv, Adding, Outer,
       Inner, LockValues
  <2>3. GenInv'
    BY <1>4, <2>1 DEF AddLock, Goto, RouterFree, LockRouter, TypeOK, GenInv, LockInv, Gens
  <2>4. CallKeepsConn'
    BY <1>4, <2>1 DEF AddLock, Goto, RouterFree, LockRouter, TypeOK, LockInv, CallKeepsConn,
       Adding
  <2>5. RouterInv'
    <3>1. \A x \in Subs \ {s} : pc'[x] = pc[x] /\ (pc[x] \in RouterLocked => rgen[x] # rgen[s])
      BY <1>4, RouterExclusive DEF AddLock, Goto, TypeOK
    <3>2. \A x \in Subs : pc[x] \in RouterLocked => rgen[x] \in Gens
      BY CallFacts DEF RouterLocked
    <3>3. /\ rgen[s] \in Gens /\ rmu'[rgen[s]] = {s} /\ pc'[s] \in {"inner", "publishing"}
          /\ \A g \in Gens : g # rgen[s] => rmu'[g] = rmu[g]
      BY <1>4, CallFacts DEF AddLock, LockRouter, Goto, TypeOK
    <3>. QED
      BY <1>4, <3>1, <3>2, <3>3 DEF AddLock, RouterInv, RouterLocked
  <2>6. CoverInv'
    <3>1. pc[s] = "add" /\ rgen[s] = gen
      BY <1>4 DEF AddLock, CallKeepsConn
    <3>2. \A x \in Subs : pc'[x] = "publishing" =>
            pc[x] = "publishing" \/ TopicOf[x] \in topics[gen]
      BY <1>4, <3>1 DEF AddLock, Goto, TypeOK
    <3>. QED
      BY <1>4, <3>2, CoverKept DEF AddLock, Wanted
  <2>. QED
    BY <2>1, <2>2, <2>3, <2>4, <2>5, <2>6
<1>5. CASE InnerLock(s)
  <2>1. TypeOK'
    BY <1>5 DEF InnerLock, Goto, HoldRead, CanRLock, RLock, TypeOK, Gens, LockValues, Holds,
       Outer, Inner, Writer, SubTopic
  <2>2. LockInv'
    BY <1>5, <2>1 DEF InnerLock, Goto, HoldRead, CanRLock, RLock, TypeOK, LockInv, Adding,
       Outer, Inner, LockValues
  <2>3. GenInv'
    BY <1>5, <2>1 DEF InnerLock, Goto, HoldRead, CanRLock, RLock, TypeOK, GenInv, LockInv,
       Gens
  <2>4. CallKeepsConn'
    BY <1>5, <2>1 DEF InnerLock, Goto, HoldRead, CanRLock, RLock, TypeOK, LockInv,
       CallKeepsConn, Adding
  <2>5. RouterInv'
    BY <1>5, <2>1 DEF InnerLock, Goto, HoldRead, CanRLock, RLock, TypeOK, GenInv, RouterInv,
       CallKeepsConn, RouterLocked, Gens
  <2>6. CoverInv'
    BY <1>5, CoverKept, GotoWanted DEF InnerLock
  <2>. QED
    BY <2>1, <2>2, <2>3, <2>4, <2>5, <2>6
<1>6. CASE SubscribeOk(s)
  <2>1. TypeOK'
    BY <1>6 DEF SubscribeOk, Goto, RUnlock, TypeOK, Gens, LockValues, Holds, Outer, Inner,
       Writer, SubTopic
  <2>2. LockInv'
    BY <1>6, <2>1 DEF SubscribeOk, Goto, RUnlock, TypeOK, LockInv, Adding, Outer, Inner,
       LockValues
  <2>3. GenInv'
    BY <1>6, <2>1 DEF SubscribeOk, Goto, RUnlock, TypeOK, GenInv, LockInv, Gens
  <2>4. CallKeepsConn'
    BY <1>6, <2>1 DEF SubscribeOk, Goto, RUnlock, TypeOK, LockInv, CallKeepsConn, Adding
  <2>5. RouterInv'
    BY <1>6, <2>1 DEF SubscribeOk, Goto, RUnlock, TypeOK, GenInv, RouterInv, CallKeepsConn,
       RouterLocked, Gens
  <2>6. CoverInv'
    <3>1. <<ShareOf[s], TopicOf[s]>> \in brokerSubs' /\ ShareOf[s] \in Shares \cup {NoShare}
      BY <1>6 DEF SubscribeOk, SubTopic
    <3>2. Covered(TopicOf[s])'
      BY <3>1 DEF Covered
    <3>3. \A t : Covered(t) => Covered(t)'
      BY <1>6 DEF SubscribeOk, Covered
    <3>4. \A t \in Topics \ {TopicOf[s]} : Wanted(t)' => Wanted(t)
      BY <1>6 DEF SubscribeOk, Wanted, Goto, TypeOK
    <3>. QED
      BY <1>6, <3>2, <3>3, <3>4 DEF SubscribeOk, CoverInv
  <2>. QED
    BY <2>1, <2>2, <2>3, <2>4, <2>5, <2>6
<1>7. CASE SubscribeErr(s)
  <2>1. TypeOK'
    <3>1. brokerSubs' \subseteq (Shares \cup {NoShare}) \X Topics
      BY <1>7, CallFacts DEF SubscribeErr, TypeOK
    <3>. QED
      BY <1>7, <3>1 DEF SubscribeErr, FailAdd, Goto, UnlockRouter, RUnlock, TypeOK,
         LockValues
  <2>2. LockInv'
    BY <1>7, <2>1 DEF SubscribeErr, FailAdd, Goto, UnlockRouter, RUnlock, TypeOK, LockInv,
       Adding, Outer, Inner, LockValues
  <2>3. GenInv'
    BY <1>7, <2>1 DEF SubscribeErr, FailAdd, Goto, UnlockRouter, RUnlock, TypeOK, GenInv,
       LockInv, Gens
  <2>4. CallKeepsConn'
    BY <1>7, <2>1 DEF SubscribeErr, FailAdd, Goto, UnlockRouter, RUnlock, TypeOK, LockInv,
       CallKeepsConn, Adding
  <2>5. RouterInv'
    <3>1. \A x \in Subs \ {s} : pc'[x] = pc[x] /\ (pc[x] \in RouterLocked => rgen[x] # rgen[s])
      BY <1>7, RouterExclusive DEF SubscribeErr, FailAdd, Goto, RouterLocked, TypeOK
    <3>2. \A x \in Subs : pc[x] \in RouterLocked => rgen[x] \in Gens
      BY CallFacts DEF RouterLocked
    <3>3. rgen[s] \in Gens /\ pc'[s] = "failed" /\ \A g \in Gens : g # rgen[s] => rmu'[g] = rmu[g]
      BY <1>7, CallFacts DEF SubscribeErr, FailAdd, UnlockRouter, Goto, TypeOK
    <3>. QED
      BY <1>7, <3>1, <3>2, <3>3 DEF SubscribeErr, FailAdd, RouterInv, RouterLocked
  <2>6. CoverInv'
    BY <1>7, CoverKept, GotoWanted DEF SubscribeErr, FailAdd
  <2>. QED
    BY <2>1, <2>2, <2>3, <2>4, <2>5, <2>6
<1>8. CASE PublishErr(s)
  <2>1. TypeOK'
    BY <1>8 DEF PublishErr, FailAdd, Goto, UnlockRouter, RUnlock, TypeOK, Gens, LockValues,
       Holds, Outer, Inner, Writer, SubTopic
  <2>2. LockInv'
    BY <1>8, <2>1 DEF PublishErr, FailAdd, Goto, UnlockRouter, RUnlock, TypeOK, LockInv,
       Adding, Outer, Inner, LockValues
  <2>3. GenInv'
    BY <1>8, <2>1 DEF PublishErr, FailAdd, Goto, UnlockRouter, RUnlock, TypeOK, GenInv,
       LockInv, Gens
  <2>4. CallKeepsConn'
    BY <1>8, <2>1 DEF PublishErr, FailAdd, Goto, UnlockRouter, RUnlock, TypeOK, LockInv,
       CallKeepsConn, Adding
  <2>5. RouterInv'
    <3>1. \A x \in Subs \ {s} : pc'[x] = pc[x] /\ (pc[x] \in RouterLocked => rgen[x] # rgen[s])
      BY <1>8, RouterExclusive DEF PublishErr, FailAdd, Goto, RouterLocked, TypeOK
    <3>2. \A x \in Subs : pc[x] \in RouterLocked => rgen[x] \in Gens
      BY CallFacts DEF RouterLocked
    <3>3. rgen[s] \in Gens /\ pc'[s] = "failed" /\ \A g \in Gens : g # rgen[s] => rmu'[g] = rmu[g]
      BY <1>8, CallFacts DEF PublishErr, FailAdd, UnlockRouter, Goto, TypeOK
    <3>. QED
      BY <1>8, <3>1, <3>2, <3>3 DEF PublishErr, FailAdd, RouterInv, RouterLocked
  <2>6. CoverInv'
    <3>1. /\ pc[s] = "publishing" /\ rgen[s] = gen
          /\ UNCHANGED <<conn, gen, up, topics, upc, found, lost>>
      BY <1>8 DEF PublishErr, FailAdd, CallKeepsConn
    <3>2. \A t \in Topics : Wanted(t)' => Wanted(t)
      BY <1>8, <3>1, GotoWanted DEF FailAdd, PublishErr
    <3>3. CASE brokerSubs' = brokerSubs
      BY <3>1, <3>2, <3>3, CoverKept
    <3>4. CASE TopicOf[s] \notin topics[gen] /\ brokerSubs' = brokerSubs \ {SubTopic(s)}
      <4>1. \A x \in Subs \ {s} : pc[x] = "publishing" => FALSE
        BY <3>1, RouterExclusive DEF CallKeepsConn, RouterLocked
      <4>2. pc'[s] = "failed" /\ \A x \in Subs \ {s} : pc'[x] = pc[x]
        BY <1>8 DEF PublishErr, FailAdd, Goto, TypeOK
      <4>3. ~Wanted(TopicOf[s])'
        BY <3>1, <3>4, <4>1, <4>2 DEF Wanted
      <4>4. \A t \in Topics \ {TopicOf[s]} : Covered(t) => Covered(t)'
        BY <3>4 DEF Covered, SubTopic
      <4>. QED
        BY <3>1, <3>2, <4>3, <4>4 DEF CoverInv
    <3>. QED
      BY <1>8, <3>1, <3>3, <3>4 DEF PublishErr
  <2>. QED
    BY <2>1, <2>2, <2>3, <2>4, <2>5, <2>6
<1>9. CASE Register(s)
  <2>a. /\ rgen[s] \in Gens /\ rgen[s] = gen /\ TopicOf[s] \in Topics /\ pc[s] = "publishing"
    BY <1>9, CallFacts DEF Register, CallKeepsConn
  <2>b. /\ routes' \in [Gens -> [Topics -> SUBSET Subs]]
        /\ \A g \in Gens, t \in Topics : routes'[g][t] =
             IF g = rgen[s] /\ t = TopicOf[s] THEN routes[g][t] \cup {s} ELSE routes[g][t]
    <3>1. routes \in [Gens -> [Topics -> SUBSET Subs]]
      BY DEF TypeOK
    <3>2. routes' = [routes EXCEPT ![rgen[s]][TopicOf[s]] = @ \cup {s}]
      BY <1>9 DEF Register
    <3>. HIDE DEF IInv
    <3>. QED
      BY <2>a, <3>1, <3>2
  <2>c. /\ topics' \in [Gens -> SUBSET Topics]
        /\ \A g \in Gens : topics'[g] =
             IF g = rgen[s] THEN topics[g] \cup {TopicOf[s]} ELSE topics[g]
    BY <1>9, <2>a DEF Register, TypeOK
  <2>0. rmu' \in [Gens -> SUBSET Subs]
    BY <1>9, <2>a DEF Register, UnlockRouter, TypeOK
  <2>1. TypeOK'
    BY <1>9, <2>a, <2>b, <2>c, <2>0 DEF Register, Goto, RUnlock, TypeOK, LockValues
  <2>2. LockInv'
    BY <1>9, <2>1 DEF Register, Goto, UnlockRouter, RUnlock, TypeOK, LockInv, Adding, Outer,
       Inner, LockValues
  <2>3. GenInv'
    BY <1>9, <2>a, <2>b, <2>c, <2>0 DEF Register, GenInv, TypeOK, Gens
  <2>4. CallKeepsConn'
    BY <1>9, <2>1 DEF Register, Goto, UnlockRouter, RUnlock, TypeOK, LockInv, CallKeepsConn,
       Adding
  <2>5. RouterInv'
    <3>1. \A x \in Subs \ {s} : pc'[x] = pc[x] /\ (pc[x] \in RouterLocked => rgen[x] # rgen[s])
      BY <1>9, <2>a, <2>b, <2>c, <2>0, RouterExclusive DEF Register, Goto, RouterLocked,
         TypeOK
    <3>2. \A x \in Subs : TopicOf[x] \in Topics /\ (pc[x] \in RouterLocked => rgen[x] \in Gens)
      BY CallFacts DEF RouterLocked
    <3>3. pc'[s] = "routed" /\ \A g \in Gens : g # rgen[s] => rmu'[g] = rmu[g]
      BY <1>9, <2>a, <2>b, <2>c, <2>0 DEF Register, UnlockRouter, Goto, TypeOK
    <3>4. \A x \in Subs : pc'[x] \in RouterLocked => rmu'[rgen[x]] = {x}
      BY <3>1, <3>2, <3>3 DEF RouterInv, RouterLocked
    <3>5. \A x \in Subs : pc'[x] \notin {"idle", "want", "failed"} => rgen[x] # 0
      BY <2>a, <3>1 DEF RouterInv, Gens
    <3>6. \A x \in Subs : pc'[x] \in {"try", "check", "unsubscribing"} =>
            routes'[rgen[x]][TopicOf[x]] = {x}
      <4>. TAKE x \in Subs
      <4>. HAVE pc'[x] \in {"try", "check", "unsubscribing"}
      <4>1. pc[x] = pc'[x] /\ rgen[x] # rgen[s] /\ rgen[x] \in Gens
        BY <3>1, <3>2, <3>3 DEF RouterLocked
      <4>. QED
        BY <2>b, <3>2, <4>1 DEF RouterInv
    <3>7. \A g \in Gens, t \in Topics : routes'[g][t] # {} => t \in topics'[g]
      <4>. TAKE g \in Gens, t \in Topics
      <4>1. routes[g][t] # {} => t \in topics[g]
        BY DEF RouterInv
      <4>. QED
        BY <2>b, <2>c, <4>1
    <3>. QED
      BY <1>9, <3>4, <3>5, <3>6, <3>7 DEF Register, RouterInv
  <2>6. CoverInv'
    <3>1. \A x \in Subs : pc'[x] = "publishing" => pc[x] = "publishing"
      BY <1>9 DEF Register, Goto, TypeOK
    <3>2. \A t \in Topics : Wanted(t)' => Wanted(t)
      BY <1>9, <2>a, <2>b, <2>c, <2>0, <3>1 DEF Register, Wanted
    <3>. QED
      BY <1>9, <3>2, CoverKept DEF Register
  <2>. QED
    BY <2>1, <2>2, <2>3, <2>4, <2>5, <2>6
<1>. QED
  BY <1>1, <1>2, <1>3, <1>4, <1>5, <1>6, <1>7, <1>8, <1>9

(***************************************************************************)
(* The removal of a route channel (router.go:206-237, mqtt5.go:644-674).   *)
(***************************************************************************)
LEMMA RemoveKeeps ==
  ASSUME IInv, NEW s \in Subs,
         \/ Cancel(s)
         \/ RemoveOneOfMany(s)
         \/ RemoveLast(s)
         \/ TryRLock(s)
         \/ UnsubscribeNotOpen(s)
         \/ UnsubscribeCheck(s)
         \/ UnsubscribeNil(s)
         \/ UnsubscribeOk(s)
         \/ UnsubscribeErr(s)
  PROVE  IInv'
<1>. USE BindingAssumption DEF IInv, lifeVars, linkVars, routerVars, resubVars
<1>1. CASE Cancel(s)
  <2>1. TypeOK'
    BY <1>1 DEF Cancel, Goto, TypeOK, Gens, LockValues, Holds, Outer, Inner, Writer,
       SubTopic
  <2>2. LockInv'
    BY <1>1, <2>1 DEF Cancel, Goto, TypeOK, LockInv, Adding, Outer, Inner, LockValues
  <2>3. GenInv'
    BY <1>1, <2>1 DEF Cancel, Goto, TypeOK, GenInv, LockInv, Gens
  <2>4. CallKeepsConn'
    BY <1>1, <2>1 DEF Cancel, Goto, TypeOK, LockInv, CallKeepsConn, Adding
  <2>5. RouterInv'
    BY <1>1, <2>1 DEF Cancel, Goto, TypeOK, GenInv, RouterInv, CallKeepsConn, RouterLocked,
       Gens
  <2>6. CoverInv'
    BY <1>1, CoverKept, GotoWanted DEF Cancel
  <2>. QED
    BY <2>1, <2>2, <2>3, <2>4, <2>5, <2>6
<1>2. CASE RemoveOneOfMany(s)
  <2>0. /\ routes' \in [Gens -> [Topics -> SUBSET Subs]]
        /\ topics' \in [Gens -> SUBSET Topics]
        /\ rmu' \in [Gens -> SUBSET Subs]
        /\ \A g \in Gens : topics'[g] \subseteq topics[g]
        /\ \A g \in Gens, t \in Topics : routes'[g][t] \subseteq routes[g][t]
        /\ RouterInv' /\ Goto(s, "removed")
    BY <1>2, TakeOutFacts DEF RemoveOneOfMany, TakeOut
  <2>1. TypeOK'
    BY <1>2, <2>0 DEF RemoveOneOfMany, Goto, TypeOK, RUnlock, LockValues
  <2>2. LockInv'
    BY <1>2, <2>0 DEF RemoveOneOfMany, Goto, LockInv, Adding, Outer, Inner, TypeOK, RUnlock
  <2>3. GenInv'
    BY <1>2, <2>0 DEF RemoveOneOfMany, GenInv, TypeOK, Gens
  <2>4. CallKeepsConn'
    BY <1>2, <2>0 DEF RemoveOneOfMany, Goto, CallKeepsConn, TypeOK
  <2>5. RouterInv'
    BY <2>0
  <2>6. CoverInv'
    <3>1. CASE conn = 0
      BY <1>2, <3>1 DEF RemoveOneOfMany, CoverInv
    <3>2. CASE conn # 0
      <4>1. gen \in Gens /\ UNCHANGED <<conn, gen, up, upc, found, lost, brokerSubs>>
        BY <1>2, <3>2 DEF RemoveOneOfMany, TypeOK, Gens
      <4>. QED
        BY <2>0, <4>1, CoverKept, GotoWanted
    <3>. QED
      BY <3>1, <3>2
  <2>. QED
    BY <2>1, <2>2, <2>3, <2>4, <2>5, <2>6
<1>3. CASE RemoveLast(s)
  <2>1. TypeOK'
    BY <1>3 DEF RemoveLast, RouterFree, LockRouter, Goto, TypeOK, Gens, LockValues, Holds,
       Outer, Inner, Writer, SubTopic
  <2>2. LockInv'
    BY <1>3, <2>1 DEF RemoveLast, RouterFree, LockRouter, Goto, TypeOK, LockInv, Adding,
       Outer, Inner, LockValues
  <2>3. GenInv'
    BY <1>3, <2>1 DEF RemoveLast, RouterFree, LockRouter, Goto, TypeOK, GenInv, LockInv,
       Gens
  <2>4. CallKeepsConn'
    BY <1>3, <2>1 DEF RemoveLast, RouterFree, LockRouter, Goto, TypeOK, LockInv,
       CallKeepsConn, Adding
  <2>5. RouterInv'
    <3>1. \A x \in Subs \ {s} : pc'[x] = pc[x] /\ (pc[x] \in RouterLocked => rgen[x] # rgen[s])
      BY <1>3, RouterExclusive DEF RemoveLast, Goto, TypeOK
    <3>2. \A x \in Subs : pc[x] \in RouterLocked => rgen[x] \in Gens
      BY CallFacts DEF RouterLocked
    <3>3. /\ rgen[s] \in Gens /\ rmu'[rgen[s]] = {s} /\ pc'[s] = "try"
          /\ \A g \in Gens : g # rgen[s] => rmu'[g] = rmu[g]
      BY <1>3, CallFacts DEF RemoveLast, LockRouter, Goto, TypeOK
    <3>. QED
      BY <1>3, <3>1, <3>2, <3>3 DEF RemoveLast, RouterInv, RouterLocked
  <2>6. CoverInv'
    BY <1>3, CoverKept, GotoWanted DEF RemoveLast
  <2>. QED
    BY <2>1, <2>2, <2>3, <2>4, <2>5, <2>6
<1>4. CASE TryRLock(s)
  <2>1. TypeOK'
    BY <1>4 DEF TryRLock, CanRLock, RLock, Goto, TypeOK, Gens, LockValues, Holds, Outer,
       Inner, Writer, SubTopic
  <2>2. LockInv'
    BY <1>4, <2>1 DEF TryRLock, CanRLock, RLock, Goto, TypeOK, LockInv, Adding, Outer,
       Inner, LockValues
  <2>3. GenInv'
    BY <1>4, <2>1 DEF TryRLock, CanRLock, RLock, Goto, TypeOK, GenInv, LockInv, Gens
  <2>4. CallKeepsConn'
    BY <1>4, <2>1 DEF TryRLock, CanRLock, RLock, Goto, TypeOK, LockInv, CallKeepsConn,
       Adding
  <2>5. RouterInv'
    BY <1>4, <2>1 DEF TryRLock, CanRLock, RLock, Goto, TypeOK, GenInv, RouterInv,
       CallKeepsConn, RouterLocked, Gens
  <2>6. CoverInv'
    BY <1>4, CoverKept, GotoWanted DEF TryRLock
  <2>. QED
    BY <2>1, <2>2, <2>3, <2>4, <2>5, <2>6
<1>5. CASE UnsubscribeNotOpen(s)
  <2>0. /\ routes' \in [Gens -> [Topics -> SUBSET Subs]]
        /\ topics' \in [Gens -> SUBSET Topics]
        /\ rmu' \in [Gens -> SUBSET Subs]
        /\ \A g \in Gens : topics'[g] \subseteq topics[g]
        /\ \A g \in Gens, t \in Topics : routes'[g][t] \subseteq routes[g][t]
        /\ RouterInv' /\ Goto(s, "removed")
    BY <1>5, TakeOutFacts DEF UnsubscribeNotOpen, TakeOut
  <2>1. TypeOK'
    BY <1>5, <2>0 DEF UnsubscribeNotOpen, Goto, TypeOK, RUnlock, LockValues
  <2>2. LockInv'
    BY <1>5, <2>0 DEF UnsubscribeNotOpen, Goto, LockInv, Adding, Outer, Inner, TypeOK,
       RUnlock
  <2>3. GenInv'
    BY <1>5, <2>0 DEF UnsubscribeNotOpen, GenInv, TypeOK, Gens
  <2>4. CallKeepsConn'
    BY <1>5, <2>0 DEF UnsubscribeNotOpen, Goto, CallKeepsConn, TypeOK
  <2>5. RouterInv'
    BY <2>0
  <2>6. CoverInv'
    BY <1>5 DEF UnsubscribeNotOpen, CoverInv
  <2>. QED
    BY <2>1, <2>2, <2>3, <2>4, <2>5, <2>6
<1>6. CASE UnsubscribeCheck(s)
  <2>1. TypeOK'
    BY <1>6 DEF UnsubscribeCheck, Goto, TypeOK, Gens, LockValues, Holds, Outer, Inner,
       Writer, SubTopic
  <2>2. LockInv'
    BY <1>6, <2>1 DEF UnsubscribeCheck, Goto, TypeOK, LockInv, Adding, Outer, Inner,
       LockValues
  <2>3. GenInv'
    BY <1>6, <2>1 DEF UnsubscribeCheck, Goto, TypeOK, GenInv, LockInv, Gens
  <2>4. CallKeepsConn'
    BY <1>6, <2>1 DEF UnsubscribeCheck, Goto, TypeOK, LockInv, CallKeepsConn, Adding
  <2>5. RouterInv'
    BY <1>6, <2>1 DEF UnsubscribeCheck, Goto, TypeOK, GenInv, RouterInv, CallKeepsConn,
       RouterLocked, Gens
  <2>6. CoverInv'
    BY <1>6, CoverKept, GotoWanted DEF UnsubscribeCheck
  <2>. QED
    BY <2>1, <2>2, <2>3, <2>4, <2>5, <2>6
<1>7. CASE UnsubscribeNil(s)
  <2>1. TypeOK'
    BY <1>7 DEF UnsubscribeNil, Goto, TypeOK, Gens, LockValues, Holds, Outer, Inner, Writer,
       SubTopic
  <2>2. LockInv'
    BY <1>7, <2>1 DEF UnsubscribeNil, Goto, TypeOK, LockInv, Adding, Outer, Inner,
       LockValues
  <2>3. GenInv'
    BY <1>7, <2>1 DEF UnsubscribeNil, Goto, TypeOK, GenInv, LockInv, Gens
  <2>4. CallKeepsConn'
    BY <1>7, <2>1 DEF UnsubscribeNil, Goto, TypeOK, LockInv, CallKeepsConn, Adding
  <2>5. RouterInv'
    BY <1>7, <2>1 DEF UnsubscribeNil, Goto, TypeOK, GenInv, RouterInv, CallKeepsConn,
       RouterLocked, Gens
  <2>6. CoverInv'
    BY <1>7, CoverKept, GotoWanted DEF UnsubscribeNil
  <2>. QED
    BY <2>1, <2>2, <2>3, <2>4, <2>5, <2>6
<1>8. CASE UnsubscribeOk(s)
  <2>0. /\ routes' \in [Gens -> [Topics -> SUBSET Subs]]
        /\ topics' \in [Gens -> SUBSET Topics]
        /\ rmu' \in [Gens -> SUBSET Subs]
        /\ \A g \in Gens : topics'[g] \subseteq topics[g]
        /\ \A g \in Gens, t \in Topics : routes'[g][t] \subseteq routes[g][t]
        /\ RouterInv' /\ Goto(s, "removed")
        /\ TopicOf[s] \notin topics'[rgen[s]]
    BY <1>8, TakeOutFacts DEF UnsubscribeOk, TakeOut
  <2>1. TypeOK'
    BY <1>8, <2>0 DEF UnsubscribeOk, Goto, TypeOK, RUnlock, LockValues
  <2>2. LockInv'
    BY <1>8, <2>0 DEF UnsubscribeOk, Goto, LockInv, Adding, Outer, Inner, TypeOK, RUnlock
  <2>3. GenInv'
    BY <1>8, <2>0 DEF UnsubscribeOk, GenInv, TypeOK, Gens
  <2>4. CallKeepsConn'
    BY <1>8, <2>0 DEF UnsubscribeOk, Goto, CallKeepsConn, TypeOK
  <2>5. RouterInv'
    BY <2>0
  <2>6. CoverInv'
    <3>1. /\ pc[s] = "unsubscribing" /\ gen \in Gens
          /\ UNCHANGED <<conn, gen, up, upc, found>>
      BY <1>8 DEF UnsubscribeOk, TypeOK, Gens
    <3>2. \A t \in Topics : Wanted(t)' => Wanted(t)
      BY <2>0, <3>1, GotoWanted
    <3>3. \A t \in Topics \ {TopicOf[s]} : Covered(t) => Covered(t)'
      BY <1>8 DEF UnsubscribeOk, Covered, SubTopic
    <3>4. CASE rgen[s] = gen
      <4>1. \A x \in Subs : pc'[x] = "publishing" => FALSE
        BY <2>0, <3>1, <3>4, RouterExclusive DEF CallKeepsConn, RouterLocked, Goto, TypeOK
      <4>2. ~Wanted(TopicOf[s])'
        BY <2>0, <3>1, <3>4, <4>1 DEF Wanted
      <4>. QED
        BY <1>8, <3>1, <3>2, <3>3, <3>4, <4>2 DEF UnsubscribeOk, CoverInv
    <3>5. CASE rgen[s] # gen
      BY <1>8, <3>1, <3>2, <3>3, <3>5 DEF UnsubscribeOk, CoverInv
    <3>. QED
      BY <3>4, <3>5
  <2>. QED
    BY <2>1, <2>2, <2>3, <2>4, <2>5, <2>6
<1>9. CASE UnsubscribeErr(s)
  <2>0. /\ routes' \in [Gens -> [Topics -> SUBSET Subs]]
        /\ topics' \in [Gens -> SUBSET Topics]
        /\ rmu' \in [Gens -> SUBSET Subs]
        /\ \A g \in Gens : topics'[g] \subseteq topics[g]
        /\ \A g \in Gens, t \in Topics : routes'[g][t] \subseteq routes[g][t]
        /\ RouterInv' /\ Goto(s, "removed")
    BY <1>9, TakeOutFacts DEF UnsubscribeErr, TakeOut
  <2>1. TypeOK'
    BY <1>9, <2>0 DEF UnsubscribeErr, Goto, TypeOK, RUnlock, LockValues
  <2>2. LockInv'
    BY <1>9, <2>0 DEF UnsubscribeErr, Goto, LockInv, Adding, Outer, Inner, TypeOK, RUnlock
  <2>3. GenInv'
    BY <1>9, <2>0 DEF UnsubscribeErr, GenInv, TypeOK, Gens
  <2>4. CallKeepsConn'
    BY <1>9, <2>0 DEF UnsubscribeErr, Goto, CallKeepsConn, TypeOK
  <2>5. RouterInv'
    BY <2>0
  <2>6. CoverInv'
    <3>1. /\ gen \in Gens /\ UNCHANGED <<conn, gen, up, upc, found>>
      BY <1>9 DEF UnsubscribeErr, TypeOK, Gens
    <3>2. \A t \in Topics : Wanted(t)' => Wanted(t)
      BY <2>0, <3>1, GotoWanted
    <3>3. CASE UNCHANGED <<brokerSubs, lost>>
      BY <3>1, <3>2, <3>3, CoverKept
    <3>4. CASE brokerSubs' = brokerSubs \ {SubTopic(s)} /\ lost' = lost \cup {TopicOf[s]}
      <4>1. \A t \in Topics \ {TopicOf[s]} : Covered(t) => Covered(t)'
        BY <3>4 DEF Covered, SubTopic
      <4>. QED
        BY <3>1, <3>2, <3>4, <4>1 DEF CoverInv
    <3>. QED
      BY <1>9, <3>3, <3>4 DEF UnsubscribeErr
  <2>. QED
    BY <2>1, <2>2, <2>3, <2>4, <2>5, <2>6
<1>. QED
  BY <1>1, <1>2, <1>3, <1>4, <1>5, <1>6, <1>7, <1>8, <1>9

(***************************************************************************)
(* The API methods that publish only (mqtt5.go:173-198, 264-278, 344-358). *)
(***************************************************************************)
LEMMA PublishKeeps ==
  ASSUME IInv, NEW p \in Pubs,
         \/ CallPublish(p)
         \/ PublishLock(p)
         \/ PublishReturn(p)
  PROVE  IInv'
<1>. USE BindingAssumption DEF IInv, lifeVars, linkVars, routerVars, resubVars
<1>1. CASE CallPublish(p)
  <2>1. TypeOK'
    BY <1>1 DEF CallPublish, TypeOK, Gens, LockValues, Holds, Outer, Inner, Writer, SubTopic
  <2>2. LockInv'
    BY <1>1, <2>1 DEF CallPublish, TypeOK, LockInv, Adding, Outer, Inner, LockValues
  <2>3. GenInv'
    BY <1>1, <2>1 DEF CallPublish, TypeOK, GenInv, LockInv, Gens
  <2>4. CallKeepsConn'
    BY <1>1, <2>1 DEF CallPublish, TypeOK, LockInv, CallKeepsConn, Adding
  <2>5. RouterInv'
    BY <1>1, <2>1 DEF CallPublish, TypeOK, GenInv, RouterInv, CallKeepsConn, RouterLocked,
       Gens
  <2>6. CoverInv'
    BY <1>1, CoverKept DEF CallPublish, Wanted
  <2>. QED
    BY <2>1, <2>2, <2>3, <2>4, <2>5, <2>6
<1>2. CASE PublishLock(p)
  <2>1. TypeOK'
    BY <1>2 DEF PublishLock, HoldRead, CanRLock, RLock, TypeOK, Gens, LockValues, Holds,
       Outer, Inner, Writer, SubTopic
  <2>2. LockInv'
    BY <1>2, <2>1 DEF PublishLock, HoldRead, CanRLock, RLock, TypeOK, LockInv, Adding,
       Outer, Inner, LockValues
  <2>3. GenInv'
    BY <1>2, <2>1 DEF PublishLock, HoldRead, CanRLock, RLock, TypeOK, GenInv, LockInv, Gens
  <2>4. CallKeepsConn'
    BY <1>2, <2>1 DEF PublishLock, HoldRead, CanRLock, RLock, TypeOK, LockInv,
       CallKeepsConn, Adding
  <2>5. RouterInv'
    BY <1>2, <2>1 DEF PublishLock, HoldRead, CanRLock, RLock, TypeOK, GenInv, RouterInv,
       CallKeepsConn, RouterLocked, Gens
  <2>6. CoverInv'
    BY <1>2, CoverKept DEF PublishLock, Wanted
  <2>. QED
    BY <2>1, <2>2, <2>3, <2>4, <2>5, <2>6
<1>3. CASE PublishReturn(p)
  <2>1. TypeOK'
    BY <1>3 DEF PublishReturn, RUnlock, TypeOK, Gens, LockValues, Holds, Outer, Inner,
       Writer, SubTopic
  <2>2. LockInv'
    BY <1>3, <2>1 DEF PublishReturn, RUnlock, TypeOK, LockInv, Adding, Outer, Inner,
       LockValues
  <2>3. GenInv'
    BY <1>3, <2>1 DEF PublishReturn, RUnlock, TypeOK, GenInv, LockInv, Gens
  <2>4. CallKeepsConn'
    BY <1>3, <2>1 DEF PublishReturn, RUnlock, TypeOK, LockInv, CallKeepsConn, Adding
  <2>5. RouterInv'
    BY <1>3, <2>1 DEF PublishReturn, RUnlock, TypeOK, GenInv, RouterInv, CallKeepsConn,
       RouterLocked, Gens
  <2>6. CoverInv'
    BY <1>3, CoverKept DEF PublishReturn, Wanted
  <2>. QED
    BY <2>1, <2>2, <2>3, <2>4, <2>5, <2>6
<1>. QED
  BY <1>1, <1>2, <1>3

(***************************************************************************)
(* The connection and OnConnectionUp (mqtt5.go:390-400, 676-697).          *)
(***************************************************************************)
LEMMA ConnectionKeeps ==
  ASSUME IInv,
         \/ Drop
         \/ Reconnect
         \/ GetTopics
         \/ ResubscribeLock
         \/ ResubscribeOk
         \/ ResubscribeErr
  PROVE  IInv'
<1>. USE BindingAssumption DEF IInv, lifeVars, linkVars, routerVars, resubVars
<1>1. CASE Drop
  <2>0. drops' \in 0..MaxDrops
    BY <1>1 DEF Drop, TypeOK
  <2>1. TypeOK'
    BY <1>1, <2>0 DEF Drop, TypeOK
  <2>2. LockInv'
    BY <1>1, <2>1 DEF Drop, TypeOK, LockInv, Adding, Outer, Inner, LockValues
  <2>3. GenInv'
    BY <1>1, <2>1 DEF Drop, TypeOK, GenInv, LockInv, Gens
  <2>4. CallKeepsConn'
    BY <1>1, <2>1 DEF Drop, TypeOK, LockInv, CallKeepsConn, Adding
  <2>5. RouterInv'
    BY <1>1, <2>1 DEF Drop, TypeOK, GenInv, RouterInv, CallKeepsConn, RouterLocked, Gens
  <2>6. CoverInv'
    BY <1>1, <2>1 DEF Drop, TypeOK, LockInv, GenInv, RouterInv, CoverInv, CallKeepsConn,
       Adding, RouterLocked, Wanted, Covered, SubTopic, Gens
  <2>. QED
    BY <2>1, <2>2, <2>3, <2>4, <2>5, <2>6
<1>2. CASE Reconnect
  <2>1. TypeOK'
    BY <1>2 DEF Reconnect, TypeOK, Gens, LockValues, Holds, Outer, Inner, Writer, SubTopic
  <2>2. LockInv'
    BY <1>2, <2>1 DEF Reconnect, TypeOK, LockInv, Adding, Outer, Inner, LockValues
  <2>3. GenInv'
    BY <1>2, <2>1 DEF Reconnect, TypeOK, GenInv, LockInv, Gens
  <2>4. CallKeepsConn'
    BY <1>2, <2>1 DEF Reconnect, TypeOK, LockInv, CallKeepsConn, Adding
  <2>5. RouterInv'
    BY <1>2, <2>1 DEF Reconnect, TypeOK, GenInv, RouterInv, CallKeepsConn, RouterLocked,
       Gens
  <2>6. CoverInv'
    BY <1>2, <2>1 DEF Reconnect, TypeOK, LockInv, GenInv, RouterInv, CoverInv,
       CallKeepsConn, Adding, RouterLocked, Wanted, Covered, SubTopic, Gens
  <2>. QED
    BY <2>1, <2>2, <2>3, <2>4, <2>5, <2>6
<1>3. CASE GetTopics
  <2>0. gen \in Gens /\ topics[gen] \subseteq Topics
    BY <1>3 DEF GetTopics, GenInv, TypeOK, Gens
  <2>1. TypeOK'
    BY <1>3, <2>0 DEF GetTopics, TypeOK
  <2>2. LockInv'
    BY <1>3, <2>1 DEF GetTopics, RouterUnlocked, TypeOK, LockInv, Adding, Outer, Inner,
       LockValues
  <2>3. GenInv'
    BY <1>3, <2>1 DEF GetTopics, RouterUnlocked, TypeOK, GenInv, LockInv, Gens
  <2>4. CallKeepsConn'
    BY <1>3, <2>1 DEF GetTopics, RouterUnlocked, TypeOK, LockInv, CallKeepsConn, Adding
  <2>5. RouterInv'
    BY <1>3, <2>1 DEF GetTopics, RouterUnlocked, TypeOK, GenInv, RouterInv, CallKeepsConn,
       RouterLocked, Gens
  <2>6. CoverInv'
    <3>1. ASSUME NEW x \in Subs, pc[x] = "publishing" PROVE FALSE
      BY <1>3, <3>1 DEF GetTopics, RouterUnlocked, RouterInv, CallKeepsConn, RouterLocked
    <3>2. \A t \in Topics : Wanted(t)' => t \in found'
      BY <1>3, <3>1 DEF GetTopics, Wanted
    <3>. QED
      BY <1>3, <3>2 DEF GetTopics, CoverInv
  <2>. QED
    BY <2>1, <2>2, <2>3, <2>4, <2>5, <2>6
<1>4. CASE ResubscribeLock
  <2>1. TypeOK'
    BY <1>4 DEF ResubscribeLock, HoldRead, CanRLock, RLock, TypeOK, Gens, LockValues, Holds,
       Outer, Inner, Writer, SubTopic
  <2>2. LockInv'
    BY <1>4, <2>1 DEF ResubscribeLock, HoldRead, CanRLock, RLock, TypeOK, LockInv, Adding,
       Outer, Inner, LockValues
  <2>3. GenInv'
    BY <1>4, <2>1 DEF ResubscribeLock, HoldRead, CanRLock, RLock, TypeOK, GenInv, LockInv,
       Gens
  <2>4. CallKeepsConn'
    BY <1>4, <2>1 DEF ResubscribeLock, HoldRead, CanRLock, RLock, TypeOK, LockInv,
       CallKeepsConn, Adding
  <2>5. RouterInv'
    BY <1>4, <2>1 DEF ResubscribeLock, HoldRead, CanRLock, RLock, TypeOK, GenInv, RouterInv,
       CallKeepsConn, RouterLocked, Gens
  <2>6. CoverInv'
    BY <1>4 DEF ResubscribeLock, CoverInv, Wanted, Covered
  <2>. QED
    BY <2>1, <2>2, <2>3, <2>4, <2>5, <2>6
<1>5. CASE ResubscribeOk
  <2>1. TypeOK'
    BY <1>5 DEF ResubscribeOk, ResubscribeEnd, Resubscribed, RUnlock, TypeOK, Gens,
       LockValues, Holds, Outer, Inner, Writer, SubTopic
  <2>2. LockInv'
    BY <1>5, <2>1 DEF ResubscribeOk, ResubscribeEnd, Resubscribed, RUnlock, TypeOK, LockInv,
       Adding, Outer, Inner, LockValues
  <2>3. GenInv'
    BY <1>5, <2>1 DEF ResubscribeOk, ResubscribeEnd, Resubscribed, RUnlock, TypeOK, GenInv,
       LockInv, Gens
  <2>4. CallKeepsConn'
    BY <1>5, <2>1 DEF ResubscribeOk, ResubscribeEnd, Resubscribed, RUnlock, TypeOK, LockInv,
       CallKeepsConn, Adding
  <2>5. RouterInv'
    BY <1>5, <2>1 DEF ResubscribeOk, ResubscribeEnd, Resubscribed, RUnlock, TypeOK, GenInv,
       RouterInv, CallKeepsConn, RouterLocked, Gens
  <2>6. CoverInv'
    <3>1. \A t \in Topics : Wanted(t)' => Wanted(t)
      BY <1>5 DEF ResubscribeOk, ResubscribeEnd, Wanted
    <3>2. \A t \in Topics : Covered(t) => Covered(t)'
      BY <1>5 DEF ResubscribeOk, Covered
    <3>3. \A t \in found : Covered(t)'
      BY <1>5 DEF ResubscribeOk, Resubscribed, Covered
    <3>. QED
      BY <1>5, <3>1, <3>2, <3>3 DEF ResubscribeOk, ResubscribeEnd, CoverInv
  <2>. QED
    BY <2>1, <2>2, <2>3, <2>4, <2>5, <2>6
<1>6. CASE ResubscribeErr
  <2>1. TypeOK'
    BY <1>6 DEF ResubscribeErr, ResubscribeEnd, Resubscribed, RUnlock, TypeOK, Gens,
       LockValues, Holds, Outer, Inner, Writer, SubTopic
  <2>2. LockInv'
    BY <1>6, <2>1 DEF ResubscribeErr, ResubscribeEnd, Resubscribed, RUnlock, TypeOK,
       LockInv, Adding, Outer, Inner, LockValues
  <2>3. GenInv'
    BY <1>6, <2>1 DEF ResubscribeErr, ResubscribeEnd, Resubscribed, RUnlock, TypeOK, GenInv,
       LockInv, Gens
  <2>4. CallKeepsConn'
    BY <1>6, <2>1 DEF ResubscribeErr, ResubscribeEnd, Resubscribed, RUnlock, TypeOK,
       LockInv, CallKeepsConn, Adding
  <2>5. RouterInv'
    BY <1>6, <2>1 DEF ResubscribeErr, ResubscribeEnd, Resubscribed, RUnlock, TypeOK, GenInv,
       RouterInv, CallKeepsConn, RouterLocked, Gens
  <2>6. CoverInv'
    <3>1. \A t \in Topics : Wanted(t)' => Wanted(t)
      BY <1>6 DEF ResubscribeErr, ResubscribeEnd, Wanted
    <3>2. \A t \in Topics : Covered(t) => Covered(t)'
      BY <1>6 DEF ResubscribeErr, Covered
    <3>. QED
      BY <1>6, <3>1, <3>2 DEF ResubscribeErr, ResubscribeEnd, CoverInv
  <2>. QED
    BY <2>1, <2>2, <2>3, <2>4, <2>5, <2>6
<1>. QED
  BY <1>1, <1>2, <1>3, <1>4, <1>5, <1>6

-----------------------------------------------------------------------------
(* The theorems.                                                           *)

(***************************************************************************)
(* A binding that has not been opened has no connection and no routes.     *)
(***************************************************************************)
LEMMA InitHolds ==
  ASSUME Init
  PROVE  IInv
<1>. USE BindingAssumption DEF Init, Gens
<1>1. TypeOK
  <2>1. bmu \in LockValues(Holds)
    BY DEF Free, LockValues
  <2>2. /\ rmu \in [Gens -> SUBSET Subs] /\ topics \in [Gens -> SUBSET Topics]
        /\ routes \in [Gens -> [Topics -> SUBSET Subs]]
    OBVIOUS
  <2>3. 0 \in 0..MaxCalls /\ 0 \in 0..MaxDrops
    OBVIOUS
  <2>4. rgen \in [Subs -> 0..MaxCalls]
    BY <2>3
  <2>. HIDE DEF Gens
  <2>. QED
    BY <2>1, <2>2, <2>3, <2>4 DEF TypeOK
<1>2. LockInv /\ GenInv /\ CallKeepsConn
  BY DEF LockInv, GenInv, CallKeepsConn, Adding
<1>3. RouterInv /\ CoverInv
  BY DEF RouterInv, RouterLocked, CoverInv
<1>. QED
  BY <1>1, <1>2, <1>3 DEF IInv

(***************************************************************************)
(* Every step of the binding, its callers and its connection.              *)
(***************************************************************************)
LEMMA NextKeeps ==
  ASSUME IInv, [Next]_vars
  PROVE  IInv'
<1>1. CASE CallLifecycle("open") \/ CallLifecycle("close") \/ LifecycleStep
  BY <1>1, LifecycleKeeps DEF LifecycleStep
<1>2. ASSUME NEW s \in Subs, Call(s) \/ AddStep(s) PROVE IInv'
  BY <1>2, AddKeeps DEF AddStep
<1>3. ASSUME NEW s \in Subs, Cancel(s) \/ RemoveStep(s) PROVE IInv'
  BY <1>3, RemoveKeeps DEF RemoveStep
<1>4. ASSUME NEW p \in Pubs, CallPublish(p) \/ PublishStep(p) PROVE IInv'
  BY <1>4, PublishKeeps DEF PublishStep
<1>5. CASE Drop \/ Reconnect \/ ResubscribeStep
  BY <1>5, ConnectionKeeps DEF ResubscribeStep
<1>6. CASE UNCHANGED vars
  <2>1. TypeOK' /\ LockInv'
    BY <1>6 DEF vars, IInv, TypeOK, LockInv
  <2>2. GenInv' /\ CallKeepsConn' /\ RouterInv'
    BY <1>6 DEF vars, IInv, GenInv, CallKeepsConn, RouterInv
  <2>3. CoverInv'
    BY <1>6, CoverKept DEF vars, IInv, Wanted
  <2>. QED
    BY <2>1, <2>2, <2>3 DEF IInv
<1>. QED
  BY <1>1, <1>2, <1>3, <1>4, <1>5, <1>6 DEF Next

(***************************************************************************)
(* The invariant holds throughout, however calls, removals, Open and Close *)
(* and reconnects interleave (mqtt5.go).                                   *)
(***************************************************************************)
THEOREM Invariant == Spec => []IInv
<1>1. Init => IInv
  BY InitHolds
<1>2. IInv /\ [Next]_vars => IInv'
  BY NextKeeps
<1>. QED
  BY <1>1, <1>2, PTL DEF Spec

(***************************************************************************)
(* Values have their types; in particular b.conn is nil or belongs to the  *)
(* routers in use (mqtt5.go:91-105, 144, 165).                            *)
(***************************************************************************)
THEOREM TypeCorrect == Spec => []TypeOK
<1>1. IInv => TypeOK
  BY DEF IInv
<1>. QED
  BY <1>1, Invariant, PTL

(***************************************************************************)
(* A call that adds a route keeps the connection and the routers it found  *)
(* under b.mu until it returns: Open and Close wait for it, although       *)
(* subscribe locks b.mu again meanwhile (mqtt5.go:205-224, 630).           *)
(***************************************************************************)
THEOREM CallsKeepConn == Spec => []CallKeepsConn
<1>1. IInv => CallKeepsConn
  BY DEF IInv
<1>. QED
  BY <1>1, Invariant, PTL

(***************************************************************************)
(* No interleaving of subscriptions, removals, lost connections and        *)
(* resubscriptions leaves a topic with channels unsubscribed, but for those*)
(* in lost (mqtt5.go:390-400, 610-697).                                    *)
(***************************************************************************)
THEOREM RoutesStayCovered == Spec => []RoutedCovered
<1>1. ASSUME IInv PROVE RoutedCovered
  <2>. SUFFICES ASSUME conn # 0, up, upc = "idle", NEW t \in Topics \ lost, routes[gen][t] # {}
                PROVE  Covered(t)
    BY DEF RoutedCovered, Covered
  <2>1. gen \in Gens
    BY <1>1, BindingAssumption DEF IInv, TypeOK, Gens
  <2>2. Wanted(t)
    BY <1>1, <2>1 DEF IInv, RouterInv, Wanted
  <2>. QED
    BY <1>1, <2>2 DEF IInv, CoverInv
<1>. QED
  BY <1>1, Invariant, PTL
=============================================================================
