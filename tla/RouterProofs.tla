---------------------------- MODULE RouterProofs ----------------------------
(***************************************************************************)
(* Proofs about Router for any number of subscribers, topics, dispatchers  *)
(* and messages and any buffer size.  The inductive invariant says who     *)
(* holds the lock (LockInv), what the map holds (RouteInv), what a         *)
(* dispatch in progress refers to (LoopInv) and whom it still owes its     *)
(* message (DueInv).  SubscribedInv and LateInv are inductive relative to  *)
(* it: what the broker knows, and how many sends a done context can still  *)
(* get.                                                                    *)
(***************************************************************************)
EXTENDS Router, FiniteSetTheorems, TLAPS

\* The lock is held as the program counters say; a reader excludes writers.
LockInv ==
  /\ lock.readers \subseteq Dispatchers
  /\ lock.pending \subseteq Subs
  /\ \A s \in Subs : s \in lock.pending => pc[s] \in {"addWant", "rmWant"}
  /\ \A s \in Subs : pc[s] \in {"subscribing", "publishing", "published",
                                "removing"} => lock.writer = {s}
  /\ lock.writer # {} => lock.readers = {} /\ lock.pending = {}
  /\ \A d \in Dispatchers : dpc[d] \in {"loop", "send"} => d \in lock.readers

\* The map holds exactly the channels that were added and not yet removed.
RouteInv ==
  /\ \A s \in Subs : s \in closed => pc[s] = "removed"
  /\ \A t \in Topics, s \in Subs :
       s \in routes[t] <=>
         TopicOf[s] = t /\ pc[s] \in {"routed", "rmWant", "removing"}
  /\ \A t \in Topics : routes[t] # {} => t \in topics
  /\ \A s \in Subs : pc[s] \in {"rmWant", "removing"} => s \in ctxDone

\* A dispatch in progress refers to registered channels only.
LoopInv ==
  \A d \in Dispatchers, s \in Subs :
    /\ dpc[d] = "send" /\ s \in target[d] => s \in routes[TopicOf[s]]
    /\ dpc[d] \in {"loop", "send"} /\ s \in todo[d] => s \in routes[TopicOf[s]]
    /\ dpc[d] # "send" => target[d] = {}
    /\ \A r \in Subs : s \in target[d] /\ r \in target[d] => s = r

\* Whom a message is owed to, before and during the loop.
DueInv ==
  \A d \in Dispatchers : \A s \in dmsg[d].due :
    /\ s \in Matching(dmsg[d].topic, dmsg[d].cid)
    /\ dpc[d] = "want" =>
         s \in ctxDone \/ pc[s] \in {"published", "routed"}
    /\ dpc[d] \in {"loop", "send"} =>
         s \in ctxDone \/ s \in todo[d] \/ s \in target[d]
           \/ dmsg[d].id \in sent[s]

\* The broker knows every topic of the map, save after a lost acknowledgement.
SubscribedInv ==
  /\ topics \subseteq brokerSubs \cup unacked
  /\ \A s \in Subs : pc[s] \in {"publishing", "published"} =>
       TopicOf[s] \in brokerSubs \cup unacked

\* The dispatchers that have passed the first select with channel s.
Sending(s) == {d \in Dispatchers : s \in target[d]}

\* Nothing is late while a context is live; once it is done, the sends that
\* were late and the ones that still can be are at most one per dispatcher.
LateInv ==
  \A s \in Subs :
    /\ s \notin ctxDone => late[s] = 0
    /\ s \in ctxDone =>
         late[s] + Cardinality(Sending(s)) <= Cardinality(Dispatchers)

USE RouteAssumption, BoundAssumption

\* The router starts with variables of their types.
LEMMA TypeInit == Init => TypeOK
  BY DEF Init, TypeOK, Free, LockValues, Messages, NoMessage

\* Every step of a goroutine, subscriber or dispatcher keeps the types.
LEMMA TypeStep == TypeOK /\ [Next]_vars => TypeOK'
<1> SUFFICES ASSUME TypeOK, [Next]_vars PROVE TypeOK'
  OBVIOUS
<1> USE DEF TypeOK, regVars, dispatchVars, Goto
<1>1. ASSUME NEW s \in Subs, Add(s) \/ Cancel(s) \/ AfterFunc(s)
      PROVE TypeOK'
  BY <1>1 DEF Add, Cancel, AfterFunc
<1>2. ASSUME NEW s \in Subs, AnnounceLock(s)
      PROVE TypeOK'
  <2>1. lock' \in LockValues(Subs \cup Dispatchers)
    BY <1>2 DEF AnnounceLock, Announce, LockValues
  <2> QED
    BY <1>2, <2>1 DEF AnnounceLock
<1>3. ASSUME NEW s \in Subs, AcquireLock(s)
      PROVE TypeOK'
  <2>1. lock' \in LockValues(Subs \cup Dispatchers)
    BY <1>3 DEF AcquireLock, Lock, LockValues
  <2> QED
    BY <1>3, <2>1 DEF AcquireLock
<1>4. ASSUME NEW s \in Subs, SubscribeOk(s)
      PROVE TypeOK'
  BY <1>4 DEF SubscribeOk
<1>5. ASSUME NEW s \in Subs, SubscribeErr(s)
      PROVE TypeOK'
  <2>1. lock' \in LockValues(Subs \cup Dispatchers)
    BY <1>5 DEF SubscribeErr, Fail, Unlock, LockValues
  <2> QED
    BY <1>5, <2>1 DEF SubscribeErr, Fail
<1>6. ASSUME NEW s \in Subs, PublishOk(s)
      PROVE TypeOK'
  BY <1>6 DEF PublishOk
<1>7. ASSUME NEW s \in Subs, PublishErr(s)
      PROVE TypeOK'
  <2>1. lock' \in LockValues(Subs \cup Dispatchers)
    BY <1>7 DEF PublishErr, Fail, Unlock, LockValues
  <2> QED
    BY <1>7, <2>1 DEF PublishErr, Fail
<1>8. ASSUME NEW s \in Subs, PublishErrUndo(s)
      PROVE TypeOK'
  <2>1. lock' \in LockValues(Subs \cup Dispatchers)
    BY <1>8 DEF PublishErrUndo, Fail, Unlock, LockValues
  <2> QED
    BY <1>8, <2>1 DEF PublishErrUndo, Fail, Unsubscribe
<1>9. ASSUME NEW s \in Subs, Register(s)
      PROVE TypeOK'
  <2>1. lock' \in LockValues(Subs \cup Dispatchers)
    BY <1>9 DEF Register, Unlock, LockValues
  <2> QED
    BY <1>9, <2>1 DEF Register
<1>10. ASSUME NEW s \in Subs, RemoveOneOfMany(s)
      PROVE TypeOK'
  <2>1. lock' \in LockValues(Subs \cup Dispatchers)
    BY <1>10 DEF RemoveOneOfMany, TakeOut, Unlock, LockValues
  <2> QED
    BY <1>10, <2>1 DEF RemoveOneOfMany, TakeOut
<1>11. ASSUME NEW s \in Subs, RemoveLast(s)
      PROVE TypeOK'
  <2>1. lock' \in LockValues(Subs \cup Dispatchers)
    BY <1>11 DEF RemoveLast, TakeOut, Unlock, LockValues
  <2> QED
    BY <1>11, <2>1 DEF RemoveLast, TakeOut, Unsubscribe
<1>12. ASSUME NEW s \in Subs, RemoveLastErr(s)
      PROVE TypeOK'
  <2>1. lock' \in LockValues(Subs \cup Dispatchers)
    BY <1>12 DEF RemoveLastErr, TakeOut, Unlock, LockValues
  <2> QED
    BY <1>12, <2>1 DEF RemoveLastErr, TakeOut, Unsubscribe
<1>13. ASSUME NEW s \in Subs, Receive(s)
      PROVE TypeOK'
  BY <1>13 DEF Receive
<1>14. ASSUME NEW d \in Dispatchers, NEW t \in Topics,
             NEW c \in Cids \cup {NoCid}, Arrive(d, t, c)
      PROVE TypeOK'
  BY <1>14 DEF Arrive, Messages, Matching
<1>15. ASSUME NEW d \in Dispatchers, DispatchLock(d)
      PROVE TypeOK'
  <2>1. lock' \in LockValues(Subs \cup Dispatchers)
    BY <1>15 DEF DispatchLock, EnterRead, RLock, LockValues
  <2> QED
    BY <1>15, <2>1 DEF DispatchLock, EnterRead, Matching, Messages
<1>16. ASSUME NEW d \in Dispatchers, DispatchUnlock(d)
      PROVE TypeOK'
  <2>1. lock' \in LockValues(Subs \cup Dispatchers)
    BY <1>16 DEF DispatchUnlock, RUnlock, LockValues
  <2> QED
    BY <1>16, <2>1 DEF DispatchUnlock
<1>17. ASSUME NEW d \in Dispatchers, NEW s \in Subs, DispatchSkip(d, s)
      PROVE TypeOK'
  BY <1>17 DEF DispatchSkip
<1>18. ASSUME NEW d \in Dispatchers, NEW s \in Subs, DispatchPick(d, s)
      PROVE TypeOK'
  BY <1>18 DEF DispatchPick, Open
<1>19. ASSUME NEW d \in Dispatchers, NEW s \in Subs, DispatchSend(d, s)
      PROVE TypeOK'
  BY <1>19 DEF DispatchSend, NextRoute, HasRoom, Messages
<1>20. ASSUME NEW d \in Dispatchers, NEW s \in Subs, DispatchAbort(d, s)
      PROVE TypeOK'
  BY <1>20 DEF DispatchAbort, NextRoute
<1>21. CASE UNCHANGED vars
  BY <1>21 DEF vars
<1> QED
  BY <1>1, <1>2, <1>3, <1>4, <1>5, <1>6, <1>7, <1>8, <1>9, <1>10, <1>11,
     <1>12, <1>13, <1>14, <1>15, <1>16, <1>17, <1>18, <1>19, <1>20, <1>21
     DEF Next, SubStep, DispatchStep

\* The functions of the state have the domains TypeOK gives them.
Domains ==
  /\ DOMAIN pc = Subs
  /\ DOMAIN routes = Topics
  /\ DOMAIN dpc = Dispatchers
  /\ DOMAIN todo = Dispatchers
  /\ DOMAIN target = Dispatchers

\* Domains follows from the types.
LEMMA DomainsOK == TypeOK => Domains
  BY DEF TypeOK, Domains

\* Every step keeps the lock consistent with the program counters.
LEMMA LockStep ==
  TypeOK /\ LockInv /\ [Next]_vars => LockInv'
<1> SUFFICES ASSUME TypeOK, LockInv, [Next]_vars
             PROVE LockInv'
  OBVIOUS
<1>t. Domains
  BY DomainsOK
<1> USE <1>t DEF Domains, regVars, dispatchVars, Goto, LockInv
<1>1. ASSUME NEW s \in Subs,
             Add(s) \/ Cancel(s) \/ AfterFunc(s) \/ Receive(s)
      PROVE LockInv'
  BY <1>1 DEF Add, Cancel, AfterFunc, Receive
<1>2. ASSUME NEW s \in Subs,
             AnnounceLock(s)
      PROVE LockInv'
  BY <1>2 DEF AnnounceLock, CanAnnounce, Announce
<1>3. ASSUME NEW s \in Subs,
             AcquireLock(s)
      PROVE LockInv'
  BY <1>3 DEF AcquireLock, CanLock, Lock
<1>4. ASSUME NEW s \in Subs,
             SubscribeOk(s) \/ PublishOk(s)
      PROVE LockInv'
  BY <1>4 DEF SubscribeOk, PublishOk
<1>5. ASSUME NEW s \in Subs,
             SubscribeErr(s)
      PROVE LockInv'
  BY <1>5 DEF SubscribeErr, Fail, Unlock
<1>6. ASSUME NEW s \in Subs,
             PublishErr(s)
      PROVE LockInv'
  BY <1>6 DEF PublishErr, Fail, Unlock
<1>7. ASSUME NEW s \in Subs,
             PublishErrUndo(s)
      PROVE LockInv'
  BY <1>7 DEF PublishErrUndo, Fail, Unlock, Unsubscribe
<1>8. ASSUME NEW s \in Subs,
             Register(s)
      PROVE LockInv'
  BY <1>8 DEF Register, Unlock
<1>9. ASSUME NEW s \in Subs,
             RemoveOneOfMany(s)
      PROVE LockInv'
  BY <1>9 DEF RemoveOneOfMany, TakeOut, Unlock
<1>10. ASSUME NEW s \in Subs,
             RemoveLast(s)
      PROVE LockInv'
  BY <1>10 DEF RemoveLast, TakeOut, Unlock, Unsubscribe
<1>11. ASSUME NEW s \in Subs,
             RemoveLastErr(s)
      PROVE LockInv'
  BY <1>11 DEF RemoveLastErr, TakeOut, Unlock, Unsubscribe
<1>12. ASSUME NEW d \in Dispatchers, NEW t \in Topics,
             NEW c \in Cids \cup {NoCid},
             Arrive(d, t, c)
      PROVE LockInv'
  BY <1>12 DEF Arrive, Messages, Matching
<1>13. ASSUME NEW d \in Dispatchers,
             DispatchLock(d)
      PROVE LockInv'
  BY <1>13 DEF DispatchLock, EnterRead, CanRLock, RLock, Matching
<1>14. ASSUME NEW d \in Dispatchers,
             DispatchUnlock(d)
      PROVE LockInv'
  BY <1>14 DEF DispatchUnlock, RUnlock
<1>15. ASSUME NEW d \in Dispatchers, NEW s \in Subs,
             DispatchSkip(d, s) \/ DispatchPick(d, s)
      PROVE LockInv'
  BY <1>15 DEF DispatchSkip, DispatchPick, Open
<1>16. ASSUME NEW d \in Dispatchers, NEW s \in Subs,
             DispatchSend(d, s) \/ DispatchAbort(d, s)
      PROVE LockInv'
  BY <1>16 DEF DispatchSend, NextRoute, DispatchAbort
<1>17. CASE UNCHANGED vars
  BY <1>17 DEF vars
<1> QED
  BY <1>1, <1>2, <1>3, <1>4, <1>5, <1>6, <1>7, <1>8, <1>9, <1>10, <1>11,
     <1>12, <1>13, <1>14, <1>15, <1>16, <1>17
     DEF Next, SubStep, DispatchStep

\* Every step keeps the map equal to the channels in use.
LEMMA RouteStep ==
  TypeOK /\ LockInv /\ RouteInv /\ [Next]_vars => RouteInv'
<1> SUFFICES ASSUME TypeOK, LockInv, RouteInv, [Next]_vars
             PROVE RouteInv'
  OBVIOUS
<1>t. Domains
  BY DomainsOK
<1> USE <1>t DEF Domains, regVars, dispatchVars, Goto, RouteInv
<1>1. ASSUME NEW s \in Subs,
             Add(s) \/ Cancel(s) \/ AfterFunc(s) \/ Receive(s)
      PROVE RouteInv'
  BY <1>1 DEF Add, Cancel, AfterFunc, Receive
<1>2. ASSUME NEW s \in Subs,
             AnnounceLock(s)
      PROVE RouteInv'
  BY <1>2 DEF AnnounceLock, CanAnnounce, Announce
<1>3. ASSUME NEW s \in Subs,
             AcquireLock(s)
      PROVE RouteInv'
  <2>1. pc[s] \in {"addWant", "rmWant"}
    BY <1>3 DEF AcquireLock, CanLock, LockInv
  <2> QED
    BY <1>3, <2>1 DEF AcquireLock
<1>4. ASSUME NEW s \in Subs,
             SubscribeOk(s) \/ PublishOk(s)
      PROVE RouteInv'
  BY <1>4 DEF SubscribeOk, PublishOk
<1>5. ASSUME NEW s \in Subs,
             SubscribeErr(s)
      PROVE RouteInv'
  BY <1>5 DEF SubscribeErr, Fail, Unlock
<1>6. ASSUME NEW s \in Subs,
             PublishErr(s)
      PROVE RouteInv'
  BY <1>6 DEF PublishErr, Fail, Unlock
<1>7. ASSUME NEW s \in Subs,
             PublishErrUndo(s)
      PROVE RouteInv'
  BY <1>7 DEF PublishErrUndo, Fail, Unlock, Unsubscribe
<1>8. ASSUME NEW s \in Subs,
             Register(s)
      PROVE RouteInv'
  BY <1>8 DEF Register, Unlock
<1>9. ASSUME NEW s \in Subs,
             RemoveOneOfMany(s)
      PROVE RouteInv'
  BY <1>9 DEF RemoveOneOfMany, TakeOut, Unlock
<1>10. ASSUME NEW s \in Subs,
             RemoveLast(s)
      PROVE RouteInv'
  BY <1>10 DEF RemoveLast, TakeOut, Unlock, Unsubscribe
<1>11. ASSUME NEW s \in Subs,
             RemoveLastErr(s)
      PROVE RouteInv'
  BY <1>11 DEF RemoveLastErr, TakeOut, Unlock, Unsubscribe
<1>12. ASSUME NEW d \in Dispatchers, NEW t \in Topics,
             NEW c \in Cids \cup {NoCid},
             Arrive(d, t, c)
      PROVE RouteInv'
  BY <1>12 DEF Arrive, Messages, Matching
<1>13. ASSUME NEW d \in Dispatchers,
             DispatchLock(d) \/ DispatchUnlock(d)
      PROVE RouteInv'
  BY <1>13 DEF DispatchLock, EnterRead, CanRLock, RLock, Matching,
         DispatchUnlock, RUnlock
<1>14. ASSUME NEW d \in Dispatchers, NEW s \in Subs,
             DispatchSkip(d, s) \/ DispatchPick(d, s) \/ DispatchSend(d, s)
               \/ DispatchAbort(d, s)
      PROVE RouteInv'
  BY <1>14 DEF DispatchSkip, DispatchPick, Open, DispatchSend, NextRoute,
         DispatchAbort
<1>15. CASE UNCHANGED vars
  BY <1>15 DEF vars
<1> QED
  BY <1>1, <1>2, <1>3, <1>4, <1>5, <1>6, <1>7, <1>8, <1>9, <1>10, <1>11,
     <1>12, <1>13, <1>14, <1>15
     DEF Next, SubStep, DispatchStep

\* A dispatch never comes to refer to a channel outside the map.
LEMMA LoopStep ==
  TypeOK /\ LockInv /\ RouteInv /\ LoopInv /\ [Next]_vars => LoopInv'
<1> SUFFICES ASSUME TypeOK, LockInv, RouteInv, LoopInv, [Next]_vars
             PROVE LoopInv'
  OBVIOUS
<1>t. Domains
  BY DomainsOK
<1> USE <1>t DEF Domains, regVars, dispatchVars, Goto, LoopInv
<1>1. ASSUME NEW s \in Subs,
             Add(s) \/ Cancel(s) \/ AfterFunc(s) \/ Receive(s)
      PROVE LoopInv'
  BY <1>1 DEF Add, Cancel, AfterFunc, Receive
<1>2. ASSUME NEW s \in Subs,
             AnnounceLock(s) \/ AcquireLock(s)
      PROVE LoopInv'
  BY <1>2 DEF AnnounceLock, CanAnnounce, Announce, AcquireLock, CanLock, Lock
<1>3. ASSUME NEW s \in Subs,
             SubscribeOk(s) \/ PublishOk(s) \/ SubscribeErr(s) \/
               PublishErr(s) \/ PublishErrUndo(s)
      PROVE LoopInv'
  BY <1>3 DEF SubscribeOk, PublishOk, SubscribeErr, Fail, Unlock, PublishErr,
         PublishErrUndo, Unsubscribe
<1>4. ASSUME NEW s \in Subs,
             Register(s)
      PROVE LoopInv'
  <2>1. \A d \in Dispatchers : dpc[d] \notin {"loop", "send"}
    BY <1>4 DEF Register, Unlock, LockInv
  <2> QED
    BY <1>4, <2>1 DEF Register, Unlock
<1>5. ASSUME NEW s \in Subs,
             RemoveOneOfMany(s)
      PROVE LoopInv'
  <2>1. \A d \in Dispatchers : dpc[d] \notin {"loop", "send"}
    BY <1>5 DEF RemoveOneOfMany, TakeOut, Unlock, LockInv
  <2> QED
    BY <1>5, <2>1 DEF RemoveOneOfMany, TakeOut, Unlock
<1>6. ASSUME NEW s \in Subs,
             RemoveLast(s)
      PROVE LoopInv'
  <2>1. \A d \in Dispatchers : dpc[d] \notin {"loop", "send"}
    BY <1>6 DEF RemoveLast, TakeOut, Unlock, Unsubscribe, LockInv
  <2> QED
    BY <1>6, <2>1 DEF RemoveLast, TakeOut, Unlock, Unsubscribe
<1>7. ASSUME NEW s \in Subs,
             RemoveLastErr(s)
      PROVE LoopInv'
  <2>1. \A d \in Dispatchers : dpc[d] \notin {"loop", "send"}
    BY <1>7 DEF RemoveLastErr, TakeOut, Unlock, Unsubscribe, LockInv
  <2> QED
    BY <1>7, <2>1 DEF RemoveLastErr, TakeOut, Unlock, Unsubscribe
<1>8. ASSUME NEW d \in Dispatchers, NEW t \in Topics,
             NEW c \in Cids \cup {NoCid},
             Arrive(d, t, c)
      PROVE LoopInv'
  BY <1>8 DEF Arrive, Messages, Matching
<1>9. ASSUME NEW d \in Dispatchers,
             DispatchLock(d)
      PROVE LoopInv'
  BY <1>9 DEF DispatchLock, EnterRead, CanRLock, RLock, Matching
<1>10. ASSUME NEW d \in Dispatchers,
             DispatchUnlock(d)
      PROVE LoopInv'
  BY <1>10 DEF DispatchUnlock, RUnlock
<1>11. ASSUME NEW d \in Dispatchers, NEW s \in Subs,
             DispatchSkip(d, s)
      PROVE LoopInv'
  BY <1>11 DEF DispatchSkip
<1>12. ASSUME NEW d \in Dispatchers, NEW s \in Subs,
             DispatchPick(d, s)
      PROVE LoopInv'
  BY <1>12 DEF DispatchPick, Open
<1>13. ASSUME NEW d \in Dispatchers, NEW s \in Subs,
             DispatchSend(d, s)
      PROVE LoopInv'
  BY <1>13 DEF DispatchSend, NextRoute
<1>14. ASSUME NEW d \in Dispatchers, NEW s \in Subs,
             DispatchAbort(d, s)
      PROVE LoopInv'
  BY <1>14 DEF DispatchAbort, NextRoute
<1>15. CASE UNCHANGED vars
  BY <1>15 DEF vars
<1> QED
  BY <1>1, <1>2, <1>3, <1>4, <1>5, <1>6, <1>7, <1>8, <1>9, <1>10, <1>11,
     <1>12, <1>13, <1>14, <1>15
     DEF Next, SubStep, DispatchStep

\* No step makes a dispatch forget whom it owes its message.
LEMMA DueStep ==
  TypeOK /\ LockInv /\ RouteInv /\ LoopInv /\ DueInv /\ [Next]_vars =>
    DueInv'
<1> SUFFICES ASSUME TypeOK, LockInv, RouteInv, LoopInv, DueInv, [Next]_vars
             PROVE DueInv'
  OBVIOUS
<1>t. /\ Domains
      /\ dmsg \in [Dispatchers -> Messages]
      /\ sent \in [Subs -> SUBSET (0..MaxMessages)]
      /\ \A d \in Dispatchers : dmsg[d].due \subseteq Subs
  BY DomainsOK DEF TypeOK, Messages
<1> USE <1>t DEF Domains, regVars, dispatchVars, Goto, DueInv, Matching
<1>1. ASSUME NEW s \in Subs,
             Add(s) \/ Cancel(s) \/ AfterFunc(s) \/ Receive(s)
      PROVE DueInv'
  BY <1>1 DEF Add, Cancel, AfterFunc, Receive
<1>2. ASSUME NEW s \in Subs,
             AnnounceLock(s)
      PROVE DueInv'
  BY <1>2 DEF AnnounceLock, CanAnnounce, Announce
<1>3. ASSUME NEW s \in Subs,
             AcquireLock(s)
      PROVE DueInv'
  <2>1. pc[s] \in {"addWant", "rmWant"}
    BY <1>3 DEF AcquireLock, CanLock, LockInv
  <2> QED
    BY <1>3, <2>1 DEF AcquireLock, RouteInv
<1>4. ASSUME NEW s \in Subs,
             SubscribeOk(s) \/ PublishOk(s)
      PROVE DueInv'
  BY <1>4 DEF SubscribeOk, PublishOk
<1>5. ASSUME NEW s \in Subs,
             SubscribeErr(s) \/ PublishErr(s) \/ PublishErrUndo(s)
      PROVE DueInv'
  BY <1>5 DEF SubscribeErr, Fail, Unlock, PublishErr, PublishErrUndo,
         Unsubscribe
<1>6. ASSUME NEW s \in Subs,
             Register(s)
      PROVE DueInv'
  BY <1>6 DEF Register, Unlock
<1>7. ASSUME NEW s \in Subs,
             RemoveOneOfMany(s) \/ RemoveLast(s) \/ RemoveLastErr(s)
      PROVE DueInv'
  BY <1>7 DEF RemoveOneOfMany, TakeOut, Unlock, RemoveLast, Unsubscribe,
         RemoveLastErr
<1>8. ASSUME NEW d \in Dispatchers, NEW t \in Topics,
             NEW c \in Cids \cup {NoCid},
             Arrive(d, t, c)
      PROVE DueInv'
  BY <1>8 DEF Arrive, Messages
<1>9. ASSUME NEW d \in Dispatchers,
             DispatchLock(d)
      PROVE DueInv'
  <2>1. \A s \in Subs : pc[s] # "published"
    BY <1>9 DEF DispatchLock, EnterRead, CanRLock, LockInv
  <2>2. \A s \in dmsg[d].due : s \in ctxDone \/ s \in routes[dmsg[d].topic]
    BY <1>9, <2>1 DEF DispatchLock, RouteInv, Messages
  <2> QED
    BY <1>9, <2>2 DEF DispatchLock
<1>10. ASSUME NEW d \in Dispatchers,
             DispatchUnlock(d)
      PROVE DueInv'
  BY <1>10 DEF DispatchUnlock, RUnlock
<1>11. ASSUME NEW d \in Dispatchers, NEW s \in Subs,
             DispatchSkip(d, s)
      PROVE DueInv'
  BY <1>11 DEF DispatchSkip
<1>12. ASSUME NEW d \in Dispatchers, NEW s \in Subs,
             DispatchPick(d, s)
      PROVE DueInv'
  <2>1. target[d] = {}
    BY <1>12 DEF DispatchPick, LoopInv
  <2> QED
    BY <1>12, <2>1 DEF DispatchPick, Open
<1>13. ASSUME NEW d \in Dispatchers, NEW s \in Subs,
             DispatchSend(d, s)
      PROVE DueInv'
  <2>1. target[d] = {s}
    BY <1>13 DEF DispatchSend, LoopInv, TypeOK
  <2> QED
    BY <1>13, <2>1 DEF DispatchSend, NextRoute
<1>14. ASSUME NEW d \in Dispatchers, NEW s \in Subs,
             DispatchAbort(d, s)
      PROVE DueInv'
  <2>1. target[d] = {s}
    BY <1>14 DEF DispatchAbort, LoopInv, TypeOK
  <2> QED
    BY <1>14, <2>1 DEF DispatchAbort, NextRoute
<1>15. CASE UNCHANGED vars
  BY <1>15 DEF vars
<1> QED
  BY <1>1, <1>2, <1>3, <1>4, <1>5, <1>6, <1>7, <1>8, <1>9, <1>10, <1>11,
     <1>12, <1>13, <1>14, <1>15
     DEF Next, SubStep, DispatchStep

\* No step takes a subscription away from a topic of the map, other than an
\* unsubscribe without acknowledgement.
LEMMA SubscribedStep ==
  TypeOK /\ LockInv /\ RouteInv /\ SubscribedInv /\ [Next]_vars
    => SubscribedInv'
<1> SUFFICES ASSUME TypeOK, LockInv, RouteInv, SubscribedInv, [Next]_vars
             PROVE  SubscribedInv'
  OBVIOUS
<1>t. Domains
  BY DomainsOK
<1> USE <1>t DEF SubscribedInv, Domains, regVars, dispatchVars, Goto
<1>1. ASSUME NEW s \in Subs, Add(s) \/ Cancel(s) \/ AfterFunc(s) \/ Receive(s)
      PROVE SubscribedInv'
  BY <1>1 DEF Add, Cancel, AfterFunc, Receive
<1>2. ASSUME NEW s \in Subs, AnnounceLock(s) \/ AcquireLock(s)
      PROVE SubscribedInv'
  BY <1>2 DEF AnnounceLock, AcquireLock
<1>3. ASSUME NEW s \in Subs, SubscribeOk(s) \/ SubscribeErr(s) \/ PublishOk(s)
                               \/ PublishErr(s) \/ Register(s)
      PROVE SubscribedInv'
  BY <1>3 DEF SubscribeOk, SubscribeErr, PublishOk, PublishErr, Register, Fail
<1>4. ASSUME NEW s \in Subs, PublishErrUndo(s) \/ RemoveLast(s)
                               \/ RemoveLastErr(s) \/ RemoveOneOfMany(s)
      PROVE SubscribedInv'
  <2>1. lock.writer = {s}
    BY <1>4 DEF PublishErrUndo, RemoveLast, RemoveLastErr, RemoveOneOfMany,
                TakeOut, LockInv
  <2>2. \A r \in Subs : pc[r] \in {"publishing", "published"} => r = s
    BY <2>1 DEF LockInv
  <2>3. CASE PublishErrUndo(s)
    BY <2>2, <2>3 DEF PublishErrUndo, Unsubscribe, Fail
  <2>4. CASE RemoveLast(s)
    BY <2>2, <2>4 DEF RemoveLast, TakeOut, Unsubscribe
  <2>5. CASE RemoveLastErr(s)
    BY <2>2, <2>5 DEF RemoveLastErr, TakeOut, Unsubscribe
  <2>6. CASE RemoveOneOfMany(s)
    BY <2>2, <2>6 DEF RemoveOneOfMany, TakeOut
  <2> QED
    BY <1>4, <2>3, <2>4, <2>5, <2>6
<1>5. ASSUME NEW d \in Dispatchers, NEW t \in Topics,
             NEW c \in Cids \cup {NoCid}, Arrive(d, t, c)
      PROVE SubscribedInv'
  BY <1>5 DEF Arrive
<1>6. ASSUME NEW d \in Dispatchers, DispatchLock(d) \/ DispatchUnlock(d)
      PROVE SubscribedInv'
  BY <1>6 DEF DispatchLock, DispatchUnlock
<1>7. ASSUME NEW d \in Dispatchers, NEW s \in Subs,
             DispatchSkip(d, s) \/ DispatchPick(d, s) \/ DispatchSend(d, s)
               \/ DispatchAbort(d, s)
      PROVE SubscribedInv'
  BY <1>7 DEF DispatchSkip, DispatchPick, DispatchSend, DispatchAbort
<1>8. CASE UNCHANGED vars
  BY <1>8 DEF vars
<1> QED
  BY <1>1, <1>2, <1>3, <1>4, <1>5, <1>6, <1>7, <1>8
     DEF Next, SubStep, DispatchStep

\* The dispatchers that are sending are finitely many, at most all of them.
LEMMA SendingFinite ==
  \A s \in Subs :
    /\ IsFiniteSet(Sending(s))
    /\ Cardinality(Sending(s)) \in Nat
    /\ Cardinality(Dispatchers) \in Nat
    /\ Cardinality(Sending(s)) <= Cardinality(Dispatchers)
<1> TAKE s \in Subs
<1>1. Sending(s) \subseteq Dispatchers
  BY DEF Sending
<1>2. /\ IsFiniteSet(Sending(s))
      /\ Cardinality(Sending(s)) <= Cardinality(Dispatchers)
  BY <1>1, FS_Subset
<1> QED
  BY <1>2, FS_CardinalityType

\* When a dispatcher comes back from the second select, one dispatcher less is
\* sending on its channel and as many as before on the others.
LEMMA SendingShrinks ==
  ASSUME TypeOK, LoopInv, NEW d \in Dispatchers, NEW s \in Subs,
         s \in target[d], NextRoute(d)
  PROVE  /\ Cardinality(Sending(s)') = Cardinality(Sending(s)) - 1
         /\ \A r \in Subs \ {s} : Sending(r)' = Sending(r)
<1>1. target[d] = {s}
  BY DEF LoopInv, TypeOK
<1>2. /\ target' = [target EXCEPT ![d] = {}]
      /\ target \in [Dispatchers -> SUBSET Subs]
  BY DEF NextRoute, TypeOK
<1>3. Sending(s)' = Sending(s) \ {d}
  BY <1>1, <1>2 DEF Sending
<1>4. d \in Sending(s) /\ IsFiniteSet(Sending(s))
  BY SendingFinite DEF Sending
<1>5. Cardinality(Sending(s)') = Cardinality(Sending(s)) - 1
  BY <1>3, <1>4, FS_RemoveElement
<1>6. ASSUME NEW r \in Subs \ {s} PROVE Sending(r)' = Sending(r)
  BY <1>1, <1>2 DEF Sending
<1> QED
  BY <1>5, <1>6

\* No step lets a done context get more sends than there are dispatchers.
LEMMA LateStep ==
  TypeOK /\ LoopInv /\ LateInv /\ [Next]_vars => LateInv'
<1> SUFFICES ASSUME TypeOK, LoopInv, LateInv, [Next]_vars
             PROVE  LateInv'
  OBVIOUS
<1>t. /\ late \in [Subs -> Nat]
      /\ target \in [Dispatchers -> SUBSET Subs]
  BY DEF TypeOK
<1>n. ASSUME UNCHANGED <<target, late, ctxDone>>
      PROVE  LateInv'
  <2>1. \A r \in Subs : Sending(r)' = Sending(r)
    BY <1>n DEF Sending
  <2> QED
    BY <1>n, <2>1 DEF LateInv
<1>1. ASSUME NEW s \in Subs, Add(s) \/ AfterFunc(s) \/ Receive(s)
      PROVE LateInv'
  BY <1>1, <1>n DEF Add, AfterFunc, Receive, dispatchVars
<1>2. ASSUME NEW s \in Subs, AnnounceLock(s) \/ AcquireLock(s)
      PROVE LateInv'
  BY <1>2, <1>n DEF AnnounceLock, AcquireLock, dispatchVars
<1>3. ASSUME NEW s \in Subs, SubscribeOk(s) \/ SubscribeErr(s) \/ PublishOk(s)
               \/ PublishErr(s) \/ PublishErrUndo(s) \/ Register(s)
      PROVE LateInv'
  BY <1>3, <1>n DEF SubscribeOk, SubscribeErr, PublishOk, PublishErr,
     PublishErrUndo, Register, dispatchVars
<1>4. ASSUME NEW s \in Subs,
             RemoveOneOfMany(s) \/ RemoveLast(s) \/ RemoveLastErr(s)
      PROVE LateInv'
  BY <1>4, <1>n DEF RemoveOneOfMany, RemoveLast, RemoveLastErr, TakeOut,
     dispatchVars
<1>5. ASSUME NEW s \in Subs, Cancel(s)
      PROVE LateInv'
  <2>1. /\ ctxDone' = ctxDone \cup {s}
        /\ s \notin ctxDone
        /\ UNCHANGED <<target, late>>
    BY <1>5 DEF Cancel, dispatchVars
  <2>2. \A r \in Subs : Sending(r)' = Sending(r)
    BY <2>1 DEF Sending
  <2>3. late[s] = 0
    BY <2>1 DEF LateInv
  <2> QED
    BY <1>t, <2>1, <2>2, <2>3, SendingFinite DEF LateInv
<1>6. ASSUME NEW d \in Dispatchers, NEW t \in Topics,
             NEW c \in Cids \cup {NoCid}, Arrive(d, t, c)
      PROVE LateInv'
  BY <1>6, <1>n DEF Arrive
<1>7. ASSUME NEW d \in Dispatchers, DispatchLock(d) \/ DispatchUnlock(d)
      PROVE LateInv'
  BY <1>7, <1>n DEF DispatchLock, DispatchUnlock
<1>8. ASSUME NEW d \in Dispatchers, NEW s \in Subs, DispatchSkip(d, s)
      PROVE LateInv'
  BY <1>8, <1>n DEF DispatchSkip
<1>9. ASSUME NEW d \in Dispatchers, NEW s \in Subs, DispatchPick(d, s)
      PROVE LateInv'
  <2>1. /\ target' = [target EXCEPT ![d] = {s}]
        /\ s \notin ctxDone
        /\ UNCHANGED <<late, ctxDone>>
    BY <1>9 DEF DispatchPick, Open
  <2>2. target[d] = {}
    BY <1>9 DEF DispatchPick, LoopInv
  <2>3. \A r \in Subs \ {s} : Sending(r)' = Sending(r)
    BY <1>t, <2>1, <2>2 DEF Sending
  <2> QED
    BY <2>1, <2>3 DEF LateInv
<1>10. ASSUME NEW d \in Dispatchers, NEW s \in Subs, DispatchSend(d, s)
      PROVE LateInv'
  <2>1. /\ s \in target[d]
        /\ NextRoute(d)
        /\ late' = [late EXCEPT ![s] = @ + IF s \in ctxDone THEN 1 ELSE 0]
        /\ UNCHANGED ctxDone
    BY <1>10 DEF DispatchSend
  <2>2. /\ Cardinality(Sending(s)') = Cardinality(Sending(s)) - 1
        /\ \A r \in Subs \ {s} : Sending(r)' = Sending(r)
    BY <2>1, SendingShrinks
  <2>3. ASSUME NEW r \in Subs \ {s}
        PROVE  late'[r] = late[r]
    BY <1>t, <2>1
  <2>4. late'[s] = late[s] + IF s \in ctxDone THEN 1 ELSE 0
    BY <1>t, <2>1
  <2>5. /\ s \notin ctxDone' => late'[s] = 0
        /\ s \in ctxDone' => late'[s] + Cardinality(Sending(s)')
                               <= Cardinality(Dispatchers)
    BY <1>t, <2>1, <2>2, <2>4, SendingFinite DEF LateInv
  <2> QED
    BY <2>1, <2>2, <2>3, <2>5 DEF LateInv
<1>11. ASSUME NEW d \in Dispatchers, NEW s \in Subs, DispatchAbort(d, s)
      PROVE LateInv'
  <2>1. /\ s \in target[d]
        /\ NextRoute(d)
        /\ UNCHANGED <<late, ctxDone>>
    BY <1>11 DEF DispatchAbort
  <2>2. /\ Cardinality(Sending(s)') = Cardinality(Sending(s)) - 1
        /\ \A r \in Subs \ {s} : Sending(r)' = Sending(r)
    BY <2>1, SendingShrinks
  <2> QED
    BY <1>t, <2>1, <2>2, SendingFinite DEF LateInv
<1>12. CASE UNCHANGED vars
  BY <1>12, <1>n DEF vars
<1> QED
  BY <1>1, <1>2, <1>3, <1>4, <1>5, <1>6, <1>7, <1>8, <1>9, <1>10, <1>11,
     <1>12 DEF Next, SubStep, DispatchStep

-----------------------------------------------------------------------------

\* Every reachable state of the router is well typed and no receive channel
\* ever holds more messages than its buffer has room for.
THEOREM TypeCorrect == Spec => []TypeOK
  BY TypeInit, TypeStep, PTL DEF Spec

\* The inductive invariant of the router.
IInv == TypeOK /\ LockInv /\ RouteInv /\ LoopInv /\ DueInv

\* The inductive invariant holds in every reachable state.
THEOREM Invariance == Spec => []IInv
<1>1. Init => IInv
  <2> SUFFICES ASSUME Init PROVE IInv
    OBVIOUS
  <2>1. TypeOK
    BY TypeInit
  <2>2. LockInv /\ RouteInv
    BY DEF Init, LockInv, RouteInv, Free
  <2>3. LoopInv
    BY DEF Init, LoopInv
  <2>4. DueInv
    BY DEF Init, DueInv, NoMessage
  <2> QED
    BY <2>1, <2>2, <2>3, <2>4 DEF IInv
<1>2. IInv /\ [Next]_vars => IInv'
  BY TypeStep, LockStep, RouteStep, LoopStep, DueStep DEF IInv
<1> QED
  BY <1>1, <1>2, PTL DEF Spec

\* dispatch never sends on a channel that remove has closed, for any number
\* of subscribers and concurrent dispatchers: the router cannot panic.
THEOREM SafeSend == Spec => []NoSendOnClosed
<1>1. IInv => NoSendOnClosed
  <2> SUFFICES ASSUME IInv, NEW d \in Dispatchers, dpc[d] = "send",
                      NEW s \in target[d] \cap closed
               PROVE  FALSE
    BY DEF NoSendOnClosed
  <2>1. s \in Subs
    BY DEF IInv, TypeOK
  <2>2. pc[s] = "removed"
    BY <2>1 DEF IInv, RouteInv
  <2>3. s \in routes[TopicOf[s]]
    BY <2>1 DEF IInv, LoopInv
  <2> QED
    BY <2>1, <2>2, <2>3 DEF IInv, RouteInv
<1> QED
  BY <1>1, Invariance, PTL

\* No message is lost between its arrival and the end of its dispatch: all
\* subscribers it was for have it or have canceled.
THEOREM Delivery == Spec => []NoLostMessage
<1>1. IInv => NoLostMessage
  BY DEF IInv, TypeOK, Messages, LoopInv, DueInv, NoLostMessage
<1> QED
  BY <1>1, Invariance, PTL

\* Every topic with a route channel is subscribed at the broker, unless an
\* unsubscribe of it was processed without acknowledgement.
THEOREM Subscription == Spec => []RoutedSubscribed
<1>1. Init => SubscribedInv
  BY DEF Init, SubscribedInv
<1>2. IInv /\ SubscribedInv /\ [Next]_vars => SubscribedInv'
  BY SubscribedStep DEF IInv
<1>3. IInv /\ SubscribedInv => RoutedSubscribed
  BY DEF IInv, RouteInv, SubscribedInv, RoutedSubscribed
<1> QED
  BY <1>1, <1>2, <1>3, Invariance, PTL DEF Spec

\* A canceled subscriber gets at most one more message from each concurrent
\* dispatch, however long its channel stays in the map.
THEOREM CancelStopsFlow == Spec => []NoFlowAfterCancel
<1>1. Init => LateInv
  BY DEF Init, LateInv
<1>2. IInv /\ LateInv /\ [Next]_vars => LateInv'
  BY LateStep DEF IInv
<1>3. IInv /\ LateInv => NoFlowAfterCancel
  <2> SUFFICES ASSUME IInv, LateInv, NEW s \in Subs
               PROVE  late[s] <= Cardinality(Dispatchers)
    BY DEF NoFlowAfterCancel
  <2>1. late[s] \in Nat
    BY DEF IInv, TypeOK
  <2> QED
    BY <2>1, SendingFinite DEF LateInv
<1> QED
  BY <1>1, <1>2, <1>3, Invariance, PTL DEF Spec
=============================================================================
