---------------------------- MODULE RaftBinding ----------------------------
(***************************************************************************)
(* The Raft state synchronization binding, services/state/raft/raft.go, on *)
(* top of its transport: the members of a cluster that open and close,     *)
(* propose input locally or by leader forwarding with retries, and process *)
(* the requests other members forward.                                     *)
(*                                                                         *)
(* hashicorp-raft (hraft) is external. It is represented by its leader,    *)
(* its configuration and one log of committed inputs; an operation of a    *)
(* leader that loses its leadership fails with an error although its entry *)
(* may have been committed.                                                *)
(*                                                                         *)
(* b.mu is held by ProposeInput, Open and Close for their whole duration   *)
(* and by the consumer of forwarded requests for each request.             *)
(***************************************************************************)
EXTENDS RaftTransport, Sequences

CONSTANTS
  Home,             \* the node on which a call of ProposeInput is made
  Bootstrap,        \* nodes configured with bootstrap = true
  NoNode,           \* there is no leader
  NoOne,            \* nobody holds b.mu
  MaxOpens,         \* bound: times a node makes, or fails to make, a Raft node
  MaxJoins,         \* bound: requests of a node to be added
  MaxElections,     \* bound: elections of a leader
  MaxAppends        \* bound: targeted requests sent by a leader

ASSUME BindingAssumption ==
  /\ Home \in [Calls -> Nodes]
  /\ Bootstrap \subseteq Nodes /\ \A n, m \in Bootstrap : n = m    \* dda.yaml:325
  /\ NoNode \notin Nodes
  /\ MaxOpens \in Nat /\ MaxJoins \in Nat
  /\ MaxElections \in Nat
  /\ MaxAppends \in Nat

VARIABLES
  raft,             \* b.raft # nil
  mu,               \* holder of b.mu: a call, "admin" (Open, Close), or NoOne
  admin,            \* where Open or Close of a node is
  opens,            \* times Open of a node has got past its first check
  joins,            \* leader forwarded requests sent by Open and Close of a node
  lfw,              \* the goroutine processLeaderForwardedRPCs of a node
  call,             \* where a call of ProposeInput is
  tries,            \* leader forwarded requests sent for a call
  cancelled,        \* calls whose context is cancelled
  \* hraft
  running,          \* nodes whose main loop runs
  leader, members, log, elections,
  \* history
  applies,          \* times the home node of a call has applied its input itself
  ousted            \* nodes that were removed while they were not closing

bindingVars == <<raft, mu, admin, opens, joins, lfw, call, tries, cancelled>>
hraftVars == <<running, leader, members, ousted, log, elections>>
vars == <<transportVars, bindingVars, hraftVars, applies>>

TypeOK ==
  /\ TransportTypeOK
  /\ raft \in [Nodes -> BOOLEAN]
  /\ mu \in [Nodes -> Calls \cup {"admin", NoOne}]
  /\ admin \in [Nodes -> {"new", "join", "joining", "opened", "failed", "again",
                          "remove", "close", "closed", "stranded"}]
  /\ opens \in [Nodes -> 0..MaxOpens]
  /\ joins \in [Nodes -> Nat]
  /\ lfw \in [Nodes -> {"none", "idle", "lock", "ended"}]
  /\ call \in [Calls -> {"idle", "apply", "forward", "backoff", "ok", "err"}]
  /\ tries \in [Calls -> 0..MaxCalls]
  /\ cancelled \subseteq Calls
  /\ running \subseteq Nodes
  /\ leader \in Nodes \cup {NoNode}
  /\ members \subseteq Nodes /\ ousted \subseteq Nodes
  /\ log \in Seq(Calls)
  /\ elections \in 0..MaxElections
  /\ applies \in [Calls -> Nat]

Init ==
  /\ TransportInit
  /\ raft = [n \in Nodes |-> FALSE]
  /\ mu = [n \in Nodes |-> NoOne]
  /\ admin = [n \in Nodes |-> "new"]
  /\ opens = [n \in Nodes |-> 0]
  /\ joins = [n \in Nodes |-> 0]
  /\ lfw = [n \in Nodes |-> "none"]
  /\ call = [c \in Calls |-> "idle"]
  /\ tries = [c \in Calls |-> 0]
  /\ cancelled = {}
  /\ running = {} /\ leader = NoNode /\ members = {} /\ log = << >> /\ elections = 0
  /\ applies = [c \in Calls |-> 0] /\ ousted = {}

Free(n) == mu[n] = NoOne

\* Close has begun or was called last.
Leaving == {"remove", "close", "closed"}

-----------------------------------------------------------------------------
(* hraft, as the binding uses it. *)

\* A member becomes leader; a leader loses its leadership.
Elect(n) ==
  /\ leader = NoNode /\ elections < MaxElections
  /\ n \in members \cap running
  /\ leader' = n /\ elections' = elections + 1
  /\ UNCHANGED <<transportVars, bindingVars, running, members, ousted, log, applies>>

StepDown ==
  /\ leader # NoNode /\ elections < MaxElections
  /\ leader' = NoNode
  /\ UNCHANGED <<transportVars, bindingVars, running, members, ousted, log, elections, applies>>

\* Apply on the leader: the input is committed, or the leadership is lost while
\* the input is being replicated and nobody knows what becomes of it.
Apply(c, result) ==
  \/ result = "ok" /\ log' = Append(log, c) /\ UNCHANGED leader
  \/ result = "lost" /\ log' \in {log, Append(log, c)} /\ leader' = NoNode

\* AddVoter and RemoveServer on the leader.
ChangeMembers(new, result) ==
  \/ result = "ok" /\ members' = new /\ UNCHANGED leader
  \/ result = "lost" /\ members' \in {members, new} /\ leader' = NoNode

\* The leader sends a targeted request to a member of its configuration. A member
\* that is not about to shut down consumes it at once, which changes nothing here:
\* the requests that matter are those sent to a member that is closing.
Replicate(n, m, op) ==
  LET count == Cardinality({r \in sent : r.op \in Targeted}) IN
  /\ leader = n /\ m \in members \ {n}
  /\ admin[m] = "remove" /\ count < MaxAppends
  /\ Send([op |-> op, src |-> n, dst |-> m, by |-> n, seq |-> count + 1])
  /\ UNCHANGED <<answers, handlers, trans, bindingVars, hraftVars, applies>>

\* The main loop of hraft consumes a targeted request and responds; what the
\* leader makes of the response is up to hraft.
Consume(h) ==
  /\ h.pc = "handover" /\ h.req.op \in Targeted
  /\ h.node \in running
  /\ Goto(h, "done")
  /\ UNCHANGED <<sent, answers, trans, bindingVars, hraftVars, applies>>

-----------------------------------------------------------------------------
(* Handlers of the transport and the consumer of forwarded requests. *)

Receive(n, r) ==
  /\ Deliver(n, r)
  /\ UNCHANGED <<bindingVars, hraftVars, applies>>

\* The invoker of a leader forwarded request still waits for its response; Close
\* does not look at the response of RemoveServer.
Awaited(r) ==
  \/ r.op = "Apply" /\ call[r.by] = "forward" /\ tries[r.by] = r.seq
  \/ r.op = "AddVoter" /\ admin[r.by] = "joining" /\ joins[r.by] = r.seq

\* The consumer takes the RPC of a handler; lfwChan is not buffered.
LfwTake(h) ==
  /\ h.pc = "handover" /\ h.req.op \in Lfw
  /\ lfw[h.node] = "idle"
  /\ lfw' = [lfw EXCEPT ![h.node] = "lock"]
  /\ Goto(h, "wait")
  /\ UNCHANGED <<sent, answers, trans, raft, mu, admin, opens, joins, call, tries, cancelled,
                 hraftVars, applies>>

\* Mutant: the destination of the request is taken for the server to add.
MutantNewMembers(r) == IF r.op = "AddVoter" THEN members \cup {r.dst} ELSE members \ {r.src}

\* The configuration that AddVoter or RemoveServer asks for.
NewMembers(r) == IF r.op = "AddVoter" THEN members \cup {r.src} ELSE members \ {r.src}

\* Mutant: after a lost leadership the consumer tries the request again.
MutantLfwProcess(h) ==
  /\ h.pc = "wait" /\ lfw[h.node] = "lock" /\ Free(h.node)
  /\ leader = h.node /\ raft[h.node] /\ h.req.op = "Apply"
  /\ \/ /\ Apply(h.req.by, "ok") /\ Answer(h.req, "ok", Awaited(h.req))
        /\ lfw' = [lfw EXCEPT ![h.node] = "idle"] /\ Goto(h, "done")
     \/ Apply(h.req.by, "lost") /\ UNCHANGED <<answers, lfw, handlers>>
  /\ UNCHANGED <<sent, trans, raft, mu, admin, opens, joins, call, tries, cancelled,
                 running, members, ousted, elections, applies>>

\* Nodes the request removes although they are not closing: it is one of an earlier
\* life of the node, delivered or processed late, and the node has been opened again.
Ousted(r) == IF r.op = "RemoveServer" /\ admin[r.src] \notin Leaving THEN {r.src} ELSE {}

\* processLeaderForwardingRPC on the leader, followed by the response of the
\* handler: a lost leadership is reported to the invoker as a retryable error.
LfwProcess(h) ==
  /\ h.pc = "wait" /\ lfw[h.node] = "lock" /\ Free(h.node)
  /\ leader = h.node /\ raft[h.node]
  /\ \E result \in {"ok", "lost"} :
       /\ IF h.req.op = "Apply" THEN Apply(h.req.by, result) /\ UNCHANGED members
          ELSE ChangeMembers(NewMembers(h.req), result) /\ UNCHANGED log
       /\ Answer(h.req, IF result = "ok" THEN "ok" ELSE "retryable", Awaited(h.req))
  /\ ousted' = (ousted \cup Ousted(h.req)) \ members'
  /\ lfw' = [lfw EXCEPT ![h.node] = "idle"]
  /\ Goto(h, "done")
  /\ UNCHANGED <<sent, trans, raft, mu, admin, opens, joins, call, tries, cancelled,
                 running, elections, applies>>

\* A node that is not the leader does not respond, the invoker runs into its
\* timeout; a closed binding stops the consumer.
LfwIgnore(h) ==
  /\ h.pc = "wait" /\ lfw[h.node] = "lock" /\ Free(h.node)
  /\ leader # h.node \/ ~raft[h.node]
  /\ lfw' = [lfw EXCEPT ![h.node] = IF raft[h.node] THEN "idle" ELSE "ended"]
  /\ Goto(h, "done")
  /\ UNCHANGED <<sent, answers, trans, raft, mu, admin, opens, joins, call, tries, cancelled,
                 hraftVars, applies>>

\* The consumer ends when Close of the transport has closed lfwChan.
LfwEnd(n) ==
  /\ lfw[n] = "idle" /\ trans[n] = "closed"
  /\ lfw' = [lfw EXCEPT ![n] = "ended"]
  /\ UNCHANGED <<transportVars, raft, mu, admin, opens, joins, call, tries, cancelled,
                 hraftVars, applies>>

-----------------------------------------------------------------------------
(* ProposeInput. *)

CallGoto(c, pc) == call' = [call EXCEPT ![c] = pc]

Request(c) == [op |-> "Apply", src |-> Home[c], dst |-> Everyone, by |-> c, seq |-> tries[c]]

Cancel(c) ==
  /\ call[c] \in {"apply", "forward", "backoff"}
  /\ c \notin cancelled
  /\ cancelled' = cancelled \cup {c}
  /\ UNCHANGED <<transportVars, raft, mu, admin, opens, joins, lfw, call, tries, hraftVars, applies>>

\* ProposeInput is called and gets b.mu; a binding that is not open is an error.
Propose(c) ==
  /\ call[c] = "idle" /\ Free(Home[c])
  /\ IF raft[Home[c]]
     THEN CallGoto(c, "apply") /\ mu' = [mu EXCEPT ![Home[c]] = c]
     ELSE CallGoto(c, "err") /\ UNCHANGED mu
  /\ UNCHANGED <<transportVars, raft, admin, opens, joins, lfw, tries, cancelled, hraftVars, applies>>

\* Every return releases b.mu; the context of the call no longer matters then.
ProposeReturn(c, pc) ==
  /\ CallGoto(c, pc)
  /\ mu' = [mu EXCEPT ![Home[c]] = NoOne]
  /\ cancelled' = cancelled \ {c}

Retry(c) == CallGoto(c, "backoff") /\ UNCHANGED <<mu, cancelled>>

\* First try to apply locally, which works on the leader only.
ApplyLocally(c) ==
  /\ call[c] = "apply" /\ leader = Home[c]
  /\ applies' = [applies EXCEPT ![c] = @ + 1]
  /\ \/ Apply(c, "ok") /\ ProposeReturn(c, "ok")
     \/ Apply(c, "lost") /\ Retry(c)
  /\ UNCHANGED <<transportVars, raft, admin, opens, joins, lfw, tries,
                 running, members, ousted, elections>>

\* On another node forward the input to the leader.
Forward(c) ==
  /\ call[c] = "apply" /\ leader # Home[c] /\ tries[c] < MaxCalls
  /\ tries' = [tries EXCEPT ![c] = @ + 1]
  /\ Send(Request(c)')
  /\ CallGoto(c, "forward")
  /\ UNCHANGED <<answers, handlers, trans, raft, mu, admin, opens, joins, lfw, cancelled, hraftVars, applies>>

\* Publishing the request fails, with a retryable error or with another one.
ForwardFails(c) ==
  /\ call[c] = "apply" /\ leader # Home[c]
  /\ \/ Retry(c)
     \/ ProposeReturn(c, "err")
  /\ UNCHANGED <<transportVars, raft, admin, opens, joins, lfw, tries, hraftVars, applies>>

\* The response to the request arrives.
ForwardResult(c) ==
  /\ call[c] = "forward"
  /\ \/ Answered(Request(c), "ok") /\ ProposeReturn(c, "ok")
     \/ Answered(Request(c), "retryable") /\ Retry(c)
  /\ Unsubscribe(Request(c))
  /\ UNCHANGED <<sent, handlers, trans, raft, admin, opens, joins, lfw, tries, hraftVars, applies>>

\* Mutant: the deadline of the request is taken for a success.
MutantForwardTimeout(c) ==
  /\ call[c] = "forward" /\ ProposeReturn(c, "ok")
  /\ Unsubscribe(Request(c))
  /\ UNCHANGED <<sent, handlers, trans, raft, admin, opens, joins, lfw, tries, hraftVars, applies>>

\* lfwTimeout elapses; a response that arrives later belongs to a cancelled
\* publication and is dropped.
ForwardTimeout(c) ==
  /\ call[c] = "forward" /\ CallGoto(c, "backoff")
  /\ Unsubscribe(Request(c))
  /\ UNCHANGED <<sent, handlers, trans, raft, mu, admin, opens, joins, lfw, tries, cancelled, hraftVars, applies>>

\* Mutant: the context of the caller is not looked at between two attempts.
MutantBackoff(c) ==
  /\ call[c] = "backoff" /\ CallGoto(c, "apply")
  /\ UNCHANGED <<transportVars, raft, mu, admin, opens, joins, lfw, tries, cancelled, hraftVars, applies>>

\* RetryWithBackoff gives up once the context is cancelled, else it repeats.
Backoff(c) ==
  /\ call[c] = "backoff"
  /\ IF c \in cancelled THEN ProposeReturn(c, "err")
     ELSE CallGoto(c, "apply") /\ UNCHANGED <<mu, cancelled>>
  /\ UNCHANGED <<transportVars, raft, admin, opens, joins, lfw, tries, hraftVars, applies>>

CallStep(c) ==
  ApplyLocally(c) \/ Forward(c) \/ ForwardFails(c)
    \/ ForwardResult(c) \/ ForwardTimeout(c) \/ Backoff(c)

-----------------------------------------------------------------------------
(* Open and Close. *)

AdminGoto(n, pc) == admin' = [admin EXCEPT ![n] = pc]

AdminRequest(n, op) ==
  [op |-> op, src |-> n, dst |-> Everyone, by |-> n, seq |-> joins[n] + 1]

\* The latest request Open or Close of n has sent.
Pending(n, op) == [AdminRequest(n, op) EXCEPT !.seq = joins[n]]

SendByAdmin(n, op, pc) ==
  /\ joins' = [joins EXCEPT ![n] = @ + 1]
  /\ Send(AdminRequest(n, op))
  /\ AdminGoto(n, pc)
  /\ UNCHANGED <<answers, handlers, trans>>

\* After a failed Open the binding has a Raft node, so that the next Open takes it
\* for an open one and returns nil.
OpenAgain(n) ==
  /\ admin[n] = "failed" /\ Free(n) /\ raft[n]
  /\ AdminGoto(n, "again")
  /\ UNCHANGED <<transportVars, raft, mu, opens, joins, lfw, call, tries, cancelled, hraftVars, applies>>

\* Open goes past its first check: the binding is new, or closed and opened again.
BeginOpen(n) ==
  /\ admin[n] \in {"new", "closed"} /\ Free(n) /\ ~raft[n] /\ opens[n] < MaxOpens
  /\ opens' = [opens EXCEPT ![n] = @ + 1]
  /\ UNCHANGED <<sent, answers, handlers, joins, call, tries, cancelled, log, applies>>

\* Open fails at an option or at hraft, when it has opened the store and maybe made a
\* transport, but no Raft node: Close does nothing then and the locked store lets every
\* later Open fail. (A failure of the store itself leaves the binding as it was.)
OpenFails(n) ==
  /\ BeginOpen(n)
  /\ AdminGoto(n, "stranded")
  /\ trans' \in {trans, [trans EXCEPT ![n] = "up"]}
  /\ lfw' = [lfw EXCEPT ![n] = "none"]
  /\ UNCHANGED <<raft, mu, running, leader, members, ousted, elections>>

\* Who leads when the Raft node of n that has led so far, if it was n's, is gone.
LeaderWithout(n) == IF leader = n THEN NoNode ELSE leader

\* Open makes a Raft node and its transport. A node that an earlier Close has left
\* running has no transport and no store any more, and plays no part from now on.
NewRaft(n) ==
  /\ BeginOpen(n)
  /\ raft' = [raft EXCEPT ![n] = TRUE]
  /\ trans' = [trans EXCEPT ![n] = "up"]
  /\ running' = running \cup {n}
  /\ ousted' = ousted \ {n}

\* A bootstrapping node awaits its leadership. It cannot bootstrap a second time, as
\* its store keeps the configuration; a failure leaves the node running, without a
\* consumer of forwarded requests.
OpenBootstrap(n) ==
  /\ n \in Bootstrap /\ NewRaft(n)
  /\ \/ /\ members = {} /\ elections < MaxElections
        /\ members' = {n} /\ leader' = n /\ elections' = elections + 1
        /\ AdminGoto(n, "opened") /\ lfw' = [lfw EXCEPT ![n] = "idle"]
     \/ /\ members' \in {members, IF members = {} THEN {n} ELSE members}
        /\ leader' = LeaderWithout(n)
        /\ AdminGoto(n, "failed") /\ lfw' = [lfw EXCEPT ![n] = "none"]
        /\ UNCHANGED elections
  /\ UNCHANGED mu

\* Any other node, and a bootstrapping one that is opened again without that option
\* (dda.yaml:340), asks the leader to add it, with b.mu locked.
OpenJoin(n) ==
  /\ n \notin Bootstrap \/ opens[n] > 0
  /\ NewRaft(n)
  /\ AdminGoto(n, "join")
  /\ mu' = [mu EXCEPT ![n] = "admin"]
  /\ lfw' = [lfw EXCEPT ![n] = "none"]
  /\ leader' = LeaderWithout(n)
  /\ UNCHANGED <<members, elections>>

JoinSend(n) ==
  /\ admin[n] = "join"
  /\ Cardinality({r \in sent : r.op = "AddVoter" /\ r.by = n}) < MaxJoins
  /\ SendByAdmin(n, "AddVoter", "joining")
  /\ UNCHANGED <<raft, mu, opens, lfw, call, tries, cancelled, hraftVars, applies>>

\* Publishing fails with an error that is not retryable.
JoinFails(n) ==
  /\ admin[n] = "join" /\ AdminGoto(n, "failed")
  /\ mu' = [mu EXCEPT ![n] = NoOne]
  /\ UNCHANGED <<transportVars, raft, opens, joins, lfw, call, tries, cancelled, hraftVars, applies>>

Joined(n) ==
  /\ admin[n] = "joining" /\ Answered(Pending(n, "AddVoter"), "ok")
  /\ Unsubscribe(Pending(n, "AddVoter"))
  /\ AdminGoto(n, "opened")
  /\ mu' = [mu EXCEPT ![n] = NoOne]
  /\ lfw' = [lfw EXCEPT ![n] = "idle"]
  /\ UNCHANGED <<sent, handlers, trans, raft, opens, joins, call, tries, cancelled, hraftVars, applies>>

\* Mutant: a join that nobody has responded to is taken for a success.
MutantJoinAgain(n) ==
  /\ admin[n] = "joining" /\ AdminGoto(n, "opened")
  /\ mu' = [mu EXCEPT ![n] = NoOne]
  /\ lfw' = [lfw EXCEPT ![n] = "idle"]
  /\ Unsubscribe(Pending(n, "AddVoter"))
  /\ UNCHANGED <<sent, handlers, trans, raft, opens, joins, call, tries, cancelled, hraftVars, applies>>

\* The leader could not do it, or nobody has responded in time.
JoinAgain(n) ==
  /\ admin[n] = "joining" /\ AdminGoto(n, "join")
  /\ Unsubscribe(Pending(n, "AddVoter"))
  /\ UNCHANGED <<sent, handlers, trans, raft, mu, opens, joins, lfw, call, tries, cancelled, hraftVars, applies>>

\* Close is called and gets b.mu; without a Raft node it does nothing.
CallsClose(n) == admin[n] \in {"opened", "failed", "again"} /\ Free(n) /\ raft[n]

\* Close of the transport waits for the write lock of shutdownMu.
AwaitReaders(n) ==
  /\ AdminGoto(n, "close")
  /\ trans' = [trans EXCEPT ![n] = "closing"]
  /\ UNCHANGED <<sent, answers, handlers>>

\* A leader removes itself, which stops its main loop. The last voter cannot be
\* removed and a lost leadership is ignored: then the node keeps running.
CloseLeader(n) ==
  /\ CallsClose(n) /\ leader = n
  /\ mu' = [mu EXCEPT ![n] = "admin"]
  /\ \/ members # {n} /\ members' = members \ {n} /\ leader' = NoNode /\ running' = running \ {n}
     \/ members = {n} /\ UNCHANGED <<members, leader, running>>
     \/ members # {n} /\ leader' = NoNode /\ UNCHANGED <<members, running>>
  /\ AwaitReaders(n)
  /\ UNCHANGED <<raft, opens, joins, lfw, call, tries, cancelled, ousted, log, elections, applies>>

\* Any other node asks the leader to remove it.
CloseFollower(n) ==
  /\ CallsClose(n) /\ leader # n
  /\ mu' = [mu EXCEPT ![n] = "admin"]
  /\ SendByAdmin(n, "RemoveServer", "remove")
  /\ UNCHANGED <<raft, opens, lfw, call, tries, cancelled, hraftVars, applies>>

\* After the response or the timeout of the transport, whatever it says, hraft is
\* shut down: its main loop stops, then the transport is closed.
CloseShutdown(n) ==
  /\ admin[n] = "remove"
  /\ running' = running \ {n}
  /\ leader' = LeaderWithout(n)
  /\ AwaitReaders(n)
  /\ UNCHANGED <<raft, mu, opens, joins, lfw, call, tries, cancelled, members, ousted, log, elections, applies>>

\* The transport and the store are closed.
CloseReturn(n) ==
  /\ admin[n] = "close" /\ TransClose(n)
  /\ raft' = [raft EXCEPT ![n] = FALSE]
  /\ mu' = [mu EXCEPT ![n] = NoOne]
  /\ AdminGoto(n, "closed")
  /\ UNCHANGED <<opens, joins, lfw, call, tries, cancelled, hraftVars, applies>>

\* Beginnings of Open and Close, and their further steps.
AdminCall(n) ==
  OpenAgain(n) \/ OpenFails(n) \/ OpenBootstrap(n) \/ OpenJoin(n) \/ CloseLeader(n) \/ CloseFollower(n)

AdminStep(n) ==
  JoinSend(n) \/ JoinFails(n) \/ Joined(n) \/ JoinAgain(n) \/ CloseShutdown(n) \/ CloseReturn(n)

HandlerStep(h) == LfwTake(h) \/ LfwProcess(h) \/ LfwIgnore(h) \/ Consume(h)

Next ==
  \/ \E c \in Calls : Propose(c) \/ Cancel(c) \/ CallStep(c)
  \/ \E n \in Nodes : AdminCall(n) \/ AdminStep(n) \/ LfwEnd(n) \/ Elect(n)
  \/ \E n \in Nodes, r \in sent : Receive(n, r)
  \/ \E h \in handlers : HandlerStep(h)
  \/ \E n, m \in Nodes, op \in Targeted : Replicate(n, m, op)
  \/ StepDown

\* Goroutines that can go on do go on. Delivery of messages is not assumed, nor is
\* that a call is cancelled or a node opened or closed.
Fairness ==
  /\ \A c \in Calls : WF_vars(CallStep(c))
  /\ \A n \in Nodes : WF_vars(AdminStep(n)) /\ WF_vars(LfwEnd(n))
  /\ WF_vars(\E h \in handlers : HandlerStep(h))

Spec == Init /\ [][Next]_vars /\ Fairness

-----------------------------------------------------------------------------
(* Properties. *)

\* What the caller of ProposeInput sees of its call.
CallStatus == [c \in Calls |-> IF call[c] \in {"idle", "ok", "err"} THEN call[c] ELSE "pending"]

Abstract == INSTANCE StateApi WITH status <- CallStatus

(***************************************************************************)
(* Implements: whatever the network loses, repeats or delays and however   *)
(* often the leadership changes, ProposeInput (raft.go:252) behaves as     *)
(* StateApi says; it returns nil only for an input that is in the log.     *)
(***************************************************************************)
Implements == Abstract!Spec

\* Entries of the log for the input of call c.
Entries(c) == {i \in DOMAIN log : log[i] = c}

(***************************************************************************)
(* EntriesCounted: an input enters the log at most once for every local    *)
(* Apply and for every delivery of a forwarded request that has been       *)
(* processed. Only the retries of ProposeInput (raft.go:268) and the       *)
(* broker repeat an input, the consumer (raft.go:420) does not.            *)
(***************************************************************************)
EntriesCounted ==
  \A c \in Calls :
    Cardinality(Entries(c)) <=
      applies[c] + Cardinality({h \in handlers : h.req.by = c /\ h.pc = "done"})

(***************************************************************************)
(* OpenedIsMember: a node whose Open (raft.go:187) has returned nil is a   *)
(* member of the cluster until it closes, however often requests to join   *)
(* or leave are repeated, late or lost and however often it has been       *)
(* closed and opened again. There are two exceptions: NilMeansMember and   *)
(* OpenStaysMember tell them.                                              *)
(***************************************************************************)
OpenedIsMember == \A n \in Nodes : admin[n] = "opened" => n \in members \cup ousted

(***************************************************************************)
(* NilMeansMember: Open returns nil "upon successful connection or if      *)
(* already connected" (state/api/api.go:60). Violated by the Open after a  *)
(* failed one: b.raft is set by then and it returns at once (raft.go:72).  *)
(***************************************************************************)
NilMeansMember == \A n \in Nodes : admin[n] \in {"opened", "again"} => n \in members

(***************************************************************************)
(* OpenStaysMember: a member is removed from its group by Close            *)
(* (state/api/api.go:75-78) and not while it is open. Violated: a request  *)
(* RemoveServer of an earlier Close (raft.go:236) that the leader          *)
(* processes late removes the node that has joined again since.            *)
(***************************************************************************)
OpenStaysMember == \A n \in Nodes : admin[n] = "opened" => n \in members

(***************************************************************************)
(* CancelReturns: a call of ProposeInput that has locked b.mu and whose    *)
(* context is cancelled returns and releases b.mu, also when there is no   *)
(* leader and when every message is lost (raft.go:268, services.go:112).   *)
(***************************************************************************)
CancelReturns ==
  \A c \in Calls :
    (c \in cancelled /\ call[c] \in {"apply", "forward", "backoff"}) ~> call[c] \in {"ok", "err"}

(***************************************************************************)
(* CloseReturns: Close (raft.go:211) of a successfully opened node, once   *)
(* it has b.mu, disconnects the node and returns.                          *)
(***************************************************************************)
CloseReturns ==
  \A n \in Nodes :
    (admin[n] \in {"remove", "close"} /\ lfw[n] # "none") ~> admin[n] = "closed"
=============================================================================
