--------------------------- MODULE RaftTransport ---------------------------
(***************************************************************************)
(* The pub-sub transport between Raft nodes, services/state/raft/          *)
(* transport.go: requests and responses travel as actions and action       *)
(* results of the communication service, so they may be lost, late or      *)
(* delivered twice; every received request has a goroutine of its own      *)
(* (handleRpc) that holds shutdownMu for reading until it has answered.    *)
(***************************************************************************)
EXTENDS Naturals, FiniteSets

CONSTANTS
  Nodes,            \* Raft nodes
  Everyone,         \* destination of a leader forwarded request
  Calls,            \* invocations of ProposeInput
  MaxCalls,         \* bound: requests sent by one caller
  MaxRepeats        \* bound: deliveries that repeat an earlier one

ASSUME TransportAssumption ==
  /\ Everyone \notin Nodes
  /\ MaxCalls \in Nat
  /\ MaxRepeats \in Nat

VARIABLES
  sent,             \* requests published so far
  answers,          \* responses their invokers can still receive
  handlers,         \* goroutines that run handleRpc, with where they are
  trans             \* the transport of each node

transportVars == <<sent, answers, handlers, trans>>

Lfw == {"AddVoter", "RemoveServer", "Apply"}

\* Stands for the operations sent to one node: AppendEntries, RequestVote,
\* InstallSnapshot and TimeoutNow, which the transport treats alike.
Targeted == {"AppendEntries"}

Requests == [op: Lfw \cup Targeted, src: Nodes, dst: Nodes \cup {Everyone},
             by: Nodes \cup Calls, seq: Nat \ {0}]

\* The results that reach the invoker: a response, or an error of the leader,
\* which is always marked as retryable.
Results == {"ok", "retryable"}

\* A handler waits until a consumer takes its RPC, waits for the answer of the
\* consumer, or is finished.
Handlers == [node: Nodes, req: Requests, no: 1..(MaxRepeats + 1), pc: {"handover", "wait", "done"}]

\* A transport does not exist, works, waits for the write lock in Close, is closed.
TransStates == {"none", "up", "closing", "closed"}

TransportTypeOK ==
  /\ sent \subseteq Requests
  /\ answers \subseteq [req: Requests, result: Results]
  /\ handlers \subseteq Handlers
  /\ trans \in [Nodes -> TransStates]

TransportInit ==
  /\ sent = {}
  /\ answers = {}
  /\ handlers = {}
  /\ trans = [n \in Nodes |-> "none"]

Goto(h, pc) == handlers' = (handlers \ {h}) \cup {[h EXCEPT !.pc = pc]}

\* sendRPC publishes a request; publication may fail, see the callers.
Send(r) == sent' = sent \cup {r}

\* sendRPCResponse publishes the result of request r. Nobody gets it when the
\* invoker has given up, as its response channel is gone then.
Answer(r, result, awaited) ==
  answers' = IF awaited THEN answers \cup {[req |-> r, result |-> result]} ELSE answers

\* sendRPC returns, with a result or after its timeout.
Unsubscribe(r) == answers' = {a \in answers : a.req # r}

\* The result that sendRPC returns for r, once one has arrived.
Answered(r, result) == [req |-> r, result |-> result] \in answers

\* The loop of subscribeRpcs takes a request off the subscription and starts a
\* goroutine for it, which read-locks shutdownMu; the broker may deliver a request
\* again. Leader forwarded requests of the node itself are ignored. A goroutine
\* that meets a waiting Close is kept out and finds the transport shut down
\* afterwards: it drops its request, as if that had not been delivered.
Deliver(n, r) ==
  /\ trans[n] = "up"
  /\ IF r.op \in Lfw THEN r.src # n ELSE r.dst = n
  /\ LET i == 1 + Cardinality({h \in handlers : h.node = n /\ h.req = r}) IN
       /\ i > 1 => Cardinality({h \in handlers : h.no > 1}) < MaxRepeats
       /\ handlers' = handlers \cup {[node |-> n, req |-> r, no |-> i, pc |-> "handover"]}
  /\ UNCHANGED <<sent, answers, trans>>

\* Goroutines of node n that hold shutdownMu for reading.
Readers(n) == {h \in handlers : h.node = n /\ h.pc \in {"handover", "wait"}}

\* Close takes the write lock when the last reader has released it, and closes
\* the channels of the consumers; a second Close finds the transport shut down.
TransClose(n) ==
  /\ Readers(n) = {}
  /\ trans' = [trans EXCEPT ![n] = "closed"]
  /\ UNCHANGED <<sent, answers, handlers>>
=============================================================================
