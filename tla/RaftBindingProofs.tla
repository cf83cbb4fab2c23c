-------------------------- MODULE RaftBindingProofs --------------------------
(***************************************************************************)
(* The Raft binding and its transport, for any number of nodes and calls,  *)
(* any changes of leadership and any loss, delay or repetition of          *)
(* messages: RaftBinding implements StateApi, so that ProposeInput behaves *)
(* as the state synchronization API promises; inputs enter the log as      *)
(* often as they are applied; and a node that has joined is a member.      *)
(***************************************************************************)
EXTENDS RaftBinding, FiniteSetTheorems, TLAPS

\* The input of call c is in the log.
InLog(c) == \E i \in 1..Len(log) : log[i] = c

Pcs == {"idle", "apply", "forward", "backoff", "ok", "err"}

CallInv == call \in [Calls -> Pcs]

LogInv == log \in Seq(Calls)

\* A forwarded input is that of a call that has begun.
SentInv == \A r \in sent : r.op = "Apply" => r.by \in Calls /\ call[r.by] # "idle"

\* What handlers process has been sent.
HandlerInv ==
  \A h \in handlers :
    /\ h = [node |-> h.node, req |-> h.req, no |-> h.no, pc |-> h.pc]
    /\ h.req \in sent

\* A response that says "ok" is about an input that is in the log.
AnswerInv ==
  \A a \in answers : a.req.op = "Apply" /\ a.result = "ok" => InLog(a.req.by)

(***************************************************************************)
(* The inductive invariant: what a caller may conclude from a response of  *)
(* the transport (transport.go:378) is true of the log.                    *)
(***************************************************************************)
IInv == CallInv /\ LogInv /\ SentInv /\ HandlerInv /\ AnswerInv

-----------------------------------------------------------------------------
(* Facts about the log. *)

(***************************************************************************)
(* Appending an input keeps those in a log and adds the new one (what      *)
(* hraft does when it accepts an input proposed by raft.go:269 or :420).   *)
(***************************************************************************)
LEMMA AppendFacts ==
  ASSUME NEW S, NEW s \in Seq(S), NEW e \in S
  PROVE  /\ Append(s, e) \in Seq(S)
         /\ Len(s) \in Nat
         /\ Len(Append(s, e)) = Len(s) + 1
         /\ \A i \in 1..Len(s) : Append(s, e)[i] = s[i]
         /\ Append(s, e)[Len(s) + 1] = e
OBVIOUS

(***************************************************************************)
(* The log only grows: whatever Apply (raft.go:269, :420) leaves behind,   *)
(* inputs of the log stay there.                                           *)
(***************************************************************************)
LEMMA LogGrows ==
  ASSUME LogInv, NEW c \in Calls, log' \in {log, Append(log, c)}
  PROVE  LogInv' /\ \A d : InLog(d) => InLog(d)'
<1>1. CASE log' = log
  BY <1>1 DEF LogInv, InLog
<1>2. CASE log' = Append(log, c)
  <2>1. LogInv'
    BY <1>2, AppendFacts DEF LogInv
  <2>2. ASSUME NEW d, InLog(d) PROVE InLog(d)'
    <3>1. PICK i \in 1..Len(log) : log[i] = d
      BY <2>2 DEF InLog
    <3>2. Len(log) \in Nat /\ Len(log') = Len(log) + 1 /\ log'[i] = log[i]
      BY <1>2, AppendFacts DEF LogInv
    <3>3. i \in 1..Len(log')
      BY <3>2
    <3>. QED
      BY <3>1, <3>2, <3>3 DEF InLog
  <2>. QED
    BY <2>1, <2>2
<1>. QED
  BY <1>1, <1>2

(***************************************************************************)
(* An input that has been appended is in the log.                          *)
(***************************************************************************)
LEMMA Appended ==
  ASSUME LogInv, NEW c \in Calls, log' = Append(log, c)
  PROVE  InLog(c)'
<1>1. Len(log) \in Nat /\ Len(log') = Len(log) + 1 /\ log'[Len(log) + 1] = c
  BY AppendFacts DEF LogInv
<1>2. Len(log) + 1 \in 1..Len(log')
  BY <1>1
<1>. QED
  BY <1>1, <1>2 DEF InLog

-----------------------------------------------------------------------------
(* Steps that do not touch the log or a call are stuttering steps of       *)
(* StateApi; they keep the invariant as long as messages are treated well. *)

\* The step concerns neither log nor calls, nor is an input forwarded.
Quiet ==
  /\ UNCHANGED <<log, call>>
  /\ \/ UNCHANGED sent
     \/ \E r : r.op # "Apply" /\ sent' = sent \cup {r}
  /\ \/ UNCHANGED handlers
     \/ \E h \in handlers : \E pc : Goto(h, pc)
     \/ \E n, r, i : r \in sent /\ handlers' = handlers \cup
                        {[node |-> n, req |-> r, no |-> i, pc |-> "handover"]}
  /\ answers' \subseteq answers

(***************************************************************************)
(* What callers see does not change in a quiet step (transport.go, Open    *)
(* and Close of raft.go).                                                  *)
(***************************************************************************)
LEMMA QuietStutters ==
  ASSUME UNCHANGED <<log, call>> PROVE UNCHANGED Abstract!vars
BY DEF Abstract!vars, CallStatus

(***************************************************************************)
(* A quiet step preserves the invariant.                                   *)
(***************************************************************************)
LEMMA QuietSafe == ASSUME IInv, Quiet PROVE IInv'
<1>1. CallInv' /\ LogInv'
  BY DEF IInv, Quiet, CallInv, LogInv
<1>2. sent \subseteq sent' /\ SentInv'
  BY DEF IInv, Quiet, SentInv
<1>3. HandlerInv'
  <2>. DEFINE Good(h) == /\ h = [node |-> h.node, req |-> h.req, no |-> h.no, pc |-> h.pc]
                         /\ h.req \in sent
  <2>1. \A h \in handlers : Good(h)
    BY DEF IInv, HandlerInv
  <2>2. \A h \in handlers' : Good(h)
    <3>1. CASE UNCHANGED handlers
      BY <2>1, <3>1
    <3>2. ASSUME NEW h \in handlers, NEW pc, Goto(h, pc) PROVE \A g \in handlers' : Good(g)
      <4>1. [h EXCEPT !.pc = pc] = [node |-> h.node, req |-> h.req, no |-> h.no, pc |-> pc]
        BY <2>1
      <4>2. Good([node |-> h.node, req |-> h.req, no |-> h.no, pc |-> pc])
        BY <2>1
      <4>. QED
        BY <2>1, <3>2, <4>1, <4>2 DEF Goto
    <3>3. ASSUME NEW n, NEW r \in sent, NEW i,
                 handlers' = handlers \cup {[node |-> n, req |-> r, no |-> i, pc |-> "handover"]}
          PROVE  \A g \in handlers' : Good(g)
      <4>1. Good([node |-> n, req |-> r, no |-> i, pc |-> "handover"])
        OBVIOUS
      <4>. QED
        BY <2>1, <3>3, <4>1
    <3>. QED
      BY <3>1, <3>2, <3>3 DEF Quiet
  <2>. QED
    BY <1>2, <2>2 DEF HandlerInv
<1>4. AnswerInv'
  BY DEF IInv, Quiet, AnswerInv, InLog
<1>. QED
  BY <1>1, <1>2, <1>3, <1>4 DEF IInv

(***************************************************************************)
(* hraft's own steps are quiet, and so are those of its main loop.         *)
(***************************************************************************)
LEMMA HraftQuiet ==
  /\ \A n \in Nodes : Elect(n) => Quiet
  /\ StepDown => Quiet
  /\ \A n, m \in Nodes, op \in Targeted : Replicate(n, m, op) => Quiet
  /\ \A h \in handlers : Consume(h) => Quiet
<1>1. ASSUME NEW n \in Nodes, Elect(n) PROVE Quiet
  BY <1>1 DEF Elect, Quiet, transportVars, bindingVars
<1>2. ASSUME StepDown PROVE Quiet
  BY <1>2 DEF StepDown, Quiet, transportVars, bindingVars
<1>3. ASSUME NEW n \in Nodes, NEW m \in Nodes, NEW op \in Targeted, Replicate(n, m, op)
      PROVE  Quiet
  <2>. DEFINE r == [op |-> op, src |-> n, dst |-> m, by |-> n,
                    seq |-> Cardinality({q \in sent : q.op \in Targeted}) + 1]
  <2>1. sent' = sent \cup {r} /\ UNCHANGED <<log, call, handlers, answers>>
    BY <1>3 DEF Replicate, Send, bindingVars, hraftVars
  <2>2. r.op # "Apply"
    BY DEF Targeted
  <2>. HIDE DEF r
  <2>. QED
    BY <2>1, <2>2 DEF Quiet
<1>4. ASSUME NEW h \in handlers, Consume(h) PROVE Quiet
  BY <1>4 DEF Consume, Quiet, bindingVars, hraftVars
<1>. QED
  BY <1>1, <1>2, <1>3, <1>4

(***************************************************************************)
(* Receiving a request, handing it over and ignoring it are quiet steps of *)
(* the transport and of the consumer (transport.go:445-645, raft.go:381).  *)
(***************************************************************************)
LEMMA ReceiverQuiet ==
  /\ \A n \in Nodes, r \in sent : Receive(n, r) => Quiet
  /\ \A h \in handlers : LfwTake(h) => Quiet
  /\ \A h \in handlers : LfwIgnore(h) => Quiet
  /\ \A n \in Nodes : LfwEnd(n) => Quiet
<1>1. ASSUME NEW n \in Nodes, NEW r \in sent, Receive(n, r) PROVE Quiet
  <2>1. PICK i : handlers' = handlers \cup
                   {[node |-> n, req |-> r, no |-> i, pc |-> "handover"]}
    BY <1>1 DEF Receive, Deliver
  <2>2. UNCHANGED <<log, call, sent, answers>>
    BY <1>1 DEF Receive, Deliver, bindingVars, hraftVars
  <2>. QED
    BY <2>1, <2>2 DEF Quiet
<1>2. ASSUME NEW h \in handlers, LfwTake(h) PROVE Quiet
  BY <1>2 DEF LfwTake, Quiet, hraftVars
<1>3. ASSUME NEW h \in handlers, LfwIgnore(h) PROVE Quiet
  BY <1>3 DEF LfwIgnore, Quiet, hraftVars
<1>4. ASSUME NEW n \in Nodes, LfwEnd(n) PROVE Quiet
  BY <1>4 DEF LfwEnd, Quiet, hraftVars, transportVars
<1>. QED
  BY <1>1, <1>2, <1>3, <1>4

(***************************************************************************)
(* Requests of Open and Close are none that forward an input.              *)
(***************************************************************************)
LEMMA AdminSends ==
  ASSUME NEW n, NEW op, op # "Apply", NEW pc, SendByAdmin(n, op, pc),
         UNCHANGED <<log, call>>
  PROVE  Quiet
<1>1. sent' = sent \cup {AdminRequest(n, op)} /\ UNCHANGED <<handlers, answers>>
  BY DEF SendByAdmin, Send
<1>2. AdminRequest(n, op).op # "Apply"
  BY DEF AdminRequest
<1>. QED
  BY <1>1, <1>2 DEF Quiet

(***************************************************************************)
(* Open and Close (raft.go:68, 211) are quiet.                             *)
(***************************************************************************)
LEMMA AdminQuiet == ASSUME NEW n \in Nodes, AdminCall(n) \/ AdminStep(n) PROVE Quiet
<1>1. CASE OpenAgain(n)
  BY <1>1 DEF OpenAgain, Quiet, transportVars, hraftVars
<1>2. CASE OpenBootstrap(n)
  BY <1>2 DEF OpenBootstrap, NewRaft, BeginOpen, Quiet
<1>3. CASE OpenJoin(n)
  BY <1>3 DEF OpenJoin, NewRaft, BeginOpen, Quiet
<1>4. CASE CloseLeader(n)
  BY <1>4 DEF CloseLeader, AwaitReaders, Quiet
<1>5. CASE CloseFollower(n)
  BY <1>5, AdminSends DEF CloseFollower, hraftVars
<1>6. CASE JoinSend(n)
  BY <1>6, AdminSends DEF JoinSend, hraftVars
<1>7. CASE JoinFails(n)
  BY <1>7 DEF JoinFails, Quiet, transportVars, hraftVars
<1>8. CASE Joined(n)
  BY <1>8 DEF Joined, Unsubscribe, Quiet, hraftVars
<1>9. CASE JoinAgain(n)
  BY <1>9 DEF JoinAgain, Unsubscribe, Quiet, hraftVars
<1>10. CASE CloseShutdown(n)
  BY <1>10 DEF CloseShutdown, AwaitReaders, Quiet
<1>11. CASE CloseReturn(n)
  BY <1>11 DEF CloseReturn, TransClose, Quiet, hraftVars
<1>12. CASE OpenFails(n)
  BY <1>12 DEF OpenFails, BeginOpen, Quiet
<1>. QED
  BY <1>1, <1>2, <1>3, <1>4, <1>5, <1>6, <1>7, <1>8, <1>9, <1>10, <1>11, <1>12
     DEF AdminCall, AdminStep

-----------------------------------------------------------------------------
(* Steps of a call. They leave requests and handlers alone, but for the    *)
(* request that Forward sends.                                             *)

(***************************************************************************)
(* The abstract view of a call whose program counter is set.               *)
(***************************************************************************)
LEMMA StatusOfCall ==
  ASSUME CallInv, NEW c \in Calls, NEW pc \in Pcs, CallGoto(c, pc)
  PROVE  /\ CallInv'
         /\ call'[c] = pc /\ \A d \in Calls \ {c} : call'[d] = call[d]
         /\ CallStatus' = [CallStatus EXCEPT ![c] =
              IF pc \in {"idle", "ok", "err"} THEN pc ELSE "pending"]
<1>1. CallInv' /\ call'[c] = pc /\ \A d \in Calls \ {c} : call'[d] = call[d]
  BY DEF CallInv, CallGoto
<1>. QED
  BY <1>1 DEF CallInv, CallStatus

(***************************************************************************)
(* A call that is not idle stays so, which keeps what is said of requests, *)
(* handlers and responses, if there are no new ones and the log grows.     *)
(***************************************************************************)
LEMMA CallSafe ==
  ASSUME IInv, NEW c \in Calls, NEW pc \in Pcs \ {"idle"}, CallGoto(c, pc),
         log' \in {log, Append(log, c)},
         UNCHANGED <<sent, handlers>>, answers' \subseteq answers
  PROVE  IInv'
<1>1. CallInv' /\ call'[c] = pc /\ \A d \in Calls \ {c} : call'[d] = call[d]
  BY StatusOfCall DEF IInv
<1>2. LogInv' /\ \A d : InLog(d) => InLog(d)'
  BY LogGrows DEF IInv
<1>3. SentInv'
  BY <1>1 DEF IInv, SentInv
<1>4. HandlerInv'
  BY DEF IInv, HandlerInv
<1>5. AnswerInv'
  BY <1>2 DEF IInv, AnswerInv
<1>. QED
  BY <1>1, <1>2, <1>3, <1>4, <1>5 DEF IInv

(***************************************************************************)
(* ProposeInput begins or is refused (raft.go:252-260).                    *)
(***************************************************************************)
LEMMA ProposeStep ==
  ASSUME IInv, NEW c \in Calls, Propose(c)
  PROVE  IInv' /\ Abstract!Next
<1>1. UNCHANGED <<log, sent, handlers, answers>> /\ call[c] = "idle" /\ CallStatus[c] = "idle"
  BY DEF Propose, transportVars, hraftVars, CallStatus
<1>2. CASE CallGoto(c, "apply")
  <2>1. IInv'
    BY <1>1, <1>2, CallSafe DEF Pcs
  <2>2. Abstract!ProposeInput(c)
    BY <1>1, <1>2, StatusOfCall DEF Abstract!ProposeInput, IInv, Pcs
  <2>. QED
    BY <2>1, <2>2 DEF Abstract!Next
<1>3. CASE CallGoto(c, "err")
  <2>1. IInv'
    BY <1>1, <1>3, CallSafe DEF Pcs
  <2>2. Abstract!Fail(c)
    BY <1>1, <1>3, StatusOfCall DEF Abstract!Fail, IInv, Pcs
  <2>. QED
    BY <2>1, <2>2 DEF Abstract!Next
<1>. QED
  BY <1>2, <1>3 DEF Propose

(***************************************************************************)
(* A call under way that goes on without touching the log stutters; one    *)
(* that gives up fails (services.go:94-123).                               *)
(***************************************************************************)
LEMMA GoOn ==
  ASSUME IInv, NEW c \in Calls, call[c] \in {"apply", "forward", "backoff"},
         NEW pc \in {"apply", "forward", "backoff", "err"}, CallGoto(c, pc), UNCHANGED log
  PROVE  [Abstract!Next]_(Abstract!vars)
<1>1. CallStatus[c] = "pending" /\ CallStatus \in [Calls -> {"idle", "ok", "err", "pending"}]
  BY DEF IInv, CallInv, CallStatus, Pcs
<1>2. CallStatus' = [CallStatus EXCEPT ![c] =
                       IF pc \in {"idle", "ok", "err"} THEN pc ELSE "pending"]
  BY StatusOfCall DEF IInv, Pcs
<1>3. CASE pc = "err"
  BY <1>1, <1>2, <1>3 DEF Abstract!Next, Abstract!Fail
<1>4. CASE pc # "err"
  <2>1. CallStatus' = CallStatus
    BY <1>1, <1>2, <1>4
  <2>. QED
    BY <2>1 DEF Abstract!vars
<1>. QED
  BY <1>3, <1>4

(***************************************************************************)
(* A call that returns nil with its input in the log succeeds.             *)
(***************************************************************************)
LEMMA Success ==
  ASSUME IInv, NEW c \in Calls, call[c] \in {"apply", "forward", "backoff"},
         CallGoto(c, "ok"), log' \in {log, Append(log, c)}, InLog(c)'
  PROVE  Abstract!Next
<1>1. CallStatus[c] = "pending"
  BY DEF CallStatus
<1>2. CallStatus' = [CallStatus EXCEPT ![c] = "ok"]
  BY StatusOfCall DEF IInv, Pcs
<1>3. (\E i \in 1..Len(log) : log[i] = c)'
  BY DEF InLog
<1>. QED
  BY <1>1, <1>2, <1>3 DEF Abstract!Next, Abstract!Succeed, Abstract!Accepted

(***************************************************************************)
(* An input that is appended while its call is not idle is accepted.       *)
(***************************************************************************)
LEMMA Acceptance ==
  ASSUME IInv, NEW c \in Calls, call[c] # "idle",
         log' \in {log, Append(log, c)}, CallStatus' = CallStatus
  PROVE  [Abstract!Next]_(Abstract!vars)
<1>1. CallStatus[c] # "idle"
  BY DEF CallStatus
<1>2. CASE log' = log
  BY <1>2 DEF Abstract!vars
<1>3. CASE log' = Append(log, c)
  BY <1>1, <1>3 DEF Abstract!Next, Abstract!Accept
<1>. QED
  BY <1>2, <1>3

(***************************************************************************)
(* Applying locally (raft.go:268-272): success, or a lost leadership that  *)
(* leaves open whether the input has been accepted.                        *)
(***************************************************************************)
LEMMA ApplyLocallyStep ==
  ASSUME IInv, NEW c \in Calls, ApplyLocally(c)
  PROVE  IInv' /\ [Abstract!Next]_(Abstract!vars)
<1>1. call[c] = "apply" /\ UNCHANGED <<sent, handlers, answers>>
  BY DEF ApplyLocally, transportVars
<1>2. CASE Apply(c, "ok") /\ ProposeReturn(c, "ok")
  <2>1. log' = Append(log, c) /\ CallGoto(c, "ok")
    BY <1>2 DEF Apply, ProposeReturn
  <2>2. InLog(c)'
    BY <2>1, Appended DEF IInv
  <2>3. IInv'
    BY <1>1, <2>1, CallSafe DEF Pcs
  <2>. QED
    BY <1>1, <2>1, <2>2, <2>3, Success
<1>3. CASE Apply(c, "lost") /\ Retry(c)
  <2>1. log' \in {log, Append(log, c)} /\ CallGoto(c, "backoff")
    BY <1>3 DEF Apply, Retry
  <2>2. IInv'
    BY <1>1, <2>1, CallSafe DEF Pcs
  <2>3. CallStatus' = CallStatus
    <3>1. CallStatus[c] = "pending" /\ CallStatus \in [Calls -> {"idle", "ok", "err", "pending"}]
      BY <1>1 DEF IInv, CallInv, CallStatus, Pcs
    <3>2. CallStatus' = [CallStatus EXCEPT ![c] = "pending"]
      BY <2>1, StatusOfCall DEF IInv, Pcs
    <3>. QED
      BY <3>1, <3>2
  <2>. QED
    BY <1>1, <2>1, <2>2, <2>3, Acceptance
<1>. QED
  BY <1>2, <1>3 DEF ApplyLocally

(***************************************************************************)
(* Forwarding sends a request for a call that has begun (raft.go:273).     *)
(***************************************************************************)
LEMMA ForwardStep ==
  ASSUME IInv, NEW c \in Calls, Forward(c)
  PROVE  IInv' /\ [Abstract!Next]_(Abstract!vars)
<1>1. call[c] = "apply" /\ CallGoto(c, "forward") /\ UNCHANGED <<log, handlers, answers>>
  BY DEF Forward, hraftVars
<1>2. CallInv' /\ call'[c] = "forward" /\ \A d \in Calls \ {c} : call'[d] = call[d]
  BY <1>1, StatusOfCall DEF IInv, Pcs
<1>3. PICK r : sent' = sent \cup {r} /\ r.by = c
  <2>. DEFINE q == [op |-> "Apply", src |-> Home[c], dst |-> Everyone,
                    by |-> c, seq |-> tries'[c]]
  <2>1. sent' = sent \cup {q}
    BY DEF Forward, Send, Request
  <2>2. q.by = c
    OBVIOUS
  <2>. HIDE DEF q
  <2>. QED
    BY <2>1, <2>2
<1>4. LogInv' /\ AnswerInv'
  BY <1>1 DEF IInv, LogInv, AnswerInv, InLog
<1>5. SentInv'
  BY <1>2, <1>3 DEF IInv, SentInv
<1>6. HandlerInv'
  BY <1>1, <1>3 DEF IInv, HandlerInv
<1>7. IInv'
  BY <1>2, <1>4, <1>5, <1>6 DEF IInv
<1>. QED
  BY <1>1, <1>7, GoOn

(***************************************************************************)
(* A request that cannot be published (transport.go:368) is retried or     *)
(* ends the call with an error.                                            *)
(***************************************************************************)
LEMMA ForwardFailsStep ==
  ASSUME IInv, NEW c \in Calls, ForwardFails(c)
  PROVE  IInv' /\ [Abstract!Next]_(Abstract!vars)
<1>1. call[c] = "apply" /\ UNCHANGED <<log, sent, handlers, answers>>
  BY DEF ForwardFails, transportVars, hraftVars
<1>2. PICK pc \in {"backoff", "err"} : CallGoto(c, pc)
  BY DEF ForwardFails, Retry, ProposeReturn
<1>. QED
  BY <1>1, <1>2, CallSafe, GoOn DEF Pcs

(***************************************************************************)
(* A response ends the call with success, if it says so, or makes it try   *)
(* again (transport.go:378-400): "ok" is believed, and rightly so.         *)
(***************************************************************************)
LEMMA ForwardResultStep ==
  ASSUME IInv, NEW c \in Calls, ForwardResult(c)
  PROVE  IInv' /\ [Abstract!Next]_(Abstract!vars)
<1>1. call[c] = "forward" /\ UNCHANGED <<log, sent, handlers>> /\ answers' \subseteq answers
  BY DEF ForwardResult, Unsubscribe, hraftVars
<1>2. CASE Answered(Request(c), "ok") /\ ProposeReturn(c, "ok")
  <2>1. CallGoto(c, "ok")
    BY <1>2 DEF ProposeReturn
  <2>2. InLog(c)'
    BY <1>1, <1>2 DEF Answered, Request, IInv, AnswerInv, InLog
  <2>3. IInv'
    BY <1>1, <2>1, CallSafe DEF Pcs
  <2>. QED
    BY <1>1, <2>1, <2>2, <2>3, Success
<1>3. CASE Retry(c)
  <2>1. CallGoto(c, "backoff")
    BY <1>3 DEF Retry
  <2>. QED
    BY <1>1, <2>1, CallSafe, GoOn DEF Pcs
<1>. QED
  BY <1>2, <1>3 DEF ForwardResult

(***************************************************************************)
(* A forwarded request runs into its timeout (raft.go:274-282).            *)
(***************************************************************************)
LEMMA ForwardTimeoutStep ==
  ASSUME IInv, NEW c \in Calls, ForwardTimeout(c)
  PROVE  IInv' /\ [Abstract!Next]_(Abstract!vars)
<1>1. /\ call[c] = "forward" /\ CallGoto(c, "backoff")
      /\ UNCHANGED <<log, sent, handlers>> /\ answers' \subseteq answers
  BY DEF ForwardTimeout, Unsubscribe, hraftVars
<1>. QED
  BY <1>1, CallSafe, GoOn DEF Pcs

(***************************************************************************)
(* RetryWithBackoff tries again or gives up (services.go:94-123).          *)
(***************************************************************************)
LEMMA BackoffStep ==
  ASSUME IInv, NEW c \in Calls, Backoff(c)
  PROVE  IInv' /\ [Abstract!Next]_(Abstract!vars)
<1>1. call[c] = "backoff" /\ UNCHANGED <<log, sent, handlers, answers>>
  BY DEF Backoff, transportVars, hraftVars
<1>2. PICK pc \in {"apply", "err"} : CallGoto(c, pc)
  BY DEF Backoff, ProposeReturn
<1>. QED
  BY <1>1, <1>2, CallSafe, GoOn DEF Pcs

(***************************************************************************)
(* The leader processes a forwarded request (raft.go:389-440): an input is *)
(* accepted or not, and "ok" is answered only in the first case.           *)
(***************************************************************************)
LEMMA LfwProcessStep ==
  ASSUME IInv, NEW h \in handlers, LfwProcess(h)
  PROVE  IInv' /\ [Abstract!Next]_(Abstract!vars)
<1>1. UNCHANGED <<sent, call>> /\ Goto(h, "done")
  BY DEF LfwProcess
<1>2. h.req \in sent /\ (h.req.op = "Apply" => h.req.by \in Calls /\ call[h.req.by] # "idle")
  BY DEF IInv, HandlerInv, SentInv
<1>3. CallInv' /\ SentInv' /\ CallStatus' = CallStatus
  BY <1>1 DEF IInv, CallInv, SentInv, CallStatus
<1>4. HandlerInv'
  <2>1. [h EXCEPT !.pc = "done"] = [node |-> h.node, req |-> h.req, no |-> h.no, pc |-> "done"]
    BY DEF IInv, HandlerInv
  <2>. QED
    BY <1>1, <1>2, <2>1 DEF IInv, HandlerInv, Goto
<1>5. PICK result \in {"ok", "lost"} :
        /\ IF h.req.op = "Apply" THEN Apply(h.req.by, result) ELSE UNCHANGED log
        /\ answers' \subseteq answers \cup
             {[req |-> h.req, result |-> IF result = "ok" THEN "ok" ELSE "retryable"]}
  BY DEF LfwProcess, Answer
<1>6. CASE h.req.op = "Apply"
  <2>1. log' \in {log, Append(log, h.req.by)}
        /\ (result = "ok" => log' = Append(log, h.req.by))
    BY <1>5, <1>6 DEF Apply
  <2>2. LogInv' /\ \A d : InLog(d) => InLog(d)'
    BY <1>2, <1>6, <2>1, LogGrows DEF IInv
  <2>3. result = "ok" => InLog(h.req.by)'
    BY <1>2, <1>6, <2>1, Appended DEF IInv
  <2>4. AnswerInv'
    <3>1. SUFFICES ASSUME NEW a \in answers', a.req.op = "Apply", a.result = "ok"
                   PROVE  InLog(a.req.by)'
      BY DEF AnswerInv
    <3>2. CASE a \in answers
      BY <2>2, <3>1, <3>2 DEF IInv, AnswerInv
    <3>3. CASE a = [req |-> h.req, result |-> IF result = "ok" THEN "ok" ELSE "retryable"]
      BY <2>3, <3>1, <3>3
    <3>. QED
      BY <1>5, <3>2, <3>3
  <2>5. [Abstract!Next]_(Abstract!vars)
    BY <1>2, <1>3, <1>6, <2>1, Acceptance
  <2>. QED
    BY <1>3, <1>4, <2>2, <2>4, <2>5 DEF IInv
<1>7. CASE h.req.op # "Apply"
  <2>1. UNCHANGED log
    BY <1>5, <1>7
  <2>2. LogInv' /\ AnswerInv'
    BY <1>5, <1>7, <2>1 DEF IInv, LogInv, AnswerInv, InLog
  <2>3. UNCHANGED Abstract!vars
    BY <1>3, <2>1 DEF Abstract!vars
  <2>. QED
    BY <1>3, <1>4, <2>2, <2>3 DEF IInv
<1>. QED
  BY <1>6, <1>7

-----------------------------------------------------------------------------
(* The theorems. *)

(***************************************************************************)
(* The program starts with the invariant, and as StateApi starts.          *)
(***************************************************************************)
LEMMA InitSafe == Init => IInv /\ Abstract!Init
<1>. SUFFICES ASSUME Init PROVE IInv /\ Abstract!Init
  OBVIOUS
<1>1. CallInv /\ LogInv
  BY DEF Init, CallInv, LogInv, Pcs
<1>2. SentInv /\ HandlerInv /\ AnswerInv
  BY DEF Init, TransportInit, SentInv, HandlerInv, AnswerInv
<1>3. Abstract!Init
  BY DEF Init, Abstract!Init, CallStatus
<1>. QED
  BY <1>1, <1>2, <1>3 DEF IInv

(***************************************************************************)
(* Every step of the binding, the transport and hraft preserves the        *)
(* invariant and is a step of StateApi or leaves what it shows unchanged.  *)
(***************************************************************************)
LEMMA NextSafe ==
  ASSUME IInv, [Next]_vars PROVE IInv' /\ [Abstract!Next]_(Abstract!vars)
<1>0. ASSUME Quiet PROVE IInv' /\ [Abstract!Next]_(Abstract!vars)
  <2>1. UNCHANGED <<log, call>>
    BY <1>0 DEF Quiet
  <2>. QED
    BY <1>0, <2>1, QuietSafe, QuietStutters
<1>1. ASSUME NEW c \in Calls, Propose(c) \/ Cancel(c) \/ CallStep(c)
      PROVE  IInv' /\ [Abstract!Next]_(Abstract!vars)
  <2>1. CASE Propose(c)
    BY <2>1, ProposeStep
  <2>2. CASE Cancel(c)
    <3>1. Quiet
      BY <2>2 DEF Cancel, Quiet, transportVars, hraftVars
    <3>. QED
      BY <1>0, <3>1
  <2>3. CASE CallStep(c)
    BY <2>3, ApplyLocallyStep, ForwardStep, ForwardFailsStep, ForwardResultStep,
       ForwardTimeoutStep, BackoffStep DEF CallStep
  <2>. QED
    BY <1>1, <2>1, <2>2, <2>3
<1>2. ASSUME NEW n \in Nodes, AdminCall(n) \/ AdminStep(n) \/ LfwEnd(n) \/ Elect(n)
      PROVE  IInv' /\ [Abstract!Next]_(Abstract!vars)
  BY <1>0, <1>2, AdminQuiet, ReceiverQuiet, HraftQuiet
<1>3. ASSUME NEW n \in Nodes, NEW r \in sent, Receive(n, r)
      PROVE  IInv' /\ [Abstract!Next]_(Abstract!vars)
  BY <1>0, <1>3, ReceiverQuiet
<1>4. ASSUME NEW h \in handlers, HandlerStep(h)
      PROVE  IInv' /\ [Abstract!Next]_(Abstract!vars)
  BY <1>0, <1>4, ReceiverQuiet, HraftQuiet, LfwProcessStep DEF HandlerStep
<1>5. ASSUME NEW n \in Nodes, NEW m \in Nodes, NEW op \in Targeted, Replicate(n, m, op)
      PROVE  IInv' /\ [Abstract!Next]_(Abstract!vars)
  BY <1>0, <1>5, HraftQuiet
<1>6. CASE StepDown
  BY <1>0, <1>6, HraftQuiet
<1>7. CASE UNCHANGED vars
  <2>1. Quiet
    BY <1>7 DEF vars, transportVars, bindingVars, hraftVars, Quiet
  <2>. QED
    BY <1>0, <2>1
<1>. QED
  BY <1>1, <1>2, <1>3, <1>4, <1>5, <1>6, <1>7 DEF Next

(***************************************************************************)
(* Invariance: in every behaviour, whatever the network does, a response   *)
(* "ok" to a forwarded input is about an input in the log, and only inputs *)
(* of calls that have begun are under way (raft.go, transport.go).         *)
(***************************************************************************)
THEOREM Invariance == Spec => []IInv
<1>1. Init => IInv
  BY InitSafe
<1>2. IInv /\ [Next]_vars => IInv'
  BY NextSafe
<1>. QED
  BY <1>1, <1>2, PTL DEF Spec

(***************************************************************************)
(* Refinement: RaftBinding implements StateApi. ProposeInput (raft.go:252) *)
(* returns nil only for an input that is in the log, for any number of     *)
(* nodes, calls, elections, retries and lost or repeated messages.         *)
(***************************************************************************)
THEOREM Refinement == Spec => Implements
<1>1. Init => Abstract!Init
  BY InitSafe
<1>2. IInv /\ [Next]_vars => [Abstract!Next]_(Abstract!vars)
  BY NextSafe
<1>. QED
  BY <1>1, <1>2, Invariance, PTL DEF Spec, Implements, Abstract!Spec

(***************************************************************************)
(* SuccessInLog: what StateApi guarantees holds of the program: a call of  *)
(* ProposeInput that has returned nil has its input in the log.            *)
(***************************************************************************)
THEOREM SuccessInLog == Spec => []Abstract!OkAccepted
<1>1. Init => Abstract!OkAccepted
  BY DEF Init, CallStatus, Abstract!OkAccepted
<1>2. ASSUME IInv, Abstract!OkAccepted, [Next]_vars PROVE Abstract!OkAccepted'
  <2>1. IInv' /\ [Abstract!Next]_(Abstract!vars)
    BY <1>2, NextSafe
  <2>2. \A d \in Calls : CallStatus[d] = "ok" => InLog(d)
    BY <1>2 DEF Abstract!OkAccepted, Abstract!Accepted, InLog
  <2>3. DOMAIN CallStatus = Calls
    BY DEF CallStatus
  <2>4. SUFFICES ASSUME NEW d \in Calls, CallStatus'[d] = "ok" PROVE InLog(d)'
    BY DEF Abstract!OkAccepted, Abstract!Accepted, InLog
  <2>5. ASSUME NEW c \in Calls, log' \in {log, Append(log, c)}, CallStatus[d] = "ok"
        PROVE  InLog(d)'
    BY <1>2, <2>2, <2>5, LogGrows DEF IInv
  <2>6. ASSUME NEW c \in Calls, Abstract!ProposeInput(c) \/ Abstract!Accept(c) \/ Abstract!Fail(c)
        PROVE  InLog(d)'
    <3>1. CallStatus[d] = "ok" /\ log' \in {log, Append(log, c)}
      BY <2>3, <2>4, <2>6 DEF Abstract!ProposeInput, Abstract!Accept, Abstract!Fail
    <3>. QED
      BY <2>5, <3>1
  <2>7. ASSUME NEW c \in Calls, Abstract!Succeed(c) PROVE InLog(d)'
    <3>1. log' \in {log, Append(log, c)} /\ InLog(c)'
      BY <2>7 DEF Abstract!Succeed, Abstract!Accepted, InLog
    <3>2. d = c \/ CallStatus[d] = "ok"
      BY <2>3, <2>4, <2>7 DEF Abstract!Succeed
    <3>. QED
      BY <2>5, <3>1, <3>2
  <2>8. CASE UNCHANGED Abstract!vars
    BY <2>2, <2>4, <2>8 DEF Abstract!vars, InLog
  <2>. QED
    BY <2>1, <2>6, <2>7, <2>8 DEF Abstract!Next
<1>. QED
  BY <1>1, <1>2, Invariance, PTL DEF Spec

-----------------------------------------------------------------------------
(* Handlers are told apart by their numbers.                               *)

\* Handlers for the deliveries of request r to node n.
Of(n, r) == {h \in handlers : h.node = n /\ h.req = r}

\* Deliveries of a request to a node are numbered from 1 on.
NumberInv ==
  /\ IsFiniteSet(handlers)
  /\ handlers \subseteq Handlers
  /\ \A g, h \in handlers : g.node = h.node /\ g.req = h.req /\ g.no = h.no => g = h
  /\ \A h \in handlers : h.no <= Cardinality(Of(h.node, h.req))

\* Handlers that have processed or ignored a request of c.
Done(c) == {h \in handlers : h.req.by = c /\ h.pc = "done"}

(***************************************************************************)
(* A handler that goes on keeps its node, request and number.              *)
(***************************************************************************)
LEMMA HandlerShape ==
  ASSUME NEW h \in Handlers, NEW pc \in {"handover", "wait", "done"}
  PROVE  /\ [h EXCEPT !.pc = pc] \in Handlers
         /\ [h EXCEPT !.pc = pc].node = h.node /\ [h EXCEPT !.pc = pc].req = h.req
         /\ [h EXCEPT !.pc = pc].no = h.no /\ [h EXCEPT !.pc = pc].pc = pc
<1>1. /\ h.node \in Nodes /\ h.req \in Requests /\ h.no \in 1..(MaxRepeats + 1)
      /\ [h EXCEPT !.pc = pc] = [node |-> h.node, req |-> h.req, no |-> h.no, pc |-> pc]
  BY DEF Handlers
<1>. QED
  BY <1>1 DEF Handlers

(***************************************************************************)
(* Deliveries of a request to a node can be counted.                       *)
(***************************************************************************)
LEMMA FiniteOf ==
  ASSUME NumberInv, NEW n, NEW r
  PROVE  IsFiniteSet(Of(n, r)) /\ Cardinality(Of(n, r)) \in Nat
<1>1. Of(n, r) \in SUBSET handlers
  BY DEF Of
<1>. QED
  BY <1>1, FS_Subset, FS_CardinalityType DEF NumberInv

(***************************************************************************)
(* Finished handlers can be counted.                                       *)
(***************************************************************************)
LEMMA FiniteDone ==
  ASSUME NumberInv, NEW c
  PROVE  IsFiniteSet(Done(c)) /\ Cardinality(Done(c)) \in Nat
<1>1. Done(c) \in SUBSET handlers
  BY DEF Done
<1>. QED
  BY <1>1, FS_Subset, FS_CardinalityType DEF NumberInv

(***************************************************************************)
(* A handler that goes on (transport.go:520-645) is still told apart from  *)
(* all others.                                                             *)
(***************************************************************************)
LEMMA GotoNumber ==
  ASSUME NumberInv, NEW h \in handlers, NEW pc \in {"wait", "done"}, h.pc # pc, Goto(h, pc)
  PROVE  NumberInv' /\ [h EXCEPT !.pc = pc] \notin handlers
<1>. DEFINE g == [h EXCEPT !.pc = pc]
<1>1. /\ h \in Handlers /\ h.no \in Nat
  BY TransportAssumption DEF NumberInv, Handlers
<1>2. g \in Handlers /\ g.node = h.node /\ g.req = h.req /\ g.no = h.no /\ g.pc = pc
  <2>1. pc \in {"handover", "wait", "done"}
    OBVIOUS
  <2>. QED
    BY <1>1, <2>1, HandlerShape, Zenon
<1>3. handlers' = (handlers \ {h}) \cup {g}
  BY DEF Goto
<1>. HIDE DEF g
<1>4. g \notin handlers
  BY <1>2 DEF NumberInv
<1>5. IsFiniteSet(handlers')
  BY <1>3, FS_RemoveElement, FS_AddElement DEF NumberInv
<1>6. handlers' \subseteq Handlers
  BY <1>2, <1>3 DEF NumberInv
<1>7. \A x, y \in handlers' : x.node = y.node /\ x.req = y.req /\ x.no = y.no => x = y
  BY <1>2, <1>3 DEF NumberInv
<1>8. ASSUME NEW n, NEW r PROVE Cardinality(Of(n, r)') = Cardinality(Of(n, r))
  <2>1. CASE n = h.node /\ r = h.req
    <3>1. Of(n, r)' = (Of(n, r) \ {h}) \cup {g} /\ h \in Of(n, r) /\ g \notin Of(n, r)
      BY <1>2, <1>3, <1>4, <2>1 DEF Of
    <3>2. IsFiniteSet(Of(n, r) \ {h}) /\ Cardinality(Of(n, r) \ {h}) = Cardinality(Of(n, r)) - 1
      BY <3>1, FiniteOf, FS_RemoveElement
    <3>3. Cardinality((Of(n, r) \ {h}) \cup {g}) = Cardinality(Of(n, r) \ {h}) + 1
      BY <3>1, <3>2, FS_AddElement
    <3>. QED
      BY <3>1, <3>2, <3>3, FiniteOf
  <2>2. CASE ~(n = h.node /\ r = h.req)
    <3>1. Of(n, r)' = Of(n, r)
      BY <1>2, <1>3, <2>2 DEF Of
    <3>. QED
      BY <3>1
  <2>. QED
    BY <2>1, <2>2
<1>9. \A x \in handlers' : x.no <= Cardinality(Of(x.node, x.req)')
  BY <1>2, <1>3, <1>8 DEF NumberInv
<1>10. (\A x \in handlers : x.no <= Cardinality(Of(x.node, x.req)))'
  BY <1>9
<1>. QED
  BY <1>4, <1>5, <1>6, <1>7, <1>10 DEF NumberInv, g

(***************************************************************************)
(* A delivery (transport.go:445-470) gets the next number, which is within *)
(* the bound on repetitions.                                               *)
(***************************************************************************)
LEMMA DeliverNumber ==
  ASSUME NumberInv, NEW n \in Nodes, NEW r \in Requests, Deliver(n, r)
  PROVE  NumberInv' /\ handlers \subseteq handlers'
<1>. DEFINE i == 1 + Cardinality(Of(n, r))
            g == [node |-> n, req |-> r, no |-> i, pc |-> "handover"]
            Again == {h \in handlers : h.no > 1}
            One == {h \in Of(n, r) : h.no = 1}
            More == {h \in Of(n, r) : h.no > 1}
<1>1. i > 1 => Cardinality(Again) < MaxRepeats
  BY DEF Deliver, Of
<1>2. handlers' = handlers \cup {g}
  BY DEF Deliver, Of
<1>3. IsFiniteSet(Of(n, r)) /\ Cardinality(Of(n, r)) \in Nat
  BY FiniteOf
<1>4. \A h \in handlers : h.no \in Nat /\ h.no >= 1
  BY TransportAssumption DEF NumberInv, Handlers
<1>5. i \in 1..(MaxRepeats + 1)
  <2>1. Again \in SUBSET handlers /\ More \in SUBSET Again /\ One \in SUBSET Of(n, r)
    BY DEF Of
  <2>2. IsFiniteSet(Again) /\ IsFiniteSet(More)
    <3>. HIDE DEF Again, More
    <3>. QED
      BY <2>1, FS_Subset DEF NumberInv
  <2>3. Cardinality(Again) \in Nat /\ Cardinality(More) \in Nat /\ Cardinality(More) <= Cardinality(Again)
    <3>. HIDE DEF Again, More
    <3>. QED
      BY <2>1, <2>2, FS_Subset, FS_CardinalityType
  <2>4. Of(n, r) = More \/ \E h : Of(n, r) = More \cup {h}
    <3>1. \A h \in Of(n, r) : h.no = 1 \/ h.no > 1
      BY <1>4 DEF Of
    <3>2. \A g1, h \in One : g1 = h
      BY DEF Of, NumberInv
    <3>. QED
      BY <3>1, <3>2
  <2>5. Cardinality(Of(n, r)) <= Cardinality(More) + 1
    <3>. HIDE DEF More
    <3>1. CASE Of(n, r) = More
      BY <2>3, <3>1
    <3>2. ASSUME NEW h, Of(n, r) = More \cup {h} PROVE Cardinality(Of(n, r)) <= Cardinality(More) + 1
      <4>1. Cardinality(More \cup {h}) = IF h \in More THEN Cardinality(More) ELSE Cardinality(More) + 1
        BY <2>2, FS_AddElement
      <4>. QED
        BY <2>3, <3>2, <4>1
    <3>. QED
      BY <2>4, <3>1, <3>2
  <2>. HIDE DEF Again, More
  <2>. QED
    BY <1>1, <1>3, <2>3, <2>5, TransportAssumption
<1>6. g \in Handlers
  <2>. HIDE DEF i
  <2>. QED
    BY <1>5 DEF Handlers
<1>7. g.node = n /\ g.req = r /\ g.no = i /\ g.pc = "handover"
  OBVIOUS
<1>. HIDE DEF g, Again, One, More
<1>8. \A h \in Of(n, r) : h.no < i
  BY <1>3, <1>4 DEF NumberInv, Of
<1>9. IsFiniteSet(handlers')
  BY <1>2, FS_AddElement DEF NumberInv
<1>10. handlers' \subseteq Handlers
  BY <1>2, <1>6 DEF NumberInv
<1>11. \A x, y \in handlers' : x.node = y.node /\ x.req = y.req /\ x.no = y.no => x = y
  <2>1. \A x \in handlers : ~(x.node = n /\ x.req = r /\ x.no = i)
    BY <1>3, <1>4, <1>8 DEF Of
  <2>. HIDE DEF i
  <2>. QED
    BY <1>2, <1>7, <2>1 DEF NumberInv
<1>12. Cardinality(Of(n, r)') = i
  <2>1. Of(n, r)' = Of(n, r) \cup {g}
    BY <1>2, <1>7 DEF Of
  <2>2. g \notin Of(n, r)
    BY <1>3, <1>7, <1>8
  <2>. QED
    BY <1>3, <2>1, <2>2, FS_AddElement
<1>13. ASSUME NEW x \in handlers' PROVE x.no <= Cardinality(Of(x.node, x.req)')
  <2>1. CASE x.node = n /\ x.req = r
    <3>1. x \in Of(n, r) \/ x = g
      BY <1>2, <2>1 DEF Of
    <3>. QED
      BY <1>3, <1>4, <1>7, <1>8, <1>12, <2>1, <3>1 DEF Of
  <2>2. CASE ~(x.node = n /\ x.req = r)
    <3>1. x \in handlers /\ Of(x.node, x.req)' = Of(x.node, x.req)
      BY <1>2, <1>7, <2>2 DEF Of
    <3>. QED
      BY <3>1 DEF NumberInv
  <2>. QED
    BY <2>1, <2>2
<1>14. (\A x \in handlers : x.no <= Cardinality(Of(x.node, x.req)))'
  BY <1>13
<1>. QED
  BY <1>2, <1>9, <1>10, <1>11, <1>14 DEF NumberInv

\* A handler goes on to its next state, or a request is delivered.
HandlersKept ==
  \/ UNCHANGED handlers
  \/ \E h \in handlers, pc \in {"wait", "done"} : h.pc \notin {pc, "done"} /\ Goto(h, pc)
  \/ \E n \in Nodes, r \in sent : Deliver(n, r)

(***************************************************************************)
(* Whatever handlers do, they stay numbered, and finished ones stay        *)
(* finished.                                                               *)
(***************************************************************************)
LEMMA HandlersSafe ==
  ASSUME NumberInv, sent \subseteq Requests, HandlersKept
  PROVE  NumberInv' /\ \A c : Cardinality(Done(c)) <= Cardinality(Done(c)')
<1>0. ASSUME NumberInv', \A c : Done(c) \in SUBSET Done(c)'
      PROVE  \A c : Cardinality(Done(c)) <= Cardinality(Done(c)')
  <2>1. \A c : IsFiniteSet(Done(c)')
    <3>. TAKE c
    <3>1. Done(c)' \in SUBSET handlers'
      BY DEF Done
    <3>. QED
      BY <1>0, <3>1, FS_Subset DEF NumberInv
  <2>. QED
    BY <1>0, <2>1, FS_Subset
<1>1. CASE UNCHANGED handlers
  <2>1. NumberInv' /\ \A c : Done(c)' = Done(c)
    BY <1>1 DEF NumberInv, Of, Done
  <2>. QED
    BY <1>0, <2>1
<1>2. ASSUME NEW h \in handlers, NEW pc \in {"wait", "done"}, h.pc \notin {pc, "done"}, Goto(h, pc)
      PROVE  NumberInv' /\ \A c : Cardinality(Done(c)) <= Cardinality(Done(c)')
  <2>1. NumberInv'
    BY <1>2, GotoNumber
  <2>2. \A c : Done(c) \in SUBSET Done(c)'
    BY <1>2 DEF Goto, Done
  <2>. QED
    BY <1>0, <2>1, <2>2
<1>3. ASSUME NEW n \in Nodes, NEW r \in sent, Deliver(n, r)
      PROVE  NumberInv' /\ \A c : Cardinality(Done(c)) <= Cardinality(Done(c)')
  <2>1. NumberInv' /\ handlers \subseteq handlers'
    BY <1>3, DeliverNumber
  <2>2. \A c : Done(c) \in SUBSET Done(c)'
    BY <2>1 DEF Done
  <2>. QED
    BY <1>0, <2>1, <2>2
<1>. QED
  BY <1>1, <1>2, <1>3 DEF HandlersKept

(***************************************************************************)
(* A request that is processed (raft.go:389-440) finishes one handler      *)
(* more.                                                                   *)
(***************************************************************************)
LEMMA DoneGrows ==
  ASSUME NumberInv, NEW h \in handlers, h.pc = "wait", Goto(h, "done")
  PROVE  /\ Cardinality(Done(h.req.by)') = Cardinality(Done(h.req.by)) + 1
<1>. DEFINE g == [h EXCEPT !.pc = "done"]
<1>1. h \in Handlers
  BY DEF NumberInv
<1>2. g.req = h.req /\ g.pc = "done"
  BY <1>1, HandlerShape
<1>3. g \notin handlers /\ handlers' = (handlers \ {h}) \cup {g}
  BY GotoNumber DEF Goto
<1>. HIDE DEF g
<1>4. Done(h.req.by)' = Done(h.req.by) \cup {g} /\ g \notin Done(h.req.by)
  BY <1>2, <1>3 DEF Done
<1>. QED
  BY <1>4, FiniteDone, FS_AddElement

(***************************************************************************)
(* The positions of an element in a sequence can be counted.               *)
(***************************************************************************)
LEMMA PositionsFinite ==
  ASSUME NEW S, NEW s \in Seq(S), NEW c
  PROVE  /\ IsFiniteSet({i \in DOMAIN s : s[i] = c})
         /\ Cardinality({i \in DOMAIN s : s[i] = c}) \in Nat
<1>1. Len(s) \in Nat /\ DOMAIN s = 1..Len(s)
  OBVIOUS
<1>2. IsFiniteSet(1..Len(s))
  BY <1>1, FS_Interval
<1>3. {i \in DOMAIN s : s[i] = c} \in SUBSET (1..Len(s))
  BY <1>1
<1>. QED
  BY <1>2, <1>3, FS_Subset, FS_CardinalityType

(***************************************************************************)
(* Entries of the log can be counted.                                      *)
(***************************************************************************)
LEMMA EntriesFinite ==
  ASSUME LogInv, NEW c
  PROVE  IsFiniteSet(Entries(c)) /\ Cardinality(Entries(c)) \in Nat
BY PositionsFinite DEF LogInv, Entries

(***************************************************************************)
(* hraft appends an input at most once for each Apply (raft.go:269, 420).  *)
(***************************************************************************)
LEMMA EntriesGrow ==
  ASSUME LogInv, NEW c \in Calls, log' \in {log, Append(log, c)}
  PROVE  /\ Cardinality(Entries(c)') <= Cardinality(Entries(c)) + 1
         /\ \A d \in Calls \ {c} : Entries(d)' = Entries(d)
<1>0. Cardinality(Entries(c)) \in Nat
  BY EntriesFinite
<1>1. CASE log' = log
  <2>1. \A d : Entries(d)' = Entries(d)
    BY <1>1 DEF Entries
  <2>. QED
    BY <1>0, <2>1
<1>2. CASE log' = Append(log, c)
  <2>. DEFINE n == Len(log) + 1
  <2>1. /\ Len(log) \in Nat /\ DOMAIN log = 1..Len(log) /\ DOMAIN log' = 1..n
        /\ \A i \in 1..Len(log) : log'[i] = log[i]
        /\ log'[n] = c
    <3>1. log \in Seq(Calls) /\ log' \in Seq(Calls)
      BY <1>2, AppendFacts DEF LogInv
    <3>. QED
      BY <1>2, <3>1, AppendFacts
  <2>2. \A i : i \in DOMAIN log' <=> i \in DOMAIN log \/ i = n
    BY <2>1
  <2>. HIDE DEF n
  <2>3. Entries(c)' = Entries(c) \cup {n}
    BY <2>1, <2>2 DEF Entries
  <2>4. \A d \in Calls \ {c} : Entries(d)' = Entries(d)
    BY <2>1, <2>2 DEF Entries
  <2>5. Cardinality(Entries(c) \cup {n}) =
          IF n \in Entries(c) THEN Cardinality(Entries(c)) ELSE Cardinality(Entries(c)) + 1
    BY EntriesFinite, FS_AddElement
  <2>. QED
    BY <1>0, <2>3, <2>4, <2>5
<1>. QED
  BY <1>1, <1>2

\* Local applications are counted.
CountTypes == applies \in [Calls -> Nat]

(***************************************************************************)
(* The count is kept by steps that leave the log alone.                    *)
(***************************************************************************)
LEMMA CountKept ==
  ASSUME NumberInv, sent \subseteq Requests, EntriesCounted, LogInv, CountTypes,
         HandlersKept, UNCHANGED <<log, applies>>
  PROVE  EntriesCounted' /\ CountTypes'
<1>1. NumberInv' /\ \A c : Cardinality(Done(c)) <= Cardinality(Done(c)')
  BY HandlersSafe
<1>2. \A c : Entries(c)' = Entries(c)
  BY DEF Entries
<1>3. \A c : Cardinality(Done(c)) \in Nat /\ Cardinality(Done(c)') \in Nat /\ Cardinality(Entries(c)) \in Nat
  <2>. TAKE c
  <2>1. Cardinality(Done(c)') \in Nat
    <3>1. Done(c)' \in SUBSET handlers'
      BY DEF Done
    <3>. QED
      BY <1>1, <3>1, FS_Subset, FS_CardinalityType DEF NumberInv
  <2>. QED
    BY <2>1, FiniteDone, EntriesFinite
<1>4. ASSUME NEW c \in Calls PROVE Cardinality(Entries(c)') <= applies'[c] + Cardinality(Done(c)')
  <2>1. Cardinality(Entries(c)) <= applies[c] + Cardinality(Done(c)) /\ applies[c] \in Nat
    BY DEF EntriesCounted, Done, CountTypes
  <2>. QED
    BY <1>1, <1>2, <1>3, <2>1
<1>. QED
  BY <1>4 DEF EntriesCounted, Done, CountTypes

(***************************************************************************)
(* A local Apply (raft.go:269) is counted, whether or not the input has    *)
(* been accepted.                                                          *)
(***************************************************************************)
LEMMA CountApplied ==
  ASSUME NumberInv, EntriesCounted, LogInv, CountTypes, NEW c \in Calls,
         UNCHANGED handlers, log' \in {log, Append(log, c)},
         applies' = [applies EXCEPT ![c] = @ + 1]
  PROVE  EntriesCounted' /\ CountTypes'
<1>1. \A d : Done(d)' = Done(d)
  BY DEF Done
<1>2. \A d : Cardinality(Done(d)) \in Nat /\ Cardinality(Entries(d)) \in Nat
  BY FiniteDone, EntriesFinite
<1>3. /\ Cardinality(Entries(c)') <= Cardinality(Entries(c)) + 1
      /\ \A d \in Calls \ {c} : Entries(d)' = Entries(d)
  BY EntriesGrow
<1>4. Cardinality(Entries(c)') \in Nat
  <2>1. LogInv'
    BY LogGrows
  <2>. QED
    BY <2>1, PositionsFinite DEF LogInv, Entries
<1>5. ASSUME NEW d \in Calls PROVE Cardinality(Entries(d)') <= applies'[d] + Cardinality(Done(d)')
  <2>1. Cardinality(Entries(d)) <= applies[d] + Cardinality(Done(d)) /\ applies[d] \in Nat
    BY DEF EntriesCounted, Done, CountTypes
  <2>2. applies'[d] = IF d = c THEN applies[d] + 1 ELSE applies[d]
    BY DEF CountTypes
  <2>3. CASE d = c
    BY <1>1, <1>2, <1>3, <1>4, <2>1, <2>2, <2>3
  <2>4. CASE d # c
    BY <1>1, <1>3, <2>1, <2>2, <2>4
  <2>. QED
    BY <2>3, <2>4
<1>6. CountTypes'
  BY DEF CountTypes
<1>. QED
  BY <1>5, <1>6 DEF EntriesCounted, Done

(***************************************************************************)
(* A forwarded request that is processed (raft.go:420) is counted by its   *)
(* handler.                                                                *)
(***************************************************************************)
LEMMA CountProcessed ==
  ASSUME NumberInv, EntriesCounted, LogInv, CountTypes, sent \subseteq Requests,
         NEW h \in handlers, h.pc = "wait", Goto(h, "done"), h.req.by \in Calls,
         log' \in {log, Append(log, h.req.by)}, UNCHANGED applies
  PROVE  EntriesCounted' /\ CountTypes'
<1>. DEFINE c == h.req.by
<1>1. /\ Cardinality(Done(c)') = Cardinality(Done(c)) + 1
      /\ \A d : Cardinality(Done(d)) <= Cardinality(Done(d)')
  <2>1. HandlersKept
    BY DEF HandlersKept
  <2>. QED
    BY <2>1, DoneGrows, HandlersSafe
<1>2. \A d : Cardinality(Done(d)) \in Nat /\ Cardinality(Entries(d)) \in Nat
  BY FiniteDone, EntriesFinite
<1>3. /\ Cardinality(Entries(c)') <= Cardinality(Entries(c)) + 1
      /\ \A d \in Calls \ {c} : Entries(d)' = Entries(d)
  BY EntriesGrow
<1>. HIDE DEF c
<1>4. Cardinality(Entries(c)') \in Nat
  <2>1. LogInv'
    BY LogGrows
  <2>. QED
    BY <2>1, PositionsFinite DEF LogInv, Entries
<1>5. \A d : Cardinality(Done(d)') \in Nat
  <2>. TAKE d
  <2>1. NumberInv'
    BY GotoNumber
  <2>2. Done(d)' \in SUBSET handlers'
    BY DEF Done
  <2>. QED
    BY <2>1, <2>2, FS_Subset, FS_CardinalityType DEF NumberInv
<1>6. ASSUME NEW d \in Calls PROVE Cardinality(Entries(d)') <= applies'[d] + Cardinality(Done(d)')
  <2>1. Cardinality(Entries(d)) <= applies[d] + Cardinality(Done(d)) /\ applies[d] \in Nat
    BY DEF EntriesCounted, Done, CountTypes
  <2>2. CASE d = c
    BY <1>1, <1>2, <1>3, <1>4, <2>1, <2>2
  <2>3. CASE d # c
    BY <1>1, <1>2, <1>3, <1>5, <2>1, <2>3
  <2>. QED
    BY <2>2, <2>3
<1>7. CountTypes'
  BY DEF CountTypes
<1>. QED
  BY <1>6, <1>7 DEF EntriesCounted, Done

-----------------------------------------------------------------------------
(* Types.                                                                  *)

\* Types of the state outside of the transport's messages.
StateType ==
  /\ trans \in [Nodes -> TransStates]
  /\ raft \in [Nodes -> BOOLEAN]
  /\ mu \in [Nodes -> Calls \cup {"admin", NoOne}]
  /\ admin \in [Nodes -> {"new", "join", "joining", "opened", "failed", "again",
                          "remove", "close", "closed", "stranded"}]
  /\ opens \in [Nodes -> 0..MaxOpens]
  /\ joins \in [Nodes -> Nat]
  /\ lfw \in [Nodes -> {"none", "idle", "lock", "ended"}]
  /\ tries \in [Calls -> 0..MaxCalls]
  /\ cancelled \subseteq Calls
  /\ running \subseteq Nodes
  /\ leader \in Nodes \cup {NoNode}
  /\ members \subseteq Nodes /\ ousted \subseteq Nodes
  /\ elections \in 0..MaxElections

SentType == IsFiniteSet(sent) /\ sent \subseteq Requests

AnswerType == answers \subseteq [req: Requests, result: Results]

TypeInv == StateType /\ SentType /\ AnswerType /\ NumberInv

\* A step that sends nothing and leaves the handlers alone or moves one on.
Silent == UNCHANGED sent /\ answers' \subseteq answers /\ HandlersKept

(***************************************************************************)
(* Types of messages and handlers after a step that sends nothing.         *)
(***************************************************************************)
LEMMA SilentTypes ==
  ASSUME TypeInv, Silent PROVE SentType' /\ AnswerType' /\ NumberInv'
BY HandlersSafe DEF TypeInv, Silent, SentType, AnswerType

(***************************************************************************)
(* Types of messages after a request has been published                    *)
(* (transport.go:368).                                                     *)
(***************************************************************************)
LEMMA SendTypes ==
  ASSUME TypeInv, NEW r \in Requests, Send(r), UNCHANGED <<answers, handlers>>
  PROVE  SentType' /\ AnswerType' /\ NumberInv'
<1>1. SentType'
  BY FS_AddElement DEF TypeInv, SentType, Send
<1>2. AnswerType' /\ NumberInv'
  BY DEF TypeInv, AnswerType, NumberInv, Of
<1>. QED
  BY <1>1, <1>2

(***************************************************************************)
(* What Open and Close send is a request (raft.go:187, 227).               *)
(***************************************************************************)
LEMMA AdminRequestType ==
  ASSUME NEW n \in Nodes, NEW op \in Lfw, joins \in [Nodes -> Nat]
  PROVE  AdminRequest(n, op) \in Requests
<1>1. joins[n] + 1 \in Nat \ {0}
  OBVIOUS
<1>. QED
  BY <1>1 DEF AdminRequest, Requests

(***************************************************************************)
(* Steps of ProposeInput (raft.go:252-290) preserve the types.             *)
(***************************************************************************)
LEMMA CallTypes ==
  ASSUME TypeInv, NEW c \in Calls, Propose(c) \/ Cancel(c) \/ CallStep(c)
  PROVE  TypeInv'
<1>. USE BindingAssumption, TransportAssumption DEF TypeInv
<1>1. CASE Propose(c)
  <2>1. StateType'
    BY <1>1 DEF Propose, StateType, transportVars, hraftVars
  <2>2. Silent
    BY <1>1 DEF Propose, Silent, HandlersKept, transportVars
  <2>. QED
    BY <2>1, <2>2, SilentTypes
<1>2. CASE Cancel(c)
  <2>1. StateType'
    BY <1>2 DEF Cancel, StateType, transportVars, hraftVars
  <2>2. Silent
    BY <1>2 DEF Cancel, Silent, HandlersKept, transportVars
  <2>. QED
    BY <2>1, <2>2, SilentTypes
<1>3. CASE ApplyLocally(c)
  <2>1. StateType'
    BY <1>3 DEF ApplyLocally, Apply, ProposeReturn, Retry, StateType, transportVars
  <2>2. Silent
    BY <1>3 DEF ApplyLocally, Silent, HandlersKept, transportVars
  <2>. QED
    BY <2>1, <2>2, SilentTypes
<1>4. CASE Forward(c)
  <2>1. StateType'
    BY <1>4 DEF Forward, StateType, hraftVars
  <2>2. tries'[c] \in Nat \ {0}
    BY <1>4 DEF Forward, StateType
  <2>3. Request(c)' \in Requests
    BY <2>2 DEF Request, Requests, Lfw
  <2>4. Send(Request(c)') /\ UNCHANGED <<answers, handlers>>
    BY <1>4 DEF Forward
  <2>. QED
    BY <2>1, <2>3, <2>4, SendTypes
<1>5. CASE ForwardFails(c)
  <2>1. StateType'
    BY <1>5 DEF ForwardFails, ProposeReturn, Retry, StateType, transportVars, hraftVars
  <2>2. Silent
    BY <1>5 DEF ForwardFails, Silent, HandlersKept, transportVars
  <2>. QED
    BY <2>1, <2>2, SilentTypes
<1>6. CASE ForwardResult(c)
  <2>1. StateType'
    BY <1>6 DEF ForwardResult, ProposeReturn, Retry, StateType, hraftVars
  <2>2. Silent
    BY <1>6 DEF ForwardResult, Unsubscribe, Silent, HandlersKept
  <2>. QED
    BY <2>1, <2>2, SilentTypes
<1>7. CASE ForwardTimeout(c)
  <2>1. StateType'
    BY <1>7 DEF ForwardTimeout, StateType, hraftVars
  <2>2. Silent
    BY <1>7 DEF ForwardTimeout, Unsubscribe, Silent, HandlersKept
  <2>. QED
    BY <2>1, <2>2, SilentTypes
<1>8. CASE Backoff(c)
  <2>1. StateType'
    BY <1>8 DEF Backoff, ProposeReturn, StateType, transportVars, hraftVars
  <2>2. Silent
    BY <1>8 DEF Backoff, Silent, HandlersKept, transportVars
  <2>. QED
    BY <2>1, <2>2, SilentTypes
<1>. QED
  BY <1>1, <1>2, <1>3, <1>4, <1>5, <1>6, <1>7, <1>8 DEF CallStep

(***************************************************************************)
(* Steps of Open and Close (raft.go:68-250) preserve the types.            *)
(***************************************************************************)
LEMMA AdminTypes ==
  ASSUME TypeInv, NEW n \in Nodes, AdminCall(n) \/ AdminStep(n)
  PROVE  TypeInv'
<1>. USE BindingAssumption, TransportAssumption DEF TypeInv
<1>1. CASE OpenAgain(n)
  <2>1. StateType'
    BY <1>1 DEF OpenAgain, AdminGoto, StateType, transportVars, hraftVars
  <2>2. Silent
    BY <1>1 DEF OpenAgain, Silent, HandlersKept, transportVars
  <2>. QED
    BY <2>1, <2>2, SilentTypes
<1>2. CASE OpenBootstrap(n)
  <2>1. StateType'
    BY <1>2 DEF OpenBootstrap, NewRaft, BeginOpen, LeaderWithout, AdminGoto, StateType, TransStates
  <2>2. Silent
    BY <1>2 DEF OpenBootstrap, NewRaft, BeginOpen, Silent, HandlersKept
  <2>. QED
    BY <2>1, <2>2, SilentTypes
<1>3. CASE OpenJoin(n)
  <2>1. StateType'
    BY <1>3 DEF OpenJoin, NewRaft, BeginOpen, LeaderWithout, AdminGoto, StateType, TransStates
  <2>2. Silent
    BY <1>3 DEF OpenJoin, NewRaft, BeginOpen, Silent, HandlersKept
  <2>. QED
    BY <2>1, <2>2, SilentTypes
<1>4. CASE CloseLeader(n)
  <2>1. StateType'
    BY <1>4 DEF CloseLeader, AwaitReaders, AdminGoto, StateType, TransStates
  <2>2. Silent
    BY <1>4 DEF CloseLeader, AwaitReaders, Silent, HandlersKept
  <2>. QED
    BY <2>1, <2>2, SilentTypes
<1>5. CASE CloseFollower(n)
  <2>1. StateType'
    BY <1>5 DEF CloseFollower, SendByAdmin, AdminGoto, StateType, hraftVars
  <2>2. Send(AdminRequest(n, "RemoveServer")) /\ UNCHANGED <<answers, handlers>>
    BY <1>5 DEF CloseFollower, SendByAdmin
  <2>3. AdminRequest(n, "RemoveServer") \in Requests
    BY AdminRequestType DEF StateType, Lfw
  <2>. QED
    BY <2>1, <2>2, <2>3, SendTypes
<1>6. CASE JoinSend(n)
  <2>1. StateType'
    BY <1>6 DEF JoinSend, SendByAdmin, AdminGoto, StateType, hraftVars
  <2>2. Send(AdminRequest(n, "AddVoter")) /\ UNCHANGED <<answers, handlers>>
    BY <1>6 DEF JoinSend, SendByAdmin
  <2>3. AdminRequest(n, "AddVoter") \in Requests
    BY AdminRequestType DEF StateType, Lfw
  <2>. QED
    BY <2>1, <2>2, <2>3, SendTypes
<1>7. CASE JoinFails(n)
  <2>1. StateType'
    BY <1>7 DEF JoinFails, AdminGoto, StateType, transportVars, hraftVars
  <2>2. Silent
    BY <1>7 DEF JoinFails, Silent, HandlersKept, transportVars
  <2>. QED
    BY <2>1, <2>2, SilentTypes
<1>8. CASE Joined(n)
  <2>1. StateType'
    BY <1>8 DEF Joined, AdminGoto, StateType, hraftVars
  <2>2. Silent
    BY <1>8 DEF Joined, Unsubscribe, Silent, HandlersKept
  <2>. QED
    BY <2>1, <2>2, SilentTypes
<1>9. CASE JoinAgain(n)
  <2>1. StateType'
    BY <1>9 DEF JoinAgain, AdminGoto, StateType, hraftVars
  <2>2. Silent
    BY <1>9 DEF JoinAgain, Unsubscribe, Silent, HandlersKept
  <2>. QED
    BY <2>1, <2>2, SilentTypes
<1>10. CASE CloseShutdown(n)
  <2>1. StateType'
    BY <1>10 DEF CloseShutdown, LeaderWithout, AwaitReaders, AdminGoto, StateType, TransStates
  <2>2. Silent
    BY <1>10 DEF CloseShutdown, AwaitReaders, Silent, HandlersKept
  <2>. QED
    BY <2>1, <2>2, SilentTypes
<1>11. CASE CloseReturn(n)
  <2>1. StateType'
    BY <1>11 DEF CloseReturn, TransClose, AdminGoto, StateType, TransStates, hraftVars
  <2>2. Silent
    BY <1>11 DEF CloseReturn, TransClose, Silent, HandlersKept
  <2>. QED
    BY <2>1, <2>2, SilentTypes
<1>12. CASE OpenFails(n)
  <2>1. StateType'
    BY <1>12 DEF OpenFails, BeginOpen, AdminGoto, StateType, TransStates
  <2>2. Silent
    BY <1>12 DEF OpenFails, BeginOpen, Silent, HandlersKept
  <2>. QED
    BY <2>1, <2>2, SilentTypes
<1>. QED
  BY <1>1, <1>2, <1>3, <1>4, <1>5, <1>6, <1>7, <1>8, <1>9, <1>10, <1>11, <1>12
     DEF AdminCall, AdminStep

(***************************************************************************)
(* Handlers and their consumers (raft.go:381-440) preserve the types.      *)
(***************************************************************************)
LEMMA HandlerTypes ==
  ASSUME TypeInv, NEW h \in handlers, HandlerStep(h)
  PROVE  TypeInv' /\ HandlersKept
<1>. USE BindingAssumption, TransportAssumption DEF TypeInv
<1>0. h \in Handlers /\ h.node \in Nodes /\ h.req \in Requests /\ h.req.src \in Nodes
  BY DEF NumberInv, Handlers, Requests
<1>1. CASE LfwTake(h)
  <2>1. StateType'
    BY <1>0, <1>1 DEF LfwTake, StateType, hraftVars
  <2>2. Silent
    BY <1>1 DEF LfwTake, Silent, HandlersKept
  <2>. QED
    BY <2>1, <2>2, SilentTypes DEF Silent
<1>2. CASE LfwProcess(h)
  <2>0. members' \subseteq Nodes /\ ousted' \subseteq Nodes /\ leader' \in {leader, NoNode}
    BY <1>0, <1>2 DEF LfwProcess, Apply, ChangeMembers, NewMembers, Ousted, StateType
  <2>1. StateType'
    BY <1>0, <1>2, <2>0 DEF LfwProcess, StateType
  <2>2. HandlersKept /\ UNCHANGED sent
    BY <1>2 DEF LfwProcess, HandlersKept
  <2>3. \E result \in Results : answers' \subseteq answers \cup {[req |-> h.req, result |-> result]}
    BY <1>2 DEF LfwProcess, Answer, Results
  <2>4. AnswerType'
    BY <1>0, <2>3 DEF AnswerType
  <2>5. SentType' /\ NumberInv'
    BY <2>2, HandlersSafe DEF SentType
  <2>. QED
    BY <2>1, <2>2, <2>4, <2>5
<1>3. CASE LfwIgnore(h)
  <2>1. StateType'
    BY <1>0, <1>3 DEF LfwIgnore, StateType, hraftVars
  <2>2. Silent
    BY <1>3 DEF LfwIgnore, Silent, HandlersKept
  <2>. QED
    BY <2>1, <2>2, SilentTypes DEF Silent
<1>4. CASE Consume(h)
  <2>1. StateType'
    BY <1>4 DEF Consume, StateType, bindingVars, hraftVars
  <2>2. Silent
    BY <1>4 DEF Consume, Silent, HandlersKept
  <2>. QED
    BY <2>1, <2>2, SilentTypes DEF Silent
<1>. QED
  BY <1>1, <1>2, <1>3, <1>4 DEF HandlerStep

(***************************************************************************)
(* Elections, deliveries and requests of a leader preserve the types.      *)
(***************************************************************************)
LEMMA OtherTypes ==
  ASSUME TypeInv
  PROVE  /\ \A n \in Nodes : LfwEnd(n) \/ Elect(n) => TypeInv' /\ HandlersKept
         /\ \A n \in Nodes, r \in sent : Receive(n, r) => TypeInv' /\ HandlersKept
         /\ \A n, m \in Nodes, op \in Targeted : Replicate(n, m, op) => TypeInv' /\ HandlersKept
         /\ StepDown => TypeInv' /\ HandlersKept
<1>. USE BindingAssumption, TransportAssumption DEF TypeInv
<1>1. ASSUME NEW n \in Nodes, LfwEnd(n) PROVE TypeInv' /\ HandlersKept
  <2>1. StateType'
    BY <1>1 DEF LfwEnd, StateType, transportVars, hraftVars
  <2>2. Silent
    BY <1>1 DEF LfwEnd, Silent, HandlersKept, transportVars
  <2>. QED
    BY <2>1, <2>2, SilentTypes DEF Silent
<1>2. ASSUME NEW n \in Nodes, Elect(n) PROVE TypeInv' /\ HandlersKept
  <2>1. StateType'
    BY <1>2 DEF Elect, StateType, transportVars, bindingVars
  <2>2. Silent
    BY <1>2 DEF Elect, Silent, HandlersKept, transportVars
  <2>. QED
    BY <2>1, <2>2, SilentTypes DEF Silent
<1>3. ASSUME NEW n \in Nodes, NEW r \in sent, Receive(n, r) PROVE TypeInv' /\ HandlersKept
  <2>1. StateType'
    BY <1>3 DEF Receive, Deliver, StateType, bindingVars, hraftVars
  <2>2. UNCHANGED <<sent, answers>> /\ Deliver(n, r)
    BY <1>3 DEF Receive, Deliver
  <2>3. Silent
    BY <2>2 DEF Silent, HandlersKept
  <2>. QED
    BY <2>1, <2>3, SilentTypes DEF Silent
<1>4. ASSUME NEW n \in Nodes, NEW m \in Nodes, NEW op \in Targeted, Replicate(n, m, op)
      PROVE  TypeInv' /\ HandlersKept
  <2>. DEFINE T == {q \in sent : q.op \in Targeted}
              r == [op |-> op, src |-> n, dst |-> m, by |-> n, seq |-> Cardinality(T) + 1]
  <2>1. StateType'
    BY <1>4 DEF Replicate, StateType, bindingVars, hraftVars
  <2>2. T \in SUBSET sent
    OBVIOUS
  <2>3. Cardinality(T) \in Nat
    <3>. HIDE DEF T
    <3>. QED
      BY <2>2, FS_Subset, FS_CardinalityType DEF SentType
  <2>4. Send(r) /\ UNCHANGED <<answers, handlers>>
    BY <1>4 DEF Replicate
  <2>. HIDE DEF T
  <2>5. r \in Requests
    BY <2>3 DEF Requests
  <2>. HIDE DEF r
  <2>. QED
    BY <2>1, <2>4, <2>5, SendTypes DEF HandlersKept
<1>5. ASSUME StepDown PROVE TypeInv' /\ HandlersKept
  <2>1. StateType'
    BY <1>5 DEF StepDown, StateType, transportVars, bindingVars
  <2>2. Silent
    BY <1>5 DEF StepDown, Silent, HandlersKept, transportVars
  <2>. QED
    BY <2>1, <2>2, SilentTypes DEF Silent
<1>. QED
  BY <1>1, <1>2, <1>3, <1>4, <1>5

-----------------------------------------------------------------------------
(* Entries are counted.                                                    *)

(***************************************************************************)
(* The inductive invariant for counting entries: without numbered handlers *)
(* a finished one could be one that was finished before, and would not     *)
(* count.                                                                  *)
(***************************************************************************)
CountInv == IInv /\ TypeInv /\ CountTypes /\ EntriesCounted

(***************************************************************************)
(* Every step keeps types and counts.                                      *)
(***************************************************************************)
LEMMA CountNext == ASSUME CountInv, [Next]_vars PROVE CountInv'
<1>. USE DEF CountInv
<1>0. IInv' /\ LogInv
  BY NextSafe DEF IInv
<1>1. ASSUME TypeInv', HandlersKept, UNCHANGED <<log, applies>> PROVE CountInv'
  BY <1>0, <1>1, CountKept DEF TypeInv, SentType
<1>2. ASSUME NEW c \in Calls, Propose(c) \/ Cancel(c) \/ CallStep(c) PROVE CountInv'
  <2>1. TypeInv'
    BY <1>2, CallTypes
  <2>2. CASE ApplyLocally(c)
    <3>1. /\ UNCHANGED handlers /\ log' \in {log, Append(log, c)}
          /\ applies' = [applies EXCEPT ![c] = @ + 1]
      BY <2>2 DEF ApplyLocally, Apply, transportVars
    <3>. QED
      BY <1>0, <2>1, <3>1, CountApplied DEF TypeInv
  <2>3. CASE Propose(c) \/ Cancel(c) \/ Forward(c)
    <3>1. UNCHANGED <<handlers, log, applies>>
      BY <2>3 DEF Propose, Cancel, Forward, transportVars, hraftVars
    <3>. QED
      BY <1>1, <2>1, <3>1 DEF HandlersKept
  <2>4. CASE ForwardFails(c) \/ ForwardResult(c) \/ ForwardTimeout(c) \/ Backoff(c)
    <3>1. UNCHANGED <<handlers, log, applies>>
      BY <2>4 DEF ForwardFails, ForwardResult, ForwardTimeout, Backoff, transportVars, hraftVars
    <3>. QED
      BY <1>1, <2>1, <3>1 DEF HandlersKept
  <2>. QED
    BY <1>2, <2>2, <2>3, <2>4 DEF CallStep
<1>3. ASSUME NEW n \in Nodes, AdminCall(n) \/ AdminStep(n) PROVE CountInv'
  <2>1. TypeInv'
    BY <1>3, AdminTypes
  <2>2. CASE AdminCall(n)
    <3>1. UNCHANGED <<handlers, log, applies>>
      BY <2>2 DEF AdminCall, OpenAgain, OpenFails, OpenBootstrap, OpenJoin, NewRaft, BeginOpen, CloseLeader, CloseFollower,
                  AwaitReaders, SendByAdmin, transportVars, hraftVars
    <3>. QED
      BY <1>1, <2>1, <3>1 DEF HandlersKept
  <2>3. CASE AdminStep(n)
    <3>1. UNCHANGED <<handlers, log, applies>>
      BY <2>3 DEF AdminStep, JoinSend, JoinFails, Joined, JoinAgain, CloseShutdown, CloseReturn,
                  AwaitReaders, TransClose, SendByAdmin, transportVars, hraftVars
    <3>. QED
      BY <1>1, <2>1, <3>1 DEF HandlersKept
  <2>. QED
    BY <1>3, <2>2, <2>3
<1>4. ASSUME NEW h \in handlers, HandlerStep(h) PROVE CountInv'
  <2>1. TypeInv' /\ HandlersKept
    BY <1>4, HandlerTypes
  <2>2. CASE LfwProcess(h)
    <3>1. UNCHANGED applies /\ h.pc = "wait" /\ Goto(h, "done")
      BY <2>2 DEF LfwProcess
    <3>2. CASE h.req.op = "Apply"
      <4>1. h.req.by \in Calls
        BY <3>2 DEF IInv, HandlerInv, SentInv
      <4>2. log' \in {log, Append(log, h.req.by)}
        BY <2>2, <3>2 DEF LfwProcess, Apply
      <4>. QED
        BY <1>0, <2>1, <3>1, <4>1, <4>2, CountProcessed DEF TypeInv, SentType
    <3>3. CASE h.req.op # "Apply"
      <4>1. UNCHANGED log
        BY <2>2, <3>3 DEF LfwProcess
      <4>. QED
        BY <1>1, <2>1, <3>1, <4>1
    <3>. QED
      BY <3>2, <3>3
  <2>3. CASE LfwTake(h) \/ LfwIgnore(h) \/ Consume(h)
    <3>1. UNCHANGED <<log, applies>>
      BY <2>3 DEF LfwTake, LfwIgnore, Consume, hraftVars
    <3>. QED
      BY <1>1, <2>1, <3>1
  <2>. QED
    BY <1>4, <2>2, <2>3 DEF HandlerStep
<1>5. ASSUME NEW n \in Nodes, LfwEnd(n) \/ Elect(n) PROVE CountInv'
  <2>1. UNCHANGED <<log, applies>>
    BY <1>5 DEF LfwEnd, Elect, hraftVars
  <2>. QED
    BY <1>1, <1>5, <2>1, OtherTypes
<1>6. ASSUME NEW n \in Nodes, NEW r \in sent, Receive(n, r) PROVE CountInv'
  <2>1. UNCHANGED <<log, applies>>
    BY <1>6 DEF Receive, hraftVars
  <2>. QED
    BY <1>1, <1>6, <2>1, OtherTypes
<1>7. ASSUME NEW n \in Nodes, NEW m \in Nodes, NEW op \in Targeted, Replicate(n, m, op)
      PROVE  CountInv'
  <2>1. UNCHANGED <<log, applies>>
    BY <1>7 DEF Replicate, hraftVars
  <2>. QED
    BY <1>1, <1>7, <2>1, OtherTypes
<1>8. CASE StepDown
  <2>1. UNCHANGED <<log, applies>>
    BY <1>8 DEF StepDown
  <2>. QED
    BY <1>1, <1>8, <2>1, OtherTypes
<1>9. CASE UNCHANGED vars
  <2>1. UNCHANGED <<log, applies>> /\ Silent /\ StateType'
    BY <1>9 DEF vars, transportVars, bindingVars, hraftVars, Silent, HandlersKept, TypeInv, StateType
  <2>. QED
    BY <1>1, <2>1, SilentTypes DEF Silent, TypeInv
<1>. QED
  BY <1>2, <1>3, <1>4, <1>5, <1>6, <1>7, <1>8, <1>9 DEF Next

(***************************************************************************)
(* Types and counts hold at the start.                                     *)
(***************************************************************************)
LEMMA CountInit == Init => CountInv
<1>. SUFFICES ASSUME Init PROVE CountInv
  OBVIOUS
<1>1. IInv
  BY InitSafe
<1>2. StateType /\ CountTypes
  BY BindingAssumption, TransportAssumption DEF Init, TransportInit, StateType, CountTypes, TransStates
<1>3. SentType /\ AnswerType /\ NumberInv
  BY FS_EmptySet DEF Init, TransportInit, SentType, AnswerType, NumberInv
<1>4. EntriesCounted
  <2>1. \A c : Entries(c) = {} /\ Done(c) = {}
    BY DEF Init, TransportInit, Entries, Done
  <2>2. ASSUME NEW c \in Calls PROVE Cardinality(Entries(c)) <= applies[c] + Cardinality(Done(c))
    <3>1. Cardinality(Entries(c)) = 0 /\ Cardinality(Done(c)) = 0 /\ applies[c] = 0
      BY <2>1, FS_EmptySet DEF Init
    <3>. QED
      BY <3>1
  <2>. QED
    BY <2>2 DEF EntriesCounted, Done
<1>. QED
  BY <1>1, <1>2, <1>3, <1>4 DEF CountInv, TypeInv

(***************************************************************************)
(* Counting: types, numbers of handlers and counts of entries hold in all  *)
(* behaviours (raft.go, transport.go).                                     *)
(***************************************************************************)
THEOREM Counting == Spec => []CountInv
BY CountInit, CountNext, PTL DEF Spec

(***************************************************************************)
(* TypeCorrect: the variables have their types; in particular the program  *)
(* counters of Open, Close, ProposeInput and the consumer of forwarded     *)
(* requests leave no state open, and repeated deliveries stay within their *)
(* bound.                                                                  *)
(***************************************************************************)
THEOREM TypeCorrect == Spec => []TypeOK
<1>1. CountInv => TypeOK
  BY DEF CountInv, IInv, CallInv, LogInv, Pcs, TypeInv, StateType, SentType, AnswerType, NumberInv,
         CountTypes, TypeOK, TransportTypeOK
<1>. QED
  BY <1>1, Counting, PTL

(***************************************************************************)
(* InputsCounted: for any number of nodes, calls, elections and            *)
(* repetitions, an input is in the log at most once for every local Apply  *)
(* and for every delivery of a forwarded request that has been processed   *)
(* (raft.go:268, 420).                                                     *)
(***************************************************************************)
THEOREM InputsCounted == Spec => []EntriesCounted
<1>1. CountInv => EntriesCounted
  BY DEF CountInv
<1>. QED
  BY <1>1, Counting, PTL

-----------------------------------------------------------------------------
(* Membership.                                                             *)

\* Nodes ask for themselves.
AskInv ==
  \A r \in sent : r.op \in {"AddVoter", "RemoveServer"} =>
    /\ r.by \in Nodes
    /\ r = [op |-> r.op, src |-> r.by, dst |-> Everyone, by |-> r.by, seq |-> r.seq]

\* The consumer takes forwarded requests only.
TakenInv == \A h \in handlers : h.req \in sent /\ (h.pc = "wait" => h.req.op \in Lfw)

\* A response to AddVoter is one to the request its node waits for, not to one of an
\* earlier life; if it says "ok", the node is a member or has been removed since.
JoinInv ==
  \A a \in answers : a.req.op = "AddVoter" =>
    /\ a.req.by \in Nodes /\ admin[a.req.by] = "joining"
    /\ a.req = Pending(a.req.by, "AddVoter")
    /\ a.result = "ok" => a.req.by \in members \cup ousted

(***************************************************************************)
(* The inductive invariant for membership (raft.go:187-250).               *)
(***************************************************************************)
MemberInv == AskInv /\ TakenInv /\ JoinInv /\ OpenedIsMember

\* The step concerns neither members nor Open and Close.
Neutral ==
  /\ UNCHANGED <<admin, joins, members>> /\ ousted \subseteq members' \cup ousted'
  /\ sent \subseteq sent' /\ \A r \in sent' \ sent : r.op \notin {"AddVoter", "RemoveServer"}
  /\ \A a \in answers' \ answers : a.req.op # "AddVoter"
  /\ \A h \in handlers' \ handlers : h.req \in sent /\ (h.pc = "wait" => h.req.op \in Lfw)

(***************************************************************************)
(* Neutral steps preserve what is known of members.                        *)
(***************************************************************************)
LEMMA NeutralSafe == ASSUME MemberInv, Neutral PROVE MemberInv'
<1>. USE DEF MemberInv
<1>1. AskInv'
  BY DEF Neutral, AskInv
<1>2. TakenInv'
  BY DEF Neutral, TakenInv
<1>3. JoinInv'
  BY DEF Neutral, JoinInv, Pending, AdminRequest
<1>4. OpenedIsMember'
  BY DEF Neutral, OpenedIsMember
<1>. QED
  BY <1>1, <1>2, <1>3, <1>4

(***************************************************************************)
(* ProposeInput (raft.go:252-290) is neutral.                              *)
(***************************************************************************)
LEMMA CallNeutral ==
  ASSUME NEW c \in Calls, Propose(c) \/ Cancel(c) \/ CallStep(c) PROVE Neutral
<1>1. CASE Propose(c) \/ Cancel(c)
  BY <1>1 DEF Propose, Cancel, Neutral, transportVars, hraftVars
<1>2. CASE ApplyLocally(c)
  BY <1>2 DEF ApplyLocally, Apply, Neutral, transportVars
<1>3. CASE Forward(c)
  <2>1. PICK r : sent' = sent \cup {r} /\ r.op = "Apply"
    <3>. DEFINE q == [op |-> "Apply", src |-> Home[c], dst |-> Everyone,
                      by |-> c, seq |-> tries'[c]]
    <3>1. sent' = sent \cup {q}
      BY <1>3 DEF Forward, Send, Request
    <3>2. q.op = "Apply"
      OBVIOUS
    <3>. HIDE DEF q
    <3>. QED
      BY <3>1, <3>2
  <2>. QED
    BY <1>3, <2>1 DEF Forward, Neutral, hraftVars
<1>4. CASE ForwardFails(c) \/ Backoff(c)
  BY <1>4 DEF ForwardFails, Backoff, Neutral, transportVars, hraftVars
<1>5. CASE ForwardResult(c) \/ ForwardTimeout(c)
  BY <1>5 DEF ForwardResult, ForwardTimeout, Unsubscribe, Neutral, hraftVars
<1>. QED
  BY <1>1, <1>2, <1>3, <1>4, <1>5 DEF CallStep

(***************************************************************************)
(* The only new handler after a handler went on is that handler.           *)
(***************************************************************************)
LEMMA GotoFacts ==
  ASSUME NumberInv, NEW h \in handlers, NEW pc \in {"wait", "done"}, Goto(h, pc),
         NEW g \in handlers' \ handlers
  PROVE  g.req = h.req /\ g.pc = pc
<1>1. h \in Handlers /\ g = [h EXCEPT !.pc = pc]
  BY DEF NumberInv, Goto
<1>. QED
  BY <1>1, HandlerShape

(***************************************************************************)
(* Handlers that do not change the members (raft.go:381-440) are neutral.  *)
(***************************************************************************)
LEMMA HandlerNeutral ==
  ASSUME NumberInv, MemberInv, NEW h \in handlers, HandlerStep(h),
         LfwProcess(h) => h.req.op = "Apply"
  PROVE  Neutral
<1>0. h.req \in sent
  BY DEF MemberInv, TakenInv
<1>1. CASE LfwTake(h)
  <2>1. \A g \in handlers' \ handlers : g.req = h.req
    BY <1>1, GotoFacts DEF LfwTake
  <2>. QED
    BY <1>0, <1>1, <2>1 DEF LfwTake, Neutral, hraftVars
<1>2. CASE LfwIgnore(h)
  <2>1. \A g \in handlers' \ handlers : g.req = h.req /\ g.pc = "done"
    BY <1>2, GotoFacts DEF LfwIgnore
  <2>. QED
    BY <1>0, <1>2, <2>1 DEF LfwIgnore, Neutral, hraftVars
<1>3. CASE Consume(h)
  <2>1. \A g \in handlers' \ handlers : g.req = h.req /\ g.pc = "done"
    BY <1>3, GotoFacts DEF Consume
  <2>. QED
    BY <1>0, <1>3, <2>1 DEF Consume, Neutral, bindingVars, hraftVars
<1>4. CASE LfwProcess(h)
  <2>1. \A g \in handlers' \ handlers : g.req = h.req /\ g.pc = "done"
    BY <1>4, GotoFacts DEF LfwProcess
  <2>2. /\ UNCHANGED <<admin, joins, members, sent>> /\ ousted \subseteq members' \cup ousted'
        /\ \E result : answers' \subseteq answers \cup {[req |-> h.req, result |-> result]}
    BY <1>4 DEF LfwProcess, Apply, Answer
  <2>3. \A a \in answers' \ answers : a.req = h.req
    BY <2>2
  <2>. QED
    BY <1>0, <1>4, <2>1, <2>2, <2>3 DEF Neutral
<1>. QED
  BY <1>1, <1>2, <1>3, <1>4 DEF HandlerStep

(***************************************************************************)
(* Elections, deliveries and requests of a leader are neutral.             *)
(***************************************************************************)
LEMMA OtherNeutral ==
  ASSUME NumberInv
  PROVE  /\ \A n \in Nodes : LfwEnd(n) \/ Elect(n) => Neutral
         /\ \A n \in Nodes, r \in sent : Receive(n, r) => Neutral
         /\ \A n, m \in Nodes, op \in Targeted : Replicate(n, m, op) => Neutral
         /\ StepDown => Neutral
<1>1. ASSUME NEW n \in Nodes, LfwEnd(n) \/ Elect(n) PROVE Neutral
  BY <1>1 DEF LfwEnd, Elect, Neutral, transportVars, bindingVars, hraftVars
<1>2. ASSUME NEW n \in Nodes, NEW r \in sent, Receive(n, r) PROVE Neutral
  <2>1. PICK i : handlers' = handlers \cup
                   {[node |-> n, req |-> r, no |-> i, pc |-> "handover"]}
    BY <1>2 DEF Receive, Deliver
  <2>2. \A g \in handlers' \ handlers : g.req = r /\ g.pc = "handover"
    BY <2>1
  <2>. QED
    BY <1>2, <2>2 DEF Receive, Deliver, Neutral, bindingVars, hraftVars
<1>3. ASSUME NEW n \in Nodes, NEW m \in Nodes, NEW op \in Targeted, Replicate(n, m, op)
      PROVE  Neutral
  <2>1. PICK r : sent' = sent \cup {r} /\ r.op = op
    <3>. DEFINE q == [op |-> op, src |-> n, dst |-> m, by |-> n,
                      seq |-> Cardinality({x \in sent : x.op \in Targeted}) + 1]
    <3>1. sent' = sent \cup {q}
      BY <1>3 DEF Replicate, Send
    <3>2. q.op = op
      OBVIOUS
    <3>. HIDE DEF q
    <3>. QED
      BY <3>1, <3>2
  <2>2. op \notin {"AddVoter", "RemoveServer"}
    BY DEF Targeted
  <2>. QED
    BY <1>3, <2>1, <2>2 DEF Replicate, Neutral, bindingVars, hraftVars
<1>4. ASSUME StepDown PROVE Neutral
  BY <1>4 DEF StepDown, Neutral, transportVars, bindingVars
<1>. QED
  BY <1>1, <1>2, <1>3, <1>4

(***************************************************************************)
(* The leader adds or removes a server (raft.go:403-419): an "ok" for      *)
(* AddVoter is answered to a node that waits for it and only when it is a  *)
(* member, and who is removed without having begun to close is ousted.     *)
(***************************************************************************)
LEMMA ChangeSafe ==
  ASSUME TypeInv, MemberInv, NEW h \in handlers, LfwProcess(h), h.req.op # "Apply"
  PROVE  MemberInv'
<1>. USE DEF MemberInv
<1>1. /\ h.pc = "wait" /\ leader = h.node /\ h.node \in Nodes /\ h.req \in sent
      /\ UNCHANGED <<sent, admin, joins, call, tries>>
  BY DEF LfwProcess, TakenInv, TypeInv, NumberInv, Handlers
<1>2. h.req.op \in {"AddVoter", "RemoveServer"}
  BY <1>1 DEF TakenInv, Lfw
<1>. DEFINE n == h.req.by
<1>3. /\ n \in Nodes /\ h.req.src = n
      /\ h.req = [op |-> h.req.op, src |-> n, dst |-> Everyone, by |-> n, seq |-> h.req.seq]
  BY <1>1, <1>2 DEF AskInv
<1>4. PICK result \in {"ok", "lost"} :
        /\ ChangeMembers(NewMembers(h.req), result)
        /\ Answer(h.req, IF result = "ok" THEN "ok" ELSE "retryable", Awaited(h.req))
  BY DEF LfwProcess
<1>. HIDE DEF n
<1>7. AskInv' /\ TakenInv'
  <2>1. \A g \in handlers' \ handlers : g.req = h.req /\ g.pc = "done"
    BY GotoFacts DEF LfwProcess, TypeInv
  <2>. QED
    BY <1>1, <2>1 DEF AskInv, TakenInv
<1>8. ousted' = (ousted \cup Ousted(h.req)) \ members'
  BY DEF LfwProcess
<1>5. CASE h.req.op = "AddVoter"
  <2>1. /\ members' \in {members, members \cup {n}}
        /\ result = "ok" => members' = members \cup {n}
    BY <1>3, <1>4, <1>5 DEF ChangeMembers, NewMembers
  <2>2. JoinInv'
    <3>1. ASSUME NEW a \in answers', a.req.op = "AddVoter", a \in answers
          PROVE  /\ a.req.by \in Nodes /\ admin'[a.req.by] = "joining"
                 /\ a.req = Pending(a.req.by, "AddVoter")'
                 /\ a.result = "ok" => a.req.by \in members' \cup ousted'
      BY <1>1, <1>8, <2>1, <3>1 DEF JoinInv, Pending, AdminRequest
    <3>2. ASSUME NEW a \in answers', a \notin answers
          PROVE  /\ a.req.by \in Nodes /\ admin'[a.req.by] = "joining"
                 /\ a.req = Pending(a.req.by, "AddVoter")'
                 /\ a.result = "ok" => a.req.by \in members' \cup ousted'
      <4>1. /\ a = [req |-> h.req, result |-> IF result = "ok" THEN "ok" ELSE "retryable"]
            /\ Awaited(h.req)
        BY <1>4, <3>2 DEF Answer
      <4>2. a.req = h.req /\ a.req.by = n /\ (a.result = "ok" => result = "ok")
        BY <1>4, <4>1 DEF n
      <4>3. admin[n] = "joining" /\ joins[n] = h.req.seq
        BY <1>5, <4>1 DEF Awaited, n
      <4>4. h.req = [op |-> "AddVoter", src |-> n, dst |-> Everyone, by |-> n, seq |-> joins[n]]
        BY <1>3, <1>5, <4>3
      <4>5. Pending(n, "AddVoter")' =
              [op |-> "AddVoter", src |-> n, dst |-> Everyone, by |-> n, seq |-> joins[n]]
        BY <1>1 DEF Pending, AdminRequest
      <4>. QED
        BY <1>1, <1>3, <2>1, <4>2, <4>3, <4>4, <4>5
    <3>. QED
      BY <3>1, <3>2 DEF JoinInv
  <2>4. OpenedIsMember'
    BY <1>1, <1>8, <2>1 DEF OpenedIsMember
  <2>. QED
    BY <1>7, <2>2, <2>4
<1>6. CASE h.req.op = "RemoveServer"
  <2>1. members' \in {members, members \ {n}}
    BY <1>3, <1>4, <1>6 DEF ChangeMembers, NewMembers
  <2>2. admin[n] \in Leaving \/ n \in members' \cup ousted'
    BY <1>3, <1>6, <1>8 DEF Ousted
  <2>3. \A a \in answers' : a.req.op = "AddVoter" => a \in answers
    BY <1>4, <1>6 DEF Answer
  <2>4. JoinInv'
    <3>1. ASSUME NEW a \in answers', a.req.op = "AddVoter"
          PROVE  /\ a.req.by \in Nodes /\ admin'[a.req.by] = "joining"
                 /\ a.req = Pending(a.req.by, "AddVoter")'
                 /\ a.result = "ok" => a.req.by \in members' \cup ousted'
      <4>1. a \in answers /\ (a.req.by = n => n \in members' \cup ousted')
        BY <2>2, <2>3, <3>1 DEF JoinInv, Leaving
      <4>. QED
        BY <1>1, <1>8, <2>1, <3>1, <4>1 DEF JoinInv, Pending, AdminRequest
    <3>. QED
      BY <3>1 DEF JoinInv
  <2>6. OpenedIsMember'
    BY <1>1, <1>8, <2>1, <2>2 DEF OpenedIsMember, Leaving
  <2>. QED
    BY <1>7, <2>4, <2>6
<1>. QED
  BY <1>2, <1>5, <1>6

(***************************************************************************)
(* A step of Open or Close of node n that touches other members or their   *)
(* pending requests in no way.                                             *)
(***************************************************************************)
LEMMA AdminSafe ==
  ASSUME StateType, MemberInv, NEW n \in Nodes,
         NEW pc, AdminGoto(n, pc), UNCHANGED handlers,
         sent \subseteq sent',
         \A r \in sent' \ sent :
           r = [op |-> r.op, src |-> n, dst |-> Everyone, by |-> n, seq |-> r.seq],
         answers' \subseteq answers,
         \A m \in Nodes \ {n} : joins'[m] = joins[m],
         \A a \in answers' : a.req.op = "AddVoter" => a.req.by # n,
         \A m \in (members \cup ousted) \ {n} : m \in members' \cup ousted',
         pc = "opened" => n \in members' \cup ousted'
  PROVE  MemberInv'
<1>. USE DEF MemberInv
<1>1. admin'[n] = pc /\ \A m \in Nodes \ {n} : admin'[m] = admin[m]
  BY DEF AdminGoto, StateType
<1>2. AskInv'
  <2>1. ASSUME NEW r \in sent, r.op \in {"AddVoter", "RemoveServer"}
        PROVE  /\ r.by \in Nodes
               /\ r = [op |-> r.op, src |-> r.by, dst |-> Everyone, by |-> r.by, seq |-> r.seq]
    BY <2>1 DEF AskInv
  <2>2. ASSUME NEW r \in sent' \ sent
        PROVE  /\ r.by \in Nodes
               /\ r = [op |-> r.op, src |-> r.by, dst |-> Everyone, by |-> r.by, seq |-> r.seq]
    <3>1. r.by = n
      BY <2>2
    <3>. QED
      BY <1>1, <2>2, <3>1
  <2>. QED
    BY <2>1, <2>2 DEF AskInv
<1>3. TakenInv'
  BY DEF TakenInv
<1>4. JoinInv'
  <2>1. ASSUME NEW a \in answers', a.req.op = "AddVoter"
        PROVE  /\ a.req.by \in Nodes /\ admin'[a.req.by] = "joining"
               /\ a.req = Pending(a.req.by, "AddVoter")'
               /\ a.result = "ok" => a.req.by \in members' \cup ousted'
    <3>1. /\ a \in answers /\ a.req.by # n /\ a.req.by \in Nodes /\ admin[a.req.by] = "joining"
          /\ a.req = Pending(a.req.by, "AddVoter") /\ (a.result = "ok" => a.req.by \in members \cup ousted)
      BY <2>1 DEF JoinInv
    <3>2. Pending(a.req.by, "AddVoter")' = Pending(a.req.by, "AddVoter")
      BY <3>1 DEF Pending, AdminRequest
    <3>. QED
      BY <1>1, <3>1, <3>2
  <2>. QED
    BY <2>1 DEF JoinInv
<1>6. OpenedIsMember'
  BY <1>1 DEF OpenedIsMember
<1>. QED
  BY <1>2, <1>3, <1>4, <1>6

(***************************************************************************)
(* A node that does not wait for a response to AddVoter has none.          *)
(***************************************************************************)
LEMMA NotJoining ==
  ASSUME MemberInv, NEW n \in Nodes, admin[n] # "joining"
  PROVE  \A a \in answers : a.req.op = "AddVoter" => a.req.by # n
BY DEF MemberInv, JoinInv

(***************************************************************************)
(* Once sendRPC (transport.go:378-400) has returned, no response is left   *)
(* for the node.                                                           *)
(***************************************************************************)
LEMMA Answerless ==
  ASSUME MemberInv, NEW n \in Nodes, Unsubscribe(Pending(n, "AddVoter"))
  PROVE  answers' \subseteq answers /\ \A a \in answers' : a.req.op = "AddVoter" => a.req.by # n
BY DEF MemberInv, JoinInv, Unsubscribe

(***************************************************************************)
(* Open and Close (raft.go:68-250) preserve what is known of members.      *)
(***************************************************************************)
LEMMA AdminNext ==
  ASSUME StateType, MemberInv, NEW n \in Nodes, AdminCall(n) \/ AdminStep(n)
  PROVE  MemberInv'
<1>1. CASE OpenAgain(n)
  <2>1. /\ admin[n] = "failed" /\ AdminGoto(n, "again")
        /\ UNCHANGED <<sent, answers, handlers, joins, members, ousted>>
    BY <1>1 DEF OpenAgain, transportVars, hraftVars
  <2>. QED
    BY <2>1, AdminSafe, NotJoining
<1>2. CASE OpenBootstrap(n)
  <2>1. /\ admin[n] \in {"new", "closed"} /\ ousted' = ousted \ {n}
        /\ UNCHANGED <<sent, answers, handlers, joins>>
        /\ \/ AdminGoto(n, "opened") /\ members = {} /\ members' = {n}
           \/ AdminGoto(n, "failed") /\ members \subseteq members'
    BY <1>2 DEF OpenBootstrap, NewRaft, BeginOpen
  <2>2. PICK pc \in {"opened", "failed"} : AdminGoto(n, pc) /\ (pc = "opened" => n \in members')
    BY <2>1
  <2>. QED
    BY <2>1, <2>2, AdminSafe, NotJoining
<1>3. CASE OpenJoin(n)
  <2>1. /\ admin[n] \in {"new", "closed"} /\ AdminGoto(n, "join") /\ ousted' = ousted \ {n}
        /\ UNCHANGED <<sent, answers, handlers, joins, members>>
    BY <1>3 DEF OpenJoin, NewRaft, BeginOpen
  <2>. QED
    BY <2>1, AdminSafe, NotJoining
<1>12. CASE OpenFails(n)
  <2>1. /\ admin[n] \in {"new", "closed"} /\ AdminGoto(n, "stranded")
        /\ UNCHANGED <<sent, answers, handlers, joins, members, ousted>>
    BY <1>12 DEF OpenFails, BeginOpen
  <2>. QED
    BY <2>1, AdminSafe, NotJoining
<1>4. CASE CloseLeader(n)
  <2>1. /\ admin[n] \in {"opened", "failed", "again"} /\ AdminGoto(n, "close")
        /\ members' \in {members, members \ {n}}
        /\ UNCHANGED <<sent, answers, handlers, joins, ousted>>
    BY <1>4 DEF CloseLeader, CallsClose, AwaitReaders
  <2>. QED
    BY <2>1, AdminSafe, NotJoining
<1>5. CASE CloseFollower(n)
  <2>1. /\ admin[n] \in {"opened", "failed", "again"} /\ AdminGoto(n, "remove")
        /\ \A m \in Nodes \ {n} : joins'[m] = joins[m]
        /\ UNCHANGED <<answers, handlers, members, ousted>>
    BY <1>5 DEF CloseFollower, CallsClose, SendByAdmin, StateType, hraftVars
  <2>2. sent' = sent \cup {AdminRequest(n, "RemoveServer")}
    BY <1>5 DEF CloseFollower, SendByAdmin, Send
  <2>3. \A r \in sent' \ sent :
          r = [op |-> r.op, src |-> n, dst |-> Everyone, by |-> n, seq |-> r.seq]
    BY <2>2 DEF AdminRequest
  <2>. QED
    BY <2>1, <2>2, <2>3, AdminSafe, NotJoining
<1>6. CASE JoinSend(n)
  <2>1. /\ admin[n] = "join" /\ AdminGoto(n, "joining")
        /\ \A m \in Nodes \ {n} : joins'[m] = joins[m]
        /\ UNCHANGED <<answers, handlers, members, ousted>>
    BY <1>6 DEF JoinSend, SendByAdmin, StateType, hraftVars
  <2>2. sent' = sent \cup {AdminRequest(n, "AddVoter")}
    BY <1>6 DEF JoinSend, SendByAdmin, Send
  <2>3. \A r \in sent' \ sent :
          r = [op |-> r.op, src |-> n, dst |-> Everyone, by |-> n, seq |-> r.seq]
    BY <2>2 DEF AdminRequest
  <2>. QED
    BY <2>1, <2>2, <2>3, AdminSafe, NotJoining
<1>7. CASE JoinFails(n)
  <2>1. /\ admin[n] = "join" /\ AdminGoto(n, "failed")
        /\ UNCHANGED <<sent, answers, handlers, joins, members, ousted>>
    BY <1>7 DEF JoinFails, transportVars, hraftVars
  <2>. QED
    BY <2>1, AdminSafe, NotJoining
<1>8. CASE Joined(n)
  <2>1. /\ admin[n] = "joining" /\ AdminGoto(n, "opened") /\ Unsubscribe(Pending(n, "AddVoter"))
        /\ UNCHANGED <<sent, handlers, joins, members, ousted>>
    BY <1>8 DEF Joined, hraftVars
  <2>2. n \in members \cup ousted
    <3>. DEFINE a == [req |-> Pending(n, "AddVoter"), result |-> "ok"]
    <3>1. a \in answers
      BY <1>8 DEF Joined, Answered
    <3>2. a.req.op = "AddVoter" /\ a.req.by = n /\ a.result = "ok"
      BY DEF Pending, AdminRequest
    <3>. HIDE DEF a
    <3>. QED
      BY <3>1, <3>2 DEF MemberInv, JoinInv
  <2>3. answers' \subseteq answers /\ \A a \in answers' : a.req.op = "AddVoter" => a.req.by # n
    BY <2>1, Answerless
  <2>. QED
    BY <2>1, <2>2, <2>3, AdminSafe
<1>9. CASE JoinAgain(n)
  <2>1. /\ admin[n] = "joining" /\ AdminGoto(n, "join") /\ Unsubscribe(Pending(n, "AddVoter"))
        /\ UNCHANGED <<sent, handlers, joins, members, ousted>>
    BY <1>9 DEF JoinAgain, hraftVars
  <2>2. answers' \subseteq answers /\ \A a \in answers' : a.req.op = "AddVoter" => a.req.by # n
    BY <2>1, Answerless
  <2>. QED
    BY <2>1, <2>2, AdminSafe
<1>10. CASE CloseShutdown(n)
  <2>1. /\ admin[n] = "remove" /\ AdminGoto(n, "close")
        /\ UNCHANGED <<sent, answers, handlers, joins, members, ousted>>
    BY <1>10 DEF CloseShutdown, AwaitReaders
  <2>. QED
    BY <2>1, AdminSafe, NotJoining
<1>11. CASE CloseReturn(n)
  <2>1. /\ admin[n] = "close" /\ AdminGoto(n, "closed")
        /\ UNCHANGED <<sent, answers, handlers, joins, members, ousted>>
    BY <1>11 DEF CloseReturn, TransClose, hraftVars
  <2>. QED
    BY <2>1, AdminSafe, NotJoining
<1>. QED
  BY <1>1, <1>2, <1>3, <1>4, <1>5, <1>6, <1>7, <1>8, <1>9, <1>10, <1>11, <1>12
     DEF AdminCall, AdminStep

(***************************************************************************)
(* MembershipInvariance: what is known of members, of requests to join or  *)
(* leave and of the responses to them holds in all behaviours              *)
(* (raft.go:187, 227, 403-419).                                            *)
(***************************************************************************)
THEOREM MembershipInvariance == Spec => []MemberInv
<1>1. Init => MemberInv
  <2>. SUFFICES ASSUME Init PROVE MemberInv
    OBVIOUS
  <2>. QED
    BY BindingAssumption DEF Init, TransportInit, MemberInv, AskInv, TakenInv, JoinInv, OpenedIsMember
<1>2. ASSUME CountInv, MemberInv, [Next]_vars PROVE MemberInv'
  <2>0. TypeInv /\ NumberInv /\ StateType
    BY <1>2 DEF CountInv, TypeInv
  <2>1. ASSUME NEW c \in Calls, Propose(c) \/ Cancel(c) \/ CallStep(c) PROVE MemberInv'
    BY <1>2, <2>1, CallNeutral, NeutralSafe
  <2>2. ASSUME NEW n \in Nodes, AdminCall(n) \/ AdminStep(n) PROVE MemberInv'
    BY <1>2, <2>0, <2>2, AdminNext
  <2>3. ASSUME NEW n \in Nodes, LfwEnd(n) \/ Elect(n) PROVE MemberInv'
    BY <1>2, <2>0, <2>3, OtherNeutral, NeutralSafe
  <2>4. ASSUME NEW n \in Nodes, NEW r \in sent, Receive(n, r) PROVE MemberInv'
    BY <1>2, <2>0, <2>4, OtherNeutral, NeutralSafe
  <2>5. ASSUME NEW h \in handlers, HandlerStep(h) PROVE MemberInv'
    <3>1. CASE LfwProcess(h) /\ h.req.op # "Apply"
      BY <1>2, <2>0, <3>1, ChangeSafe
    <3>2. CASE ~(LfwProcess(h) /\ h.req.op # "Apply")
      BY <1>2, <2>0, <2>5, <3>2, HandlerNeutral, NeutralSafe
    <3>. QED
      BY <3>1, <3>2
  <2>6. ASSUME NEW n \in Nodes, NEW m \in Nodes, NEW op \in Targeted, Replicate(n, m, op)
        PROVE  MemberInv'
    BY <1>2, <2>0, <2>6, OtherNeutral, NeutralSafe
  <2>7. CASE StepDown
    BY <1>2, <2>0, <2>7, OtherNeutral, NeutralSafe
  <2>8. CASE UNCHANGED vars
    <3>1. Neutral
      BY <2>8 DEF vars, transportVars, bindingVars, hraftVars, Neutral
    <3>. QED
      BY <1>2, <3>1, NeutralSafe
  <2>. QED
    BY <1>2, <2>1, <2>2, <2>3, <2>4, <2>5, <2>6, <2>7, <2>8 DEF Next
<1>. QED
  BY <1>1, <1>2, Counting, PTL DEF Spec

(***************************************************************************)
(* JoinIsMembership: when Open of a node returns nil the node is a member  *)
(* of the cluster, and it stays one until it closes, however often         *)
(* requests to join or to leave are lost, late or repeated, and however    *)
(* often nodes are closed and opened again, unless the leader processes a  *)
(* request to leave of an earlier life (raft.go:187, 236). An Open that    *)
(* finds the node of a failed one is excepted (raft.go:72).                *)
(***************************************************************************)
THEOREM JoinIsMembership == Spec => []OpenedIsMember
<1>1. MemberInv => OpenedIsMember
  BY DEF MemberInv
<1>. QED
  BY <1>1, MembershipInvariance, PTL
=============================================================================
