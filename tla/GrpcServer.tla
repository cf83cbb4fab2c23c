----------------------------- MODULE GrpcServer -----------------------------
(***************************************************************************)
(* The gRPC and gRPC-Web server (apis/grpc/grpc.go, grpcweb.go): handlers  *)
(* of remote procedure calls that run concurrently on top of the services, *)
(* and the tables of callbacks, under s.mu, by which results sent in       *)
(* separate calls find the action or query they belong to.                 *)
(*                                                                         *)
(* grpc-go is external: Stop cancels the contexts of all calls and does    *)
(* not wait for their handlers, which may therefore outlive Close. The     *)
(* services never close a channel before the handler cancels its context,  *)
(* so that the handlers' branch for a closed channel does not occur.       *)
(* Payloads are left out. Of a stream at most one message is looked at,    *)
(* the stream stands for the message's correlation id too.                 *)
(***************************************************************************)
EXTENDS FiniteSets

CONSTANTS
  Streams,          \* server streaming calls of clients
  Results,          \* calls of PublishActionResult and PublishQueryResult
  Scans,            \* calls of ScanPrefix and ScanRange
  None              \* no stream

ASSUME GrpcAssumption == None \notin Streams

VARIABLES
  svc,              \* state of the services, see Dda
  srv,              \* s.srv: "nil", "serving", or "dead" if it does not listen;
                    \* "none" if there is no grpcServer at all
  web,              \* the gRPC-Web server serves
  locked,           \* Close holds s.mu
  actionCallbacks,  \* s.actionCallbacks: streams as correlation ids
  queryCallbacks,   \* s.queryCallbacks
  stream,           \* handlers of streams
  result,           \* handlers of results
  scan,             \* handlers of scans
  done,             \* calls whose context is done
  outlived,         \* history: calls that were running when Close released s.mu
  finals            \* history: streams a final result was acknowledged for

tables == <<actionCallbacks, queryCallbacks>>
calls == <<stream, result, scan>>
grpcVars == <<svc, srv, web, locked, actionCallbacks, queryCallbacks, stream,
              result, scan, done, outlived, finals>>

Services == {"com", "store", "state"}
ServiceStates == {"disabled", "closed", "open", "half", "stuck"}

\* Streams differ in the service that fills their channel and in the callbacks they
\* register: those of SubscribeEvent, PublishAction and PublishQuery do not.
Kinds == {"com", "action", "query", "state"}
ServiceOf(kind) == IF kind = "state" THEN "state" ELSE "com"

StreamStates == {"idle", "call", "header", "loop", "register", "send", "end"}
ResultStates == {"idle", "lookup", "delete", "callback", "end"}
ScanStates == {"idle", "scan", "end"}

GrpcTypeOK ==
  /\ svc \in [Services -> ServiceStates]
  /\ srv \in {"none", "nil", "serving", "dead"} /\ web \in BOOLEAN /\ locked \in BOOLEAN
  /\ actionCallbacks \subseteq {s \in Streams : stream[s].kind = "action"}
  /\ queryCallbacks \subseteq {s \in Streams : stream[s].kind = "query"}
  /\ stream \in [Streams -> [pc: StreamStates, kind: Kinds, got: BOOLEAN, sent: BOOLEAN]]
  /\ result \in [Results -> [pc: ResultStates, to: Streams \cup {None},
                             kind: {"action", "query"}, final: BOOLEAN, late: BOOLEAN]]
  /\ scan \in [Scans -> ScanStates]
  /\ done \subseteq Streams \cup Scans
  /\ outlived \subseteq Streams /\ finals \subseteq Streams

\* A call of PublishActionResult or PublishQueryResult that is not running.
NoResult(pc) == [pc |-> pc, to |-> None, kind |-> "action", final |-> FALSE, late |-> FALSE]

GrpcInit ==
  /\ web = FALSE /\ locked = FALSE
  /\ actionCallbacks = {} /\ queryCallbacks = {}
  /\ stream = [s \in Streams |-> [pc |-> "idle", kind |-> "com", got |-> FALSE, sent |-> FALSE]]
  /\ result = [r \in Results |-> NoResult("idle")]
  /\ scan = [c \in Scans |-> "idle"]
  /\ done = {} /\ outlived = {} /\ finals = {}

-----------------------------------------------------------------------------
(* Open and Close, called by Dda. *)

\* Setting up succeeds, with or without a web server. An open server is left alone.
GrpcOpen ==
  /\ ~locked
  /\ \/ srv = "nil" /\ srv' = "serving" /\ web' \in BOOLEAN
     \/ srv # "nil" /\ UNCHANGED <<srv, web>>
  /\ UNCHANGED <<svc, locked, tables, calls, done, outlived, finals>>

\* Open fails at the certificate, which leaves no server, at the listener, which
\* leaves one that does not serve, or at the web server's certificate.
GrpcOpenFails ==
  /\ ~locked /\ srv = "nil"
  /\ srv' \in {"nil", "dead", "serving"}
  /\ UNCHANGED <<svc, web, locked, tables, calls, done, outlived, finals>>

RunningStreams == {s \in Streams : stream[s].pc \notin {"idle", "end"}}
RunningScans == {c \in Scans : scan[c] = "scan"}

\* Close locks s.mu and stops the server, which cancels all running calls.
GrpcStop ==
  /\ ~locked /\ locked' = TRUE
  /\ done' = done \cup RunningStreams \cup RunningScans
  /\ UNCHANGED <<svc, srv, web, tables, calls, outlived, finals>>

\* Mutant: the tables are not cleared.
MutantGrpcClosed ==
  /\ locked /\ locked' = FALSE
  /\ srv' = "nil" /\ web' = FALSE
  /\ outlived' = outlived \cup RunningStreams
  /\ UNCHANGED <<svc, tables, calls, done, finals>>

\* Close goes on to the web server and the tables. Without a server it does nothing.
GrpcClosed ==
  /\ locked /\ locked' = FALSE
  /\ srv' = "nil"
  /\ IF srv = "nil" THEN UNCHANGED <<web, tables>>
     ELSE web' = FALSE /\ actionCallbacks' = {} /\ queryCallbacks' = {}
  /\ outlived' = outlived \cup RunningStreams
  /\ UNCHANGED <<svc, calls, done, finals>>

-----------------------------------------------------------------------------
(* Streams. *)

Goto(s, pc) == stream' = [stream EXCEPT ![s].pc = pc]

\* A client starts a streaming call. A disabled service ends it at once.
Call(s, kind) ==
  /\ srv = "serving" /\ ~locked /\ stream[s].pc = "idle"
  /\ stream' = [stream EXCEPT ![s].kind = kind,
                  ![s].pc = IF svc[ServiceOf(kind)] = "disabled" THEN "end" ELSE "call"]
  /\ UNCHANGED <<svc, srv, web, locked, tables, result, scan, done, outlived, finals>>

SubscribeEvent(s) == Call(s, "com")
PublishAction(s) == Call(s, "com")
SubscribeAction(s) == Call(s, "action")
PublishQuery(s) == Call(s, "com")
SubscribeQuery(s) == Call(s, "query")
ObserveStateChange(s) == Call(s, "state")
ObserveMembershipChange(s) == Call(s, "state")

\* The service returns a channel, if it is open, or an error, which ends the call.
\* A service whose Close is stuck does not return.
CallReturns(s) ==
  /\ stream[s].pc = "call" /\ svc[ServiceOf(stream[s].kind)] # "stuck"
  /\ \/ /\ svc[ServiceOf(stream[s].kind)] \in {"open", "half"}
        /\ Goto(s, IF stream[s].kind = "state" THEN "loop" ELSE "header")
     \/ Goto(s, "end")
  /\ UNCHANGED <<svc, srv, web, locked, tables, result, scan, done, outlived, finals>>

\* The header acknowledges the subscription; it cannot be sent on a canceled call.
SendHeader(s) ==
  /\ stream[s].pc = "header"
  /\ Goto(s, IF s \in done THEN "end" ELSE "loop")
  /\ UNCHANGED <<svc, srv, web, locked, tables, result, scan, done, outlived, finals>>

\* A message is on the channel. An action or query is registered before it is sent.
Message(s) ==
  /\ stream[s].pc = "loop" /\ ~stream[s].got
  /\ stream' = [stream EXCEPT ![s].got = TRUE,
                  ![s].pc = IF stream[s].kind \in {"action", "query"} THEN "register" ELSE "send"]
  /\ UNCHANGED <<svc, srv, web, locked, tables, result, scan, done, outlived, finals>>

\* Mutant: the callback of a query is put among those of actions.
MutantRegister(s) ==
  /\ stream[s].pc = "register" /\ ~locked
  /\ actionCallbacks' = actionCallbacks \cup {s}
  /\ Goto(s, "send")
  /\ UNCHANGED <<svc, srv, web, locked, queryCallbacks, result, scan, done, outlived, finals>>

Register(s) ==
  /\ stream[s].pc = "register" /\ ~locked
  /\ actionCallbacks' = actionCallbacks \cup (IF stream[s].kind = "action" THEN {s} ELSE {})
  /\ queryCallbacks' = queryCallbacks \cup (IF stream[s].kind = "query" THEN {s} ELSE {})
  /\ Goto(s, "send")
  /\ UNCHANGED <<svc, srv, web, locked, result, scan, done, outlived, finals>>

\* Sending fails on a canceled call; the error is logged and the stream kept.
Send(s) ==
  /\ stream[s].pc = "send"
  /\ stream' = [stream EXCEPT ![s].pc = "loop", ![s].sent = s \notin done]
  /\ UNCHANGED <<svc, srv, web, locked, tables, result, scan, done, outlived, finals>>

\* The context of the call is done: the handler returns and cancels the context
\* it has passed to the service. A registered callback is not removed.
StreamDone(s) ==
  /\ stream[s].pc = "loop" /\ s \in done
  /\ Goto(s, "end")
  /\ UNCHANGED <<svc, srv, web, locked, tables, result, scan, done, outlived, finals>>

\* A client cancels a call, or its deadline passes.
ClientCancel(c) ==
  /\ c \in (RunningStreams \cup RunningScans) \ done
  /\ done' = done \cup {c}
  /\ UNCHANGED <<svc, srv, web, locked, tables, calls, outlived, finals>>

-----------------------------------------------------------------------------
(* Results. *)

\* A client that has received a message of stream s sends a result for it, the final
\* one if its sequence number is zero or less.
PublishResult(r, s, kind, final) ==
  /\ srv = "serving" /\ ~locked /\ svc["com"] # "disabled"
  /\ result[r].pc = "idle" /\ stream[s].sent /\ stream[s].kind \in {"action", "query"}
  /\ result' = [result EXCEPT ![r] = [pc |-> "lookup", to |-> s, kind |-> kind,
                                      final |-> final, late |-> s \in finals]]
  /\ UNCHANGED <<svc, srv, web, locked, tables, stream, scan, done, outlived, finals>>

PublishActionResult(r, s, final) == PublishResult(r, s, "action", final)
PublishQueryResult(r, s, final) == PublishResult(r, s, "query", final)

Table(kind) == IF kind = "action" THEN actionCallbacks ELSE queryCallbacks

\* An unknown correlation id ends the call with an invalid argument.
Lookup(r) ==
  /\ result[r].pc = "lookup" /\ ~locked
  /\ result' = [result EXCEPT ![r] =
                  IF @.to \notin Table(@.kind) THEN NoResult("end")
                  ELSE [@ EXCEPT !.pc = IF result[r].final THEN "delete" ELSE "callback"]]
  /\ UNCHANGED <<svc, srv, web, locked, tables, stream, scan, done, outlived, finals>>

\* Mutant: a final result leaves the callback for further attempts.
MutantForget(r) ==
  /\ result[r].pc = "delete" /\ ~locked
  /\ result' = [result EXCEPT ![r].pc = "callback"]
  /\ UNCHANGED <<svc, srv, web, locked, tables, stream, scan, done, outlived, finals>>

\* After a final result no more results will follow.
Forget(r) ==
  /\ result[r].pc = "delete" /\ ~locked
  /\ IF result[r].kind = "action"
     THEN actionCallbacks' = actionCallbacks \ {result[r].to} /\ UNCHANGED queryCallbacks
     ELSE queryCallbacks' = queryCallbacks \ {result[r].to} /\ UNCHANGED actionCallbacks
  /\ result' = [result EXCEPT ![r].pc = "callback"]
  /\ UNCHANGED <<svc, srv, web, locked, stream, scan, done, outlived, finals>>

\* The callback publishes the result, and the call is acknowledged or, if the result
\* cannot be transmitted or com is not open any more, ends with an error.
Callback(r) ==
  /\ result[r].pc = "callback" /\ svc["com"] # "stuck"
  /\ result' = [result EXCEPT ![r] = NoResult("end")]
  /\ \/ svc["com"] = "open" /\ finals' = finals \cup (IF result[r].final THEN {result[r].to} ELSE {})
     \/ UNCHANGED finals
  /\ UNCHANGED <<svc, srv, web, locked, tables, stream, scan, done, outlived>>

-----------------------------------------------------------------------------
(* Scans of the store. Other unary calls only pass on what a service returns. *)

\* The handler scans with the store locked for reading; the callback may block in
\* Send as long as the client does not read. The client decides when to go on.
ScanCall(c) ==
  /\ srv = "serving" /\ ~locked /\ scan[c] = "idle"
  /\ scan' = [scan EXCEPT ![c] = IF svc["store"] = "open" THEN "scan" ELSE "end"]
  /\ UNCHANGED <<svc, srv, web, locked, tables, stream, result, done, outlived, finals>>

ScanPrefix(c) == ScanCall(c)
ScanRange(c) == ScanCall(c)

ScanRead(c) ==
  /\ scan[c] = "scan" /\ c \notin done
  /\ scan' = [scan EXCEPT ![c] = "end"]
  /\ UNCHANGED <<svc, srv, web, locked, tables, stream, result, done, outlived, finals>>

\* Mutant: the scan goes on although the call has been canceled.
MutantScanDone(c) == FALSE /\ UNCHANGED grpcVars

\* On a canceled call the callback stops the scan.
ScanDone(c) ==
  /\ scan[c] = "scan" /\ c \in done
  /\ scan' = [scan EXCEPT ![c] = "end"]
  /\ UNCHANGED <<svc, srv, web, locked, tables, stream, result, done, outlived, finals>>

-----------------------------------------------------------------------------
\* Steps a handler takes by itself.
StreamStep(s) == CallReturns(s) \/ SendHeader(s) \/ Register(s) \/ Send(s) \/ StreamDone(s)
ResultStep(r) == Lookup(r) \/ Forget(r) \/ Callback(r)

GrpcNext ==
  \/ \E s \in Streams :
       \/ SubscribeEvent(s) \/ PublishAction(s) \/ SubscribeAction(s)
       \/ PublishQuery(s) \/ SubscribeQuery(s)
       \/ ObserveStateChange(s) \/ ObserveMembershipChange(s)
       \/ Message(s) \/ StreamStep(s)
       \/ \E r \in Results, final \in BOOLEAN :
            PublishActionResult(r, s, final) \/ PublishQueryResult(r, s, final)
  \/ \E r \in Results : ResultStep(r)
  \/ \E c \in Scans : ScanPrefix(c) \/ ScanRange(c) \/ ScanRead(c) \/ ScanDone(c)
  \/ \E c \in Streams \cup Scans : ClientCancel(c)
=============================================================================
