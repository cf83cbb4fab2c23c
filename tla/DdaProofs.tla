----------------------------- MODULE DdaProofs -----------------------------
(***************************************************************************)
(* The agent's lifecycle and the callback tables of its gRPC server, for   *)
(* any number of clients' calls and of openings.                           *)
(***************************************************************************)
EXTENDS Dda, TLAPS

\* How far Open and Close have got. Open goes past com only if com is open or
\* disabled, Close goes past a service only if it is not open any more, and not past
\* one whose own Close is stuck.
ServiceInv ==
  /\ svc["com"] \in {"disabled", "closed", "open", "stuck"}
  /\ svc["store"] \in {"disabled", "closed", "open"}
  /\ svc["state"] # "disabled" => svc["com"] # "disabled"
  /\ agent \in {"openStore", "openState"} => svc["com"] # "closed"
  /\ svc["state"] = "stuck" => agent = "closeState"
  /\ svc["com"] = "stuck" => agent = "closeCom"
  /\ agent \in {"closeStore", "closeCom", "closed"} => svc["state"] \notin {"open", "half"}
  /\ agent \in {"closeCom", "closed"} => svc["store"] # "open"
  /\ agent = "closed" => svc["com"] # "open"
  /\ StateNeedsCom

\* Without a server, handlers and callbacks are those that outlived it.
ServerInv ==
  /\ agent \in {"closeState", "closeStore", "closeCom", "closed"} => srv \in {"none", "nil"}
  /\ srv \in {"none", "nil"} => /\ ~web
                              /\ actionCallbacks \cup queryCallbacks \subseteq outlived
                              /\ RunningStreams \subseteq outlived

\* A message is registered and sent once, and not before the call has started.
StreamInv ==
  \A s \in Streams :
    /\ stream[s].pc = "idle" => s \notin actionCallbacks \cup queryCallbacks
    /\ stream[s].pc \in {"idle", "call", "header", "register", "send"} => ~stream[s].sent
    /\ stream[s].sent \/ stream[s].pc \in {"register", "send"} => stream[s].got

\* A callback that was found is one of the stream's own kind. Once a final result
\* has removed it, it is gone for good.
ResultInv ==
  /\ \A r \in Results :
       /\ result[r].pc \in {"lookup", "delete", "callback"} =>
            result[r].to \in Streams /\ stream[result[r].to].sent
       /\ result[r].pc \in {"delete", "callback"} =>
            result[r].kind = stream[result[r].to].kind
       /\ result[r].pc = "callback" /\ result[r].final =>
            result[r].to \notin actionCallbacks \cup queryCallbacks
       /\ result[r].late => result[r].pc = "lookup" /\ result[r].to \in finals
  /\ \A s \in finals : stream[s].sent /\ s \notin actionCallbacks \cup queryCallbacks

(***************************************************************************)
(* The inductive invariant: types, services, server, streams and results   *)
(* (dda.go:105-159, grpc.go:82-160, 300-520).                              *)
(***************************************************************************)
IInv == TypeOK /\ ServiceInv /\ ServerInv /\ StreamInv /\ ResultInv

(***************************************************************************)
(* Steps of Open and Close that handle a service (dda.go:105-159).         *)
(***************************************************************************)
ServiceStep ==
  \/ OpenCom \/ OpenComFails \/ OpenStore \/ OpenStoreFails \/ OpenState \/ OpenStateFails
  \/ CloseState \/ CloseStore \/ CloseCom \/ Open \/ Close

(***************************************************************************)
(* A step that leaves handlers and tables alone preserves what is said of  *)
(* them (grpc.go:300-520).                                                 *)
(***************************************************************************)
LEMMA HandlersSame ==
  ASSUME StreamInv, ResultInv, UNCHANGED <<stream, result, actionCallbacks, queryCallbacks, finals>>
  PROVE  StreamInv' /\ ResultInv'
  BY DEF StreamInv, ResultInv

(***************************************************************************)
(* Opening and closing a service preserves the invariant (dda.go:105-159). *)
(***************************************************************************)
LEMMA ServiceSafe == ASSUME IInv, ServiceStep PROVE IInv'
<1>1. UNCHANGED rest
  BY DEF ServiceStep, Open, Close, OpenCom, OpenComFails, OpenStore, OpenStoreFails, OpenState,
         OpenStateFails, CloseState, CloseStore, CloseCom, OpenService, OpenFails, CloseService, CloseBlocks
<1>2. /\ svc \in [Services -> ServiceStates] /\ opens \in 0..MaxOpens /\ MaxOpens \in Nat
      /\ left \subseteq {"store", "node"}
  BY OpensAssumption DEF IInv, TypeOK, GrpcTypeOK
<1>3. /\ svc' \in [Services -> ServiceStates] /\ opens' \in 0..MaxOpens /\ left' \subseteq {"store", "node"}
      /\ agent' \in {"closed", "open", "failed"} \cup Opening \cup Closing
  BY <1>2 DEF ServiceStep, Open, Close, OpenCom, OpenComFails, OpenStore, OpenStoreFails, OpenState,
         OpenStateFails, CloseState, CloseStore, CloseCom, OpenService, OpenFails, CloseService, CloseBlocks,
         Services, ServiceStates, Opening, Closing
<1>4. TypeOK'
  BY <1>1, <1>3 DEF IInv, TypeOK, GrpcTypeOK, rest
<1>5. ServiceInv'
  BY <1>2 DEF IInv, ServiceInv, StateNeedsCom, ServiceStep, Open, Close, OpenCom, OpenComFails,
         OpenStore, OpenStoreFails, OpenState, OpenStateFails, CloseState, CloseStore, CloseCom,
         OpenService, OpenFails, CloseService, CloseBlocks, Services, ServiceStates
<1>6. agent' \in {"closeState", "closeStore", "closeCom", "closed"} => srv \in {"none", "nil"}
  BY DEF IInv, ServerInv, ServiceStep, Open, Close, OpenCom, OpenComFails,
         OpenStore, OpenStoreFails, OpenState, OpenStateFails, CloseState, CloseStore, CloseCom,
         OpenService, OpenFails, CloseService, CloseBlocks
<1>7. ServerInv'
  BY <1>1, <1>6 DEF IInv, ServerInv, RunningStreams, rest
<1>. QED
  BY <1>1, <1>4, <1>5, <1>7, HandlersSame DEF IInv, rest

(***************************************************************************)
(* Opening and closing the server preserves the invariant: closing clears  *)
(* the tables, or has nothing to clear (grpc.go:82-160).                   *)
(***************************************************************************)
LEMMA ServerSafe ==
  ASSUME IInv, OpenGrpc \/ OpenGrpcFails \/ CloseGrpc \/ StopGrpc
  PROVE  IInv'
<1>1. UNCHANGED <<svc, stream, result, scan, finals, left>>
  BY DEF OpenGrpc, OpenGrpcFails, CloseGrpc, StopGrpc, GrpcOpen, GrpcOpenFails, GrpcStop,
         GrpcClosed, calls, rest
<1>2. actionCallbacks' \subseteq actionCallbacks /\ queryCallbacks' \subseteq queryCallbacks
  BY DEF OpenGrpc, OpenGrpcFails, CloseGrpc, StopGrpc, GrpcOpen, GrpcOpenFails, GrpcStop,
         GrpcClosed, tables, rest
<1>3. done' \subseteq Streams \cup Scans /\ outlived' \subseteq Streams
  BY DEF IInv, TypeOK, GrpcTypeOK, OpenGrpc, OpenGrpcFails, CloseGrpc, StopGrpc, GrpcOpen,
         GrpcOpenFails, GrpcStop, GrpcClosed, RunningStreams, RunningScans, rest
<1>4. srv' \in {"none", "nil", "serving", "dead"} /\ web' \in BOOLEAN /\ locked' \in BOOLEAN
  BY Zenon DEF IInv, TypeOK, GrpcTypeOK, OpenGrpc, OpenGrpcFails, CloseGrpc, StopGrpc, GrpcOpen,
         GrpcOpenFails, GrpcStop, GrpcClosed, rest
<1>5. opens' \in 0..MaxOpens /\ agent' \in {"closed", "open", "failed"} \cup Opening \cup Closing
  BY DEF IInv, TypeOK, OpenGrpc, OpenGrpcFails, CloseGrpc, StopGrpc, Opening, Closing
<1>6. TypeOK'
  BY <1>1, <1>2, <1>3, <1>4, <1>5 DEF IInv, TypeOK, GrpcTypeOK
<1>7. ServiceInv'
  BY <1>1 DEF IInv, ServiceInv, StateNeedsCom, OpenGrpc, OpenGrpcFails, CloseGrpc, StopGrpc
<1>8. ServerInv'
  <2>1. CASE OpenGrpc \/ OpenGrpcFails
    BY <1>1, <2>1 DEF IInv, ServerInv, OpenGrpc, OpenGrpcFails, GrpcOpen, GrpcOpenFails,
       RunningStreams, tables
  <2>2. CASE CloseGrpc
    BY <1>1, <2>2 DEF IInv, ServerInv, CloseGrpc, GrpcStop, RunningStreams, tables, rest
  <2>3. CASE StopGrpc
    BY <1>1, <2>3 DEF IInv, ServerInv, StopGrpc, GrpcClosed, RunningStreams, tables
  <2>. QED
    BY <2>1, <2>2, <2>3
<1>9. StreamInv' /\ ResultInv'
  BY <1>1, <1>2 DEF IInv, StreamInv, ResultInv
<1>. QED
  BY <1>6, <1>7, <1>8, <1>9 DEF IInv

(***************************************************************************)
(* A handler changes no service and not the server.                        *)
(***************************************************************************)
Framed == UNCHANGED <<svc, srv, web, locked, outlived, agent, opens, left>>

(***************************************************************************)
(* What handlers leave alone need not be shown again (grpc.go:300-700).    *)
(***************************************************************************)
LEMMA FrameSafe ==
  ASSUME IInv, Framed
  PROVE  /\ ServiceInv'
         /\ (srv \in {"none", "nil"} => actionCallbacks' \cup queryCallbacks' \cup RunningStreams' \subseteq outlived)
            => ServerInv'
<1>1. ServiceInv'
  BY DEF IInv, ServiceInv, StateNeedsCom, Framed
<1>2. ASSUME srv \in {"none", "nil"} => actionCallbacks' \cup queryCallbacks' \cup RunningStreams' \subseteq outlived
      PROVE  ServerInv'
  BY <1>2 DEF IInv, ServerInv, Framed
<1>. QED
  BY <1>1, <1>2

StreamRecords == [pc: StreamStates, kind: Kinds, got: BOOLEAN, sent: BOOLEAN]

(***************************************************************************)
(* A step of one stream's handler preserves the invariant if it goes ahead *)
(* from where the handler is, keeps the kind of the stream, and registers  *)
(* at most this stream's callback, before anything is sent                 *)
(* (grpc.go:300-335, 448-478).                                             *)
(***************************************************************************)
LEMMA StreamSafe ==
  ASSUME IInv, Framed, UNCHANGED <<result, scan, done, finals>>,
         NEW s \in Streams, NEW rec \in StreamRecords, stream' = [stream EXCEPT ![s] = rec],
         stream[s].pc = "idle" => srv = "serving",
         stream[s].pc # "end", rec.pc # "idle",
         stream[s].pc # "idle" => rec.kind = stream[s].kind,
         stream[s].sent => rec.sent,
         rec.pc \in {"call", "header", "register", "send"} => ~rec.sent,
         rec.sent \/ rec.pc \in {"register", "send"} => rec.got,
         \/ UNCHANGED <<actionCallbacks, queryCallbacks>>
         \/ /\ stream[s].pc = "register"
            /\ actionCallbacks' = actionCallbacks \cup (IF stream[s].kind = "action" THEN {s} ELSE {})
            /\ queryCallbacks' = queryCallbacks \cup (IF stream[s].kind = "query" THEN {s} ELSE {})
  PROVE  IInv'
<1>1. /\ stream \in [Streams -> StreamRecords] /\ stream' \in [Streams -> StreamRecords]
      /\ stream'[s] = rec /\ \A t \in Streams \ {s} : stream'[t] = stream[t]
  BY DEF IInv, TypeOK, GrpcTypeOK, StreamRecords
<1>2. \A t \in Streams : stream[t].pc # "idle" => stream'[t].kind = stream[t].kind
  BY <1>1
<1>3. /\ actionCallbacks' \subseteq {t \in Streams : stream'[t].kind = "action"}
      /\ queryCallbacks' \subseteq {t \in Streams : stream'[t].kind = "query"}
  <2>1. /\ \A t \in actionCallbacks : t \in Streams /\ stream[t].kind = "action" /\ stream[t].pc # "idle"
        /\ \A t \in queryCallbacks : t \in Streams /\ stream[t].kind = "query" /\ stream[t].pc # "idle"
    BY DEF IInv, TypeOK, GrpcTypeOK, StreamInv
  <2>. QED
    BY <1>2, <2>1
<1>4. TypeOK'
  BY <1>1, <1>3 DEF IInv, TypeOK, GrpcTypeOK, Framed, StreamRecords
<1>5. ServiceInv' /\ ServerInv'
  <2>1. SUFFICES ASSUME srv \in {"none", "nil"}
                 PROVE  actionCallbacks' \cup queryCallbacks' \cup RunningStreams' \subseteq outlived
    BY FrameSafe
  <2>2. s \in outlived
    BY <2>1 DEF IInv, ServerInv, RunningStreams
  <2>3. RunningStreams' \subseteq RunningStreams \cup {s}
    BY <1>1 DEF RunningStreams
  <2>4. actionCallbacks' \cup queryCallbacks' \subseteq actionCallbacks \cup queryCallbacks \cup {s}
    OBVIOUS
  <2>. QED
    BY <2>1, <2>2, <2>3, <2>4 DEF IInv, ServerInv
<1>6. StreamInv'
  <2>1. SUFFICES ASSUME NEW t \in Streams
                 PROVE  /\ stream'[t].pc = "idle" => t \notin actionCallbacks' \cup queryCallbacks'
                        /\ stream'[t].pc \in {"idle", "call", "header", "register", "send"} => ~stream'[t].sent
                        /\ stream'[t].sent \/ stream'[t].pc \in {"register", "send"} => stream'[t].got
    BY DEF StreamInv
  <2>2. CASE t = s
    BY <1>1, <2>2
  <2>3. CASE t # s
    BY <1>1, <2>3 DEF IInv, StreamInv
  <2>. QED
    BY <2>2, <2>3
<1>7. \A t \in Streams : stream[t].sent =>
        /\ stream'[t].sent /\ stream'[t].kind = stream[t].kind
        /\ t \in actionCallbacks' \cup queryCallbacks' => t \in actionCallbacks \cup queryCallbacks
  <2>1. TAKE t \in Streams
  <2>2. HAVE stream[t].sent
  <2>3. stream[t].pc \notin {"idle", "register"}
    BY <2>2 DEF IInv, StreamInv
  <2>4. stream'[t].sent
    BY <1>1, <2>2
  <2>. QED
    BY <1>2, <2>3, <2>4
<1>8. ResultInv'
  <2>1. finals \subseteq Streams
    BY DEF IInv, TypeOK, GrpcTypeOK
  <2>. QED
    BY <1>7, <2>1 DEF IInv, ResultInv
<1>. QED
  BY <1>4, <1>5, <1>6, <1>8 DEF IInv

(***************************************************************************)
(* Every step of a streaming call preserves the invariant                  *)
(* (grpc.go:240-335, 420-478, 560-600).                                    *)
(***************************************************************************)
LEMMA StreamStepSafe ==
  ASSUME IInv, UNCHANGED <<agent, opens, left>>, NEW s \in Streams,
         (\E kind \in Kinds : Call(s, kind)) \/ Message(s) \/ StreamStep(s)
  PROVE  IInv'
<1>1. stream \in [Streams -> StreamRecords] /\ stream[s] \in StreamRecords
  BY DEF IInv, TypeOK, GrpcTypeOK, StreamRecords
<1>2. /\ stream[s].pc \in {"idle", "call", "header", "register", "send"} => ~stream[s].sent
      /\ stream[s].sent \/ stream[s].pc \in {"register", "send"} => stream[s].got
  BY DEF IInv, StreamInv
<1>3. ASSUME NEW pc \in StreamStates, Goto(s, pc)
      PROVE  stream' = [stream EXCEPT ![s] = [stream[s] EXCEPT !.pc = pc]]
  BY <1>1, <1>3 DEF Goto
<1>4. ASSUME NEW kind \in Kinds, Call(s, kind) PROVE IInv'
  <2> DEFINE pc == IF svc[ServiceOf(kind)] = "disabled" THEN "end" ELSE "call"
             rec == [stream[s] EXCEPT !.kind = kind, !.pc = pc]
  <2>1. Framed /\ UNCHANGED <<result, scan, done, finals, actionCallbacks, queryCallbacks>>
    BY <1>4 DEF Call, Framed, tables
  <2>2. stream' = [stream EXCEPT ![s] = rec]
    BY <1>1, <1>4 DEF Call
  <2>3. /\ rec \in StreamRecords /\ rec.pc \in {"end", "call"} /\ rec.sent = stream[s].sent
        /\ rec.got = stream[s].got
    BY <1>1 DEF StreamRecords, StreamStates
  <2>4. stream[s].pc = "idle" /\ srv = "serving"
    BY <1>4 DEF Call
  <2>. HIDE DEF rec
  <2>. QED
    BY <1>2, <2>1, <2>2, <2>3, <2>4, StreamSafe
<1>5. CASE Message(s)
  <2> DEFINE pc == IF stream[s].kind \in {"action", "query"} THEN "register" ELSE "send"
             rec == [stream[s] EXCEPT !.got = TRUE, !.pc = pc]
  <2>1. Framed /\ UNCHANGED <<result, scan, done, finals, actionCallbacks, queryCallbacks>>
    BY <1>5 DEF Message, Framed, tables
  <2>2. stream' = [stream EXCEPT ![s] = rec]
    BY <1>1, <1>5 DEF Message
  <2>3. stream[s].pc = "loop" /\ ~stream[s].sent
    BY <1>2, <1>5 DEF Message
  <2>4. /\ rec \in StreamRecords /\ rec.pc \in {"register", "send"} /\ rec.sent = stream[s].sent
        /\ rec.got /\ rec.kind = stream[s].kind
    BY <1>1 DEF StreamRecords, StreamStates
  <2>. HIDE DEF rec
  <2>. QED
    BY <2>1, <2>2, <2>3, <2>4, StreamSafe
<1>6. CASE CallReturns(s)
  <2>1. Framed /\ UNCHANGED <<result, scan, done, finals, actionCallbacks, queryCallbacks>>
    BY <1>6 DEF CallReturns, Framed, tables
  <2>2. stream[s].pc = "call" /\ ~stream[s].sent
    BY <1>2, <1>6 DEF CallReturns
  <2>3. PICK pc \in {"loop", "header", "end"} : Goto(s, pc)
    BY <1>6 DEF CallReturns
  <2> DEFINE rec == [stream[s] EXCEPT !.pc = pc]
  <2>4. stream' = [stream EXCEPT ![s] = rec]
    BY <1>3, <2>3 DEF StreamStates
  <2>5. /\ rec \in StreamRecords /\ rec.pc = pc /\ rec.sent = stream[s].sent
        /\ rec.got = stream[s].got /\ rec.kind = stream[s].kind
    BY <1>1 DEF StreamRecords, StreamStates
  <2>. HIDE DEF rec
  <2>. QED
    BY <2>1, <2>2, <2>3, <2>4, <2>5, StreamSafe
<1>7. CASE SendHeader(s) \/ StreamDone(s)
  <2>1. Framed /\ UNCHANGED <<result, scan, done, finals, actionCallbacks, queryCallbacks>>
    BY <1>7 DEF SendHeader, StreamDone, Framed, tables
  <2>2. stream[s].pc \in {"header", "loop"}
    BY <1>7 DEF SendHeader, StreamDone
  <2>3. PICK pc \in {"loop", "end"} : Goto(s, pc)
    BY <1>7 DEF SendHeader, StreamDone
  <2> DEFINE rec == [stream[s] EXCEPT !.pc = pc]
  <2>4. stream' = [stream EXCEPT ![s] = rec]
    BY <1>3, <2>3 DEF StreamStates
  <2>5. /\ rec \in StreamRecords /\ rec.pc = pc /\ rec.sent = stream[s].sent
        /\ rec.got = stream[s].got /\ rec.kind = stream[s].kind
    BY <1>1 DEF StreamRecords, StreamStates
  <2>. HIDE DEF rec
  <2>. QED
    BY <1>2, <2>1, <2>2, <2>3, <2>4, <2>5, StreamSafe
<1>8. CASE Register(s)
  <2>1. Framed /\ UNCHANGED <<result, scan, done, finals>>
    BY <1>8 DEF Register, Framed
  <2>2. stream[s].pc = "register" /\ ~stream[s].sent /\ stream[s].got
    BY <1>2, <1>8 DEF Register
  <2> DEFINE rec == [stream[s] EXCEPT !.pc = "send"]
  <2>4. stream' = [stream EXCEPT ![s] = rec]
    BY <1>3, <1>8 DEF Register, StreamStates
  <2>5. /\ rec \in StreamRecords /\ rec.pc = "send" /\ rec.sent = stream[s].sent
        /\ rec.got = stream[s].got /\ rec.kind = stream[s].kind
    BY <1>1 DEF StreamRecords, StreamStates
  <2>6. /\ actionCallbacks' = actionCallbacks \cup (IF stream[s].kind = "action" THEN {s} ELSE {})
        /\ queryCallbacks' = queryCallbacks \cup (IF stream[s].kind = "query" THEN {s} ELSE {})
    BY <1>8 DEF Register
  <2>. HIDE DEF rec
  <2>. QED
    BY <2>1, <2>2, <2>4, <2>5, <2>6, StreamSafe
<1>9. CASE Send(s)
  <2>1. Framed /\ UNCHANGED <<result, scan, done, finals, actionCallbacks, queryCallbacks>>
    BY <1>9 DEF Send, Framed, tables
  <2>2. stream[s].pc = "send" /\ ~stream[s].sent /\ stream[s].got
    BY <1>2, <1>9 DEF Send
  <2> DEFINE rec == [stream[s] EXCEPT !.pc = "loop", !.sent = s \notin done]
  <2>3. stream' = [stream EXCEPT ![s] = rec]
    BY <1>1, <1>9 DEF Send
  <2>4. rec \in StreamRecords /\ rec.pc = "loop" /\ rec.got = stream[s].got /\ rec.kind = stream[s].kind
    BY <1>1 DEF StreamRecords, StreamStates
  <2>. HIDE DEF rec
  <2>. QED
    BY <2>1, <2>2, <2>3, <2>4, StreamSafe
<1>. QED
  BY <1>4, <1>5, <1>6, <1>7, <1>8, <1>9 DEF StreamStep

ResultRecords == [pc: ResultStates, to: Streams \cup {None}, kind: {"action", "query"},
                  final: BOOLEAN, late: BOOLEAN]

(***************************************************************************)
(* Sending a result preserves the invariant: it is late only if a final    *)
(* result has been acknowledged before (grpc.go:336-340, 480-484).         *)
(***************************************************************************)
LEMMA PublishSafe ==
  ASSUME IInv, UNCHANGED <<agent, opens, left>>, NEW r \in Results, NEW s \in Streams,
         NEW kind \in {"action", "query"}, NEW final \in BOOLEAN, PublishResult(r, s, kind, final)
  PROVE  IInv'
<1>1. Framed /\ UNCHANGED <<actionCallbacks, queryCallbacks, stream, scan, done, finals>>
  BY DEF PublishResult, Framed, tables
<1>2. stream[s].sent
  BY DEF PublishResult
<1> DEFINE late == s \in finals
           rec == [pc |-> "lookup", to |-> s, kind |-> kind, final |-> final, late |-> late]
<1>3. result' = [result EXCEPT ![r] = rec]
  BY DEF PublishResult
<1>0. late \in BOOLEAN /\ (late => s \in finals)
  OBVIOUS
<1>. HIDE DEF late
<1>4. rec \in ResultRecords /\ rec.pc = "lookup" /\ rec.to = s /\ (rec.late => s \in finals)
  BY <1>0 DEF ResultRecords, ResultStates
<1>. HIDE DEF rec
<1>5. /\ result' \in [Results -> ResultRecords] /\ result'[r] = rec
      /\ \A q \in Results \ {r} : result'[q] = result[q]
  BY <1>3, <1>4 DEF IInv, TypeOK, GrpcTypeOK, ResultRecords
<1>6. TypeOK'
  BY <1>1, <1>5 DEF IInv, TypeOK, GrpcTypeOK, Framed, ResultRecords
<1>7. ServiceInv' /\ ServerInv'
  BY <1>1, FrameSafe DEF IInv, ServerInv, RunningStreams
<1>8. StreamInv'
  BY <1>1 DEF IInv, StreamInv
<1>9. ResultInv'
  BY <1>1, <1>2, <1>4, <1>5 DEF IInv, ResultInv
<1>. QED
  BY <1>6, <1>7, <1>8, <1>9 DEF IInv

(***************************************************************************)
(* The three steps of a result preserve the invariant. A callback that is  *)
(* found and removed by one call may have been found by another before,    *)
(* but is not found again (grpc.go:336-367, 480-514).                      *)
(***************************************************************************)
LEMMA ResultSafe ==
  ASSUME IInv, UNCHANGED <<agent, opens, left>>, NEW r \in Results, ResultStep(r)
  PROVE  IInv'
<1>1. Framed /\ UNCHANGED <<stream, scan, done>>
  BY DEF ResultStep, Lookup, Forget, Callback, Framed
<1>2. result \in [Results -> ResultRecords] /\ result[r] \in ResultRecords
  BY DEF IInv, TypeOK, GrpcTypeOK, ResultRecords
<1>3. result[r].pc \in {"lookup", "delete", "callback"} /\ result[r].to \in Streams
      /\ stream[result[r].to].sent
  BY DEF IInv, ResultInv, ResultStep, Lookup, Forget, Callback
<1>4. /\ \A s \in actionCallbacks : s \in Streams /\ stream[s].kind = "action"
      /\ \A s \in queryCallbacks : s \in Streams /\ stream[s].kind = "query"
  BY DEF IInv, TypeOK, GrpcTypeOK
<1>5. actionCallbacks' \subseteq actionCallbacks /\ queryCallbacks' \subseteq queryCallbacks
  BY DEF ResultStep, Lookup, Forget, Callback, tables
<1>6. NoResult("end") \in ResultRecords /\ NoResult("end").pc = "end" /\ ~NoResult("end").late
  BY DEF NoResult, ResultRecords, ResultStates
\* What becomes of the call: it ends, or it has found the callback.
<1>7. \E rec \in ResultRecords :
        /\ result' = [result EXCEPT ![r] = rec]
        /\ rec.pc \in {"delete", "callback", "end"}
        /\ ~rec.late
        /\ rec.pc # "end" =>
             /\ rec.to = result[r].to /\ rec.kind = result[r].kind
             /\ result[r].kind = stream[result[r].to].kind
             /\ rec.pc = "callback" /\ rec.final =>
                  result[r].to \notin actionCallbacks' \cup queryCallbacks'
  <2>1. CASE Lookup(r)
    <3>1. CASE result[r].to \notin Table(result[r].kind)
      <4>1. result' = [result EXCEPT ![r] = NoResult("end")]
        BY <1>2, <2>1, <3>1 DEF Lookup
      <4>. QED
        BY <1>6, <4>1
    <3>2. CASE result[r].to \in Table(result[r].kind)
      <4> DEFINE rec == [result[r] EXCEPT !.pc = IF result[r].final THEN "delete" ELSE "callback"]
      <4>1. result' = [result EXCEPT ![r] = rec]
        BY <1>2, <2>1, <3>2 DEF Lookup
      <4>2. /\ rec \in ResultRecords /\ rec.to = result[r].to /\ rec.kind = result[r].kind
            /\ rec.late = result[r].late /\ rec.final = result[r].final
            /\ rec.pc = IF result[r].final THEN "delete" ELSE "callback"
        BY <1>2 DEF ResultRecords, ResultStates
      <4>3. result[r].kind = stream[result[r].to].kind
        BY <1>2, <1>4, <3>2 DEF Table, ResultRecords
      <4>4. ~result[r].late
        BY <3>2 DEF IInv, ResultInv, Table
      <4>. HIDE DEF rec
      <4>. QED
        BY <4>1, <4>2, <4>3, <4>4
    <3>. QED
      BY <3>1, <3>2
  <2>2. CASE Forget(r)
    <3> DEFINE rec == [result[r] EXCEPT !.pc = "callback"]
    <3>1. result' = [result EXCEPT ![r] = rec]
      BY <1>2, <2>2 DEF Forget
    <3>2. /\ rec \in ResultRecords /\ rec.to = result[r].to /\ rec.kind = result[r].kind
          /\ rec.late = result[r].late /\ rec.pc = "callback"
      BY <1>2 DEF ResultRecords, ResultStates
    <3>3. result[r].kind = stream[result[r].to].kind /\ ~result[r].late
      BY <2>2 DEF Forget, IInv, ResultInv
    <3>4. result[r].to \notin actionCallbacks' \cup queryCallbacks'
      <4>1. CASE result[r].kind = "action"
        BY <1>4, <2>2, <3>3, <4>1 DEF Forget
      <4>2. CASE result[r].kind = "query"
        BY <1>4, <2>2, <3>3, <4>2 DEF Forget
      <4>. QED
        BY <1>2, <4>1, <4>2 DEF ResultRecords
    <3>. HIDE DEF rec
    <3>. QED
      BY <3>1, <3>2, <3>3, <3>4
  <2>3. CASE Callback(r)
    <3>1. result' = [result EXCEPT ![r] = NoResult("end")]
      BY <2>3 DEF Callback
    <3>. QED
      BY <1>6, <3>1
  <2>. QED
    BY <2>1, <2>2, <2>3 DEF ResultStep
\* A final result is acknowledged once its callback is gone.
<1>8. \A s \in finals' : s \in Streams /\ stream[s].sent /\ s \notin actionCallbacks' \cup queryCallbacks'
  <2>1. \A s \in finals : s \in Streams /\ stream[s].sent /\ s \notin actionCallbacks \cup queryCallbacks
    BY DEF IInv, TypeOK, GrpcTypeOK, ResultInv
  <2>2. finals' = finals \/ ( /\ Callback(r) /\ result[r].final
                              /\ finals' = finals \cup {result[r].to})
    BY DEF ResultStep, Lookup, Forget, Callback
  <2>3. Callback(r) /\ result[r].final => result[r].to \notin actionCallbacks \cup queryCallbacks
    BY DEF Callback, IInv, ResultInv
  <2>. QED
    BY <1>3, <1>5, <2>1, <2>2, <2>3
<1>9. finals \subseteq finals'
  BY DEF ResultStep, Lookup, Forget, Callback
<1>10. PICK rec \in ResultRecords :
        /\ result' = [result EXCEPT ![r] = rec]
        /\ rec.pc \in {"delete", "callback", "end"}
        /\ ~rec.late
        /\ rec.pc # "end" =>
             /\ rec.to = result[r].to /\ rec.kind = result[r].kind
             /\ result[r].kind = stream[result[r].to].kind
             /\ rec.pc = "callback" /\ rec.final =>
                  result[r].to \notin actionCallbacks' \cup queryCallbacks'
  BY <1>7
<1>11. /\ result' \in [Results -> ResultRecords] /\ result'[r] = rec
       /\ \A q \in Results \ {r} : result'[q] = result[q]
  BY <1>2, <1>10
<1>12. TypeOK'
  <2>1. finals' \subseteq Streams
    BY <1>8
  <2>. QED
    BY <1>1, <1>5, <1>11, <2>1 DEF IInv, TypeOK, GrpcTypeOK, Framed, ResultRecords
<1>13. ServiceInv' /\ ServerInv'
  BY <1>1, <1>5, FrameSafe DEF IInv, ServerInv, RunningStreams
<1>14. StreamInv'
  BY <1>1, <1>5 DEF IInv, StreamInv
<1>15. ResultInv'
  <2>1. SUFFICES ASSUME NEW q \in Results
                 PROVE  /\ result'[q].pc \in {"lookup", "delete", "callback"} =>
                             result'[q].to \in Streams /\ stream'[result'[q].to].sent
                        /\ result'[q].pc \in {"delete", "callback"} =>
                             result'[q].kind = stream'[result'[q].to].kind
                        /\ result'[q].pc = "callback" /\ result'[q].final =>
                             result'[q].to \notin actionCallbacks' \cup queryCallbacks'
                        /\ result'[q].late => result'[q].pc = "lookup" /\ result'[q].to \in finals'
    BY <1>1, <1>8 DEF ResultInv
  <2>2. CASE q = r
    BY <1>1, <1>3, <1>10, <1>11, <2>2
  <2>3. CASE q # r
    BY <1>1, <1>5, <1>9, <1>11, <2>3 DEF IInv, ResultInv
  <2>. QED
    BY <2>2, <2>3
<1>. QED
  BY <1>12, <1>13, <1>14, <1>15 DEF IInv

(***************************************************************************)
(* Scans and cancellations touch neither streams nor tables                *)
(* (grpc.go:590-640).                                                      *)
(***************************************************************************)
LEMMA ScanSafe ==
  ASSUME IInv, UNCHANGED <<agent, opens, left>>,
         \/ \E c \in Scans : ScanCall(c) \/ ScanRead(c) \/ ScanDone(c)
         \/ \E c \in Streams \cup Scans : ClientCancel(c)
  PROVE  IInv'
<1>1. Framed /\ UNCHANGED <<stream, result, actionCallbacks, queryCallbacks, finals>>
  BY DEF ScanCall, ScanRead, ScanDone, ClientCancel, Framed, tables, calls
<1>2. scan' \in [Scans -> ScanStates] /\ done' \subseteq Streams \cup Scans
  BY DEF IInv, TypeOK, GrpcTypeOK, ScanCall, ScanRead, ScanDone, ClientCancel, calls, ScanStates
<1>3. TypeOK'
  BY <1>1, <1>2 DEF IInv, TypeOK, GrpcTypeOK, Framed
<1>4. ServiceInv' /\ ServerInv'
  BY <1>1, FrameSafe DEF IInv, ServerInv, RunningStreams
<1>. QED
  BY <1>1, <1>3, <1>4, HandlersSame DEF IInv

(***************************************************************************)
(* Every step of the agent and of its handlers preserves the invariant.    *)
(***************************************************************************)
LEMMA NextSafe == ASSUME IInv, [Next]_vars PROVE IInv'
<1>1. CASE Open \/ Close \/ OpenStep \/ CloseStep
  BY <1>1, ServiceSafe, ServerSafe DEF OpenStep, CloseStep, ServiceStep
<1>2. CASE GrpcNext /\ UNCHANGED <<agent, opens, left>>
  <2>1. ASSUME NEW s \in Streams,
               \/ SubscribeEvent(s) \/ PublishAction(s) \/ SubscribeAction(s)
               \/ PublishQuery(s) \/ SubscribeQuery(s)
               \/ ObserveStateChange(s) \/ ObserveMembershipChange(s)
               \/ Message(s) \/ StreamStep(s)
        PROVE  IInv'
    <3>1. (\E kind \in Kinds : Call(s, kind)) \/ Message(s) \/ StreamStep(s)
      BY <2>1 DEF SubscribeEvent, PublishAction, SubscribeAction, PublishQuery, SubscribeQuery,
                  ObserveStateChange, ObserveMembershipChange, Kinds
    <3>. QED
      BY <1>2, <3>1, StreamStepSafe
  <2>2. ASSUME NEW s \in Streams, NEW r \in Results, NEW final \in BOOLEAN,
               PublishActionResult(r, s, final) \/ PublishQueryResult(r, s, final)
        PROVE  IInv'
    BY <1>2, <2>2, PublishSafe DEF PublishActionResult, PublishQueryResult
  <2>3. ASSUME NEW r \in Results, ResultStep(r) PROVE IInv'
    BY <1>2, <2>3, ResultSafe
  <2>4. ASSUME NEW c \in Scans, ScanPrefix(c) \/ ScanRange(c) \/ ScanRead(c) \/ ScanDone(c)
        PROVE  IInv'
    BY <1>2, <2>4, ScanSafe DEF ScanPrefix, ScanRange
  <2>5. ASSUME NEW c \in Streams \cup Scans, ClientCancel(c) PROVE IInv'
    BY <1>2, <2>5, ScanSafe
  <2>. QED
    BY <1>2, <2>1, <2>2, <2>3, <2>4, <2>5 DEF GrpcNext
<1>3. CASE UNCHANGED vars
  BY <1>3 DEF vars, IInv, TypeOK, GrpcTypeOK, ServiceInv, StateNeedsCom, ServerInv, StreamInv,
              ResultInv, RunningStreams
<1>. QED
  BY <1>1, <1>2, <1>3 DEF Next

(***************************************************************************)
(* Invariance: Open and Close, however they interleave with handlers and   *)
(* whatever fails, keep services, server and tables consistent             *)
(* (dda.go:105-159, grpc.go).                                              *)
(***************************************************************************)
THEOREM Invariance == Spec => []IInv
<1>1. ASSUME Init PROVE IInv
  <2>1. svc \in [Services -> {"disabled", "closed"}]
    BY <1>1 DEF Init, New
  <2>2. svc \in [Services -> ServiceStates]
    BY <2>1 DEF ServiceStates
  <2>3. \A s \in Streams : stream[s].pc = "idle" /\ ~stream[s].sent
    BY <1>1 DEF Init, GrpcInit
  <2>4. \A r \in Results : result[r].pc = "idle" /\ ~result[r].late
    BY <1>1 DEF Init, GrpcInit, NoResult
  <2>5. stream \in [Streams -> StreamRecords]
    BY <1>1 DEF Init, GrpcInit, StreamRecords, StreamStates, Kinds
  <2>6. result \in [Results -> ResultRecords]
    BY <1>1 DEF Init, GrpcInit, ResultRecords, ResultStates, NoResult
  <2>7. TypeOK
    <3>1. scan \in [Scans -> ScanStates]
      BY <1>1 DEF Init, GrpcInit, ScanStates
    <3>2. opens \in 0..MaxOpens
      BY <1>1, OpensAssumption DEF Init
    <3>3. srv \in {"none", "nil"} /\ web \in BOOLEAN /\ locked \in BOOLEAN /\ agent = "closed" /\ left = {}
      BY <1>1, Zenon DEF Init, New, GrpcInit
    <3>4. /\ actionCallbacks = {} /\ queryCallbacks = {}
          /\ done = {} /\ outlived = {} /\ finals = {}
      BY <1>1 DEF Init, GrpcInit
    <3>. QED
      BY <2>2, <2>5, <2>6, <3>1, <3>2, <3>3, <3>4
         DEF TypeOK, GrpcTypeOK, StreamRecords, ResultRecords
  <2>8. ServiceInv
    BY <1>1, <2>1 DEF Init, New, ServiceInv, StateNeedsCom, Services
  <2>9. ServerInv /\ StreamInv /\ ResultInv
    BY <1>1, <2>3, <2>4 DEF Init, New, GrpcInit, ServerInv, StreamInv, ResultInv, RunningStreams
  <2>. QED
    BY <2>7, <2>8, <2>9 DEF IInv
<1>. QED
  BY <1>1, NextSafe, PTL DEF Spec

(***************************************************************************)
(* TypeCorrect: types, and each callback is in the table of its kind.      *)
(***************************************************************************)
THEOREM TypeCorrect == Spec => []TypeOK
<1>1. IInv => TypeOK
  BY DEF IInv
<1>. QED
  BY <1>1, Invariance, PTL

(***************************************************************************)
(* ComUnderState: the state service never holds a Raft node without an     *)
(* open com service, not even when its Close gets stuck (dda.go:74,        *)
(* 105-159). Nothing is said of a node it has given up (raft.go:230).      *)
(***************************************************************************)
THEOREM ComUnderState == Spec => []StateNeedsCom
<1>1. IInv => StateNeedsCom
  BY DEF IInv, ServiceInv
<1>. QED
  BY <1>1, Invariance, PTL

(***************************************************************************)
(* CloseReleases: when Close returns, server and services are closed,      *)
(* after any sequence of successful and failed Opens. What the state       *)
(* service leaves behind, Raft store or Raft node, is excepted             *)
(* (dda.go:137-159, grpc.go:130-149, raft.go:115, 157, 230).               *)
(***************************************************************************)
THEOREM CloseReleases == Spec => []Released
<1>1. IInv => Released
  <2>1. SUFFICES ASSUME IInv, agent = "closed" PROVE Released
    BY DEF Released
  <2>2. srv \in {"none", "nil"} /\ ~web /\ actionCallbacks \cup queryCallbacks \subseteq outlived
    BY <2>1 DEF IInv, ServerInv
  <2>3. \A name \in Services :
          svc[name] \in {"disabled", "closed"}
    BY <2>1 DEF IInv, ServiceInv, TypeOK, GrpcTypeOK, Services, ServiceStates
  <2>. QED
    BY <2>2, <2>3 DEF Released
<1>. QED
  BY <1>1, Invariance, PTL

(***************************************************************************)
(* FinalIsLast: a result sent after a final one was acknowledged is        *)
(* refused, for any number of concurrent results (grpc.go:336-367).        *)
(***************************************************************************)
THEOREM FinalIsLast == Spec => []LateResultRefused
<1>1. IInv => LateResultRefused
  BY DEF IInv, ResultInv, LateResultRefused
<1>. QED
  BY <1>1, Invariance, PTL
=============================================================================
