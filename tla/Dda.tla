-------------------------------- MODULE Dda --------------------------------
(***************************************************************************)
(* The data distribution agent (dda/dda.go): New puts the enabled services *)
(* together, Open opens communication, store, state and gRPC server one    *)
(* after the other and stops at the first error, Close closes what is open *)
(* in reverse order. The user calls Open and Close in turn; after an Open  *)
(* that failed both are possible. GrpcServer's handlers run concurrently.  *)
(***************************************************************************)
EXTENDS GrpcServer, Naturals

CONSTANT MaxOpens   \* bound: calls of Open

ASSUME OpensAssumption == MaxOpens \in Nat \ {0}

VARIABLES
  agent,            \* what Open or Close is doing, or which has returned
  opens,            \* number of calls of Open
  left              \* what the state service has left behind: an open Raft store
                    \* without a node, or a Raft node that still runs

vars == <<svc, srv, web, locked, actionCallbacks, queryCallbacks, stream,
          result, scan, done, outlived, finals, agent, opens, left>>

Opening == {"openCom", "openStore", "openState", "openGrpc"}
Closing == {"closeGrpc", "stopGrpc", "closeState", "closeStore", "closeCom"}

TypeOK ==
  /\ GrpcTypeOK
  /\ agent \in {"closed", "open", "failed"} \cup Opening \cup Closing
  /\ opens \in 0..MaxOpens
  /\ left \subseteq {"store", "node"}

\* Services and gRPC server are enabled by configuration; state requires com.
New ==
  /\ svc \in [Services -> {"disabled", "closed"}]
  /\ svc["state"] # "disabled" => svc["com"] # "disabled"
  /\ srv \in {"none", "nil"}

Init == New /\ GrpcInit /\ agent = "closed" /\ opens = 0 /\ left = {}

rest == <<srv, web, locked, actionCallbacks, queryCallbacks, stream, result,
          scan, done, outlived, finals>>

-----------------------------------------------------------------------------
(* Open. *)

Open ==
  /\ agent \in {"closed", "failed"} /\ opens < MaxOpens
  /\ agent' = "openCom" /\ opens' = opens + 1
  /\ UNCHANGED <<svc, rest, left>>

\* The next service is opened, unless it is disabled or open already.
OpenService(name, now, next) ==
  /\ agent = now
  /\ svc' = [svc EXCEPT ![name] = IF @ = "closed" THEN "open" ELSE @]
  /\ agent' = next
  /\ UNCHANGED <<rest, opens, left>>

\* A service that is not open cannot be opened.
OpenFails(name, now, as) ==
  /\ agent = now
  /\ svc[name] = "closed"
  /\ svc' = [svc EXCEPT ![name] = as]
  /\ agent' = "failed"
  /\ UNCHANGED <<rest, opens>>

OpenCom == OpenService("com", "openCom", "openStore")
OpenComFails == OpenFails("com", "openCom", "closed") /\ UNCHANGED left
OpenStore == OpenService("store", "openStore", "openState")
OpenStoreFails == OpenFails("store", "openStore", "closed") /\ UNCHANGED left
OpenState == OpenService("state", "openState", "openGrpc")

\* The Raft binding fails at its Raft store, later but before there is a Raft node,
\* when the store stays open, or after, when the node exists and a later Open finds
\* it. A store on disk that stays open is locked and the next Open fails, one in
\* memory does not hinder it: either may happen.
OpenStateFails ==
  \/ OpenFails("state", "openState", "closed") /\ left' \in {left, left \cup {"store"}}
  \/ OpenFails("state", "openState", "half") /\ UNCHANGED left

OpenGrpc ==
  /\ agent = "openGrpc" /\ GrpcOpen
  /\ agent' = "open" /\ UNCHANGED <<opens, left>>

OpenGrpcFails ==
  /\ agent = "openGrpc" /\ GrpcOpenFails
  /\ agent' = "failed" /\ UNCHANGED <<opens, left>>

-----------------------------------------------------------------------------
(* Close. *)

Close ==
  /\ agent \in {"open", "failed"}
  /\ agent' = "closeGrpc"
  /\ UNCHANGED <<svc, rest, opens, left>>

\* Without a server, Close goes on to the services.
CloseGrpc ==
  /\ agent = "closeGrpc"
  /\ \/ srv # "none" /\ GrpcStop /\ agent' = "stopGrpc"
     \/ srv = "none" /\ UNCHANGED <<svc, rest>> /\ agent' = "closeState"
  /\ UNCHANGED <<opens, left>>

StopGrpc ==
  /\ agent = "stopGrpc" /\ GrpcClosed
  /\ agent' = "closeState" /\ UNCHANGED <<opens, left>>

\* A service that is not open is left alone.
CloseService(name, now, next) ==
  /\ agent = now
  /\ svc[name] # "stuck"
  /\ svc' = [svc EXCEPT ![name] = IF @ \in {"open", "half"} THEN "closed" ELSE @]
  /\ agent' = next
  /\ UNCHANGED <<rest, opens>>

\* The service's own Close never returns and keeps, or waits for, the lock all its
\* operations need.
CloseBlocks(name, now) ==
  /\ agent = now
  /\ svc[name] \in {"open", "half"}
  /\ svc' = [svc EXCEPT ![name] = "stuck"]
  /\ UNCHANGED <<rest, agent, opens, left>>

\* Mutant: com is closed first, before it is needed to deregister from the group.
MutantCloseState ==
  /\ agent = "closeState"
  /\ svc' = [svc EXCEPT !["com"] = IF @ = "open" THEN "closed" ELSE @]
  /\ agent' = "closeStore"
  /\ UNCHANGED <<rest, opens, left>>

\* The error of RemoveServer is ignored: then the Raft node goes on running although
\* the binding has forgotten it. Close may also wait for a forwarded request whose
\* consumer waits for Close (RaftBinding, property CloseReturns).
CloseState ==
  \/ CloseService("state", "closeState", "closeStore") /\ UNCHANGED left
  \/ /\ svc["state"] \in {"open", "half"}
     /\ CloseService("state", "closeState", "closeStore")
     /\ left' = left \cup {"node"}
  \/ CloseBlocks("state", "closeState")

\* Closing the store waits for scans, which lock it for reading.
CloseStore ==
  /\ RunningScans = {}
  /\ CloseService("store", "closeStore", "closeCom") /\ UNCHANGED left

\* Close may come between the two read locks of a call that subscribes, of a handler
\* that has outlived the server or of a Raft node that was left running
\* (Mqtt5Binding, property CallsReturn).
CloseCom ==
  \/ CloseService("com", "closeCom", "closed") /\ UNCHANGED left
  \/ /\ \/ \E s \in RunningStreams : stream[s].pc = "call" /\ ServiceOf(stream[s].kind) = "com"
        \/ "node" \in left
     /\ CloseBlocks("com", "closeCom")

OpenStep ==
  \/ OpenCom \/ OpenComFails \/ OpenStore \/ OpenStoreFails
  \/ OpenState \/ OpenStateFails \/ OpenGrpc \/ OpenGrpcFails
CloseStep == CloseGrpc \/ StopGrpc \/ CloseState \/ CloseStore \/ CloseCom

Next ==
  \/ Open \/ Close \/ OpenStep \/ CloseStep
  \/ GrpcNext /\ UNCHANGED <<agent, opens, left>>

\* Goroutines that can go on do so. Clients and the agent's user need not.
Fairness ==
  /\ WF_vars(CloseStep)
  /\ \A s \in Streams : WF_vars(StreamStep(s) /\ UNCHANGED <<agent, opens, left>>)
  /\ \A r \in Results : WF_vars(ResultStep(r) /\ UNCHANGED <<agent, opens, left>>)
  /\ \A c \in Scans : WF_vars(ScanDone(c) /\ UNCHANGED <<agent, opens, left>>)

Spec == Init /\ [][Next]_vars /\ Fairness

-----------------------------------------------------------------------------
(* Properties. *)

(***************************************************************************)
(* LateResultRefused: once a final result has been acknowledged, a call    *)
(* that starts later finds no callback for its correlation id              *)
(* (grpc.go:336-367, 480-514; com.proto:60). Calls that overlap the first  *)
(* final one may still be accepted, as they look up the callback first.    *)
(***************************************************************************)
LateResultRefused ==
  \A r \in Results : result[r].late => result[r].pc = "lookup"

(***************************************************************************)
(* StateNeedsCom: as long as the state service holds a Raft node, running  *)
(* or being closed, com is open, which it needs to talk to and to leave    *)
(* its group, in every configuration and after every failed Open           *)
(* (dda.go:74, 105-159). A node it has given up is NoNodeLeft's concern.   *)
(***************************************************************************)
StateNeedsCom == svc["state"] \in {"open", "half", "stuck"} => svc["com"] = "open"

(***************************************************************************)
(* Released: when Close has returned, the server is gone, on gRPC and on   *)
(* gRPC-Web, and every service is closed, however far Open had got         *)
(* (dda.go:137-159). Excepted are callbacks registered by handlers which   *)
(* outlive Close, and what the state service has left behind: a Raft store *)
(* without a node (raft.go:115, 157) and a Raft node that could not be     *)
(* removed (raft.go:230).                                                  *)
(***************************************************************************)
Released ==
  agent = "closed" =>
    /\ srv \in {"none", "nil"} /\ ~web
    /\ actionCallbacks \cup queryCallbacks \subseteq outlived
    /\ \A name \in Services : svc[name] \in {"disabled", "closed"}

(***************************************************************************)
(* NoNodeLeft: when Close has returned, no Raft node of the agent runs any *)
(* more: Close "shuts down all configured DDA services" and "releases      *)
(* associated resources" (dda.go:137-138). Violated: the error of          *)
(* RemoveServer is ignored (raft.go:230), as for the last voter.           *)
(***************************************************************************)
NoNodeLeft == agent = "closed" => "node" \notin left

(***************************************************************************)
(* CloseReturnsUnlessStuck: Close comes to its end, unless the Close of    *)
(* the state or com service itself gets stuck: clients that are not        *)
(* reading, handlers that outlive the server and scans that hold the lock  *)
(* of the store cannot hold it up, as the server is stopped before         *)
(* (dda.go:139-159, grpc.go:138, 605).                                     *)
(***************************************************************************)
CloseReturnsUnlessStuck ==
  agent \in Closing ~> (agent = "closed" \/ svc["state"] = "stuck" \/ svc["com"] = "stuck")
=============================================================================
