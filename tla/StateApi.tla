------------------------------ MODULE StateApi ------------------------------
(***************************************************************************)
(* What the state synchronization API (services/state/api/api.go) promises *)
(* about proposed input: the members of a group share one log of accepted  *)
(* inputs, and a proposal that is reported as successful is in that log.   *)
(* RaftBinding is shown to implement this specification.                   *)
(*                                                                         *)
(* The API promises no more than "at least once": an input whose proposal  *)
(* has been given up, or has been repeated inside ProposeInput, may be     *)
(* accepted late and may be accepted again.                                *)
(***************************************************************************)
EXTENDS Naturals, Sequences

CONSTANT Calls      \* invocations of ProposeInput, each with an input of its own

VARIABLES log,      \* the replicated log of accepted inputs
          status    \* what the caller of ProposeInput knows about its call

vars == <<log, status>>

\* A call is not made yet, is running, has returned nil or has returned an error.
Status == {"idle", "pending", "ok", "err"}

\* The input of call c is in the log.
Accepted(c) == \E i \in 1..Len(log) : log[i] = c

TypeOK ==
  /\ log \in Seq(Calls)
  /\ status \in [Calls -> Status]

Init ==
  /\ log = << >>
  /\ status = [c \in Calls |-> "idle"]

\* A caller proposes its input.
ProposeInput(c) ==
  /\ status[c] = "idle"
  /\ status' = [status EXCEPT ![c] = "pending"]
  /\ UNCHANGED log

\* The group accepts the input of a call into the log, possibly after the call
\* has returned.
Accept(c) ==
  /\ status[c] # "idle"
  /\ log' = Append(log, c)
  /\ UNCHANGED status

\* A proposal that has been accepted is reported as successful.
Succeed(c) ==
  /\ status[c] = "pending"
  /\ log' \in {log, Append(log, c)}
  /\ Accepted(c)'
  /\ status' = [status EXCEPT ![c] = "ok"]

\* A proposal is refused or given up: a binding that is not open, a non-retryable
\* error or a cancelled context.
Fail(c) ==
  /\ status[c] \in {"idle", "pending"}
  /\ status' = [status EXCEPT ![c] = "err"]
  /\ UNCHANGED log

Next == \E c \in Calls : ProposeInput(c) \/ Accept(c) \/ Succeed(c) \/ Fail(c)

Spec == Init /\ [][Next]_vars

(***************************************************************************)
(* Success is never reported for an input that is not in the log           *)
(* (ProposeInput, services/state/api/api.go).                              *)
(***************************************************************************)
OkAccepted == \A c \in Calls : status[c] = "ok" => Accepted(c)
=============================================================================
