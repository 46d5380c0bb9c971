---- MODULE RunLifecycle ----
(***************************************************************************)
(* What runAgent, cancelAgentRun and reconcileAgentToolExecution promise   *)
(* together of one durable run: however many invocations overlap, lose     *)
(* their leases or die, the stored run is written as by one process that   *)
(* takes one step at a time.  A response is added to a transcript whose    *)
(* calls are answered, or pass for answered by their provider's id; a call *)
(* is answered by what became of it; a call is taken once and its tool     *)
(* started once; a cancellation is kept by all but a failure and a loop    *)
(* stopped by its caller; and a run is not driven on while a call of it    *)
(* that was answered with an error may still take effect.                  *)
(***************************************************************************)
EXTENDS Naturals, Sequences

CONSTANTS Calls,    \* durable ids: <<place in the transcript, provider's id, operation>>
          Outputs   \* what a tool may return

VARIABLES status,     \* of the run, "absent" when it is not stored
          transcript, \* its turns: a response with a call or a final answer
          calls,      \* call -> what the journal says became of it
          started     \* call -> how often its tool was started

vars == <<status, transcript, calls, started>>

Final == "final"
NoResult == "none"
ErrorResult == "error"
ClaimError == "unclaimed"
Evidence == "evidence"

Cancelled == {"cancel_requested", "cancelled"}
Reconciled(id) == calls[id].status = "completed" /\ calls[id].out = Evidence

Init ==
  /\ status = "absent"
  /\ transcript = <<>>
  /\ calls = [id \in Calls |-> [status |-> "absent", out |-> NoResult]]
  /\ started = [id \in Calls |-> 0]

----------------------------------------------------------------------------
(* The run                                                                 *)

CallOf(t, i) == <<i, t[i].pid, t[i].op>>

\* A result of turn i is what its call returned, the evidence of a reconciled
\* call of its operation or under its name, an error for a call that was begun,
\* or one for a call that could not be.
Backed(t, i) ==
  \/ t[i].res \in {NoResult, ClaimError}
  \/ /\ t[i].res \in Outputs
     /\ calls[CallOf(t, i)].status = "completed"
     /\ t[i].res = calls[CallOf(t, i)].out
  \/ /\ t[i].res = Evidence
     /\ \E id \in Calls : Reconciled(id) /\ (id[2] = t[i].pid \/ id[3] = t[i].op)
  \/ t[i].res = ErrorResult /\ calls[CallOf(t, i)].status # "absent"

\* The call at the end is still without a result.
Awaiting == /\ transcript # <<>>
            /\ transcript[Len(transcript)].op # Final
            /\ transcript[Len(transcript)].res = NoResult

\* The call in turn i has a result, or passes for answered because there is one
\* under its name.
PassesForAnswered(i) ==
  \/ transcript[i].op = Final
  \/ \E j \in DOMAIN transcript :
       transcript[j].pid = transcript[i].pid /\ transcript[j].res # NoResult

Begin ==
  /\ status = "absent"
  /\ status' = "running"
  /\ UNCHANGED transcript

\* An invocation claims the run, unless a call that was answered with an error
\* may still take effect.
Drive ==
  /\ status \in {"queued", "running", "failed"}
  /\ status' = "running"
  /\ \A i \in DOMAIN transcript :
       transcript[i].res = ErrorResult => calls[CallOf(transcript, i)].status # "running"
  /\ UNCHANGED transcript

\* A checkpoint of a driven run keeps a cancellation.
Checkpoint(s) == /\ status \in Cancelled \cup {"running"}
                 /\ status' = IF status \in Cancelled THEN status ELSE s

\* The model has answered with a call, new and not begun, or for good.
Respond ==
  /\ \A i \in DOMAIN transcript : PassesForAnswered(i)
  /\ \/ \E id \in Calls :
          /\ id[1] = Len(transcript) + 1 /\ calls[id].status = "absent"
          /\ transcript' = Append(transcript, [pid |-> id[2], op |-> id[3], res |-> NoResult])
          /\ Checkpoint("running")
     \/ /\ transcript' = Append(transcript, [pid |-> Final, op |-> Final, res |-> NoResult])
        /\ Checkpoint("completed")

\* The call at the end has its result.
Answer ==
  /\ Awaiting
  /\ \E res \in Outputs \cup {ErrorResult, ClaimError, Evidence} :
       transcript' = [transcript EXCEPT ![Len(transcript)].res = res]
  /\ Backed(transcript', Len(transcript))
  /\ Checkpoint("running")

\* The caller wants no further step after a result; a cancellation that was
\* stored together with that result is not looked for again.
Stop == /\ status \in Cancelled \cup {"running"}
        /\ transcript # <<>> /\ transcript[Len(transcript)].res # NoResult
        /\ status' = "completed"
        /\ UNCHANGED transcript

\* A failure leaves the transcript, or lays over it that of the invocation that
\* failed, which is not shorter and not laid over a cancellation.
Fail ==
  /\ status # "absent"
  /\ status' = "failed"
  /\ \/ transcript' = transcript
     \/ /\ status \notin Cancelled
        /\ Len(transcript') >= Len(transcript)
        /\ \A i \in DOMAIN transcript' : Backed(transcript', i)

Cancel ==
  /\ status # "absent"
  /\ \/ status # "cancelled" /\ status' = "cancelled"
     \/ status \notin Cancelled /\ status' = "cancel_requested"
  /\ UNCHANGED transcript

\* The evidence of a reconciled call replaces the results the run had under its
\* name.
Requeue ==
  /\ status \notin Cancelled \cup {"absent"}
  /\ status' = "queued"
  /\ \E id \in Calls :
       /\ Reconciled(id)
       /\ transcript' = [i \in DOMAIN transcript |->
                           IF transcript[i].pid = id[2] /\ transcript[i].res # NoResult
                           THEN [transcript[i] EXCEPT !.res = Evidence]
                           ELSE transcript[i]]

----------------------------------------------------------------------------
(* Its calls                                                               *)

Take(id) ==
  /\ calls[id].status = "absent"
  /\ calls' = [calls EXCEPT ![id].status = "running"]
  /\ UNCHANGED started

\* Once, and only when it is taken.
Start(id) ==
  /\ calls[id].status # "absent"
  /\ started[id] = 0
  /\ started' = [started EXCEPT ![id] = 1]
  /\ UNCHANGED calls

Decide(id, s, out) ==
  /\ calls[id].status = "running"
  /\ calls' = [calls EXCEPT ![id].status = s, ![id].out = out]
  /\ UNCHANGED started

\* The tool has returned or thrown.
Settle(id) ==
  /\ started[id] = 1
  /\ \/ \E out \in Outputs : Decide(id, "completed", out)
     \/ Decide(id, "failed", ErrorResult)

Reconcile(id) == Decide(id, "completed", Evidence)

----------------------------------------------------------------------------

\* A step changes the run, or a call.
RunStep == /\ <<status, transcript>>' # <<status, transcript>>
           /\ Begin \/ Drive \/ Respond \/ Answer \/ Stop \/ Fail \/ Cancel \/ Requeue
           /\ UNCHANGED <<calls, started>>
CallStep == /\ <<calls, started>>' # <<calls, started>>
            /\ \E id \in Calls : Take(id) \/ Start(id) \/ Settle(id) \/ Reconcile(id)
            /\ UNCHANGED <<status, transcript>>

Next == RunStep \/ CallStep

Spec == Init /\ [][Next]_vars
====
