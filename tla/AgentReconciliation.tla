---- MODULE AgentReconciliation ----
(***************************************************************************)
(* reconcileAgentToolExecution: an operator confirms, with evidence, the   *)
(* outcome of a tool call whose journal row is still running.  The run's   *)
(* lease is taken, the journal is written first and the checkpoint second, *)
(* each write fenced by the lease and by its revision; a process that dies *)
(* in between is repaired by reconciling again with the same evidence.     *)
(***************************************************************************)
EXTENDS AgentRunStore

VARIABLES rpc,   \* reconciler -> where its invocation stands
          rst,   \* reconciler -> the run it loaded
          rid,   \* reconciler -> the call its evidence is about
          rrow   \* reconciler -> the journal entry it loaded

reconVars == <<rpc, rst, rid, rrow>>

RPCs == {"idle", "state", "entry", "verify", "journal", "project", "save",
         "release", "done"}

NoCall == <<0, Final, Final>>

ReconTypeOK == /\ rpc \in [Reconcilers -> RPCs]
               /\ rst \in [Reconcilers -> Runs]
               /\ rid \in [Reconcilers -> CallIds \cup {NoCall}]
               /\ rrow \in [Reconcilers -> Rows]

ReconInit == /\ rpc = [r \in Reconcilers |-> "idle"]
             /\ rst = [r \in Reconcilers |-> AbsentRun]
             /\ rid = [r \in Reconcilers |-> NoCall]
             /\ rrow = [r \in Reconcilers |-> AbsentRow]

RGoto(r, there) == rpc' = [rpc EXCEPT ![r] = there]

RProceed(r, there) == RGoto(r, there) /\ UNCHANGED <<rst, rid, rrow>>

\* The call is over but for its release; its memory no longer matters.
RLeave(r, there) == /\ RGoto(r, there)
                    /\ rst' = [rst EXCEPT ![r] = AbsentRun]
                    /\ rid' = [rid EXCEPT ![r] = NoCall]
                    /\ rrow' = [rrow EXCEPT ![r] = AbsentRow]

\* The lease of the run is acquired, or the call is refused.
RAcquire(r) == /\ rpc[r] = "idle"
               /\ run.status # "absent"
               /\ IF LeaseAvailable(r)
                  THEN AcquireLease(r) /\ RProceed(r, "state")
                  ELSE RProceed(r, "done") /\ UNCHANGED lease
               /\ UNCHANGED <<run, journal>>

RLoadState(r) == /\ rpc[r] = "state"
                 /\ IF IsCancelled(run) THEN RLeave(r, "release")
                    ELSE /\ rst' = [rst EXCEPT ![r] = run]
                         /\ RGoto(r, "entry")
                         /\ UNCHANGED <<rid, rrow>>
                 /\ UNCHANGED storeVars

\* The evidence names a journaled call; only a running row, or one already
\* reconciled by the same evidence, is accepted.
RLoadEntry(r) ==
  /\ rpc[r] = "entry"
  /\ \/ \E id \in CallIds :
          /\ journal[id].recon \/ journal[id].status = "running"
          /\ rid' = [rid EXCEPT ![r] = id]
          /\ rrow' = [rrow EXCEPT ![r] = journal[id]]
          /\ RGoto(r, "verify")
          /\ UNCHANGED rst
     \/ /\ \E id \in CallIds :
             ~journal[id].recon /\ journal[id].status # "running"
        /\ RLeave(r, "release")
  /\ UNCHANGED storeVars

\* After the external verification the lease is renewed; a checkpoint that has
\* the record already is returned as it is.
RVerify(r) == /\ rpc[r] = "verify"
              /\ IF HoldsLease(r) /\ rid[r] \notin rst[r].recon
                 THEN RProceed(r, IF rrow[r].recon THEN "project" ELSE "journal")
                 ELSE RLeave(r, "release")
              /\ UNCHANGED storeVars

\* The journal is the write-ahead decision.
RCompleteRow(r) ==
  /\ rpc[r] = "journal"
  /\ IF HoldsLease(r) /\ RowMatches(rid[r], rrow[r].rev)
     THEN /\ CompleteRow(rid[r], rrow[r].rev, "completed", Evidence, TRUE)
          /\ RProceed(r, "project")
     ELSE RLeave(r, "release") /\ UNCHANGED journal
  /\ UNCHANGED <<run, lease>>

\* Mutant: a call that has no result yet is given one.
WithEvidenceAdded(turns, pid) ==
  [i \in DOMAIN turns |->
     IF turns[i].pid = pid THEN [turns[i] EXCEPT !.res = Evidence] ELSE turns[i]]

\* Every result recorded under the call's provider id is replaced by the
\* evidence, that of another call with the same id too.
WithEvidence(turns, pid) ==
  [i \in DOMAIN turns |->
     IF turns[i].pid = pid /\ turns[i].res # NoResult
     THEN [turns[i] EXCEPT !.res = Evidence] ELSE turns[i]]

\* The checkpoint is requeued with the evidence; whether another operation
\* still needs it is read from the journal.
Requeued(state, id) == [state EXCEPT !.recon = @ \cup {id},
                                     !.turns = WithEvidence(@, ProviderId(id)),
                                     !.status = "queued"]

RProject(r) == /\ rpc[r] = "project"
               /\ rst' = [rst EXCEPT ![r] = Refreshed(Requeued(@, rid[r]))]
               /\ RGoto(r, "save")
               /\ UNCHANGED <<storeVars, rid, rrow>>

RSave(r) == /\ rpc[r] = "save"
            /\ IF HoldsLease(r) /\ RevisionMatches(rst[r])
               THEN SaveRun(rst[r]) ELSE UNCHANGED run
            /\ RLeave(r, "release")
            /\ UNCHANGED <<lease, journal>>

RRelease(r) == /\ rpc[r] = "release"
               /\ ReleaseLease(r)
               /\ RProceed(r, "done")
               /\ UNCHANGED <<run, journal>>

ReconStep(r) == \/ RAcquire(r) \/ RLoadState(r) \/ RLoadEntry(r) \/ RVerify(r)
                \/ RCompleteRow(r) \/ RProject(r) \/ RSave(r) \/ RRelease(r)
====
