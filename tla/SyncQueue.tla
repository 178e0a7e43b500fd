------------------------------ MODULE SyncQueue ------------------------------
(***************************************************************************)
(* Getting accounts synchronised: SyncQueueService.enqueueAccountSync, the *)
(* scheduler's poll and the manual sync request that call it, and the      *)
(* BullMQ job each account has at most one of (its id is sync-<account>).  *)
(* enqueueAccountSync is four awaited calls; other callers and the worker  *)
(* act between any two of them.                                            *)
(*                                                                         *)
(* BullMQ is external.  As the code uses it: add is a no-op while a job    *)
(* with the id exists, remove of an active (locked) job throws, a finished *)
(* job disappears (removeOnComplete), a failed one stays for a day.        *)
(***************************************************************************)
EXTENDS Integers

CONSTANTS Accounts,
          Manual,       \* concurrent POST /accounts/:id/sync requests
          Scheduler,    \* the cron task, not in Manual
          Attempts,     \* defaultJobOptions.attempts
          MaxRequests,  \* bound: manual requests made
          MaxTrouble    \* bound: crashes and changes of an account's status

ASSUME SyncQueueAssumption ==
  /\ Scheduler \notin Manual
  /\ Attempts \in Nat \ {0} /\ MaxRequests \in Nat /\ MaxTrouble \in Nat

Callers == Manual \cup {Scheduler}
Nobody  == "none"

VARIABLES
  status,    \* MailAccount.status is ACTIVE
  job,       \* state of the account's job; "none" when there is no such id
  tries,     \* failed attempts of the job
  pc, acct,  \* the enqueueing each caller is in
  todo,      \* accounts the running poll has not come to
  ran,       \* history: callers whose account a run was started for since they came
  requests, trouble

queue == <<job, tries>>
calls == <<pc, acct, todo>>
vars  == <<status, queue, calls, ran, requests, trouble>>

TypeOK ==
  /\ status \in [Accounts -> BOOLEAN]
  /\ job \in [Accounts -> {"none", "waiting", "active", "delayed", "failed"}]
  /\ tries \in [Accounts -> 0..(Attempts - 1)]
  /\ pc \in [Callers -> {"idle", "getJob", "getState", "remove", "add"}]
  /\ acct \in [Callers -> Accounts \cup {Nobody}]
  /\ todo \subseteq Accounts
  /\ ran \subseteq Callers
  /\ requests \in 0..MaxRequests
  /\ trouble \in 0..MaxTrouble

Init ==
  /\ status = [a \in Accounts |-> TRUE]
  /\ job = [a \in Accounts |-> "none"]
  /\ tries = [a \in Accounts |-> 0]
  /\ pc = [e \in Callers |-> "idle"]
  /\ acct = [e \in Callers |-> Nobody]
  /\ todo = {} /\ ran = {} /\ requests = 0 /\ trouble = 0

Goto(e, label) == pc' = [pc EXCEPT ![e] = label]

\* The caller's enqueueing is over.
Finish(e) == /\ Goto(e, "idle")
             /\ acct' = [acct EXCEPT ![e] = Nobody]
             /\ ran' = ran \ {e}

-----------------------------------------------------------------------------
(* Callers *)

\* POST /accounts/:id/sync of the owner, whatever the account's status.
RequestSync(e, a) ==
  /\ e \in Manual /\ pc[e] = "idle"
  /\ requests < MaxRequests /\ requests' = requests + 1
  /\ Goto(e, "getJob")
  /\ acct' = [acct EXCEPT ![e] = a]
  /\ UNCHANGED <<status, queue, todo, ran, trouble>>

\* pollActiveAccounts: the list is read once per poll.
Poll ==
  /\ pc[Scheduler] = "idle" /\ todo = {}
  /\ todo' = {a \in Accounts : status[a]}
  /\ todo' # {}
  /\ UNCHANGED <<status, queue, pc, acct, ran, requests, trouble>>

PollNext(a) ==
  /\ pc[Scheduler] = "idle" /\ a \in todo
  /\ todo' = todo \ {a}
  /\ Goto(Scheduler, "getJob")
  /\ acct' = [acct EXCEPT ![Scheduler] = a]
  /\ UNCHANGED <<status, queue, ran, requests, trouble>>

-----------------------------------------------------------------------------
(* enqueueAccountSync *)

GetJob(e) ==
  /\ pc[e] = "getJob"
  /\ Goto(e, IF job[acct[e]] = "none" THEN "add" ELSE "getState")
  /\ UNCHANGED <<status, queue, acct, todo, ran, requests, trouble>>

\* Faulty variant: any job that exists counts as queued, a failed one too.
PendingIfAny(state) == state # "none"

Pending(state) == state \in {"waiting", "active", "delayed"}

\* alreadyQueued, or the id is stale and is cleared.
GetState(e) ==
  /\ pc[e] = "getState"
  /\ IF Pending(job[acct[e]])
       THEN Finish(e)
       ELSE Goto(e, "remove") /\ UNCHANGED <<acct, ran>>
  /\ UNCHANGED <<status, queue, todo, requests, trouble>>

\* Faulty variant: clearing the stale id is taken for queueing.
RemoveAndReturn(e) ==
  /\ pc[e] = "remove"
  /\ job[acct[e]] # "active"
  /\ job' = [job EXCEPT ![acct[e]] = "none"]
  /\ tries' = [tries EXCEPT ![acct[e]] = 0]
  /\ Finish(e)
  /\ UNCHANGED <<status, todo, requests, trouble>>

Remove(e) ==
  /\ pc[e] = "remove"
  /\ job[acct[e]] # "active"
  /\ job' = [job EXCEPT ![acct[e]] = "none"]
  /\ tries' = [tries EXCEPT ![acct[e]] = 0]
  /\ Goto(e, "add")
  /\ UNCHANGED <<status, acct, todo, ran, requests, trouble>>

\* A job that became active meanwhile is locked: remove throws.  The request
\* fails; the poll ends with the accounts it has not come to.
RemoveThrows(e) ==
  /\ pc[e] = "remove"
  /\ job[acct[e]] = "active"
  /\ Finish(e)
  /\ todo' = IF e = Scheduler THEN {} ELSE todo
  /\ UNCHANGED <<status, queue, requests, trouble>>

Add(e) ==
  /\ pc[e] = "add"
  /\ IF job[acct[e]] = "none"
       THEN /\ job' = [job EXCEPT ![acct[e]] = "waiting"]
            /\ tries' = [tries EXCEPT ![acct[e]] = 0]
       ELSE UNCHANGED queue
  /\ Finish(e)
  /\ UNCHANGED <<status, todo, requests, trouble>>

\* The API process or the scheduler's process stops, or Redis fails the call.
CallerDies(e) ==
  /\ pc[e] # "idle"
  /\ trouble < MaxTrouble /\ trouble' = trouble + 1
  /\ Finish(e)
  /\ todo' = IF e = Scheduler THEN {} ELSE todo
  /\ UNCHANGED <<status, queue, requests>>

-----------------------------------------------------------------------------
(* The worker and BullMQ *)

Move(a, state) == job' = [job EXCEPT ![a] = state]

Pick(a) ==
  /\ job[a] = "waiting"
  /\ Move(a, "active")
  /\ ran' = ran \cup {e \in Callers : acct[e] = a}
  /\ UNCHANGED <<status, tries, calls, requests, trouble>>

\* The run returns; an account that is not ACTIVE makes it throw an
\* UnrecoverableError instead, which is not retried.
Succeed(a) ==
  /\ job[a] = "active"
  /\ IF status[a] THEN Move(a, "none") ELSE Move(a, "failed")
  /\ tries' = [tries EXCEPT ![a] = 0]
  /\ UNCHANGED <<status, calls, ran, requests, trouble>>

\* Faulty variant: one attempt too many.
FailOnceMore(a) ==
  /\ job[a] = "active"
  /\ IF tries[a] + 1 <= Attempts
       THEN /\ tries' = [tries EXCEPT ![a] = @ + 1]
            /\ Move(a, "delayed") \/ Move(a, "waiting")
       ELSE tries' = [tries EXCEPT ![a] = 0] /\ Move(a, "failed")
  /\ UNCHANGED <<status, calls, ran, requests, trouble>>

\* The run throws, the process stops or its lock lapses: back off, or give up
\* after the last attempt.
Fail(a) ==
  /\ job[a] = "active"
  /\ IF tries[a] + 1 < Attempts
       THEN /\ tries' = [tries EXCEPT ![a] = @ + 1]
            /\ Move(a, "delayed") \/ Move(a, "waiting")
       ELSE tries' = [tries EXCEPT ![a] = 0] /\ Move(a, "failed")
  /\ UNCHANGED <<status, calls, ran, requests, trouble>>

BackoffEnds(a) ==
  /\ job[a] = "delayed"
  /\ Move(a, "waiting")
  /\ UNCHANGED <<status, tries, calls, ran, requests, trouble>>

\* removeOnFail: { age }
FailedJobAges(a) ==
  /\ job[a] = "failed"
  /\ Move(a, "none")
  /\ UNCHANGED <<status, tries, calls, ran, requests, trouble>>

\* External to this module: the grant is lost, or the user reconnects.
StatusChanges(a) ==
  /\ trouble < MaxTrouble /\ trouble' = trouble + 1
  /\ status' = [status EXCEPT ![a] = ~@]
  /\ UNCHANGED <<queue, calls, ran, requests>>

-----------------------------------------------------------------------------
Enqueue(e) == GetJob(e) \/ GetState(e) \/ Remove(e) \/ RemoveThrows(e) \/ Add(e)

Next ==
  \/ \E e \in Manual, a \in Accounts : RequestSync(e, a)
  \/ Poll
  \/ \E a \in Accounts : PollNext(a)
  \/ \E e \in Callers : Enqueue(e) \/ CallerDies(e)
  \/ \E a \in Accounts : \/ Pick(a) \/ Succeed(a) \/ Fail(a) \/ BackoffEnds(a)
                         \/ FailedJobAges(a) \/ StatusChanges(a)

Spec == Init /\ [][Next]_vars

\* The cron fires every five minutes and its loop goes on; a started call goes
\* on; the worker takes waiting jobs and every run ends; backoff ends.  Nothing
\* is assumed of manual requests, of success, or of the removal of failed jobs.
FairSpec ==
  /\ Spec
  /\ WF_vars(Poll)
  /\ \A a \in Accounts : WF_vars(PollNext(a))
  /\ \A e \in Callers : WF_vars(Enqueue(e))
  /\ \A a \in Accounts : /\ WF_vars(Pick(a)) /\ WF_vars(BackoffEnds(a))
                         /\ WF_vars(Succeed(a) \/ Fail(a))

-----------------------------------------------------------------------------
(* Properties *)

\* An account that stays ACTIVE is synchronised again and again: no failed job,
\* aborted poll or race of two callers takes it out of the rotation for good.
AccountKeepsSyncing ==
  \A a \in Accounts : <>[]status[a] => []<>(job[a] = "active")

\* What enqueueAccountSync tells its caller is true: when it returns, already
\* queued or not, the account's job is on the queue, or a run was started after
\* the call began, whatever other callers, workers and failures did to the job
\* between the four calls.
AcceptedSyncIsQueued ==
  [][\A e \in Callers :
       (GetState(e) \/ Remove(e) \/ Add(e)) /\ pc'[e] = "idle" =>
          job'[acct[e]] \in {"waiting", "active", "delayed"} \/ e \in ran]_vars
=============================================================================
