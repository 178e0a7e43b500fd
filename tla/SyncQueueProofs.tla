--------------------------- MODULE SyncQueueProofs ---------------------------
(***************************************************************************)
(* Proofs about SyncQueue, for any accounts, any number of concurrent      *)
(* manual requests and any number of attempts: the types, and that what    *)
(* enqueueAccountSync tells its caller is true.                            *)
(*                                                                         *)
(* The promise is not inductive: between the check that let a caller go on *)
(* to add and the add itself other callers and the worker change the job.  *)
(* What survives them is Clearance: since the caller saw the id free, the  *)
(* job has been absent or waiting, or else a worker has taken it up.       *)
(***************************************************************************)
EXTENDS SyncQueue, TLAPS

\* A caller inside enqueueAccountSync is there for an account.
Engaged == \A e \in Callers : pc[e] # "idle" => acct[e] \in Accounts

\* A caller about to add: the id has been free or newly queued ever since it
\* looked, unless a run was started meanwhile.
Clearance ==
  \A e \in Callers : pc[e] = "add" => job[acct[e]] \in {"none", "waiting"} \/ e \in ran

QueueInv == TypeOK /\ Engaged /\ Clearance

\* What Finish does to the three variables of a caller.
LEMMA FinishOne ==
  ASSUME QueueInv, NEW e \in Callers, Finish(e)
  PROVE  /\ pc' \in [Callers -> {"idle", "getJob", "getState", "remove", "add"}]
         /\ acct' \in [Callers -> Accounts \cup {Nobody}]
         /\ ran' \subseteq Callers
         /\ pc'[e] = "idle"
         /\ \A f \in Callers : f # e => /\ pc'[f] = pc[f] /\ acct'[f] = acct[f]
                                        /\ f \in ran => f \in ran'
  BY DEF QueueInv, TypeOK, Finish, Goto

LEMMA InitQueueInv == Init => QueueInv
<1> SUFFICES ASSUME Init PROVE QueueInv
  OBVIOUS
<1> USE SyncQueueAssumption DEF Init
<1>1. TypeOK
  <2>1. status \in [Accounts -> BOOLEAN]
    OBVIOUS
  <2>2. tries \in [Accounts -> 0..(Attempts - 1)]
    OBVIOUS
  <2>3. requests \in 0..MaxRequests /\ trouble \in 0..MaxTrouble
    OBVIOUS
  <2> QED
    BY <2>1, <2>2, <2>3 DEF TypeOK
<1>2. Engaged /\ Clearance
  BY DEF Engaged, Clearance
<1> QED
  BY <1>1, <1>2 DEF QueueInv

-----------------------------------------------------------------------------
(* Callers *)

\* A caller that starts on an account.
LEMMA StartStep ==
  ASSUME QueueInv, NEW e \in Callers, NEW a \in Accounts,
         Goto(e, "getJob"), acct' = [acct EXCEPT ![e] = a],
         UNCHANGED <<status, queue, ran>>,
         todo' \subseteq Accounts, requests' \in 0..MaxRequests, trouble' \in 0..MaxTrouble
  PROVE  QueueInv'
<1> USE DEF QueueInv, Goto, queue
<1>1. TypeOK'
  BY DEF TypeOK
<1>2. Engaged'
  BY DEF TypeOK, Engaged
<1>3. Clearance'
  BY DEF TypeOK, Clearance
<1> QED
  BY <1>1, <1>2, <1>3

LEMMA CallerStep ==
  ASSUME QueueInv,
         \/ \E e \in Manual, a \in Accounts : RequestSync(e, a)
         \/ Poll
         \/ \E a \in Accounts : PollNext(a)
  PROVE  QueueInv'
<1>1. CASE \E e \in Manual, a \in Accounts : RequestSync(e, a)
  <2>1. PICK e \in Manual, a \in Accounts : RequestSync(e, a)
    BY <1>1
  <2>2. requests' \in 0..MaxRequests /\ trouble' \in 0..MaxTrouble
    BY <2>1, SyncQueueAssumption DEF RequestSync, QueueInv, TypeOK
  <2> QED
    BY <2>1, <2>2, StartStep DEF RequestSync, Callers, QueueInv, TypeOK
<1>2. CASE Poll
  BY <1>2 DEF Poll, queue, QueueInv, TypeOK, Engaged, Clearance
<1>3. CASE \E a \in Accounts : PollNext(a)
  BY <1>3, StartStep DEF PollNext, Callers, QueueInv, TypeOK
<1> QED
  BY <1>1, <1>2, <1>3

-----------------------------------------------------------------------------
(* enqueueAccountSync *)

LEMMA EnqueueStep ==
  ASSUME QueueInv, NEW e \in Callers, Enqueue(e) \/ CallerDies(e)
  PROVE  QueueInv'
<1> USE SyncQueueAssumption DEF QueueInv
<1>1. CASE GetJob(e)
  <2> USE <1>1 DEF GetJob, Goto, queue
  <2>1. TypeOK'
    BY DEF TypeOK
  <2>2. Engaged' /\ Clearance'
    BY DEF TypeOK, Engaged, Clearance
  <2> QED
    BY <2>1, <2>2
<1>2. CASE GetState(e) /\ Finish(e)
  <2> USE <1>2, FinishOne DEF GetState, queue
  <2>1. TypeOK'
    BY DEF TypeOK
  <2>2. Engaged' /\ Clearance'
    BY DEF Engaged, Clearance
  <2> QED
    BY <2>1, <2>2
<1>3. CASE GetState(e) /\ Goto(e, "remove") /\ UNCHANGED <<acct, ran>>
  <2> USE <1>3 DEF GetState, Goto, queue
  <2>1. TypeOK'
    BY DEF TypeOK
  <2>2. Engaged' /\ Clearance'
    BY DEF TypeOK, Engaged, Clearance
  <2> QED
    BY <2>1, <2>2
<1>4. CASE Remove(e)
  <2> USE <1>4 DEF Remove, Goto
  <2>1. acct[e] \in Accounts
    BY DEF Engaged
  <2>2. TypeOK'
    BY <2>1 DEF TypeOK
  <2>3. Engaged'
    BY DEF TypeOK, Engaged
  <2>4. Clearance'
    BY <2>1 DEF TypeOK, Clearance, Engaged
  <2> QED
    BY <2>2, <2>3, <2>4
<1>5. CASE RemoveThrows(e)
  <2> USE <1>5, FinishOne DEF RemoveThrows, queue
  <2>1. TypeOK'
    BY DEF TypeOK
  <2>2. Engaged' /\ Clearance'
    BY DEF Engaged, Clearance
  <2> QED
    BY <2>1, <2>2
<1>6. CASE Add(e)
  <2> USE <1>6, FinishOne DEF Add, queue
  <2>1. acct[e] \in Accounts
    BY DEF Engaged
  <2>2. TypeOK'
    BY <2>1 DEF TypeOK
  <2>3. Engaged'
    BY DEF Engaged
  <2>4. \A a \in Accounts : \/ job'[a] = job[a]
                            \/ job[a] = "none" /\ job'[a] = "waiting"
    BY <2>1 DEF TypeOK
  <2>5. Clearance'
    BY <2>4 DEF Engaged, Clearance
  <2> QED
    BY <2>2, <2>3, <2>5
<1>7. CASE CallerDies(e)
  <2> USE <1>7, FinishOne DEF CallerDies, queue
  <2>1. trouble' \in 0..MaxTrouble
    BY DEF TypeOK
  <2>2. TypeOK'
    BY <2>1 DEF TypeOK
  <2>3. Engaged' /\ Clearance'
    BY DEF Engaged, Clearance
  <2> QED
    BY <2>2, <2>3
<1> QED
  BY <1>1, <1>2, <1>3, <1>4, <1>5, <1>6, <1>7 DEF Enqueue, GetState

-----------------------------------------------------------------------------
(* The worker and BullMQ *)

\* A step of the job of one account.  A caller that is about to add keeps its
\* clearance if the job stays absent or waiting, or does not leave that state
\* unnoticed.
LEMMA JobStep ==
  ASSUME QueueInv, NEW a \in Accounts,
         Pick(a) \/ Succeed(a) \/ Fail(a) \/ BackoffEnds(a) \/ FailedJobAges(a)
           \/ StatusChanges(a)
  PROVE  QueueInv'
<1> USE SyncQueueAssumption DEF QueueInv, calls
<1>1. CASE Pick(a)
  <2> USE <1>1 DEF Pick, Move
  <2>1. TypeOK'
    BY DEF TypeOK
  <2>2. Engaged' /\ Clearance'
    BY DEF TypeOK, Engaged, Clearance
  <2> QED
    BY <2>1, <2>2
<1>2. CASE Succeed(a)
  <2> USE <1>2 DEF Succeed, Move
  <2>1. tries' \in [Accounts -> 0..(Attempts - 1)]
    BY DEF TypeOK
  <2>2. job' \in [Accounts -> {"none", "waiting", "active", "delayed", "failed"}]
    BY DEF TypeOK
  <2>3. TypeOK'
    BY <2>1, <2>2 DEF TypeOK
  <2>4. \A b \in Accounts : b # a => job'[b] = job[b]
    BY DEF TypeOK
  <2>5. Engaged' /\ Clearance'
    BY <2>4 DEF Engaged, Clearance
  <2> QED
    BY <2>3, <2>5
<1>3. CASE Fail(a)
  <2> USE <1>3 DEF Fail, Move
  <2>1. tries' \in [Accounts -> 0..(Attempts - 1)]
    BY DEF TypeOK
  <2>2. job' \in [Accounts -> {"none", "waiting", "active", "delayed", "failed"}]
    BY DEF TypeOK
  <2>3. TypeOK'
    BY <2>1, <2>2 DEF TypeOK
  <2>4. \A b \in Accounts : b # a => job'[b] = job[b]
    BY DEF TypeOK
  <2>5. Engaged' /\ Clearance'
    BY <2>4 DEF Engaged, Clearance
  <2> QED
    BY <2>3, <2>5
<1>4. CASE BackoffEnds(a) \/ FailedJobAges(a)
  <2> USE <1>4 DEF BackoffEnds, FailedJobAges, Move
  <2>1. TypeOK'
    BY DEF TypeOK
  <2>2. Engaged' /\ Clearance'
    BY DEF TypeOK, Engaged, Clearance
  <2> QED
    BY <2>1, <2>2
<1>5. CASE StatusChanges(a)
  <2> USE <1>5 DEF StatusChanges, queue
  <2>1. trouble' \in 0..MaxTrouble
    BY DEF TypeOK
  <2>2. status' \in [Accounts -> BOOLEAN]
    BY DEF TypeOK
  <2>3. TypeOK'
    BY <2>1, <2>2 DEF TypeOK
  <2>4. Engaged' /\ Clearance'
    BY DEF Engaged, Clearance
  <2> QED
    BY <2>3, <2>4
<1> QED
  BY <1>1, <1>2, <1>3, <1>4, <1>5

LEMMA NextQueueInv == QueueInv /\ [Next]_vars => QueueInv'
<1> SUFFICES ASSUME QueueInv, [Next]_vars PROVE QueueInv'
  OBVIOUS
<1>1. CASE UNCHANGED vars
  BY <1>1 DEF vars, queue, calls, QueueInv, TypeOK, Engaged, Clearance
<1>2. CASE Next
  BY <1>2, CallerStep, EnqueueStep, JobStep DEF Next
<1> QED
  BY <1>1, <1>2

-----------------------------------------------------------------------------
\* The strengthened invariant of the queue and its callers: nobody enqueues for
\* no account, and a caller that was cleared to add stays cleared.
THEOREM QueueInvariant == Spec => []QueueInv
  BY InitQueueInv, NextQueueInv, PTL DEF Spec

\* Type correctness: no attempt count beyond the job's attempts option, no state
\* of a job or of a call outside those the code distinguishes.
THEOREM QueueTypeCorrect == Spec => []TypeOK
<1>1. QueueInv => TypeOK
  BY DEF QueueInv
<1> QED
  BY <1>1, QueueInvariant, PTL

\* A step in which enqueueAccountSync returns to its caller leaves the account's
\* job on the queue, or a run was started after the call began.
LEMMA ReturnIsTrue ==
  ASSUME QueueInv, NEW e \in Callers,
         GetState(e) \/ Remove(e) \/ Add(e), pc'[e] = "idle"
  PROVE  job'[acct[e]] \in {"waiting", "active", "delayed"} \/ e \in ran
<1> USE DEF QueueInv
<1>1. CASE GetState(e)
  BY <1>1 DEF GetState, Goto, Pending, TypeOK, queue
<1>2. CASE Remove(e)
  BY <1>2 DEF Remove, Goto, TypeOK
<1>3. CASE Add(e)
  <2>1. acct[e] \in Accounts /\ (job[acct[e]] \in {"none", "waiting"} \/ e \in ran)
    BY <1>3 DEF Add, Engaged, Clearance
  <2> QED
    BY <1>3, <2>1 DEF Add, TypeOK, queue
<1> QED
  BY <1>1, <1>2, <1>3

\* enqueueAccountSync tells its caller the truth, whatever other callers, the
\* worker, crashes and the ageing of failed jobs do between its four calls.
THEOREM AcceptedSyncsAreQueued == Spec => AcceptedSyncIsQueued
<1>1. QueueInv /\ [Next]_vars =>
        [\A e \in Callers :
           (GetState(e) \/ Remove(e) \/ Add(e)) /\ pc'[e] = "idle" =>
              job'[acct[e]] \in {"waiting", "active", "delayed"} \/ e \in ran]_vars
  BY ReturnIsTrue
<1> QED
  BY <1>1, QueueInvariant, PTL DEF Spec, AcceptedSyncIsQueued
=============================================================================
