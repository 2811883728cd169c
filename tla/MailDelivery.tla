---------------------------- MODULE MailDelivery ----------------------------
(***************************************************************************)
(* The mails of the notification queue: a job for each, the workers of the *)
(* API processes that take the jobs and call the email provider, and the   *)
(* attempts that the options of NotificationsService.enqueue allow.        *)
(*                                                                         *)
(* The queue is BullMQ's.  A worker holds the lock of the job it processes *)
(* and renews it; a worker that dies, or is held up for too long, loses    *)
(* it, and the job is handed out again although the old worker may still   *)
(* be sending the mail.                                                    *)
(***************************************************************************)
EXTENDS Naturals

CONSTANTS
    Job,       \* the mails that may be enqueued
    Worker,    \* NotificationsProcessor in each API process
    NoWorker,
    Provider   \* EMAIL_PROVIDER, "console" or "ses"

VARIABLES
    job,     \* the queue in Redis
    work,    \* what each worker does
    copies,  \* history: how often the provider took a mail
    lost     \* history: how often it did and its answer was lost

delivery == <<job, work, copies, lost>>

----------------------------------------------------------------------------
Attempts == 3

\* BullMQ's maxStalledCount.
MaxStalls == 1

Row == [status : {"none", "waiting", "active", "delayed", "completed", "failed"},
        made : 0 .. Attempts, stalls : 0 .. MaxStalls + 1,
        holder : Worker \cup {NoWorker}]

NotAdded == [status |-> "none", made |-> 0, stalls |-> 0, holder |-> NoWorker]

Resting == [pc |-> "idle"]

Work == {Resting} \cup [pc : {"send", "complete", "fail"}, job : Job]

Ended == {"completed", "failed"}

\* The lock that the queue asks for when a worker reports a result.
Holds(w, j) == job[j].status = "active" /\ job[j].holder = w

\* What changes of a row.
Now(row, status) == [row EXCEPT !.status = status]
Given(row, w) == [row EXCEPT !.holder = w]
Tried(row) == [row EXCEPT !.made = @ + 1]
Stalled(row) == [row EXCEPT !.stalls = @ + 1]

----------------------------------------------------------------------------
\* NotificationsService.enqueue, for several mails.
Add(jobs) ==
    /\ job' = [j \in Job |->
          IF j \in jobs THEN Now(NotAdded, "waiting") ELSE job[j]]
    /\ UNCHANGED <<work, copies, lost>>

Take(w) ==
    /\ work[w].pc = "idle"
    /\ \E j \in Job :
        /\ job[j].status = "waiting"
        /\ job' = [job EXCEPT ![j] = Given(Now(@, "active"), w)]
        /\ work' = [work EXCEPT ![w] = [pc |-> "send", job |-> j]]
    /\ UNCHANGED <<copies, lost>>

\* Mutant: the processor does not await the provider.
Deliver_NotAwaited(w) ==
    /\ work[w].pc = "send"
    /\ \E n \in {0, 1} :
        copies' = [copies EXCEPT ![work[w].job] = @ + n]
    /\ work' = [work EXCEPT ![w].pc = "complete"]
    /\ UNCHANGED <<job, lost>>

\* Mutant: an answer without a message id is taken for a failure.
Deliver_NoMessageId(w) ==
    /\ work[w].pc = "send"
    /\ copies' = [copies EXCEPT ![work[w].job] = @ + 1]
    /\ work' = [work EXCEPT ![w].pc = "fail"]
    /\ UNCHANGED <<job, lost>>

\* The provider takes the mail and says so.
Deliver(w) ==
    /\ work[w].pc = "send"
    /\ copies' = [copies EXCEPT ![work[w].job] = @ + 1]
    /\ work' = [work EXCEPT ![w].pc = "complete"]
    /\ UNCHANGED <<job, lost>>

\* SES takes the mail, but fetch or the reading of the answer throws.
LoseAnswer(w) ==
    /\ work[w].pc = "send" /\ Provider = "ses"
    /\ copies' = [copies EXCEPT ![work[w].job] = @ + 1]
    /\ lost' = [lost EXCEPT ![work[w].job] = @ + 1]
    /\ work' = [work EXCEPT ![w].pc = "fail"]
    /\ UNCHANGED job

\* SES refuses the mail, or is not reached, or is not configured.
Refuse(w) ==
    /\ work[w].pc = "send" /\ Provider = "ses"
    /\ work' = [work EXCEPT ![w].pc = "fail"]
    /\ UNCHANGED <<job, copies, lost>>

\* process has resolved; without the lock the report changes nothing.
Complete(w) ==
    LET j == work[w].job IN
    /\ work[w].pc = "complete"
    /\ job' = IF Holds(w, j) THEN [job EXCEPT ![j] = Now(@, "completed")] ELSE job
    /\ work' = [work EXCEPT ![w] = Resting]
    /\ UNCHANGED <<copies, lost>>

\* process has rejected: the job waits for its next attempt, or has had all.
FailAttempt(w) ==
    LET j == work[w].job IN
    /\ work[w].pc = "fail"
    /\ job' = IF Holds(w, j)
              THEN [job EXCEPT ![j] =
                      Tried(Now(@, IF @.made + 1 < Attempts THEN "delayed"
                                                            ELSE "failed"))]
              ELSE job
    /\ work' = [work EXCEPT ![w] = Resting]
    /\ UNCHANGED <<copies, lost>>

\* The backoff of a failed attempt is over.
Promote(j) ==
    /\ job[j].status = "delayed"
    /\ job' = [job EXCEPT ![j] = Now(@, "waiting")]
    /\ UNCHANGED <<work, copies, lost>>

\* The process of a worker dies and is restarted.
Die(w) ==
    LET j == work[w].job IN
    /\ work[w].pc # "idle"
    /\ job' = IF Holds(w, j) THEN [job EXCEPT ![j] = Given(@, NoWorker)] ELSE job
    /\ work' = [work EXCEPT ![w] = Resting]
    /\ UNCHANGED <<copies, lost>>

\* The lock of an active job has expired.
Stall(j) ==
    /\ job[j].status = "active"
    /\ job' = [job EXCEPT ![j] =
          Stalled(Given(Now(@, IF @.stalls < MaxStalls THEN "waiting"
                                                       ELSE "failed"), NoWorker))]
    /\ UNCHANGED <<work, copies, lost>>

----------------------------------------------------------------------------
InitDelivery ==
    /\ job = [j \in Job |-> NotAdded]
    /\ work = [w \in Worker |-> Resting]
    /\ copies = [j \in Job |-> 0]
    /\ lost = [j \in Job |-> 0]

Process(w) ==
    \/ Take(w)
    \/ Deliver(w)
    \/ LoseAnswer(w)
    \/ Refuse(w)
    \/ Complete(w)
    \/ FailAttempt(w)

NextDelivery ==
    \/ \E w \in Worker : Process(w) \/ Die(w)
    \/ \E j \in Job : Promote(j) \/ Stall(j)

\* A job nobody works on any more is found by the check for stalled jobs.
Abandoned(j) == job[j].holder = NoWorker /\ Stall(j)

----------------------------------------------------------------------------
TypeOK ==
    /\ job \in [Job -> Row]
    /\ work \in [Worker -> Work]
    /\ copies \in [Job -> Nat]
    /\ lost \in [Job -> Nat]

\* A mail that is no longer in the queue was taken by the provider, or was
\* given up after every attempt failed or its worker was lost twice.
NoMailVanishes ==
    \A j \in Job :
        job[j].status \in Ended =>
            copies[j] > 0 \/ job[j].made = Attempts \/ job[j].stalls > MaxStalls

\* A mail is sent again only for a lost answer or a lost lock, once for each.
CopiesAccountedFor ==
    \A j \in Job : copies[j] <= 1 + lost[j] + job[j].stalls
=============================================================================
