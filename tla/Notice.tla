-------------------------------- MODULE Notice --------------------------------
(***************************************************************************)
(* The way of an alert to its channels: AlertEngine._dispatch_async and    *)
(* the task dispatch_alert with its retries, task_dispatch with the local  *)
(* fallback, the queue notice.send, and the workers of notice_service that *)
(* send under an idempotency key made of the content.                      *)
(*                                                                         *)
(* Celery acknowledges a message before the task runs, so what a dying     *)
(* worker was doing is not done again.  The key is modelled by what        *)
(* module Idempotency shows of it.                                         *)
(*                                                                         *)
(* The names are the module's own (NoticeInit, NoticeNext ...), as         *)
(* AlertProofs extends it together with the alert engine.                  *)
(***************************************************************************)
EXTENDS Naturals, FiniteSets

CONSTANTS
    Alerts,         \* rows of AlertHistory
    Contents,       \* notification keys: channels, title, content and level
    Content,        \* the key of each alert
    Channels,
    Workers,        \* workers of notice_service
    Unsure,         \* bound: alerts whose task may be queued without an answer
    MaxAttempts,    \* max_attempts of the retry on _dispatch_alert
    MaxLapses,      \* bound: how often a key goes, or Redis is found down
    NoJob

ASSUME NoticeAssumption ==
    /\ Content \in [Alerts -> Contents] /\ NoJob \notin Contents
    /\ MaxAttempts \in Nat \ {0} /\ MaxLapses \in Nat
    /\ IsFiniteSet(Workers) /\ Unsure \subseteq Alerts

VARIABLES
    row,        \* status of each alert
    stage,      \* where each dispatch is
    attempt,    \* how many attempts it has begun
    queue,      \* messages in notice.send, by key
    key,        \* the record under notice:<key>: "none", "busy" or "done"
    job,        \* the key each worker is sending, or NoJob
    todo,       \* channels it has still to try
    tried,      \* attempts of notice_service to send a content on a channel
    locally,    \* contents the platform has sent itself
    lapses,     \* how often a key lapsed or was not written
    lost        \* contents of which a message was taken and never worked off

\* An alert may be dispatched twice: by a task, and by whoever raised it.
Task(a) == <<a, "task">>
Inline(a) == <<a, "inline">>
Dispatches == Alerts \X {"task", "inline"}
Sends(d) == Content[d[1]]

platform == <<row, stage, attempt>>
service == <<key, job, todo, tried>>
ghosts == <<locally, lapses, lost>>
noticeVars == <<platform, queue, service, ghosts>>

Count == [Contents -> Nat]

NoticeTypeOK ==
    /\ row \in [Alerts -> {"pending", "sent", "failed"}]
    /\ stage \in [Dispatches -> {"none", "raised", "queued", "send", "mark", "local",
                                 "localSent", "localFailed", "fail", "raise", "done",
                                 "gaveup", "dead"}]
    /\ attempt \in [Dispatches -> 0 .. MaxAttempts]
    /\ queue \in Count /\ lapses \in Count
    /\ key \in [Contents -> {"none", "busy", "done"}]
    /\ job \in [Workers -> Contents \cup {NoJob}]
    /\ todo \in [Workers -> SUBSET Channels]
    /\ tried \in [Contents -> [Channels -> Nat]]
    /\ locally \subseteq Contents /\ lost \subseteq Contents

NoticeInit ==
    /\ row = [a \in Alerts |-> "pending"]
    /\ stage = [d \in Dispatches |-> IF d[2] = "task" THEN "raised" ELSE "none"]
    /\ attempt = [d \in Dispatches |-> 0]
    /\ queue = [c \in Contents |-> 0] /\ lapses = queue
    /\ key = [c \in Contents |-> "none"]
    /\ job = [w \in Workers |-> NoJob]
    /\ todo = [w \in Workers |-> {}]
    /\ tried = [c \in Contents |-> [h \in Channels |-> 0]]
    /\ locally = {} /\ lost = {}

Move(d, from, to) == stage[d] = from /\ stage' = [stage EXCEPT ![d] = to]
Plus(count, c) == [count EXCEPT ![c] = @ + 1]

-----------------------------------------------------------------------------
(* The platform.                                                           *)

Launch(a, task, inline) ==
    /\ stage[Task(a)] = "raised"
    /\ stage' = [stage EXCEPT ![Task(a)] = task, ![Inline(a)] = inline]
    /\ attempt' = [attempt EXCEPT ![Inline(a)] = IF inline = "send" THEN MaxAttempts ELSE 0]
    /\ UNCHANGED <<row, queue, service, ghosts>>

\* _dispatch_async: to the platform's own queue; without one, in the caller,
\* where nothing tries again; both, if the queue has the task and its answer
\* is lost.
Enqueue(a) == Launch(a, "queued", "none")
EnqueueUnsure(a) == a \in Unsure /\ Launch(a, "queued", "send")
RunInline(a) == Launch(a, "none", "send")

\* A worker takes the task and reads the row.
Start(d) ==
    /\ Move(d, "queued", "send")
    /\ attempt' = [attempt EXCEPT ![d] = 1]
    /\ UNCHANGED <<row, queue, service, ghosts>>

\* send_task: the broker has the message and says so; has it, but the reply
\* is lost; or does not have it.
Publish(d) ==
    /\ Move(d, "send", "mark")
    /\ queue' = Plus(queue, Sends(d))
    /\ UNCHANGED <<row, attempt, service, ghosts>>

PublishUnsure(d) ==
    /\ Move(d, "send", "local")
    /\ queue' = Plus(queue, Sends(d))
    /\ UNCHANGED <<row, attempt, service, ghosts>>

PublishFails(d) ==
    /\ Move(d, "send", "local")
    /\ UNCHANGED <<row, attempt, queue, service, ghosts>>

\* _dispatch_sync_local tries every channel: the row is to be failed if none
\* took the alert.
SendLocally(d) ==
    /\ Move(d, "local", "localSent") \/ Move(d, "local", "localFailed")
    /\ locally' = locally \cup {Sends(d)}
    /\ UNCHANGED <<row, attempt, queue, service, lapses, lost>>

Save(d, status) ==
    /\ row' = [row EXCEPT ![d[1]] = status]
    /\ UNCHANGED <<attempt, queue, service, ghosts>>

MarkSent(d) == (Move(d, "mark", "done") \/ Move(d, "localSent", "done")) /\ Save(d, "sent")
MarkFailed(d) == (Move(d, "fail", "done") \/ Move(d, "localFailed", "done")) /\ Save(d, "failed")

\* The row cannot be saved.  In the fallback that makes the fallback fail,
\* whatever it has sent; elsewhere it makes the attempt fail.
SaveFails(d) ==
    /\ \/ Move(d, "localSent", "fail") \/ Move(d, "localFailed", "fail")
       \/ Move(d, "mark", "raise") \/ Move(d, "fail", "raise")
    /\ UNCHANGED <<row, attempt, queue, service, ghosts>>

\* Slip: the task is put back into the queue, where its attempts count anew.
RetryLater(d) ==
    /\ stage[d] = "raise" /\ attempt[d] < MaxAttempts
    /\ Move(d, "raise", "queued") /\ attempt' = [attempt EXCEPT ![d] = 0]
    /\ UNCHANGED <<row, queue, service, ghosts>>

Retry(d) ==
    /\ IF attempt[d] < MaxAttempts
       THEN Move(d, "raise", "send") /\ attempt' = [attempt EXCEPT ![d] = @ + 1]
       ELSE Move(d, "raise", "gaveup") /\ UNCHANGED attempt
    /\ UNCHANGED <<row, queue, service, ghosts>>

PlatformDies(d) ==
    /\ stage[d] \notin {"none", "raised", "queued", "done", "gaveup", "dead"}
    /\ stage' = [stage EXCEPT ![d] = "dead"]
    /\ UNCHANGED <<row, attempt, queue, service, ghosts>>

-----------------------------------------------------------------------------
(* notice_service.                                                         *)

Take(w, c) ==
    /\ job[w] = NoJob /\ queue[c] > 0
    /\ queue' = [queue EXCEPT ![c] = @ - 1]
    /\ UNCHANGED platform

Work(w, c) ==
    /\ job' = [job EXCEPT ![w] = c]
    /\ todo' = [todo EXCEPT ![w] = Channels]
    /\ UNCHANGED <<tried, locally, lost>>

\* Slip: only a content that is done is skipped.
ReserveBusy(w, c) ==
    /\ Take(w, c) /\ Work(w, c)
    /\ key[c] # "done" /\ key' = [key EXCEPT ![c] = "busy"]
    /\ UNCHANGED lapses

\* send_notification: the key is free.
Reserve(w, c) ==
    /\ Take(w, c) /\ Work(w, c)
    /\ key[c] = "none" /\ key' = [key EXCEPT ![c] = "busy"]
    /\ UNCHANGED lapses

\* The same content was sent, or is being sent: nothing more is done.
SkipKnown(w, c) ==
    /\ Take(w, c)
    /\ key[c] # "none"
    /\ UNCHANGED <<service, ghosts>>

\* Redis was found down and is replaced by the null client, whose SET
\* succeeds: nothing is remembered.
SendUnguarded(w, c) ==
    /\ Take(w, c) /\ Work(w, c)
    /\ lapses[c] < MaxLapses /\ lapses' = Plus(lapses, c)
    /\ UNCHANGED key

\* Redis fails now: reserve raises, and the task is over.  The SET may have
\* been done all the same.
TaskFails(w, c) ==
    /\ Take(w, c)
    /\ key' \in {key, [key EXCEPT ![c] = IF @ = "none" THEN "busy" ELSE @]}
    /\ lost' = lost \cup {c}
    /\ UNCHANGED <<job, todo, tried, locally, lapses>>

\* Slip: a channel that raises ends the loop.
TryAndStop(w, h) ==
    /\ h \in todo[w]
    /\ tried' = [tried EXCEPT ![job[w]] = Plus(@, h)]
    /\ \E rest \in {{}, todo[w] \ {h}} : todo' = [todo EXCEPT ![w] = rest]
    /\ UNCHANGED <<platform, queue, key, job, ghosts>>

\* One channel: what it raises becomes its result.
Try(w, h) ==
    /\ h \in todo[w]
    /\ tried' = [tried EXCEPT ![job[w]] = Plus(@, h)]
    /\ todo' = [todo EXCEPT ![w] = @ \ {h}]
    /\ UNCHANGED <<platform, queue, key, job, ghosts>>

\* ctx.store of the results, whatever they are: a record that exists becomes
\* COMPLETED.  If Redis fails, it stays as it was.
Finish(w) ==
    /\ job[w] # NoJob /\ todo[w] = {}
    /\ key' \in {key, [key EXCEPT ![job[w]] = IF @ = "none" THEN "none" ELSE "done"]}
    /\ job' = [job EXCEPT ![w] = NoJob]
    /\ UNCHANGED <<platform, queue, todo, tried, ghosts>>

WorkerDies(w) ==
    /\ job[w] # NoJob
    /\ lost' = lost \cup {job[w]}
    /\ job' = [job EXCEPT ![w] = NoJob] /\ todo' = [todo EXCEPT ![w] = {}]
    /\ UNCHANGED <<platform, queue, key, tried, locally, lapses>>

\* The hour of the key is over.
Lapse(c) ==
    /\ key[c] # "none"
    /\ key' = [key EXCEPT ![c] = "none"]
    /\ lapses[c] < MaxLapses /\ lapses' = Plus(lapses, c)
    /\ UNCHANGED <<platform, queue, job, todo, tried, locally, lost>>

-----------------------------------------------------------------------------
Raise(a) == Enqueue(a) \/ EnqueueUnsure(a) \/ RunInline(a)

Proceed(d) ==
    \/ Start(d) \/ Publish(d) \/ PublishUnsure(d) \/ PublishFails(d) \/ SendLocally(d)
    \/ MarkSent(d) \/ MarkFailed(d) \/ SaveFails(d) \/ Retry(d)

Receive(w) ==
    \E c \in Contents : Reserve(w, c) \/ SkipKnown(w, c) \/ SendUnguarded(w, c) \/ TaskFails(w, c)

Carry(w) == (\E h \in Channels : Try(w, h)) \/ Finish(w)

NoticeNext ==
    \/ \E a \in Alerts : Raise(a)
    \/ \E d \in Dispatches : Proceed(d) \/ PlatformDies(d)
    \/ \E w \in Workers : Receive(w) \/ Carry(w) \/ WorkerDies(w)
    \/ \E c \in Contents : Lapse(c)

NoticeSpec == NoticeInit /\ [][NoticeNext]_noticeVars

\* Tasks that were begun, and the ones that wait, are worked on; each may die.
FairNotice ==
    /\ NoticeSpec
    /\ \A a \in Alerts : WF_noticeVars(Raise(a))
    /\ \A d \in Dispatches : WF_noticeVars(Proceed(d))
    /\ \A w \in Workers : WF_noticeVars(Receive(w)) /\ WF_noticeVars(Carry(w))

-----------------------------------------------------------------------------
(* Properties.                                                             *)

\* "The same notification is sent only once within the TTL": however often
\* its message was published, and whoever died, the service tries a content
\* on a channel once, and once more for each time the key was gone.
OncePerLife ==
    /\ NoticeTypeOK
    /\ \A c \in Contents, h \in Channels : tried[c][h] <= 1 + lapses[c]

\* A row that says sent is backed: sooner or later every channel has been
\* tried for its content, by the service or by the platform itself, unless a
\* worker took a message of it and died or lost Redis.
SentIsTried ==
    \A a \in Alerts :
        row[a] = "sent" ~> \/ \A h \in Channels : tried[Content[a]][h] > 0
                           \/ Content[a] \in locally \cup lost

\* Every alert gets its status, or each of its dispatches died or failed every
\* attempt: no failure on the way leaves it pending with somebody still at work.
Settles ==
    \A a \in Alerts :
        <>\/ row[a] # "pending"
          \/ \A d \in {Task(a), Inline(a)} : stage[d] \in {"none", "gaveup", "dead"}
===============================================================================
