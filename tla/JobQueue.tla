------------------------------ MODULE JobQueue ------------------------------
(***************************************************************************)
(* Background jobs: the API enqueues (pkg/queue/router picks the backend), *)
(* one worker process per backend consumes (apps/worker and its siblings). *)
(*   redis     asynq: retried up to MaxRetry, then archived                *)
(*   rabbitmq  one durable queue behind a direct exchange, manual ack      *)
(*   kafka     one topic, keyed by task type, fetch then commit            *)
(* The brokers and asynq are external: they do what the code relies on.    *)
(***************************************************************************)
EXTENDS Naturals, Sequences, FiniteSets, TLC

CONSTANTS
    Jobs,          \* the jobs the API will enqueue
    TaskOf,        \* their task types, [Jobs -> Tasks]
    Settings,      \* QueueConfig values to explore, and which backends are up
    Prefetch,      \* deliveries a worker handles at once
    Attempts,      \* how often the kafka writer tries (ten by default)
    EmailRetries, PromotionalRetries,   \* asynq's MaxRetry of the two mail tasks
    MaxRestarts    \* bound: stops, crashes and lost connections together

Drivers == {"redis", "rabbitmq", "kafka"}
NoQueue == "none"
Tasks   == {"email", "promotional", "broadcast"}
Mails   == {"email", "promotional"}

\* Every job has a task type; the settings name drivers the workers know.
ASSUME JobAssumption ==
    /\ TaskOf \in [Jobs -> Tasks]
    /\ \A cfg \in Settings : cfg.up \subseteq Drivers
    /\ EmailRetries \in Nat /\ PromotionalRetries \in Nat /\ Attempts \in Nat \ {0}

VARIABLES
    route,         \* backend of each task type, fixed at start-up
    mailer,        \* the workers have a mail transport
    bound,         \* the rabbitmq queue is bound to the task types
    worker,        \* per backend: "down", "up", "stopping" (told to stop), or
                   \* "deaf" (rabbitmq: runs on without its connection)
    place,         \* where each job is
    tried,         \* asynq's retry counter of each job
    log,           \* kafka: the messages of each key's partition
    cursor,        \* kafka: next offset the running reader fetches, per partition
    committed,     \* kafka: committed offset of each partition
    hand,          \* kafka: task type of the message being handled, or NoQueue
    hung,          \* jobs whose run waits for a mail server that says nothing
    answer,        \* what Enqueue returned
    handled,       \* history: handler runs of the job that returned nil
    sent,          \* history: mails of the job handed to the transport
    failed,        \* history: handler runs of the job that returned an error
    broken,        \* history: handler runs cut by the end of the process
    restarts       \* history: stops, crashes and lost connections so far

broker  == <<bound, log, cursor, committed, hand, hung>>
history == <<handled, sent, failed, broken>>
vars    == <<route, mailer, bound, worker, place, tried, log, cursor, committed,
             hand, hung, answer, handled, sent, failed, broken, restarts>>

Places == {"new", "skipped", "refused", "dropped", "log", "done",
           "archived", "discarded", "redis", "rabbitmq", "redis-run", "rabbitmq-run"}

RunAt  == [d \in Drivers |-> CASE d = "redis" -> "redis-run"
                               [] d = "rabbitmq" -> "rabbitmq-run"
                               [] OTHER -> "never"]

\* asynq.MaxRetry of EnqueueEmail and EnqueuePromotionalEmail (5 and 2 in the
\* code); other tasks keep the library's default, which no bound here reaches.
MaxRetry(task) == CASE task = "email" -> EmailRetries
                    [] task = "promotional" -> PromotionalRetries
                    [] OTHER -> EmailRetries + PromotionalRetries

\* A redis client is made without a connection and never fails.
Ready(cfg) == cfg.up \cup {"redis"}

\* A default driver that does not come up disables the jobs, an override that
\* does not come up leaves its task with the default.
Route(cfg) ==
    LET ok == Ready(cfg)
        pin == [t \in Tasks |-> CASE t = "email" -> cfg.transactional
                                   [] t = "promotional" -> cfg.promotional
                                   [] OTHER -> ""]
    IN  [t \in Tasks |-> CASE cfg.driver \notin ok -> NoQueue
                           [] cfg.driver \in ok /\ pin[t] \in ok -> pin[t]
                           [] OTHER -> cfg.driver]

Used == {route[t] : t \in {TaskOf[j] : j \in Jobs}} \ {NoQueue}

Init ==
    /\ \E cfg \in Settings : route = Route(cfg)
    /\ mailer \in BOOLEAN
    /\ bound = FALSE
    /\ worker = [d \in Drivers |-> "down"]
    /\ place = [j \in Jobs |-> "new"]
    /\ tried = [j \in Jobs |-> 0]
    /\ log = [t \in Tasks |-> <<>>]
    /\ cursor = [t \in Tasks |-> 0]
    /\ committed = [t \in Tasks |-> 0]
    /\ hand = NoQueue
    /\ hung = {}
    /\ answer = [j \in Jobs |-> "none"]
    /\ handled = [j \in Jobs |-> 0]
    /\ sent = [j \in Jobs |-> 0]
    /\ failed = [j \in Jobs |-> 0]
    /\ broken = [j \in Jobs |-> 0]
    /\ restarts = 0

-----------------------------------------------------------------------------
(* The API's side *)

Enqueued(j, where, reply) ==
    /\ place' = [place EXCEPT ![j] = where]
    /\ answer' = [answer EXCEPT ![j] = reply]
    /\ UNCHANGED <<route, mailer, bound, worker, tried, cursor, committed, hand,
                   hung, history, restarts>>

\* No publisher: every caller skips the job; or the publisher returns an error.
EnqueueNowhere(j) ==
    /\ place[j] = "new"
    /\ UNCHANGED log
    /\ IF route[TaskOf[j]] = NoQueue THEN Enqueued(j, "skipped", "none")
                                     ELSE Enqueued(j, "refused", "error")

EnqueueRedis(j) ==
    /\ place[j] = "new" /\ route[TaskOf[j]] = "redis"
    /\ UNCHANGED log
    /\ Enqueued(j, "redis", "ok")

\* mandatory is false: the exchange drops what no queue is bound for. Nor are
\* confirms asked for: what is written to a connection that dies is lost.
EnqueueRabbit(j) ==
    /\ place[j] = "new" /\ route[TaskOf[j]] = "rabbitmq"
    /\ UNCHANGED log
    /\ \/ Enqueued(j, "dropped", "ok")
       \/ bound /\ Enqueued(j, "rabbitmq", "ok")

\* The writer sets no RequiredAcks and so asks for none: a message counts as
\* written once it is on the wire.  When the 10 s deadline passes, or a try fails
\* late, the broker may have stored it all the same: stored yet reported as an
\* error, or once per try.
EnqueueKafka(j) ==
    /\ place[j] = "new" /\ route[TaskOf[j]] = "kafka"
    /\ \E copies \in 1..Attempts, reply \in {"ok", "error"} :
          /\ log' = [log EXCEPT ![TaskOf[j]] = @ \o [i \in 1..copies |-> j]]
          /\ Enqueued(j, "log", reply)

\* Or nobody has stored it, and nobody says so.
LoseKafka(j) ==
    /\ place[j] = "new" /\ route[TaskOf[j]] = "kafka"
    /\ UNCHANGED log
    /\ Enqueued(j, "dropped", "ok")

-----------------------------------------------------------------------------
(* The workers' side *)

Outcome(ok, mails) == [ok |-> ok, mails |-> mails]

\* A call may fail after the server took the mail: QUIT comes after DATA.
SendMail == {Outcome(TRUE, 1), Outcome(FALSE, 1), Outcome(FALSE, 0)}

\* Without a transport the mail is skipped and the job counts as handled; a
\* broadcast counts the sends that fail and returns no error.
Outcomes(j) ==
    IF mailer /\ TaskOf[j] \in Mails THEN SendMail ELSE {Outcome(TRUE, 0)}

Ran(j, o) ==
    /\ sent' = [sent EXCEPT ![j] = @ + o.mails]
    /\ handled' = [handled EXCEPT ![j] = @ + (IF o.ok THEN 1 ELSE 0)]
    /\ failed' = [failed EXCEPT ![j] = @ + (IF o.ok THEN 0 ELSE 1)]
    /\ UNCHANGED <<route, mailer, worker, answer, broken, restarts>>

Running(d) == {j \in Jobs : place[j] = RunAt[d]}

InHand == IF hand = NoQueue THEN {} ELSE {log[hand][cursor[hand] + 1]}

\* SMTPSender.Send sets no deadline and leaves its context unused: a server that
\* takes the connection and falls silent holds the run for good.  asynq gives up
\* on a run after its timeout, so there it is a run that fails.
Hang(j) ==
    /\ j \in (Running("rabbitmq") \cup InHand) \ hung
    /\ mailer /\ TaskOf[j] \in Mails
    /\ hung' = hung \cup {j}
    /\ UNCHANGED <<route, mailer, bound, worker, place, tried, log, cursor, committed,
                   hand, answer, history, restarts>>

\* A stopped asynq server fetches nothing more. The rabbitmq consumer is
\* cancelled under the empty tag, which is not the tag it got: its deliveries
\* go on, to handlers whose context is cancelled.
Take(d, j) ==
    /\ place[j] = d
    /\ worker[d] = "up" \/ (d = "rabbitmq" /\ worker[d] = "stopping")
    /\ Cardinality(Running(d)) < Prefetch
    /\ place' = [place EXCEPT ![j] = RunAt[d]]
    /\ UNCHANGED <<route, mailer, worker, tried, answer, restarts, broker, history>>

RetryOnceMore(j) ==
    IF tried[j] <= MaxRetry(TaskOf[j])
    THEN /\ place' = [place EXCEPT ![j] = "redis"]
         /\ tried' = [tried EXCEPT ![j] = @ + 1]
    ELSE /\ place' = [place EXCEPT ![j] = "archived"]
         /\ UNCHANGED tried

RetryOrArchive(j) ==
    IF tried[j] < MaxRetry(TaskOf[j])
    THEN /\ place' = [place EXCEPT ![j] = "redis"]
         /\ tried' = [tried EXCEPT ![j] = @ + 1]
    ELSE /\ place' = [place EXCEPT ![j] = "archived"]
         /\ UNCHANGED tried

FinishRedis(j) ==
    /\ place[j] = "redis-run"
    /\ \E o \in Outcomes(j) :
          /\ Ran(j, o)
          /\ IF o.ok THEN place' = [place EXCEPT ![j] = "done"] /\ UNCHANGED tried
                     ELSE RetryOrArchive(j)
    /\ UNCHANGED broker

RequeueOnError(j) ==
    /\ place[j] = "rabbitmq-run"
    /\ \E o \in Outcomes(j) :
          /\ Ran(j, o)
          /\ place' = [place EXCEPT ![j] = IF o.ok THEN "done" ELSE "rabbitmq"]
    /\ UNCHANGED <<tried, broker>>

\* Ack, or nack without requeue: as no dead-letter exchange is declared, that is
\* the end of the job.
FinishRabbit(j) ==
    /\ place[j] = "rabbitmq-run" /\ j \notin hung
    /\ \E o \in Outcomes(j) :
          /\ Ran(j, o)
          /\ place' = [place EXCEPT ![j] = IF o.ok THEN "done" ELSE "discarded"]
    /\ UNCHANGED <<tried, broker>>

ReadMessage(t) ==
    /\ worker["kafka"] = "up" /\ hand = NoQueue
    /\ cursor[t] < Len(log[t])
    /\ hand' = t
    /\ committed' = [committed EXCEPT ![t] = cursor[t] + 1]
    /\ UNCHANGED <<route, mailer, bound, worker, place, tried, log, cursor,
                   hung, answer, restarts, history>>

\* FetchMessage, then the handler; its error is only logged. A reader whose
\* context is cancelled fetches nothing more.
FetchKafka(t) ==
    /\ worker["kafka"] = "up" /\ hand = NoQueue
    /\ cursor[t] < Len(log[t])
    /\ hand' = t
    /\ UNCHANGED <<route, mailer, bound, worker, place, tried, log, cursor,
                   committed, hung, answer, restarts, history>>

\* The end of dispatch and CommitMessages: a commit that fails is logged and
\* the reader goes on.  Under a cancelled context the commit may still be queued,
\* and Close lets it through.
FinishKafka ==
    /\ hand # NoQueue /\ InHand \cap hung = {}
    /\ LET j == log[hand][cursor[hand] + 1] IN \E o \in Outcomes(j) : Ran(j, o)
    /\ cursor' = [cursor EXCEPT ![hand] = @ + 1]
    /\ \/ committed' = [committed EXCEPT ![hand] = cursor[hand] + 1]
       \/ UNCHANGED committed
    /\ hand' = NoQueue
    /\ UNCHANGED <<bound, place, tried, log, hung>>

Up(d) ==
    /\ d \in Used /\ worker[d] = "down"
    /\ worker' = [worker EXCEPT ![d] = "up"]
    /\ UNCHANGED <<route, mailer, place, tried, log, committed, hand, hung, answer,
                   restarts, history>>

StartRedis == Up("redis") /\ UNCHANGED <<bound, cursor>>

\* The worker binds its queue, which stays bound when it is gone.
StartRabbit == Up("rabbitmq") /\ bound' = TRUE /\ UNCHANGED cursor

\* Bugs for comparison: the reader begins with the oldest message, or with the next.
StartKafkaAtFirst ==
    Up("kafka") /\ cursor' = [t \in Tasks |-> 0] /\ UNCHANGED bound

StartKafkaAtEnd ==
    Up("kafka") /\ cursor' = [t \in Tasks |-> Len(log[t])] /\ UNCHANGED bound

\* The reader goes on behind what its group has committed.
StartKafka == Up("kafka") /\ cursor' = committed /\ UNCHANGED bound

\* SIGTERM. Without its connection the rabbitmq worker has nothing to wait for.
Stop(d) ==
    /\ worker[d] \in {"up", "deaf"} /\ restarts < MaxRestarts
    /\ worker' = [worker EXCEPT ![d] = IF @ = "up" THEN "stopping" ELSE "down"]
    /\ restarts' = restarts + 1
    /\ UNCHANGED <<route, mailer, place, tried, answer, broker, history>>

Cut(d) == Running(d) \cup (IF d = "kafka" THEN InHand ELSE {})

\* The mail of a run that is cut may have left.
MailsLeft(cut) ==
    \E gone \in SUBSET {j \in cut : mailer /\ TaskOf[j] \in Mails} :
        sent' = [j \in Jobs |-> sent[j] + (IF j \in gone THEN 1 ELSE 0)]

\* The worker that was told to stop returns from Start: asynq puts back what is
\* still running after its timeout, the kafka loop ends between two messages,
\* and the rabbitmq worker waits for ever for deliveries that never close.
Exit(d) ==
    /\ worker[d] = "stopping" /\ d # "rabbitmq"
    /\ d = "kafka" => hand = NoQueue
    /\ worker' = [worker EXCEPT ![d] = "down"]
    /\ place' = [j \in Jobs |-> IF j \in Running(d) THEN d ELSE place[j]]
    /\ broken' = [j \in Jobs |-> broken[j] + (IF j \in Running(d) THEN 1 ELSE 0)]
    /\ MailsLeft(Running(d))
    /\ UNCHANGED <<route, mailer, tried, answer, handled, failed, restarts, broker>>

\* The process or its connection dies. RabbitMQ puts back what was not
\* acknowledged; asynq's recoverer counts it as a retry.
Die(d, state) ==
    /\ worker' = [worker EXCEPT ![d] = state]
    /\ MailsLeft(Cut(d))
    /\ hung' = hung \ Cut(d)
    /\ broken' = [j \in Jobs |-> broken[j] + (IF j \in Cut(d) THEN 1 ELSE 0)]
    /\ hand' = IF d = "kafka" THEN NoQueue ELSE hand
    /\ place' = [j \in Jobs |->
                    IF j \notin Running(d) THEN place[j]
                    ELSE IF d = "redis" /\ tried[j] >= MaxRetry(TaskOf[j]) THEN "archived"
                    ELSE d]
    /\ tried' = [j \in Jobs |-> tried[j] +
                    (IF d = "redis" /\ j \in Running(d) /\ tried[j] < MaxRetry(TaskOf[j])
                     THEN 1 ELSE 0)]
    /\ UNCHANGED <<route, mailer, bound, log, cursor, committed, answer, handled,
                   failed>>

Crash(d) ==
    /\ worker[d] # "down" /\ restarts < MaxRestarts
    /\ restarts' = restarts + 1
    /\ Die(d, "down")

\* The SIGKILL that ends a stop.
Kill(d) == worker[d] = "stopping" /\ UNCHANGED restarts /\ Die(d, "down")

\* The deliveries close and the pool ends, but Start waits for its context and
\* nothing dials again.
Disconnect ==
    /\ worker["rabbitmq"] = "up" /\ restarts < MaxRestarts
    /\ restarts' = restarts + 1
    /\ Die("rabbitmq", "deaf")

API == \E j \in Jobs :
          \/ EnqueueNowhere(j) \/ EnqueueRedis(j) \/ EnqueueRabbit(j)
          \/ EnqueueKafka(j) \/ LoseKafka(j)

Work == \/ \E d \in Drivers, j \in Jobs : Take(d, j)
        \/ \E j \in Jobs : FinishRedis(j) \/ FinishRabbit(j) \/ Hang(j)
        \/ \E t \in Tasks : FetchKafka(t)
        \/ FinishKafka

Next == \/ API
        \/ Work
        \/ StartRedis \/ StartRabbit \/ StartKafka
        \/ \E d \in Drivers : Stop(d) \/ Exit(d) \/ Crash(d) \/ Kill(d)
        \/ Disconnect

\* A worker makes progress unless its mail server holds it, a supervisor restarts
\* it when it is down, and ends with SIGKILL a stop that does not end by itself.
Fairness ==
    /\ \A j \in Jobs : WF_vars(Take("redis", j)) /\ WF_vars(Take("rabbitmq", j))
    /\ \A j \in Jobs : WF_vars(FinishRedis(j)) /\ WF_vars(FinishRabbit(j))
    /\ \A t \in Tasks : WF_vars(FetchKafka(t))
    /\ WF_vars(FinishKafka)
    /\ WF_vars(StartRedis) /\ WF_vars(StartRabbit) /\ WF_vars(StartKafka)
    /\ \A d \in Drivers : WF_vars(Exit(d)) /\ WF_vars(Kill(d))

Spec == Init /\ [][Next]_vars /\ Fairness

-----------------------------------------------------------------------------
(* Correctness *)

TypeOK ==
    /\ route \in [Tasks -> Drivers \cup {NoQueue}] /\ mailer \in BOOLEAN /\ bound \in BOOLEAN
    /\ worker \in [Drivers -> {"down", "up", "stopping", "deaf"}]
    /\ place \in [Jobs -> Places] /\ answer \in [Jobs -> {"none", "ok", "error"}]
    /\ \A t \in Tasks : /\ \A i \in DOMAIN log[t] : TaskOf[log[t][i]] = t
                        /\ committed[t] <= cursor[t] /\ cursor[t] <= Len(log[t])
    /\ hand \in Tasks \cup {NoQueue} /\ hung \subseteq Jobs
    /\ \A j \in Jobs : tried[j] <= MaxRetry(TaskOf[j])

\* A broker still owes the job a run.
Waiting(j) ==
    \/ place[j] \in {"redis", "redis-run", "rabbitmq", "rabbitmq-run"}
    \/ \E i \in DOMAIN log[TaskOf[j]] : i > committed[TaskOf[j]] /\ log[TaskOf[j]][i] = j

\* What a broker has kept is lost only by a run: it waits there until a handler ran
\* it to an end, or its worker died under it more often than asynq retries, wherever
\* crashes, stops and failed commits fall.  Two losses are outside this.  "ok" does not
\* say that a broker has kept the job ("dropped": an exchange nothing is bound to, a
\* connection that dies, a kafka write that nobody acknowledges).  And a run that fails is the
\* end of a job of rabbitmq or kafka: nothing dead-letters it, as rabbitmq.go:8 and the
\* contract of HandlerFunc would have it.
NoSilentLoss ==
    \A j \in Jobs :
        answer[j] = "ok" /\ place[j] # "dropped" /\ ~Waiting(j) =>
            \/ handled[j] + failed[j] > 0
            \/ place[j] = "archived" /\ broken[j] > MaxRetry(TaskOf[j])

\* How often the same mail can leave: again only after a run that was cut, a
\* failure that asynq retries, or kafka's replay of what was not committed.
DuplicateBudget ==
    \A j \in Jobs :
        CASE route[TaskOf[j]] = "rabbitmq" -> sent[j] <= 1 + broken[j]
          [] route[TaskOf[j]] = "redis" -> /\ sent[j] <= 1 + failed[j] + broken[j]
                                           /\ handled[j] <= 1
                                           /\ failed[j] <= 1 + MaxRetry(TaskOf[j])
          [] route[TaskOf[j]] = "kafka" -> sent[j] <= Attempts * (1 + restarts)
          [] OTHER -> sent[j] = 0

\* What a broker has kept is neither lost before a run nor done too often (rabbitmq.go's
\* manual acknowledgement, kafka.go's fetch-then-commit, asynq's retries).
JobsAccountedFor == NoSilentLoss /\ DuplicateBudget

\* Where a job is, and how often it was run, for whoever enqueued it.
Phase == [j \in Jobs |->
    CASE place[j] = "new" -> "new"
      [] place[j] \in {"skipped", "refused", "dropped"} -> "absent"
      [] OTHER -> IF Waiting(j) THEN "owed" ELSE "over"]
Runs == [j \in Jobs |-> handled[j] + failed[j]]

Contract == INSTANCE JobContract WITH
    Patience <- [j \in Jobs |-> MaxRetry(TaskOf[j])], phase <- Phase, runs <- Runs, cuts <- broken

\* A job is run only while its broker owes it, and is owed until it was run or given up:
\* what was acknowledged or committed, by whichever backend, never comes back (the
\* contract of queue.Consumer, the offsets of the kafka group).
ContractSpec == Contract!Spec

\* Nobody will run the job before its worker is restarted: the rabbitmq worker lost its
\* connection, or silent mail servers hold the job, all hands of rabbitmq, or the one of kafka.
HeldBack(j) ==
    CASE route[TaskOf[j]] = "rabbitmq" ->
            \/ worker["rabbitmq"] = "deaf"
            \/ j \in hung
            \/ Cardinality(hung \cap Running("rabbitmq")) >= Prefetch
      [] route[TaskOf[j]] = "kafka" -> InHand \cap hung # {}
      [] OTHER -> FALSE

\* A job that its broker has kept is run to an end in the end, through restarts, stops and
\* the jobs before it (queue.Consumer, the three Starts).  Only two things can stop it, and
\* only for as long as nobody restarts the worker: a rabbitmq worker that lost its
\* connection, and a mail server that falls silent, as SMTPSender.Send has no deadline.
EventuallyRun ==
    \A j \in Jobs :
        (answer[j] = "ok" /\ place[j] # "dropped") ~>
            \/ handled[j] + failed[j] > 0
            \/ place[j] = "archived"
            \/ []HeldBack(j)

\* queue.Consumer and rabbitmq.Consumer: Start "consumes until ctx is canceled".
ConsumesUntilStopped ==
    [][\A j \in Jobs, d \in Drivers :
          place[j] = d /\ place'[j] = RunAt[d] => worker[d] = "up"]_vars
=============================================================================
