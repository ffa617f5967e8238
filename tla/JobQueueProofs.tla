--------------------------- MODULE JobQueueProofs ---------------------------
(***************************************************************************)
(* Theorems of JobQueue for every set of jobs, every routing, every number *)
(* of retries and every number of stops and crashes.                       *)
(***************************************************************************)
EXTENDS JobQueue, FiniteSetTheorems, SequenceTheorems, TLAPS

-----------------------------------------------------------------------------
(* The model's operators *)

\* Where a job is while it runs, per backend.
LEMMA RunPlaces ==
    /\ RunAt["redis"] = "redis-run" /\ RunAt["rabbitmq"] = "rabbitmq-run"
    /\ RunAt["kafka"] = "never"
  BY DEF RunAt, Drivers

\* Each job has a task type, and each task type a number of retries.
LEMMA TaskTypes ==
    ASSUME NEW j \in Jobs
    PROVE  TaskOf[j] \in Tasks /\ MaxRetry(TaskOf[j]) \in Nat
<1>1. TaskOf[j] \in Tasks
  BY JobAssumption
<1>2. CASE TaskOf[j] = "email"
  BY <1>1, <1>2, JobAssumption DEF MaxRetry
<1>3. CASE TaskOf[j] = "promotional"
  BY <1>1, <1>3, JobAssumption DEF MaxRetry
<1>4. CASE TaskOf[j] = "broadcast"
  BY <1>1, <1>4, JobAssumption DEF MaxRetry
<1> QED
  BY <1>1, <1>2, <1>3, <1>4 DEF Tasks

\* Every task type is routed to a backend or to none.
LEMMA RouteType ==
    ASSUME NEW cfg \in Settings
    PROVE  Route(cfg) \in [Tasks -> Drivers \cup {NoQueue}]
<1> DEFINE ok == Ready(cfg)
           pin == [t \in Tasks |-> CASE t = "email" -> cfg.transactional
                                     [] t = "promotional" -> cfg.promotional
                                     [] OTHER -> ""]
           to(t) == CASE cfg.driver \notin ok -> NoQueue
                      [] cfg.driver \in ok /\ pin[t] \in ok -> pin[t]
                      [] OTHER -> cfg.driver
<1>1. Route(cfg) = [t \in Tasks |-> to(t)]
  BY DEF Route
<1>2. ok \subseteq Drivers
  BY JobAssumption DEF Ready, Drivers
<1> HIDE DEF ok, pin
<1>3. ASSUME NEW t \in Tasks PROVE to(t) \in Drivers \cup {NoQueue}
  <2>1. CASE cfg.driver \notin ok
    BY <2>1
  <2>2. CASE cfg.driver \in ok /\ pin[t] \in ok
    BY <1>2, <2>2
  <2>3. CASE cfg.driver \in ok /\ pin[t] \notin ok
    BY <1>2, <2>3
  <2> QED
    BY <2>1, <2>2, <2>3
<1> QED
  BY <1>1, <1>3

\* A handler returns or fails, and at most one mail leaves; none does without a
\* transport or for a broadcast.
LEMMA OutcomeFacts ==
    ASSUME NEW j \in Jobs, NEW o \in Outcomes(j)
    PROVE  o.ok \in BOOLEAN /\ o.mails \in {0, 1}
<1>1. o = Outcome(TRUE, 1) \/ o = Outcome(FALSE, 1) \/ o = Outcome(FALSE, 0) \/ o = Outcome(TRUE, 0)
  BY DEF Outcomes, SendMail
<1>2. \A ok \in BOOLEAN, n \in {0, 1} : Outcome(ok, n).ok \in BOOLEAN /\ Outcome(ok, n).mails \in {0, 1}
  BY Zenon DEF Outcome
<1> QED
  BY <1>1, <1>2

-----------------------------------------------------------------------------
(* Type correctness *)

\* The counters count, and the message being handled is in the log, where only
\* a worker that runs has one.
TInv ==
    /\ TypeOK
    /\ handled \in [Jobs -> Nat] /\ sent \in [Jobs -> Nat] /\ failed \in [Jobs -> Nat]
    /\ broken \in [Jobs -> Nat] /\ tried \in [Jobs -> Nat] /\ restarts \in Nat
    /\ log \in [Tasks -> Seq(Jobs)]
    /\ cursor \in [Tasks -> Nat] /\ committed \in [Tasks -> Nat]
    /\ worker["kafka"] # "deaf"
    /\ hand # NoQueue => /\ worker["kafka"] \in {"up", "stopping"}
                         /\ cursor[hand] < Len(log[hand])

\* The message being handled, and the jobs that run.
LEMMA RunningFacts ==
    ASSUME TInv
    PROVE  /\ Running("redis") = {j \in Jobs : place[j] = "redis-run"}
           /\ Running("rabbitmq") = {j \in Jobs : place[j] = "rabbitmq-run"}
           /\ Running("kafka") = {}
           /\ hand # NoQueue => /\ hand \in Tasks /\ cursor[hand] + 1 \in 1..Len(log[hand])
                                /\ log[hand][cursor[hand] + 1] \in Jobs
                                /\ TaskOf[log[hand][cursor[hand] + 1]] = hand
<1>1. /\ Running("redis") = {j \in Jobs : place[j] = "redis-run"}
      /\ Running("rabbitmq") = {j \in Jobs : place[j] = "rabbitmq-run"}
  BY RunPlaces DEF Running
<1>2. Running("kafka") = {}
  BY RunPlaces DEF Running, TInv, TypeOK, Places
<1>3. ASSUME hand # NoQueue
      PROVE  /\ hand \in Tasks /\ cursor[hand] + 1 \in 1..Len(log[hand])
             /\ log[hand][cursor[hand] + 1] \in Jobs
             /\ TaskOf[log[hand][cursor[hand] + 1]] = hand
  <2>1. /\ hand \in Tasks /\ cursor[hand] < Len(log[hand]) /\ cursor[hand] \in Nat
        /\ log[hand] \in Seq(Jobs)
        /\ \A i \in DOMAIN log[hand] : TaskOf[log[hand][i]] = hand
    BY <1>3 DEF TInv, TypeOK
  <2>2. Len(log[hand]) \in Nat /\ DOMAIN log[hand] = 1..Len(log[hand])
    BY <2>1, LenProperties
  <2>3. cursor[hand] + 1 \in 1..Len(log[hand])
    BY <2>1, <2>2
  <2> QED
    BY <2>1, <2>2, <2>3, ElementOfSeq
<1> QED
  BY <1>1, <1>2, <1>3

\* The jobs that are cut are jobs.
LEMMA CutFacts ==
    ASSUME TInv, NEW d \in Drivers
    PROVE  /\ Cut(d) \subseteq Jobs /\ Running(d) \subseteq Jobs
           /\ d # "kafka" => Cut(d) = Running(d)
           /\ d = "kafka" => Cut(d) = IF hand = NoQueue THEN {} ELSE {log[hand][cursor[hand] + 1]}
  BY RunningFacts DEF Cut, Running, InHand

\* Before anything is enqueued.
LEMMA InitTyped == Init => TInv
<1> SUFFICES ASSUME Init PROVE TInv
  OBVIOUS
<1>1. route \in [Tasks -> Drivers \cup {NoQueue}]
  BY RouteType DEF Init
<1>2. /\ log = [t \in Tasks |-> <<>>] /\ cursor = [t \in Tasks |-> 0]
      /\ committed = [t \in Tasks |-> 0]
  BY DEF Init
<1>3. <<>> \in Seq(Jobs) /\ Len(<<>>) = 0 /\ DOMAIN <<>> = {}
  BY EmptySeq
<1>4. \A t \in Tasks : /\ \A i \in DOMAIN log[t] : TaskOf[log[t][i]] = t
                       /\ committed[t] <= cursor[t] /\ cursor[t] <= Len(log[t])
  BY <1>2, <1>3
<1>5. log \in [Tasks -> Seq(Jobs)]
  BY <1>2, <1>3
<1>6. \A j \in Jobs : tried[j] <= MaxRetry(TaskOf[j])
  BY TaskTypes DEF Init
<1>7. /\ worker \in [Drivers -> {"down", "up", "stopping", "deaf"}] /\ worker["kafka"] # "deaf"
      /\ place \in [Jobs -> Places] /\ answer \in [Jobs -> {"none", "ok", "error"}]
      /\ mailer \in BOOLEAN /\ bound \in BOOLEAN /\ hand = NoQueue /\ hung = {}
  BY DEF Init, Places, Drivers
<1>8. TypeOK
  BY <1>1, <1>4, <1>6, <1>7 DEF TypeOK
<1>9. /\ handled \in [Jobs -> Nat] /\ sent \in [Jobs -> Nat] /\ failed \in [Jobs -> Nat]
      /\ broken \in [Jobs -> Nat] /\ tried \in [Jobs -> Nat] /\ restarts \in Nat
      /\ cursor \in [Tasks -> Nat] /\ committed \in [Tasks -> Nat]
  BY <1>2 DEF Init
<1> QED
  BY <1>5, <1>7, <1>8, <1>9 DEF TInv

\* A handler run counts as handled or as failed, and at most one mail leaves.
LEMMA RanFacts ==
    ASSUME TInv, NEW j \in Jobs, NEW o \in Outcomes(j), Ran(j, o)
    PROVE  /\ handled' \in [Jobs -> Nat] /\ sent' \in [Jobs -> Nat] /\ failed' \in [Jobs -> Nat]
           /\ sent'[j] <= sent[j] + 1
           /\ IF o.ok THEN handled'[j] = handled[j] + 1 /\ failed'[j] = failed[j]
                      ELSE handled'[j] = handled[j] /\ failed'[j] = failed[j] + 1
           /\ \A i \in Jobs \ {j} : /\ handled'[i] = handled[i] /\ sent'[i] = sent[i]
                                    /\ failed'[i] = failed[i]
           /\ route' = route /\ mailer' = mailer /\ worker' = worker /\ answer' = answer
           /\ broken' = broken /\ restarts' = restarts
<1>1. /\ handled \in [Jobs -> Nat] /\ sent \in [Jobs -> Nat] /\ failed \in [Jobs -> Nat]
      /\ o.ok \in BOOLEAN /\ o.mails \in {0, 1}
  BY OutcomeFacts DEF TInv
<1>2. /\ sent' = [sent EXCEPT ![j] = @ + o.mails]
      /\ handled' = [handled EXCEPT ![j] = @ + (IF o.ok THEN 1 ELSE 0)]
      /\ failed' = [failed EXCEPT ![j] = @ + (IF o.ok THEN 0 ELSE 1)]
  BY DEF Ran
<1>3. sent' \in [Jobs -> Nat] /\ sent'[j] <= sent[j] + 1
  BY <1>1, <1>2
<1>4. /\ handled' \in [Jobs -> Nat] /\ failed' \in [Jobs -> Nat]
      /\ IF o.ok THEN handled'[j] = handled[j] + 1 /\ failed'[j] = failed[j]
                 ELSE handled'[j] = handled[j] /\ failed'[j] = failed[j] + 1
  <2>1. CASE o.ok
    BY <1>1, <1>2, <2>1
  <2>2. CASE ~o.ok
    BY <1>1, <1>2, <2>2
  <2> QED
    BY <2>1, <2>2
<1> QED
  BY <1>1, <1>2, <1>3, <1>4 DEF Ran

\* A run that is cut has let out one mail at most.
LEMMA MailsLeftFacts ==
    ASSUME TInv, NEW cut, MailsLeft(cut)
    PROVE  /\ sent' \in [Jobs -> Nat]
           /\ \A j \in Jobs : sent'[j] <= sent[j] + (IF j \in cut THEN 1 ELSE 0)
<1>1. PICK gone \in SUBSET {j \in cut : mailer /\ TaskOf[j] \in Mails} :
         sent' = [j \in Jobs |-> sent[j] + (IF j \in gone THEN 1 ELSE 0)]
  BY DEF MailsLeft
<1>2. sent \in [Jobs -> Nat]
  BY DEF TInv
<1> QED
  BY <1>1, <1>2

\* What a process leaves behind when it dies.
LEMMA DieFacts ==
    ASSUME TInv, NEW d \in Drivers, NEW s, Die(d, s)
    PROVE  /\ sent' \in [Jobs -> Nat] /\ broken' \in [Jobs -> Nat] /\ tried' \in [Jobs -> Nat]
           /\ place' \in [Jobs -> Places]
           /\ \A j \in Jobs :
                 /\ sent'[j] <= sent[j] + (IF j \in Cut(d) THEN 1 ELSE 0)
                 /\ broken'[j] = broken[j] + (IF j \in Cut(d) THEN 1 ELSE 0)
                 /\ j \notin Running(d) => place'[j] = place[j] /\ tried'[j] = tried[j]
                 /\ j \in Running(d) /\ d # "redis" => place'[j] = d /\ tried'[j] = tried[j]
                 /\ j \in Running(d) /\ d = "redis" =>
                       IF tried[j] >= MaxRetry(TaskOf[j])
                       THEN place'[j] = "archived" /\ tried'[j] = tried[j]
                       ELSE place'[j] = "redis" /\ tried'[j] = tried[j] + 1
<1>0. /\ sent \in [Jobs -> Nat] /\ broken \in [Jobs -> Nat] /\ tried \in [Jobs -> Nat]
      /\ place \in [Jobs -> Places]
  BY DEF TInv, TypeOK
<1>2. /\ sent' \in [Jobs -> Nat]
      /\ \A j \in Jobs : sent'[j] <= sent[j] + (IF j \in Cut(d) THEN 1 ELSE 0)
  BY MailsLeftFacts DEF Die
<1>3. /\ broken' \in [Jobs -> Nat]
      /\ \A j \in Jobs : broken'[j] = broken[j] + (IF j \in Cut(d) THEN 1 ELSE 0)
  BY <1>0 DEF Die
<1>4. ASSUME NEW j \in Jobs
      PROVE  /\ tried'[j] \in Nat
             /\ j \notin Running(d) => tried'[j] = tried[j]
             /\ j \in Running(d) /\ d # "redis" => tried'[j] = tried[j]
             /\ j \in Running(d) /\ d = "redis" =>
                   tried'[j] = IF tried[j] >= MaxRetry(TaskOf[j]) THEN tried[j] ELSE tried[j] + 1
  <2>1. tried'[j] = tried[j] +
           (IF d = "redis" /\ j \in Running(d) /\ tried[j] < MaxRetry(TaskOf[j]) THEN 1 ELSE 0)
    BY DEF Die
  <2>2. tried[j] \in Nat /\ MaxRetry(TaskOf[j]) \in Nat
    BY <1>0, TaskTypes
  <2> QED
    BY <2>1, <2>2
<1>5. ASSUME NEW j \in Jobs
      PROVE  /\ place'[j] \in Places
             /\ j \notin Running(d) => place'[j] = place[j]
             /\ j \in Running(d) /\ d # "redis" => place'[j] = d
             /\ j \in Running(d) /\ d = "redis" =>
                   place'[j] = IF tried[j] >= MaxRetry(TaskOf[j]) THEN "archived" ELSE "redis"
  <2>0. d = "kafka" => j \notin Running(d)
    BY RunningFacts
  <2>1. CASE j \notin Running(d)
    <3>1. place'[j] = place[j]
      BY <2>1 DEF Die
    <3> QED
      BY <1>0, <2>1, <3>1
  <2>2. CASE j \in Running(d) /\ d = "redis" /\ tried[j] >= MaxRetry(TaskOf[j])
    BY <2>2 DEF Die, Places
  <2>3. CASE j \in Running(d) /\ ~(d = "redis" /\ tried[j] >= MaxRetry(TaskOf[j]))
    <3>1. place'[j] = d
      BY <2>3 DEF Die
    <3>2. d \in {"redis", "rabbitmq"}
      BY <2>0, <2>3 DEF Drivers
    <3> QED
      BY <2>3, <3>1, <3>2 DEF Places
  <2> QED
    BY <2>1, <2>2, <2>3
<1>6. tried' \in [Jobs -> Nat] /\ place' \in [Jobs -> Places]
  BY <1>4, <1>5 DEF Die
<1> QED
  BY <1>2, <1>3, <1>4, <1>5, <1>6

\* What the kafka writer may leave of a job.
Copies(j) == {[i \in 1..n |-> j] : n \in 1..Attempts}

\* The copies of a job behind a sequence of jobs, one or as many as there were tries.
LEMMA Appended ==
    ASSUME NEW j \in Jobs, NEW s \in Seq(Jobs), NEW c \in Copies(j)
    PROVE  /\ s \o c \in Seq(Jobs)
           /\ Len(s \o c) \in Len(s) + 1 .. Len(s) + Attempts /\ Len(s) \in Nat
           /\ DOMAIN s = 1..Len(s) /\ DOMAIN (s \o c) = 1..Len(s \o c)
           /\ \A i \in 1..Len(s) : (s \o c)[i] = s[i]
           /\ \A i \in 1..Len(s \o c) : i > Len(s) => (s \o c)[i] = j
<1>1. /\ c \in Seq(Jobs) /\ Len(c) \in 1..Attempts /\ \A i \in 1..Len(c) : c[i] = j
  <2>1. PICK n \in 1..Attempts : c = [i \in 1..n |-> j]
    BY DEF Copies
  <2>2. n \in Nat /\ DOMAIN c = 1..n /\ \A i \in 1..n : c[i] = j
    BY <2>1, JobAssumption
  <2>3. c \in [1..n -> Jobs]
    BY <2>1
  <2>4. c \in Seq(Jobs)
    BY <2>2, <2>3, IsASeq
  <2>5. Len(c) = n
    BY <2>2, <2>4, LenProperties
  <2> QED
    BY <2>1, <2>2, <2>4, <2>5
<1>2. /\ s \o c \in Seq(Jobs) /\ Len(s \o c) = Len(s) + Len(c)
      /\ \A i \in 1..Len(s) + Len(c) :
            (s \o c)[i] = IF i <= Len(s) THEN s[i] ELSE c[i - Len(s)]
  BY <1>1, ConcatProperties
<1>3. Len(s) \in Nat /\ DOMAIN s = 1..Len(s) /\ DOMAIN (s \o c) = 1..Len(s \o c)
  BY <1>2, LenProperties
<1>4. ASSUME NEW i \in 1..Len(s \o c), i > Len(s) PROVE (s \o c)[i] = j
  <2>1. i - Len(s) \in 1..Len(c) /\ ~(i <= Len(s)) /\ i \in 1..Len(s) + Len(c)
    BY <1>1, <1>2, <1>3, <1>4
  <2> QED
    BY <1>1, <1>2, <2>1
<1>5. \A i \in 1..Len(s) : (s \o c)[i] = s[i]
  BY <1>1, <1>2, <1>3
<1>6. Len(s \o c) \in Len(s) + 1 .. Len(s) + Attempts
  BY <1>1, <1>2, <1>3, JobAssumption
<1> QED
  BY <1>1, <1>2, <1>3, <1>4, <1>5, <1>6

\* Enqueueing a job.
LEMMA EnqueueTyped == TInv /\ API => TInv'
<1> SUFFICES ASSUME TInv, NEW j \in Jobs,
                    \/ EnqueueNowhere(j) \/ EnqueueRedis(j) \/ EnqueueRabbit(j)
                    \/ EnqueueKafka(j) \/ LoseKafka(j)
             PROVE  TInv'
  BY DEF API
<1>1. ASSUME NEW where \in Places, NEW reply \in {"none", "ok", "error"}, UNCHANGED log,
             Enqueued(j, where, reply)
      PROVE  TInv'
  <2>1. place' \in [Jobs -> Places] /\ answer' \in [Jobs -> {"none", "ok", "error"}]
    BY <1>1 DEF TInv, TypeOK, Enqueued
  <2> QED
    BY <1>1, <2>1 DEF TInv, TypeOK, Enqueued, history
<1>2. CASE EnqueueKafka(j)
  <2>1. PICK copies \in Copies(j), reply \in {"ok", "error"} :
           /\ log' = [log EXCEPT ![TaskOf[j]] = @ \o copies]
           /\ Enqueued(j, "log", reply)
    BY <1>2 DEF EnqueueKafka, Copies
  <2> DEFINE k == TaskOf[j]
  <2>2. k \in Tasks /\ log \in [Tasks -> Seq(Jobs)] /\ log[k] \in Seq(Jobs)
    BY TaskTypes DEF TInv
  <2>3. /\ log'[k] \in Seq(Jobs) /\ Len(log'[k]) > Len(log[k])
        /\ \A i \in DOMAIN log'[k] : TaskOf[log'[k][i]] = k
    <3> DEFINE old == log[k]
               new == old \o copies
    <3>1. log'[k] = new
      BY <2>1, <2>2
    <3>2. /\ new \in Seq(Jobs) /\ Len(new) \in Len(old) + 1 .. Len(old) + Attempts
          /\ Len(old) \in Nat
          /\ DOMAIN old = 1..Len(old) /\ DOMAIN new = 1..Len(new)
          /\ \A i \in 1..Len(old) : new[i] = old[i]
          /\ \A i \in 1..Len(new) : i > Len(old) => new[i] = j
      BY <2>2, Appended
    <3>3. \A i \in DOMAIN old : TaskOf[old[i]] = k
      BY <2>2 DEF TInv, TypeOK
    <3> HIDE DEF old, new
    <3>a. Len(old) \in Nat /\ Len(new) \in Nat /\ Len(new) > Len(old)
      BY <3>2, JobAssumption
    <3>4. ASSUME NEW i \in 1..Len(new) PROVE TaskOf[new[i]] = k
      <4>1. CASE i > Len(old)
        BY <3>2, <4>1
      <4>2. CASE ~(i > Len(old))
        <5>1. i \in 1..Len(old)
          BY <3>a, <4>2
        <5> QED
          BY <3>2, <3>3, <5>1
      <4> QED
        BY <4>1, <4>2
    <3>5. Len(new) > Len(old)
      BY <3>a
    <3>6. log'[k] \in Seq(Jobs) /\ \A i \in DOMAIN log'[k] : TaskOf[log'[k][i]] = k
      BY <3>1, <3>2, <3>4
    <3>7. Len(log'[k]) > Len(log[k])
      BY <3>1, <3>5 DEF old
    <3> QED
      BY <3>6, <3>7
  <2>4. log' \in [Tasks -> Seq(Jobs)] /\ \A t \in Tasks \ {k} : log'[t] = log[t]
    BY <2>1, <2>2, <2>3
  <2>5. place' \in [Jobs -> Places] /\ answer' \in [Jobs -> {"none", "ok", "error"}]
    BY <2>1 DEF TInv, TypeOK, Enqueued, Places
  <2>6. \A t \in Tasks : cursor[t] <= Len(log'[t])
    <3> SUFFICES ASSUME NEW t \in Tasks PROVE cursor[t] <= Len(log'[t])
      OBVIOUS
    <3>1. cursor[t] <= Len(log[t]) /\ cursor[t] \in Nat
      BY DEF TInv, TypeOK
    <3>2. Len(log[t]) \in Nat /\ Len(log'[t]) \in Nat
      BY <2>2, <2>4, LenProperties
    <3> QED
      BY <2>3, <2>4, <3>1, <3>2
  <2>7. hand # NoQueue => cursor[hand] < Len(log'[hand])
    <3> SUFFICES ASSUME hand # NoQueue PROVE cursor[hand] < Len(log'[hand])
      OBVIOUS
    <3>1. hand \in Tasks /\ cursor[hand] < Len(log[hand]) /\ cursor[hand] \in Nat
      BY DEF TInv, TypeOK
    <3>2. Len(log[hand]) \in Nat /\ Len(log'[hand]) \in Nat
      BY <2>2, <2>4, <3>1, LenProperties
    <3> QED
      BY <2>3, <2>4, <3>1, <3>2
  <2>8. /\ route' = route /\ mailer' = mailer /\ bound' = bound /\ worker' = worker
        /\ tried' = tried /\ cursor' = cursor /\ committed' = committed /\ hand' = hand
        /\ hung' = hung
        /\ handled' = handled /\ sent' = sent /\ failed' = failed /\ broken' = broken
        /\ restarts' = restarts
    BY <2>1 DEF Enqueued, history
  <2>9. TypeOK'
    <3>1. \A t \in Tasks : /\ \A i \in DOMAIN log'[t] : TaskOf[log'[t][i]] = t
                           /\ committed'[t] <= cursor'[t] /\ cursor'[t] <= Len(log'[t])
      BY <2>3, <2>4, <2>6, <2>8 DEF TInv, TypeOK
    <3> QED
      BY <2>5, <2>8, <3>1 DEF TInv, TypeOK
  <2> QED
    BY <2>4, <2>7, <2>8, <2>9 DEF TInv
<1>3. CASE EnqueueNowhere(j) \/ EnqueueRedis(j) \/ EnqueueRabbit(j) \/ LoseKafka(j)
  BY <1>1, <1>3 DEF EnqueueNowhere, EnqueueRedis, EnqueueRabbit, LoseKafka, Places
<1> QED
  BY <1>2, <1>3

\* A run that hangs leaves all else as it is.
LEMMA HangTyped ==
    ASSUME TInv, NEW j \in Jobs, Hang(j)
    PROVE  TInv'
  BY DEF Hang, TInv, TypeOK, history

\* Taking and finishing a job of redis or rabbitmq.
LEMMA DeliveryTyped ==
    ASSUME TInv, NEW j \in Jobs,
           (\E d \in Drivers : Take(d, j)) \/ FinishRedis(j) \/ FinishRabbit(j)
    PROVE  TInv'
<1>0. place \in [Jobs -> Places] /\ tried \in [Jobs -> Nat] /\ tried[j] <= MaxRetry(TaskOf[j])
  BY DEF TInv, TypeOK
<1>1. ASSUME NEW d \in Drivers, Take(d, j) PROVE TInv'
  <2>1. d # "kafka"
    BY <1>0, <1>1 DEF Take, Places
  <2>2. RunAt[d] \in Places
    BY <2>1, RunPlaces DEF Places, Drivers
  <2>3. place' \in [Jobs -> Places]
    BY <1>0, <1>1, <2>2 DEF Take
  <2> QED
    BY <1>1, <2>3 DEF Take, TInv, TypeOK, broker, history
<1>2. ASSUME NEW o \in Outcomes(j), Ran(j, o), UNCHANGED broker,
             place' \in [Jobs -> Places], tried' \in [Jobs -> Nat],
             \A i \in Jobs : tried'[i] <= MaxRetry(TaskOf[i])
      PROVE  TInv'
  BY <1>2, RanFacts DEF TInv, TypeOK, broker
<1>3. CASE FinishRedis(j)
  <2>1. PICK o \in Outcomes(j) :
           /\ Ran(j, o)
           /\ IF o.ok THEN place' = [place EXCEPT ![j] = "done"] /\ UNCHANGED tried
                      ELSE RetryOrArchive(j)
    BY <1>3 DEF FinishRedis
  <2>2. place' \in [Jobs -> Places]
    BY <1>0, <2>1 DEF RetryOrArchive, Places
  <2>3. tried' \in [Jobs -> Nat] /\ \A i \in Jobs : tried'[i] <= MaxRetry(TaskOf[i])
    <3>1. \A i \in Jobs : tried[i] <= MaxRetry(TaskOf[i])
      BY DEF TInv, TypeOK
    <3>2. CASE UNCHANGED tried
      BY <1>0, <3>1, <3>2
    <3>3. CASE tried[j] < MaxRetry(TaskOf[j]) /\ tried' = [tried EXCEPT ![j] = @ + 1]
      BY <1>0, <3>1, <3>3, TaskTypes
    <3> QED
      BY <2>1, <3>2, <3>3 DEF RetryOrArchive
  <2> QED
    BY <1>2, <1>3, <2>1, <2>2, <2>3 DEF FinishRedis
<1>4. CASE FinishRabbit(j)
  <2>1. PICK o \in Outcomes(j) :
           /\ Ran(j, o)
           /\ place' = [place EXCEPT ![j] = IF o.ok THEN "done" ELSE "discarded"]
    BY <1>4 DEF FinishRabbit
  <2>2. place' \in [Jobs -> Places]
    BY <1>0, <2>1 DEF Places
  <2>3. UNCHANGED <<tried, broker>>
    BY <1>4 DEF FinishRabbit
  <2> QED
    BY <1>2, <2>1, <2>2, <2>3 DEF TInv, TypeOK
<1> QED
  BY <1>1, <1>3, <1>4

\* Fetching and finishing a message of kafka.
LEMMA MessageTyped ==
    ASSUME TInv, (\E t \in Tasks : FetchKafka(t)) \/ FinishKafka
    PROVE  TInv'
<1>1. ASSUME NEW t \in Tasks, FetchKafka(t) PROVE TInv'
  BY <1>1 DEF FetchKafka, TInv, TypeOK, history
<1>2. CASE FinishKafka
  <2> DEFINE j == log[hand][cursor[hand] + 1]
  <2>0. /\ hand # NoQueue /\ hand \in Tasks /\ j \in Jobs /\ log[hand] \in Seq(Jobs)
        /\ cursor[hand] < Len(log[hand]) /\ cursor \in [Tasks -> Nat]
        /\ committed \in [Tasks -> Nat] /\ Len(log[hand]) \in Nat
    BY <1>2, RunningFacts, LenProperties DEF FinishKafka, TInv
  <2>1. PICK o \in Outcomes(j) : Ran(j, o)
    BY <1>2 DEF FinishKafka
  <2>2. /\ cursor' = [cursor EXCEPT ![hand] = @ + 1] /\ hand' = NoQueue
        /\ \/ committed' = [committed EXCEPT ![hand] = cursor[hand] + 1]
           \/ committed' = committed
        /\ UNCHANGED <<bound, place, tried, log, hung>>
    BY <1>2 DEF FinishKafka
  <2>3. \A t \in Tasks : committed[t] <= cursor[t] /\ cursor[t] <= Len(log[t])
    BY DEF TInv, TypeOK
  <2>4. cursor' \in [Tasks -> Nat] /\ committed' \in [Tasks -> Nat]
    BY <2>0, <2>2
  <2>5. \A t \in Tasks : committed'[t] <= cursor'[t] /\ cursor'[t] <= Len(log[t])
    BY <2>0, <2>2, <2>3
  <2> HIDE DEF j
  <2>6. TypeOK'
    BY <2>0, <2>1, <2>2, <2>5, RanFacts DEF TInv, TypeOK
  <2> QED
    BY <2>0, <2>1, <2>2, <2>4, <2>6, RanFacts DEF TInv
<1> QED
  BY <1>1, <1>2

\* The workers come up and are told to stop.
LEMMA WorkerTyped ==
    ASSUME TInv, StartRedis \/ StartRabbit \/ StartKafka
                 \/ \E d \in Drivers : Stop(d) \/ Exit(d)
    PROVE  TInv'
<1>1. ASSUME NEW d \in Drivers, Up(d) PROVE worker' \in [Drivers -> {"down", "up", "stopping", "deaf"}]
                                            /\ worker'["kafka"] # "deaf"
                                            /\ (d = "kafka" => hand = NoQueue)
                                            /\ (d # "kafka" => worker'["kafka"] = worker["kafka"])
  BY <1>1 DEF Up, TInv, TypeOK, Drivers
<1>2. CASE StartRedis \/ StartRabbit
  BY <1>1, <1>2 DEF StartRedis, StartRabbit, Up, TInv, TypeOK, Drivers, history
<1>3. CASE StartKafka
  <2>1. cursor' = committed /\ Up("kafka") /\ bound' = bound /\ hand = NoQueue
    BY <1>1, <1>3 DEF StartKafka, Drivers
  <2>2. \A t \in Tasks : committed[t] <= cursor'[t] /\ cursor'[t] <= Len(log[t])
    <3> SUFFICES ASSUME NEW t \in Tasks PROVE committed[t] <= committed[t] /\ committed[t] <= Len(log[t])
      BY <2>1
    <3>1. /\ committed[t] <= cursor[t] /\ cursor[t] <= Len(log[t]) /\ committed[t] \in Nat
          /\ cursor[t] \in Nat /\ Len(log[t]) \in Nat
      BY LenProperties DEF TInv, TypeOK
    <3> QED
      BY <3>1
  <2>3. TypeOK'
    BY <1>1, <2>1, <2>2 DEF Up, TInv, TypeOK, Drivers, history
  <2> QED
    BY <1>1, <2>1, <2>3 DEF Up, TInv, Drivers, history
<1>4. ASSUME NEW d \in Drivers, Stop(d) PROVE TInv'
  <2>1. /\ worker' \in [Drivers -> {"down", "up", "stopping", "deaf"}]
        /\ worker'["kafka"] # "deaf"
        /\ worker["kafka"] \in {"up", "stopping"} => worker'["kafka"] \in {"up", "stopping"}
    BY <1>4 DEF Stop, TInv, TypeOK, Drivers
  <2> QED
    BY <1>4, <2>1 DEF Stop, TInv, TypeOK, broker, history
<1>5. ASSUME NEW d \in Drivers, Exit(d) PROVE TInv'
  <2>1. /\ worker' \in [Drivers -> {"down", "up", "stopping", "deaf"}]
        /\ worker'["kafka"] # "deaf"
        /\ hand # NoQueue => worker'["kafka"] = worker["kafka"]
    BY <1>5 DEF Exit, TInv, TypeOK, Drivers
  <2>2. place' \in [Jobs -> Places]
    BY <1>5, RunningFacts DEF Exit, TInv, TypeOK, Places, Drivers
  <2>3. broken' \in [Jobs -> Nat]
    BY <1>5 DEF Exit, TInv
  <2>4. sent' \in [Jobs -> Nat]
    BY <1>5, MailsLeftFacts DEF Exit
  <2> QED
    BY <1>5, <2>1, <2>2, <2>3, <2>4 DEF Exit, TInv, TypeOK, broker
<1> QED
  BY <1>2, <1>3, <1>4, <1>5

\* A process or its connection dies.
LEMMA DeathTyped ==
    ASSUME TInv, Disconnect \/ \E d \in Drivers : Crash(d) \/ Kill(d)
    PROVE  TInv'
<1>1. ASSUME NEW d \in Drivers, NEW s \in {"down", "deaf"}, s = "deaf" => d = "rabbitmq",
             Die(d, s), restarts' \in Nat
      PROVE  TInv'
  <2>1. /\ sent' \in [Jobs -> Nat] /\ broken' \in [Jobs -> Nat] /\ tried' \in [Jobs -> Nat]
        /\ place' \in [Jobs -> Places]
    BY <1>1, DieFacts
  <2>2. \A j \in Jobs : tried'[j] <= MaxRetry(TaskOf[j])
    <3> SUFFICES ASSUME NEW j \in Jobs PROVE tried'[j] <= MaxRetry(TaskOf[j])
      OBVIOUS
    <3>1. tried[j] <= MaxRetry(TaskOf[j]) /\ tried[j] \in Nat /\ MaxRetry(TaskOf[j]) \in Nat
      BY TaskTypes DEF TInv, TypeOK
    <3>2. tried'[j] = tried[j] \/ (tried'[j] = tried[j] + 1 /\ ~(tried[j] >= MaxRetry(TaskOf[j])))
      BY <1>1, DieFacts
    <3> QED
      BY <3>1, <3>2
  <2>3. /\ worker' \in [Drivers -> {"down", "up", "stopping", "deaf"}]
        /\ worker'["kafka"] # "deaf"
        /\ hand' = IF d = "kafka" THEN NoQueue ELSE hand
        /\ hung' \subseteq Jobs
        /\ d # "kafka" => worker'["kafka"] = worker["kafka"]
    BY <1>1 DEF Die, TInv, TypeOK, Drivers
  <2>4. TypeOK'
    BY <1>1, <2>1, <2>2, <2>3 DEF Die, TInv, TypeOK
  <2> QED
    BY <1>1, <2>1, <2>3, <2>4 DEF Die, TInv
<1>2. restarts \in Nat
  BY DEF TInv
<1> QED
  BY <1>1, <1>2 DEF Disconnect, Crash, Kill, Drivers

\* Every step leaves the state well typed.
LEMMA NextTyped == TInv /\ [Next]_vars => TInv'
<1>1. ASSUME TInv, UNCHANGED vars PROVE TInv'
  BY <1>1 DEF vars, TInv, TypeOK
<1> QED
  BY <1>1, EnqueueTyped, HangTyped, DeliveryTyped, MessageTyped, WorkerTyped, DeathTyped DEF Next, Work

\* The counters, the logs and the workers stay well typed.
LEMMA Typed == Spec => []TInv
  BY InitTyped, NextTyped, PTL DEF Spec

\* Jobs are where the model has places for them, a job is on the partition of
\* its task type, offsets are in their order, and asynq's counter in its bound.
THEOREM QueueTypeCorrect == Spec => []TypeOK
<1>1. TInv => TypeOK
  BY DEF TInv
<1> QED
  BY <1>1, Typed, PTL

-----------------------------------------------------------------------------
(* What a step may do to a job *)

\* The backend a job goes to.
Backend(j) == route[TaskOf[j]]

\* Nothing happens to the job.
Still(j) ==
    /\ place'[j] = place[j] /\ answer'[j] = answer[j] /\ tried'[j] = tried[j]
    /\ handled'[j] = handled[j] /\ failed'[j] = failed[j] /\ broken'[j] = broken[j]
    /\ sent'[j] <= sent[j]

\* It is enqueued on the backend of its task type, skipped, refused or dropped.
Posted(j) ==
    /\ place[j] = "new"
    /\ \/ place'[j] \in {"skipped", "refused"} /\ answer'[j] # "ok"
       \/ place'[j] \in {"redis", "rabbitmq"} /\ Backend(j) = place'[j]
       \/ place'[j] = "dropped" /\ Backend(j) \in {"rabbitmq", "kafka"}
       \/ place'[j] = "log" /\ Backend(j) = "kafka" /\ EnqueueKafka(j)
    /\ tried'[j] = tried[j] /\ handled'[j] = handled[j] /\ failed'[j] = failed[j]
    /\ broken'[j] = broken[j] /\ sent'[j] = sent[j]

\* A worker takes it.
Taken(j) ==
    /\ \/ place[j] = "redis" /\ place'[j] = "redis-run"
       \/ place[j] = "rabbitmq" /\ place'[j] = "rabbitmq-run"
    /\ answer'[j] = answer[j] /\ tried'[j] = tried[j]
    /\ handled'[j] = handled[j] /\ failed'[j] = failed[j]
    /\ broken'[j] = broken[j] /\ sent'[j] = sent[j]

\* A handler has run it.
Returned(j) ==
    /\ answer'[j] = answer[j] /\ broken'[j] = broken[j] /\ sent'[j] <= sent[j] + 1
    /\ \/ /\ handled'[j] = handled[j] + 1 /\ failed'[j] = failed[j] /\ tried'[j] = tried[j]
          /\ \/ place[j] \in {"redis-run", "rabbitmq-run"} /\ place'[j] = "done"
             \/ place[j] = "log" /\ place'[j] = "log"
       \/ /\ handled'[j] = handled[j] /\ failed'[j] = failed[j] + 1
          /\ \/ /\ place[j] = "redis-run" /\ place'[j] = "redis" /\ tried'[j] = tried[j] + 1
             \/ /\ place[j] = "redis-run" /\ place'[j] = "archived" /\ tried'[j] = tried[j]
                /\ tried[j] >= MaxRetry(TaskOf[j])
             \/ /\ place[j] = "rabbitmq-run" /\ place'[j] = "discarded" /\ tried'[j] = tried[j]
             \/ /\ place[j] = "log" /\ place'[j] = "log" /\ tried'[j] = tried[j]

\* The end of its worker cuts its run.
CutOff(j) ==
    /\ answer'[j] = answer[j] /\ handled'[j] = handled[j] /\ failed'[j] = failed[j]
    /\ broken'[j] = broken[j] + 1 /\ sent'[j] <= sent[j] + 1
    /\ \/ place[j] = "redis-run" /\ place'[j] = "redis" /\ tried'[j] \in {tried[j], tried[j] + 1}
       \/ /\ place[j] = "redis-run" /\ place'[j] = "archived" /\ tried'[j] = tried[j]
          /\ tried[j] >= MaxRetry(TaskOf[j])
       \/ place[j] = "rabbitmq-run" /\ place'[j] = "rabbitmq" /\ tried'[j] = tried[j]
       \/ place[j] = "log" /\ place'[j] = "log" /\ tried'[j] = tried[j]

\* Any of these.
JobStep(j) == Still(j) \/ Posted(j) \/ Taken(j) \/ Returned(j) \/ CutOff(j)

\* What is in a log is nowhere else.
LogPlaces == \A t \in Tasks : \A i \in 1..Len(log[t]) : place[log[t][i]] = "log"

\* Enqueueing is one of them.
LEMMA EnqueueStep ==
    ASSUME TInv, API, NEW j \in Jobs
    PROVE  JobStep(j)
<1>1. PICK i \in Jobs :
         \/ EnqueueNowhere(i) \/ EnqueueRedis(i) \/ EnqueueRabbit(i)
         \/ EnqueueKafka(i) \/ LoseKafka(i)
  BY DEF API
<1>2. PICK where \in Places, reply \in {"none", "ok", "error"} :
         /\ Enqueued(i, where, reply) /\ place[i] = "new"
         /\ \/ where \in {"skipped", "refused"} /\ reply # "ok"
            \/ where \in {"redis", "rabbitmq"} /\ Backend(i) = where
            \/ where = "dropped" /\ Backend(i) \in {"rabbitmq", "kafka"}
            \/ where = "log" /\ Backend(i) = "kafka" /\ EnqueueKafka(i)
  <2>1. CASE EnqueueNowhere(i)
    BY <2>1 DEF EnqueueNowhere, Places
  <2>2. CASE EnqueueRedis(i)
    BY <2>2 DEF EnqueueRedis, Places, Backend
  <2>3. CASE EnqueueRabbit(i)
    BY <2>3 DEF EnqueueRabbit, Places, Backend
  <2>4. CASE EnqueueKafka(i)
    BY <2>4 DEF EnqueueKafka, Places, Backend
  <2>5. CASE LoseKafka(i)
    BY <2>5 DEF LoseKafka, Places, Backend
  <2> QED
    BY <1>1, <2>1, <2>2, <2>3, <2>4, <2>5
<1>3. /\ place \in [Jobs -> Places] /\ answer \in [Jobs -> {"none", "ok", "error"}]
      /\ sent \in [Jobs -> Nat]
  BY DEF TInv, TypeOK
<1>4. /\ tried' = tried /\ handled' = handled /\ failed' = failed /\ broken' = broken
      /\ sent' = sent
      /\ place' = [place EXCEPT ![i] = where] /\ answer' = [answer EXCEPT ![i] = reply]
  BY <1>2 DEF Enqueued, history
<1>5. CASE i = j
  BY <1>2, <1>3, <1>4, <1>5 DEF JobStep, Posted
<1>6. CASE i # j
  BY <1>3, <1>4, <1>6 DEF JobStep, Still
<1> QED
  BY <1>5, <1>6

\* Taking and finishing a job of redis or rabbitmq is one of them.
LEMMA DeliveryStep ==
    ASSUME TInv, NEW i \in Jobs,
           (\E d \in Drivers : Take(d, i)) \/ FinishRedis(i) \/ FinishRabbit(i),
           NEW j \in Jobs
    PROVE  JobStep(j)
<1>0. /\ place \in [Jobs -> Places] /\ tried \in [Jobs -> Nat] /\ sent \in [Jobs -> Nat]
      /\ tried[i] \in Nat /\ MaxRetry(TaskOf[i]) \in Nat
  BY TaskTypes DEF TInv, TypeOK
<1>1. ASSUME NEW d \in Drivers, Take(d, i) PROVE JobStep(j)
  <2>1. /\ \/ place[i] = "redis" /\ place' = [place EXCEPT ![i] = "redis-run"]
           \/ place[i] = "rabbitmq" /\ place' = [place EXCEPT ![i] = "rabbitmq-run"]
        /\ UNCHANGED <<tried, answer, handled, sent, failed, broken>>
    BY <1>0, <1>1, RunPlaces DEF Take, Places, Drivers, history
  <2>2. CASE i = j
    BY <1>0, <2>1, <2>2 DEF JobStep, Taken
  <2>3. CASE i # j
    BY <1>0, <2>1, <2>3 DEF JobStep, Still
  <2> QED
    BY <2>2, <2>3
<1>2. CASE FinishRedis(i)
  <2>1. PICK o \in Outcomes(i) :
           /\ Ran(i, o)
           /\ IF o.ok THEN place' = [place EXCEPT ![i] = "done"] /\ UNCHANGED tried
                      ELSE RetryOrArchive(i)
    BY <1>2 DEF FinishRedis
  <2>2. place[i] = "redis-run"
    BY <1>2 DEF FinishRedis
  <2>3. CASE i = j
    <3>1. CASE o.ok
      BY <1>0, <2>1, <2>2, <2>3, <3>1, RanFacts DEF JobStep, Returned
    <3>2. CASE ~o.ok
      <4>1. \/ place'[j] = "redis" /\ tried'[j] = tried[j] + 1
            \/ place'[j] = "archived" /\ tried'[j] = tried[j] /\ tried[j] >= MaxRetry(TaskOf[j])
        BY <1>0, <2>1, <2>3, <3>2 DEF RetryOrArchive
      <4> QED
        BY <2>1, <2>2, <2>3, <3>2, <4>1, RanFacts DEF JobStep, Returned
    <3> QED
      BY <3>1, <3>2
  <2>4. CASE i # j
    <3>1. place'[j] = place[j] /\ tried'[j] = tried[j]
      BY <1>0, <2>1, <2>4 DEF RetryOrArchive
    <3> QED
      BY <1>0, <2>1, <2>4, <3>1, RanFacts DEF JobStep, Still
  <2> QED
    BY <2>3, <2>4
<1>3. CASE FinishRabbit(i)
  <2>1. PICK o \in Outcomes(i) :
           /\ Ran(i, o)
           /\ place' = [place EXCEPT ![i] = IF o.ok THEN "done" ELSE "discarded"]
    BY <1>3 DEF FinishRabbit
  <2>2. place[i] = "rabbitmq-run" /\ tried' = tried
    BY <1>3 DEF FinishRabbit
  <2>3. CASE i = j
    BY <1>0, <2>1, <2>2, <2>3, RanFacts DEF JobStep, Returned
  <2>4. CASE i # j
    <3>1. place'[j] = place[j]
      BY <1>0, <2>1, <2>4
    <3> QED
      BY <1>0, <2>1, <2>2, <2>4, <3>1, RanFacts DEF JobStep, Still
  <2> QED
    BY <2>3, <2>4
<1> QED
  BY <1>1, <1>2, <1>3

\* So is handling a message of kafka.
LEMMA MessageStep ==
    ASSUME TInv, LogPlaces, FinishKafka, NEW j \in Jobs
    PROVE  JobStep(j)
<1> DEFINE i == log[hand][cursor[hand] + 1]
<1>1. i \in Jobs /\ place[i] = "log"
  BY RunningFacts DEF FinishKafka, LogPlaces
<1>2. PICK o \in Outcomes(i) : Ran(i, o)
  BY DEF FinishKafka
<1>3. place' = place /\ tried' = tried /\ sent \in [Jobs -> Nat]
  BY DEF FinishKafka, TInv
<1> HIDE DEF i
<1>4. CASE i = j
  BY <1>1, <1>2, <1>3, <1>4, RanFacts DEF JobStep, Returned
<1>5. CASE i # j
  BY <1>1, <1>2, <1>3, <1>5, RanFacts DEF JobStep, Still
<1> QED
  BY <1>4, <1>5

\* And the end of a worker.
LEMMA DeathStep ==
    ASSUME TInv, LogPlaces, NEW d \in Drivers, Exit(d) \/ \E s : Die(d, s), NEW j \in Jobs
    PROVE  JobStep(j)
<1>0. /\ place \in [Jobs -> Places] /\ tried \in [Jobs -> Nat] /\ sent \in [Jobs -> Nat]
      /\ broken \in [Jobs -> Nat] /\ MaxRetry(TaskOf[j]) \in Nat
  BY TaskTypes DEF TInv, TypeOK
<1>1. CASE Exit(d)
  <2>1. d \in {"redis", "kafka"}
    BY <1>1 DEF Exit, Drivers
  <2>2. CASE j \in Running(d)
    <3>1. d = "redis" /\ place[j] = "redis-run"
      BY <2>1, <2>2, RunningFacts
    <3>2. place'[j] = "redis" /\ broken'[j] = broken[j] + 1
      BY <1>1, <2>2, <3>1 DEF Exit
    <3>3. sent'[j] <= sent[j] + 1
      BY <1>1, <2>2, MailsLeftFacts DEF Exit
    <3> QED
      BY <1>0, <1>1, <3>1, <3>2, <3>3 DEF Exit, JobStep, CutOff
  <2>3. CASE j \notin Running(d)
    <3>1. place'[j] = place[j] /\ broken'[j] = broken[j]
      BY <1>0, <1>1, <2>3 DEF Exit
    <3>2. sent'[j] <= sent[j]
      BY <1>0, <1>1, <2>3, MailsLeftFacts DEF Exit
    <3> QED
      BY <1>0, <1>1, <3>1, <3>2 DEF Exit, JobStep, Still
  <2> QED
    BY <2>2, <2>3
<1>2. ASSUME NEW s, Die(d, s) PROVE JobStep(j)
  <2>0. /\ answer'[j] = answer[j] /\ handled'[j] = handled[j] /\ failed'[j] = failed[j]
    BY <1>2 DEF Die
  <2>1. /\ sent'[j] <= sent[j] + (IF j \in Cut(d) THEN 1 ELSE 0)
        /\ broken'[j] = broken[j] + (IF j \in Cut(d) THEN 1 ELSE 0)
        /\ j \notin Running(d) => place'[j] = place[j] /\ tried'[j] = tried[j]
        /\ j \in Running(d) /\ d # "redis" => place'[j] = d /\ tried'[j] = tried[j]
        /\ j \in Running(d) /\ d = "redis" =>
              IF tried[j] >= MaxRetry(TaskOf[j])
              THEN place'[j] = "archived" /\ tried'[j] = tried[j]
              ELSE place'[j] = "redis" /\ tried'[j] = tried[j] + 1
    BY <1>2, DieFacts
  <2>2. CASE j \notin Cut(d)
    <3>1. j \notin Running(d)
      BY <2>2 DEF Cut
    <3> QED
      BY <1>0, <2>0, <2>1, <2>2, <3>1 DEF JobStep, Still
  <2>3. CASE j \in Cut(d) /\ d = "kafka"
    <3>1. j \notin Running(d) /\ place[j] = "log"
      BY <2>3, CutFacts, RunningFacts DEF LogPlaces
    <3> QED
      BY <2>0, <2>1, <2>3, <3>1 DEF JobStep, CutOff
  <2>4. CASE j \in Cut(d) /\ d = "redis"
    <3>1. j \in Running(d) /\ place[j] = "redis-run"
      BY <2>4, CutFacts, RunningFacts
    <3> QED
      BY <2>0, <2>1, <2>4, <3>1 DEF JobStep, CutOff
  <2>5. CASE j \in Cut(d) /\ d = "rabbitmq"
    <3>1. j \in Running(d) /\ place[j] = "rabbitmq-run"
      BY <2>5, CutFacts, RunningFacts
    <3> QED
      BY <2>0, <2>1, <2>5, <3>1 DEF JobStep, CutOff
  <2> QED
    BY <2>2, <2>3, <2>4, <2>5 DEF Drivers
<1> QED
  BY <1>1, <1>2

\* Every step does one of these things to each job, and the routes are fixed.
LEMMA NextStep ==
    ASSUME TInv, LogPlaces, [Next]_vars, NEW j \in Jobs
    PROVE  JobStep(j) /\ route' = route /\ Backend(j)' = Backend(j)
<1> SUFFICES JobStep(j) /\ route' = route
  BY DEF Backend
<1>1. ASSUME route' = route, place' = place, tried' = tried, answer' = answer, UNCHANGED history
      PROVE  JobStep(j) /\ route' = route
  <2>1. sent[j] \in Nat
    BY DEF TInv
  <2> QED
    BY <1>1, <2>1 DEF JobStep, Still, history
<1>2. CASE API
  BY <1>2, EnqueueStep
     DEF API, EnqueueNowhere, EnqueueRedis, EnqueueRabbit, EnqueueKafka, LoseKafka, Enqueued
<1>3. ASSUME NEW i \in Jobs, (\E d \in Drivers : Take(d, i)) \/ FinishRedis(i) \/ FinishRabbit(i)
      PROVE  JobStep(j) /\ route' = route
  BY <1>3, DeliveryStep DEF Take, FinishRedis, FinishRabbit, Ran
<1>4. CASE FinishKafka
  BY <1>4, MessageStep DEF FinishKafka, Ran
<1>5. ASSUME NEW d \in Drivers, Exit(d) \/ \E s : Die(d, s) PROVE JobStep(j) /\ route' = route
  BY <1>5, DeathStep DEF Exit, Die
<1>6. ASSUME NEW t \in Tasks, FetchKafka(t) PROVE JobStep(j) /\ route' = route
  BY <1>1, <1>6 DEF FetchKafka
<1>13. ASSUME NEW i \in Jobs, Hang(i) PROVE JobStep(j) /\ route' = route
  BY <1>1, <1>13 DEF Hang
<1>7. CASE StartRedis \/ StartRabbit \/ StartKafka
  BY <1>1, <1>7 DEF StartRedis, StartRabbit, StartKafka, Up
<1>8. ASSUME NEW d \in Drivers, Stop(d) PROVE JobStep(j) /\ route' = route
  BY <1>1, <1>8 DEF Stop
<1>9. ASSUME UNCHANGED vars PROVE JobStep(j) /\ route' = route
  BY <1>1, <1>9 DEF vars, history
<1>10. ASSUME NEW d \in Drivers, Crash(d) \/ Kill(d) PROVE JobStep(j) /\ route' = route
  BY <1>5, <1>10 DEF Crash, Kill
<1>11. CASE Disconnect
  BY <1>5, <1>11 DEF Disconnect, Drivers
<1>12. CASE Work
  BY <1>3, <1>4, <1>6, <1>12, <1>13 DEF Work
<1> QED
  BY <1>2, <1>12, <1>5, <1>7, <1>8, <1>9, <1>10, <1>11 DEF Next

\* The logs grow only by what is enqueued on kafka.
LEMMA LogStep ==
    ASSUME TInv, [Next]_vars
    PROVE  \/ log' = log
           \/ \E j \in Jobs : EnqueueKafka(j)
<1>1. API => log' = log \/ \E j \in Jobs : EnqueueKafka(j)
  BY DEF API, EnqueueNowhere, EnqueueRedis, EnqueueRabbit, LoseKafka
<1>2. Work => log' = log
  BY DEF Work, Take, FinishRedis, FinishRabbit, Hang, FetchKafka, FinishKafka, broker
<1>3. StartRedis \/ StartRabbit \/ StartKafka => log' = log
  BY DEF StartRedis, StartRabbit, StartKafka, Up
<1>4. ASSUME NEW d \in Drivers, Stop(d) \/ Exit(d) \/ Crash(d) \/ Kill(d) PROVE log' = log
  BY <1>4 DEF Stop, Exit, Crash, Kill, Die, broker
<1>5. Disconnect => log' = log
  BY DEF Disconnect, Die
<1>6. UNCHANGED vars => log' = log
  BY DEF vars
<1> QED
  BY <1>1, <1>2, <1>3, <1>4, <1>5, <1>6 DEF Next

\* What enqueueing on kafka does to the logs.
LEMMA LogGrows ==
    ASSUME TInv, NEW j \in Jobs, EnqueueKafka(j)
    PROVE  /\ place[j] = "new" /\ place'[j] = "log"
           /\ \A t \in Tasks \ {TaskOf[j]} : log'[t] = log[t]
           /\ Len(log'[TaskOf[j]]) \in Len(log[TaskOf[j]]) + 1 .. Len(log[TaskOf[j]]) + Attempts
           /\ Len(log[TaskOf[j]]) \in Nat
           /\ \A i \in 1..Len(log[TaskOf[j]]) : log'[TaskOf[j]][i] = log[TaskOf[j]][i]
           /\ \A i \in 1..Len(log'[TaskOf[j]]) :
                 i > Len(log[TaskOf[j]]) => log'[TaskOf[j]][i] = j
<1>1. PICK copies \in Copies(j), reply \in {"ok", "error"} :
         /\ log' = [log EXCEPT ![TaskOf[j]] = @ \o copies]
         /\ Enqueued(j, "log", reply)
  BY DEF EnqueueKafka, Copies
<1>2. /\ TaskOf[j] \in Tasks /\ log \in [Tasks -> Seq(Jobs)] /\ log[TaskOf[j]] \in Seq(Jobs)
      /\ place \in [Jobs -> Places]
  BY TaskTypes DEF TInv, TypeOK
<1>3. log'[TaskOf[j]] = log[TaskOf[j]] \o copies
  BY <1>1, <1>2
<1>4. \A t \in Tasks \ {TaskOf[j]} : log'[t] = log[t]
  BY <1>1, <1>2
<1>5. place[j] = "new" /\ place'[j] = "log"
  BY <1>1, <1>2 DEF EnqueueKafka, Enqueued
<1>6. ASSUME NEW s \in Seq(Jobs)
      PROVE  /\ Len(s \o copies) \in Len(s) + 1 .. Len(s) + Attempts /\ Len(s) \in Nat
             /\ \A i \in 1..Len(s) : (s \o copies)[i] = s[i]
             /\ \A i \in 1..Len(s \o copies) : i > Len(s) => (s \o copies)[i] = j
  BY Appended
<1>7. log[TaskOf[j]] \in Seq(Jobs)
  BY <1>2
<1> QED
  BY <1>3, <1>4, <1>5, <1>6, <1>7

\* A job once in the log is nowhere else.
LEMMA LogPlacesStep ==
    ASSUME TInv, TInv', LogPlaces, [Next]_vars
    PROVE  LogPlaces'
<1> SUFFICES ASSUME NEW t \in Tasks, NEW i \in 1..Len(log'[t])
             PROVE  place'[log'[t][i]] = "log"
  BY DEF LogPlaces
<1>1. /\ log[t] \in Seq(Jobs) /\ log'[t] \in Seq(Jobs)
      /\ Len(log[t]) \in Nat /\ Len(log'[t]) \in Nat
  BY LenProperties DEF TInv
<1>2. ASSUME NEW m \in 1..Len(log[t]) PROVE place'[log[t][m]] = "log"
  <2>1. log[t][m] \in Jobs /\ place[log[t][m]] = "log"
    BY <1>1, ElementOfSeq DEF LogPlaces
  <2>2. JobStep(log[t][m])
    BY <2>1, NextStep
  <2> QED
    BY <2>1, <2>2 DEF JobStep, Still, Posted, Taken, Returned, CutOff
<1>3. CASE log' = log
  BY <1>2, <1>3
<1>4. ASSUME NEW j \in Jobs, EnqueueKafka(j) PROVE place'[log'[t][i]] = "log"
  <2>1. CASE t # TaskOf[j]
    BY <1>2, <1>4, <2>1, LogGrows
  <2>2. CASE t = TaskOf[j] /\ i > Len(log[t])
    BY <1>4, <2>2, LogGrows
  <2>3. CASE t = TaskOf[j] /\ ~(i > Len(log[t]))
    <3>1. i \in 1..Len(log[t])
      BY <1>1, <2>3
    <3> QED
      BY <1>2, <1>4, <2>3, <3>1, LogGrows
  <2> QED
    BY <2>1, <2>2, <2>3
<1> QED
  BY <1>3, <1>4, LogStep

-----------------------------------------------------------------------------
(* What each backend knows of a job *)

\* A job is only where the backend of its task type puts it, and nothing has
\* run it before it is enqueued.
PlaceSound(j) ==
    /\ place[j] \in {"new", "skipped", "refused"} => answer[j] # "ok"
    /\ place[j] \in {"new", "skipped", "refused", "dropped"} =>
          handled[j] = 0 /\ failed[j] = 0 /\ sent[j] = 0 /\ tried[j] = 0 /\ broken[j] = 0
    /\ place[j] \in {"redis", "redis-run", "archived"} => Backend(j) = "redis"
    /\ place[j] \in {"rabbitmq", "rabbitmq-run", "discarded"} => Backend(j) = "rabbitmq"
    /\ place[j] = "dropped" => Backend(j) \in {"rabbitmq", "kafka"}
    /\ place[j] = "done" => Backend(j) \in {"redis", "rabbitmq"} /\ handled[j] > 0
    /\ place[j] = "log" => Backend(j) = "kafka"

\* asynq ends a job with its first success, counts every failure as a try and
\* every try as a failure or a crash, and archives when the tries are used up.
RedisSound(j) ==
    Backend(j) = "redis" =>
        /\ sent[j] <= handled[j] + failed[j] + broken[j]
        /\ handled[j] <= IF place[j] = "done" THEN 1 ELSE 0
        /\ failed[j] <= IF place[j] = "archived" THEN tried[j] + 1 ELSE tried[j]
        /\ tried[j] <= failed[j] + broken[j]
        /\ place[j] = "archived" => failed[j] + broken[j] > MaxRetry(TaskOf[j])

\* rabbitmq runs a job until a handler returns, and once more for every cut.
RabbitSound(j) ==
    Backend(j) = "rabbitmq" =>
        /\ sent[j] <= broken[j] + (IF place[j] \in {"done", "discarded"} THEN 1 ELSE 0)
        /\ place[j] = "discarded" => failed[j] > 0

\* What each backend knows of its jobs.
JobsSound == \A j \in Jobs : PlaceSound(j) /\ RedisSound(j) /\ RabbitSound(j)

\* Each step keeps what the backend knows of a job.
LEMMA JobStepSound ==
    ASSUME TInv, TInv', NEW j \in Jobs, JobStep(j), Backend(j)' = Backend(j),
           PlaceSound(j), RedisSound(j), RabbitSound(j)
    PROVE  PlaceSound(j)' /\ RedisSound(j)' /\ RabbitSound(j)'
<1>0. /\ handled[j] \in Nat /\ sent[j] \in Nat /\ failed[j] \in Nat /\ broken[j] \in Nat
      /\ tried[j] \in Nat /\ handled'[j] \in Nat /\ sent'[j] \in Nat /\ failed'[j] \in Nat
      /\ broken'[j] \in Nat /\ tried'[j] \in Nat /\ MaxRetry(TaskOf[j]) \in Nat
      /\ place[j] \in Places /\ place'[j] \in Places
      /\ tried[j] <= MaxRetry(TaskOf[j])
  BY TaskTypes DEF TInv, TypeOK
<1>1. CASE Still(j)
  BY <1>0, <1>1 DEF Still, PlaceSound, RedisSound, RabbitSound
<1>2. CASE Posted(j)
  BY <1>0, <1>2 DEF Posted, PlaceSound, RedisSound, RabbitSound
<1>3. CASE Taken(j)
  BY <1>0, <1>3 DEF Taken, PlaceSound, RedisSound, RabbitSound
<1>4. CASE Returned(j)
  <2>1. PlaceSound(j)'
    BY <1>0, <1>4 DEF Returned, PlaceSound
  <2>2. RedisSound(j)'
    BY <1>0, <1>4 DEF Returned, PlaceSound, RedisSound
  <2>3. RabbitSound(j)'
    BY <1>0, <1>4 DEF Returned, PlaceSound, RabbitSound
  <2> QED
    BY <2>1, <2>2, <2>3
<1>5. CASE CutOff(j)
  <2>1. PlaceSound(j)'
    BY <1>0, <1>5 DEF CutOff, PlaceSound
  <2>2. RedisSound(j)'
    BY <1>0, <1>5 DEF CutOff, PlaceSound, RedisSound
  <2>3. RabbitSound(j)'
    BY <1>0, <1>5 DEF CutOff, PlaceSound, RabbitSound
  <2> QED
    BY <2>1, <2>2, <2>3
<1> QED
  BY <1>1, <1>2, <1>3, <1>4, <1>5 DEF JobStep

\* Whatever is stopped, cut and retried, each job is where its backend has put
\* it, with the runs that its place tells of.
LEMMA Placed == Spec => [](LogPlaces /\ JobsSound)
<1>1. Init => LogPlaces /\ JobsSound
  <2> SUFFICES ASSUME Init PROVE LogPlaces /\ JobsSound
    OBVIOUS
  <2>1. LogPlaces
    BY EmptySeq DEF Init, LogPlaces
  <2>2. JobsSound
    BY DEF Init, JobsSound, PlaceSound, RedisSound, RabbitSound
  <2> QED
    BY <2>1, <2>2
<1>2. TInv /\ TInv' /\ LogPlaces /\ JobsSound /\ [Next]_vars => (LogPlaces /\ JobsSound)'
  BY NextStep, LogPlacesStep, JobStepSound DEF JobsSound
<1> QED
  BY <1>1, <1>2, Typed, PTL DEF Spec

-----------------------------------------------------------------------------
(* kafka: the log and the cursor *)

\* What has been read was run: a message behind the cursor had its handler
\* return, whether or not its offset was committed.
LogRun ==
    \A t \in Tasks : \A i \in 1..Len(log[t]) :
        i <= cursor[t] => handled[log[t][i]] + failed[log[t][i]] > 0

\* Only the end of a handler moves a cursor, and a start puts it back.
LEMMA CursorStep ==
    ASSUME TInv, [Next]_vars
    PROVE  \/ cursor' = cursor
           \/ FinishKafka
           \/ StartKafka /\ cursor' = committed
<1>1. API => cursor' = cursor
  BY DEF API, EnqueueNowhere, EnqueueRedis, EnqueueRabbit, EnqueueKafka, LoseKafka, Enqueued
<1>2. Work => cursor' = cursor \/ FinishKafka
  BY DEF Work, Take, FinishRedis, FinishRabbit, Hang, FetchKafka, broker
<1>3. StartRedis \/ StartRabbit => cursor' = cursor
  BY DEF StartRedis, StartRabbit
<1>4. StartKafka => cursor' = committed
  BY DEF StartKafka
<1>5. ASSUME NEW d \in Drivers, Stop(d) \/ Exit(d) \/ Crash(d) \/ Kill(d) PROVE cursor' = cursor
  BY <1>5 DEF Stop, Exit, Crash, Kill, Die, broker
<1>6. Disconnect => cursor' = cursor
  BY DEF Disconnect, Die
<1>7. UNCHANGED vars => cursor' = cursor
  BY DEF vars
<1> QED
  BY <1>1, <1>2, <1>3, <1>4, <1>5, <1>6, <1>7 DEF Next

\* A read message stays one that was run.
LEMMA LogRunStep ==
    ASSUME TInv, TInv', LogPlaces, LogRun, [Next]_vars
    PROVE  LogRun'
<1> SUFFICES ASSUME NEW t \in Tasks, NEW i \in 1..Len(log'[t]), i <= cursor'[t]
             PROVE  handled'[log'[t][i]] + failed'[log'[t][i]] > 0
  BY DEF LogRun
<1>1. /\ log[t] \in Seq(Jobs) /\ Len(log[t]) \in Nat /\ Len(log'[t]) \in Nat
      /\ cursor[t] \in Nat /\ committed[t] \in Nat /\ cursor'[t] \in Nat
      /\ cursor[t] <= Len(log[t]) /\ committed[t] <= cursor[t]
  BY LenProperties DEF TInv, TypeOK
<1>2. ASSUME NEW m \in 1..Len(log[t]), m <= cursor[t]
      PROVE  handled'[log[t][m]] + failed'[log[t][m]] > 0
  <2> DEFINE j == log[t][m]
  <2>1. j \in Jobs /\ handled[j] + failed[j] > 0
    BY <1>1, <1>2, ElementOfSeq DEF LogRun
  <2> HIDE DEF j
  <2>2. JobStep(j)
    BY <2>1, NextStep
  <2>3. /\ handled'[j] = handled[j] \/ handled'[j] = handled[j] + 1
        /\ failed'[j] = failed[j] \/ failed'[j] = failed[j] + 1
    BY <2>2 DEF JobStep, Still, Posted, Taken, Returned, CutOff
  <2>4. handled[j] \in Nat /\ failed[j] \in Nat
    BY <2>1 DEF TInv
  <2>5. handled'[j] + failed'[j] > 0
    BY <2>1, <2>3, <2>4
  <2> QED
    BY <2>5 DEF j
<1>3. CASE FinishKafka
  <2>1. log' = log /\ cursor' = [cursor EXCEPT ![hand] = @ + 1] /\ hand # NoQueue
    BY <1>3 DEF FinishKafka
  <2>2. CASE i <= cursor[t]
    BY <1>2, <2>1, <2>2
  <2>3. CASE ~(i <= cursor[t])
    <3>1. t = hand /\ i = cursor[hand] + 1
      <4>1. cursor \in [Tasks -> Nat]
        BY DEF TInv
      <4>2. t = hand
        BY <1>1, <2>1, <2>3, <4>1
      <4> QED
        BY <1>1, <2>1, <2>3, <4>1, <4>2
    <3> DEFINE j == log[hand][cursor[hand] + 1]
    <3>2. PICK o \in Outcomes(j) : Ran(j, o)
      BY <1>3 DEF FinishKafka
    <3>3. j \in Jobs /\ log'[t][i] = j
      BY <2>1, <3>1, RunningFacts
    <3> HIDE DEF j
    <3>4. handled[j] \in Nat /\ failed[j] \in Nat
      BY <3>3 DEF TInv
    <3>5. \/ handled'[j] = handled[j] + 1 /\ failed'[j] = failed[j]
          \/ handled'[j] = handled[j] /\ failed'[j] = failed[j] + 1
      <4>1. IF o.ok THEN handled'[j] = handled[j] + 1 /\ failed'[j] = failed[j]
                    ELSE handled'[j] = handled[j] /\ failed'[j] = failed[j] + 1
        BY <3>2, <3>3, RanFacts
      <4> QED
        BY <4>1
    <3>6. handled'[j] + failed'[j] > 0
      BY <3>4, <3>5
    <3> QED
      BY <3>3, <3>6
  <2> QED
    BY <2>2, <2>3
<1>4. CASE StartKafka /\ cursor' = committed
  <2>1. i <= cursor[t]
    BY <1>1, <1>4
  <2> QED
    BY <1>2, <1>4, <2>1 DEF StartKafka, Up
<1>5. CASE cursor' = cursor
  <2>1. i \in 1..Len(log[t])
    BY <1>1, <1>5
  <2>2. log'[t][i] = log[t][i]
    <3>1. CASE log' = log
      BY <3>1
    <3>2. ASSUME NEW j \in Jobs, EnqueueKafka(j) PROVE log'[t][i] = log[t][i]
      BY <2>1, <3>2, LogGrows
    <3> QED
      BY <3>1, <3>2, LogStep
  <2> QED
    BY <1>2, <1>5, <2>1, <2>2
<1> QED
  BY <1>3, <1>4, <1>5, CursorStep

\* Where a job is in the log, and how much of that lies behind the cursor.
Occurs(j) == {i \in 1..Len(log[TaskOf[j]]) : log[TaskOf[j]][i] = j}

\* The messages of a job that the reader is past.
Seen(j) == {i \in Occurs(j) : i <= cursor[TaskOf[j]]}

\* A job is in the log once or, when its writer retried, more often.
OccursSound ==
    \A j \in Jobs : /\ place[j] = "log" => Occurs(j) # {}
                    /\ IsFiniteSet(Occurs(j)) /\ Cardinality(Occurs(j)) <= Attempts

\* The log of another task type, or of another job, does not tell of this one.
LEMMA OccursKept ==
    ASSUME TInv, TInv', LogPlaces, [Next]_vars, NEW j \in Jobs, ~EnqueueKafka(j)
    PROVE  Occurs(j)' = Occurs(j)
<1> DEFINE k == TaskOf[j]
<1>1. /\ k \in Tasks /\ Len(log[k]) \in Nat /\ Len(log'[k]) \in Nat
  BY TaskTypes, LenProperties DEF TInv
<1>2. CASE log' = log
  BY <1>2 DEF Occurs
<1>3. ASSUME NEW i \in Jobs, EnqueueKafka(i) PROVE Occurs(j)' = Occurs(j)
  <2>1. i # j
    BY <1>3
  <2>2. CASE TaskOf[i] # k
    <3>1. log'[k] = log[k]
      BY <1>1, <1>3, <2>2, LogGrows
    <3> QED
      BY <3>1 DEF Occurs
  <2>3. CASE TaskOf[i] = k
    <3>0. k = TaskOf[i]
      BY <2>3
    <3> HIDE DEF k
    <3>1. /\ Len(log'[k]) \in Len(log[k]) + 1 .. Len(log[k]) + Attempts
          /\ \A m \in 1..Len(log[k]) : log'[k][m] = log[k][m]
          /\ \A m \in 1..Len(log'[k]) : m > Len(log[k]) => log'[k][m] = i
      BY <1>3, <3>0, LogGrows
    <3>2. ASSUME NEW m \in 1..Len(log'[k]), log'[k][m] = j
          PROVE  m \in 1..Len(log[k]) /\ log[k][m] = j
      <4>1. ~(m > Len(log[k]))
        BY <2>1, <3>1, <3>2
      <4>2. m \in 1..Len(log[k])
        BY <1>1, <4>1
      <4> QED
        BY <3>1, <3>2, <4>2
    <3>3. ASSUME NEW m \in 1..Len(log[k]), log[k][m] = j
          PROVE  m \in 1..Len(log'[k]) /\ log'[k][m] = j
      <4>1. Len(log[k]) <= Len(log'[k])
        BY <1>1, <3>1
      <4>2. m \in 1..Len(log'[k])
        BY <1>1, <4>1
      <4> QED
        BY <3>1, <3>3, <4>2
    <3> QED
      BY <3>2, <3>3 DEF Occurs, k
  <2> QED
    BY <2>2, <2>3
<1> QED
  BY <1>2, <1>3, LogStep

\* A job that is enqueued is in the log at most once per try, and was not before.
LEMMA OccursNew ==
    ASSUME TInv, TInv', LogPlaces, NEW j \in Jobs, EnqueueKafka(j)
    PROVE  /\ Occurs(j) = {} /\ Occurs(j)' # {}
           /\ IsFiniteSet(Occurs(j)') /\ Cardinality(Occurs(j)') <= Attempts
<1> DEFINE k == TaskOf[j]
           n == Len(log[k])
<1>1. /\ k \in Tasks /\ n \in Nat /\ Len(log'[k]) \in Nat /\ log[k] \in Seq(Jobs)
  BY TaskTypes, LenProperties DEF TInv
<1>2. /\ Len(log'[k]) \in n + 1 .. n + Attempts /\ place[j] = "new"
      /\ \A m \in 1..n : log'[k][m] = log[k][m]
      /\ \A m \in 1..Len(log'[k]) : m > n => log'[k][m] = j
  BY LogGrows
<1>3. \A m \in 1..n : log[k][m] # j
  BY <1>1, <1>2 DEF LogPlaces
<1>4. Occurs(j) = {}
  BY <1>3 DEF Occurs
<1>5. Occurs(j)' \subseteq n + 1 .. n + Attempts
  <2> SUFFICES ASSUME NEW m \in 1..Len(log'[k]), log'[k][m] = j PROVE m \in n + 1 .. n + Attempts
    BY DEF Occurs
  <2>1. m \notin 1..n
    BY <1>2, <1>3
  <2>2. Len(log'[k]) <= n + Attempts
    BY <1>2
  <2> HIDE DEF n
  <2> QED
    BY <1>1, <2>1, <2>2, JobAssumption
<1>6. n + 1 \in Occurs(j)'
  <2>1. n + 1 \in 1..Len(log'[k]) /\ n + 1 > n
    <3>1. Len(log'[k]) >= n + 1
      BY <1>2
    <3> HIDE DEF n
    <3> QED
      BY <1>1, <3>1
  <2> QED
    BY <1>2, <2>1 DEF Occurs
<1>7. IsFiniteSet(n + 1 .. n + Attempts) /\ Cardinality(n + 1 .. n + Attempts) = Attempts
  <2> HIDE DEF n
  <2>1. n + 1 \in Int /\ n + Attempts \in Int /\ ~(n + 1 > n + Attempts)
    BY <1>1, JobAssumption
  <2>2. /\ IsFiniteSet(n + 1 .. n + Attempts)
        /\ Cardinality(n + 1 .. n + Attempts) = (n + Attempts) - (n + 1) + 1
    BY <2>1, FS_Interval
  <2> QED
    BY <1>1, <2>2, JobAssumption
<1>8. IsFiniteSet(Occurs(j)') /\ Cardinality(Occurs(j)') <= Cardinality(n + 1 .. n + Attempts)
  BY <1>5, <1>7, FS_Subset
<1> QED
  BY <1>4, <1>6, <1>7, <1>8

\* So it is after every step.
LEMMA OccursSoundStep ==
    ASSUME TInv, TInv', LogPlaces, OccursSound, [Next]_vars
    PROVE  OccursSound'
<1> SUFFICES ASSUME NEW j \in Jobs
             PROVE  /\ place'[j] = "log" => Occurs(j)' # {}
                    /\ IsFiniteSet(Occurs(j)') /\ Cardinality(Occurs(j)') <= Attempts
  BY DEF OccursSound
<1>1. CASE EnqueueKafka(j)
  BY <1>1, OccursNew
<1>2. CASE ~EnqueueKafka(j)
  <2>1. place'[j] = "log" => place[j] = "log"
    <3>1. JobStep(j)
      BY NextStep
    <3> QED
      BY <1>2, <3>1 DEF JobStep, Still, Posted, Taken, Returned, CutOff
  <2> QED
    BY <1>2, <2>1, OccursKept DEF OccursSound
<1> QED
  BY <1>1, <1>2

\* At most one message per try of a job is behind the cursor, and one less while one
\* of them is being handled.
LEMMA SeenFacts ==
    ASSUME TInv, OccursSound, NEW j \in Jobs
    PROVE  /\ IsFiniteSet(Seen(j)) /\ Cardinality(Seen(j)) \in Nat
           /\ Cardinality(Seen(j)) <= Attempts
           /\ j \in Cut("kafka") => /\ cursor[TaskOf[j]] + 1 \in Occurs(j) \ Seen(j)
                                    /\ Cardinality(Seen(j)) + 1 <= Attempts
<1>1. IsFiniteSet(Occurs(j)) /\ Cardinality(Occurs(j)) <= Attempts /\ Cardinality(Occurs(j)) \in Nat
  BY FS_CardinalityType DEF OccursSound
<1>2. Seen(j) \subseteq Occurs(j)
  BY DEF Seen
<1>3. IsFiniteSet(Seen(j)) /\ Cardinality(Seen(j)) <= Cardinality(Occurs(j))
  BY <1>1, <1>2, FS_Subset
<1>4. Cardinality(Seen(j)) \in Nat
  BY <1>3, FS_CardinalityType
<1>5. ASSUME j \in Cut("kafka")
      PROVE  /\ cursor[TaskOf[j]] + 1 \in Occurs(j) \ Seen(j)
             /\ Cardinality(Seen(j)) + 1 <= Attempts
  <2> DEFINE c == cursor[TaskOf[j]] + 1
  <2>1. hand # NoQueue /\ j = log[hand][cursor[hand] + 1]
    BY <1>5, CutFacts DEF Drivers
  <2>2. c \in Occurs(j) /\ cursor[TaskOf[j]] \in Nat
    BY <2>1, RunningFacts DEF Occurs, TInv
  <2>3. c \notin Seen(j)
    BY <2>2 DEF Seen
  <2>4. /\ IsFiniteSet(Seen(j) \cup {c})
        /\ Cardinality(Seen(j) \cup {c}) = Cardinality(Seen(j)) + 1
    BY <1>3, <2>3, FS_AddElement
  <2>5. Cardinality(Seen(j) \cup {c}) <= Cardinality(Occurs(j))
    BY <1>1, <1>2, <2>2, FS_Subset
  <2>6. Cardinality(Seen(j)) + 1 <= Cardinality(Occurs(j))
    BY <2>4, <2>5
  <2>7. Cardinality(Seen(j)) + 1 <= Attempts
    BY <1>1, <1>4, <2>6, JobAssumption
  <2> QED
    BY <2>2, <2>3, <2>7
<1>6. Cardinality(Seen(j)) <= Attempts
  BY <1>1, <1>3, <1>4, JobAssumption
<1> QED
  BY <1>3, <1>4, <1>5, <1>6

-----------------------------------------------------------------------------
(* kafka: how often a mail leaves *)

\* What so many passes over the log can let out of a job.
PerPass(n) == Attempts * n

\* One more pass, one more mail per copy.
LEMMA PassFacts ==
    /\ PerPass(0) = 0
    /\ \A n \in Nat : /\ PerPass(n) \in Nat /\ PerPass(n + 1) = PerPass(n) + Attempts
                       /\ PerPass(n + 1) = Attempts * (1 + n)
  BY JobAssumption DEF PerPass

\* A running reader has let out, in this pass over the log, at most what lies
\* behind its cursor, and each pass before ended with a stop or a crash.
KafkaSound(j) ==
    Backend(j) = "kafka" =>
        /\ worker["kafka"] = "up" => sent[j] <= PerPass(restarts) + Cardinality(Seen(j))
        /\ worker["kafka"] = "stopping" =>
              sent[j] + Attempts <= PerPass(restarts) + Cardinality(Seen(j))
        /\ worker["kafka"] = "down" => sent[j] <= PerPass(restarts)

\* The quantities of KafkaSound before and after a step.
LEMMA KafkaTypes ==
    ASSUME TInv, TInv', OccursSound, OccursSound', NEW j \in Jobs
    PROVE  /\ sent[j] \in Nat /\ sent'[j] \in Nat /\ restarts \in Nat /\ restarts' \in Nat
           /\ Cardinality(Seen(j)) \in Nat /\ Cardinality(Seen(j)) <= Attempts
           /\ Cardinality(Seen(j)') \in Nat
           /\ worker["kafka"] \in {"down", "up", "stopping"}
<1>1. /\ IsFiniteSet(Occurs(j)') /\ Seen(j)' \subseteq Occurs(j)'
  BY DEF OccursSound, Seen
<1>2. Cardinality(Seen(j)') \in Nat
  BY <1>1, FS_Subset, FS_CardinalityType
<1> QED
  BY <1>2, SeenFacts DEF TInv, TypeOK, Drivers

\* A step that leaves the reader running as it was, moves no cursor and lets no
\* mail of the job out.
LEMMA KafkaQuiet ==
    ASSUME TInv, TInv', LogPlaces, OccursSound, OccursSound', [Next]_vars, NEW j \in Jobs,
           KafkaSound(j), Backend(j)' = Backend(j),
           cursor' = cursor, worker'["kafka"] = worker["kafka"],
           sent'[j] <= sent[j], restarts' \in {restarts, restarts + 1}
    PROVE  KafkaSound(j)'
<1>1. Cardinality(Seen(j)) <= Cardinality(Seen(j)')
  <2>1. CASE EnqueueKafka(j)
    <3>1. Seen(j) = {}
      BY <2>1, OccursNew DEF Seen
    <3> QED
      BY <3>1, FS_EmptySet, KafkaTypes
  <2>2. CASE ~EnqueueKafka(j)
    <3>1. Seen(j)' = Seen(j)
      BY <2>2, OccursKept DEF Seen
    <3> QED
      BY <3>1, KafkaTypes
  <2> QED
    BY <2>1, <2>2
<1>2. /\ sent[j] \in Nat /\ sent'[j] \in Nat /\ restarts \in Nat /\ restarts' \in Nat
      /\ Cardinality(Seen(j)) \in Nat /\ Cardinality(Seen(j)') \in Nat /\ Attempts \in Nat
      /\ PerPass(restarts) \in Nat /\ PerPass(restarts') \in {PerPass(restarts), PerPass(restarts) + Attempts}
  BY KafkaTypes, PassFacts, JobAssumption
<1> QED
  BY <1>1, <1>2 DEF KafkaSound

\* The end of a handler counts one more message behind the cursor for at most
\* one more mail.
LEMMA KafkaHandled ==
    ASSUME TInv, TInv', LogPlaces, OccursSound, OccursSound', NEW j \in Jobs,
           KafkaSound(j), FinishKafka, [Next]_vars
    PROVE  KafkaSound(j)'
<1> DEFINE m == log[hand][cursor[hand] + 1]
<1>1. PICK o \in Outcomes(m) : Ran(m, o)
  BY DEF FinishKafka
<1>2. /\ m \in Jobs /\ hand \in Tasks /\ TaskOf[m] = hand /\ hand # NoQueue
      /\ cursor[hand] + 1 \in 1..Len(log[hand])
  BY RunningFacts DEF FinishKafka
<1>3. /\ log' = log /\ cursor' = [cursor EXCEPT ![hand] = @ + 1]
      /\ cursor \in [Tasks -> Nat] /\ TaskOf[j] \in Tasks
  BY TaskTypes DEF FinishKafka, TInv
<1>4. Occurs(j)' = Occurs(j)
  BY <1>3 DEF Occurs
<1>5. /\ worker' = worker /\ restarts' = restarts /\ route' = route
      /\ sent'[m] <= sent[m] + 1 /\ (j # m => sent'[j] = sent[j])
  BY <1>1, <1>2, RanFacts
<1>6. CASE j = m
  <2> DEFINE c == cursor[TaskOf[j]] + 1
  <2>1. j \in Cut("kafka")
    BY <1>2, <1>6, CutFacts DEF Drivers
  <2>2. c \in Occurs(j) \ Seen(j) /\ IsFiniteSet(Seen(j)) /\ cursor[TaskOf[j]] \in Nat
    BY <1>3, <2>1, SeenFacts
  <2>3. cursor'[TaskOf[j]] = c
    BY <1>2, <1>3, <1>6
  <2>4. Seen(j)' = Seen(j) \cup {c}
    <3>1. ASSUME NEW i \in Occurs(j) PROVE i <= c <=> i <= cursor[TaskOf[j]] \/ i = c
      <4>1. i \in Int
        BY DEF Occurs
      <4> QED
        BY <2>2, <4>1
    <3>2. Seen(j)' = {i \in Occurs(j) : i <= c}
      BY <1>4, <2>3 DEF Seen
    <3> HIDE DEF c
    <3> QED
      BY <2>2, <3>1, <3>2 DEF Seen
  <2>5. Cardinality(Seen(j)') = Cardinality(Seen(j)) + 1
    BY <2>2, <2>4, FS_AddElement
  <2>6. /\ sent[j] \in Nat /\ sent'[j] \in Nat /\ restarts \in Nat
        /\ Cardinality(Seen(j)) \in Nat /\ worker["kafka"] # "down"
    BY <1>2, KafkaTypes DEF TInv
  <2>7. sent'[j] <= sent[j] + 1
    BY <1>5, <1>6
  <2> HIDE DEF m, c
  <2>8. Attempts \in Nat /\ PerPass(restarts) \in Nat /\ Cardinality(Seen(j)') \in Nat
    <3>1. Attempts \in Nat
      BY JobAssumption
    <3>2. PerPass(restarts) \in Nat
      BY <2>6, PassFacts
    <3>3. Cardinality(Seen(j)') \in Nat
      BY <2>5, <2>6
    <3> QED
      BY <3>1, <3>2, <3>3
  <2> QED
    BY <1>5, <2>5, <2>6, <2>7, <2>8 DEF KafkaSound, Backend
<1>7. CASE j # m
  <2>1. \A i \in Occurs(j) : i <= cursor'[TaskOf[j]] <=> i <= cursor[TaskOf[j]]
    <3> SUFFICES ASSUME NEW i \in Occurs(j) PROVE i <= cursor'[TaskOf[j]] <=> i <= cursor[TaskOf[j]]
      OBVIOUS
    <3>1. CASE TaskOf[j] # hand
      BY <1>3, <3>1
    <3>2. CASE TaskOf[j] = hand
      <4>1. cursor'[hand] = cursor[hand] + 1 /\ cursor[hand] \in Nat /\ i \in Int
        BY <1>2, <1>3 DEF Occurs
      <4>2. i # cursor[hand] + 1
        BY <1>7, <3>2 DEF Occurs
      <4> QED
        BY <3>2, <4>1, <4>2
    <3> QED
      BY <3>1, <3>2
  <2>2. Seen(j)' = Seen(j)
    BY <1>4, <2>1 DEF Seen
  <2> HIDE DEF m
  <2> QED
    BY <1>5, <1>7, <2>2 DEF KafkaSound, Backend
<1> QED
  BY <1>6, <1>7

\* The end of the reader closes its pass.
LEMMA KafkaEnds ==
    ASSUME TInv, TInv', OccursSound, OccursSound', NEW j \in Jobs, KafkaSound(j),
           Backend(j)' = Backend(j), worker'["kafka"] = "down",
           sent'[j] <= sent[j] + (IF j \in Cut("kafka") THEN 1 ELSE 0),
           \/ worker["kafka"] = "stopping" /\ restarts' = restarts
           \/ worker["kafka"] # "down" /\ restarts' = restarts + 1
    PROVE  KafkaSound(j)'
<1>1. /\ sent[j] \in Nat /\ sent'[j] \in Nat /\ restarts \in Nat
      /\ Cardinality(Seen(j)) \in Nat /\ Cardinality(Seen(j)) <= Attempts
      /\ worker["kafka"] \in {"down", "up", "stopping"} /\ Attempts \in Nat
      /\ PerPass(restarts) \in Nat /\ PerPass(restarts + 1) = PerPass(restarts) + Attempts
  BY KafkaTypes, PassFacts, JobAssumption
<1>2. sent'[j] <= sent[j] + Attempts - Cardinality(Seen(j))
  BY <1>1, SeenFacts
<1> QED
  BY <1>1, <1>2 DEF KafkaSound

\* Every step of the workers and of the API keeps the count.
LEMMA KafkaStep ==
    ASSUME TInv, TInv', LogPlaces, JobsSound, OccursSound, OccursSound', [Next]_vars,
           NEW j \in Jobs, KafkaSound(j)
    PROVE  KafkaSound(j)'
<1>0. /\ Backend(j)' = Backend(j) /\ worker \in [Drivers -> {"down", "up", "stopping", "deaf"}]
      /\ sent \in [Jobs -> Nat] /\ "kafka" \in Drivers /\ sent[j] \in Nat
      /\ worker["kafka"] # "deaf" /\ restarts \in Nat
  BY NextStep DEF TInv, TypeOK, Drivers
<1> SUFFICES ASSUME Backend(j) = "kafka" PROVE KafkaSound(j)'
  BY <1>0 DEF KafkaSound
<1>1. \A i \in Jobs : place[i] \in {"redis-run", "rabbitmq-run"} => i # j
  BY DEF JobsSound, PlaceSound
<1>2. CASE API
  <2>1. UNCHANGED <<worker, cursor, sent, restarts>>
    BY <1>2 DEF API, EnqueueNowhere, EnqueueRedis, EnqueueRabbit, EnqueueKafka, LoseKafka,
                Enqueued, history
  <2> QED
    BY <1>0, <2>1, KafkaQuiet
<1>3. ASSUME NEW i \in Jobs, (\E d \in Drivers : Take(d, i)) PROVE KafkaSound(j)'
  BY <1>0, <1>3, KafkaQuiet DEF Take, broker, history
<1>4. ASSUME NEW i \in Jobs, FinishRedis(i) \/ FinishRabbit(i) PROVE KafkaSound(j)'
  <2>1. i # j
    BY <1>1, <1>4 DEF FinishRedis, FinishRabbit
  <2>2. (\E o \in Outcomes(i) : Ran(i, o)) /\ cursor' = cursor
    BY <1>4 DEF FinishRedis, FinishRabbit, broker
  <2> QED
    BY <1>0, <2>1, <2>2, RanFacts, KafkaQuiet
<1>5. ASSUME NEW t \in Tasks, FetchKafka(t) PROVE KafkaSound(j)'
  BY <1>0, <1>5, KafkaQuiet DEF FetchKafka, history
<1>6. CASE StartRedis \/ StartRabbit
  BY <1>0, <1>6, KafkaQuiet DEF StartRedis, StartRabbit, Up, history, Drivers
<1>7. CASE StartKafka
  <2>1. worker["kafka"] = "down" /\ worker'["kafka"] = "up" /\ sent' = sent /\ restarts' = restarts
    BY <1>0, <1>7 DEF StartKafka, Up, history
  <2> QED
    BY <1>0, <2>1, KafkaTypes, PassFacts DEF KafkaSound
<1>8. ASSUME NEW d \in Drivers, Stop(d) PROVE KafkaSound(j)'
  <2>0. cursor' = cursor /\ sent' = sent /\ restarts' = restarts + 1 /\ log' = log
    BY <1>8 DEF Stop, broker, history
  <2>1. CASE d # "kafka"
    <3>1. worker'["kafka"] = worker["kafka"]
      BY <1>0, <1>8, <2>1 DEF Stop
    <3> QED
      BY <1>0, <2>0, <3>1, KafkaQuiet
  <2>2. CASE d = "kafka"
    <3>1. worker["kafka"] = "up" /\ worker'["kafka"] = "stopping"
      BY <1>0, <1>8, <2>2 DEF Stop
    <3>2. Seen(j)' = Seen(j)
      BY <2>0 DEF Seen, Occurs
    <3>3. /\ Cardinality(Seen(j)) \in Nat /\ Attempts \in Nat /\ PerPass(restarts) \in Nat
          /\ PerPass(restarts + 1) = PerPass(restarts) + Attempts
      BY KafkaTypes, PassFacts, JobAssumption
    <3> QED
      BY <1>0, <2>0, <3>1, <3>2, <3>3 DEF KafkaSound
  <2> QED
    BY <2>1, <2>2
<1>9. ASSUME NEW d \in Drivers, Exit(d) PROVE KafkaSound(j)'
  <2>a. j \notin Running(d)
    BY <1>1, RunningFacts DEF Drivers
  <2>0. cursor' = cursor /\ sent'[j] <= sent[j] /\ restarts' = restarts
    BY <1>0, <1>9, <2>a, MailsLeftFacts DEF Exit, broker
  <2>1. CASE d # "kafka"
    <3>1. worker'["kafka"] = worker["kafka"]
      BY <1>0, <1>9, <2>1 DEF Exit
    <3> QED
      BY <1>0, <2>0, <3>1, KafkaQuiet
  <2>2. CASE d = "kafka"
    <3>1. worker["kafka"] = "stopping" /\ worker'["kafka"] = "down"
      BY <1>0, <1>9, <2>2 DEF Exit
    <3>2. j \notin Cut("kafka") \/ j \in Cut("kafka")
      OBVIOUS
    <3>3. sent'[j] \in Nat
      BY DEF TInv
    <3>4. sent'[j] <= sent[j] + (IF j \in Cut("kafka") THEN 1 ELSE 0)
      BY <1>0, <2>0, <3>2, <3>3
    <3> QED
      BY <1>0, <2>0, <3>1, <3>4, KafkaEnds
  <2> QED
    BY <2>1, <2>2
<1>10. ASSUME NEW d \in Drivers, NEW s, Die(d, s), worker[d] # "down", d = "kafka" => s = "down",
              \/ worker[d] = "stopping" /\ restarts' = restarts
              \/ restarts' = restarts + 1
       PROVE  KafkaSound(j)'
  <2>1. CASE d # "kafka"
    <3>1. worker'["kafka"] = worker["kafka"] /\ cursor' = cursor
      BY <1>0, <1>10, <2>1 DEF Die
    <3>2. j \notin Cut(d)
      BY <1>1, <2>1, CutFacts, RunningFacts DEF Drivers
    <3>3. sent'[j] <= sent[j]
      BY <1>0, <1>10, <3>2, DieFacts
    <3> QED
      BY <1>0, <1>10, <3>1, <3>3, KafkaQuiet
  <2>2. CASE d = "kafka"
    <3>1. worker'["kafka"] = "down"
      BY <1>0, <1>10, <2>2 DEF Die
    <3>2. sent'[j] <= sent[j] + (IF j \in Cut("kafka") THEN 1 ELSE 0)
      BY <1>10, <2>2, DieFacts
    <3> QED
      BY <1>0, <1>10, <2>2, <3>1, <3>2, KafkaEnds
  <2> QED
    BY <2>1, <2>2
<1>11. ASSUME NEW d \in Drivers, Crash(d) \/ Kill(d) PROVE KafkaSound(j)'
  BY <1>10, <1>11 DEF Crash, Kill
<1>12. CASE Disconnect
  BY <1>10, <1>12 DEF Disconnect, Drivers
<1>13. CASE UNCHANGED vars
  BY <1>0, <1>13, KafkaQuiet DEF vars
<1>15. ASSUME NEW i \in Jobs, Hang(i) PROVE KafkaSound(j)'
  BY <1>0, <1>15, KafkaQuiet DEF Hang, history
<1>14. CASE Work
  BY <1>3, <1>4, <1>5, <1>14, <1>15, KafkaHandled DEF Work
<1> QED
  BY <1>2, <1>14, <1>6, <1>7, <1>8, <1>9, <1>11, <1>12, <1>13 DEF Next

-----------------------------------------------------------------------------
(* Neither lost nor done too often *)

\* What is known of the log and of the mails that left from it.
KafkaInv == LogRun /\ OccursSound /\ \A j \in Jobs : KafkaSound(j)

\* It holds through stops, crashes and failed commits.
LEMMA LogKept == Spec => []KafkaInv
<1>1. Init => KafkaInv
  <2> SUFFICES ASSUME Init PROVE KafkaInv
    OBVIOUS
  <2>1. /\ log = [t \in Tasks |-> <<>>] /\ place = [j \in Jobs |-> "new"]
        /\ sent = [j \in Jobs |-> 0] /\ restarts = 0 /\ worker = [d \in Drivers |-> "down"]
    BY DEF Init
  <2>2. \A j \in Jobs : Occurs(j) = {}
    BY <2>1, TaskTypes, EmptySeq DEF Occurs
  <2>3. LogRun
    BY <2>1, EmptySeq DEF LogRun
  <2>4. OccursSound
    <3>1. IsFiniteSet({}) /\ Cardinality({}) <= Attempts
      BY FS_EmptySet, JobAssumption
    <3>2. \A j \in Jobs : place[j] # "log"
      BY <2>1
    <3> QED
      BY <2>2, <3>1, <3>2 DEF OccursSound
  <2>5. \A j \in Jobs : KafkaSound(j)
    BY <2>1, PassFacts DEF KafkaSound, Drivers
  <2> QED
    BY <2>3, <2>4, <2>5 DEF KafkaInv
<1>2. TInv /\ TInv' /\ LogPlaces /\ JobsSound /\ KafkaInv /\ [Next]_vars => KafkaInv'
  BY LogRunStep, OccursSoundStep, KafkaStep DEF KafkaInv
<1> QED
  BY <1>1, <1>2, Typed, Placed, PTL DEF Spec

\* Through stops, crashes, lost connections, commits that fail and messages that are
\* stored once per try: what a broker has kept is lost only by a run that returned, or by more
\* cut runs than asynq retries, and no mail leaves more often than cut runs, retries and replays
\* account for.  Of what no broker has kept, "ok" or not, it says nothing.
THEOREM JobsAreAccountedFor == Spec => []JobsAccountedFor
<1>1. TInv /\ LogPlaces /\ JobsSound /\ KafkaInv => JobsAccountedFor
  <2> SUFFICES ASSUME TInv, LogPlaces, JobsSound, KafkaInv, NEW j \in Jobs
               PROVE  /\ answer[j] = "ok" /\ place[j] # "dropped" /\ ~Waiting(j) =>
                            \/ handled[j] + failed[j] > 0
                            \/ place[j] = "archived" /\ broken[j] > MaxRetry(TaskOf[j])
                      /\ CASE route[TaskOf[j]] = "rabbitmq" -> sent[j] <= 1 + broken[j]
                           [] route[TaskOf[j]] = "redis" -> /\ sent[j] <= 1 + failed[j] + broken[j]
                                                            /\ handled[j] <= 1
                                                            /\ failed[j] <= 1 + MaxRetry(TaskOf[j])
                           [] route[TaskOf[j]] = "kafka" -> sent[j] <= Attempts * (1 + restarts)
                           [] OTHER -> sent[j] = 0
    BY DEF JobsAccountedFor, NoSilentLoss, DuplicateBudget
  <2>0. /\ handled[j] \in Nat /\ sent[j] \in Nat /\ failed[j] \in Nat /\ broken[j] \in Nat
        /\ tried[j] \in Nat /\ restarts \in Nat /\ MaxRetry(TaskOf[j]) \in Nat
        /\ tried[j] <= MaxRetry(TaskOf[j]) /\ place[j] \in Places
        /\ Backend(j) \in Drivers \cup {NoQueue} /\ TaskOf[j] \in Tasks
    BY TaskTypes DEF TInv, TypeOK, Backend
  <2>1. PlaceSound(j) /\ RedisSound(j) /\ RabbitSound(j) /\ KafkaSound(j)
    BY DEF JobsSound, KafkaInv
  <2>2. ASSUME answer[j] = "ok", place[j] # "dropped", ~Waiting(j)
        PROVE  \/ handled[j] + failed[j] > 0
               \/ place[j] = "archived" /\ broken[j] > MaxRetry(TaskOf[j])
    <3>1. CASE place[j] = "log"
      <4> DEFINE k == TaskOf[j]
      <4>1. PICK i \in 1..Len(log[k]) : log[k][i] = j
        BY <3>1 DEF KafkaInv, OccursSound, Occurs
      <4>2. /\ DOMAIN log[k] = 1..Len(log[k]) /\ committed[k] <= cursor[k] /\ committed[k] \in Nat
            /\ cursor[k] \in Nat
        BY <2>0, LenProperties DEF TInv, TypeOK
      <4>3. i <= cursor[k]
        BY <2>2, <4>1, <4>2 DEF Waiting
      <4> QED
        BY <2>0, <4>1, <4>3 DEF KafkaInv, LogRun
    <3>2. CASE place[j] \in {"done", "discarded"}
      BY <2>0, <2>1, <3>2 DEF PlaceSound, RabbitSound, Drivers
    <3>3. CASE place[j] = "archived"
      BY <2>0, <2>1, <3>3 DEF PlaceSound, RedisSound
    <3>4. place[j] \in {"log", "done", "discarded", "archived"}
      BY <2>0, <2>1, <2>2 DEF Waiting, PlaceSound, Places
    <3> QED
      BY <3>1, <3>2, <3>3, <3>4
  <2>3. CASE Backend(j) = "rabbitmq"
    BY <2>0, <2>1, <2>2, <2>3 DEF RabbitSound, Backend
  <2>4. CASE Backend(j) = "redis"
    <3>1. handled[j] <= 1 /\ failed[j] <= 1 + MaxRetry(TaskOf[j])
      BY <2>0, <2>1, <2>4 DEF RedisSound
    <3>2. sent[j] <= 1 + failed[j] + broken[j]
      BY <2>0, <2>1, <2>4, <3>1 DEF RedisSound
    <3> QED
      BY <2>2, <2>4, <3>1, <3>2 DEF Backend
  <2>5. CASE Backend(j) = "kafka"
    <3>1. sent[j] <= Attempts * (1 + restarts)
      <4>1. /\ Cardinality(Seen(j)) \in Nat /\ Cardinality(Seen(j)) <= Attempts
            /\ worker["kafka"] \in {"down", "up", "stopping"} /\ Attempts \in Nat
            /\ PerPass(restarts) \in Nat
            /\ Attempts * (1 + restarts) = PerPass(restarts) + Attempts
        BY <2>0, SeenFacts, PassFacts, JobAssumption DEF KafkaInv, TInv, TypeOK, Drivers
      <4> QED
        BY <2>0, <2>1, <2>5, <4>1 DEF KafkaSound
    <3> QED
      BY <2>2, <2>5, <3>1 DEF Backend
  <2>6. CASE Backend(j) = NoQueue
    <3>1. sent[j] = 0
      BY <2>0, <2>1, <2>6 DEF PlaceSound, Places, NoQueue
    <3> QED
      BY <2>2, <2>6, <3>1 DEF Backend, NoQueue
  <2> QED
    BY <2>0, <2>3, <2>4, <2>5, <2>6 DEF Drivers
<1> QED
  BY <1>1, Typed, Placed, LogKept, PTL
-----------------------------------------------------------------------------
(* Refinement: the three backends implement the contract *)

\* What the phases are: only for a job in a log does it take more than its place to tell
\* whether it is owed.
PhaseFits(j) ==
    /\ Phase[j] \in Contract!Phases
    /\ place[j] = "new" <=> Phase[j] = "new"
    /\ place[j] \in {"skipped", "refused", "dropped"} <=> Phase[j] = "absent"
    /\ place[j] \in {"redis", "redis-run", "rabbitmq", "rabbitmq-run"} => Phase[j] = "owed"
    /\ place[j] \in {"done", "archived", "discarded"} => Phase[j] = "over"
    /\ place[j] = "log" =>
          Phase[j] = IF \E i \in Occurs(j) : i > committed[TaskOf[j]] THEN "owed" ELSE "over"

\* Where it is over, a handler has run the job, or asynq has given it up.
OverIsRun(j) ==
    Phase[j] = "over" => \/ Runs[j] > 0
                         \/ place[j] = "archived" /\ broken[j] > MaxRetry(TaskOf[j])

\* The phase follows from the place and the log ...
LEMMA PhaseIs ==
    ASSUME TInv, LogPlaces, NEW j \in Jobs
    PROVE  PhaseFits(j)
<1>1. place[j] \in Places
  BY DEF TInv, TypeOK
<1>2. DOMAIN log[TaskOf[j]] = 1..Len(log[TaskOf[j]]) /\ TaskOf[j] \in Tasks
  BY TaskTypes, LenProperties DEF TInv
<1>3. (\E i \in DOMAIN log[TaskOf[j]] : i > committed[TaskOf[j]] /\ log[TaskOf[j]][i] = j)
         <=> \E i \in Occurs(j) : i > committed[TaskOf[j]]
  BY <1>2 DEF Occurs
<1>4. Occurs(j) # {} => place[j] = "log"
  BY <1>2 DEF Occurs, LogPlaces
<1>5. Waiting(j) <=> \/ place[j] \in {"redis", "redis-run", "rabbitmq", "rabbitmq-run"}
                     \/ \E i \in Occurs(j) : i > committed[TaskOf[j]]
  BY <1>3 DEF Waiting
<1>6. Phase[j] = IF place[j] = "new" THEN "new"
                 ELSE IF place[j] \in {"skipped", "refused", "dropped"} THEN "absent"
                 ELSE IF Waiting(j) THEN "owed" ELSE "over"
  BY DEF Phase
<1> QED
  BY <1>1, <1>4, <1>5, <1>6 DEF Places, Contract!Phases, PhaseFits

\* ... and it is over only for a reason.
LEMMA OverReason ==
    ASSUME TInv, LogPlaces, JobsSound, KafkaInv, NEW j \in Jobs
    PROVE  OverIsRun(j)
<1> SUFFICES ASSUME Phase[j] = "over"
             PROVE  Runs[j] > 0 \/ (place[j] = "archived" /\ broken[j] > MaxRetry(TaskOf[j]))
  BY DEF OverIsRun
<1>0. /\ handled[j] \in Nat /\ failed[j] \in Nat /\ broken[j] \in Nat
      /\ MaxRetry(TaskOf[j]) \in Nat /\ place[j] \in Places /\ TaskOf[j] \in Tasks
      /\ Runs[j] = handled[j] + failed[j]
  BY TaskTypes DEF TInv, TypeOK, Runs
<1>1. PlaceSound(j) /\ RedisSound(j) /\ RabbitSound(j)
  BY DEF JobsSound
<1>2. CASE place[j] = "log"
  <2>1. PICK i \in Occurs(j) : TRUE
    BY <1>2 DEF KafkaInv, OccursSound
  <2>2. ~(i > committed[TaskOf[j]])
    BY <1>2, <2>1, PhaseIs DEF PhaseFits
  <2>3. /\ i \in 1..Len(log[TaskOf[j]]) /\ log[TaskOf[j]][i] = j
        /\ committed[TaskOf[j]] <= cursor[TaskOf[j]]
        /\ committed[TaskOf[j]] \in Nat /\ cursor[TaskOf[j]] \in Nat
        /\ Len(log[TaskOf[j]]) \in Nat
    BY <1>0, <2>1, LenProperties DEF Occurs, TInv, TypeOK
  <2>4. i <= cursor[TaskOf[j]]
    BY <2>2, <2>3
  <2> QED
    BY <1>0, <2>3, <2>4 DEF KafkaInv, LogRun
<1>3. CASE place[j] \in {"done", "discarded"}
  BY <1>0, <1>1, <1>3 DEF PlaceSound, RabbitSound
<1>4. CASE place[j] = "archived"
  BY <1>0, <1>1, <1>4 DEF PlaceSound, RedisSound
<1>5. place[j] \in {"log", "done", "discarded", "archived"}
  BY <1>0, PhaseIs DEF Places, PhaseFits
<1> QED
  BY <1>2, <1>3, <1>4, <1>5

\* What is committed is never taken back.
LEMMA CommittedStep ==
    ASSUME TInv, [Next]_vars, NEW t \in Tasks
    PROVE  committed[t] \in Nat /\ committed'[t] \in Nat /\ committed[t] <= committed'[t]
<1>0. /\ committed \in [Tasks -> Nat] /\ cursor \in [Tasks -> Nat]
      /\ \A k \in Tasks : committed[k] <= cursor[k]
  BY DEF TInv, TypeOK
<1>1. committed' = committed => committed[t] \in Nat /\ committed'[t] \in Nat /\ committed[t] <= committed'[t]
  BY <1>0
<1>2. CASE FinishKafka
  <2>1. hand \in Tasks
    BY <1>2, RunningFacts DEF FinishKafka
  <2>2. committed' = committed \/ committed' = [committed EXCEPT ![hand] = cursor[hand] + 1]
    BY <1>2 DEF FinishKafka
  <2> QED
    BY <1>0, <1>1, <2>1, <2>2
<1>3. API => committed' = committed
  BY DEF API, EnqueueNowhere, EnqueueRedis, EnqueueRabbit, EnqueueKafka, LoseKafka, Enqueued
<1>4. Work => committed' = committed \/ FinishKafka
  BY DEF Work, Take, FinishRedis, FinishRabbit, Hang, FetchKafka, broker
<1>5. StartRedis \/ StartRabbit \/ StartKafka => committed' = committed
  BY DEF StartRedis, StartRabbit, StartKafka, Up
<1>6. ASSUME NEW d \in Drivers, Stop(d) \/ Exit(d) \/ Crash(d) \/ Kill(d) PROVE committed' = committed
  BY <1>6 DEF Stop, Exit, Crash, Kill, Die, broker
<1>7. Disconnect => committed' = committed
  BY DEF Disconnect, Die
<1>8. UNCHANGED vars => committed' = committed
  BY DEF vars
<1> QED
  BY <1>1, <1>2, <1>3, <1>4, <1>5, <1>6, <1>7, <1>8 DEF Next

\* A log keeps what it has, so that a job that is over stays over.
LEMMA OccursStay ==
    ASSUME TInv, TInv', LogPlaces, [Next]_vars, NEW j \in Jobs, place[j] = "log"
    PROVE  Occurs(j)' = Occurs(j)
<1> DEFINE t == TaskOf[j]
<1>0. /\ t \in Tasks /\ log[t] \in Seq(Jobs) /\ log'[t] \in Seq(Jobs) /\ Len(log[t]) \in Nat
      /\ Len(log'[t]) \in Nat
  BY TaskTypes, LenProperties DEF TInv
<1>1. CASE log' = log
  BY <1>1 DEF Occurs
<1>2. ASSUME NEW k \in Jobs, EnqueueKafka(k) PROVE Occurs(j)' = Occurs(j)
  <2>1. k # j
    BY <1>2, LogGrows
  <2>2. CASE TaskOf[k] # t
    <3>1. log'[t] = log[t]
      BY <1>0, <1>2, <2>2, LogGrows
    <3> QED
      BY <3>1 DEF Occurs
  <2>3. CASE TaskOf[k] = t
    <3>1. /\ Len(log'[t]) \in Len(log[t]) + 1 .. Len(log[t]) + Attempts
          /\ \A i \in 1..Len(log[t]) : log'[t][i] = log[t][i]
          /\ \A i \in 1..Len(log'[t]) : i > Len(log[t]) => log'[t][i] = k
      BY <1>2, <2>3, LogGrows
    <3>2. ASSUME NEW i \in 1..Len(log'[t]) PROVE log'[t][i] = j <=> i \in 1..Len(log[t]) /\ log[t][i] = j
      BY <1>0, <2>1, <3>1
    <3>3. \A i \in 1..Len(log[t]) : i \in 1..Len(log'[t])
      BY <1>0, <3>1
    <3> HIDE DEF t
    <3>4. {i \in 1..Len(log'[t]) : log'[t][i] = j} = {i \in 1..Len(log[t]) : log[t][i] = j}
      BY <3>2, <3>3
    <3> QED
      BY <3>4 DEF Occurs, t
  <2> QED
    BY <2>2, <2>3
<1> QED
  BY <1>1, <1>2, LogStep

\* A message is run, or its run cut, while it is the one at hand, which is not committed.
LEMMA RunIsOwed ==
    ASSUME TInv, LogPlaces, [Next]_vars, NEW j \in Jobs, place[j] = "log",
           Runs'[j] # Runs[j] \/ broken'[j] # broken[j]
    PROVE  Phase[j] = "owed"
<1> DEFINE i == cursor[hand] + 1
<1>0. /\ Runs[j] = handled[j] + failed[j] /\ Runs'[j] = handled'[j] + failed'[j]
      /\ broken \in [Jobs -> Nat] /\ hand \in Tasks \cup {NoQueue}
  BY DEF Runs, TInv, TypeOK
<1>1. ~ UNCHANGED <<handled, failed, broken>>
  BY <1>0
<1>2. ASSUME hand # NoQueue, log[hand][i] = j PROVE Phase[j] = "owed"
  <2>1. TaskOf[j] = hand /\ hand \in Tasks /\ i \in 1..Len(log[hand])
    BY <1>2, RunningFacts
  <2>2. committed[hand] <= cursor[hand] /\ committed[hand] \in Nat /\ cursor[hand] \in Nat
    BY <2>1 DEF TInv, TypeOK
  <2>3. i \in Occurs(j) /\ i > committed[TaskOf[j]]
    BY <1>2, <2>1, <2>2 DEF Occurs
  <2> QED
    BY <2>3, PhaseIs DEF PhaseFits
<1>3. CASE FinishKafka
  <2>1. PICK o \in Outcomes(log[hand][i]) : Ran(log[hand][i], o)
    BY <1>3 DEF FinishKafka
  <2>2. hand # NoQueue /\ log[hand][i] \in Jobs
    BY <1>3, RunningFacts DEF FinishKafka
  <2>3. log[hand][i] # j => handled'[j] = handled[j] /\ failed'[j] = failed[j] /\ broken' = broken
    BY <2>1, <2>2, RanFacts
  <2> QED
    BY <1>0, <1>2, <2>2, <2>3
<1>4. ASSUME NEW d \in Drivers, NEW st, Die(d, st) PROVE Phase[j] = "owed"
  <2>1. handled' = handled /\ failed' = failed
    BY <1>4 DEF Die
  <2>2. broken'[j] = broken[j] + (IF j \in Cut(d) THEN 1 ELSE 0) /\ broken[j] \in Nat
    BY <1>0, <1>4, DieFacts
  <2>3. j \in Cut(d)
    BY <1>0, <2>1, <2>2
  <2>4. j \notin Running(d)
    BY RunningFacts DEF Drivers
  <2>5. hand # NoQueue /\ log[hand][i] = j
    BY <2>3, <2>4, CutFacts
  <2> QED
    BY <1>2, <2>5
<1>5. ASSUME NEW d \in Drivers, Exit(d) PROVE FALSE
  <2>1. j \notin Running(d)
    BY RunningFacts DEF Drivers
  <2>2. handled' = handled /\ failed' = failed /\ broken'[j] = broken[j] + 0
    BY <1>5, <2>1 DEF Exit
  <2>3. broken[j] \in Nat
    BY <1>0
  <2> QED
    BY <1>0, <2>2, <2>3
<1>6. ASSUME NEW k \in Jobs, (\E d \in Drivers : Take(d, k)) \/ FinishRedis(k) \/ FinishRabbit(k) PROVE FALSE
  <2>1. (\E d \in Drivers : Take(d, k)) => UNCHANGED <<handled, failed, broken>>
    BY DEF Take, history
  <2>2. ASSUME FinishRedis(k) \/ FinishRabbit(k) PROVE FALSE
    <3>1. k # j
      BY <2>2 DEF FinishRedis, FinishRabbit
    <3>2. \E o \in Outcomes(k) : Ran(k, o)
      BY <2>2 DEF FinishRedis, FinishRabbit
    <3>3. handled'[j] = handled[j] /\ failed'[j] = failed[j] /\ broken' = broken
      BY <3>1, <3>2, RanFacts
    <3> QED
      BY <1>0, <3>3
  <2> QED
    BY <1>1, <1>6, <2>1, <2>2
<1>7. ~API
  BY <1>1 DEF API, EnqueueNowhere, EnqueueRedis, EnqueueRabbit, EnqueueKafka, LoseKafka, Enqueued,
              history
<1>8. ASSUME NEW t \in Tasks, FetchKafka(t) PROVE FALSE
  BY <1>1, <1>8 DEF FetchKafka, history
<1>9. ~ (StartRedis \/ StartRabbit \/ StartKafka)
  BY <1>1 DEF StartRedis, StartRabbit, StartKafka, Up, history
<1>10. ASSUME NEW d \in Drivers, Stop(d) PROVE FALSE
  BY <1>1, <1>10 DEF Stop, history
<1>11. ~ UNCHANGED vars
  BY <1>1 DEF vars
<1>12. ASSUME NEW d \in Drivers, Crash(d) \/ Kill(d) PROVE Phase[j] = "owed"
  BY <1>4, <1>12 DEF Crash, Kill
<1>13. CASE Disconnect
  BY <1>4, <1>13 DEF Disconnect, Drivers
<1>15. ASSUME NEW k \in Jobs, Hang(k) PROVE FALSE
  BY <1>1, <1>15 DEF Hang, history
<1>14. CASE Work
  BY <1>3, <1>6, <1>8, <1>14, <1>15 DEF Work
<1> QED
  BY <1>5, <1>7, <1>9, <1>10, <1>11, <1>12, <1>13, <1>14 DEF Next

\* A job in a log is owed or over, and over for good.
LEMMA LogPhase ==
    ASSUME TInv, TInv', LogPlaces, [Next]_vars, NEW j \in Jobs, place[j] = "log", place'[j] = "log",
           PhaseFits(j), PhaseFits(j)'
    PROVE  /\ Phase[j] \in {"owed", "over"} /\ Phase'[j] \in {"owed", "over"}
           /\ Phase[j] = "over" => Phase'[j] = "over"
<1> DEFINE t == TaskOf[j]
<1>1. /\ Phase[j] = IF \E i \in Occurs(j) : i > committed[t] THEN "owed" ELSE "over"
      /\ Phase'[j] = IF \E i \in Occurs(j)' : i > committed'[t] THEN "owed" ELSE "over"
  BY DEF PhaseFits
<1>2. Occurs(j)' = Occurs(j)
  BY OccursStay
<1>3. t \in Tasks /\ committed[t] \in Nat /\ committed'[t] \in Nat /\ committed[t] <= committed'[t]
  BY TaskTypes, CommittedStep
<1>4. \A i \in Occurs(j) : i \in Int
  BY DEF Occurs
<1> HIDE DEF t
<1>5. \A i \in Occurs(j) : i > committed'[t] => i > committed[t]
  BY <1>3, <1>4
<1> QED
  BY <1>1, <1>2, <1>5

\* What is enqueued on kafka is owed.
LEMMA EnqueuedIsOwed ==
    ASSUME TInv, TInv', NEW j \in Jobs, EnqueueKafka(j), PhaseFits(j)'
    PROVE  Phase'[j] = "owed"
<1> DEFINE t == TaskOf[j]
           n == Len(log[t]) + 1
<1>1. t \in Tasks /\ committed[t] \in Nat /\ cursor[t] \in Nat /\ committed[t] <= cursor[t]
      /\ cursor[t] <= Len(log[t]) /\ Len(log[t]) \in Nat
  BY TaskTypes, LenProperties DEF TInv, TypeOK
<1>2. committed' = committed
  BY DEF EnqueueKafka, Enqueued
<1>3. /\ Len(log'[t]) \in Len(log[t]) + 1 .. Len(log[t]) + Attempts
      /\ \A i \in 1..Len(log'[t]) : i > Len(log[t]) => log'[t][i] = j
      /\ place'[j] = "log"
  BY LogGrows
<1>4. n \in 1..Len(log'[t]) /\ log'[t][n] = j /\ n > committed'[t]
  <2> DEFINE m == Len(log[t])
             k == Len(log'[t])
  <2>1. m \in Nat /\ k \in m + 1 .. m + Attempts /\ committed'[t] = committed[t] /\ committed[t] <= m
    BY <1>1, <1>2, <1>3
  <2>2. \A i \in 1..k : i > m => log'[t][i] = j
    BY <1>3
  <2>3. n = m + 1 /\ committed[t] \in Nat
    BY <1>1
  <2> HIDE DEF m, k, n, t
  <2>4. n \in 1..k /\ n > m /\ n > committed'[t]
    BY <2>1, <2>3
  <2> QED
    BY <2>2, <2>4 DEF k
<1>5. n \in Occurs(j)' /\ n > committed'[TaskOf[j]]
  BY <1>4 DEF Occurs
<1> QED
  BY <1>3, <1>5 DEF PhaseFits

\* What a step may do to a job is what the contract lets happen to it.
LEMMA ContractStep ==
    ASSUME TInv, TInv', LogPlaces, [Next]_vars, NEW j \in Jobs,
           PhaseFits(j), PhaseFits(j)', OverIsRun(j), OverIsRun(j)'
    PROVE  \/ Contract!Same(j) \/ Contract!Enqueue(j) \/ Contract!Return(j)
           \/ Contract!CutShort(j) \/ Contract!Acknowledge(j)
<1> USE DEF Contract!Same, Contract!Enqueue, Contract!Return, Contract!CutShort, Contract!Acknowledge
<1> DEFINE patience == [i \in Jobs |-> MaxRetry(TaskOf[i])]
<1>0. /\ handled[j] \in Nat /\ failed[j] \in Nat /\ broken[j] \in Nat
      /\ handled'[j] \in Nat /\ failed'[j] \in Nat /\ broken'[j] \in Nat
      /\ Runs[j] = handled[j] + failed[j] /\ Runs'[j] = handled'[j] + failed'[j]
      /\ patience[j] = MaxRetry(TaskOf[j]) /\ MaxRetry(TaskOf[j]) \in Nat
  BY TaskTypes DEF TInv, Runs
<1>1. JobStep(j)
  BY NextStep
<1>2. CASE Still(j)
  <2>1. Runs'[j] = Runs[j] /\ broken'[j] = broken[j] /\ place'[j] = place[j]
    BY <1>0, <1>2 DEF Still
  <2>2. CASE place[j] # "log"
    <3>1. Phase'[j] = Phase[j]
      BY <2>1, <2>2 DEF PhaseFits, TInv, TypeOK, Places
    <3> QED
      BY <2>1, <3>1
  <2>3. CASE place[j] = "log"
    <3>1. /\ Phase[j] \in {"owed", "over"} /\ Phase'[j] \in {"owed", "over"}
          /\ Phase[j] = "over" => Phase'[j] = "over"
      BY <2>1, <2>3, LogPhase
    <3>2. Phase'[j] = "over" => Runs[j] > 0
      BY <2>1, <2>3 DEF OverIsRun
    <3> QED
      BY <2>1, <3>1, <3>2
  <2> QED
    BY <2>2, <2>3
<1>3. CASE Posted(j)
  <2>1. Phase[j] = "new" /\ Runs'[j] = Runs[j] /\ broken'[j] = broken[j]
    BY <1>0, <1>3 DEF Posted, PhaseFits
  <2>2. Phase'[j] \in {"absent", "owed"}
    <3>1. CASE place'[j] \in {"skipped", "refused", "redis", "rabbitmq", "dropped"}
      BY <3>1 DEF PhaseFits
    <3>2. CASE EnqueueKafka(j)
      BY <3>2, EnqueuedIsOwed
    <3> QED
      BY <1>3, <3>1, <3>2 DEF Posted
  <2> QED
    BY <2>1, <2>2
<1>4. CASE Taken(j)
  <2>1. Phase[j] = "owed" /\ Phase'[j] = "owed"
    BY <1>4 DEF Taken, PhaseFits
  <2> QED
    BY <1>0, <1>4, <2>1 DEF Taken
<1>5. CASE Returned(j)
  <2>1. Runs'[j] = Runs[j] + 1 /\ broken'[j] = broken[j]
    BY <1>0, <1>5 DEF Returned
  <2>2. Phase[j] = "owed" /\ Phase'[j] \in {"owed", "over"}
    <3>1. CASE place[j] = "log" /\ place'[j] = "log"
      <4>1. Phase[j] = "owed"
        BY <1>0, <2>1, <3>1, RunIsOwed
      <4> QED
        BY <3>1, <4>1, LogPhase
    <3>2. CASE /\ place[j] \in {"redis-run", "rabbitmq-run"}
               /\ place'[j] \in {"done", "redis", "archived", "discarded"}
      BY <3>2 DEF PhaseFits
    <3> QED
      BY <1>5, <3>1, <3>2 DEF Returned
  <2> QED
    BY <2>1, <2>2
<1>6. CASE CutOff(j)
  <2>1. Runs'[j] = Runs[j] /\ broken'[j] = broken[j] + 1
    BY <1>0, <1>6 DEF CutOff
  <2>2. Phase[j] = "owed" /\ Phase'[j] \in {"owed", "over"}
    <3>1. CASE place[j] = "log" /\ place'[j] = "log"
      <4>1. Phase[j] = "owed"
        BY <1>0, <2>1, <3>1, RunIsOwed
      <4> QED
        BY <3>1, <4>1, LogPhase
    <3>2. CASE /\ place[j] \in {"redis-run", "rabbitmq-run"}
               /\ place'[j] \in {"redis", "archived", "rabbitmq"}
      BY <3>2 DEF PhaseFits
    <3> QED
      BY <1>6, <3>1, <3>2 DEF CutOff
  <2>3. Phase'[j] = "over" => Runs[j] > 0 \/ broken'[j] > patience[j]
    BY <1>0, <2>1 DEF OverIsRun
  <2> QED
    BY <2>1, <2>2, <2>3
<1> QED
  BY <1>1, <1>2, <1>3, <1>4, <1>5, <1>6 DEF JobStep

\* Whatever the settings route a job to, and whatever stops, dies or loses its connection:
\* the queue keeps its contract.
THEOREM QueueKeepsContract == Spec => ContractSpec
<1>1. Init => Contract!Init
  <2> SUFFICES ASSUME Init PROVE Contract!Init
    OBVIOUS
  <2>1. Phase = [j \in Jobs |-> "new"] /\ Runs = [j \in Jobs |-> 0]
    BY DEF Init, Phase, Runs
  <2> QED
    BY <2>1 DEF Init, Contract!Init
<1>2. TInv /\ LogPlaces /\ JobsSound /\ KafkaInv => \A j \in Jobs : PhaseFits(j) /\ OverIsRun(j)
  BY PhaseIs, OverReason
<1>3. /\ TInv /\ LogPlaces /\ \A j \in Jobs : PhaseFits(j) /\ OverIsRun(j)
      /\ TInv' /\ (\A j \in Jobs : PhaseFits(j) /\ OverIsRun(j))'
      /\ [Next]_vars
      => [Contract!Next]_<<Phase, Runs, broken>>
  <2> SUFFICES ASSUME TInv, TInv', LogPlaces, [Next]_vars,
                      \A j \in Jobs : PhaseFits(j) /\ OverIsRun(j),
                      \A j \in Jobs : PhaseFits(j)' /\ OverIsRun(j)'
               PROVE  Contract!Next
    OBVIOUS
  <2>1. Phase' \in [Jobs -> Contract!Phases]
    BY DEF PhaseFits, Phase
  <2>2. Runs' \in [Jobs -> Nat] /\ broken' \in [Jobs -> Nat]
    BY DEF TInv, Runs
  <2> QED
    BY <2>1, <2>2, ContractStep DEF Contract!Next
<1> QED
  BY <1>1, <1>2, <1>3, Typed, Placed, LogKept, PTL DEF Spec, ContractSpec, Contract!Spec, Contract!contractVars
=============================================================================
