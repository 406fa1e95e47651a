-------------------------------- MODULE Kafka --------------------------------
(***************************************************************************)
(* mnemos-kafka: connections that send Produce, Fetch, ListOffsets and     *)
(* Metadata requests, the broker thread that serves them one at a time,    *)
(* and the log that it keeps in the keyspace of a mnemos server through a  *)
(* RESP link.                                                              *)
(*                                                                         *)
(* One call over the link is one step, because others use the keyspace at  *)
(* the same time: other brokers, and the broker's own commands of a call   *)
(* that it has given up, which the server may still execute.  There is one *)
(* topic, and a request names one partition of it.                         *)
(***************************************************************************)
EXTENDS Integers, Sequences, FiniteSets, FiniteSetsExt

CONSTANTS
  Conns,          \* client connections
  Requests,       \* Requests[c][i]: what the i-th request on descriptor c may be
  Partitions,     \* the partition numbers that requests name
  Default,        \* config_.default_partitions
  Theirs,         \* another broker's
  AutoCreate,     \* config_.auto_create_topics
  Now,            \* the time stamped on a record that has none
  MaxFetch,       \* kMaxFetchRecords
  MaxWait,        \* kMaxFetchWaitMs, in ticks
  MaxTheirs,      \* bound: records that another broker appends
  MaxLate         \* bound: commands of calls given up that are still to be executed

\* What a request may hold, once it is read.
RequestForms ==
  [op : {"produce"}, p : Partitions, acks : Int, whole : BOOLEAN,
   records : Seq([ts : Int, size : Nat])]
  \cup [op : {"fetch"}, p : Partitions, offset : Int, max : Int, min : Int, wait : Int]
  \cup [op : {"offsets"}, p : Partitions, ts : Int]
  \cup [op : {"metadata"}, all : BOOLEAN, create : BOOLEAN]
  \cup [op : {"apiVersions", "unknown"}]

ASSUME KafkaAssumption ==
  /\ Partitions \subseteq Int
  /\ \A c \in Conns : Requests[c] \in Seq(SUBSET RequestForms)
  /\ Default \in Nat \ {0} /\ Theirs \in Nat \ {0} /\ MaxFetch \in Nat \ {0}
  /\ MaxWait \in Nat \ {0} /\ Now \in Int
  /\ AutoCreate \in BOOLEAN

VARIABLES
  listed,         \* the topic is a member of "kafka:topics"
  parts,          \* the field "partitions" of "kafka:meta:<topic>"; 0: absent
  log,            \* log[p]: the list "kafka:log:<topic>:<p>"
  late,           \* commands sent on links given up, not executed yet
  conn,           \* conns_ in KafkaServer
  job,            \* the request that the thread is serving
  asked,          \* history: requests received on each descriptor
  reply           \* history: the last response on each open connection

store == <<listed, parts, log>>
clients == <<conn, asked, reply>>
vars == <<store, late, job, clients>>

NoJob == [at |-> "idle"]
Idle == job = NoJob
NoReply == [id |-> 0, req |-> [op |-> "none"]]

Closed == [open |-> FALSE, in |-> <<>>, ready |-> FALSE, parked |-> <<>>, deadline |-> 0]
NewConn == [open |-> TRUE, in |-> <<>>, ready |-> FALSE, parked |-> <<>>, deadline |-> 0]

-----------------------------------------------------------------------------
(* The keyspace, and the calls over the link.                              *)

Sadd == [op |-> "SADD"]
Hsetnx == [op |-> "HSETNX", n |-> Default]
Rpush(p, records) == [op |-> "RPUSH", p |-> p, records |-> records]

\* What the server does with a command, at once: each key has its own.
sadd(cmd) == listed' = (listed \/ cmd.op = "SADD")
hsetnx(cmd) == parts' = IF cmd.op = "HSETNX" /\ parts = 0 THEN cmd.n ELSE parts
pushGeneric(cmd) ==
  log' = IF cmd.op = "RPUSH" THEN [log EXCEPT ![cmd.p] = @ \o cmd.records] ELSE log
Execute(cmd) == sadd(cmd) /\ hsetnx(cmd) /\ pushGeneric(cmd)

\* PartitionLog::call.  A call is answered; or it fails and the server never has the
\* command; or it is given up, on a timeout or a broken link, and the server may
\* execute the command all the same, then or later.  The link is closed either way,
\* so no later call reads the answer.
Answered(cmd) == Execute(cmd) /\ UNCHANGED late
Fails(cmd) ==
  /\ late' \in {late, late \cup {cmd}} /\ Cardinality(late') <= MaxLate
  /\ UNCHANGED store

\* A call that only reads has no effect on the store, answered or not.
Reads == UNCHANGED <<store, late>>

-----------------------------------------------------------------------------
(* Broker: what a request does next, from what it has found so far.  A job *)
(* is a request being served: the call it is at, and what it has learnt.   *)

NewJob(c, frame, allow, poll) ==
  [at |-> "start", c |-> c, id |-> frame.id, req |-> frame.req, allow |-> allow, poll |-> poll,
   hw |-> 0, lo |-> 0, hi |-> 0, out |-> NoReply]

Goto(j, at) == [j EXCEPT !.at = at]
Outcome(j, kind, response) == [j EXCEPT !.at = kind, !.out = response]
Close(j) == Outcome(j, "Close", NoReply)

\* The parts of a response that properties are about.
Response(j, error, offset, records) ==
  IF error # "None" \/ j.req.op \in {"metadata", "apiVersions"} THEN [NoReply EXCEPT !.id = j.id]
  ELSE [id |-> j.id, req |-> j.req, offset |-> offset, hw |-> j.hw, records |-> records]
Responds(j, error, offset, records) ==
  Outcome(j, IF j.req.op = "produce" /\ j.req.acks = 0 THEN "Silence" ELSE "Respond",
          Response(j, error, offset, records))

Bytes(records) == MapThenSumSet(LAMBDA i : records[i].size, DOMAIN records)

\* The trim to the partition's byte budget: the loop stops where the records so far
\* exceed it, but never at the first.
ExceedsAtOnce(records, budget, k) ==
  budget > 0 /\ Bytes(SubSeq(records, 1, k + 1)) > budget
Exceeds(records, budget, k) ==
  k > 0 /\ budget > 0 /\ Bytes(SubSeq(records, 1, k + 1)) > budget
Kept(records, budget) ==
  {k \in 0 .. Len(records) : /\ \A i \in 0 .. k - 1 : ~Exceeds(records, budget, i)
                             /\ k = Len(records) \/ Exceeds(records, budget, k)}

\* The end of Broker::fetch: less than was asked for is a reason to wait, and an
\* error counts as nothing found.
Fetches(j, error, records) ==
  IF /\ j.allow /\ j.req.wait > 0
     /\ Bytes(records) < Max({j.req.min, 1})
    THEN Outcome(j, "Retry", NoReply)
    ELSE Responds(j, error, j.req.offset, records)

Unsuccessful(j, error) ==
  IF j.req.op = "fetch" THEN Fetches(j, error, <<>>) ELSE Responds(j, error, -1, <<>>)

MayCreate(req) ==
  /\ AutoCreate
  /\ req.op = "produce" \/ (req.op = "metadata" /\ ~req.all /\ req.create)

\* The handlers, once partitionsFor has returned n.
metadata(j, n) == Responds(j, IF n > 0 THEN "None" ELSE "UnknownTopicOrPartition", n, <<>>)

produce(j, n) ==
  IF j.req.p \notin 0 .. n - 1 THEN Unsuccessful(j, "UnknownTopicOrPartition")
  ELSE IF ~j.req.whole THEN Unsuccessful(j, "CorruptMessage")
  ELSE Goto(j, IF j.req.records = <<>> THEN "LLEN" ELSE "RPUSH")

fetch(j, n) ==
  IF j.req.p \notin 0 .. n - 1 THEN Unsuccessful(j, "UnknownTopicOrPartition") ELSE Goto(j, "LLEN")

listOffsets(j, n) ==
  IF j.req.p \notin 0 .. n - 1 THEN Unsuccessful(j, "UnknownTopicOrPartition")
  ELSE IF j.req.ts = -2 THEN Responds(j, "None", 0, <<>>)
  ELSE Goto(j, "LLEN")

Partitioned(j, n) ==
  CASE j.req.op = "metadata" -> metadata(j, n)
    [] j.req.op = "produce" -> produce(j, n)
    [] j.req.op = "fetch" -> fetch(j, n)
    [] j.req.op = "offsets" -> listOffsets(j, n)

\* The head of handleRequest: a frame that it cannot read, an API or a version that
\* it does not know.
Started(j) ==
  CASE j.req.op = "unknown" -> Close(j)
    [] j.req.op = "apiVersions" -> Responds(j, "None", 0, <<>>)
    [] j.req.op = "metadata" -> Goto(j, IF j.req.all THEN "SMEMBERS" ELSE "HGET")
    [] OTHER -> Goto(j, "HGET")

\* offsetForTimestamp, between two calls.
Bisects(j) ==
  IF j.lo < j.hi THEN Goto(j, "LINDEX")
  ELSE Responds(j, "None", IF j.lo < j.hw THEN j.lo ELSE -1, <<>>)

\* The log's length is known.
Measured(j, hw) ==
  LET k == [j EXCEPT !.hw = hw, !.hi = hw]
  IN CASE j.req.op = "produce" -> Responds(k, "None", hw, <<>>)
       [] j.req.op = "fetch" ->
            IF j.req.offset < 0 \/ j.req.offset > hw THEN Unsuccessful(k, "OffsetOutOfRange")
            ELSE Goto(k, "LRANGE")
       [] j.req.op = "offsets" ->
            IF j.req.ts = -1 THEN Responds(k, "None", hw, <<>>) ELSE Bisects(k)

\* The records of a produce, as they are stored: a record without a time is stamped.
Stamped(j) ==
  [i \in DOMAIN j.req.records |->
     [ts |-> IF j.req.records[i].ts < 0 THEN Now ELSE j.req.records[i].ts,
      size |-> j.req.records[i].size, by |-> <<j.c, j.id, i>>]]
-----------------------------------------------------------------------------
(* KafkaServer::applyOutcome: what becomes of the connection once a job is *)
(* done.  It needs no call, so it is the end of the job's last one.        *)

closeConn(c) ==
  /\ conn' = [conn EXCEPT ![c] = Closed]
  /\ reply' = [reply EXCEPT ![c] = NoReply]

\* A pollParked that answers: no longer parked, and what has queued up behind the
\* fetch is drained.
UnparkedOnly(j) ==
  IF j.poll THEN [conn[j.c] EXCEPT !.parked = <<>>, !.deadline = 0] ELSE conn[j.c]
Unparked(j) ==
  IF j.poll THEN [conn[j.c] EXCEPT !.parked = <<>>, !.deadline = 0, !.ready = TRUE]
  ELSE conn[j.c]

\* The write of a response may find the peer gone.
Respond(j) ==
  \/ /\ conn' = [conn EXCEPT ![j.c] = Unparked(j)]
     /\ reply' = [reply EXCEPT ![j.c] = j.out]
  \/ closeConn(j.c)

Park(j) ==
  /\ conn' = IF j.poll THEN conn
             ELSE [conn EXCEPT ![j.c].parked = <<[id |-> j.id, req |-> j.req]>>,
                               ![j.c].deadline = Min({j.req.wait, MaxWait})]
  /\ UNCHANGED reply

Outcomes == {"Respond", "Silence", "Retry", "Close"}

applyOutcome(j) ==
  CASE j.at = "Respond" -> Respond(j)
    [] j.at = "Silence" -> UNCHANGED <<conn, reply>>
    [] j.at = "Retry" -> Park(j)
    [] j.at = "Close" -> closeConn(j.c)

Becomes(j) ==
  /\ UNCHANGED asked
  /\ IF j.at \in Outcomes
       THEN applyOutcome(j) /\ job' = NoJob
       ELSE job' = j /\ UNCHANGED <<conn, reply>>

-----------------------------------------------------------------------------
(* The thread: one step for each call.                                     *)

At(at) == job.at = at

\* A request that needs no call.
handleRequest == job.at \in Outcomes /\ Becomes(job) /\ Reads

listTopics ==
  /\ At("SMEMBERS")
  /\ \/ Becomes(IF listed THEN Goto(job, "HGET") ELSE Responds(job, "None", 0, <<>>))
     \/ Becomes(Close(job))
  /\ Reads

topicPartitions ==
  /\ At("HGET")
  /\ \/ Becomes(IF parts = 0 /\ MayCreate(job.req) THEN Goto(job, "SADD")
                ELSE Partitioned(job, parts))
     \/ Becomes(Partitioned(job, 0))
  /\ Reads

\* createTopic is two calls, and what the second one found is not asked.
createTopicSwapped ==
  /\ At("SADD") \/ At("HSETNX")
  /\ LET cmd == IF At("SADD") THEN Hsetnx ELSE Sadd
     IN \/ /\ Answered(cmd)
           /\ Becomes(IF At("SADD") THEN Goto(job, "HSETNX") ELSE Partitioned(job, Default))
        \/ Fails(cmd) /\ Becomes(Partitioned(job, 0))
createTopic ==
  /\ At("SADD") \/ At("HSETNX")
  /\ LET cmd == IF At("SADD") THEN Sadd ELSE Hsetnx
     IN \/ /\ Answered(cmd)
           /\ Becomes(IF At("SADD") THEN Goto(job, "HSETNX") ELSE Partitioned(job, Default))
        \/ Fails(cmd) /\ Becomes(Partitioned(job, 0))

\* RPUSH answers the length of the list after it.
BaseOffsetOfOne(length, n) == length - 1
BaseOffset(length, n) == length - n
append ==
  /\ At("RPUSH")
  /\ LET p == job.req.p
         records == Stamped(job)
     IN \/ /\ Answered(Rpush(p, records))
           /\ Becomes(Responds(job, "None", BaseOffset(Len(log'[p]), Len(records)), <<>>))
        \/ Fails(Rpush(p, records)) /\ Becomes(Unsuccessful(job, "KafkaStorageError"))

highWatermark ==
  /\ At("LLEN")
  /\ \/ Becomes(Measured(job, Len(log[job.req.p])))
     \/ Becomes(Unsuccessful(job, "KafkaStorageError"))
  /\ Reads

read ==
  /\ At("LRANGE")
  /\ LET from == job.req.offset
         found == SubSeq(log[job.req.p], from + 1, Min({from + MaxFetch, Len(log[job.req.p])}))
     IN \/ \E k \in Kept(found, job.req.max) : Becomes(Fetches(job, "None", SubSeq(found, 1, k)))
        \/ Becomes(Unsuccessful(job, "KafkaStorageError"))
  /\ Reads

HalvesPastTheEqual(j, mid, ts) ==
  IF ts <= j.req.ts THEN [j EXCEPT !.lo = mid + 1] ELSE [j EXCEPT !.hi = mid]
Halves(j, mid, ts) ==
  IF ts < j.req.ts THEN [j EXCEPT !.lo = mid + 1] ELSE [j EXCEPT !.hi = mid]
offsetForTimestamp ==
  /\ At("LINDEX")
  /\ LET mid == job.lo + ((job.hi - job.lo) \div 2)
     IN \/ Becomes(Bisects(Halves(job, mid, log[job.req.p][mid + 1].ts)))
        \/ Becomes(Unsuccessful(job, "KafkaStorageError"))
  /\ Reads

-----------------------------------------------------------------------------
(* KafkaServer: the connections.                                           *)

\* The loop's test, and the next frame.  A parked fetch holds the pipeline.
drainRequestsAlways(c) ==
  /\ Idle /\ conn[c].ready
  /\ IF conn[c].in = <<>>
       THEN conn' = [conn EXCEPT ![c].ready = FALSE] /\ UNCHANGED job
       ELSE /\ job' = Started(NewJob(c, Head(conn[c].in), TRUE, FALSE))
            /\ conn' = [conn EXCEPT ![c].in = Tail(@)]
  /\ UNCHANGED <<store, late, asked, reply>>
drainRequests(c) ==
  /\ Idle /\ conn[c].ready
  /\ IF conn[c].parked # <<>> \/ conn[c].in = <<>>
       THEN conn' = [conn EXCEPT ![c].ready = FALSE] /\ UNCHANGED job
       ELSE /\ job' = Started(NewJob(c, Head(conn[c].in), TRUE, FALSE))
            /\ conn' = [conn EXCEPT ![c].in = Tail(@)]
  /\ UNCHANGED <<store, late, asked, reply>>

\* The timer re-runs a parked fetch, which may wait on until its deadline.
pollParked(c) ==
  /\ Idle /\ conn[c].parked # <<>>
  /\ job' = Started(NewJob(c, Head(conn[c].parked), conn[c].deadline > 0, TRUE))
  /\ UNCHANGED <<store, late, clients>>

onReadable(c) ==
  /\ Idle /\ conn[c].open
  /\ \/ /\ asked[c] < Len(Requests[c])
        /\ \E req \in Requests[c][asked[c] + 1] :
             conn' = [conn EXCEPT ![c].ready = TRUE,
                                  ![c].in = Append(@, [id |-> asked[c] + 1, req |-> req])]
        /\ asked' = [asked EXCEPT ![c] = @ + 1]
        /\ UNCHANGED reply
     \/ closeConn(c) /\ UNCHANGED asked
  /\ UNCHANGED <<store, late, job>>

onAcceptable(c) ==
  /\ Idle /\ ~conn[c].open /\ asked[c] = 0
  /\ conn' = [conn EXCEPT ![c] = NewConn]
  /\ UNCHANGED <<store, late, job, asked, reply>>

-----------------------------------------------------------------------------
(* The others: time, commands on links given up, and another broker.       *)

Tick ==
  /\ \E c \in Conns : conn[c].deadline > 0
  /\ conn' = [c \in Conns |-> [conn[c] EXCEPT !.deadline = Max({@ - 1, 0})]]
  /\ UNCHANGED <<store, late, job, asked, reply>>

Overdue ==
  \E cmd \in late :
    /\ late' = late \ {cmd}
    /\ Execute(cmd) \/ UNCHANGED store
    /\ UNCHANGED <<job, clients>>

OtherBroker ==
  /\ \/ ~listed /\ Execute(Sadd)
     \/ listed /\ parts = 0 /\ Execute([Hsetnx EXCEPT !.n = Theirs])
     \/ \E p \in Partitions :
          /\ p \in 0 .. parts - 1
          /\ Cardinality({i \in DOMAIN log[p] : log[p][i].by = <<>>}) < MaxTheirs
          /\ Execute(Rpush(p, <<[ts |-> Now, size |-> 1, by |-> <<>>]>>))
  /\ UNCHANGED <<late, job, clients>>

Init ==
  /\ listed = FALSE /\ parts = 0 /\ log = [p \in Partitions |-> <<>>]
  /\ late = {}
  /\ conn = [c \in Conns |-> Closed]
  /\ job = NoJob
  /\ asked = [c \in Conns |-> 0]
  /\ reply = [c \in Conns |-> NoReply]

Serve ==
  \/ handleRequest \/ listTopics \/ topicPartitions \/ createTopic \/ append
  \/ highWatermark \/ read \/ offsetForTimestamp

Next ==
  \/ Serve \/ Tick \/ Overdue \/ OtherBroker
  \/ \E c \in Conns :
       onAcceptable(c) \/ onReadable(c) \/ drainRequests(c) \/ pollParked(c)

Spec == Init /\ [][Next]_vars

\* A call ends, at the latest by its timeout, and time passes.  Every turn of the loop
\* sees to each readable descriptor and each due timer, so neither is put off forever.
FairSpec ==
  /\ Spec
  /\ WF_vars(Serve) /\ WF_vars(Tick)
  /\ \A c \in Conns : SF_vars(drainRequests(c)) /\ SF_vars(pollParked(c))

-----------------------------------------------------------------------------
(* Properties.                                                             *)

Succeeded(c, op) == reply[c].req.op = op

\* An acknowledged produce: its records are in the partition's log, in their order
\* and from the offset that the response names, whatever others have appended
\* meanwhile (append computes the base from the reply to its RPUSH).
AckedAtOffset ==
  \A c \in Conns : Succeeded(c, "produce") =>
    LET r == reply[c]
    IN \A i \in DOMAIN r.req.records :
         /\ r.offset + i \in DOMAIN log[r.req.p]
         /\ log[r.req.p][r.offset + i].by = <<c, r.id, i>>

\* A fetch returns a run of the log from the offset asked for, with no record left
\* out, and at least one when there is one, whatever the byte budget: a consumer
\* that goes on after the last record it got sees each record once and never stalls.
FetchIsTheNextRun ==
  \A c \in Conns : Succeeded(c, "fetch") =>
    LET r == reply[c]
        next == r.req.offset + Len(r.records)
    IN /\ r.req.offset >= 0 /\ next <= Len(log[r.req.p])
       /\ r.records = SubSeq(log[r.req.p], r.req.offset + 1, next)
       /\ r.req.offset < r.hw => r.records # <<>>

\* ListOffsets for a time: over a log whose times do not go down, the first record at
\* or after that time among those that were there, and -1 when there is none.
BisectionIsExact ==
  \A c \in Conns : (Succeeded(c, "offsets") /\ reply[c].req.ts >= 0) =>
    LET r == reply[c]
        times == [i \in 1..r.hw |-> log[r.req.p][i].ts]
        hits == {i \in 1..r.hw : times[i] >= r.req.ts}
    IN (\A i, k \in 1..r.hw : i < k => times[i] <= times[k]) =>
         r.offset = IF hits = {} THEN -1 ELSE Min(hits) - 1

\* Responses leave a connection in the order in which its requests came: what waits,
\* a parked fetch before what queued behind it, is younger than all that is answered.
AnswersInOrder ==
  \A c \in Conns :
    LET waiting == conn[c].parked \o conn[c].in
    IN /\ \A i \in DOMAIN waiting : waiting[i].id > reply[c].id
       /\ \A i, k \in DOMAIN waiting : i < k => waiting[i].id < waiting[k].id

\* Once a topic has partitions it is listed, and their number never changes, although
\* createTopic may fail between its two calls, be repeated, and race another broker
\* with another default ("a later produce cannot silently repartition it").
TopicIsSettled == [][parts' # 0 => listed' /\ (parts # 0 => parts' = parts)]_vars

\* Every request is answered, or needs no answer, or its connection is closed: a
\* fetch that waits is answered by its deadline, and what queued up behind it after
\* it, so that once the clients are done asking nothing waits anywhere.
Waits(c) == conn[c].in # <<>> \/ conn[c].parked # <<>>
RequestsAreServed == (\E c \in Conns : Waits(c)) ~> (\A c \in Conns : ~Waits(c))
=============================================================================
