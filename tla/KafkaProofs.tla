---------------------------- MODULE KafkaProofs ----------------------------
(***************************************************************************)
(* What the broker's responses say, for any number of connections,         *)
(* partitions and requests: proofs.                                        *)
(***************************************************************************)
EXTENDS Kafka, TLAPS

(* The time that a leaf may take.                                           *)
USE SMTT(40), ZenonT(40), Z3T(40)

Given == [ts : Int, size : Nat]
Stored == [ts : Int, size : Nat, by : {<< >>} \cup (Conns \X Nat \X Nat)]
Logs == [Partitions -> Seq(Stored)]
Orders ==
  [op : {"SADD"}] \cup [op : {"HSETNX"}, n : {Default}]
  \cup [op : {"RPUSH"}, p : Partitions, records : Seq(Stored)]
Frames == [id : Nat, req : RequestForms]
Connections ==
  [open : BOOLEAN, in : Seq(Frames), ready : BOOLEAN, parked : Seq(Frames), deadline : Int]
Refusals == [id : Nat, req : {[op |-> "none"]}]
Answers == [id : Nat, req : RequestForms, offset : Int, hw : Nat, records : Seq(Stored)]
Replies == Refusals \cup Answers
Calls == {"SMEMBERS", "HGET", "SADD", "HSETNX", "RPUSH", "LLEN", "LRANGE", "LINDEX"}
Jobs ==
  [at : {"start"} \cup Calls \cup Outcomes, c : Conns, id : Nat, req : RequestForms,
   allow : BOOLEAN, poll : BOOLEAN, hw : Nat, lo : Nat, hi : Nat, out : Replies]

TypeOK ==
  /\ listed \in BOOLEAN /\ parts \in Nat /\ log \in Logs
  /\ late \subseteq Orders
  /\ conn \in [Conns -> Connections]
  /\ job \in {NoJob} \cup Jobs
  /\ asked \in [Conns -> Nat]
  /\ reply \in [Conns -> Replies]

(***************************************************************************)
(* What a response promises of logs L, which only grow.                    *)
(***************************************************************************)

Holds(L, c, r) ==
  \A i \in DOMAIN r.req.records :
    /\ r.offset + i \in 1 .. Len(L[r.req.p])
    /\ L[r.req.p][r.offset + i].by = <<c, r.id, i>>

IsRun(records, s, from) ==
  /\ from >= 0 /\ from + Len(records) <= Len(s)
  /\ \A i \in 1 .. Len(records) : records[i] = s[from + i]

Sorted(s, n) == \A i, k \in 1 .. n : i < k => s[i].ts <= s[k].ts

(* Those of the first n records that are at or after ts are the ones past   *)
(* offset k.                                                                *)
Splits(s, n, ts, k) ==
  /\ \A i \in 1 .. n : i <= k => s[i].ts < ts
  /\ \A i \in 1 .. n : k < i => s[i].ts >= ts

ReplyOK(L, c, r) ==
  /\ r.req.op = "produce" => Holds(L, c, r)
  /\ r.req.op = "fetch" =>
       /\ IsRun(r.records, L[r.req.p], r.req.offset)
       /\ r.req.offset < r.hw => r.records # << >>
  /\ r.req.op = "offsets" /\ r.req.ts >= 0 =>
       /\ r.hw <= Len(L[r.req.p])
       /\ Sorted(L[r.req.p], r.hw) =>
            \/ r.offset = -1 /\ Splits(L[r.req.p], r.hw, r.req.ts, r.hw)
            \/ r.offset \in 0 .. r.hw - 1 /\ Splits(L[r.req.p], r.hw, r.req.ts, r.offset)

(* How far a bisection has come.                                            *)
Bisected(s, j) ==
  /\ j.hi <= j.hw /\ j.hw <= Len(s)
  /\ Sorted(s, j.hw) => /\ \A i \in 1 .. j.hw : i <= j.lo => s[i].ts < j.req.ts
                        /\ \A i \in 1 .. j.hw : j.hi < i => s[i].ts >= j.req.ts

(* What a job has learnt by the time it makes a call; b: the topic is       *)
(* listed.                                                                  *)
JobOK(L, b, j) ==
  /\ j.at = "SMEMBERS" => j.req.op = "metadata" /\ j.lo = 0
  /\ j.at \in {"HGET", "SADD", "HSETNX"} =>
       j.req.op \in {"metadata", "produce", "fetch", "offsets"} /\ j.lo = 0
  /\ j.at = "HSETNX" => b
  /\ j.at = "RPUSH" => j.req.op = "produce"
  /\ j.at = "LLEN" => /\ j.req.op \in {"produce", "fetch", "offsets"} /\ j.lo = 0
                      /\ j.req.op = "produce" => j.req.records = << >>
  /\ j.at = "LRANGE" => /\ j.req.op = "fetch"
                        /\ j.req.offset \in 0 .. j.hw /\ j.hw <= Len(L[j.req.p])
  /\ j.at = "LINDEX" => /\ j.req.op = "offsets"
                        /\ j.lo < j.hi /\ Bisected(L[j.req.p], j)
  /\ j.at = "Retry" => j.req.op = "fetch"
  /\ j.at = "Respond" => j.out.id = j.id /\ ReplyOK(L, j.c, j.out)

SafeInv ==
  /\ TypeOK
  /\ job # NoJob => JobOK(log, listed, job)
  /\ \A c \in Conns : ReplyOK(log, c, reply[c])

(***************************************************************************)
(* The order of requests.                                                  *)
(***************************************************************************)

(* What waits on connection c is younger than n, and in order.              *)
Younger(c, n) ==
  /\ \A i \in 1 .. Len(conn[c].in) : n < conn[c].in[i].id /\ conn[c].in[i].id <= asked[c]
  /\ \A i, k \in 1 .. Len(conn[c].in) : i < k => conn[c].in[i].id < conn[c].in[k].id

OrderOK(c) ==
  /\ ~conn[c].open => conn[c] = Closed /\ reply[c] = NoReply
  /\ reply[c].id <= asked[c]
  /\ Younger(c, reply[c].id)
  /\ conn[c].parked # << >> =>
       /\ Len(conn[c].parked) = 1
       /\ reply[c].id < conn[c].parked[1].id /\ conn[c].parked[1].id <= asked[c]
       /\ Younger(c, conn[c].parked[1].id)

(* The request that is being served is the next to be answered.             *)
ServedOK ==
  job # NoJob =>
    /\ conn[job.c].open
    /\ IF job.poll THEN /\ conn[job.c].parked # << >>
                        /\ conn[job.c].parked[1] = [id |-> job.id, req |-> job.req]
       ELSE /\ conn[job.c].parked = << >>
            /\ reply[job.c].id < job.id /\ job.id <= asked[job.c]
            /\ Younger(job.c, job.id)

OrderInv == TypeOK /\ ServedOK /\ \A c \in Conns : OrderOK(c)

(***************************************************************************)
(* The topic.                                                              *)
(***************************************************************************)

TopicInv ==
  /\ TypeOK
  /\ parts # 0 => listed
  /\ \A cmd \in late : cmd.op = "HSETNX" => listed

IInv == SafeInv /\ OrderInv /\ TopicInv

(***************************************************************************)
(* Queues and numbers.                                                     *)
(***************************************************************************)

(* The front of a queue.                                                    *)
LEMMA FrontOf ==
  ASSUME NEW S, NEW q \in Seq(S), q # << >>
  PROVE  Head(q) \in S /\ Head(q) = q[1]
OBVIOUS

(* The larger and the smaller of two.                                       *)
LEMMA OfTwo ==
  ASSUME NEW a \in Int, NEW b \in Int
  PROVE  /\ Max({a, b}) = IF a >= b THEN a ELSE b
         /\ Min({a, b}) = IF a <= b THEN a ELSE b
<1>1. \E x \in {a, b} : \A y \in {a, b} : x >= y
  OBVIOUS
<1>2. \E x \in {a, b} : \A y \in {a, b} : x =< y
  OBVIOUS
<1>3. Max({a, b}) \in {a, b} /\ \A y \in {a, b} : Max({a, b}) >= y
  BY <1>1, ZenonT(40) DEF Max
<1>4. Min({a, b}) \in {a, b} /\ \A y \in {a, b} : Min({a, b}) =< y
  BY <1>2, ZenonT(40) DEF Min
<1> QED
  BY <1>3, <1>4

(***************************************************************************)
(* Requests, jobs and replies.                                             *)
(***************************************************************************)

Operations == {"produce", "fetch", "offsets", "metadata", "apiVersions", "unknown"}

(* What a request of each kind holds.                                       *)
LEMMA RequestTyped ==
  ASSUME NEW r \in RequestForms
  PROVE  /\ r.op \in Operations
         /\ r.op \in {"produce", "fetch", "offsets"} => r.p \in Partitions
         /\ r.op = "produce" => r.whole \in BOOLEAN /\ r.records \in Seq([ts : Int, size : Nat])
         /\ r.op = "fetch" => r.offset \in Int /\ r.wait \in Int
         /\ r.op = "offsets" => r.ts \in Int
BY DEF RequestForms, Operations

(* A job for the same request.                                              *)
Same(k, j) ==
  /\ k \in Jobs
  /\ k.c = j.c /\ k.id = j.id /\ k.req = j.req /\ k.poll = j.poll /\ k.allow = j.allow

(* NewJob, and the changes of a job.                                        *)
LEMMA NewJobTyped ==
  ASSUME NEW c \in Conns, NEW f \in Frames, NEW a \in BOOLEAN, NEW b \in BOOLEAN
  PROVE  LET j == NewJob(c, f, a, b)
         IN /\ j \in Jobs /\ j.at = "start" /\ j.c = c /\ j.id = f.id /\ j.req = f.req
            /\ j.poll = b /\ j.lo = 0
BY DEF NewJob, Jobs, Frames, NoReply, Replies, Refusals

(* Goto.                                                                    *)
LEMMA GotoTyped ==
  ASSUME NEW j \in Jobs, NEW at \in Calls
  PROVE  /\ Same(Goto(j, at), j) /\ Goto(j, at).at = at
         /\ Goto(j, at).hw = j.hw /\ Goto(j, at).lo = j.lo /\ Goto(j, at).hi = j.hi
BY DEF Goto, Same, Jobs

(* Outcome.                                                                 *)
LEMMA OutcomeTyped ==
  ASSUME NEW j \in Jobs, NEW kind \in Outcomes, NEW r \in Replies
  PROVE  /\ Same(Outcome(j, kind, r), j) /\ Outcome(j, kind, r).at = kind
         /\ Outcome(j, kind, r).out = r
BY ZenonT(40) DEF Outcome, Same, Jobs

(* Being the same is transitive.                                            *)
LEMMA SameAsSame ==
  ASSUME NEW i, NEW j, NEW k, Same(k, j), Same(j, i)
  PROVE  Same(k, i)
BY DEF Same

(* Response: a refusal, or the answer.                                      *)
LEMMA ResponseTyped ==
  ASSUME NEW j \in Jobs, NEW e, NEW o \in Int, NEW s \in Seq(Stored)
  PROVE  LET r == Response(j, e, o, s)
         IN /\ r \in Replies /\ r.id = j.id
            /\ \/ r.req.op = "none"
               \/ /\ e = "None"
                  /\ r = [id |-> j.id, req |-> j.req, offset |-> o, hw |-> j.hw, records |-> s]
<1>1. j.id \in Nat /\ j.req \in RequestForms /\ j.hw \in Nat
  BY DEF Jobs
<1>2. [NoReply EXCEPT !.id = j.id] = [id |-> j.id, req |-> [op |-> "none"]]
  BY DEF NoReply
<1>3. [id |-> j.id, req |-> j.req, offset |-> o, hw |-> j.hw, records |-> s] \in Answers
  BY <1>1 DEF Answers
<1>4. [id |-> j.id, req |-> [op |-> "none"]] \in Refusals
  BY <1>1 DEF Refusals
<1> QED
  BY <1>2, <1>3, <1>4 DEF Response, Replies

(* A refusal promises nothing.                                              *)
LEMMA RefusalOK ==
  ASSUME NEW L, NEW c, NEW r, r.req.op = "none"
  PROVE  ReplyOK(L, c, r)
BY DEF ReplyOK

(***************************************************************************)
(* What the handlers make of a job, whose promises are about logs L.       *)
(***************************************************************************)

Good(L, b, k, j) == Same(k, j) /\ JobOK(L, b, k)

(* A response that keeps its promise.                                       *)
LEMMA RespondsGood ==
  ASSUME NEW L, NEW b, NEW j \in Jobs, NEW e, NEW o \in Int, NEW s \in Seq(Stored),
         e = "None" => ReplyOK(L, j.c, [id |-> j.id, req |-> j.req, offset |-> o,
                                        hw |-> j.hw, records |-> s])
  PROVE  Good(L, b, Responds(j, e, o, s), j)
<1> DEFINE r == Response(j, e, o, s)
           kind == IF j.req.op = "produce" /\ j.req.acks = 0 THEN "Silence" ELSE "Respond"
<1>1. r \in Replies /\ r.id = j.id
  BY ResponseTyped
<1>2. ReplyOK(L, j.c, r)
  BY ResponseTyped, RefusalOK
<1>3. kind \in {"Silence", "Respond"} /\ kind \in Outcomes
  BY DEF Outcomes
<1>4. Responds(j, e, o, s) = Outcome(j, kind, r)
  BY DEF Responds
<1> HIDE DEF r, kind
<1>5. Same(Outcome(j, kind, r), j) /\ Outcome(j, kind, r).at = kind /\ Outcome(j, kind, r).out = r
  BY <1>1, <1>3, OutcomeTyped
<1> DEFINE k == Outcome(j, kind, r)
<1> HIDE DEF k
<1>6. k.id = j.id /\ k.c = j.c /\ k.at = kind /\ k.out = r
  BY <1>5 DEF Same, k
<1>7. JobOK(L, b, k)
  BY <1>1, <1>2, <1>3, <1>6 DEF JobOK
<1> QED
  BY <1>4, <1>5, <1>7 DEF Good, k

(* Closing promises nothing.                                                *)
LEMMA CloseGood ==
  ASSUME NEW L, NEW b, NEW j \in Jobs
  PROVE  Good(L, b, Close(j), j)
<1>1. NoReply \in Replies /\ "Close" \in Outcomes
  BY DEF NoReply, Replies, Refusals, Outcomes
<1>2. Same(Close(j), j) /\ Close(j).at = "Close"
  BY <1>1, OutcomeTyped DEF Close
<1> QED
  BY <1>2 DEF Good, JobOK

(* The end of a fetch: it waits or responds.                                *)
LEMMA FetchesGood ==
  ASSUME NEW L, NEW b, NEW j \in Jobs, j.req.op = "fetch", NEW e, NEW s \in Seq(Stored),
         e = "None" => ReplyOK(L, j.c, [id |-> j.id, req |-> j.req, offset |-> j.req.offset,
                                        hw |-> j.hw, records |-> s])
  PROVE  Good(L, b, Fetches(j, e, s), j)
<1>1. NoReply \in Replies /\ "Retry" \in Outcomes
  BY DEF NoReply, Replies, Refusals, Outcomes
<1> DEFINE k == Outcome(j, "Retry", NoReply)
<1>2. Same(k, j) /\ k.at = "Retry" /\ k.req = j.req
  BY <1>1, OutcomeTyped DEF Same
<1> HIDE DEF k
<1>3. Good(L, b, k, j)
  BY <1>2 DEF Good, JobOK
<1>4. j.req.offset \in Int
  BY RequestTyped DEF Jobs
<1>5. Good(L, b, Responds(j, e, j.req.offset, s), j)
  BY <1>4, RespondsGood
<1>6. Fetches(j, e, s) = k \/ Fetches(j, e, s) = Responds(j, e, j.req.offset, s)
  BY DEF Fetches, k
<1> QED
  BY <1>3, <1>5, <1>6

(* An error.                                                                *)
LEMMA UnsuccessfulGood ==
  ASSUME NEW L, NEW b, NEW j \in Jobs, NEW e, e # "None"
  PROVE  Good(L, b, Unsuccessful(j, e), j)
<1>1. << >> \in Seq(Stored) /\ -1 \in Int
  OBVIOUS
<1>2. Good(L, b, Responds(j, e, -1, << >>), j)
  BY <1>1, RespondsGood, ZenonT(40)
<1>3. j.req.op = "fetch" => Good(L, b, Fetches(j, e, << >>), j)
  BY <1>1, FetchesGood, ZenonT(40)
<1> QED
  BY <1>2, <1>3 DEF Unsuccessful

(* A call for which there is nothing to be known.                           *)
LEMMA GotoGood ==
  ASSUME NEW L, NEW b, NEW j \in Jobs, j.lo = 0,
         NEW at \in {"SMEMBERS", "HGET", "SADD", "HSETNX", "RPUSH", "LLEN"},
         at = "SMEMBERS" => j.req.op = "metadata",
         at \in {"HGET", "SADD", "HSETNX"} => j.req.op \in {"metadata", "produce", "fetch", "offsets"},
         at = "HSETNX" => b,
         at = "RPUSH" => j.req.op = "produce",
         at = "LLEN" => /\ j.req.op \in {"produce", "fetch", "offsets"}
                        /\ j.req.op = "produce" => j.req.records = << >>
  PROVE  Good(L, b, Goto(j, at), j)
<1>1. at \in Calls
  BY DEF Calls
<1> DEFINE k == Goto(j, at)
<1>2. Same(k, j) /\ k.at = at /\ k.lo = 0 /\ k.req = j.req
  BY <1>1, GotoTyped DEF Same
<1> HIDE DEF k
<1>3. JobOK(L, b, k)
  BY <1>2 DEF JobOK
<1> QED
  BY <1>2, <1>3 DEF Good, k

(* The handlers, once the number of partitions is known.                    *)
LEMMA PartitionedGood ==
  ASSUME NEW L, NEW b, NEW j \in Jobs, j.lo = 0, NEW n \in Nat,
         j.req.op \in {"metadata", "produce", "fetch", "offsets"}
  PROVE  Good(L, b, Partitioned(j, n), j)
<1>1. << >> \in Seq(Stored) /\ n \in Int /\ 0 \in Int
  OBVIOUS
<1>2. \A e \in {"UnknownTopicOrPartition", "CorruptMessage"} : Good(L, b, Unsuccessful(j, e), j)
  <2>1. "UnknownTopicOrPartition" # "None" /\ "CorruptMessage" # "None"
    OBVIOUS
  <2> QED
    BY <2>1, UnsuccessfulGood, ZenonT(40)
<1>3. CASE j.req.op = "metadata"
  <2>1. ReplyOK(L, j.c, [id |-> j.id, req |-> j.req, offset |-> n, hw |-> j.hw, records |-> << >>])
    BY <1>3 DEF ReplyOK
  <2>2. Good(L, b, metadata(j, n), j)
    BY <1>1, <2>1, RespondsGood, ZenonT(40) DEF metadata
  <2> QED
    BY <1>3, <2>2 DEF Partitioned
<1>4. CASE j.req.op = "produce"
  <2>1. j.req.records = << >> => Good(L, b, Goto(j, "LLEN"), j)
    BY <1>4, GotoGood
  <2>2. Good(L, b, Goto(j, "RPUSH"), j)
    BY <1>4, GotoGood
  <2>3. Good(L, b, produce(j, n), j)
    BY <1>2, <2>1, <2>2 DEF produce
  <2> QED
    BY <1>4, <2>3 DEF Partitioned
<1>5. CASE j.req.op = "fetch"
  <2>1. Good(L, b, Goto(j, "LLEN"), j)
    BY <1>5, GotoGood
  <2>2. Good(L, b, fetch(j, n), j)
    BY <1>2, <2>1 DEF fetch
  <2> QED
    BY <1>5, <2>2 DEF Partitioned
<1>6. CASE j.req.op = "offsets"
  <2>1. Good(L, b, Goto(j, "LLEN"), j)
    BY <1>6, GotoGood
  <2>2. j.req.ts = -2 => ReplyOK(L, j.c, [id |-> j.id, req |-> j.req, offset |-> 0,
                                          hw |-> j.hw, records |-> << >>])
    BY <1>6 DEF ReplyOK
  <2>3. j.req.ts = -2 => Good(L, b, Responds(j, "None", 0, << >>), j)
    BY <1>1, <2>2, RespondsGood, ZenonT(40)
  <2>4. Good(L, b, listOffsets(j, n), j)
    BY <1>2, <2>1, <2>3 DEF listOffsets
  <2> QED
    BY <1>6, <2>4 DEF Partitioned
<1> QED
  BY <1>3, <1>4, <1>5, <1>6

(* The head of handleRequest.                                               *)
LEMMA StartedGood ==
  ASSUME NEW L, NEW b, NEW j \in Jobs, j.lo = 0
  PROVE  Good(L, b, Started(j), j)
<1>1. j.req.op \in Operations
  BY RequestTyped DEF Jobs
<1>2. j.req.op = "apiVersions" => Good(L, b, Responds(j, "None", 0, << >>), j)
  <2> SUFFICES ASSUME j.req.op = "apiVersions" PROVE Good(L, b, Responds(j, "None", 0, << >>), j)
    OBVIOUS
  <2>1. ReplyOK(L, j.c, [id |-> j.id, req |-> j.req, offset |-> 0, hw |-> j.hw, records |-> << >>])
    BY DEF ReplyOK
  <2>2. << >> \in Seq(Stored) /\ 0 \in Int
    OBVIOUS
  <2> QED
    BY <2>1, <2>2, RespondsGood, ZenonT(40)
<1>3. j.req.op = "metadata" => Good(L, b, Goto(j, "SMEMBERS"), j)
  BY GotoGood
<1>4. j.req.op \in {"metadata", "produce", "fetch", "offsets"} => Good(L, b, Goto(j, "HGET"), j)
  BY GotoGood
<1> QED
  BY <1>1, <1>2, <1>3, <1>4, CloseGood DEF Started, Operations

(* offsetForTimestamp between two calls.                                    *)
LEMMA BisectsGood ==
  ASSUME NEW L, NEW b, NEW j \in Jobs, j.req.op = "offsets", j.lo <= j.hi,
         Bisected(L[j.req.p], j)
  PROVE  Good(L, b, Bisects(j), j)
<1>1. j.lo \in Nat /\ j.hi \in Nat /\ j.hw \in Nat /\ j.hi <= j.hw
  BY DEF Jobs, Bisected
<1>2. CASE j.lo < j.hi
  <2> DEFINE k == Goto(j, "LINDEX")
  <2>1. Same(k, j) /\ k.at = "LINDEX" /\ k.req = j.req /\ k.hw = j.hw /\ k.lo = j.lo /\ k.hi = j.hi
    BY GotoTyped DEF Same, Calls
  <2>2. Bisects(j) = k
    BY <1>2 DEF Bisects
  <2> HIDE DEF k
  <2>3. Bisected(L[k.req.p], k)
    BY <2>1 DEF Bisected
  <2>4. JobOK(L, b, k)
    BY <1>2, <2>1, <2>3 DEF JobOK
  <2> QED
    BY <2>1, <2>2, <2>4 DEF Good
<1>3. CASE ~(j.lo < j.hi)
  <2> DEFINE o == IF j.lo < j.hw THEN j.lo ELSE -1
             s == L[j.req.p]
             r == [id |-> j.id, req |-> j.req, offset |-> o, hw |-> j.hw, records |-> << >>]
  <2>1. j.lo = j.hi
    BY <1>1, <1>3
  <2>2. j.hw <= Len(s) /\ (Sorted(s, j.hw) => Splits(s, j.hw, j.req.ts, j.lo))
    BY <2>1 DEF Bisected, Splits
  <2>3. \/ o = -1 /\ j.lo = j.hw
        \/ o = j.lo /\ j.lo \in 0 .. j.hw - 1
    BY <1>1, <2>1
  <2>4. o \in Int
    BY <2>3
  <2> HIDE DEF o
  <2>5. ReplyOK(L, j.c, r)
    BY <2>2, <2>3 DEF ReplyOK
  <2>6. Bisects(j) = Responds(j, "None", o, << >>)
    BY <1>3 DEF Bisects, o
  <2>7. << >> \in Seq(Stored)
    OBVIOUS
  <2> HIDE DEF s
  <2> QED
    BY <2>4, <2>5, <2>6, <2>7, RespondsGood, ZenonT(40)
<1> QED
  BY <1>2, <1>3

(* Half of what is left to search goes.                                     *)
LEMMA HalvesGood ==
  ASSUME NEW L \in Logs, NEW b, NEW j \in Jobs, JobOK(L, b, j), j.at = "LINDEX"
  PROVE  LET mid == j.lo + ((j.hi - j.lo) \div 2)
         IN Good(L, b, Bisects(Halves(j, mid, L[j.req.p][mid + 1].ts)), j)
<1> DEFINE s == L[j.req.p]
           mid == j.lo + ((j.hi - j.lo) \div 2)
           k == Halves(j, mid, s[mid + 1].ts)
<1>1. /\ j.req.op = "offsets" /\ j.lo < j.hi /\ j.hi <= j.hw /\ j.hw <= Len(s)
      /\ Sorted(s, j.hw) => /\ \A i \in 1 .. j.hw : i <= j.lo => s[i].ts < j.req.ts
                            /\ \A i \in 1 .. j.hw : j.hi < i => s[i].ts >= j.req.ts
  BY DEF JobOK, Bisected
<1>2. j.lo \in Nat /\ j.hi \in Nat /\ j.hw \in Nat /\ j.req \in RequestForms
  BY DEF Jobs
<1>3. j.req.ts \in Int /\ j.req.p \in Partitions
  BY <1>1, <1>2, RequestTyped
<1>4. s \in Seq(Stored) /\ Len(s) \in Nat
  BY <1>3 DEF Logs
<1>5. \A i \in 1 .. j.hw : s[i].ts \in Int
  <2>1. \A i \in 1 .. Len(s) : s[i] \in Stored
    BY <1>4
  <2>2. \A x \in Stored : x.ts \in Int
    BY DEF Stored
  <2> QED
    BY <1>1, <1>2, <1>4, <2>1, <2>2
<1>6. mid \in Nat /\ j.lo <= mid /\ mid < j.hi /\ mid + 1 \in 1 .. j.hw
  BY <1>1, <1>2
<1>7. /\ Same(k, j) /\ k.hw = j.hw
      /\ IF s[mid + 1].ts < j.req.ts THEN k.lo = mid + 1 /\ k.hi = j.hi
                                     ELSE k.lo = j.lo /\ k.hi = mid
  BY <1>6 DEF Halves, Same, Jobs
<1> HIDE DEF k, s, mid
<1>8. k \in Jobs /\ k.req = j.req /\ k.lo <= k.hi /\ k.hi <= k.hw
  BY <1>1, <1>2, <1>6, <1>7 DEF Same
<1>9. ASSUME Sorted(s, j.hw), NEW i \in 1 .. j.hw
      PROVE  (i <= k.lo => s[i].ts < j.req.ts) /\ (k.hi < i => s[i].ts >= j.req.ts)
  <2>1. CASE s[mid + 1].ts < j.req.ts
    <3>1. i <= mid + 1 => s[i].ts <= s[mid + 1].ts
      BY <1>5, <1>6, <1>9 DEF Sorted
    <3>2. i <= mid + 1 => s[i].ts < j.req.ts
      BY <1>3, <1>5, <1>6, <2>1, <3>1
    <3> QED
      BY <1>1, <1>7, <1>9, <2>1, <3>2
  <2>2. CASE ~(s[mid + 1].ts < j.req.ts)
    <3>1. mid < i => s[mid + 1].ts <= s[i].ts
      BY <1>5, <1>6, <1>9 DEF Sorted
    <3>2. mid < i => s[i].ts >= j.req.ts
      BY <1>3, <1>5, <1>6, <2>2, <3>1
    <3> QED
      BY <1>1, <1>7, <1>9, <2>2, <3>2
  <2> QED
    BY <2>1, <2>2
<1>10. Bisected(L[k.req.p], k)
  BY <1>1, <1>7, <1>8, <1>9 DEF Bisected, s
<1>11. Good(L, b, Bisects(k), k)
  BY <1>1, <1>8, <1>10, BisectsGood
<1>12. Good(L, b, Bisects(k), j)
  BY <1>7, <1>11, SameAsSame, ZenonT(40) DEF Good
<1> QED
  BY <1>12 DEF k, s, mid

(* The log's length is known.                                               *)
LEMMA MeasuredGood ==
  ASSUME NEW L \in Logs, NEW b, NEW j \in Jobs, JobOK(L, b, j), j.at = "LLEN"
  PROVE  Good(L, b, Measured(j, Len(L[j.req.p])), j)
<1> DEFINE s == L[j.req.p]
           k == [j EXCEPT !.hw = Len(s), !.hi = Len(s)]
<1>1. /\ j.req.op \in {"produce", "fetch", "offsets"} /\ j.lo = 0
      /\ j.req.op = "produce" => j.req.records = << >>
  BY DEF JobOK
<1>2. j.req \in RequestForms /\ j.req.p \in Partitions
  BY <1>1, RequestTyped DEF Jobs
<1>3. Len(s) \in Nat /\ Len(s) \in Int
  BY <1>2 DEF Logs
<1>4. Same(k, j) /\ k \in Jobs /\ k.hw = Len(s) /\ k.hi = Len(s) /\ k.lo = 0 /\ k.req = j.req
  BY <1>1, <1>3, ZenonT(40) DEF Same, Jobs
<1>5. Good(L, b, Measured(j, Len(s)), k)
  <2>0. << >> \in Seq(Stored)
    OBVIOUS
  <2>1. CASE j.req.op = "produce"
    <3>1. ReplyOK(L, k.c, [id |-> k.id, req |-> k.req, offset |-> Len(s), hw |-> k.hw,
                           records |-> << >>])
      <4>1. DOMAIN << >> = {}
        OBVIOUS
      <4>2. DOMAIN k.req.records = {} /\ k.req.op = "produce"
        BY <1>1, <1>4, <2>1, <4>1, ZenonT(40)
      <4> HIDE DEF k
      <4> QED
        BY <4>2, ZenonT(40) DEF ReplyOK, Holds
    <3>2. Good(L, b, Responds(k, "None", Len(s), << >>), k)
      BY <1>3, <1>4, <2>0, <3>1, RespondsGood, ZenonT(40)
    <3> QED
      BY <2>1, <3>2 DEF Measured
  <2>2. CASE j.req.op = "fetch"
    <3>1. Good(L, b, Unsuccessful(k, "OffsetOutOfRange"), k)
      BY <1>4, UnsuccessfulGood
    <3>2. ASSUME ~(j.req.offset < 0 \/ j.req.offset > Len(s))
          PROVE  Good(L, b, Goto(k, "LRANGE"), k)
      <4>1. j.req.offset \in 0 .. Len(s)
        BY <1>2, <1>3, <2>2, <3>2, RequestTyped
      <4> DEFINE g == Goto(k, "LRANGE")
      <4>2. Same(g, k) /\ g.at = "LRANGE" /\ g.hw = Len(s) /\ g.req = j.req
        <5>1. "LRANGE" \in Calls
          BY DEF Calls
        <5>2. Same(g, k) /\ g.at = "LRANGE" /\ g.hw = k.hw
          BY <1>4, <5>1, GotoTyped, ZenonT(40)
        <5> HIDE DEF g, k
        <5> QED
          BY <1>4, <5>2, ZenonT(40) DEF Same
      <4> HIDE DEF g, k
      <4>3. JobOK(L, b, g)
        BY <1>3, <2>2, <4>1, <4>2 DEF JobOK
      <4> QED
        BY <4>2, <4>3 DEF Good, g
    <3> QED
      BY <2>2, <3>1, <3>2 DEF Measured
  <2>3. CASE j.req.op = "offsets"
    <3>1. j.req.ts = -1 => ReplyOK(L, k.c, [id |-> k.id, req |-> k.req, offset |-> Len(s),
                                            hw |-> k.hw, records |-> << >>])
      BY <1>4, <2>3 DEF ReplyOK
    <3>2. j.req.ts = -1 => Good(L, b, Responds(k, "None", Len(s), << >>), k)
      BY <1>3, <1>4, <2>0, <3>1, RespondsGood, ZenonT(40)
    <3>3. Good(L, b, Bisects(k), k)
      <4> HIDE DEF k
      <4>1. Bisected(L[k.req.p], k)
        BY <1>3, <1>4 DEF Bisected
      <4> QED
        BY <1>3, <1>4, <2>3, <4>1, BisectsGood
    <3> QED
      BY <2>3, <3>2, <3>3 DEF Measured
  <2> QED
    BY <1>1, <2>1, <2>2, <2>3
<1> HIDE DEF k
<1> QED
  BY <1>4, <1>5, SameAsSame, ZenonT(40) DEF Good

(***************************************************************************)
(* Logs grow, and what was promised of them stays true.                    *)
(***************************************************************************)

Grows(L, M) ==
  \A p \in Partitions : /\ Len(L[p]) <= Len(M[p])
                        /\ \A i \in 1 .. Len(L[p]) : M[p][i] = L[p][i]

(* A promise about a run, and one about the first records, of one log.      *)
LEMMA RunStays ==
  ASSUME NEW s \in Seq(Stored), NEW t \in Seq(Stored), NEW r \in Seq(Stored), NEW from \in Int,
         Len(s) <= Len(t), \A i \in 1 .. Len(s) : t[i] = s[i], IsRun(r, s, from)
  PROVE  IsRun(r, t, from)
BY DEF IsRun

(* Whether the first n are sorted, and where they split, is theirs alone.   *)
LEMMA FirstStay ==
  ASSUME NEW s \in Seq(Stored), NEW t \in Seq(Stored), NEW n \in Nat, n <= Len(s),
         \A i \in 1 .. Len(s) : t[i] = s[i]
  PROVE  /\ \A i \in 1 .. n : t[i] = s[i]
         /\ Sorted(t, n) => Sorted(s, n)
         /\ \A ts, k : Splits(s, n, ts, k) => Splits(t, n, ts, k)
<1>1. \A i \in 1 .. n : t[i] = s[i]
  OBVIOUS
<1>2. Sorted(t, n) => Sorted(s, n)
  BY <1>1 DEF Sorted
<1>3. \A ts, k : Splits(s, n, ts, k) => Splits(t, n, ts, k)
  BY <1>1 DEF Splits
<1> QED
  BY <1>1, <1>2, <1>3

(* A response goes on to be right.                                          *)
LEMMA ReplyStays ==
  ASSUME NEW L \in Logs, NEW M \in Logs, Grows(L, M), NEW c, NEW r \in Replies, ReplyOK(L, c, r)
  PROVE  ReplyOK(M, c, r)
<1>1. CASE r.req.op \notin {"produce", "fetch", "offsets"}
  BY <1>1 DEF ReplyOK
<1>2. CASE r.req.op \in {"produce", "fetch", "offsets"}
  <2>1. r.req \in RequestForms /\ r.offset \in Int /\ r.hw \in Nat /\ r.records \in Seq(Stored)
    BY <1>2 DEF Replies, Refusals, Answers
  <2>2. r.req.p \in Partitions
    BY <1>2, <2>1, RequestTyped
  <2> DEFINE s == L[r.req.p]
             t == M[r.req.p]
  <2>3. s \in Seq(Stored) /\ t \in Seq(Stored) /\ Len(s) <= Len(t)
        /\ \A i \in 1 .. Len(s) : t[i] = s[i]
    BY <2>2 DEF Logs, Grows
  <2> HIDE DEF s, t
  <2>4. ASSUME r.req.op = "produce" PROVE Holds(M, c, r)
    <3>1. \A i \in DOMAIN r.req.records : r.offset + i \in 1 .. Len(s) /\ s[r.offset + i].by = <<c, r.id, i>>
      BY <2>4 DEF ReplyOK, Holds, s
    <3>2. \A i \in DOMAIN r.req.records : r.offset + i \in 1 .. Len(t) /\ t[r.offset + i].by = <<c, r.id, i>>
      BY <2>3, <3>1
    <3> QED
      BY <3>2 DEF Holds, t
  <2>5. ASSUME r.req.op = "fetch"
        PROVE  IsRun(r.records, t, r.req.offset) /\ (r.req.offset < r.hw => r.records # << >>)
    <3>1. r.req.offset \in Int
      BY <2>1, <2>5, RequestTyped
    <3>2. IsRun(r.records, s, r.req.offset) /\ (r.req.offset < r.hw => r.records # << >>)
      BY <2>5 DEF ReplyOK, s
    <3> QED
      BY <2>1, <2>3, <3>1, <3>2, RunStays
  <2>6. ASSUME r.req.op = "offsets", r.req.ts >= 0
        PROVE  /\ r.hw <= Len(t)
               /\ Sorted(t, r.hw) =>
                    \/ r.offset = -1 /\ Splits(t, r.hw, r.req.ts, r.hw)
                    \/ r.offset \in 0 .. r.hw - 1 /\ Splits(t, r.hw, r.req.ts, r.offset)
    <3>1. /\ r.hw <= Len(s)
          /\ Sorted(s, r.hw) =>
               \/ r.offset = -1 /\ Splits(s, r.hw, r.req.ts, r.hw)
               \/ r.offset \in 0 .. r.hw - 1 /\ Splits(s, r.hw, r.req.ts, r.offset)
      BY <2>6 DEF ReplyOK, s
    <3>2. /\ Sorted(t, r.hw) => Sorted(s, r.hw)
          /\ \A ts, k : Splits(s, r.hw, ts, k) => Splits(t, r.hw, ts, k)
      BY <2>1, <2>3, <3>1, FirstStay
    <3>3. r.hw <= Len(t)
      BY <2>1, <2>3, <3>1
    <3> QED
      BY <3>1, <3>2, <3>3
  <2> QED
    BY <2>4, <2>5, <2>6 DEF ReplyOK, t
<1> QED
  BY <1>1, <1>2

(* And a job to know.                                                       *)
LEMMA JobStays ==
  ASSUME NEW L \in Logs, NEW M \in Logs, Grows(L, M), NEW a \in BOOLEAN, NEW b \in BOOLEAN, a => b,
         NEW j \in Jobs, JobOK(L, a, j)
  PROVE  JobOK(M, b, j)
<1>1. j.req \in RequestForms /\ j.hw \in Nat /\ j.out \in Replies
  BY DEF Jobs
<1>2. ASSUME j.at \in {"LRANGE", "LINDEX"}
      PROVE  /\ j.hw <= Len(M[j.req.p])
             /\ j.at = "LINDEX" => Bisected(M[j.req.p], j)
  <2>1. j.req.op \in {"fetch", "offsets"} /\ j.hw <= Len(L[j.req.p])
    BY <1>2 DEF JobOK, Bisected
  <2>2. j.req.p \in Partitions
    BY <1>1, <2>1, RequestTyped
  <2> DEFINE s == L[j.req.p]
             t == M[j.req.p]
  <2>3. s \in Seq(Stored) /\ t \in Seq(Stored) /\ Len(s) <= Len(t)
        /\ \A i \in 1 .. Len(s) : t[i] = s[i]
    BY <2>2 DEF Logs, Grows
  <2>4. j.hw <= Len(s) /\ (j.at = "LINDEX" => Bisected(s, j))
    BY <2>1 DEF JobOK
  <2> HIDE DEF s, t
  <2>5. (\A i \in 1 .. j.hw : t[i] = s[i]) /\ (Sorted(t, j.hw) => Sorted(s, j.hw))
    BY <1>1, <2>3, <2>4, FirstStay
  <2>6. j.hw <= Len(t)
    BY <1>1, <2>3, <2>4
  <2>7. j.at = "LINDEX" => Bisected(t, j)
    BY <2>4, <2>5, <2>6 DEF Bisected
  <2> QED
    BY <2>6, <2>7 DEF t
<1>3. ReplyOK(L, j.c, j.out) => ReplyOK(M, j.c, j.out)
  BY <1>1, ReplyStays
<1> QED
  BY <1>2, <1>3 DEF JobOK

(* A list that is appended to.                                              *)
LEMMA ConcatGrows ==
  ASSUME NEW s \in Seq(Stored), NEW t \in Seq(Stored)
  PROVE  /\ s \o t \in Seq(Stored) /\ Len(s) <= Len(s \o t)
         /\ \A i \in 1 .. Len(s) : (s \o t)[i] = s[i]
OBVIOUS

(* What the server does with a command.                                     *)
LEMMA ExecuteTyped ==
  ASSUME TypeOK, NEW cmd \in Orders \cup [op : {"HSETNX"}, n : {Theirs}], Execute(cmd)
  PROVE  /\ listed' \in BOOLEAN /\ parts' \in Nat /\ log' \in Logs
         /\ Grows(log, log') /\ (listed => listed')
         /\ cmd.op = "RPUSH" => log'[cmd.p] = log[cmd.p] \o cmd.records
<1>1. listed' \in BOOLEAN /\ (listed => listed') /\ parts' \in Nat
  BY KafkaAssumption DEF Execute, sadd, hsetnx, pushGeneric, TypeOK, Orders
<1>2. CASE cmd.op # "RPUSH"
  <2>1. log' = log
    BY <1>2 DEF Execute, sadd, hsetnx, pushGeneric
  <2>2. \A p \in Partitions : Len(log[p]) \in Nat
    BY DEF TypeOK, Logs
  <2>3. Grows(log, log)
    BY <2>2 DEF Grows
  <2>4. log \in Logs
    BY DEF TypeOK
  <2> QED
    BY <1>1, <1>2, <2>1, <2>3, <2>4, ZenonT(40)
<1>3. CASE cmd.op = "RPUSH"
  <2>1. cmd.p \in Partitions /\ cmd.records \in Seq(Stored)
    BY <1>3 DEF Orders
  <2>2. log' = [log EXCEPT ![cmd.p] = @ \o cmd.records] /\ log \in [Partitions -> Seq(Stored)]
    BY <1>3 DEF Execute, sadd, hsetnx, pushGeneric, TypeOK, Logs
  <2>3. /\ log[cmd.p] \in Seq(Stored) /\ log[cmd.p] \o cmd.records \in Seq(Stored)
        /\ Len(log[cmd.p]) <= Len(log[cmd.p] \o cmd.records)
        /\ \A i \in 1 .. Len(log[cmd.p]) : (log[cmd.p] \o cmd.records)[i] = log[cmd.p][i]
    <3>1. log[cmd.p] \in Seq(Stored)
      BY <2>1, <2>2
    <3> QED
      BY <2>1, <3>1, ConcatGrows, ZenonT(40)
  <2>4. log' \in Logs /\ log'[cmd.p] = log[cmd.p] \o cmd.records
        /\ \A p \in Partitions : p # cmd.p => log'[p] = log[p]
    BY <2>1, <2>2, <2>3, ZenonT(40) DEF Logs
  <2>5. Grows(log, log')
    <3> SUFFICES ASSUME NEW p \in Partitions
                 PROVE  Len(log[p]) <= Len(log'[p]) /\ \A i \in 1 .. Len(log[p]) : log'[p][i] = log[p][i]
      BY DEF Grows
    <3>1. CASE p = cmd.p
      BY <2>3, <2>4, <3>1, ZenonT(40)
    <3>2. CASE p # cmd.p
      BY <2>2, <2>4, <3>2
    <3> QED
      BY <3>1, <3>2
  <2> QED
    BY <1>1, <2>4, <2>5
<1> QED
  BY <1>2, <1>3, ZenonT(40)

(* A step that leaves the store alone.                                      *)
LEMMA StoreKept ==
  ASSUME TypeOK, UNCHANGED store
  PROVE  listed' = listed /\ parts' = parts /\ log' = log /\ log' \in Logs /\ Grows(log, log')
<1>1. listed' = listed /\ parts' = parts /\ log' = log /\ log \in Logs
  BY DEF store, TypeOK
<1>2. \A p \in Partitions : Len(log[p]) \in Nat
  BY <1>1 DEF Logs
<1> QED
  BY <1>1, <1>2 DEF Grows

(***************************************************************************)
(* What becomes of a connection once a call is done.                       *)
(***************************************************************************)

(* A closed connection, typed.                                              *)
LEMMA ClosedTyped ==
  /\ Closed \in Connections /\ NewConn \in Connections /\ NoReply \in Replies
  /\ Closed.in = << >> /\ Closed.parked = << >> /\ ~Closed.open
  /\ NewConn.in = << >> /\ NewConn.parked = << >> /\ NewConn.open
  /\ NoReply.id = 0 /\ NoReply.req.op = "none"
<1>1. << >> \in Seq(Frames)
  OBVIOUS
<1>3. Closed \in Connections /\ NewConn \in Connections
  BY <1>1 DEF Closed, NewConn, Connections
<1>4. NoReply \in Replies
  BY DEF NoReply, Replies, Refusals
<1> QED
  BY <1>3, <1>4 DEF Closed, NewConn, NoReply

(* A connection that is updated.                                            *)
LEMMA ConnectionUpdated ==
  ASSUME NEW x \in Connections, NEW f \in Seq(Frames), NEW n \in Int, NEW b \in BOOLEAN
  PROVE  [x EXCEPT !.parked = f, !.deadline = n, !.ready = b] \in Connections
BY ZenonT(40) DEF Connections

(* What waits on a connection is typed.                                     *)
LEMMA WaitingTyped ==
  ASSUME TypeOK, NEW c \in Conns
  PROVE  /\ conn[c] \in Connections /\ conn[c].in \in Seq(Frames) /\ conn[c].parked \in Seq(Frames)
         /\ conn[c].open \in BOOLEAN /\ asked[c] \in Nat /\ reply[c] \in Replies /\ reply[c].id \in Nat
         /\ \A i \in 1 .. Len(conn[c].in) : conn[c].in[i].id \in Nat
         /\ conn[c].parked # << >> => conn[c].parked[1] \in Frames /\ conn[c].parked[1].id \in Nat
<1>1. conn[c] \in Connections /\ asked[c] \in Nat /\ reply[c] \in Replies
  BY DEF TypeOK
<1>2. /\ conn[c].in \in Seq(Frames) /\ conn[c].parked \in Seq(Frames) /\ conn[c].open \in BOOLEAN
  BY <1>1 DEF Connections
<1>3. reply[c].id \in Nat
  BY <1>1 DEF Replies, Refusals, Answers
<1>4. \A f \in Frames : f.id \in Nat
  BY DEF Frames
<1>5. \A i \in 1 .. Len(conn[c].in) : conn[c].in[i] \in Frames
  BY <1>2
<1>6. conn[c].parked # << >> => conn[c].parked[1] \in Frames
  BY <1>2
<1> QED
  BY <1>1, <1>2, <1>3, <1>4, <1>5, <1>6

(* The request that is being served.                                        *)
LEMMA Serving ==
  ASSUME OrderInv, job # NoJob
  PROVE  /\ job \in Jobs /\ job.c \in Conns /\ job.id \in Nat /\ conn[job.c].open
         /\ reply[job.c].id < job.id /\ job.id <= asked[job.c] /\ Younger(job.c, job.id)
         /\ ~job.poll => conn[job.c].parked = << >>
<1>1. job \in Jobs /\ job.c \in Conns /\ job.id \in Nat /\ ServedOK /\ OrderOK(job.c)
  BY DEF OrderInv, TypeOK, Jobs
<1>2. job.poll => conn[job.c].parked[1].id = job.id
  BY <1>1 DEF ServedOK
<1> QED
  BY <1>1, <1>2 DEF ServedOK, OrderOK

(* A connection that a step leaves alone.                                   *)
LEMMA OrderKept ==
  ASSUME NEW c \in Conns, OrderOK(c),
         conn'[c] = conn[c], reply'[c] = reply[c], asked'[c] = asked[c]
  PROVE  OrderOK(c)'
BY DEF OrderOK, Younger

(* A connection with nothing parked, and the last response r.               *)
LEMMA OrderUnparked ==
  ASSUME NEW c \in Conns, NEW n \in Nat, Younger(c, n), n <= asked[c],
         conn'[c].open, conn'[c].in = conn[c].in, conn'[c].parked = << >>,
         reply'[c].id = n, asked'[c] = asked[c]
  PROVE  OrderOK(c)'
BY DEF OrderOK, Younger

(* A connection that is closed.                                             *)
LEMMA OrderClosed ==
  ASSUME NEW c \in Conns, conn'[c] = Closed, reply'[c] = NoReply, asked'[c] \in Nat
  PROVE  OrderOK(c)'
<1>1. Len(<< >>) = 0
  OBVIOUS
<1> QED
  BY <1>1, ClosedTyped DEF OrderOK, Younger

(* The end of a call, for the responses.                                    *)
LEMMA BecomesSafe ==
  ASSUME SafeInv, OrderInv, job # NoJob, NEW k, Becomes(k), Good(log', listed', k, job),
         log' \in Logs, Grows(log, log')
  PROVE  /\ conn' \in [Conns -> Connections] /\ job' \in {NoJob} \cup Jobs
         /\ asked' \in [Conns -> Nat] /\ reply' \in [Conns -> Replies]
         /\ job' # NoJob => JobOK(log', listed', job')
         /\ \A c \in Conns : ReplyOK(log', c, reply'[c])
<1>1. k \in Jobs /\ k.c \in Conns /\ JobOK(log', listed', k) /\ k.out \in Replies /\ k.id \in Nat
      /\ k.req \in RequestForms
  BY DEF Good, Same, Jobs
<1>2. TypeOK /\ log \in Logs /\ conn \in [Conns -> Connections] /\ reply \in [Conns -> Replies]
      /\ asked' \in [Conns -> Nat]
  BY DEF SafeInv, TypeOK, Becomes
<1>3. \A c \in Conns : ReplyOK(log', c, reply[c])
  BY <1>2, ReplyStays DEF SafeInv
<1>4. CASE k.at \notin Outcomes
  BY <1>1, <1>2, <1>3, <1>4 DEF Becomes
<1>5. CASE closeConn(k.c) /\ job' = NoJob
  <2>1. ReplyOK(log', k.c, NoReply)
    BY ClosedTyped, RefusalOK
  <2>2. conn' \in [Conns -> Connections] /\ reply' \in [Conns -> Replies]
    BY <1>1, <1>2, <1>5, ClosedTyped DEF closeConn
  <2>3. \A c \in Conns : reply'[c] = IF c = k.c THEN NoReply ELSE reply[c]
    BY <1>1, <1>2, <1>5 DEF closeConn
  <2> QED
    BY <1>2, <1>3, <1>5, <2>1, <2>2, <2>3
<1>6. CASE /\ k.at = "Respond" /\ job' = NoJob
           /\ conn' = [conn EXCEPT ![k.c] = Unparked(k)]
           /\ reply' = [reply EXCEPT ![k.c] = k.out]
  <2>1. ReplyOK(log', k.c, k.out)
    BY <1>1, <1>6 DEF JobOK
  <2>2. Unparked(k) \in Connections
    <3>1. << >> \in Seq(Frames) /\ 0 \in Int /\ conn[k.c] \in Connections
      BY <1>1, <1>2
    <3> QED
      BY <3>1, ConnectionUpdated, ZenonT(40) DEF Unparked
  <2>3. conn' \in [Conns -> Connections] /\ reply' \in [Conns -> Replies]
    BY <1>1, <1>2, <1>6, <2>2
  <2>4. \A c \in Conns : reply'[c] = IF c = k.c THEN k.out ELSE reply[c]
    BY <1>1, <1>2, <1>6
  <2> QED
    BY <1>2, <1>3, <1>6, <2>1, <2>3, <2>4
<1>7. CASE k.at = "Retry" /\ job' = NoJob /\ Park(k)
  <2>1. k.req.wait \in Int /\ MaxWait \in Int
    <3>1. k.req.op = "fetch"
      BY <1>1, <1>7 DEF JobOK
    <3>2. MaxWait \in Nat
      BY KafkaAssumption
    <3>3. k.req.wait \in Int
      BY <1>1, <3>1, RequestTyped
    <3> QED
      BY <3>2, <3>3
  <2>2. Min({k.req.wait, MaxWait}) \in Int
    BY <2>1, OfTwo, ZenonT(40)
  <2>3. [id |-> k.id, req |-> k.req] \in Frames
    BY <1>1 DEF Frames
  <2>4. <<[id |-> k.id, req |-> k.req]>> \in Seq(Frames)
    BY <2>3
  <2>5. conn' \in [Conns -> Connections]
    BY <1>1, <1>2, <1>7, <2>2, <2>4, ZenonT(40) DEF Park, Connections
  <2> QED
    BY <1>2, <1>3, <1>7, <2>5 DEF Park
<1>8. CASE k.at = "Silence" /\ job' = NoJob /\ UNCHANGED <<conn, reply>>
  BY <1>2, <1>3, <1>8
<1> QED
  BY <1>4, <1>5, <1>6, <1>7, <1>8, ZenonT(40) DEF Becomes, applyOutcome, Respond, Outcomes

(* The end of a call, for the order of requests.                            *)
LEMMA BecomesOrder ==
  ASSUME OrderInv, job # NoJob, NEW k, Becomes(k), Good(log', listed', k, job)
  PROVE  ServedOK' /\ \A c \in Conns : OrderOK(c)'
<1>1. /\ k \in Jobs /\ k.c = job.c /\ k.id = job.id /\ k.req = job.req /\ k.poll = job.poll
      /\ k.at = "Respond" => k.out.id = k.id
  BY DEF Good, Same, JobOK
<1>2. /\ TypeOK /\ ServedOK /\ (\A c \in Conns : OrderOK(c)) /\ asked' = asked
      /\ conn \in [Conns -> Connections] /\ reply \in [Conns -> Replies]
  BY DEF OrderInv, TypeOK, Becomes
<1>3. /\ k.c \in Conns /\ k.id \in Nat /\ conn[k.c].open
      /\ reply[k.c].id < k.id /\ k.id <= asked[k.c] /\ Younger(k.c, k.id)
      /\ ~k.poll => conn[k.c].parked = << >>
  BY <1>1, Serving
<1>4. CASE k.at \notin Outcomes
  <2>1. job' = k /\ UNCHANGED <<conn, reply, asked>>
    BY <1>4 DEF Becomes
  <2>2. ServedOK'
    BY <1>1, <1>2, <2>1, ZenonT(40) DEF ServedOK, Younger
  <2> QED
    BY <1>2, <2>1, <2>2, OrderKept
<1>5. CASE closeConn(k.c) /\ job' = NoJob
  <2>1. conn'[k.c] = Closed /\ reply'[k.c] = NoReply
        /\ \A c \in Conns : c # k.c => conn'[c] = conn[c] /\ reply'[c] = reply[c]
    BY <1>2, <1>3, <1>5, ZenonT(40) DEF closeConn
  <2>2. asked'[k.c] \in Nat
    BY <1>2, <1>3, WaitingTyped
  <2> QED
    BY <1>2, <1>3, <1>5, <2>1, <2>2, OrderClosed, OrderKept, ZenonT(40) DEF ServedOK
<1>6. CASE /\ k.at = "Respond" /\ job' = NoJob
           /\ conn' = [conn EXCEPT ![k.c] = Unparked(k)]
           /\ reply' = [reply EXCEPT ![k.c] = k.out]
  <2>1. conn[k.c] \in Connections
    BY <1>2, <1>3
  <2>2. Unparked(k).in = conn[k.c].in /\ Unparked(k).parked = << >> /\ Unparked(k).open
    BY <1>3, <2>1 DEF Unparked, Connections
  <2>3. conn'[k.c] = Unparked(k) /\ reply'[k.c] = k.out
        /\ \A c \in Conns : c # k.c => conn'[c] = conn[c] /\ reply'[c] = reply[c]
    BY <1>2, <1>3, <1>6
  <2>4. conn'[k.c].open /\ conn'[k.c].in = conn[k.c].in /\ conn'[k.c].parked = << >>
        /\ reply'[k.c].id = k.id /\ asked'[k.c] = asked[k.c]
    BY <1>1, <1>2, <1>6, <2>2, <2>3, ZenonT(40)
  <2>5. OrderOK(k.c)'
    BY <1>3, <2>4, OrderUnparked, ZenonT(40)
  <2> QED
    BY <1>2, <1>6, <2>3, <2>5, OrderKept, ZenonT(40) DEF ServedOK
<1>7. CASE k.at = "Retry" /\ job' = NoJob /\ Park(k)
  <2>1. reply' = reply
    BY <1>7 DEF Park
  <2>2. CASE k.poll
    BY <1>2, <1>7, <2>1, <2>2, OrderKept DEF Park, ServedOK
  <2>3. CASE ~k.poll
    <3> DEFINE f == [id |-> k.id, req |-> k.req]
    <3>1. conn' = [conn EXCEPT ![k.c].parked = <<f>>,
                               ![k.c].deadline = Min({k.req.wait, MaxWait})]
      BY <1>7, <2>3 DEF Park
    <3>2. /\ conn'[k.c].parked = <<f>> /\ conn'[k.c].in = conn[k.c].in /\ conn'[k.c].open
          /\ \A c \in Conns : c # k.c => conn'[c] = conn[c]
      BY <1>2, <1>3, <3>1 DEF Connections
    <3>3. Len(<<f>>) = 1 /\ <<f>>[1].id = k.id
      OBVIOUS
    <3>4. OrderOK(k.c)'
      <4>1. OrderOK(k.c) /\ asked'[k.c] = asked[k.c] /\ reply'[k.c] = reply[k.c]
        BY <1>2, <1>3, <2>1, ZenonT(40)
      <4>2. Len(conn'[k.c].parked) = 1 /\ conn'[k.c].parked[1].id = k.id
        BY <3>2, <3>3
      <4>3. Younger(k.c, reply[k.c].id)' /\ Younger(k.c, conn[k.c].parked[1].id)'
        BY <1>3, <3>2, <4>1, <4>2, ZenonT(40) DEF OrderOK, Younger
      <4> QED
        BY <1>3, <3>2, <4>1, <4>2, <4>3, ZenonT(40) DEF OrderOK
    <3> QED
      BY <1>2, <1>7, <2>1, <3>2, <3>4, OrderKept, ZenonT(40) DEF ServedOK
  <2> QED
    BY <2>2, <2>3
<1>8. CASE k.at = "Silence" /\ job' = NoJob /\ UNCHANGED <<conn, reply>>
  BY <1>2, <1>8, OrderKept, ZenonT(40) DEF ServedOK
<1> QED
  BY <1>4, <1>5, <1>6, <1>7, <1>8, ZenonT(40) DEF Becomes, applyOutcome, Respond, Outcomes

(***************************************************************************)
(* The calls.                                                              *)
(***************************************************************************)

(* What a call may do to the keyspace and to the commands given up.         *)
Extends ==
  /\ listed' \in BOOLEAN /\ parts' \in Nat /\ log' \in Logs /\ late' \subseteq Orders
  /\ Grows(log, log') /\ (listed => listed')
  /\ parts' # 0 => listed'
  /\ \A cmd \in late' : cmd.op = "HSETNX" => listed'

(* A call that does that, and makes a good job of the request.              *)
LEMMA CallKeeps ==
  ASSUME IInv, job # NoJob, NEW k, Becomes(k), Good(log', listed', k, job), Extends
  PROVE  IInv'
<1>1. SafeInv /\ OrderInv
  BY DEF IInv
<1>2. /\ conn' \in [Conns -> Connections] /\ job' \in {NoJob} \cup Jobs
      /\ asked' \in [Conns -> Nat] /\ reply' \in [Conns -> Replies]
      /\ job' # NoJob => JobOK(log', listed', job')
      /\ \A c \in Conns : ReplyOK(log', c, reply'[c])
  BY <1>1, BecomesSafe DEF Extends
<1>3. ServedOK' /\ \A c \in Conns : OrderOK(c)'
  BY <1>1, BecomesOrder
<1>4. TypeOK'
  BY <1>2 DEF TypeOK, Extends
<1>5. SafeInv'
  BY <1>2, <1>4 DEF SafeInv
<1>6. OrderInv'
  BY <1>3, <1>4 DEF OrderInv
<1>7. TopicInv'
  BY <1>4 DEF TopicInv, Extends
<1> QED
  BY <1>5, <1>6, <1>7 DEF IInv

(* A job at a call.                                                         *)
LEMMA AtCall ==
  ASSUME IInv, NEW at \in Calls \cup Outcomes, At(at)
  PROVE  job # NoJob /\ job \in Jobs /\ JobOK(log, listed, job) /\ TypeOK /\ log \in Logs
         /\ job.req \in RequestForms /\ job.c \in Conns /\ job.id \in Nat
<1>1. job # NoJob
  BY DEF At, NoJob, Calls, Outcomes
<1>2. job \in Jobs /\ JobOK(log, listed, job) /\ TypeOK /\ log \in Logs
  BY <1>1 DEF IInv, SafeInv, TypeOK
<1> QED
  BY <1>1, <1>2 DEF Jobs

(* A call that only reads.                                                  *)
LEMMA ReadsExtends ==
  ASSUME IInv, Reads
  PROVE  Extends /\ log' = log /\ listed' = listed
<1>1. TypeOK /\ TopicInv /\ UNCHANGED store /\ late' = late
  BY DEF IInv, SafeInv, Reads
<1>2. listed' = listed /\ parts' = parts /\ log' = log /\ log' \in Logs /\ Grows(log, log')
  BY <1>1, StoreKept
<1> QED
  BY <1>1, <1>2 DEF Extends, TypeOK, TopicInv

(* A call that fails.                                                       *)
LEMMA FailsExtends ==
  ASSUME IInv, NEW cmd \in Orders, Fails(cmd), cmd.op = "HSETNX" => listed
  PROVE  Extends /\ log' = log /\ listed' = listed
<1>1. TypeOK /\ TopicInv /\ UNCHANGED store /\ late' \in {late, late \cup {cmd}}
  BY DEF IInv, SafeInv, Fails
<1>2. listed' = listed /\ parts' = parts /\ log' = log /\ log' \in Logs /\ Grows(log, log')
  BY <1>1, StoreKept
<1>3. late' \subseteq Orders /\ \A d \in late' : d.op = "HSETNX" => listed
  BY <1>1 DEF TypeOK, TopicInv
<1> QED
  BY <1>1, <1>2, <1>3 DEF Extends, TypeOK, TopicInv

(* A command that is executed.                                              *)
LEMMA ExecuteExtends ==
  ASSUME IInv, NEW cmd \in Orders \cup [op : {"HSETNX"}, n : {Theirs}], Execute(cmd),
         late' \subseteq late, cmd.op = "HSETNX" => listed
  PROVE  Extends
<1>1. TypeOK /\ TopicInv
  BY DEF IInv, SafeInv
<1>2. /\ listed' \in BOOLEAN /\ parts' \in Nat /\ log' \in Logs
      /\ Grows(log, log') /\ (listed => listed')
  BY <1>1, ExecuteTyped, ZenonT(40)
<1>3. parts' # 0 => listed'
  BY <1>1, <1>2 DEF TopicInv, Execute, sadd, hsetnx, pushGeneric
<1>4. late' \subseteq Orders /\ \A d \in late' : d.op = "HSETNX" => listed'
  BY <1>1, <1>2 DEF TypeOK, TopicInv
<1> QED
  BY <1>2, <1>3, <1>4 DEF Extends

(* A request that needs no call.                                            *)
LEMMA HandleKeeps == ASSUME IInv, handleRequest PROVE IInv'
<1>1. job.at \in Outcomes /\ Becomes(job) /\ Reads
  BY DEF handleRequest
<1>2. job # NoJob /\ job \in Jobs /\ JobOK(log, listed, job)
  BY <1>1, AtCall DEF At
<1>3. Extends /\ log' = log /\ listed' = listed
  BY <1>1, ReadsExtends
<1>4. Good(log', listed', job, job)
  BY <1>2, <1>3 DEF Good, Same
<1> QED
  BY <1>1, <1>2, <1>3, <1>4, CallKeeps

(* SMEMBERS.                                                                *)
LEMMA ListTopicsKeeps == ASSUME IInv, listTopics PROVE IInv'
<1>1. At("SMEMBERS") /\ Reads
  BY DEF listTopics
<1>2. job # NoJob /\ job \in Jobs /\ JobOK(log, listed, job)
  BY <1>1, AtCall DEF Calls
<1>3. Extends /\ log' = log /\ listed' = listed
  BY <1>1, ReadsExtends
<1>4. job.req.op = "metadata" /\ job.lo = 0
  BY <1>1, <1>2 DEF JobOK, At
<1>5. Good(log, listed, Goto(job, "HGET"), job)
  BY <1>2, <1>4, GotoGood
<1>6. Good(log, listed, Responds(job, "None", 0, << >>), job)
  <2>1. << >> \in Seq(Stored) /\ 0 \in Int
    OBVIOUS
  <2>2. ReplyOK(log, job.c, [id |-> job.id, req |-> job.req, offset |-> 0, hw |-> job.hw,
                             records |-> << >>])
    BY <1>4, ZenonT(40) DEF ReplyOK
  <2> QED
    BY <1>2, <2>1, <2>2, RespondsGood, ZenonT(40)
<1>7. Good(log, listed, Close(job), job)
  BY <1>2, CloseGood
<1>8. PICK k \in {Goto(job, "HGET"), Responds(job, "None", 0, << >>), Close(job)} : Becomes(k)
  BY DEF listTopics
<1> QED
  BY <1>2, <1>3, <1>5, <1>6, <1>7, <1>8, CallKeeps

(* HGET.                                                                    *)
LEMMA TopicPartitionsKeeps == ASSUME IInv, topicPartitions PROVE IInv'
<1>1. At("HGET") /\ Reads
  BY DEF topicPartitions
<1>2. job # NoJob /\ job \in Jobs /\ JobOK(log, listed, job) /\ TypeOK
  BY <1>1, AtCall DEF Calls
<1>3. Extends /\ log' = log /\ listed' = listed
  BY <1>1, ReadsExtends
<1>4. job.req.op \in {"metadata", "produce", "fetch", "offsets"} /\ job.lo = 0 /\ parts \in Nat /\ 0 \in Nat
  BY <1>1, <1>2 DEF JobOK, At, TypeOK
<1>5. Good(log, listed, Goto(job, "SADD"), job)
  BY <1>2, <1>4, GotoGood
<1>6. Good(log, listed, Partitioned(job, parts), job) /\ Good(log, listed, Partitioned(job, 0), job)
  BY <1>2, <1>4, PartitionedGood
<1>7. PICK k \in {Goto(job, "SADD"), Partitioned(job, parts), Partitioned(job, 0)} : Becomes(k)
  BY DEF topicPartitions
<1> QED
  BY <1>2, <1>3, <1>5, <1>6, <1>7, CallKeeps

(* SADD and HSETNX.                                                         *)
LEMMA CreateTopicKeeps == ASSUME IInv, createTopic PROVE IInv'
<1>1. At("SADD") \/ At("HSETNX")
  BY DEF createTopic
<1>2. job # NoJob /\ job \in Jobs /\ JobOK(log, listed, job) /\ TypeOK
  BY <1>1, AtCall DEF Calls
<1>3. job.req.op \in {"metadata", "produce", "fetch", "offsets"} /\ job.lo = 0
  BY <1>1, <1>2 DEF JobOK, At
<1>4. Default \in Nat /\ 0 \in Nat
  BY KafkaAssumption
<1>5. \A L, b, n : n \in Nat => Good(L, b, Partitioned(job, n), job)
  BY <1>2, <1>3, PartitionedGood
<1>6. Sadd \in Orders /\ Hsetnx \in Orders /\ Sadd.op = "SADD" /\ Hsetnx.op = "HSETNX"
  BY DEF Sadd, Hsetnx, Orders
<1>7. CASE At("SADD")
  <2>1. CASE Answered(Sadd) /\ Becomes(Goto(job, "HSETNX"))
    <3>1. Extends /\ listed'
      BY <1>6, <2>1, ExecuteExtends, ZenonT(40) DEF Answered, Execute, sadd, hsetnx, pushGeneric
    <3>2. Good(log', listed', Goto(job, "HSETNX"), job)
      BY <1>2, <1>3, <3>1, GotoGood, ZenonT(40)
    <3> QED
      BY <1>2, <2>1, <3>1, <3>2, CallKeeps, ZenonT(40)
  <2>2. CASE Fails(Sadd) /\ Becomes(Partitioned(job, 0))
    BY <1>2, <1>4, <1>5, <1>6, <2>2, FailsExtends, CallKeeps
  <2> QED
    BY <1>7, <2>1, <2>2 DEF createTopic
<1>8. CASE At("HSETNX")
  <2>1. ~At("SADD") /\ listed
    BY <1>2, <1>8 DEF At, JobOK
  <2>2. CASE Answered(Hsetnx) /\ Becomes(Partitioned(job, Default))
    <3>1. Extends
      BY <1>6, <2>1, <2>2, ExecuteExtends DEF Answered
    <3> QED
      BY <1>2, <1>4, <1>5, <2>2, <3>1, CallKeeps
  <2>3. CASE Fails(Hsetnx) /\ Becomes(Partitioned(job, 0))
    BY <1>2, <1>4, <1>5, <1>6, <2>1, <2>3, FailsExtends, CallKeeps, ZenonT(40)
  <2> QED
    BY <1>8, <2>1, <2>2, <2>3 DEF createTopic
<1> QED
  BY <1>1, <1>7, <1>8

(* What RPUSH stores.                                                       *)
LEMMA StampedTyped ==
  ASSUME NEW j \in Jobs, j.req.op = "produce"
  PROVE  /\ Stamped(j) \in Seq(Stored)
         /\ DOMAIN j.req.records = 1 .. Len(Stamped(j))
         /\ \A i \in DOMAIN j.req.records : Stamped(j)[i].by = <<j.c, j.id, i>>
<1>1. j.c \in Conns /\ j.id \in Nat /\ j.req.records \in Seq([ts : Int, size : Nat])
  BY RequestTyped DEF Jobs
<1> DEFINE s == j.req.records
           n == Len(s)
           r(i) == [ts |-> IF s[i].ts < 0 THEN Now ELSE s[i].ts,
                    size |-> s[i].size, by |-> <<j.c, j.id, i>>]
<1>2. n \in Nat /\ DOMAIN s = 1 .. n /\ \A i \in 1 .. n : s[i] \in Given
  <2>1. s \in Seq(Given)
    BY <1>1 DEF Given
  <2> QED
    BY <2>1
<1>3. Stamped(j) = [i \in 1 .. n |-> r(i)]
  BY <1>2 DEF Stamped
<1>4. ASSUME NEW i \in 1 .. n PROVE r(i) \in Stored /\ r(i).by = <<j.c, j.id, i>>
  <2>1. s[i].ts \in Int /\ s[i].size \in Nat /\ i \in Nat
    BY <1>2 DEF Given
  <2>2. <<j.c, j.id, i>> \in Conns \X Nat \X Nat
    BY <1>1, <2>1
  <2> QED
    BY <2>1, <2>2, KafkaAssumption DEF Stored
<1> HIDE DEF s, n, r
<1>5. [i \in 1 .. n |-> r(i)] \in Seq(Stored) /\ Len([i \in 1 .. n |-> r(i)]) = n
  BY <1>2, <1>4
<1> QED
  BY <1>2, <1>3, <1>4, <1>5 DEF s

(* RPUSH: the records are where the response says.                          *)
LEMMA AppendKeeps == ASSUME IInv, append PROVE IInv'
<1>1. At("RPUSH")
  BY DEF append
<1>2. job # NoJob /\ job \in Jobs /\ JobOK(log, listed, job) /\ TypeOK /\ log \in Logs
      /\ job.req \in RequestForms
  BY <1>1, AtCall DEF Calls
<1> DEFINE p == job.req.p
           s == Stamped(job)
           n == Len(s)
<1>3. job.req.op = "produce" /\ p \in Partitions
  BY <1>1, <1>2, RequestTyped DEF JobOK, At
<1>4. /\ s \in Seq(Stored) /\ n \in Nat
      /\ DOMAIN job.req.records = 1 .. n
      /\ \A i \in DOMAIN job.req.records : s[i].by = <<job.c, job.id, i>>
  BY <1>2, <1>3, StampedTyped
<1>5. Rpush(p, s) \in Orders /\ Rpush(p, s).op = "RPUSH" /\ Rpush(p, s).p = p /\ Rpush(p, s).records = s
  BY <1>3, <1>4 DEF Rpush, Orders
<1>6. CASE Fails(Rpush(p, s)) /\ Becomes(Unsuccessful(job, "KafkaStorageError"))
  <2>1. Extends
    BY <1>5, <1>6, FailsExtends
  <2>2. Good(log', listed', Unsuccessful(job, "KafkaStorageError"), job)
    BY <1>2, UnsuccessfulGood
  <2> QED
    BY <1>2, <1>6, <2>1, <2>2, CallKeeps
<1>7. CASE /\ Answered(Rpush(p, s))
           /\ Becomes(Responds(job, "None", BaseOffset(Len(log'[p]), n), << >>))
  <2>1. Extends /\ log'[p] = log[p] \o s
    BY <1>2, <1>5, <1>7, ExecuteExtends, ExecuteTyped, ZenonT(40) DEF Answered
  <2>2. log[p] \in Seq(Stored) /\ Len(log[p]) \in Nat
    BY <1>2, <1>3 DEF Logs
  <2> HIDE DEF s, p
  <2>3. Len(log[p] \o s) = Len(log[p]) + n /\ \A i \in 1 .. n : (log[p] \o s)[Len(log[p]) + i] = s[i]
    <3> DEFINE t == log[p]
    <3>1. t \in Seq(Stored) /\ s \in Seq(Stored)
      BY <1>4, <2>2
    <3> HIDE DEF t
    <3>2. Len(t \o s) = Len(t) + Len(s) /\ \A i \in 1 .. Len(s) : (t \o s)[Len(t) + i] = s[i]
      BY <3>1
    <3> QED
      BY <3>2, ZenonT(40) DEF t
  <2>4. BaseOffset(Len(log'[p]), n) = Len(log[p])
    <3> DEFINE m == Len(log[p])
    <3>1. m \in Nat /\ Len(log'[p]) = m + n
      BY <2>1, <2>2, <2>3, ZenonT(40)
    <3> HIDE DEF m, n
    <3>2. BaseOffset(m + n, n) = m
      BY <1>4, <3>1 DEF BaseOffset
    <3> QED
      BY <3>1, <3>2, ZenonT(40) DEF m
  <2> DEFINE r == [id |-> job.id, req |-> job.req, offset |-> Len(log[p]), hw |-> job.hw,
                   records |-> << >>]
  <2>5. Holds(log', job.c, r)
    <3> SUFFICES ASSUME NEW i \in DOMAIN job.req.records
                 PROVE  /\ Len(log[p]) + i \in 1 .. Len(log'[p])
                        /\ log'[p][Len(log[p]) + i].by = <<job.c, job.id, i>>
      BY ZenonT(40) DEF Holds, p
    <3>1. i \in 1 .. n
      BY <1>4
    <3>2. Len(log[p]) + i \in 1 .. Len(log'[p])
      BY <1>4, <2>1, <2>2, <2>3, <3>1
    <3>3. log'[p][Len(log[p]) + i] = s[i]
      BY <2>1, <2>3, <3>1
    <3> QED
      BY <1>4, <3>2, <3>3
  <2>6. ReplyOK(log', job.c, r)
    <3>1. r.req.op = "produce"
      BY <1>3
    <3> HIDE DEF r
    <3> QED
      BY <2>5, <3>1 DEF ReplyOK
  <2>7. << >> \in Seq(Stored) /\ Len(log[p]) \in Int
    BY <2>2
  <2>8. Good(log', listed', Responds(job, "None", Len(log[p]), << >>), job)
    BY <1>2, <2>6, <2>7, RespondsGood, ZenonT(40)
  <2> QED
    BY <1>2, <1>7, <2>1, <2>4, <2>8, CallKeeps
<1> QED
  BY <1>6, <1>7 DEF append

(* LLEN.                                                                    *)
LEMMA HighWatermarkKeeps == ASSUME IInv, highWatermark PROVE IInv'
<1>1. At("LLEN") /\ Reads
  BY DEF highWatermark
<1>2. job # NoJob /\ job \in Jobs /\ JobOK(log, listed, job) /\ log \in Logs
  BY <1>1, AtCall DEF Calls
<1>3. Extends /\ log' = log /\ listed' = listed
  BY <1>1, ReadsExtends
<1>4. Good(log, listed, Measured(job, Len(log[job.req.p])), job)
  BY <1>1, <1>2, MeasuredGood DEF At
<1>5. Good(log, listed, Unsuccessful(job, "KafkaStorageError"), job)
  BY <1>2, UnsuccessfulGood
<1>6. PICK k \in {Measured(job, Len(log[job.req.p])), Unsuccessful(job, "KafkaStorageError")} : Becomes(k)
  BY DEF highWatermark
<1> QED
  BY <1>2, <1>3, <1>4, <1>5, <1>6, CallKeeps

(* LINDEX.                                                                  *)
LEMMA BisectKeeps == ASSUME IInv, offsetForTimestamp PROVE IInv'
<1>1. At("LINDEX") /\ Reads
  BY DEF offsetForTimestamp
<1>2. job # NoJob /\ job \in Jobs /\ JobOK(log, listed, job) /\ log \in Logs
  BY <1>1, AtCall DEF Calls
<1>3. Extends /\ log' = log /\ listed' = listed
  BY <1>1, ReadsExtends
<1> DEFINE mid == job.lo + ((job.hi - job.lo) \div 2)
           k1 == Bisects(Halves(job, mid, log[job.req.p][mid + 1].ts))
           k2 == Unsuccessful(job, "KafkaStorageError")
<1>4. Good(log, listed, k1, job)
  BY <1>1, <1>2, HalvesGood DEF At
<1>5. Good(log, listed, k2, job)
  BY <1>2, UnsuccessfulGood
<1>6. Becomes(k1) \/ Becomes(k2)
  BY DEF offsetForTimestamp
<1> HIDE DEF k1, k2, mid
<1> QED
  BY <1>2, <1>3, <1>4, <1>5, <1>6, CallKeeps

(* The trim leaves a first part, and something of what there is.            *)
LEMMA TrimTyped ==
  ASSUME NEW s \in Seq(Stored), NEW budget, NEW k \in Kept(s, budget)
  PROVE  /\ SubSeq(s, 1, k) \in Seq(Stored) /\ Len(SubSeq(s, 1, k)) <= Len(s)
         /\ \A i \in 1 .. Len(SubSeq(s, 1, k)) : SubSeq(s, 1, k)[i] = s[i]
         /\ s # << >> => SubSeq(s, 1, k) # << >>
<1>1. Len(s) \in Nat /\ k \in 0 .. Len(s) /\ (k = Len(s) \/ Exceeds(s, budget, k))
  BY DEF Kept
<1>2. Exceeds(s, budget, k) => k > 0
  BY DEF Exceeds
<1>3. Len(s) >= 1 => k >= 1
  BY <1>1, <1>2
<1>4. /\ SubSeq(s, 1, k) \in Seq(Stored) /\ Len(SubSeq(s, 1, k)) = k
      /\ \A i \in 1 .. k : SubSeq(s, 1, k)[i] = s[i]
  BY <1>1
<1>5. s # << >> => Len(s) >= 1
  BY <1>1
<1>6. s # << >> => SubSeq(s, 1, k) # << >>
  BY <1>3, <1>4, <1>5
<1> QED
  BY <1>1, <1>4, <1>6

(* LRANGE: the next records, without a gap.                                 *)
LEMMA ReadKeeps == ASSUME IInv, read PROVE IInv'
<1>1. At("LRANGE") /\ Reads
  BY DEF read
<1>2. job # NoJob /\ job \in Jobs /\ JobOK(log, listed, job) /\ log \in Logs /\ job.req \in RequestForms
  BY <1>1, AtCall DEF Calls
<1>3. Extends /\ log' = log /\ listed' = listed
  BY <1>1, ReadsExtends
<1> DEFINE from == job.req.offset
           s == log[job.req.p]
           to == Min({from + MaxFetch, Len(s)})
           found == SubSeq(s, from + 1, to)
           got(k) == SubSeq(found, 1, k)
<1>4. job.req.op = "fetch" /\ from \in 0 .. job.hw /\ job.hw <= Len(s) /\ job.hw \in Nat
  BY <1>1, <1>2 DEF JobOK, At, Jobs
<1>5. s \in Seq(Stored) /\ Len(s) \in Nat
  BY <1>2, <1>4, RequestTyped DEF Logs
<1>6. \/ \E k \in Kept(found, job.req.max) : Becomes(Fetches(job, "None", got(k)))
      \/ Becomes(Unsuccessful(job, "KafkaStorageError"))
  BY ZenonT(40) DEF read
<1> HIDE DEF s, from
<1>7. to \in Int /\ from <= to /\ to <= Len(s) /\ (from < Len(s) => from < to)
  <2>1. MaxFetch \in Nat /\ MaxFetch > 0
    BY KafkaAssumption
  <2>2. from + MaxFetch \in Int /\ Len(s) \in Int
    BY <1>4, <1>5, <2>1
  <2>3. to = IF from + MaxFetch <= Len(s) THEN from + MaxFetch ELSE Len(s)
    BY <2>2, OfTwo, ZenonT(40)
  <2> HIDE DEF to
  <2> QED
    BY <1>4, <1>5, <2>1, <2>3
<1> HIDE DEF to
<1>8. /\ found \in Seq(Stored) /\ Len(found) = to - from
      /\ \A i \in 1 .. Len(found) : found[i] = s[from + i]
  BY <1>4, <1>5, <1>7
<1> HIDE DEF found
<1>9. ASSUME NEW k \in Kept(found, job.req.max)
      PROVE  Good(log, listed, Fetches(job, "None", got(k)), job)
  <2> DEFINE g == got(k)
  <2>1. /\ g \in Seq(Stored) /\ Len(g) <= Len(found)
        /\ \A i \in 1 .. Len(g) : g[i] = found[i]
        /\ found # << >> => g # << >>
    BY <1>8, TrimTyped
  <2> HIDE DEF g
  <2>2. IsRun(g, s, from)
    BY <1>4, <1>5, <1>7, <1>8, <2>1 DEF IsRun
  <2>3. from < job.hw => g # << >>
    <3>1. from < job.hw => Len(found) >= 1
      BY <1>4, <1>5, <1>7, <1>8
    <3> QED
      BY <2>1, <3>1
  <2>4. ReplyOK(log, job.c, [id |-> job.id, req |-> job.req, offset |-> job.req.offset,
                             hw |-> job.hw, records |-> g])
    BY <1>4, <2>2, <2>3, ZenonT(40) DEF ReplyOK, s, from
  <2>5. Good(log, listed, Fetches(job, "None", g), job)
    BY <1>2, <1>4, <2>1, <2>4, FetchesGood, ZenonT(40)
  <2> QED
    BY <2>5, ZenonT(40) DEF g
<1>10. Good(log, listed, Unsuccessful(job, "KafkaStorageError"), job)
  BY <1>2, UnsuccessfulGood
<1> QED
  BY <1>2, <1>3, <1>6, <1>9, <1>10, CallKeeps

(***************************************************************************)
(* The connections, and the others.                                        *)
(***************************************************************************)

(* A step of the keyspace alone.                                            *)
LEMMA StoreStepKeeps ==
  ASSUME IInv, Extends, UNCHANGED <<job, clients>>
  PROVE  IInv'
<1>1. TypeOK /\ log \in Logs /\ listed \in BOOLEAN /\ job \in {NoJob} \cup Jobs
      /\ reply \in [Conns -> Replies] /\ UNCHANGED <<job, conn, asked, reply>>
  BY DEF IInv, SafeInv, TypeOK, clients
<1>2. TypeOK'
  BY <1>1 DEF TypeOK, Extends
<1>3. job # NoJob => JobOK(log', listed', job)
  BY <1>1, JobStays DEF IInv, SafeInv, Extends
<1>4. \A c \in Conns : ReplyOK(log', c, reply[c])
  BY <1>1, ReplyStays DEF IInv, SafeInv, Extends
<1>5. SafeInv'
  BY <1>1, <1>2, <1>3, <1>4 DEF SafeInv
<1>6. ServedOK' /\ \A c \in Conns : OrderOK(c)'
  BY <1>1, OrderKept, ZenonT(40) DEF IInv, OrderInv, ServedOK, Younger
<1> QED
  BY <1>2, <1>5, <1>6 DEF IInv, OrderInv, TopicInv, Extends

(* A step of the connections alone.                                         *)
LEMMA ClientStepKeeps ==
  ASSUME IInv, UNCHANGED <<store, late>>,
         conn' \in [Conns -> Connections], job' \in {NoJob} \cup Jobs,
         asked' \in [Conns -> Nat], reply' \in [Conns -> Replies],
         job' # NoJob => JobOK(log, listed, job'),
         \A c \in Conns : ReplyOK(log, c, reply'[c]),
         ServedOK', \A c \in Conns : OrderOK(c)'
  PROVE  IInv'
<1>1. TypeOK /\ UNCHANGED <<listed, parts, log, late>>
  BY DEF IInv, SafeInv, store
<1>2. TypeOK'
  BY <1>1 DEF TypeOK
<1>3. SafeInv' /\ OrderInv'
  BY <1>1, <1>2 DEF SafeInv, OrderInv
<1>4. TopicInv'
  BY <1>1, <1>2 DEF IInv, TopicInv
<1> QED
  BY <1>3, <1>4 DEF IInv

(* What holds of the replies that a step leaves alone.                      *)
LEMMA RepliesKept ==
  ASSUME IInv
  PROVE  /\ conn \in [Conns -> Connections] /\ reply \in [Conns -> Replies]
         /\ asked \in [Conns -> Nat] /\ TypeOK /\ OrderInv
         /\ \A c \in Conns : ReplyOK(log, c, reply[c]) /\ OrderOK(c)
BY DEF IInv, SafeInv, OrderInv, TypeOK

(* The next frame.                                                          *)
LEMMA DrainKeeps == ASSUME IInv, NEW c \in Conns, drainRequests(c) PROVE IInv'
<1>1. /\ conn \in [Conns -> Connections] /\ reply \in [Conns -> Replies]
      /\ asked \in [Conns -> Nat] /\ TypeOK /\ OrderInv
      /\ \A d \in Conns : ReplyOK(log, d, reply[d]) /\ OrderOK(d)
  BY RepliesKept
<1>2. job = NoJob /\ conn[c].ready /\ UNCHANGED <<store, late, asked, reply>>
  BY DEF drainRequests, Idle
<1>3. conn[c].open
  <2>1. ~Closed.ready
    BY DEF Closed
  <2> QED
    BY <1>1, <1>2, <2>1 DEF OrderOK
<1>4. CASE conn' = [conn EXCEPT ![c].ready = FALSE] /\ job' = job
  <2>1. /\ conn' \in [Conns -> Connections]
        /\ conn'[c].in = conn[c].in /\ conn'[c].parked = conn[c].parked /\ conn'[c].open = conn[c].open
        /\ \A d \in Conns : d # c => conn'[d] = conn[d]
    BY <1>1, <1>4, ZenonT(40) DEF Connections
  <2>2. OrderOK(c)'
    BY <1>1, <1>2, <1>3, <2>1, ZenonT(40) DEF OrderOK, Younger
  <2>3. \A d \in Conns : OrderOK(d)'
    BY <1>1, <1>2, <2>1, <2>2, OrderKept
  <2>4. ServedOK'
    BY <1>2, <1>4 DEF ServedOK
  <2> QED
    BY <1>1, <1>2, <1>4, <2>1, <2>3, <2>4, ClientStepKeeps
<1>5. CASE /\ conn[c].parked = << >> /\ conn[c].in # << >>
           /\ job' = Started(NewJob(c, Head(conn[c].in), TRUE, FALSE))
           /\ conn' = [conn EXCEPT ![c].in = Tail(@)]
  <2> DEFINE q == conn[c].in
             f == Head(q)
             j == NewJob(c, f, TRUE, FALSE)
  <2>1. q \in Seq(Frames) /\ q # << >> /\ \A i \in 1 .. Len(q) : q[i].id \in Nat
    BY <1>1, <1>5, WaitingTyped
  <2>2. /\ f \in Frames /\ f = q[1] /\ Tail(q) \in Seq(Frames)
        /\ Len(q) \in Nat /\ Len(q) >= 1 /\ Len(Tail(q)) = Len(q) - 1
        /\ \A i \in 1 .. Len(q) - 1 : Tail(q)[i] = q[i + 1]
    BY <2>1
  <2>3. j \in Jobs /\ j.c = c /\ j.id = f.id /\ ~j.poll /\ j.lo = 0
    BY <2>2, NewJobTyped, ZenonT(40)
  <2>4. /\ conn' \in [Conns -> Connections] /\ conn'[c].open
        /\ conn'[c].in = Tail(q) /\ conn'[c].parked = << >>
        /\ \A d \in Conns : d # c => conn'[d] = conn[d]
    BY <1>1, <1>3, <1>5, <2>2, ZenonT(40) DEF Connections
  <2>5. Younger(c, reply[c].id) /\ reply[c].id <= asked[c] /\ reply[c].id \in Nat /\ asked[c] \in Nat
    BY <1>1, WaitingTyped, ZenonT(40) DEF OrderOK
  <2> HIDE DEF q, f, j
  <2>6. /\ \A i \in 1 .. Len(q) : reply[c].id < q[i].id /\ q[i].id <= asked[c]
        /\ \A i, k \in 1 .. Len(q) : i < k => q[i].id < q[k].id
    BY <2>5 DEF Younger, q
  <2>0. ASSUME NEW i \in 1 .. Len(Tail(q))
        PROVE  i \in Int /\ i + 1 \in 1 .. Len(q) /\ 1 < i + 1 /\ Tail(q)[i] = q[i + 1] /\ 1 \in 1 .. Len(q)
    BY <2>2
  <2>7. /\ \A i \in 1 .. Len(Tail(q)) : f.id < Tail(q)[i].id /\ Tail(q)[i].id <= asked[c]
        /\ \A i, k \in 1 .. Len(Tail(q)) : i < k => Tail(q)[i].id < Tail(q)[k].id
        /\ f.id \in Nat /\ reply[c].id < f.id /\ f.id <= asked[c]
    <3>1. \A i \in 1 .. Len(Tail(q)) : f.id < Tail(q)[i].id /\ Tail(q)[i].id <= asked[c]
      BY <2>0, <2>2, <2>6, ZenonT(40)
    <3>2. ASSUME NEW i \in 1 .. Len(Tail(q)), NEW k \in 1 .. Len(Tail(q)), i < k
          PROVE  Tail(q)[i].id < Tail(q)[k].id
      <4>1. i + 1 < k + 1
        BY <2>0, <3>2
      <4> QED
        BY <2>0, <2>6, <4>1, ZenonT(40)
    <3>3. 1 \in 1 .. Len(q)
      BY <2>2
    <3> QED
      BY <2>1, <2>2, <2>6, <3>1, <3>2, <3>3, ZenonT(40)
  <2>8. \A i \in 1 .. Len(Tail(q)) : reply[c].id < Tail(q)[i].id /\ Tail(q)[i].id <= asked[c]
    BY <2>0, <2>6, ZenonT(40)
  <2>9. OrderOK(c)'
    <3>1. Younger(c, reply[c].id)'
      BY <1>2, <2>4, <2>7, <2>8, ZenonT(40) DEF Younger
    <3> QED
      BY <1>2, <2>4, <2>5, <3>1 DEF OrderOK
  <2>10. \A d \in Conns : OrderOK(d)'
    BY <1>1, <1>2, <2>4, <2>9, OrderKept, ZenonT(40)
  <2>11. Good(log, listed, job', j)
    BY <1>5, <2>3, StartedGood, ZenonT(40) DEF j, f, q
  <2>12. job' \in Jobs /\ JobOK(log, listed, job') /\ job'.c = c /\ job'.id = f.id /\ ~job'.poll
    BY <2>3, <2>11 DEF Good, Same
  <2>13. ServedOK'
    BY <1>2, <2>4, <2>7, <2>12, ZenonT(40) DEF ServedOK, Younger
  <2> QED
    BY <1>1, <1>2, <2>4, <2>10, <2>12, <2>13, ClientStepKeeps, ZenonT(40)
<1> QED
  BY <1>4, <1>5, ZenonT(40) DEF drainRequests

(* A parked fetch is tried again.                                           *)
LEMMA PollKeeps == ASSUME IInv, NEW c \in Conns, pollParked(c) PROVE IInv'
<1>1. /\ conn \in [Conns -> Connections] /\ reply \in [Conns -> Replies]
      /\ asked \in [Conns -> Nat] /\ TypeOK /\ OrderInv
      /\ \A d \in Conns : ReplyOK(log, d, reply[d]) /\ OrderOK(d)
  BY RepliesKept
<1> DEFINE f == Head(conn[c].parked)
           x == conn[c].deadline
<1>2. conn[c].parked # << >> /\ UNCHANGED <<store, late, conn, asked, reply>>
      /\ job' = Started(NewJob(c, f, x > 0, TRUE))
  BY DEF pollParked, clients
<1>3. f \in Frames /\ f = conn[c].parked[1]
  <2>1. conn[c].parked \in Seq(Frames)
    BY <1>1, WaitingTyped, ZenonT(40)
  <2>2. conn[c].parked # << >>
    BY <1>2, ZenonT(40)
  <2> DEFINE p == conn[c].parked
  <2> HIDE DEF p
  <2>3. p \in Seq(Frames) /\ p # << >>
    BY <2>1, <2>2, ZenonT(40) DEF p
  <2>4. Head(p) \in Frames /\ Head(p) = p[1]
    BY <2>3, FrontOf
  <2> QED
    BY <2>4, ZenonT(40) DEF p
<1>4. f = [id |-> f.id, req |-> f.req]
  BY <1>3 DEF Frames
<1>5. x \in Int
  BY <1>1 DEF Connections
<1> HIDE DEF f, x
<1>6. job' \in Jobs /\ JobOK(log, listed, job') /\ job'.c = c /\ job'.id = f.id /\ job'.req = f.req
      /\ job'.poll = TRUE
  <2> DEFINE j == NewJob(c, f, x > 0, TRUE)
  <2>1. j \in Jobs
    BY <1>3, <1>5 DEF NewJob, Jobs, Frames, NoReply, Replies, Refusals
  <2>2. j.c = c /\ j.id = f.id /\ j.req = f.req /\ j.poll = TRUE /\ j.lo = 0
    BY DEF NewJob
  <2>3. job' = Started(j)
    BY <1>2, ZenonT(40)
  <2> HIDE DEF j
  <2>4. Good(log, listed, Started(j), j)
    BY <2>1, <2>2, StartedGood
  <2>5. Good(log, listed, job', j)
    BY <2>3, <2>4, ZenonT(40)
  <2> QED
    BY <2>2, <2>5, ZenonT(40) DEF Good, Same
<1>7. conn[c].open
  <2>1. Closed.parked = << >>
    BY DEF Closed
  <2> QED
    BY <1>1, <1>2, <2>1, ZenonT(40) DEF OrderOK
<1>8. ServedOK'
  BY <1>2, <1>3, <1>4, <1>6, <1>7, ZenonT(40) DEF ServedOK
<1>9. \A d \in Conns : OrderOK(d)'
  BY <1>1, <1>2, OrderKept, ZenonT(40)
<1> QED
  BY <1>1, <1>2, <1>6, <1>8, <1>9, ClientStepKeeps, ZenonT(40)

(* A frame arrives, or the peer goes.                                       *)
LEMMA ReadableKeeps == ASSUME IInv, NEW c \in Conns, onReadable(c) PROVE IInv'
<1>1. /\ conn \in [Conns -> Connections] /\ reply \in [Conns -> Replies]
      /\ asked \in [Conns -> Nat] /\ TypeOK /\ OrderInv
      /\ \A d \in Conns : ReplyOK(log, d, reply[d]) /\ OrderOK(d)
  BY RepliesKept
<1>2. job = NoJob /\ conn[c].open /\ UNCHANGED <<store, late, job>>
  BY DEF onReadable, Idle
<1>3. ServedOK'
  BY <1>2 DEF ServedOK
<1>4. CASE closeConn(c) /\ asked' = asked
  <2>1. /\ conn' \in [Conns -> Connections] /\ reply' \in [Conns -> Replies]
        /\ conn'[c] = Closed /\ reply'[c] = NoReply
        /\ \A d \in Conns : d # c => conn'[d] = conn[d] /\ reply'[d] = reply[d]
    BY <1>1, <1>4, ClosedTyped, ZenonT(40) DEF closeConn
  <2>2. \A d \in Conns : OrderOK(d)'
    BY <1>1, <1>4, <2>1, OrderClosed, OrderKept
  <2>3. \A d \in Conns : ReplyOK(log, d, reply'[d])
    BY <1>1, <2>1, ClosedTyped, RefusalOK
  <2> QED
    BY <1>1, <1>2, <1>3, <1>4, <2>1, <2>2, <2>3, ClientStepKeeps
<1>5. ASSUME asked[c] < Len(Requests[c]), NEW req \in Requests[c][asked[c] + 1],
             conn' = [conn EXCEPT ![c].ready = TRUE,
                                  ![c].in = Append(@, [id |-> asked[c] + 1, req |-> req])],
             asked' = [asked EXCEPT ![c] = @ + 1], reply' = reply
      PROVE  IInv'
  <2> DEFINE n == asked[c] + 1
             f == [id |-> n, req |-> req]
             q == conn[c].in
             r == Append(q, f)
  <2>0. asked[c] \in Nat /\ q \in Seq(Frames) /\ \A i \in 1 .. Len(q) : q[i].id \in Nat
    BY <1>1, WaitingTyped, ZenonT(40)
  <2>1. asked[c] \in Nat /\ n \in Nat /\ q \in Seq(Frames) /\ \A i \in 1 .. Len(q) : q[i].id \in Nat
    <3>1. n \in Nat
      BY <2>0
    <3> QED
      BY <2>0, <3>1, ZenonT(40)
  <2>2. req \in RequestForms
    <3>1. Requests[c] \in Seq(SUBSET RequestForms)
      BY KafkaAssumption
    <3>2. n \in 1 .. Len(Requests[c])
      BY <1>5, <2>1, <3>1
    <3>3. Requests[c][n] \in SUBSET RequestForms
      BY <3>1, <3>2
    <3> QED
      BY <1>5, <3>3
  <2>3. f \in Frames /\ f.id = n
    BY <2>1, <2>2 DEF Frames
  <2>4. conn' = [conn EXCEPT ![c].ready = TRUE, ![c].in = r] /\ asked' = [asked EXCEPT ![c] = n]
    BY <1>1, <1>5
  <2> HIDE DEF f, n
  <2> HIDE DEF q
  <2>5. /\ r \in Seq(Frames) /\ Len(r) = Len(q) + 1 /\ r[Len(q) + 1] = f
        /\ \A i \in 1 .. Len(q) : r[i] = q[i]
    <3>0. q \in Seq(Frames) /\ f \in Frames
      BY <2>1, <2>3, ZenonT(40)
    <3>1. r \in Seq(Frames) /\ Len(r) = Len(q) + 1
      BY <3>0
    <3>2. r[Len(q) + 1] = f /\ \A i \in 1 .. Len(q) : r[i] = q[i]
      BY <3>0
    <3> QED
      BY <3>1, <3>2, ZenonT(40)
  <2> HIDE DEF r
  <2>6. /\ conn' \in [Conns -> Connections] /\ asked' \in [Conns -> Nat] /\ asked'[c] = n
        /\ conn'[c].in = r /\ conn'[c].parked = conn[c].parked /\ conn'[c].open
        /\ \A d \in Conns : d # c => conn'[d] = conn[d] /\ asked'[d] = asked[d]
    BY <1>1, <1>2, <2>1, <2>4, <2>5, ZenonT(40) DEF Connections
  <2>7. ASSUME NEW m \in Nat, m <= asked[c], Younger(c, m)
        PROVE  /\ \A i \in 1 .. Len(r) : m < r[i].id /\ r[i].id <= n
               /\ \A i, k \in 1 .. Len(r) : i < k => r[i].id < r[k].id
    <3>1. /\ \A i \in 1 .. Len(q) : m < q[i].id /\ q[i].id <= asked[c]
          /\ \A i, k \in 1 .. Len(q) : i < k => q[i].id < q[k].id
      BY <2>7 DEF Younger, q
    <3>2. Len(q) \in Nat
      BY <2>1
    <3>3. n = asked[c] + 1
      BY DEF n
    <3>4. \A i \in 1 .. Len(r) : IF i = Len(q) + 1 THEN r[i].id = n
                                 ELSE i \in 1 .. Len(q) /\ r[i].id = q[i].id
      BY <2>3, <2>5, <3>2
    <3>5. ASSUME NEW i \in 1 .. Len(r) PROVE m < r[i].id /\ r[i].id <= n
      <4>1. CASE i = Len(q) + 1
        <5>1. r[i].id = n
          BY <3>4, <4>1, ZenonT(40)
        <5>2. m < n /\ n <= n
          BY <2>1, <2>7, <3>3
        <5> QED
          BY <5>1, <5>2
      <4>2. CASE i # Len(q) + 1
        <5>1. i \in 1 .. Len(q) /\ r[i].id = q[i].id
          BY <3>4, <4>2, ZenonT(40)
        <5>2. m < q[i].id /\ q[i].id <= asked[c] /\ q[i].id \in Nat
          BY <2>1, <3>1, <5>1, ZenonT(40)
        <5> QED
          BY <2>1, <3>3, <5>1, <5>2
      <4> QED
        BY <4>1, <4>2, ZenonT(40)
    <3>6. ASSUME NEW i \in 1 .. Len(r), NEW k \in 1 .. Len(r), i < k PROVE r[i].id < r[k].id
      <4>1. i \in 1 .. Len(q) /\ r[i].id = q[i].id
        BY <2>5, <3>2, <3>4, <3>6
      <4>2. CASE k = Len(q) + 1
        BY <2>1, <3>1, <3>3, <3>4, <4>1, <4>2
      <4>3. CASE k # Len(q) + 1
        BY <3>1, <3>4, <3>6, <4>1, <4>3
      <4> QED
        BY <4>2, <4>3
    <3> QED
      BY <3>5, <3>6
  <2>8. OrderOK(c)'
    <3>1. OrderOK(c) /\ reply[c].id \in Nat /\ n = asked[c] + 1
      BY <1>1, WaitingTyped DEF n
    <3>2. Younger(c, reply[c].id)'
      <4>1. reply[c].id <= asked[c] /\ Younger(c, reply[c].id)
        BY <3>1 DEF OrderOK
      <4>2. /\ \A i \in 1 .. Len(r) : reply[c].id < r[i].id /\ r[i].id <= n
            /\ \A i, k \in 1 .. Len(r) : i < k => r[i].id < r[k].id
        BY <2>7, <3>1, <4>1
      <4>3. conn'[c].in = r /\ asked'[c] = n /\ reply' = reply
        BY <1>5, <2>6, ZenonT(40)
      <4> QED
        BY <4>2, <4>3, ZenonT(40) DEF Younger
    <3>3. conn[c].parked # << >> => Younger(c, conn[c].parked[1].id)'
      <4>1. conn[c].parked # << >> => conn[c].parked[1].id \in Nat
        BY <1>1, WaitingTyped
      <4> QED
        BY <2>6, <2>7, <3>1, <4>1, ZenonT(40) DEF OrderOK, Younger
    <3>4. reply'[c].id <= asked'[c]
          /\ (conn[c].parked # << >> => conn[c].parked[1].id <= asked'[c])
      <4>1. conn[c].parked # << >> => conn[c].parked[1].id \in Nat
        BY <1>1, WaitingTyped
      <4> QED
        BY <1>5, <2>1, <2>6, <3>1, <4>1 DEF OrderOK
    <3> QED
      BY <1>5, <2>6, <3>1, <3>2, <3>3, <3>4 DEF OrderOK
  <2>9. \A d \in Conns : OrderOK(d)'
    BY <1>1, <1>5, <2>6, <2>8, OrderKept
  <2> QED
    BY <1>1, <1>2, <1>3, <1>5, <2>6, <2>9, ClientStepKeeps
<1> QED
  BY <1>4, <1>5, ZenonT(40) DEF onReadable

(* A connection is opened.                                                  *)
LEMMA AcceptKeeps == ASSUME IInv, NEW c \in Conns, onAcceptable(c) PROVE IInv'
<1>1. /\ conn \in [Conns -> Connections] /\ reply \in [Conns -> Replies]
      /\ asked \in [Conns -> Nat] /\ TypeOK /\ OrderInv
      /\ \A d \in Conns : ReplyOK(log, d, reply[d]) /\ OrderOK(d)
  BY RepliesKept
<1>2. job = NoJob /\ ~conn[c].open /\ UNCHANGED <<store, late, job, asked, reply>>
      /\ conn' = [conn EXCEPT ![c] = NewConn]
  BY DEF onAcceptable, Idle
<1>3. /\ conn' \in [Conns -> Connections] /\ conn'[c] = NewConn
      /\ \A d \in Conns : d # c => conn'[d] = conn[d]
  BY <1>1, <1>2, ClosedTyped
<1>4. OrderOK(c)'
  <2>1. conn'[c].open /\ conn'[c].parked = << >> /\ Len(conn'[c].in) = 0
    BY <1>3 DEF NewConn
  <2>2. 1 .. Len(conn'[c].in) = {}
    BY <2>1
  <2>3. Younger(c, reply[c].id)'
    BY <2>2, ZenonT(40) DEF Younger
  <2>4. reply'[c].id <= asked'[c]
    BY <1>1, <1>2 DEF OrderOK
  <2> QED
    BY <2>1, <2>3, <2>4, ZenonT(40) DEF OrderOK
<1>5. \A d \in Conns : OrderOK(d)'
  BY <1>1, <1>2, <1>3, <1>4, OrderKept
<1>6. ServedOK'
  BY <1>2 DEF ServedOK
<1> QED
  BY <1>1, <1>2, <1>3, <1>5, <1>6, ClientStepKeeps

(* Time passes.                                                             *)
LEMMA TickKeeps == ASSUME IInv, Tick PROVE IInv'
<1>1. /\ conn \in [Conns -> Connections] /\ reply \in [Conns -> Replies]
      /\ asked \in [Conns -> Nat] /\ TypeOK /\ OrderInv
      /\ \A d \in Conns : ReplyOK(log, d, reply[d]) /\ OrderOK(d)
  BY RepliesKept
<1>2. UNCHANGED <<store, late, job, asked, reply>>
      /\ conn' = [c \in Conns |-> [conn[c] EXCEPT !.deadline = Max({@ - 1, 0})]]
  BY DEF Tick
<1>3. ASSUME NEW c \in Conns
      PROVE  /\ conn'[c] \in Connections
             /\ conn'[c].open = conn[c].open /\ conn'[c].in = conn[c].in
             /\ conn'[c].parked = conn[c].parked
             /\ conn[c] = Closed => conn'[c] = Closed
  <2> DEFINE x == conn[c]
             n == Max({x.deadline - 1, 0})
  <2>1. x \in Connections /\ x.deadline \in Int
    BY <1>1 DEF Connections
  <2>2. n \in Int /\ (x.deadline = 0 => n = 0)
    BY <2>1, OfTwo
  <2>3. conn'[c] = [x EXCEPT !.deadline = n]
    BY <1>2
  <2> HIDE DEF n, x
  <2>4. [x EXCEPT !.deadline = n] \in Connections
        /\ [x EXCEPT !.deadline = n].open = x.open /\ [x EXCEPT !.deadline = n].in = x.in
        /\ [x EXCEPT !.deadline = n].parked = x.parked
        /\ (x.deadline = n => [x EXCEPT !.deadline = n] = x)
    BY <2>1, <2>2 DEF Connections
  <2>5. x = Closed => x.deadline = 0
    BY DEF Closed
  <2> QED
    BY <2>2, <2>3, <2>4, <2>5 DEF x
<1>4. conn' \in [Conns -> Connections]
  BY <1>2, <1>3, ZenonT(40)
<1>5. ASSUME NEW c \in Conns PROVE OrderOK(c)'
  <2>1. OrderOK(c) /\ reply' = reply /\ asked' = asked
    BY <1>1, <1>2
  <2>3. Younger(c, reply[c].id)'
    BY <1>3, <2>1, ZenonT(40) DEF OrderOK, Younger
  <2>4. conn[c].parked # << >> => Younger(c, conn[c].parked[1].id)'
    BY <1>3, <2>1, ZenonT(40) DEF OrderOK, Younger
  <2> QED
    BY <1>3, <2>1, <2>3, <2>4, ZenonT(40) DEF OrderOK
<1>6. ServedOK'
  <2>1. job # NoJob => job.c \in Conns
    BY <1>1 DEF TypeOK, Jobs
  <2>2. ServedOK /\ job' = job /\ reply' = reply /\ asked' = asked
    BY <1>1, <1>2 DEF OrderInv
  <2>3. \A c \in Conns : /\ conn'[c].open = conn[c].open /\ conn'[c].in = conn[c].in
                          /\ conn'[c].parked = conn[c].parked
    BY <1>3, ZenonT(40)
  <2> QED
    BY <2>1, <2>2, <2>3, ZenonT(40) DEF ServedOK, Younger
<1>7. job' \in {NoJob} \cup Jobs /\ (job' # NoJob => JobOK(log, listed, job'))
  BY <1>2 DEF IInv, SafeInv, TypeOK
<1> QED
  BY <1>1, <1>2, <1>4, <1>5, <1>6, <1>7, ClientStepKeeps, ZenonT(40)

(* A command on a link that was given up is executed, or never is.          *)
LEMMA OverdueKeeps == ASSUME IInv, Overdue PROVE IInv'
<1>1. PICK cmd \in late : /\ late' = late \ {cmd}
                          /\ Execute(cmd) \/ UNCHANGED store
                          /\ UNCHANGED <<job, clients>>
  BY DEF Overdue
<1>2. TypeOK /\ TopicInv
  BY DEF IInv, SafeInv
<1>3. cmd \in Orders /\ (cmd.op = "HSETNX" => listed) /\ late' \subseteq late
  BY <1>1, <1>2 DEF TypeOK, TopicInv
<1>4. CASE Execute(cmd)
  BY <1>1, <1>3, <1>4, ExecuteExtends, StoreStepKeeps
<1>5. CASE UNCHANGED store
  <2>1. listed' = listed /\ parts' = parts /\ log' = log /\ log' \in Logs /\ Grows(log, log')
    BY <1>2, <1>5, StoreKept
  <2>2. Extends
    BY <1>2, <1>3, <2>1 DEF Extends, TypeOK, TopicInv
  <2> QED
    BY <1>1, <2>2, StoreStepKeeps
<1> QED
  BY <1>1, <1>4, <1>5

(* Another broker of the same store.                                        *)
LEMMA OtherBrokerKeeps == ASSUME IInv, OtherBroker PROVE IInv'
<1>1. late' \subseteq late /\ UNCHANGED <<job, clients>>
  BY DEF OtherBroker
<1>2. CASE Execute(Sadd)
  <2>1. Sadd \in Orders /\ Sadd.op = "SADD"
    BY DEF Sadd, Orders
  <2> QED
    BY <1>1, <1>2, <2>1, ExecuteExtends, StoreStepKeeps
<1>3. ASSUME listed, Execute([Hsetnx EXCEPT !.n = Theirs]) PROVE IInv'
  <2>1. [Hsetnx EXCEPT !.n = Theirs] \in [op : {"HSETNX"}, n : {Theirs}]
    BY DEF Hsetnx
  <2> QED
    BY <1>1, <1>3, <2>1, ExecuteExtends, StoreStepKeeps
<1>4. ASSUME NEW p \in Partitions, Execute(Rpush(p, <<[ts |-> Now, size |-> 1, by |-> << >>]>>))
      PROVE  IInv'
  <2> DEFINE r == [ts |-> Now, size |-> 1, by |-> << >>]
  <2>1. r \in Stored
    BY KafkaAssumption DEF Stored
  <2> HIDE DEF r
  <2>2. <<r>> \in Seq(Stored)
    BY <2>1
  <2>3. Rpush(p, <<r>>) \in Orders /\ Rpush(p, <<r>>).op = "RPUSH"
    BY <2>2, ZenonT(40) DEF Rpush, Orders
  <2> QED
    BY <1>1, <1>4, <2>3, ExecuteExtends, StoreStepKeeps DEF r
<1> QED
  BY <1>2, <1>3, <1>4, ZenonT(40) DEF OtherBroker

(* At the start.                                                            *)
LEMMA InitKeeps == ASSUME Init PROVE IInv
<1>1. << >> \in Seq(Stored)
  OBVIOUS
<1>2. log \in Logs
  BY <1>1 DEF Init, Logs
<1>3. TypeOK
  <2>1. conn \in [Conns -> Connections] /\ reply \in [Conns -> Replies] /\ asked \in [Conns -> Nat]
    BY ClosedTyped DEF Init
  <2> QED
    BY <1>2, <2>1, ZenonT(40) DEF Init, TypeOK
<1>4. \A c \in Conns : conn[c] = Closed /\ reply[c] = NoReply /\ asked[c] = 0
  BY DEF Init
<1>5. SafeInv
  <2>1. \A c \in Conns : ReplyOK(log, c, reply[c])
    BY <1>4, ClosedTyped, RefusalOK
  <2> QED
    BY <1>3, <2>1 DEF SafeInv, Init
<1>6. OrderInv
  <2>1. Closed.in = << >> /\ Closed.parked = << >> /\ NoReply.id = 0 /\ Len(<< >>) = 0
    BY DEF Closed, NoReply
  <2>2. ASSUME NEW c \in Conns PROVE OrderOK(c)
    <3>1. conn[c] = Closed /\ reply[c] = NoReply /\ asked[c] = 0
      BY <1>4, ZenonT(40)
    <3>2. 1 .. 0 = {} /\ 0 <= 0
      OBVIOUS
    <3>3. conn[c].in = << >> /\ conn[c].parked = << >> /\ reply[c].id = 0 /\ Len(conn[c].in) = 0
      BY <2>1, <3>1, ZenonT(40)
    <3>4. Younger(c, reply[c].id)
      BY <3>2, <3>3, ZenonT(40) DEF Younger
    <3> QED
      BY <3>1, <3>2, <3>3, <3>4, ZenonT(40) DEF OrderOK
  <2>3. ServedOK
    BY DEF Init, ServedOK
  <2> QED
    BY <1>3, <2>2, <2>3 DEF OrderInv
<1>7. TopicInv
  BY <1>3 DEF Init, TopicInv
<1> QED
  BY <1>5, <1>6, <1>7 DEF IInv

(* Every step keeps the invariant.                                          *)
LEMMA StepKeeps == ASSUME IInv, [Next]_vars PROVE IInv'
<1>1. CASE UNCHANGED vars
  <2>1. UNCHANGED <<store, late, conn, job, asked, reply>> /\ TypeOK /\ OrderInv /\ SafeInv
    BY <1>1 DEF vars, clients, IInv, SafeInv
  <2>2. \A c \in Conns : OrderOK(c)'
    BY <2>1, OrderKept DEF OrderInv
  <2>3. ServedOK'
    BY <2>1, ZenonT(40) DEF OrderInv, ServedOK, Younger
  <2> QED
    BY <2>1, <2>2, <2>3, ClientStepKeeps DEF SafeInv, TypeOK
<1>2. CASE Serve
  BY <1>2, HandleKeeps, ListTopicsKeeps, TopicPartitionsKeeps, CreateTopicKeeps, AppendKeeps,
     HighWatermarkKeeps, ReadKeeps, BisectKeeps DEF Serve
<1>3. CASE Tick
  BY <1>3, TickKeeps
<1>4. CASE Overdue
  BY <1>4, OverdueKeeps
<1>5. CASE OtherBroker
  BY <1>5, OtherBrokerKeeps
<1>6. ASSUME NEW c \in Conns,
             onAcceptable(c) \/ onReadable(c) \/ drainRequests(c) \/ pollParked(c)
      PROVE  IInv'
  BY <1>6, AcceptKeeps, ReadableKeeps, DrainKeeps, PollKeeps
<1> QED
  BY <1>1, <1>2, <1>3, <1>4, <1>5, <1>6 DEF Next

(* The invariant holds in every reachable state: what each response says of *)
(* the logs, what each request in the making has learnt of them, the order  *)
(* of what waits, and that only a listed topic has partitions.              *)
THEOREM InductiveInvariant == Spec => []IInv
<1>1. Init => IInv
  BY InitKeeps
<1>2. IInv /\ [Next]_vars => IInv'
  BY StepKeeps
<1> QED
  BY <1>1, <1>2, PTL DEF Spec

(***************************************************************************)
(* The properties.                                                         *)
(***************************************************************************)

(* A run of a log is the stretch of it that SubSeq cuts out.                *)
LEMMA RunIsSubSeq ==
  ASSUME NEW s \in Seq(Stored), NEW r \in Seq(Stored), NEW from \in Int, IsRun(r, s, from)
  PROVE  r = SubSeq(s, from + 1, from + Len(r))
<1> DEFINE n == Len(r)
           t == SubSeq(s, from + 1, from + n)
<1>1. n \in Nat /\ Len(s) \in Nat /\ from >= 0 /\ from + n <= Len(s)
      /\ \A i \in 1 .. n : r[i] = s[from + i]
  BY DEF IsRun
<1>2. t \in Seq(Stored) /\ Len(t) = n
  BY <1>1
<1>3. \A i \in 1 .. n : t[i] = s[from + i]
  BY <1>1
<1> HIDE DEF t
<1>4. \A i \in 1 .. n : t[i] = r[i]
  BY <1>1, <1>3
<1>5. r = t
  BY <1>1, <1>2, <1>4
<1> QED
  BY <1>5 DEF t

(* The first of those past offset k that are at or after ts.                *)
LEMMA SplitIsLeast ==
  ASSUME NEW n \in Nat, NEW k \in 0 .. n - 1, NEW S \in SUBSET (1 .. n),
         \A i \in 1 .. n : i \in S <=> i > k
  PROVE  S # {} /\ Min(S) = k + 1
<1>1. k + 1 \in S /\ \A i \in S : k + 1 <= i
  OBVIOUS
<1>2. \A x \in S : (\A y \in S : x <= y) => x = k + 1
  <2> SUFFICES ASSUME NEW x \in S, \A y \in S : x <= y PROVE x = k + 1
    OBVIOUS
  <2>1. x <= k + 1 /\ k + 1 <= x /\ x \in Int
    BY <1>1
  <2> QED
    BY <2>1
<1>3. \E x \in S : \A y \in S : x <= y
  BY <1>1
<1>4. Min(S) \in S /\ \A y \in S : Min(S) <= y
  BY <1>3, ZenonT(40) DEF Min
<1> QED
  BY <1>1, <1>2, <1>4, ZenonT(40)

(* A response to a produce, a fetch or a ListOffsets, typed.                *)
LEMMA AnsweredTyped ==
  ASSUME TypeOK, NEW c \in Conns, reply[c].req.op \in {"produce", "fetch", "offsets"}
  PROVE  /\ reply[c].req \in RequestForms /\ reply[c].offset \in Int /\ reply[c].hw \in Nat
         /\ reply[c].records \in Seq(Stored) /\ reply[c].req.p \in Partitions
         /\ log[reply[c].req.p] \in Seq(Stored)
<1>1. reply[c] \in Replies /\ log \in Logs
  BY DEF TypeOK
<1>2. /\ reply[c].req \in RequestForms /\ reply[c].offset \in Int /\ reply[c].hw \in Nat
      /\ reply[c].records \in Seq(Stored)
  BY <1>1 DEF Replies, Refusals, Answers
<1>3. reply[c].req.p \in Partitions
  BY <1>2, RequestTyped
<1> QED
  BY <1>1, <1>2, <1>3 DEF Logs

(* What the invariant says of the responses and the queues, property by     *)
(* property: an acknowledged produce.                                       *)
LEMMA AckedFollows == ASSUME IInv PROVE AckedAtOffset
<1> SUFFICES ASSUME NEW c \in Conns, reply[c].req.op = "produce",
                    NEW i \in DOMAIN reply[c].req.records
             PROVE  /\ reply[c].offset + i \in DOMAIN log[reply[c].req.p]
                    /\ log[reply[c].req.p][reply[c].offset + i].by = <<c, reply[c].id, i>>
  BY ZenonT(40) DEF AckedAtOffset, Succeeded
<1>1. Holds(log, c, reply[c]) /\ TypeOK
  BY ZenonT(40) DEF IInv, SafeInv, ReplyOK
<1>2. reply[c].offset + i \in 1 .. Len(log[reply[c].req.p])
      /\ log[reply[c].req.p][reply[c].offset + i].by = <<c, reply[c].id, i>>
  BY <1>1, ZenonT(40) DEF Holds
<1>3. log[reply[c].req.p] \in Seq(Stored)
  BY <1>1, AnsweredTyped
<1>4. DOMAIN log[reply[c].req.p] = 1 .. Len(log[reply[c].req.p])
  BY <1>3
<1> QED
  BY <1>2, <1>4, ZenonT(40)

(* A fetch.                                                                 *)
LEMMA FetchFollows == ASSUME IInv PROVE FetchIsTheNextRun
<1> SUFFICES ASSUME NEW c \in Conns, reply[c].req.op = "fetch"
             PROVE  LET r == reply[c]
                        next == r.req.offset + Len(r.records)
                    IN /\ r.req.offset >= 0 /\ next <= Len(log[r.req.p])
                       /\ r.records = SubSeq(log[r.req.p], r.req.offset + 1, next)
                       /\ r.req.offset < r.hw => r.records # << >>
  BY DEF FetchIsTheNextRun, Succeeded
<1>1. TypeOK /\ ReplyOK(log, c, reply[c])
  BY DEF IInv, SafeInv
<1> DEFINE q == reply[c].req
           s == log[q.p]
           r == reply[c].records
<1>2. q \in RequestForms /\ s \in Seq(Stored) /\ r \in Seq(Stored)
  BY <1>1, AnsweredTyped
<1>3. q.offset \in Int
  BY <1>2, RequestTyped
<1>4. IsRun(r, s, q.offset) /\ (q.offset < reply[c].hw => r # << >>)
  BY <1>1, ZenonT(40) DEF ReplyOK
<1> HIDE DEF r, s, q
<1>5. r = SubSeq(s, q.offset + 1, q.offset + Len(r))
  BY <1>2, <1>3, <1>4, RunIsSubSeq
<1>6. q.offset >= 0 /\ q.offset + Len(r) <= Len(s)
  BY <1>4 DEF IsRun
<1> QED
  BY <1>4, <1>5, <1>6, ZenonT(40) DEF q, r, s

(* A ListOffsets for a time.                                                *)
LEMMA BisectionFollows == ASSUME IInv PROVE BisectionIsExact
<1> SUFFICES ASSUME NEW c \in Conns, reply[c].req.op = "offsets", reply[c].req.ts >= 0
             PROVE  LET r == reply[c]
                        times == [i \in 1 .. r.hw |-> log[r.req.p][i].ts]
                        hits == {i \in 1 .. r.hw : times[i] >= r.req.ts}
                    IN (\A i, k \in 1 .. r.hw : i < k => times[i] <= times[k]) =>
                         r.offset = IF hits = {} THEN -1 ELSE Min(hits) - 1
  BY ZenonT(40) DEF BisectionIsExact, Succeeded
<1>1. TypeOK /\ ReplyOK(log, c, reply[c])
  BY DEF IInv, SafeInv
<1> DEFINE q == reply[c].req
           s == log[q.p]
           n == reply[c].hw
           times == [i \in 1 .. n |-> s[i].ts]
           hits == {i \in 1 .. n : times[i] >= q.ts}
           o == reply[c].offset
<1>2. q \in RequestForms /\ s \in Seq(Stored) /\ n \in Nat /\ o \in Int
  BY <1>1, AnsweredTyped
<1>3. q.ts \in Int
  BY <1>2, RequestTyped
<1>4. /\ n <= Len(s)
      /\ Sorted(s, n) => \/ o = -1 /\ Splits(s, n, q.ts, n)
                         \/ o \in 0 .. n - 1 /\ Splits(s, n, q.ts, o)
  BY <1>1, ZenonT(40) DEF ReplyOK
<1> SUFFICES ASSUME \A i, k \in 1 .. n : i < k => times[i] <= times[k]
             PROVE  o = IF hits = {} THEN -1 ELSE Min(hits) - 1
  BY ZenonT(40)
<1>5. \A i \in 1 .. n : times[i] = s[i].ts
  BY ZenonT(40)
<1>6. \A i \in hits : i \in 1 .. n
  BY ZenonT(40)
<1>7. \A i \in 1 .. n : i \in hits <=> times[i] >= q.ts
  BY ZenonT(40)
<1>8. Sorted(s, n)
  BY <1>5, ZenonT(40) DEF Sorted
<1> HIDE DEF q, s, n, times, hits, o
<1>9. \A i \in 1 .. n : s[i].ts \in Int
  <2>1. \A x \in Stored : x.ts \in Int
    BY DEF Stored
  <2>2. \A i \in 1 .. n : s[i] \in Stored
    BY <1>2, <1>4
  <2> QED
    BY <2>1, <2>2, ZenonT(40)
<1>10. CASE o = -1 /\ Splits(s, n, q.ts, n)
  <2>1. \A i \in 1 .. n : s[i].ts < q.ts
    BY <1>2, <1>10 DEF Splits
  <2>2. hits = {}
    BY <1>3, <1>5, <1>6, <1>7, <1>9, <2>1
  <2> QED
    BY <1>10, <2>2
<1>11. CASE o \in 0 .. n - 1 /\ Splits(s, n, q.ts, o)
  <2>1. \A i \in 1 .. n : s[i].ts >= q.ts <=> i > o
    BY <1>2, <1>3, <1>9, <1>11 DEF Splits
  <2>2. hits \in SUBSET (1 .. n) /\ \A i \in 1 .. n : i \in hits <=> i > o
    BY <1>5, <1>6, <1>7, <2>1
  <2>3. hits # {} /\ Min(hits) = o + 1
    BY <1>2, <1>11, <2>2, SplitIsLeast
  <2> QED
    BY <1>2, <2>3
<1> QED
  BY <1>4, <1>8, <1>10, <1>11

(* What waits.                                                              *)
LEMMA OrderFollows == ASSUME IInv PROVE AnswersInOrder
<1> SUFFICES ASSUME NEW c \in Conns
             PROVE  LET waiting == conn[c].parked \o conn[c].in
                    IN /\ \A i \in DOMAIN waiting : waiting[i].id > reply[c].id
                       /\ \A i, k \in DOMAIN waiting : i < k => waiting[i].id < waiting[k].id
  BY ZenonT(40) DEF AnswersInOrder
<1>1. TypeOK /\ OrderOK(c)
  BY DEF IInv, OrderInv
<1> DEFINE p == conn[c].parked
           q == conn[c].in
           w == p \o q
           n == reply[c].id
<1>2. /\ p \in Seq(Frames) /\ q \in Seq(Frames) /\ n \in Nat
      /\ \A i \in 1 .. Len(q) : q[i].id \in Nat
      /\ p # << >> => p[1].id \in Nat
  BY <1>1, WaitingTyped
<1>3. /\ \A i \in 1 .. Len(q) : n < q[i].id
      /\ \A i, k \in 1 .. Len(q) : i < k => q[i].id < q[k].id
  BY <1>1, ZenonT(40) DEF OrderOK, Younger
<1>4. p # << >> => Len(p) = 1 /\ n < p[1].id /\ \A i \in 1 .. Len(q) : p[1].id < q[i].id
  BY <1>1 DEF OrderOK, Younger
<1> HIDE DEF p, q, n
<1>5. /\ DOMAIN w = 1 .. Len(p) + Len(q) /\ Len(p) \in Nat /\ Len(q) \in Nat
      /\ \A i \in 1 .. Len(p) + Len(q) : w[i] = IF i <= Len(p) THEN p[i] ELSE q[i - Len(p)]
  BY <1>2
<1> HIDE DEF w
<1>6. CASE p = << >>
  <2>1. Len(p) = 0
    BY <1>6
  <2>2. DOMAIN w = 1 .. Len(q) /\ \A i \in 1 .. Len(q) : w[i] = q[i]
    BY <1>5, <2>1
  <2>3. /\ \A i \in DOMAIN w : w[i].id > n
        /\ \A i, k \in DOMAIN w : i < k => w[i].id < w[k].id
    BY <1>2, <1>3, <2>2
  <2> QED
    BY <2>3, ZenonT(40) DEF w, p, q, n
<1>7. CASE p # << >>
  <2>1. Len(p) = 1
    BY <1>4, <1>7
  <2>2. DOMAIN w = 1 .. Len(q) + 1 /\ w[1] = p[1] /\ \A i \in 2 .. Len(q) + 1 : w[i] = q[i - 1]
    BY <1>5, <2>1
  <2>3. \A i \in DOMAIN w : i = 1 \/ (i \in 2 .. Len(q) + 1 /\ i - 1 \in 1 .. Len(q))
    BY <1>5, <2>2
  <2>4. \A i \in DOMAIN w : w[i].id > n
    BY <1>2, <1>3, <1>4, <1>7, <2>2, <2>3
  <2>5. ASSUME NEW i \in DOMAIN w, NEW k \in DOMAIN w, i < k PROVE w[i].id < w[k].id
    <3>1. k \in 2 .. Len(q) + 1 /\ k - 1 \in 1 .. Len(q) /\ w[k] = q[k - 1]
      BY <2>2, <2>3, <2>5
    <3>2. CASE i = 1
      BY <1>4, <1>7, <2>2, <3>1, <3>2
    <3>3. CASE i # 1
      <4>1. i - 1 \in 1 .. Len(q) /\ w[i] = q[i - 1] /\ i - 1 < k - 1
        BY <2>2, <2>3, <2>5, <3>1, <3>3
      <4> QED
        BY <1>3, <3>1, <4>1
    <3> QED
      BY <3>2, <3>3
  <2> QED
    BY <2>4, <2>5, ZenonT(40) DEF w, p, q, n
<1> QED
  BY <1>6, <1>7, ZenonT(40)

(* A step that finds a number of partitions leaves it: what one step does   *)
(* to the store is at most one command, and HSETNX writes only where there  *)
(* is nothing.                                                              *)
LEMMA PartitionsStay == ASSUME [Next]_vars, parts # 0 PROVE parts' = parts
<1>1. \A cmd : Execute(cmd) => parts' = parts
  BY DEF Execute, sadd, hsetnx, pushGeneric
<1>2. \A cmd : Answered(cmd) \/ Fails(cmd) => parts' = parts
  BY <1>1 DEF Answered, Fails, store
<1>3. Reads => parts' = parts
  BY DEF Reads, store
<1>4. CASE Serve
  <2>1. handleRequest \/ listTopics \/ topicPartitions \/ highWatermark \/ read \/ offsetForTimestamp
        => Reads
    BY ZenonT(40) DEF handleRequest, listTopics, topicPartitions, highWatermark, read, offsetForTimestamp
  <2>2. append => parts' = parts
    BY <1>2, ZenonT(40) DEF append
  <2>3. createTopic => parts' = parts
    BY <1>2, ZenonT(40) DEF createTopic
  <2> QED
    BY <1>3, <1>4, <2>1, <2>2, <2>3, ZenonT(40) DEF Serve
<1>5. CASE Overdue
  BY <1>1, <1>5 DEF Overdue, store
<1>6. CASE OtherBroker
  BY <1>1, <1>6, ZenonT(40) DEF OtherBroker
<1>7. CASE Tick
  BY <1>7 DEF Tick, store
<1>8. ASSUME NEW c \in Conns,
             onAcceptable(c) \/ onReadable(c) \/ drainRequests(c) \/ pollParked(c)
      PROVE  parts' = parts
  <2>1. UNCHANGED store
    BY <1>8, ZenonT(40) DEF onAcceptable, onReadable, drainRequests, pollParked
  <2> QED
    BY <2>1 DEF store
<1>9. CASE UNCHANGED vars
  BY <1>9 DEF vars, store
<1> QED
  BY <1>4, <1>5, <1>6, <1>7, <1>8, <1>9, ZenonT(40) DEF Next

(* The records of an acknowledged produce are in the log at the offsets     *)
(* that the response names, whatever other connections and other brokers    *)
(* append (PartitionLog::append's base offset).                             *)
THEOREM AcknowledgedRecordsAreStored == Spec => []AckedAtOffset
<1>1. IInv => AckedAtOffset
  BY AckedFollows
<1> QED
  BY <1>1, InductiveInvariant, PTL

(* A fetch answers with the run of the log from the offset asked for, and   *)
(* with at least one record when there is one (Broker::fetch's trim).       *)
THEOREM FetchesLeaveNothingOut == Spec => []FetchIsTheNextRun
<1>1. IInv => FetchIsTheNextRun
  BY FetchFollows
<1> QED
  BY <1>1, InductiveInvariant, PTL

(* ListOffsets for a time finds the first record at or after it, although   *)
(* the log grows between the calls of the bisection (offsetForTimestamp).   *)
THEOREM BisectionFindsTheFirst == Spec => []BisectionIsExact
<1>1. IInv => BisectionIsExact
  BY BisectionFollows
<1> QED
  BY <1>1, InductiveInvariant, PTL

(* A connection's requests are answered in the order in which they came,    *)
(* parked fetches included (drainRequests and pollParked).                  *)
THEOREM RequestsAreAnsweredInOrder == Spec => []AnswersInOrder
<1>1. IInv => AnswersInOrder
  BY OrderFollows
<1> QED
  BY <1>1, InductiveInvariant, PTL

(* A topic with partitions is listed, and keeps their number, although      *)
(* createTopic is two calls that may fail, be repeated, come late, and race *)
(* another broker.                                                          *)
THEOREM TopicsAreNotRepartitioned == Spec => TopicIsSettled
<1> DEFINE A == parts' # 0 => listed' /\ (parts # 0 => parts' = parts)
<1>1. IInv /\ [Next]_vars => A
  <2> SUFFICES ASSUME IInv, [Next]_vars PROVE A
    BY ZenonT(40)
  <2>1. IInv'
    BY StepKeeps
  <2>2. parts' # 0 => listed'
    BY <2>1 DEF IInv, TopicInv
  <2> QED
    BY <2>2, PartitionsStay, ZenonT(40)
<1>2. Spec => [][A]_vars
  BY <1>1, InductiveInvariant, PTL DEF Spec
<1> QED
  BY <1>2 DEF TopicIsSettled

=============================================================================
