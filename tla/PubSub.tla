------------------------------- MODULE PubSub -------------------------------
(***************************************************************************)
(* Connections, publish/subscribe and the event loop: who is subscribed to *)
(* what, and how frames travel from the handler that produces them to the  *)
(* socket of the client that they are for.                                 *)
(*                                                                         *)
(* The Server object and the sockets' send buffers are one record, and a   *)
(* handler is an operator from that record to the next one, as the thread  *)
(* runs it without interruption.  A frame is abstracted to what it is to   *)
(* its reader, and a write accepts whole frames.                           *)
(***************************************************************************)
EXTENDS Integers, Sequences, FiniteSets, FiniteSetsExt, Functions

CONSTANTS
  Fds,            \* the descriptors the kernel gives to connections
  Names,          \* channels, patterns and shard channels
  Talk,           \* Talk[fd]: the pipelines of commands that a peer on fd sends
  KeyspaceChannel,\* "__keyspace@0__:k"
  KeyeventChannel,\* "__keyevent@0__:set"
  Matches(_, _),  \* globMatch(pattern, channel)
  NotifyFlags,    \* config_.notify_flags
  Room,           \* frames that a socket's send buffer holds
  MaxQueue,       \* bound: commands queued by MULTI
  MaxUnread,      \* bound: commands come while the peers have at most so many
                  \*   frames unread,
  MaxOut          \*   and no output buffer, which keeps what was sent until all
                  \*   of it is, has more frames

VARIABLE server   \* the Server object and the sockets' send buffers

Kinds == {"Channel", "Pattern", "Shard"}

NoOne == 0        \* executing_fd_ when no handler runs

\* "set" stands for any command that changes a key, "get" for one that neither
\* changes nor publishes; "bad" is input that is no command.
Commands ==
  [op : {"subscribe", "unsubscribe"}, kind : Kinds, names : Seq(Names)]
    \cup [op : {"publish", "spublish"}, channel : Names]
    \cup [op : {"hello"}, version : {2, 3}]
    \cup [op : {"multi", "exec", "discard", "quit", "reset", "ping", "set", "get",
                "unknown", "bad"}]

ASSUME PubSubAssumption ==
  /\ Room \in Nat \ {0} /\ MaxQueue \in Nat
  /\ NoOne \notin Fds
  /\ \A names \in SUBSET Names : Cardinality(names) \in Nat
  /\ \A fd \in Fds : \A cmds \in Talk[fd] : cmds \in Seq(Commands)

NoSubs == [k \in Kinds |-> {}]

NewClient ==
  [open |-> TRUE, subs |-> NoSubs, proto |-> 2,
   inMulti |-> FALSE, multiError |-> FALSE, queue |-> <<>>,
   shouldClose |-> FALSE, out |-> <<>>, sent |-> 0]

Closed == [NewClient EXCEPT !.open = FALSE]

IsOpen(S, fd) == S.client[fd].open
Held(S, fd, kind) == S.client[fd].subs[kind]
inSubscriberMode(c) == \E k \in Kinds : c.subs[k] # {}
Unsent(c) == SubSeq(c.out, c.sent + 1, Len(c.out))

-----------------------------------------------------------------------------
(* PubSub: from a name to the descriptors that subscribe to it.            *)

addTo(map, names, fd) ==
  [n \in DOMAIN map \cup names |->
     (IF n \in DOMAIN map THEN map[n] ELSE {}) \cup (IF n \in names THEN {fd} ELSE {})]

\* A name without subscribers has no entry.
removeFrom(map, names, fd) ==
  LET left(n) == IF n \in names THEN map[n] \ {fd} ELSE map[n]
  IN  [n \in {m \in DOMAIN map : left(m) # {}} |-> left(n)]

channelSubscribers(map, name) == IF name \in DOMAIN map THEN map[name] ELSE {}

updateRegistry(S, kind, names, fd, subscribing) ==
  [S EXCEPT !.registry[kind] = IF subscribing THEN addTo(@, names, fd)
                                              ELSE removeFrom(@, names, fd)]

-----------------------------------------------------------------------------
(* Output.  owed is history: the frames produced for a connection that its *)
(* peer has not read yet.                                                  *)

\* frames[fd] is appended to the output of fd.
Produce(S, frames) ==
  [S EXCEPT !.client = [fd \in Fds |-> [S.client[fd] EXCEPT !.out = @ \o frames[fd]]],
            !.owed = [fd \in Fds |-> S.owed[fd] \o frames[fd]]]

For(fd, frames) == [g \in Fds |-> IF g = fd THEN frames ELSE <<>>]

Reply(S, fd) == Produce(S, For(fd, <<"reply">>))

\* EventLoop::modFd; a descriptor without a handler has no interest.
modFd(S, fds, interest) ==
  [S EXCEPT !.interest = [fd \in Fds |-> IF fd \in fds /\ S.interest[fd] # {}
                                        THEN interest ELSE S.interest[fd]]]

\* queueWrite for every recipient of a message: n[fd] frames for fd.
Messages(n, to) == [fd \in Fds |-> [i \in 1 .. (IF fd \in to THEN n[fd] ELSE 0) |-> "message"]]

Recipients(S, n) == {fd \in Fds : n[fd] > 0 /\ IsOpen(S, fd)}

queueWriteAtOnce(S, n) ==
  LET to == Recipients(S, n)
  IN  modFd(Produce(S, Messages(n, to)), to, {"Read", "Write"})

\* What is for the client whose command runs is parked.
Parked(S, n) ==
  IF S.executing \in Recipients(S, n)
  THEN [S EXCEPT !.selfPending = @ \o Messages(n, {S.executing})[S.executing]]
  ELSE S

queueWriteUnasked(S, n) ==
  Produce(Parked(S, n), Messages(n, Recipients(S, n) \ {S.executing}))

queueWrite(S, n) ==
  LET to == Recipients(S, n) \ {S.executing}
  IN  modFd(Produce(Parked(S, n), Messages(n, to)), to, {"Read", "Write"})

\* One message for the channel and one for each pattern that matches it.
publishMessage(S, channel) ==
  LET map == S.registry["Pattern"]
      direct == channelSubscribers(S.registry["Channel"], channel)
      matching(fd) == {p \in DOMAIN map : Matches(p, channel) /\ fd \in map[p]}
  IN  queueWrite(S, [fd \in Fds |-> (IF fd \in direct THEN 1 ELSE 0)
                                     + Cardinality(matching(fd))])

publishShardMessage(S, channel) ==
  LET direct == channelSubscribers(S.registry["Shard"], channel)
  IN  queueWrite(S, [fd \in Fds |-> IF fd \in direct THEN 1 ELSE 0])

\* Keyspace first, then keyevent; WATCH is the subject of Transactions.
notifyKeyspaceEvent(S) ==
  LET space == IF "K" \in NotifyFlags THEN publishMessage(S, KeyspaceChannel) ELSE S
  IN  IF "$" \notin NotifyFlags THEN S
      ELSE IF "E" \in NotifyFlags THEN publishMessage(space, KeyeventChannel)
      ELSE space

-----------------------------------------------------------------------------
(* The handlers.                                                           *)

\* One frame for every name.
confirm(S, fd, n) == Produce(S, For(fd, [i \in 1 .. n |-> "reply"]))

\* No name has to do with another, and one that comes twice is held by then: all of
\* them at once.
subscribeTo(S, fd, kind, names) ==
  LET fresh == Range(names) \ Held(S, fd, kind)
      held  == [S EXCEPT !.client[fd].subs[kind] = @ \cup fresh]
  IN  confirm(updateRegistry(held, kind, fresh, fd, TRUE), fd, Len(names))

\* Without names, every subscription of the kind; none of them is one frame too.
unsubscribeFrom(S, fd, kind, names) ==
  LET held   == Held(S, fd, kind)
      gone   == IF names = <<>> THEN held ELSE Range(names) \cap held
      left   == [S EXCEPT !.client[fd].subs[kind] = @ \ gone]
      frames == IF names # <<>> THEN Len(names) ELSE IF held = {} THEN 1 ELSE Cardinality(held)
  IN  confirm(updateRegistry(left, kind, gone, fd, FALSE), fd, frames)

clearSubscriptionsOfClientOnly(S, fd) ==
  [S EXCEPT !.client[fd].subs = NoSubs]

clearSubscriptions(S, fd) ==
  [S EXCEPT !.registry["Channel"] = removeFrom(@, Held(S, fd, "Channel"), fd),
            !.registry["Pattern"] = removeFrom(@, Held(S, fd, "Pattern"), fd),
            !.registry["Shard"]   = removeFrom(@, Held(S, fd, "Shard"), fd),
            !.client[fd].subs = NoSubs]

discardTransaction(S, fd) ==
  [S EXCEPT !.client[fd].inMulti = FALSE, !.client[fd].multiError = FALSE,
            !.client[fd].queue = <<>>]

hello(S, fd, version) == Reply([S EXCEPT !.client[fd].proto = version], fd)

reset(S, fd) ==
  LET clean == discardTransaction(clearSubscriptions(S, fd), fd)
  IN  Reply([clean EXCEPT !.client[fd].proto = 2], fd)

quit(S, fd) == [Reply(S, fd) EXCEPT !.client[fd].shouldClose = TRUE]

multi(S, fd) == Reply([S EXCEPT !.client[fd].inMulti = TRUE], fd)

discard(S, fd) ==
  Reply(IF S.client[fd].inMulti THEN discardTransaction(S, fd) ELSE S, fd)

\* The handlers of commands that MULTI queues.
Handler(S, fd, cmd) ==
  CASE cmd.op = "subscribe"   -> subscribeTo(S, fd, cmd.kind, cmd.names)
    [] cmd.op = "unsubscribe" -> unsubscribeFrom(S, fd, cmd.kind, cmd.names)
    [] cmd.op = "publish"     -> Reply(publishMessage(S, cmd.channel), fd)
    [] cmd.op = "spublish"    -> Reply(publishShardMessage(S, cmd.channel), fd)
    [] cmd.op = "set"         -> Reply(notifyKeyspaceEvent(S), fd)
    [] cmd.op = "hello"       -> hello(S, fd, cmd.version)
    [] OTHER                  -> Reply(S, fd)

callCommand(S, fd, cmd) ==
  [Handler([S EXCEPT !.executing = fd], fd, cmd) EXCEPT !.executing = S.executing]

\* The server after the first i commands of the queue, and after all of them.
RunQueue(S, fd, queue) ==
  LET run[i \in 0 .. Len(queue)] ==
        IF i = 0 THEN S ELSE callCommand(run[i - 1], fd, queue[i])
  IN  run[Len(queue)]

\* The queue is taken and the transaction ended before its first command runs.
exec(S, fd) ==
  LET c     == S.client[fd]
      ended == discardTransaction(S, fd)
  IN  IF ~c.inMulti \/ c.multiError THEN Reply(IF c.inMulti THEN ended ELSE S, fd)
      ELSE RunQueue(Reply(ended, fd), fd, c.queue)

\* Any command, the transaction's own included.
AnyHandler(S, fd, cmd) ==
  CASE cmd.op = "multi"   -> multi(S, fd)
    [] cmd.op = "exec"    -> exec(S, fd)
    [] cmd.op = "discard" -> discard(S, fd)
    [] cmd.op = "quit"    -> quit(S, fd)
    [] cmd.op = "reset"   -> reset(S, fd)
    [] OTHER              -> Handler(S, fd, cmd)

-----------------------------------------------------------------------------
(* dispatch.  No password is set, so every client is authenticated.        *)

isAllowedInSubscriberMode(op) ==
  op \in {"subscribe", "unsubscribe", "ping", "quit", "reset"}

isTransactionControlHello(op) ==
  op \in {"multi", "exec", "discard", "quit", "reset", "hello"}

isTransactionControl(op) == op \in {"multi", "exec", "discard", "quit", "reset"}

reject(S, fd, cmd) ==
  Reply(IF cmd.op = "exec" THEN discardTransaction(S, fd)
        ELSE [S EXCEPT !.client[fd].multiError = @ \/ S.client[fd].inMulti], fd)

\* The frames parked while the handler ran go behind its reply.  early is history:
\* a message got into the output before the reply was complete.
Unparked(S, fd, before) ==
  LET added == SubSeq(S.client[fd].out, before + 1, Len(S.client[fd].out))
  IN  [Produce(S, For(fd, S.selfPending)) EXCEPT
         !.executing = NoOne, !.selfPending = <<>>,
         !.early = @ \/ "message" \in Range(added)]

dispatch(S, fd, cmd) ==
  LET c == S.client[fd]
  IN  IF \/ cmd.op = "unknown"
         \/ c.proto = 2 /\ inSubscriberMode(c) /\ ~isAllowedInSubscriberMode(cmd.op)
      THEN reject(S, fd, cmd)
      ELSE IF c.inMulti /\ ~isTransactionControl(cmd.op)
      THEN Reply([S EXCEPT !.client[fd].queue = Append(@, cmd)], fd)
      ELSE Unparked(AnyHandler([S EXCEPT !.executing = fd], fd, cmd), fd, Len(c.out))

-----------------------------------------------------------------------------
(* Reading, writing and closing.                                           *)

\* What the socket has accepted of a closed connection is not followed further.
\* No handler closes the connection that it runs for, so that the deferred close
\* (pending_close_) is not taken.
closeClient(S, fd) ==
  IF IsOpen(S, fd)
  THEN [clearSubscriptions(S, fd) EXCEPT !.client[fd] = Closed, !.interest[fd] = {},
                                         !.wire[fd] = <<>>, !.owed[fd] = <<>>]
  ELSE S

\* The write loop: all that fits, or an error when the peer is gone.
flushOutputKeepingOffset(S, fd, broken) ==
  LET c    == S.client[fd]
      left == Unsent(c)
      n    == Min({Len(left), Room - Len(S.wire[fd])})
      sent == [S EXCEPT !.wire[fd] = @ \o SubSeq(left, 1, n),
                        !.client[fd].sent = @ + n]
  IN  IF left # <<>> /\ broken THEN closeClient(S, fd)
      ELSE IF n < Len(left) THEN modFd(sent, {fd}, {"Read", "Write"})
      ELSE IF c.shouldClose THEN closeClient(sent, fd)
      ELSE modFd([sent EXCEPT !.client[fd].out = <<>>], {fd}, {"Read"})

flushOutput(S, fd, broken) ==
  LET c    == S.client[fd]
      left == Unsent(c)
      n    == Min({Len(left), Room - Len(S.wire[fd])})
      sent == [S EXCEPT !.wire[fd] = @ \o SubSeq(left, 1, n),
                        !.client[fd].sent = @ + n]
  IN  IF left # <<>> /\ broken THEN closeClient(S, fd)
      ELSE IF n < Len(left) THEN modFd(sent, {fd}, {"Read", "Write"})
      ELSE IF c.shouldClose THEN closeClient(sent, fd)
      ELSE modFd([sent EXCEPT !.client[fd].out = <<>>, !.client[fd].sent = 0],
                 {fd}, {"Read"})

CloseIfAsked(S, fd, broken) ==
  IF S.client[fd].shouldClose THEN closeClient(flushOutput(S, fd, broken), fd) ELSE S

\* A request that does not parse ("bad") is answered, and closes the connection
\* like QUIT: what the socket does not take at once is dropped.
ProcessOne(S, fd, cmd, broken) ==
  IF ~IsOpen(S, fd) THEN S
  ELSE CloseIfAsked(IF cmd.op = "bad" THEN quit(S, fd) ELSE dispatch(S, fd, cmd), fd, broken)

processInputBuffer(S, fd, cmds, broken) ==
  LET run[i \in 0 .. Len(cmds)] ==
        IF i = 0 THEN S ELSE ProcessOne(run[i - 1], fd, cmds[i], broken)
  IN  run[Len(cmds)]

\* eof says that the end of the stream is read as well: at once when there is no
\* input, and otherwise when the input fills the chunk and is read on.
AfterInput(S, fd, eof, broken) ==
  IF ~IsOpen(S, fd) THEN S
  ELSE IF eof THEN closeClient(S, fd)
  ELSE flushOutput(S, fd, broken)

readFromClient(S, fd, cmds, eof, broken) ==
  AfterInput(processInputBuffer(S, fd, cmds, broken), fd, eof, broken)

ReadIfOpen(S, fd, cmds, eof, broken) ==
  IF IsOpen(S, fd) THEN readFromClient(S, fd, cmds, eof, broken) ELSE S

\* Both events are handled in one call when the poll reports them together (epoll).
onClientEvent(S, fd, writable, cmds, eof, broken) ==
  ReadIfOpen(IF writable THEN flushOutput(S, fd, broken) ELSE S,
             fd, cmds, eof, broken)

-----------------------------------------------------------------------------
Init ==
  server = [client      |-> [fd \in Fds |-> Closed],
            registry    |-> [k \in Kinds |-> <<>>],
            interest    |-> [fd \in Fds |-> {}],
            selfPending |-> <<>>,
            executing   |-> NoOne,
            early       |-> FALSE,
            wire        |-> [fd \in Fds |-> <<>>],
            owed        |-> [fd \in Fds |-> <<>>]]

Bounded ==
  /\ FoldSet(LAMBDA fd, n : n + Len(server.owed[fd]), 0, Fds) <= MaxUnread
  /\ \A fd \in Fds : IsOpen(server, fd) => Len(server.client[fd].out) <= MaxOut

\* A connection takes any free descriptor, one just closed included.
onAcceptable(fd) ==
  /\ ~IsOpen(server, fd)
  /\ server' = [server EXCEPT !.client[fd] = NewClient, !.interest[fd] = {"Read"}]

\* The loop calls onClientEvent for a read (and perhaps a write) or for a write
\* alone.  The peer may have sent commands, closed its
\* end or reset the connection at any time before.  An event may be stale when it is
\* handled (kqueue reports reads and writes apart, and a descriptor closed by the
\* first is free for a new connection): a read may find nothing, and a write event
\* may come unasked.
Read(fd) ==
  \E cmds \in Talk[fd] \cup {<<>>}, writable, eof, broken \in BOOLEAN :
    /\ IsOpen(server, fd)
    /\ ~(eof /\ broken)
    /\ cmds # <<>> => Bounded
    /\ server' = onClientEvent(server, fd, writable, cmds, eof, broken)
    /\ IsOpen(server', fd) => Len(server'.client[fd].queue) <= MaxQueue

Write(fd) ==
  \E broken \in BOOLEAN : /\ IsOpen(server, fd)
                          /\ server' = flushOutput(server, fd, broken)

\* A key that expires in the background is announced with no command running.
serverCron == Bounded /\ server' = notifyKeyspaceEvent(server)

PeerReads(fd) ==
  /\ server.wire[fd] # <<>>
  /\ server' = [server EXCEPT !.wire[fd] = Tail(@), !.owed[fd] = Tail(@)]

Next ==
  \/ \E fd \in Fds : onAcceptable(fd) \/ Read(fd) \/ Write(fd) \/ PeerReads(fd)
  \/ serverCron

Spec == Init /\ [][Next]_server

\* The loop goes on, and its level-triggered poll reports every socket that can be
\* written to and for which writability was asked.
Flush(fd) ==
  /\ "Write" \in server.interest[fd] /\ Len(server.wire[fd]) < Room
  /\ server' = flushOutput(server, fd, FALSE)

FairSpec == Spec /\ \A fd \in Fds : WF_server(Flush(fd))

-----------------------------------------------------------------------------
\* The registry (Server::pubsub_) is the inverse of what the open connections hold
\* (Client::channels_, patterns_ and shard_channels_), and a name without a
\* subscriber has no entry, on which PUBSUB CHANNELS and NUMPAT rely.
RegistryExact ==
  \A k \in Kinds :
    LET holders(n) == {fd \in Fds : IsOpen(server, fd) /\ n \in Held(server, fd, k)}
    IN  server.registry[k] = [n \in {m \in Names : holders(m) # {}} |-> holders(n)]

\* Whatever was produced for a connection, replies and messages, reaches its socket
\* once and in order, through partial writes, flushes that empty the buffer and
\* messages appended while earlier output is still waiting (flushOutput, queueWrite);
\* nothing stays parked in self_pending_ when a command is over.
StreamIntact ==
  /\ server.selfPending = <<>>
  /\ \A fd \in Fds : IsOpen(server, fd) =>
       server.wire[fd] \o Unsent(server.client[fd]) = server.owed[fd]

\* "A message the client caused itself arrives behind the reply, never inside the
\* array EXEC is still building": while a command, or the commands of a transaction,
\* run for a client, nothing but their replies is appended to its output.
OwnMessageBehindReply == ~server.early

\* A RESP2 client with subscriptions, which may no longer send EXEC or DISCARD, is
\* never inside a transaction, whatever the order of MULTI, HELLO, SUBSCRIBE and EXEC:
\* dispatch queues HELLO and SUBSCRIBE, and EXEC ends the transaction first.
NeverRestrictedInMulti ==
  \A fd \in Fds : LET c == server.client[fd] IN
    IsOpen(server, fd) /\ c.inMulti => ~(c.proto = 2 /\ inSubscriberMode(c))

\* Output that waits while the socket has taken nothing does not wait forever: the
\* loop has been asked for writability (modFd in queueWrite and flushOutput).
OutputMoves ==
  \A fd \in Fds :
    LET stuck == /\ IsOpen(server, fd)
                 /\ server.wire[fd] = <<>> /\ Unsent(server.client[fd]) # <<>>
    IN  stuck ~> ~stuck
=============================================================================
