# mnemos in TLA+

mnemos is a Redis-compatible server in C++23, with an MCP server and a Kafka
broker built on top of it. This directory specifies it in TLA+, checks the
specifications with TLC and proves the central properties with TLAPS.
Paths below are relative to the repository; `PROJECT.json` maps each definition
to its lines.

## The system

| Part | Source | Module |
|---|---|---|
| Databases: values, deadlines, lazy and active expiry | `src/server/db.*` | `Keyspace`, `Transactions` |
| String and key commands, FLUSH*, RESTORE | `string_commands.cpp`, `keyspace_commands.cpp`, ... | `StringCommands`, `KeyCommands` |
| List, set and hash commands | `list_`, `set_`, `hash_commands.cpp`, `type_helpers.cpp` | `CollectionCommands` |
| Sorted set commands | `zset_commands.cpp` | `ZSetCommands` |
| MULTI, EXEC, DISCARD, WATCH, UNWATCH, dispatcher, cron | `transaction_commands.cpp`, `server.cpp` | `Transactions` |
| Connections, output, publish/subscribe, keyspace events | `server.cpp`, `pubsub.*`, `notify.*`, `event_loop.cpp` | `PubSub` |
| The hash table and SCAN | `src/core/dict.h`, `keyspace_commands.cpp` | `Dict`, which implements `KeySet` |
| Values and their encodings | `src/core/` | `Values` over `SkipList`, `Listpack`, `Codec`; `Collections`, which implements `Collection` |
| RDB strings and lengths, what a value is saved as | `src/persist/rdb.cpp` | `Codec`, `Values` |
| RESP requests | `src/net/resp.cpp` | `Resp` |
| SAVE, BGSAVE, RELOAD, loading, crashes | `persistence.cpp`, `rdb.cpp` (the writer) | `Persistence` |
| Kafka broker, its log, the RESP client | `src/kafka/`, `src/client/` | `Kafka` |

The server has one thread. An event loop calls back into the `Server`, which
parses requests, dispatches them to command handlers and writes replies; a timer
runs the cron. Handlers change the databases through `Database` and announce
every change through `notifyKeyspaceEvent`, which is also where WATCH is
signalled and keyspace events are published. A background save forks a second
process. The Kafka broker is a program of its own with its own event loop; it
keeps its topics in the server's lists and hashes and reaches them with a blocking
RESP client.

Each module isolates one thing that is hard here: a key has many ways to change and
each has to tell the watchers (`Transactions`, `Commands`); messages and replies
share a buffer (`PubSub`); a table is searched and scanned while it moves (`Dict`);
a value changes its representation (`Collections`); two processes write one file
(`Persistence`); a call may fail without saying whether it took effect (`Kafka`).

## The modules

**Keyspace.** `store` maps a slot, a database and a key name, to what `dict_`
(`val`) and `expires_` (`at`) hold for it; `now` is the event loop's cached
clock. `Found` is `lookupRead`: what is left once a dead key has been deleted. A
handler is an *effect*: the slots it looks up (`looked`, whose dead keys are
deleted and announced as expired), the contents it then stores (`writes`) and the
slots it announces. `Wrap` is the int64 sum where the code does not guard it.

**StringCommands, KeyCommands, CollectionCommands, ZSetCommands.** One operator per
handler, from an argument record to its effect; `CommandTable` joins them. Lists are
sequences, sets are sets, hashes and sorted sets are functions, all of small
integers, whose order is the bytes' order; scores are integers between two
infinities, and a sum of opposite infinities is the NaN the code refuses. Where a
handler depends on a string's contents (may it grow, was it a number) the argument
record says what happened, so every outcome is covered. SPOP is the SREM of what it
draws. Handlers that only read are one effect: their lookup.

**Commands** runs any request against the store, one step each, while time passes.

**Transactions** has the clients and the thread. A command is one step. EXEC and the
cron run several commands and sampling rounds; these are steps of their own, with
`loop` saying what the thread is in the middle of, so that properties see the states
between them.

| Variable | Code |
|---|---|
| `open`, `dbIndex` | `Server::clients_`, `Client::dbIndex` |
| `inMulti`, `multiError`, `queue`, `dirtyCas` | `in_multi_`, `multi_error_`, `multi_queue_`, `dirty_cas_` |
| `watched`, `sawExpired` | `Client::watched_keys_` and its entries' `expired` flag |
| `watchers` | `Server::watched_keys_` |
| `loop` | where the thread is: the poll, EXEC's loop, `serverCron` |
| `corpse`, `changed`, `sent` | history: watched keys that were dead at WATCH, watched keys that changed since, commands sent since MULTI (also the bound on the queue) |

A client is its descriptor, and is reused after a close, as the kernel does.
Commands that only answer an error and change nothing are left out.

**PubSub.** The `Server` object and the sockets are one record and a handler is an
operator from that record to the next: a callback runs to its end, and it may
close the connection of the client it runs for. `wire` is what a socket has taken
and its peer not yet read, `owed` and `early` are history. A frame is what it is to
its reader.

**Dict.** Both tables with their buckets, `used_` and `rehash_index_`; `at` is -1
outside a rehash. find, insert and erase are one step with the migration they do;
the cron's hundred buckets and a SCAN's lookups are several, with `busy`. The cursor
is the code's reverse-binary increment over `Width` bits. `KeySet` is what callers
rely on: a set, and answers by it.

**Values, Collections.** Values are records with an encoding and its representation:
listpack elements with the header's saturating count, an intset with its width, a
skiplist with spans and backward links beside its dictionary, a list's nodes, a
string's bytes. `Collections` applies any operation to any value and also copies it
and reloads it (`saveObjectBody`, `loadObjectBody`). `Loadable` has what the loader
refuses: an empty object or node, half a pair, a listpack whose header miscounts, an
intset that does not ascend. Random heights and the order in which a hash table yields
its entries are choices. `Codec` is byte for byte and in every width: listpack entries
and backlens, RDB lengths, integer and LZF strings, and what a reader does with bytes
that end too early. Its 64-bit numbers are words of eight bytes, since TLC's own
integers have 32 bits. `Resp` is the parser that resumes where the input stopped.
`Collection` is the abstract value.

**Persistence.** Processes with a memory and a file writer each. A save is opened,
written key by key and finished (fsync and rename) in separate steps, any of which
may fail or be the process's last. `past` records the keyspace after each write, so
that properties can ask which moment a file shows.

**Kafka.** The broker's connections, and `job`, the request being served. Each call
on the server is a step: answered, or failed without effect, or given up while the
command is on its way (`late`) and may be executed at any time later, or never.
Another broker with another default partition count uses the same keyspace. A
request is one of `RequestForms`, what the parser can hand on, and carries its place
in the stream as `id`. `Kept` is where the loop that trims a fetch to its byte budget
ends, said by the loop's own test (`Exceeds`).

## The runs

| Run | Shows |
|---|---|
| `transactions` | every string and key command, with expiry and the cron, two clients of which one watches: types, no deadline without its key (`NoOrphanDeadline`), no change of a watched key unnoticed (`WatchCatchesChange`), the pardon for an expiry held only for a dead key (`PardonOnlyForCorpse`), EXEC a check-and-set (`ExecIsCheckAndSet`) |
| `clients` | two clients that both use transactions, over two databases, closing and reconnecting: the index exact (`WatchIndexExact`), no verdict without watches (`DirtyOnlyWhileWatching`), no queue with a command missing (`QueueIsWhole`), nothing left of an ended transaction (`TransactionEndsClean`) |
| `commands` | every collection command beside string and key commands: no empty collection (`NoEmptyCollection`), no silent change (`ChangeIsAnnounced`), LMOVE and SMOVE conserve (`LmoveConserves`, `SmoveConserves`), a lexicographic range is the filter by its bounds (`LexRunIsFilter`) |
| `dict` | the table implements a set (`ImplementsKeySet`), a full SCAN returns every key that stayed (`ScanMissesNothing`) and ends (`ScanEnds`), a rehash is finished (`RehashCompletes`) |
| `encodings` | every encoding implements the abstract value (`ImplementsCollection`) and answers queries by it (`QueriesAgree`), spans and links are right (`SkipListSound`), compact encodings stay within their limits (`CompactIsSmall`), whatever is saved loads (`EveryValueLoads`), bytes decode from a listpack and from a file and are refused when cut short (`BytesDecode`), requests survive a cut of the stream (`RequestsSurviveCuts`) |
| `pubsub` | the registry is the inverse of the clients' sets (`RegistryExact`), a client's own messages follow its reply (`OwnMessageBehindReply`), nothing is lost, doubled or reordered (`StreamIntact`), output moves when it can (`OutputMoves`), nobody is locked out of ending a transaction (`NeverRestrictedInMulti`) |
| `persistence` | the file is whole and one moment's keyspace (`SnapshotIsPointInTime`), the dirty count is exact between saves that do not overlap (`DirtyCountsUnsaved`), RELOAD changes nothing when no other process saves (`ReloadAloneIsIdentity`), a background save ends (`BackgroundSaveEnds`) |
| `kafka` | an acknowledged record is at its offset (`AckedAtOffset`), a fetch returns the next run of the log and something when there is something (`FetchIsTheNextRun`), the search by time is exact on sorted times (`BisectionIsExact`), answers keep the order of requests (`AnswersInOrder`), a topic's partitions are settled (`TopicIsSettled`), every request is served (`RequestsAreServed`) |
| `watch_expiry`, `watch_corpse`, `ttl_overflow`, `dirty_counter` | violated, see below |

The violations are disagreements between the code and what the repository says of
it:

- *watch_expiry.* EXEC tests a flag that an expiry sets only when the key is
  actually deleted. A watched key past its deadline that neither a lookup nor the
  cron has met does not stop the transaction, although it reads as gone. The
  differential suite's case "a key that expires under the watch" sleeps long
  enough for the cron to run first.
- *watch_corpse.* `activeExpireCycle` draws with replacement and announces the
  deletion once per draw. A client that watched an already dead key is pardoned
  for the first announcement and dirtied by the second, though the deletion "is
  not news to a client that never saw it alive".
- *ttl_overflow.* `setexGeneric` and `parseExpireToken` add the TTL to the clock
  without the guard that `expireGeneric` has, so that the longest TTLs are stored
  as deadlines in the past.
- *dirty_counter.* DEBUG RELOAD does not look for a running child. It saves a newer
  snapshot and sets `dirty_` to 0; the child then renames its older one over it, and
  `reapBackgroundSave` leaves the count at 0 although the file lacks a write.

Met while modelling, without a run of their own:

- DEBUG RELOAD while a child is about to rename loads the child's older snapshot,
  and SHUTDOWN SAVE during a background save lets the orphan replace the file after
  the server is gone. `ReloadAloneIsIdentity` and `DirtyCountsUnsaved` except
  overlapping saves for this reason.
- A reload may change an encoding (`rdb.h` and `server_commands.cpp:388` say it does
  not): a hash table that has shrunk comes back compact, and a listpack hash with a
  long value, which `HashValue::set` stores in place without converting, comes back
  as a table. `CompactIsSmall` therefore bounds a hash's fields and not its values.
- SMOVE of the only member of a set onto the same set drops the key's TTL.
- A Kafka produce that was answered with a storage error may be in the log all the
  same; a producer that retries duplicates it. `AckedAtOffset` is about produces that
  were acknowledged.
- After `createTopic` the broker goes on with its own default although another
  broker's HSETNX may have won, so that the first answer may name a count that is
  not the topic's. The stored count is settled all the same.

### Bounds

*transactions, clients.* `MaxQueue` 1, `MaxTime` 2, two keys and one datum, or one
key in two databases; two sampling draws and two rounds. Two ticks are enough for a
key to be set with a TTL of one, to be watched alive or dead, and to die before
EXEC; two keys are what RENAME, COPY, MSETNX and a double draw need; one queued
command is enough to see a queue run, be refused or be poisoned, as the length of
the queue enters nowhere else. `MaxMs` is 2 in `transactions`, so that sums with the
clock do overflow. `Transactors` and `Queueable` bound which clients use
transactions and what they queue. The `clients` run has no time: expiry is the other
run's subject. Names and clients are symmetric where no command distinguishes them.
The theorems have none of these bounds.

*commands.* Two keys, two elements, collections of up to two, one tick: enough for a
collection to be created, emptied, moved onto itself and expire, with every branch
of every handler among the requests.

*dict.* Four keys, of which some collide at every size, tables of one to four
buckets, a cursor of three bits, one more than the largest table masks. `ShrinkFactor` is 3 where the code has 10,
`EmptyVisits` 1 for 10 and `CronBuckets` 2 for 100, so that a table of this size
shrinks and a migration is interrupted on the way.

*encodings.* Two entries to a listpack and three to an intset, a list node of 24
bytes, a header that saturates at three, two skiplist levels. Strings are set as they
are and grow by appending up to `MaxBytes`. Among them are the integers on both sides
of 2^7, 2^12, 2^15, 2^23, 2^31, 2^32, 2^63 and their negatives, and 2^64 - 1; strings on
both sides of the lengths 20, 44, 64, 4096 and 16384, and of the lengths whose listpack
entries take a second and a third byte of backlen; literal runs of 32, references of 9
and of 264 bytes, distances beyond 256 and around 8192; text that holds CR and LF. A backlen of
four or five bytes and an RDB length of 32 or 64 bits belong to strings too long to
write out, so `BackLengths` and `FileLengths` check those encodings on the lengths
alone, at both ends of each width; a backlen stays below 2^31. Bytes and streams are cut
everywhere within `Window` bytes of an argument's ends, which is everywhere in a string
of up to 40 bytes: a cut further inside a longer string splits its payload only.

*pubsub.* Two descriptors that are reused, sockets that take one frame, so that a
reply of two frames is always written in parts. `MaxUnread` and `MaxOut` hold back
commands while peers have not read.

*persistence.* Two keys of which one may expire, two processes (a server and its
child, or an orphan and the next server), two writes, one tick.

*kafka.* One connection that sends one request and one that sends two, the first of
which may wait; one command on its way, one record of the other broker.

### Fairness

- `Dict`: the cron comes again and again between commands (strong fairness, since it
  is not enabled while the thread is busy) and the thread finishes what it began.
  `ScanEnds` also needs the client to go on; without that the iteration just stops.
  Writers are not restricted: both properties hold while the table changes size.
- `PubSub`: the poll is level-triggered and the loop goes on, so a socket that stays
  writable and is polled for writing is written to.
- `Persistence`: processes that can run do, and the cron, which reaps, comes again
  and again. Clients need not stop sending commands; a server need not stay up.
- `Kafka`: a call ends at the latest by its timeout, time passes, and each turn of the
  loop serves each ready connection and each due timer.

The clock only moves forward; the code reads system time, which may be set back.

## The proofs

All theorems hold for any constants that satisfy the modules' assumptions.

`Effects` says what a handler may do, and `CollectionProofs` that every handler of every
type does it: for any arguments its effect is *sound*, it stores well-typed
contents, no deadline without a value and no empty collection, and what it changes it
writes and announces, or deletes as dead and announces as expired. There is one lemma
per handler; most rest on `deleteIfEmptySound`, `UpdatedSound` and `StoreResultSound`,
one for each way in which handlers write.

`CommandsProofs` proves all five properties of the `commands` run. The inductive
invariant is that the store is sound, which gives `NoCollectionIsEmpty` and
`ChangesAreAnnounced`. `SmoveLosesNothing` and `LmoveLosesNothing` follow for every
sound store by cases on whether source and destination are one key: a lookup leaves
what is live (`ReadsLeave`), and what is stored is live afterwards, whatever the
deadline was (`OverwrittenIsLive`, `UpdatedIsLive`). For lists the copies of an
element are counted by the set of their positions, which a push or pop at the front
shifts by one (`CountFront`, `CountBack`). `LexRunsAreFilters` compares the two
membership tests bound by bound.

`TransactionsInvariant` and `TransactionsProofs` prove all nine properties of the
`transactions` and `clients` runs, over all the commands, collections included. The
inductive invariant `IInv` is their conjunction with two strengthenings:

- `WatchesNest`: a pardon is held only for keys watched dead, those are watched, the
  changed keys are watched, and only open connections watch. Without it a closed
  client could hold a watch that the index does not name, and a pardon could
  excuse a change.
- outside MULTI nothing has been sent. `QueueIsWhole` needs it when MULTI begins.

The argument for watches is one lemma, `SignalsKeepWatches`: a step *accounts* for
its changes when each changed slot was written and announced, or was dead, is gone
and was announced as expired. Any step that accounts for its changes, signals them
through `signalModifiedKey` and leaves the lists alone preserves the watch
invariants. Commands, lookups, flushes and cron rounds are all instances of it.
`ExecIsCheckAndSet` follows: EXEC starts only when `dirtyCas` is clear, so nothing
changed, and only when the queue is not poisoned, so it is whole.

`DictProofs` proves both safety properties of the `dict` run, for any keys, hash
function, factors and COUNTs, for tables of 2^w buckets and cursors of `Width` bits.

- `DictImplementsKeySet`. The invariant `DictOK` says that each table files keys only
  under their hash and counts them right, and that during a rehash the two tables share
  no key and the buckets below the mark are empty. The last part is why the loop that
  looks for the next full bucket finds one while `used_[0]` is not zero, and why
  nothing is left behind when the tables are swapped. `MoveBucketOK` is the heart: a
  bucket's keys leave one table and join the other, so the set does not change.
- `ScanIsComplete`. Write a number's `Width` bits backwards and call that its position
  (`Pos`). In a table of 2^w buckets each bucket is then an interval of positions, one
  of 2^w equal blocks, and the reverse-binary increment goes to where the next block
  begins (`NextCursorIs`, `BlocksOf`). A larger table cuts the same line into smaller
  blocks (`NestedBlocks`), so that a cursor taken from one table is a boundary in every
  other that is finer, and in a coarser one lies inside a block, of which the scan then
  repeats a part. The invariant `ScanInv` is that every key that stayed and whose
  position is before the cursor (`End`) has been returned or waits for its lookup. A
  call keeps it because the walk over the larger table, which during a rehash visits the
  buckets that refine one bucket of the smaller, covers exactly that bucket's interval
  (`WalkCovers`, `BothReach`), and because lookups, which migrate buckets, do not change
  what is in the table (`ScanLookupOK`). It ends with the cursor back at 0, that is with
  the whole line behind it. The lemmas on reversed bits are inductions over the number
  of bits, set up in the module itself (see below).

`PersistenceProofs` proves the three safety properties of the `persistence` run, for
any number of processes, keys, writes and ticks.

- `SnapshotsArePointsInTime` rests on `SafeInv`: each process's memory, and the file,
  is what one of the writes left, but for keys that have died since; and what a
  writer is no longer to write is in its temporary file, unless a write failed, after
  which the writer writes nothing more and never renames. Time may pass between
  the entries, which is why all of this is said up to dead keys (`Agree`).
- `DirtyCounterIsExact` needs `Alone`: while no two snapshots overlap, only the server
  and its child write, not both save, and the count is exact either as it stands or,
  between the child's rename and its reaping, less `dirty_at_fork_`. `ChildOK` ties
  the child to its exit status, so that the subtraction is made once.
- `ReloadIsIdentity` takes from the same invariant that between the two halves of a
  reload the file is of the server's version.

`KafkaProofs` proves the five safety properties of the `kafka` run, for any number of
connections, requests, partitions and records. `IInv` has three parts:

- `SafeInv`: every response tells the truth of the logs (`ReplyOK`), and every request
  being served has learnt the truth so far (`JobOK`). Both are monotonic: logs only
  grow at their end, so what was true stays true when another connection, another
  broker or a command given up long ago appends (`ReplyStays`). For the search by time
  `Bisected` says that what is before `lo` is earlier and what is past `hi` is not.
- `OrderInv`: what waits on a connection is in order and younger than what is parked
  or being served, which is younger than the last answer. A parked fetch that is tried
  again is the one at the front.
- `TopicInv`: a command that sets the partition count is only on its way once the topic
  is listed. `TopicsAreNotRepartitioned` then follows from HSETNX being what it is.

`PubSubProofs` proves the four safety properties of the `pubsub` run, for any
descriptors, channels, patterns, pipelines and socket capacities, and one more.
`IInv` is `Good`: the server and its clients have their types, the registry mirrors
the sets of the open connections (`Mirror`), each connection is `Sane` (what it
is owed is what is on the wire followed by what is unsent, and a RESP2 subscriber is in
no transaction) and, for each connection whose callback is not running, the loop has
been asked to write what is unsent (`Asks`). Between two events nobody is executing and no message is kept back.

- The handlers are operators from state to state, so there is a lemma for each,
  with an invariant of the moment in place of `IInv`: `Runs` while a command runs, when
  all that was appended for its client since the command began is its reply, `Between`
  from one queued or pipelined command to the next, `Serving` in the callback.
- EXEC's queue, the pipeline and the subscribers of a message are folds. What they
  preserve is an induction over the length of what is folded (`IsRun`).
- `OutputIsAskedFor` is the safety half of `OutputMoves`: between two events the loop
  is polling every connection with unsent output for writability. What remains for TLC
  is that the loop then comes round.

The assumptions name what a run must give the constants (`KafkaAssumption`: requests
are of the parser's forms and the limits are positive; `PersistenceAssumption`;
`DictAssumption`; `KeyspaceAssumption`), and TLC evaluates them.

*Induction.* The library's induction theorems take the formula to be proved as an
operator, which the provers here cannot instantiate. `DictProofs` and `PubSubProofs`
take a set instead: a set of naturals that holds 0 and every successor is all of them
(`Induction`), and a function defined by recursion exists and stays in any set that its
steps do not leave (`RunExists`). The formula goes into the set, and the set is
an ordinary bound variable.

Only model-checked:

- liveness (`ScanEnds`, `RehashCompletes`, `BackgroundSaveEnds`, `OutputMoves`,
  `RequestsAreServed`), which is out of the prover's reach;
- the properties of the `encodings` run: `Codec`, `Resp`, `SkipList` and `Values` are
  written with recursive operators over bytes, levels and elements, and the prover
  loses its arithmetic in any module that reaches one;
- that the trim of a fetch ends (that `Kept` is not empty): the proof shows that
  wherever the loop ends the answer is right, the run that it ends, as otherwise the
  broker would be stuck there.

## Not modelled

- The MCP server: it translates one request into one command, in sequence. Its only
  state is the connection; the one retry after a lost reply may run a command twice,
  which is listed as a hazard.
- The Kafka wire format and record batches, JSON, glob patterns, float formatting:
  conversions without state. The RESP reply writer and reply parser, inline commands.
- RDB's checksum, doubles and foreign opcodes.
- AUTH, the client limit, CLIENT, CONFIG, INFO, COMMAND, OBJECT, PUBSUB's
  introspection: they report, or set options that no property reads.
- Several topics or partitions in one Kafka request, and frames cut by the network
  there; `RequestsSurviveCuts` has cuts for RESP.
- Eventual reclamation of dead keys: the cron samples at random, so it holds with
  probability one and not under any fairness.
- A clock that is set back.
- Start-up and the arguments of `main.cpp`; the replica mode of `Database`, which has
  no caller.
