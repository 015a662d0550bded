# A model of the IoT gateway in `code/`

This directory holds TLA+ modules, TLC configurations and TLAPS proofs about the
gateway program of this repository: a process that polls Modbus devices and
publishes what they say over MQTT, configured by an SQLite database that another
program (the web console) edits while it runs.

    tlc -workers 2 -config TwoNodes.cfg MCModbusHandler.tla     # one run
    tlapm ModbusHandler_proofs.tla                            # one proof module

## 1. The system

`main` (main.cpp:386) starts a thread that subscribes to the platform, creates a
`modbus_handler` and calls `modbus_start`, which starts three threads, and sleeps.
Everything else hangs off those threads.

| part | state | operations | used by |
|---|---|---|---|
| **modbus handler** (`modbus_handler.cpp`) | the map `m_nodeid_portaddr`, `m_checknum`, parallel vectors `m_backendvec`, `m_mb_vec`, `m_bConnected`, `m_fTypevec`, `m_datavec`, `m_data_map` | the loops `modbus_handler_init` (scan the node table, build channels), `modbus_handler_connect` (open channels, set function codes), `modbus_data_process` (poll, publish) | `main` |
| **Modbus backends** (`mbu-common.cpp`) | a type and a device name or address each | create a backend, create a context from it | init, connect |
| **SQLite helper** (`sqlite_helper.cpp`) | a connection, ONE result vector | a one-column query, a multi-column query, copy the result | all three threads through one `m_dbhelper`; one in every `mqtt_pub` |
| **MQTT publisher** (`mqtt_pub.cpp`) | none between calls | `mqtt_send`: look up the address, connect, publish, wait, disconnect | connect thread (login), process thread (readings) |
| **messages** (`mqtt_json.cpp`, `modbus2mqtt.cpp`) | the last message, as a string | one builder per message | connect thread (login), process thread (readings); the builders of reports have no live caller |
| **platform front end, client, parser** (`mqtt_plat*.cpp`, `mqtt_client.cpp`) | an MQTT client that is never opened, the last command | build and publish, subscribe, parse what arrives | connect thread (two calls), `main` (the subscription); the rest has no caller |
| **subscription** (`mqtt_sub.cpp`) | `deliveredtoken` | an endless loop | nobody (main.cpp:394 is a comment) |
| **frame decoding** (`main.cpp`) | none | number conversions | nobody (the server is commented out) |

How they interact: the three threads call each other nowhere; they communicate
through the members of the one `modbus_handler`, without a lock, an atomic or a
condition variable. Devices, broker and web console act on their own.

What is hard about it, and what makes each part correct:

* **Threads on shared vectors.** The init thread appends to three vectors, with
  queries in between, while the others index all three with one counter. Correct:
  a channel that a thread works on exists in each vector it is looked up in.
* **Contexts.** The connect thread creates, frees and replaces `modbus_t*`; the
  process thread works with a copy. Correct: nobody uses a freed one, no two
  channels share one.
* **Failure.** Devices refuse, reads and queries fail. Correct: a channel is tried
  again until it is open, and one bad channel does not stop the others; what is
  published was read, and from the device under whose id it goes out.
* **Change.** Correct: an unchanged table is built once, a changed one is noticed.
* **Shared result vector.** Correct: a query's rows are its own.
* **One client id.** Two threads connect to the broker under one id; each connection
  closes the other's. Correct: a message arrives at most once and is lost by a cut
  connection only, a send comes back, and there is one connection at a time.
* **Column by column.** Messages pair values of separate queries. Correct: an item
  of a message is one row, and the messages of one login agree.

`PROJECT.json` lists the hazards, each at its line, with the properties that are
about it, or the reason there is none.

## 2. The modules

| module | what it is |
|---|---|
| `ModbusHandler` | the three threads of `modbus_handler.cpp`, and the end of the process |
| `MCModbusHandler` | small gateways for TLC, and its bounds |
| `ModbusHandler_proofs` | its invariants, proved |
| `ContextOwner` | who may create, free and use a `modbus_t` (abstract) |
| `ContextOwner_proofs` | what its rules are good for |
| `Ownership_proofs` | `ModbusHandler` implements `ContextOwner` |
| `Rebuild_proofs` | how often the channels of `ModbusHandler` are built, proved |
| `Channels_proofs` | which node a channel of `ModbusHandler` stands for, and what is published under its id, proved |
| `QueryService` | what a user of the SQLite helper may rely on (abstract) |
| `DbHelper` | `sqlite_helper.cpp` in the hands of several threads; implements `QueryService` |
| `DbHelper_proofs` | its invariants and the refinement, proved |
| `MqttSend` | `mqtt_send`, called by two threads, with broker and network |
| `MqttSend_proofs` | its invariants, proved |
| `NodeMessages` | the messages about the node table |
| `NodeMessages_proofs` | its invariants, proved |

How they fit together. `ModbusHandler` does not repeat the SQLite helper and the
publisher but relies on what their modules show. A query of a thread is one step
with the right answer; if another thread is in a query too (`Disturbed`), and
`SharedHelper` is TRUE, the answer is anything or nothing, or the process dies.
That is what `QueryService` promises and `DbHelper` implements (theorem
`QueriesServed`). A login and a publish are steps that end: `SendReturns`.
`NodeMessages` refines what the login sends, `MqttSend` how.

### 2.1 ModbusHandler

A variable per member, with the member's name; `ini`, `con` and `prc` are the
locals of the threads, `pc` their place. A label stands for the code between two
accesses to shared members:

| thread | labels, with the lines of modbus_handler.cpp |
|---|---|
| init | `type` 49-51, `scan` 71, `row` 72-99 and the comparison 101, `push` 109-111, `flag` 112-116, `backend` 117-165, `dev` 167-187 |
| connect | `size` 203, `try` 210-227, `connect` 229, `up` 237, `store` 239, `login` 240-244, `spin` (mqtt_client.cpp:153), `size2` 247, `func` 254-293, `buffer` 294-386 |
| process | `poll` 482-494, `ctx` 495-498, `test` 500, `switch` 503-539, `ret` 540-566, `dev` 574-584, `send` 584-587 |

Modelling decisions, each of which a reader should know:

* **One port, one node.** Both bear the node's id; a device is named by it too.
  Edits insert and delete such pairs.
* **Queries.** `Answer` is what a query returns: the right value; nothing, if the
  database may be locked (`BusyDb`; the helper drops the error,
  sqlite_helper.cpp:75); anything, if another thread is in a query and the
  answers may mix (`SharedHelper`). What nothing means is the caller's code: an
  id that is not added to the map, `FuncNone`, parity "none", or element `[0]` of an
  empty vector (`NoRow`).
* **Undefined behaviour.** `Outside` lists the accesses past the end of a vector,
  through `end()` and to element `[0]` of an empty answer, among them the offset of a
  property without `param1` (681; `NoOffset`). `Racing` lists the pairs of threads of
  which one may reallocate, or insert into, what the other touches: the `it++` at 244,
  385, 580 and 587 walks the map that a scan may be inserting into (`Inserting`).
  Either may end the process (`Die`; nothing restarts it), or it goes on with any
  value it can have read: `Next_` of the end iterator or of a tree that is being
  changed, `Found` for the id in the storage of `end()` (256, 574), which may be a
  node's, `FunctionOf`, the `Renamed` backend, the lost store in `StoreContext`.
  `m_bConnected` packs its flags into words, so two writes at once may lose one
  (`SetFlag`). A login and a publish may end the process at any time: they query and
  build as `MqttSend` and `NodeMessages` show.
* **The heap** is a finite pool `Ctx`. A context that is leaked, because it was
  replaced (239), keeps its address for ever in the program; in the model nothing
  refers to it any more, so its name may be given to a new one. With one spare
  name per holder the pool never runs dry.
* **Locals** get their first value back where their scope ends (`StartCon` after
  a round, `prc.ctx` after a channel), so that a stale value is no state of its own.
  `ret` (481) keeps its value from channel to channel, as in the code, and is not
  initialised.
* **The parity** of a port is asked for with the answer to the query before it, the
  comtype ("1" for a serial port): `ParityFound` is the parity of port 1. A comtype is
  "1", "2" or anything else (`ComTypes`); a mixed-up one is any of the three.
* **The register read.** `modbus_read_holdingdata` does not compile as committed
  (641 names a variable that is not declared), so each of its lookups may
  find a row or not; what follows is the code's: -1, 1 or 2, and 2 also when
  the registers could not be read (683, 707). Reading `fresh` is FALSE then.
* **The platform client** is never opened and its `m_client` never set.
  `ClientMemory` says what it holds. Zero: the publish and the subscription
  return at once. Junk: the publish fails or ends the process, and then waits for
  a token nobody set (`LoginSpins`, from which there is no way out); main's
  subscriber may end the process at any moment (`SubscriberDies`).
* **Numbers.** Ids are small, so the sum of the scan does not overflow.

`ContextOwner` is what a reviewer would want to be true of the contexts, without
threads: one opener, one user, a table of channels, six moves and death.
`ModbusHandler` maps onto it by

| ContextOwner | ModbusHandler |
|---|---|
| `live` | the addresses whose `link` is not `Free` |
| `channel` | `m_mb_vec` |
| `opening` | `con.ctx` between `createCtxt` and the store at 239, else NULL |
| `using` | `prc.ctx` |

so that `CreateContext` is its `Open`, `ConnectFails` its `Discard`, `StoreContext` its
`Give` (or a give that is lost), `ReadContext` and `NextPolled` its `Borrow` and
`Return`, `PushContext` its `AddChannel`; everything else stutters.

### 2.2 DbHelper and QueryService

`QueryService`: a thread asks, the database produces rows, the thread gets a reply;
the reply is what was produced unless the query overlapped another one, and only then,
or when the database could not be opened (`broken`), may the process die. `DbHelper`:
the vector is cleared, `sqlite3_exec` is entered (one thread at a time, its own
mutex), the callback pushes rows, the caller copies, with or without a test for
emptiness in between. When `sqlite3_open` fails, the handle is closed (106) but stays
in `m_db`, and the queries use it (145, 160): such a query fails, or goes on in
whatever is in the handle's place, or ends the process (`UsesClosed`). The refinement
maps `busy` to the threads that are not idle, `broken` to that handle and the answer
to the copy.

### 2.3 MqttSend

A call and its message are a pair of a thread and a number. A step for each
library call, with its failures as the code treats them: the returns at 54, 121,
149, 161, the dropped result at 167. A connection is `up`, `cut` (by the
network or by a broker that accepts another one under this id) or `closed`; a
message is on the `wire`, then received (`copies`), its acknowledgement comes back
or not. `cutoff` marks the messages whose connection was cut. What the vendored library
does was read in `code/src/paho/MQTTClient.c`: publish reports success on a dead
socket for QoS 1 (2366), the wait (2762) and the disconnect (1856) have a timeout, the
disconnect reports success for every valid client, connected or not (1837-1877),
nothing is sent again without a reconnection.

So `mqtt_send`, which returns the result of the disconnect (170-173), returns success for
every message it got as far as waiting for, also for one that a takeover or the network
has lost: success says nothing of the delivery. What can be said is `LostOnlyIfCut`.
Any query of a send may fail, overlapping or not: without an edgeid the send returns -1
(54), without an ipaddr or mqport it reads past an empty vector (81, 83; `Die`).

### 2.4 NodeMessages

The three messages of a login (`modbus_handler.cpp:240-242`), in their order. One step
per query, between which a row may be inserted, deleted or updated, and any of which
may fail (a locked database): its error is dropped (sqlite_helper.cpp:75, 92) and its
column stays empty. A value is represented by the id of its row. An item is made of
the i-th values, under its index i; a column that is too short is read past its end
(`Garbage`), which may end the process (`Outside`, by the columns that the builder
looks at for that row). A builder that finds no status, because the table is empty or
the query failed, leaves the previous message in place, and that is sent; no property
speaks of it.

Assumed: `status` is never NULL (`CMD_TOPO_ADD` would pair wrongly, the others throw); a
query fails before its first row; the helper's open succeeds; new rows get the
largest id; and there is a column `deviceid`, which the queries at mqtt_json.cpp:104
and 615 name and the table in `db/iot.db` does not have (with that file as it is, the
second query fails and the first login runs past an empty vector). Names and ids may be
NULL: the queries of these columns are the multi-column ones, which put an empty string
there and shift nothing.

The reports about the nodes (138, 700) are not modelled: their requests in main.cpp are
commented out, or arrive through a connection that nothing makes.

## 3. The runs

| run | instance | states | what it shows |
|---|---|---|---|
| TwoNodes | 2 nodes from power-on, one edit (a deletion), registers read | 1.7 million | the type invariant; until the edit, a reading goes out under its own device; the channels are built once per change; once everything is built (`Settled`) no thread races and only the missing data slots are left |
| Shared | 1 node, queries mixed up or failing, a property without an offset, junk in the platform client, at most 2 channels | 2.2 million | the vectors keep in step, contexts are owned and the rules of `ContextOwner` kept, whatever the database answers |
| Running | two fair gateways: 1 node from power-on, 2 nodes after start-up; junk | 83 thousand | a channel that is not open is opened in the end; a channel that is open is polled |
| Queries | 2 threads, 2 rows, a database that is open, closed or was never opened | 5.4 million | a lone query gets its rows; a row that was tested for is there; the helper implements the service |
| Sends | 2 threads, 2 messages each, fair | 50 thousand | at most once; a message is lost by a cut connection only; no connection outlives its call, save that of a refused publish (161); a send comes back |
| Edits | 3 rows, one of an unknown model, 2 edits, 1 failing query | 8.2 million | while no row is deleted and no query fails: items are rows, the right nodes are added, the two messages to the platform agree, a builder stays in its vectors |

Each finishes within three minutes on two workers.

Bounds. Two nodes are the least that have an order, a neighbour in a word of
flags and an iterator that can lag; the third and fourth slot of a vector come from
a rebuild (TwoNodes). One edit suffices to start a rebuild and to cut a scan in two;
ChecksumCollision uses three. In Shared every scan may append again without end,
so it is cut at two channels (`TwoChannels`): one that is in use and one that is
being pushed. The theorems of section 5 do not have these bounds. Two messages per
thread allow a send to follow a leaked one. Three rows and two edits allow a change
before and after another row's, and in each of two messages; one failing query
(`MaxFailures`) may hit any column of any of the three messages.

In Shared, three things that no step of that run reads are held fixed (`UnreadFixed`): the
parity of a backend, whether a reading is fresh, and the device id it goes under.
They stand for themselves in the runs that are about them.

Symmetry is used for contexts in the safety runs. The liveness run orders the pool
instead (`LowestFirst`): which address malloc returns changes no behaviour. Its
second gateway starts where start-up ends (`Started`), because from power-on the
state space of two nodes is too large for liveness.

`CHECK_DEADLOCK FALSE` is set in all runs: the process may die and nothing
restarts it, and the bounded modules stop when all their calls are made.

Runs that find a disagreement between the code and what the repository says:

| run | the claim | what happens |
|---|---|---|
| ChecksumCollision | modbus_handler.h:68, the checksum tells whether devices changed | node 3 replaced by 1 and 2: same sum, not noticed |
| FailedRead | modbus_handler.cpp:546, "success" | a failed read returns 2 as well; the buffer's old contents are published |
| Parity | mbu-common.cpp:58-62, 'E' is even and 'O' odd | the parity is looked up in port 1: the second serial port, of even parity, is opened with the first one's, none (the letters are swapped too, at 139-145, but not in this trace) |
| Stalled | modbus_handler.cpp:205, backends and nodes that differ in number are an error | one node added to one: three backends for two nodes, and no channel is opened any more |
| MixedAnswers | sqlite_helper.h:26, the result of the query | rows of another thread's query, of a database that is open |
| SaidDelivered | mqtt_pub.cpp:168, "delivered" | printed after a timeout as well |

Each property of a passing run has a fault in PROJECT.json (`mutants`): a definition
marked "Fault:" in the module that replaces another and makes the run fail.

Observed while modelling, and stated by no property because no text of the
repository says otherwise:

* After a node was added, a channel's index is no longer its node's position in the
  map: its readings go out under another device (574). After a deletion too, with
  three TCP ports: the rebuild goes through the map, from which nothing is ever
  removed (1, 2, 3), and appends channels 4 and 5 for nodes 1 and 2 before it
  comes to the row that is gone; channel 5 is polled with an iterator that has run
  off the map (a trace of 42 steps). `PublishedUnderOwnDevice` therefore says so only as
  long as the table is not edited (`edits = 0`), in its run as in its theorem.
* A rebuild appends backends at the end but names those at the front (168): the
  new ones never get a device.
* A locked database (`BusyDb`) makes a scan miss a node and starts a rebuild.
* A numeric slave address always becomes 1 (219-222).
* `comtype` is documented as 0 serial and 1 network (`db/iot表说明.xlsx`); the code
  takes "1" for serial and "2" for network.

## 4. Fairness

* Each thread keeps running (`InitRuns`, `ConnectRuns`, `ProcessRuns`, the `WF` of
  `MqttSend`): the loops have finite sleeps, and every call in them returns:
  queries are local, the library's waits have timeouts (shown by `SendReturns`
  down to those of the library itself), `modbus_connect` and the reads have theirs.
* `DevicesAnswer` is an assumption about the world, and strong: a device that is
  tried infinitely often answers infinitely often; and the flag's write is not
  lost to a neighbour every single time. Without the first nothing can be
  promised; without the second the two threads may collide on every round. A channel
  counts as reopened by its flag, also if the store of its context was lost (239).
* Nothing is assumed of the broker, the network or the web console.

`Die` is part of a thread's fair steps: where a thread cannot go on the process
ends, and the liveness properties allow it (`crashed`). `SubscriberDies` has no
fairness. `ChannelReopened` also allows the connect thread to spin in the platform
client, where it stays; `ChannelPolled` does not need to.

## 5. What is proved

For every value of the constants, by TLAPS.

The threads (`ModbusHandler_proofs`):

* `TypeCorrect`. `TypeOK` is inductive together with `InUse`, one lemma per thread.
* `VectorsAlwaysInStep`: `m_bConnected` is one shorter than `m_mb_vec` exactly between
  111 and 116, and `m_backendvec` never overtakes it. Since the vectors never shrink,
  an index tested against the shortest stays good (`ChannelsInRange`, a part of it).
  This is why the order of the three push_backs matters; no answer of the database
  does, so the theorem holds with failing and mixed-up queries.
* `ContextsAlwaysOwned`: a context under construction is allocated and in nobody
  else's hands, so that freeing it after a refusal (232) hurts no one, and storing it
  makes no second owner. `ContextsLive`, that nobody holds a freed context, is a part
  of it.

Who owns a context:

* `RulesSuffice` (`ContextOwner_proofs`): whoever keeps the rules of `ContextOwner`
  holds allocated contexts only, and no context twice.
* `OwnershipKept` (`Ownership_proofs`): `ModbusHandler` implements `ContextOwner`. One
  lemma per thread maps its steps, with the invariants above as the
  strengthening; deaths map to `Die`, edits to stutters.

The database helper (`DbHelper_proofs`):

* `OwnRowsAlways`: overlapping queries are marked on both sides, and the
  vector is what was produced for the one that is alone.
* `TestedRowIsThere`: what a caller found not empty is not empty when it copies it
  again, unless another query came. Its strengthening says that only threads
  that have come past the test bear its mark.
* `QueriesServed`: with that, every step of `DbHelper` is a step of `QueryService`
  or stutters, for any set of threads and any number of rows.

Sending (`MqttSend_proofs`), for any number of threads and messages:

* `SendsTyped`.
* `AtMostOnceAlways`: a message that was not published is not on the wire, one on
  the wire was not received, and a call publishes once.
* `LostOnlyIfCutAlways`: a message that was published is on the wire or was received,
  and only a cut takes it off the wire; the client that is closed after a time-out
  does not.
* `OneSessionAlways`: a connection that is up is that of a call in progress or of a
  refused publish, and a connect takes down whatever was up under the client id.

How often channels are built (`Rebuild_proofs`), with `SharedHelper` and `BusyDb` FALSE:

* `ChannelsBuiltOncePerChange`: `BuiltOncePerChange`, for any number of nodes and
  edits. Two ideas carry it. First, the checksum is the sum of the ids that were seen,
  so a scan that saw the ids the channels were built from never rebuilds
  (`ForOtherIds`; the converse is false, see ChecksumCollision). That there is one sum
  for each set of ids is `SumsOf`: an induction over finite sets, done as an argument
  about a smallest set without a sum, with the library's well-founded order of
  subsets. Second, `Paid`: the channels there are, those the rebuild under way still
  has to push, and one more rebuild if what the scan has seen so far differs from the
  table (`Behind`, `Ahead`) never exceed what the edits have paid for. An edit pays
  for one rebuild wherever in a scan it falls. `RebuildInv` is the two together. When
  queries fail no such bound holds: each failed query may cost a rebuild.

Which node a channel stands for (`Channels_proofs`), with `SharedHelper` and `BusyDb`
FALSE, for any number of nodes:

* `DefinedOnceSettledDeletions` and `DefinedOnceSettledOneEdit`: `DefinedOnceSettled`,
  if no `param1` is a text that `stoi` rejects and every property has its offset
  (`~NoOffset`), in every behaviour that only deletes rows, and in every behaviour up
  to its second edit. Every node of the map has a place (`Place`: the number of nodes
  before it). The invariant, `OnMap`, says that a scan that is over has every node in
  the map (`MapKnown`), that the process thread's iterator stands on the node whose
  place is the channel it polls (`ProcessOnNode`), and that the connect thread's,
  which the `continue` at 216 leaves behind, lags and so never runs off the map
  (`ConnectOnNode`). Deletions keep it. A node that is added breaks it if the scan
  under way has passed its row, or if there are channels already; then `Outgrown`
  holds, by which the channels are never as many as the nodes they were built for, and
  `Settled` never comes. A second edit may repair the count: a node deleted and
  inserted again, between two scans, leaves `Settled` true while the rebuild is about
  to push, eight steps that TLC finds.
* `PublishedUnderOwnDeviceUnedited`: `PublishedUnderOwnDevice`, which speaks of the
  time until the first edit, if every port is serial or TCP (any other comtype adds a
  channel without a backend and shifts those after it). Here the map is the table and
  there are at most as many channels as nodes (`TableScanned`). The invariant adds the
  way of a device's name, from the backend (`BackendsNamed`: that of its channel, or
  none yet) to the context (`LinksOnNode`: a context without a name is never
  connected, so what is in the table or in use has the right one) to the reading
  (`ReadingOnNode`), and stands on `ContextsOwned`: a context's link is not changed
  under whoever uses it. With an edit it is false of larger tables (section 3).

Messages about the nodes (`NodeMessages_proofs`), for any table and any edits:

* `ItemsAlwaysOfOneRow`, `UnregisteredAlwaysAdded` and `AlwaysDiesOnlyDisturbed`. The
  invariant: as long as nothing is deleted and no query fails, the rows whose status was
  read are the first of the table as it is, and each column read later has their
  values first.
* `AddedAlwaysReported`: what PLAT_ADD_DEV added and is still in the table was in the
  table when the status of PLAT_UPDATE_DEV was read, which leaves no row out.

The assumptions are those named in the modules (`NodeIdAssumption`,
`ConfigAssumption`, `RowsAssumption`, `SendsAssumption`, `TableAssumption`): ids are
positive numbers, finitely many, the null pointer is no address, bounds are numbers.
A theorem that needs more (no mixed-up or failing queries, few edits, known comtypes)
says so in its statement. The runs contain such instances; the code itself does
not exclude mixed-up and failing queries, and with them these properties do not
hold (section 3).

Every safety invariant that a passing run checks is stated by a theorem. Only
model-checked is liveness (`ChannelReopened`, `ChannelPolled`, `SendReturns`), which
is out of the prover's reach.

## 6. Not modelled

* `mqtt_plat_parse`, and the callbacks of `mqtt_client`: they wait for a
  connection that nothing makes. `mqtt_platconnect` has no caller, and
  `mqtt_client_open` would dereference a NULL pointer (mqtt_client.cpp:126). What is
  called of the client without a connection is in `ModbusHandler`.
* `mqtt_sub`: `mqtt_init` is commented out (main.cpp:394), and the first message would end
  the process, because `get_deviceresp` returns NULL (mqtt_json.cpp:592).
* The LoRa frame server, its number conversions and the reports built from its
  frames: commented out, or without a caller. The reports about the nodes
  (`CMD_TOPO_UPDATE`, `PLAT_QUERY`): without a live caller. The reports of cameras and of
  the system: no shared state.
* The option parsing in `mbu-common.cpp`, logging, the memory leaks at 239 and
  340-365 (unconditional), the copy of a device name while its backend is being
  opened (177; a torn name is one more refusal).
* Vendored code (paho, cJSON, SQLite, OpenSSL, libmodbus) but for what its callers
  see. It is most of what lies under `code/`; the gateway's own part is about 3700
  lines in 13 files, half of them without a caller.

## 7. Plan

1. Done: the threads, the helper, the publisher, the node messages, the two
   abstract specifications, and the theorems above.
2. Left: a composition of `NodeMessages`, `MqttSend` and `DbHelper`, in which a login is
   its real sequence of queries and sends.
3. Once the platform client is opened somewhere: `deliveredtoken` with its callback
   thread and busy wait, and the parser against the node table.
