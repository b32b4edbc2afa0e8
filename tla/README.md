# mcp-server in TLA+

TLA+ specifications of `mcp-server`, the gateway of this repository that runs
stdio MCP servers as child processes and offers each of them to many HTTP
clients. TLC checks them on small instances; TLAPS proves the theorems for
every value of the constants. Paths below are relative to the crate:
`proxy.rs` is `src/src/proxy.rs`.

## The system

| Component | State | Operations | Source |
| --- | --- | --- | --- |
| Id multiplexer `IdMux` | `next`, `pending` (outbound id -> session, id) | `rewrite_inbound`, `classify_outbound` | `jsonrpc.rs` |
| Stdio proxy `ChildProxy` | mux, `pending_requests` (outbound id -> oneshot sender), `active_sessions`, session registry, channel to the child | `spawn`, `send_request_from_session`, `send_from_session`, `register_session`, `drop_session`, ... | `proxy.rs` |
| Child and pipe tasks | process, two channels of 64 | writer, reader, stderr logger, kill on drop | `child.rs` |
| Session registry | session -> sender of its stream's channel | `register`, `remove`, `get`, `all` | `session.rs` |
| HTTP proxy | as the stdio proxy, with no child | a POST task per payload | `proxy.rs:37-95` |
| `AppState` | `config`, `proxies`, each behind a mutex; the configuration file | `get_or_spawn`, `add_server`, `disable_server`, `save_to_disk`, `reload_from_disk`, `ids`, `live_ids` | `state.rs`, `config.rs` |
| JSON-RPC endpoints | one task per request, one stream per GET | `/{id}/sse`, `/{id}/messages`, `/{id}/mcp` | `routes.rs:58-231` |
| Administration API, UI | none of its own | add, delete, reload, view | `routes.rs:233-757` |
| Console | its task | `/mcp add`, `/mcp disable`, reload, list, status, exit | `main.rs:57-291` |
| Start-up, shutdown | - | load, bind, serve, graceful shutdown | `main.rs:23-55`, `shutdown.rs` |

A client's handler finds the proxy with `get_or_spawn` and keeps an `Arc` of it.
Its message goes through the mux and three tasks (forward, writer, the child
itself); the answer comes back through two more (reader, drain), which hand it
to a oneshot sender or to the channel of a stream. Administrators change
`config` and `proxies` and write the file from other tasks. Everything is shared
through mutexes that are held for a statement or two, bounded channels and
`Arc`s.

What is hard in it:

* a request crosses two tables (`pending`, `pending_requests`) and six tasks, and
  its caller may be dropped at any await;
* the child may exit, answer twice or what it was not asked yet, or number its own
  requests like the mux does;
* one drain task serves all sessions and waits for room in the channel of each,
  with every other answer behind it;
* `get_or_spawn`, `disable_server` and `reload_from_disk` each give a mutex back
  between steps that belong together, and read the file or start a process
  meanwhile;
* a save is a truncation and a write, and may fail or be cut short;
* sessions live in two tables that several handlers and every stream's cleanup
  change, by session id and not by stream, a stream that its client has closed
  lives on until the server notices, and every handler uses the proxy of the
  moment, which may not be the one its session was made at;
* an HTTP proxy posts every payload in a task of its own, whose answers come back
  in any order, or not at all;
* an entry is text three times over: as typed, as listed or shown in a form, and
  as it is started.

`PROJECT.json` lists the hazards at their lines, with the properties that cover
each.

## The modules

| Module | What it is |
| --- | --- |
| `Table` | hash maps: `Insert`, `Remove`, `EmptyTable` |
| `IdMux` | the multiplexer: `Mint` (the counter), `Remember` (the table), `Class` and `Classify` (`classify_outbound`) |
| `CallService` | abstract: what a proxy promises its sessions |
| `Callers` | the handler tasks of a proxy, whatever stands behind its channel; extends `IdMux` |
| `StdioProxy` | one `ChildProxy` with its tasks, its child and its sessions; extends `Callers`, implements `CallService` |
| `HttpProxy` | one `ChildProxy` in front of an HTTP server; extends `Callers`, implements `CallService` |
| `StdioProxyProofs`, `HttpProxyProofs` | theorems about them |
| `QueueFacts` | lemmas about channels, used by both |
| `ProxyMap` | abstract: what the map of proxies promises those who need one |
| `ProxyMapProofs` | what that amounts to |
| `AppState` | `AppState`, the file, the administrators and the users of proxies; implements `ProxyMap` |
| `AppStateProofs` | theorems about it |
| `Sessions` | how sessions of one server come and go, under proxies that are replaced and until a shutdown; implements `ProxyMap` |
| `SessionsProofs` | theorems about it |
| `Entries` | how text becomes an entry of the configuration, and an entry text |
| `TextFacts` | lemmas about its texts |
| `EntriesProofs` | theorems about it |
| `MCStdioProxy`, `MCHttpProxy`, `MCAppState`, `MCEntries` | instances for TLC |

In every module a step is what one task does between two points where another
can intervene: a mutex taken, a channel operation, an await. Some steps take two
mutexes in a row where what lies between could not be told apart by any
property; the comment of the action says what it stands for.

**Callers.** A `Call` is a payload a client posts: its session, whether it has
a method, its id, and which of the two send functions takes it. `pc` follows its
handler through `rewrite_inbound` (`StartCall`, `MapCall`), the insertion of its
oneshot sender (`ExpectCall`), the send (`SendCall`) and `rx.await`
(`ReceiveCall`); `AbandonCall` drops it at an await. Both proxies have these as
`Start`, `Map`, `Expect`, `Send`, `Receive` and `Abandon`.

**StdioProxy.** `Forward` and `WriteStdin` are the two tasks on the way in. The
child writes what it likes: an answer to what it was sent (`ChildAnswer`), the
same again, an answer to an id it was not sent (`Forged`; minted ids are
consecutive, so it may hit one that is minted and still on its way), a request or
notification of its own, or noise (`ChildWrite`), and exits when it likes. The
drain task is `DrainRecv` (parse, and take a sender out of `pending_requests`),
`DrainSettle` (a sender was found), `DrainClassify` and `DrainSend` (one target at
a time, with room to wait for; it is `Stalled` where a client does not read).
`got` counts the replies a session was given, by the session of the caller whose
sender was used, or of the mapping where the reply goes to a stream. Lines are
reduced to their outbound id, and messages to what routing looks at. The pipe from
the child and the channel behind it are one queue.

**HttpProxy.** `Dispatch` takes a payload from the channel and starts its POST task,
which is not awaited: POSTs overtake each other and their callers. A POST fails
(`PostFails`: no connection, an error status, no JSON) or is answered
(`PostAnswered`, which takes a sender out of `pending_requests` by the id that was
posted), and if there was a sender the mux is asked by the id of the answer
(`Settle`). The server answers a request under its id, or with a message of its
own. What is passed through keeps its own id on the wire (`WireId`), which may be
one the mux minted.

**AppState.** Users follow `get_or_spawn` (`Lookup`, `ReadEntry`, `Spawn`,
`InsertProxy`) and keep their proxy until `Release`. Administrators add (`Add`,
then a save), disable (`Disable`, `DropProxy`, then a save), reload (`Reload`
reads the file, `Acquire` twice, `Apply`) and view. A save is `SaveOpen` (lock,
text, truncation) and `SaveWrite`, or `SaveFails`. The console is one of the
administrators, with `status` and `list` besides. An entry is what its child is
started with (`launch`: command, arguments, environment and directory, which a
reload compares together) and `http`, its `is_http`, which a reload does not
compare and a file may set as it likes. `Edit` changes the file from outside;
`Restart` ends the process anywhere and starts it from the file. `astray`
remembers that an edit, a failed write, or a reload overtaken by a write has set
file and memory apart, until a write, a reload or a restart mends it. The
console's prompt does not wait: `Ask` needs it idle.

**Sessions.** The map's proxy for one server is `current`. A handler that finds none
spawns one (`SpawnProxy`, `InsertProxy`; several may at once), and a disable or a
reload takes it out (`TakeOut`) while handlers and streams keep what they hold. A
session of `/mcp` is made by an initialize request, opens streams with GET and
ends with DELETE; a session of `/sse` is made with its one stream. Streams are
opened in three steps (the check, `active_sessions`, the registry), whenever the
client likes, end when their channel has no sender left, and then clean up. A
client closes its stream in one step (`Close`) and the server drops it, where it
stands and without cleaning up, in another (`Disconnect`), when it notices; in
between the stream is as open as before, and the client may open the next.
`overlapped` remembers the sessions that had two streams at the server at once.
Ordinary requests hold the proxy until they are answered, turned away or given up
(`Post`, `PostEnds`). Each proxy has tables of its own: `home[s]` is where
session `s` was made, `at[k]` the proxy that stream `k` was opened at. The drain
task is present only as the holder of cloned senders. `Signal` begins a graceful
shutdown, which ends (`Exit`) when no request or stream is under way. A request
taken before the signal may reach its handler after it; that one taken before `Exit`
might do so without being waited for makes the model only larger. Ids are UUIDs,
so never met twice.

`StdioProxy` and `Sessions` share the session tables: the first has what goes
through the channels, with streams opened once; the second has every way to open
and end streams, without messages. `Sessions` and `AppState` share the map of
proxies: the second has its two mutexes, the configuration and the file.

**ProxyMap.** What both say of that map, in one abstract specification: a proxy is
made once (`Make`), put into the map once by whoever made it, over the server's
proxy before it (`Put`), taken out by anybody at any time (`LetGo`), and had only
by those who found it in the map or put it there (`Take`, `Put`). In `AppState` the
holders are the users of `get_or_spawn`; in `Sessions`, which has one server, they
are the initialize requests, the streams, the DELETEs and the ordinary requests
that keep an `Arc` of it.

**Entries.** A text is a sequence of symbols, each a character that some rule
names or one that stands for all that are treated alike (`Http` is a whole
prefix). White space is three symbols: the blank, which alone ends a name or a
command of the console; `Newline`, which the fields of the page drop; and `Tab`
for the rest. `Control` is what is printed escaped and is no white space, `Code`
the letters that such a symbol is printed as behind a backslash. The console's
line is cut into a name, a command and arguments (`Name`, `Rest`, `Unbracket`,
`Tokens`: a fold of `Step`) as `TypeAdd`, or taken for a name as `TypeDisable`;
`Listed` is what `/list` prints of the arguments. `FormOf` is what the page's form
shows of an entry that its button can open (`Editable`: the button passes texts
between apostrophes), by way of fields (`Field`), and `Saved` what is made of a
form; `Directory` and `DirectoryOf` take nothing and the text `undefined` for no
directory, and blanks off one. `ValidSlug` guards both ways in, and the file
itself when it is loaded: `Configured` says what a configuration is that
`load_from_path` accepts, which is where the program starts (`InitialAssumption`).
Saves, proxies and other tasks are `AppState`'s.

## Runs

Runs that pass:

| Run | Instance | What it shows |
| --- | --- | --- |
| `stdio_shared` | two sessions that use id 1, one waiting and one streaming, whose clients may stop reading; one extra line of the child, whose own request has id 0 and which never exits; capacity 1 | replies, broadcasts and losses; every accepted request is over sooner or later, or the drain task waits for good for a client that does not read |
| `stdio_one_client` | one session with a waiting request, a streamed one and an initialize without an id; one extra line of the child, whose own request has id 1, which the mux mints too, which may answer id 1 unasked, and which exits anywhere | types, the inductive invariant, the tables and `CallService`, with a child that collides with the mux or answers what it was not sent, and with sends that fail; a request sent is somewhere until it is answered or the child ends |
| `http_proxy` | two sessions that wait under id 1, one with a streamed request besides, and a response a client posts that carries id 1, which the mux mints; capacity 1 | the inductive invariant; who is told what in any order of POSTs; `CallService`; nobody but the caller of a failed POST waits for ever, and each who waits is in somebody's hands |
| `state_all` | a user, an administrator and the console, one server, three entries that differ in command or in `is_http` alone, every operation but status, an edit, a restart, failing writes; 3 operations | the inductive invariant and saves; the file is the configuration when no change is under way, unless `astray`; who holds a mutex can go on; `ProxyMap`; nobody waits for ever |
| `sessions` | a session of `/mcp` and one of `/sse`, two streams, an ordinary request, two proxies | the inductive invariant; a session stays at its proxy; its newest stream is fed and it is known until its client ends it, if the server never had two of its streams at once; `ProxyMap`; nothing but a request that waits or a fed stream that its client has not closed can hold up a replaced proxy or a shutdown for good, and no unfed stream stays |
| `entries` | files with any two arguments of common symbols, two in one of them and one in the other, or with arguments of tabs, ends of line, control characters and apostrophes and all sorts of directories; names bare, quoted, padded, unclosed or no slugs, commands of one word and two, and texts of up to three symbols, to type | the configuration stays one that a start would load; what is listed can be typed again; a form saved unedited keeps what it can show, and settles |

Bounds. `MaxLines` bounds what the child writes beyond one answer per request;
`MaxOps` the operations, edits and restarts; `MaxSpawns` the proxies spawned.
Capacity one makes every channel reach both of its limits with two messages, where
64 would need 65. Two calls are enough for a collision of ids and for one answer
to be in front of another; a third is needed for a send to fail, after the writer
and the forward task have ended on a line each. One extra line is enough for a
duplicate, a collision, an answer to nothing or a broadcast between two answers.
Two sessions make one wait on the other's channel. In `AppState` the hazards are
races of two tasks, and three operations let one be prepared, started and
overtaken. Two streams let one session reconnect, before or after the server has
noticed that the first was closed, or each session have one; two proxies let one
replace the other or be spawned beside it. Four payloads at an HTTP server let one
overtake another, one be robbed by a payload passed through, and one stay without
a sender. The theorems remove these bounds for the safety properties they name.
`Chatter` leaves what is not JSON to the theorems: an HTTP proxy does with it what
it does with a notification. In `Entries` the tokenizer's state is four places and
the word it is in, so two symbols in a word and two words let every place follow
every other; `Fresh` has texts typed only where nothing is configured.

`CHECK_DEADLOCK` is off everywhere but in `entries`: with every call posted and
answered, or every bounded operation spent, the system may rest.

Fairness. Weak fairness of a task's steps is what the tokio runtime and the
operating system's threads give: a task that can go on is polled. Weak fairness
suffices for a mutex because in these instances it is contended finitely often
(`MaxOps`). Clients need not send, read or disconnect. `ChildFairness` says that a
child answers what it was sent: a server's promise, which only the liveness of
`StdioProxy` uses. In `Sessions` the drain task gives its clones back (`GiveBack`),
which holds as long as no client stalls it; and a stream that was closed is dropped
sooner or later, because a keep-alive every 15 seconds (`routes.rs:207`) cannot be
written. `HttpProxy` and `Sessions` have one weak fairness
condition for all their tasks together: every task takes a bounded number of
steps, so it is enough that the runtime polls some task that can go on while there
is one, the least a scheduler gives. That a POST is answered or fails is the
server's promise in `HttpProxy` (the client library is given no timeout).
`Sessions` assumes nothing of the kind: a request of its may wait for ever, as one
does whose child has exited (`stdio_exit`). `Entries` has no liveness.

### Where code and documentation differ

Each of these runs checks one statement of a document, a message or an assertion,
and TLC finds a behaviour of the code against it.

| Run | Statement | Behaviour |
| --- | --- | --- |
| `stdio_exit` | `proxy.rs:206`, the error for a child that exited | its waiting requests are never told |
| `stdio_server_request` | `README.md:53-54`, server requests are broadcast | one under an id that a caller waits on reaches nobody, and the caller is failed |
| `state_spawn_race` | `PLAN.md:17`, one child per id | two first connections spawn two |
| `state_reload` | `routes.rs:413`, a reload recycles proxies whose settings differ | an edit that changes `is_http` alone is taken over, and the old proxy kept |
| `state_status` | `main.rs:254`, `/status` shows the stats | it locks `config` twice and stops, with `config` locked |
| `sessions_overlap` | `session.rs:6-8`, each connected client is in the registry | an old stream's cleanup unregisters the new one |

The models have more behaviours of this kind, which no run is spent on. Each is a
short path through the actions named:

* a client that keeps its stream open and stops reading it fills its channel, after
  which the drain task waits for it, and nobody on this server is answered any more
  (`DrainSend`, `Stalled`; `proxy.rs:134`, `proxy.rs:140`);
* a client that closes its stream and reconnects before the server has noticed
  loses its new registration to the end of the old stream, as in `sessions_overlap`,
  and its session too, which is then unknown though nobody deleted it (`Close`, `Get`,
  `Register`, `StreamEnds`, `CloseActive`; `routes.rs:203-204`);
* a child that answers an id which is minted and not sent yet takes the mapping of
  its caller, who then leaves its sender and waits for ever, unless the child answers
  again, and then is failed (`Mint`, `MapCall`, `DrainClassify`, `ExpectCall`);
* a spawn under way puts back the proxy of a server disabled meanwhile
  (`ReadEntry`, `Disable`, `DropProxy`, `Spawn`, `InsertProxy`), which no list
  shows (`PLAN.md:17`);
* a disabled server's child runs on while a handler or a stream has its proxy
  (`DropProxy` under a `held`), though `routes.rs:409` says it stops at once;
* after a replacement, messages of an `/mcp` session get 404 from the new proxy,
  while those of an `/sse` session get 202 and their answers go nowhere; a DELETE
  answers 200 and ends nothing, and may spawn a child for it (`TakeOut`,
  `SpawnProxy`, `InsertProxy`, then `Get` is not enabled and `Delete` changes the
  wrong tables);
* of two proxies spawned at once, the one put into the map first is lost, with
  the sessions made at it (`InsertProxy` twice);
* an `/sse` session stays in `active_sessions` when its stream ends (`Finish`);
* a graceful shutdown waits for open streams, which nothing closes, and for
  requests that wait on a child that has exited (`Signal`, `UnderWay`), though
  `PLAN.md:43` has it kill all live children, and `/exit` is `process::exit`,
  which may cut a save short, though `main.rs:258` says "Gracefully exit"
  (`Restart` between `SaveOpen` and `SaveWrite`);
* a caller whose POST fails waits for ever (`PostFails`; `AnsweredUnlessLost` says
  that nobody else does); answers to an `/sse` session of an HTTP server are
  dropped and their mappings stay (`PostAnswered` without a sender); a response that
  a client posts under an outbound id takes another caller's sender (`Robbed`);
* a proxy whose child has exited stays in the map (`ChildExits`, `Lookup`), though
  `PLAN.md:17` promises a respawn;
* a proxy keeps running the entry it was spawned with after an `Add` updates it, and
  a later reload compares two copies of the new entry (`Outdated`);
* a reload that read the file before an add undoes the add after it was reported
  as saved (`Reload`, `Add`, `SaveOpen`, `SaveWrite`, `Apply`; `main.rs:222`), and
  one that reads a file just truncated empties the configuration;
* a save cut short leaves an empty file, which parses to no servers (`SaveOpen`,
  `Restart`); a save that fails leaves memory changed and is ignored by a disable
  (`SaveFails`; `routes.rs:444`);
* `/list` panics on a server disabled while it prints (`List`, `Disable`,
  `PrintServer`; `main.rs:271`);
* a client that closes its stream stays registered (`Close`, `Disconnect` in
  `Sessions`, `session.rs:6-8`), an initialize whose client goes leaves a session
  nobody knows (`InitializeAbandoned`), and a GET that was checked before a DELETE
  makes the deleted session active again (`Get`, `Delete`, `Activate`).

About text, from `Entries`:

* the form is labelled "Comma or Space separated" (`routes.rs:460`) and splits at
  commas only; an argument with a comma, an empty one, or blanks around one do not
  survive a save of an unedited form (what `Showable` excludes), nor do ends of
  line, a directory called `undefined`, or the environment (`routes.rs:590`,
  `routes.rs:612`);
* the edit button of an entry with an apostrophe in it does not work (`Editable`;
  `routes.rs:558`);
* `/list` prints a tab or another character that is not printable as a backslash and
  a code, and `/mcp add` takes the backslash off and keeps the code (`Escape`, `Step`;
  `main.rs:273`, `main.rs:177-181`);
* `/mcp add` over an entry drops its environment and directory (`Added`), and a
  command with a blank in it cannot be typed there (`OneWord`);
* `/mcp disable " a "` looks for a name with blanks, while `/mcp add " a "` trims
  it (`AddedCanBeDisabled`); `/mcp addx` is taken for `/mcp add x`;
* a command of blanks passes the form and is saved empty (`FillForm`, `Saved`);
* a form saves all of an entry as the page fetched it, so what others changed
  meanwhile is undone.

## Theorems

**StdioProxyProofs**, for every set of calls and sessions, every capacity and
every number of lines, from the assumptions on the constants in `StdioProxy`
alone unless said otherwise:

* `InvariantHolds`: `IInv` is inductive, whatever the child writes and whatever ids
  it answers. Its parts: `IdsInv` (outbound ids are unique and below the counter),
  `SentInv` (what the queues and the child hold was sent, answers are to ids seen or
  forged), `MappingsInv` (a mapping is that of the call its id was minted for),
  `WaitersInv` (a sender belongs to an unanswered call, and is in one place) and
  `DrainInv` (the answer in the drain task's hands is out of the mux).
  `NoCallerForgotten` alone is not inductive: that taking a sender never takes
  somebody else's needs the uniqueness of ids and senders.
* `TypeCorrect`, `CallersAreNotForgotten` and `FinishedCallsLeaveNothing` follow
  from it.
* `TablesStayTogether` assumes that the child answers no id before it was sent it
  (`Forged = {}`), and needs `HonestInv` besides: a call about to leave its sender
  still has its mapping. Without the assumption it is false: an answer that comes
  between the two insertions takes the mapping first.
* `BroadcastsAreComplete` adds that the child numbers its own requests with 0,
  which the mux never mints, and needs `ServerInv`; the run
  `stdio_server_request` shows that the assumption is needed. `NobodyHangsUpEarly`
  needs both assumptions: what takes a sender then is its answer, and the mux
  still knows it.
* `AnswersReachTheirOwners` is `NoReplyLost`, for a child that answers no id before it
  was sent it, whatever ids its own requests have. It needs `OverInv` besides: a
  caller whose send failed never got its line through, so no answer can find it
  over; and `RoutedInv`: a caller that was given its answer is out of the mux, and an
  answer to one that waits goes to a stream only when the caller has gone or was
  turned away.
* `RequestsAreNotStranded` is `NoRequestStranded`: between `pending` and the answer a
  request is in exactly the queues, the child or the drain task. It needs
  `UnderWayInv`: the tasks end in order (the child's end before the writer's, that
  before forward's), so that a line put into a channel whose reader has gone is put
  there only after the child's end; and an answer written stays in the queue or in
  the drain task's hands until the mux has routed it.
* `ProxyImplementsCallService`: under the mapping of `StdioProxy` (a call is
  outstanding while its mapping is in the mux or its answer is in the drain task's
  hands) the initial state is an initial state of `CallService`, and every step is
  one of its steps or a stutter. The child is not trusted at all here: an answer it
  was not asked for yet is a reply to a call already submitted, or goes nowhere.

**HttpProxyProofs**, for every set of calls and sessions, every capacity and whatever
the server answers that is not under an id:

* `InvariantHolds`: `IdsInv` and `MappingsInv` as above with the first part of
  `HonestInv` (`PendingInv`), `PostInv` (a payload is posted once, after it was
  sent, and answered with what its server may answer), `WaitersInv` (a sender is
  in the table or in the hands of one POST task, and its call is unanswered and
  mapped), `SenderKept` (a call that was not robbed has its sender in the table
  until its own POST is answered, and then in that task's hands) and
  `CallerHearsItsPost`, which is `CallersHearTheirPost`. It is not inductive
  alone: that the answer finds its own caller needs `SenderKept`, that taking one
  sender leaves the others needs the uniqueness in `WaitersInv`, and that the mux
  then routes it needs its mapping, from `Expecting`.
* `WaitingCallersAreServed` is `NoCallerIdles`: a caller whose sender another POST
  took is in that POST's hands, and one whose own POST was answered has no sender
  in the table, robbed or not (`SomeoneAnswers`). With it, liveness needs only
  that POST tasks take their steps.
* `ProxyImplementsCallService`: the same abstract service, by the same mapping; here
  a call is outstanding while its mapping is in the mux.

**SessionsProofs**, for every set of sessions, streams and requests and any number of
proxies, of clients that do as they like:

* `InvariantHolds`: `TypeOK`, `SessionsStayHome`, `MadeInv` (what a session that is
  not made has not left), `StreamInv` (a stream is at its session's proxy),
  `SenderInv` (a sender feeds a stream of its session that has not ended),
  `SingleInv` (a session that is not `overlapped` has one stream in hand at a time),
  `FedInv` and `ActiveInv` (its stream is fed, and it is active).
* `SessionsStay` is a part of it: that `Activate` puts a session where it was made
  needs `StreamInv`, and that in turn `SessionsStayHome`, through the check of `Get`.
* `OneStreamFed` is of sessions of which the server never had two streams at once. It
  needs all parts but the last: a cleanup removes by session id, and only
  `SingleInv` says that what it removes is nobody else's. A client cannot see to it
  by closing its stream before it opens the next, only by waiting until the server
  has ended it.
* `KnownUntilTheEnd` is `ActiveInv`, which needs `FedInv`: the cleanup that would
  take the session out of `active_sessions` comes only after a DELETE.
* `SessionsKeepTheMap`: every step of `Sessions` is a step of `ProxyMap` or a stutter.
  A stream begins at the proxy in the map and not at its session's, which is why a
  replaced proxy gains none.

**ProxyMapProofs**, for every set of servers, proxies and holders:
`MapHoldsOnePerServer`, and `LetGoIsForGood`: what is out of the map is out for good
and its holders only become fewer, so a child taken out ends with the last request
or stream that has it. Through the two refinements this is so of `AppState` and of
`Sessions`.

**AppStateProofs**, for every set of tasks, servers and entries and every bound:

* `InvariantHolds`: types, what a task in `get_or_spawn` has in its hands, and
  which mutexes a task holds (`LocksInv`); `SavesAreCurrent` follows, because
  `config` is changed only by a task that could take its mutex.
* `ChangesArePersisted` is `PersistedWhenQuiet`, with every operation, edits, restarts
  and failing writes included: where file and memory differ, either a task that has
  still to save has the change in its hands, or one of the three things that `astray`
  remembers has happened (`PersistInv`). That a change survives is not said, and is
  false: the list above has what a reload or a restart does to it.
* `NobodyHoldsAndWaits` is `HoldersGoOn`: a task that holds `config` or `proxies`
  saves, or waits for `proxies` which is then free. It needs `HoldersInv`, that
  `proxies` is held only with `config`, by the same task. It assumes that the
  status command is not asked for; `state_status` shows what that one does.
* `AppStateKeepsTheMap`: every step is one of `ProxyMap`'s or a stutter, a restart
  included. It needs `BringingInv`: a proxy spawned is in the hands of one task until
  it is in the map. A proxy put over another of its server lets that one go, which is
  how a second spawn loses the first one's child and still keeps one per server in the
  map.

**EntriesProofs**, for texts of every length over any symbols, from three
assumptions that `Entries` names: what is typed are sequences of symbols without
ends of line (`TextsAssumption`), a letter or digit is none of the separators
(`AlnumAssumption`), and the program starts with a configuration that
`load_from_path` accepts (`InitialAssumption`). Every invariant of the run
`entries` is proved.

* `TypeCorrect` is `TypeOK`: whatever is typed, edited or saved leaves a configuration
  that the program would load again, with texts in all its places. It is inductive.
* `ListingsCanBeTyped` is `ListingCanBeTyped`. It needs of the configuration only what
  `TypeOK` says: it holds of every entry there can be. A line of a slug, a command
  of one word and a listing is cut at the right places (`RestParts`, `ListedLine`),
  the brackets taken off are those the listing put there (`ListedParts`: what is next
  to one is a quote, or the listing is empty), and the tokenizer undoes the printing
  (`EscapedScan`: one symbol after the other, a code after its backslash being more
  of the same word; `DebugScan`: a quoted argument, from between words to between
  words; `ListedScan`: all of them).
* `UneditedFormsKeep` is `UneditedFormKeeps`: splitting at commas what was joined with
  `, ` gives the arguments back, each but the first behind a blank that trimming takes
  off (`SplitJoin`, `TrimOneBlank`), and a field keeps what has no ends of line
  (`FieldFacts`, `FormKeeps`).
* `FormsSettle` is `FormSettles`: what is saved is not empty, has no commas, no
  ends of line and no white space around it (`SplitPieces`, `NonEmptyFacts`,
  `TrimFacts`), so a form keeps it.
* `BareWordsAreSplit` is `BareWordsSplit`: without quotes the tokenizer goes in
  step with a split at white space and commas (`BareTokens`; the loose end of a
  split is an empty piece when the tokenizer is between words), and trimming a
  text before it is split changes no word (`TokensTrim`). It is inductive as it
  stands: only a further addition changes what it speaks of, and a disable or a
  save ends that.
* `AddedNamesCanBeDisabled` is `AddedCanBeDisabled`, for every command and arguments
  typed after the word. It is inductive; its proof is about the parser: `Find`,
  `TrimStart` and `TrimEnd` give the first or last symbol (`FindFacts`, `TrimFacts`),
  a word that is not blank begins the trimmed line (`Beginning`), and a slug at its
  beginning, bare or in quotes, is its name (`NameOfBare`, `NameOfQuoted`), because
  nothing in a slug ends a word or a quotation (`SlugFacts`).

**TextFacts** has what these rest on. The folds over texts (`Split`, `NonEmpty`,
`Flat`, `Scan`) are recursive functions, and the library's induction theorems are
out of reach; but a set of numbers has a least element, by the well-foundedness of
finite sets (`LeastNumber`), and so a set that holds what an induction needs holds
everything (`Induct` for numbers, `SeqInduct` for sequences: the property is a
set, not an operator). With these each fold has a law that says what one symbol
more does to it (`SplitLaw`, `NonEmptyLaw`, `FlatLaw`, `ScanLaw`), and the facts
above follow from the laws.

Only model-checked: liveness (`EveryCallAnswered`, `AnsweredUnlessLost`,
`OperationsEnd`, `UnfedStreamsEnd`, `ReplacedProxiesEnd`, `ShutdownEnds`), which
rests on fairness and is out of the prover's reach. Every invariant and every
safety property of the steps that a passing run checks is a theorem.

## What is not modelled

* The page's cards, badges and messages, and the help and status texts: markup. So
  is what texts do that the page puts into its markup as they are, a button with an
  apostrophe in its entry and a slug in the address of a request
  (`routes.rs:609`) among them. Where JavaScript and Rust differ about what is
  white space, a text is taken to have neither.
* GET and DELETE of `/mcp` with the id of an `/sse` session: the handlers do not
  tell the two kinds apart, but such an id is given to a client for `/messages` only.
* An HTTP server that answers under another request's id. Reading the command line
  and binding the address, before anything else runs. The end of the runtime
  after `main` returns, which may wait for a read of standard input.
* The listening address: read at start, printed, and carried through reloads;
  nothing else depends on it. That a `--host` or `--port` given on the command
  line is written to the file by the next save is therefore not seen.
* Message texts, SSE framing, keep-alive, CORS, headers, logging, the lookup of a
  program on Windows: input and output with no state of the program's own.
* A child that closes its standard input and goes on, and pipes that fill up
  before the channels do: a pipe only adds room to the queue next to it.
* Overflow of the outbound id, a `u64` raised by one per request.

## What remains

1. A server behind `HttpProxy` that answers under ids of its own, and what
   `CallService` then promises.
2. `AppState` with `Sessions` in it for two servers: the two modules meet in the
   map, each with what the other does to it as an action (`TakeOut`, `Lookup`).
