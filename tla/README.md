# Formal models of the kachow web server

kachow is a multi-threaded HTTPS server (`src/`, `include/`): it reads an
nginx-like configuration, accepts TLS connections, routes each request to a
handler by the longest matching location and serves echo, health, static,
login, sleep and not-found pages, a CRUD API over a directory tree and a
token-protected variant of that API. This directory holds TLA+ models of the
parts that carry its logic, the TLC configurations that check them and TLAPS
proofs of what matters most. `PROJECT.json` ties every definition to the source
lines it models and every property to a run. Paths below are relative to the
repository.

## The system

| part | state | operations | hard because |
|---|---|---|---|
| CRUD API handler (`src/request_handler.cc`) | the files below the API root, `entity_id_map` | POST, GET list, GET item, PUT, DELETE | index and disk are two copies of one truth; no lock |
| index and scan (`src/request_handler_factory.cc`) | `entity_id_map` | constructor, `scanFS`, `Insert_ID` | restart after any prefix of a request |
| file system (`src/filesystem.cc`) | the disk | exists, create_directory, write, read, remove | truncate and write are two steps, errors are ignored |
| accept loop (`src/server.cc`) | acceptor, threads | `start_accept`, `handle_accept` | threads are added and joined inside a handler |
| session (`src/session.cc`) | socket, `request_`, `response_` | handshake, read, write | `delete this`, errors, members reused between requests |
| routes (`server::generate_routes`, `session::match`) | `routes_` | build, look up | duplicate locations, nested prefixes, static member |
| stateless handlers | none | echo, health, static, login, sleep, not found | they fill the `response_` of a kept-alive session |
| secure API (`src/request_handler.cc`) | two directory trees, one index for both | two API handlers behind a token check | shared index, a scan that sees no entity |
| token authorisation (`src/token_auth.cc`), `update.sh`, `run.sh` | the certificate file, the clock | `get_auth`, download | the file is truncated and replaced while requests read it |
| config parser (`src/config_parser.cc`) | block stack, token under way | `Parse`, `ParseToken`, `ToString` | look-ahead, malformed input |
| main (`src/server_main.cc`) | | start-up, `signal_handler` | exit in the middle of requests |

A connection is accepted by `server`, which creates the `session`; the session's
completions are executed by whichever thread is in `io_service::run`; the
session looks its route up in the table, has the factory create a handler and
passes it `request_` and `response_`; the API handler works on the disk and on
the index its factory owns, both shared by all threads.

What makes each part correct: the index equals the disk after every request and
restart, POST replaces nothing and acknowledged items survive (API); a session
is never used after its deletion, never stranded but in one known case, the
acceptor stays armed and somebody executes handlers (server, sessions); the
longest location serves (routes); an answer shows only what some request of its
connection was entitled to (handlers: entitlement adds up over a connection and
valid tokens are one, so that two users of one connection are not told apart); by
targets of one or two segments a private user's data are touched by that user
alone (secure API; longer targets are another matter, see below); a withdrawn key is refused and a published one accepted in the end (certificates);
what the parser accepts has the shape its users rely on (configuration).

## Modules

* `ApiData`: names, ids, the disk, the index and the helpers on them
  (`erase_if_exist`, `insert_if_notexist`, `get_next_id`, `scanFS`). Names are
  model values; `std::stoi` is the constant function `Stoi`, so that `1`, `01`
  and `1abc` are three names with one id and a name that makes it throw has
  `NotANumber`. `Canonical` says that an id has one spelling and no entity is
  called by an id of a file.
* `ApiHandler`: `RequestHandlerAPI::get_response`, one action per branch, over
  `dirs`, `files` and `entity_id_map`, with restarts and, optionally, edits of
  the files by others (`OutsideEdits`) and targets of more than two segments
  (`Detours`). POST and PUT count the segments of their target, GET and DELETE do
  not: a longer one, with `..` say, is what the file system resolves it to, and
  the ids of that entity stay as they are, because the key cut out of the target
  has a `/` in it and is no entity's. `up` becomes FALSE where the code would read through
  `map::end()`.
* `CrudStore`: the abstract store: no index, no restart. `ApiHandler` implements
  it (`ImplementsCrudStore`), mapping ids to the file that spells them.
* `ApiSteps`: the same requests taken apart at every call on the file system and
  at every copy and write-back of an id set, for several runners (threads), with
  the process ending between any two steps and a disk that may refuse to open or
  write a file, which `write_file` does not report. GET of an entity called by a
  number is among them, since it erases that number from the index, and so is
  DELETE by a longer target (`detour`). GET by a longer target is not: it changes
  neither the disk nor the ids of an entity (the key it may enter in the map is
  no entity's). `ImplementsAtomic` relates it
  to `ApiHandler`: while a request is under way the abstract state is the one it
  started from (`saved`), and it takes effect when the response goes out; the
  only other steps are what the start after a crash finds of a request cut off
  (`CutOff`) and a request whose write was refused (`Spoilt`). `ApartSpec` is
  `Spec` while overlapping requests keep `Apart`: they are at different entities,
  and each of these has its key. Nothing in the code enforces that; it is the
  premise under which several threads need no lock. Under it the threads assign
  to different elements of the `std::map` and none of them inserts one while
  another searches, so that there is no data race and a call on the map is one
  step.
* `Server`: the accept loop, the sessions' operations and the threads.
  `pending`, `ready` and `running` are the operations the network has, the
  completions the io_service has and the handlers being executed; `idle` and
  `blocked` count threads; `gone` are reset peers, `silent` the sessions whose
  read failed with no byte. A request handler may throw: nothing between it and
  `io_service::run` catches, so any request may end the process.
* `Routes`: `generate_routes` statement by statement and `match` turn by turn.
  Locations and targets are model values with their prefix relation and
  lengths. Any order of visiting the map is allowed.
* `Exchange`: what a kept-alive connection answers: each handler is a function
  from the request and the `response_` it finds to the one it leaves.
* `TokenAuth`: `TokenAuth::get_auth` and `FakeAuth::get_auth`, and the certificate
  file as `run.sh` and `update.sh` leave it: `wget -O` truncates it, then stores
  the keys published at that moment or fails. A token is a record of its claims
  and of who signed it; every exception of decoding, JSON and verification ends
  in `NO_AUTH`, so what matters is whether the conditions hold, not their order.
* `SecureApi`: `SecureRequestHandlerAPI`: two instances of `ApiHandler`, below
  `priv` and `pub`, over one `entity_id_map`, composed with `TokenAuth`. The
  function `Qualified` is the target rewriting `user_id + "_" + entity`. The scan
  (`ScanRoot`) finds `priv` and `pub` and no entity. The body of a request is
  taken to be its token, so that stored and shown data name their sender.
  `ServeDetour` is a GET or DELETE by a longer target. It starts in `pub`, or in a
  directory of the private user's own, since the user id is put before the first
  segment, and from there `..` leads to any entity of either group.
  `caller` and `old` are auxiliary.
* `ConfigParser`: `ParseToken` and `Parse` as a function `Feed` of a record and
  one character, of the classes the code tells apart. The stack is popped
  unchecked, as in the code: `depth` may become negative, and only a statement
  entered in the `top()` of the empty stack is undefined. `ConfigText` adds
  `ToString` and parsing a whole text.
* `MCApiHandler`, `MCApiSteps`, `MCServer`, `MCRoutes`, `MCExchange`,
  `MCSecureApi`: instances.
* `ApiDataProofs`, `ApiHandlerProofs`, `ApiStepsProofs`, `SecureApiProofs`,
  `ConfigParserProofs`, `ServerProofs`, `RoutesProofs`, `ExchangeProofs`: the
  proofs.

Definitions marked "Mutant" are wrong variants of the one that follows them;
putting one in its place makes the property `PROJECT.json` names fail.

## Runs

| run | checks | instance |
|---|---|---|
| api_index | `NextIdHasKey`, `MapMatchesDisk`, `PostNeverOverwrites`, `ImplementsCrudStore` | 2 entities, files 0, 1, 2, 2 bodies, every disk initially |
| api_drift | `TypeOK`, `NextIdHasKey`, `RequestsNeverAddDrift` | entities shoes and 1, the latter called by the number of a file, files 1, 2, x, outside edits, longer targets |
| api_spellings | violates `PostNeverOverwrites` | files 1 and 01 |
| api_crash | `TypeOK`, `NextIdHasKey`, `QuiescentMapMatchesDisk`, `AckedSurvives`, `ImplementsAtomic` | 1 runner, crashes, disk errors, DELETE by longer targets, entities shoes and 9 (one directory at a time), files 1, 2, x, 1 body |
| api_two_runners | violates `NextIdHasKey` | 2 runners |
| server | `TypeOK`, `OneOperationPerSession`, `OnlySilentAreStranded`, `AcceptorArmed`, `ThreadAccounting`, `SomeoneRuns`, `OneHandlerAtATime`, `EveryCompletionHandled`, `OthersServed` | 3 sessions, 1 or 2 threads configured |
| routes | `ServedByLongestPrefix` | 3 nested locations, 3 statements, a known and an unknown name |
| exchange | `OnlyEntitledContent`, `RefusalsShowNothing` | 2 connections, 2 contents, all handlers |
| exchange_stale | violates `ModificationsAnswerEmpty` | 1 connection |
| secure | `TypeOK`, `OwnDataOnly`, `KeysSinceStart`, `NewEntitiesNeverOverwritten`, `OwnersOnlyChange`, `WithdrawnKeysRefused`, `PublishedKeysReturn` | 2 private users, 1 public one, 6 tokens, 2 entity names, 1 file, 1 key, longer targets |
| secure_restart | violates `PostsNeverOverwrite` | 1 private user of a test configuration, files 1 and 2 |
| parser | `TypeOK`, `BlocksNested`, `TokensClean`, `RoundTrip` | every file of up to 7 characters |

Bounds. `MaxId = 2`: POST is modelled while an id up to 2 is free, which is
enough for an id to be freed below and beside another. Two entities show that
requests on one leave the other alone; two bodies (api_index) that the last one
written is returned. In api_crash the second entity is there for GET of an entity
called by a number; `OneDirectory` keeps the disk to one directory at a time,
since with one runner requests at two entities do not meet. The run has some 1.6
million states. In `Server` a session object is reused after its deletion, so three of
them give unboundedly many connections, one being accepted and two under way;
with all of them in use accept can only fail, as it does when descriptors run
out. `ThreadLimit` is the number of threads the process may have; the model
reaches it and takes the exception of the thread constructor. Three statements
over three nested locations contain a duplicate beside another location, and
unknown names. Entities and bodies are interchangeable in api_index, connections
and contents in exchange; these runs use symmetry and check no liveness. In
secure the public user asks for the very name the first private user's entity
has, the one case in which the groups meet in the index, and the second private
user has a name of his own; the six tokens are genuine ones (one of which expires
when the clock moves), one for another client, a forged one and one that cannot
be decoded. One key that is published, withdrawn and published again and a file
that is missing, empty or current are all `get_auth` tells apart for a token;
one file name suffices for a listing, a retrieval and an overwritten item, and
secure_restart needs two. Seven characters are a block with a statement inside
and one more character (`a{a;}` and two), quotes with any character between,
comments, and a brace too many or too few.

Deadlock is checked where the system always can go on. The server run turns it
off because the process may have died or all clients may be silent, the exchange
runs because all connections may be stranded, parser because the parser ends.

Fairness (`FairSpec`). A handler that has been started ends (weak fairness of
the handlers): the operating system schedules every thread that is not blocked,
and the handlers do not wait for each other. A completion is not passed over for
ever (strong fairness of dispatch): the io_service keeps completions in a queue.
Nothing is assumed of the network or of clients, nor that the read handler of
one session, `Sleeper`, ends, for a request handler that does not return;
`OthersServed` then says what `tests/multithread_test.sh` expects, and
`EveryCompletionHandled` takes the fairness of that handler as its hypothesis.
In `SecureApi` weak fairness stands for the endless loop of `update.sh` and for
wget, which ends one way or the other; that downloads do not fail for ever is
the hypothesis of `PublishedKeysReturn` and not assumed anywhere else.

## What the runs disagree with

* `get_next_id` "return[s] next available ID" (request_handler.cc:164), but ids
  are `std::stoi` of file names: after PUT `/e/1`, PUT `/e/01`, DELETE `/e/01`
  the id 1 is free in the index and POST replaces file `1` (api_spellings).
* "the map must have key of entity, no need to check" (request_handler.cc:167)
  fails with two threads on a new entity (api_two_runners). On entities that
  have their keys, requests to different ones do each other no harm
  (`ApartRequestsSafe`).
* The answer to PUT and DELETE has `Content-Length: 0`
  (tests/expected_api_200_2:2) on a new connection only: the branches leave the
  body of the previous answer of the connection in place (exchange_stale).
* `get_next_id` again, behind the token check: the secure factory scans its root,
  whose directories are `priv` and `pub`. After a restart the index has no entity:
  POST reads through `map::end()`, and after PUT `/e/2` it answers id 1 and
  replaces the file 1 of before (secure_restart). `KeysSinceStart` and
  `NewEntitiesNeverOverwritten` say that this is confined to entities older than
  the last start and, for replaced files, to names both groups use.

Behaviours that are part of the models and that no property forbids: the pool
grows with every connection when more than one thread is configured
(`ThreadAccounting` gives the exact number); an exception of a request handler
(`filesystem_error` of an existence check or of create_directory, or the read
through `map::end()`) or of `remote_endpoint` in the log line of `handle_read`,
when the peer has reset the connection, ends the process with all its sessions;
GET of an entity called by the number of one of its files takes that id out of
the index, after which POST may hand it out and replace the file
(`RequestsNeverAddDrift` confines it to that number, `OwnNumber`, and the theorems
that need more assume `Canonical`); GET and DELETE by targets of more than two
segments reach the items of other users and of the other group, for any genuine
token (`OwnDataOnly` and `OwnersOnlyChange` state what is left: nothing is
replaced or stored that way, and what is shown or removed takes a genuine token);
a public user
who asks for the name a private entity has (`u1_shoes`) shares its ids in the
index and sees them in the listing, though not the items (`OwnDataOnly`); a
refused write is answered with 200 or 201 (`AckedSurvives`,
`QuiescentMapMatchesDisk` and `ImplementsAtomic` confine the damage to that
item); `Parse`, which "returns true iff the input config file is valid"
(include/config_parser.hh:46), accepts a file that ends inside a block or has
closing braces too many (`a;}}`: the pop of the empty stack goes on, and only a
statement after it is undefined), and drops an unquoted word at the end of the file.

Outside the models: "removing the trailing ','" (request_handler.cc:282) removes
the opening bracket when there is no id, so that the listing of an emptied entity
is `]`.

An assumption of the secure instances: the last segment of a private user's
target to an entity begins with the user id, and `parse_url_target` reads its
leading digits. Google's ids are too long for an int, so that `std::stoi` throws
and the entity is no number (`NotANumber`). A shorter numeric id would make GET
of an entity a retrieval, as api_drift has it for entities called by numbers.

## Proofs

All theorems hold for every value of the constants that satisfies the named
assumptions of the modules; these only say what kind of value a constant is,
that there are names and bodies, that the sentinels differ from data, that
`to_string` of an id is read back as that id, and that equally long prefixes of
one target are equal.

* `ApiHandlerProofs`. `TypeCorrect` and `KeyAlwaysThere` need no further
  assumption: `TypeOK /\ NextIdHasKey` is inductive, because a directory is only
  ever made by POST or PUT, which leave a key, `erase_if_exist` keeps the key of
  an entity it empties, and `scanFS` makes one per directory. `DriftOnlyShrinks`
  assumes `CanonicalIds`: an erase or insert changes the index at the id whose file
  the request saw or changed, and no other file has that id; the exception for an
  entity's own number is part of the property. `IndexIsDisk` and `PostCreates`
  assume `Canonical`, that nobody else edits the files and that targets have one or
  two segments; the inductive
  invariant is `TypeOK /\ NextIdHasKey /\ MapMatchesDisk`. `MapMatchesDisk` is
  not inductive alone: without a key a POST's effect is undefined.
  `HandlerIsCrudStore`: from that invariant every request maps to the action of
  `CrudStore` of its kind, a restart to a stutter, the requests without effect to
  `Decline`. It has the assumptions of `IndexIsDisk` and `EntitiesAreNames`: an entity called by a number
  other than 0 cannot be listed.
* `ApiStepsProofs`. `StepsTypeCorrect` holds for any number of runners; it needs
  `ShapeInv`, which says which methods reach which step, so that only bodies are
  acknowledged. The others but `ApartRequestsSafe` assume `OneRunner`, a pool of
  one thread (the default `num_threads = 1`); api_two_runners shows that something
  of the kind is needed. All of them allow crashes between any two steps and
  refused writes.
  `OneRunnerFindsKey` and `OneRunnerIsAtomic` need nothing else. Their inductive
  invariant, `AtomicInv`, says for every step what the request under way has done
  to the directory, the file and the index since `Begin` kept them in `saved`
  (`Progress`), and that between requests an entity has a key when it has a
  directory and files only then (`Settled`). From it a step inside a request is
  a stutter of `ApiHandler`, the step that answers is the whole request on the
  saved state, a crash is a stutter, and the start after one is a restart or
  `CutOff`.
  `IndexIsDiskBetweenRequests`, `AckedBodiesSurvive` and `ApartRequestsSafe` also
  assume `Canonical`. Without its first part, one spelling per id, they fail as in
  api_spellings; without its second, that no entity is called by the id of a file,
  PUT `/1/1`, GET `/1`, POST `/1` replaces the acknowledged file. A file removed by
  a longer target leaves its id in the index, so that the item counts among the
  `faults` the property excepts until it is written again. Their invariant,
  `StepInv`, adds to the properties that index and disk agree about every item but
  those a request is at (`IndexFollows`), and that what each request read
  before still holds: the key and the copy of the ids (`HasKey`, `CopyFits`), the
  file it found, opened or wrote (`FileFits`). `AckedSurvives` is not inductive
  alone: that POST writes a file that was not there follows from the agreement.
  `ApartRequestsSafe` is for any number of runners that keep `Apart`. A step of one
  of them changes directory, files, keys and ids of its own entity only
  (`OwnEntity`), so that what the invariant says of the other requests stays, and
  for its own request the argument is the one for a single runner. `OneRunner`
  implies `Apart`, so that one invariant serves both. `ApiApart.cfg` is the
  theorem on an instance, beside the runs: two runners, entities shoes and 9, files
  1 and 2, one body, some 7.6 million states, about four minutes with four workers
  (`tlc -config ApiApart.cfg MCApiSteps`). The process
  does not end there and the disk refuses nothing, which api_crash has with one
  runner and the theorem with any number. The theorem says nothing of overlapping
  requests at one entity: nothing in the code makes them safe, and api_two_runners
  is the counterexample. `QuiescentMapMatchesDisk` speaks of each
  entity no request is at, so that it looks at one entity in the middle of a request
  to another.
* `SecureApiProofs`. Every request by a target of one or two segments, on either
  side of the root and whatever its method and spelling, is one of six outcomes (`Outcome`), whose common effect is that
  only files of the asked entity change, to nothing or to the body sent, that keys
  stay, and that an answer is empty or shows a file of that entity. A longer target
  at most removes one file, anywhere, and leaves directories and index
  (`DetourStep`).
  `SecureTypeCorrect` and `KeysKeptSinceStart` follow without an assumption.
  `OwnDataKept` assumes the real authorizer (`AuthType = "OAUTH"`; FakeAuth's
  users need no genuine token) and `UsersApart`: `user_id + "_" + entity` of two
  users is never the same name, which holds of numeric user ids and which the code
  does not check. It says whose data lie where, for all requests, and to whom they
  are shown, for targets of one or two segments; for longer ones only that the
  token is genuine. `OwnersOnlyChangeData` is the same for the steps: an item of a
  private user is replaced only for a genuine token of the user who stored it, who
  is known because stored bodies name their sender (`OwnDataKept`), and removed only
  for such a token or by a genuine token's DELETE by a longer target. `NewEntitiesSafe` assumes `Canonical`; its invariant is that
  every file of an entity made since the last start, and whose name no public user
  asks for, has its id in the index (`NewCovered`).
* `ConfigParserProofs`. `ParserTypeCorrect`, `AcceptedBlocksNested` and
  `StoredTokensClean`, for files of any length, without an assumption.
  `ParserTypeCorrect` says that every block on the stack was opened by a statement
  of its own; how far the stack is popped nothing bounds. The
  properties speak of accepted files; the invariant `ParserInv` speaks of every
  prefix: the token under construction fits the mode (`ValueFits`), the statements
  nest as far as they go (`NestedSoFar`), and the last token determines where the
  stack is relative to the last statement (`StackFits`). It is kept by each
  function of the parser in turn, so that the induction is over the steps of the
  specification and not over the text.
* `ServerProofs`. The invariant says that the operations, completions and
  handlers of the sessions are disjoint and at most one per session, that a live
  session has one unless it is silent, that one of them is the accept, and that
  the number of threads executing handlers follows from the number of joins. The
  theorems are its parts: `ServerTypeCorrect`, `NoSharedSession`,
  `NoOtherStranded`, `AlwaysAccepting`, `ThreadsAccounted`, `NeverAllBlocked`
  and `HandlersDoNotOverlap`, which is
  `ThreadsAccounted` for one thread.
* `RoutesProofs`. `LongestPrefixServes`. The invariant has a part for each loop:
  an entry of the table is the first statement read so far that names the
  location (`TableInv`), and the best location is the longest prefix among those
  visited (`MatchInv`).
* `ExchangeProofs`. `ExchangeTypeCorrect`, `NothingLeaks` and `RefusalsAreBare`.
  The property speaks of answers being written; what makes it inductive is that
  content kept between requests is content the connection was entitled to.

Only model-checked: the liveness properties (`EveryCompletionHandled`,
`OthersServed`, `WithdrawnKeysRefused`, `PublishedKeysReturn`) and, since its
proof would be an induction over the text, `RoundTrip`, which TLAPS cannot reach.
Every other property of the passing runs is a theorem.

`OneRunnerIsAtomic` and `HandlerIsCrudStore` together say that one thread with
crashes implements `CrudStore` up to `CutOff` and `Spoilt`. The two are proved,
their composition is left to the reader: the prover does not use the theorems of an
instantiated module.

## Not modelled

* The vendored jwt-cpp with its JSON libraries: some 31,000 of the 33,900 lines of
  C++ in the repository, of which the program calls `decode`, `verify` and a few
  accessors. What these decide is in `TokenAuth`; how JSON, base64 and RSA decide
  it is not this program's logic. This is why the mapped lines are a small share
  of the repository's, though they are most of `src/` and its headers.
* POST and PUT by targets with empty segments (`//e`): the key differs from the
  entity's name, and a directory may be left without its own. Entities called `.`
  and `..`, which are directories without a key from the start: a POST to them
  reads through `map::end()`. A root path that ends in `/`. Paths are appended as
  in version 3 of Boost.Filesystem, where an absolute operand is appended.
* Files directly below the API root, directories inside an entity, and what longer
  GET targets show of files outside the API root.
* Durability after a power failure. A create_directory or an existence check that
  fails is, in `Server`, an exception that ends the process; `ApiSteps` has that
  end as a crash, which may come between any two steps.
* `request_` between two reads of one connection (session.cc:121): what the HTTP
  library does with its old contents is not in the repository.
* Configurations that parse and lack what `generate_routes` and the accessors
  read unchecked (`server;`, a location without a handler, a SecureAPIHandler
  without its arguments, server.cc:112): undefined behaviour of which no
  outcome can be named. The accessors of `NginxConfig` themselves only read.
* TLS, logging, the MIME table, pages and container files.

## Plan

1. Done: the API (`ApiData`, `ApiHandler`, `CrudStore`, `ApiSteps` with crashes
   and disk errors), the server and its sessions (`Server`), routes (`Routes`),
   answers (`Exchange`), the secure API and its tokens (`SecureApi`, `TokenAuth`),
   the parser (`ConfigParser`, `ConfigText`).
2. Done: the proofs of `ApiSteps`, with the refinement of `ApiHandler`, of
   `SecureApi` and of `ConfigParser`.
3. Done: what several runners keep when their requests are at different entities
   (`Apart`), and who may change stored data (`OwnersOnlyChange`).
4. Done: targets of more than two segments (`Detour`, `ServeDetour`), entities
   called by the number of a file, exceptions of request handlers, and a parser
   stack popped without a check.
5. Left: the damage two runners can do to one entity. Keys are never taken from
   the map and directories never removed, so that a restart repairs the index
   (`ScanFS`); what is lost before could be bounded.
6. Left: that runners which keep apart implement the atomic handler, with one
   saved state per entity in place of `saved`.
7. Left: the properties of `TokenAuth` for the certificate file (which keys
   `get_auth` can accept at which moment) as invariants, beside the liveness
   properties.
