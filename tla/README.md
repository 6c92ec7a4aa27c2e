# Formal models of genie-cloud

genie-cloud (Almond Cloud) runs a virtual-assistant *engine* for each of its
users behind a web front end, keeps Thingpedia, the catalogue of devices that
the engines understand, and trains and serves the natural-language models they
use. This directory holds TLA+ modules that model the parts of it where several
actors act on shared state, the TLC configurations that check them on small
instances, and proofs that TLAPS checks for every value of the constants.
`PROJECT.json` lists the components, the runs, the mutants (one plausible bug
per checked property, which TLC must find), the map from definitions to source
lines, the findings, the hazards and the theorems.

Parse with `tlasany M.tla`, check with `tlc -config X.cfg M`, prove with
`tlapm M.tla`.

## 1. The system

| Component | State it keeps | Operations | Talks to |
|---|---|---|---|
| Per-user lock (`util/lock.ts`) | a chain of promises | `acquire`, the unlock callback | EngineManager, one lock per user |
| EngineProcess (`almond/enginemanager.ts`) | the current child, its RPC socket, the promise of its start, flags and timers of a kill | `start`, `restart`, `kill`, `waitReady`, `waitDead`, handlers of `error`, `disconnect`, `exit`, `message` | the worker, by IPC channel and signals; EngineManager, by the events `exit` and `engine-removed` |
| EngineManager (same file) | `_engines`, `_processes`, `_locks`, the round-robin index, `_stopped` | `startUser`, `killUser`, `restartUser`, `deleteUser`, `clearCache`, `restartUserWithoutCache`, `killAllUsers`, `start`, `stop`, `isRunning` | its EngineProcesses; the database; the front end, through the control socket |
| Worker (`almond/worker.ts`, `worker_k8s.ts`) | the map of engines | `runEngine`, `killEngine`, direct sockets, `exit` | the master or the controller; engines |
| Master (`almond/master.ts`) | the set of control connections | start, stop on signals | front ends, EngineManager |
| EngineManagerClient (`almond/enginemanagerclient.ts`) | cached engines, one control connection per shard | `getEngine` and the forwarded operations of EngineManager | the master of each shard |
| Kubernetes back end (`enginemanagerclient_k8s.ts`, `user_k8s.ts`, `go/k8s`) | the custom resource of each user, the front end's cache of websockets | create, delete, reconcile, start and kill an engine, wait for it | the Kubernetes API, the workers |
| Engine (`almond/engine.ts`) | conversations, notification outputs, recording controllers, apps | open and close them, remove apps | front ends, by remote calls |
| Routes that reach an engine (`routes/my_conversation.ts`, `cloud-sync.ts`, `my_recording.ts`, `subscribe.ts`, `bridges`, ...) | messages that wait for an engine; listeners; outputs | open, relay, answer, close | EngineManagerClient, browsers, speakers, telephones |
| Training daemon (`training/`) | the current job of each type; the job table | schedule, start, complete, kill, recover | the database, the programs it runs |
| Synchronised tables (`go/sql`, `go/dbproxy`) | a table and a journal of changes with last-modified times | insert, delete, `HandleChanges`, `SyncAt`, `ReplaceAll` | the devices of a user, each with a replica |
| NLP server (`nlp/`) | the loaded models, the exact commands, Redis's answers | query, reload, learn | model files, the training daemon, other replicas |
| Voice (`nlp/voice`) | one session per websocket: timers, audio stream, recognizer | start, packets, stop | the browser, the speech service |
| Database access and utilities (`util/db.ts`, `util/json_datagram_socket.ts`, ...) | pooled connections; partial messages | transactions; read and write | everybody |
| Accounts and sessions (`routes/user.ts`, `developer_console.ts`, `admin.ts`, `util/user.ts`, `util/oauth2.ts`) | rows of users, organizations, permissions; sessions | sign in, profile, organization, second factor, mails, grants | the database; EngineManagerClient |
| Thingpedia (`model/`, `util/import_device.ts`, `routes/thingpedia_*`) | devices, versions, schemas, commands, likes, translations, snapshots, values, packages | upload, approve, unapprove, delete, like, translate, snapshot, search | the database, file storage, the training daemon |
| Crowdsourcing (`routes/mturk.ts`, `model/mturk.ts`) | batches, paraphrases, answers about them | create, submit, validate, close | workers of Mechanical Turk; training |
| Pages (`browser/`) | the page of a conversation: websocket, history, form, microphone, recording | connect, show, send, record | the routes |
| Bootstrap (`scripts/bootstrap.ts`) | the whole database | wait, look, `schema.sql`, fill | the database |

(Paths without a directory are under `src/src`; `go/` and `browser/` stand
beside it.) Some parts are not modelled, see section 7.

How they interact. A front end sends an operation on a user over the control
socket of the user's shard. EngineManager takes the user's lock, calls the
worker that runs the user's engine over an IPC channel, waits for the answer,
queries the database, chooses a process for the user and calls the worker
again. Workers are processes of the operating system that boot, crash, close
their channel and exit at any time; EngineProcess turns what it hears of that
into the event `exit`, to which every user entry in the process listens. On
Kubernetes a custom resource stands for the user, and a controller brings the
workers to what the resource says. Web requests share nothing but the database,
in transactions; an upload to Thingpedia puts a row into the table of the
training daemon, and a request that changes what an engine was started with has
to restart it. Browsers hold a websocket, which the front end joins to the
engine.

What is hard. Everything on a server runs in one thread, but every `await` lets
other operations, timers and events run; the closures of children that were
replaced, of kills that timed out, of connections that were superseded are
still attached and act on the same objects; calls to somebody who dies are
never answered, and a promise that is rejected with nobody listening ends the
process. Database rows are read in one statement, or one request, and used in
another. Jobs are cut off half-way and run again. The list of these hazards,
each at its line and with the properties that are about it, is in
`PROJECT.json`.

## 2. The modules

Each module models one component. An operator whose name ends like
`Killed_Unsent` is a bug that somebody could write in the definition that
follows it; it is never part of a specification and is there for the mutants
that `PROJECT.json` lists. The comment before it says what the bug is.

| Module | Models | Built on |
|---|---|---|
| `FifoMutex`, `Lock` | an abstract first-come first-served mutex; `util/lock.ts`, which implements it | |
| `EngineProcess` | `class EngineProcess` and the end of the master | |
| `EngineManager` | `class EngineManager` and the worker's side of `runEngine`, `killEngine` | `EngineProcess` |
| `Worker` | the engines inside a worker, of a master or of a pod | |
| `EngineManagerClient`, `Websockets` | the front end's connections to the masters; conversation and cloud sync over them | `Websockets` on `EngineManagerClient` |
| `Kubernetes` | the resource of a user, the controller, the pods | `Worker` |
| `DirectSocket` | how a front end reaches an engine on Kubernetes | |
| `Assistant`, `Subscriptions` | requests that share an engine's assistant; requests that remove its apps | |
| `ChatPage`, `ChatForm` | the page of a conversation: what it shows; its form, microphone and recording | `ChatForm` on `ChatPage` |
| `Training` | the training daemon, from the job table to the tasks' processes | |
| `Catalogue` | one device through crossing uploads, approvals, deletions, and its packages | |
| `Devices`, `Commands` | several devices and what looks for them; example commands and likes | |
| `Manifest` | what the manifest of a device goes through, from validation to rows and back | |
| `Translations`, `Upload` | translations and snapshots of a schema; the upload of a file of values | |
| `Accounts`, `SignIn`, `Grants` | rows of users and organizations with their engines; sessions and proofs; OAuth | |
| `Crowdsourcing` | a batch of Mechanical Turk | |
| `SyncTable` | `go/sql` and `go/dbproxy`: tables, journals, replicas | |
| `NlpServer`, `Learning` | a model that is reloaded while it answers; a command that is taught to all replicas | |
| `Bootstrap` | the installation of the database | |
| `DatagramSocket`, `Pool`, `Voice` | message framing; the connection pool; a voice session | |
| `EngineProcessProofs`, `EngineManagerProofs`, `WebsocketsProofs`, `KubernetesProofs` | theorems | the modules they name |
| `TrainingProofs` | theorems about training and its data | `Training`, `Commands`, `Devices` |
| `StorageProofs` | theorems about what is stored and loaded | `SyncTable`, `NlpServer`, `Learning`, `Bootstrap`, `Upload`, `Catalogue`, `Translations`, `Manifest` |
| `PeopleProofs` | theorems about people's requests, and the lock they queue for | `Lock`, `Accounts`, `SignIn`, `Grants`, `Crowdsourcing` |
| `FrontProofs` | theorems about what reaches an engine, and the page | `DirectSocket`, `Assistant`, `Subscriptions`, `ChatForm` |
| `MC...` | the instances of the runs; `MCServices`, `MCWorkers` and `MCSite` (with `MCData` under it) put several components side by side | |

`MCServices`, `MCWorkers` and `MCSite` run components that share no variable
that matters: the variable `part` says which of them a behaviour is of, and the
others stay where they begin. A behaviour of all of them would show nothing
more, and a run for each would say the same thing more often.

### One thread, many awaits

A step of the models is one turn of a JavaScript thread: an event handler up to
its end, or an asynchronous function from one `await` to the next. Between two
turns anything else may run. Promise jobs (micro-tasks) run before the next
event is handled; where that matters it is said by a guard:
`EngineManager.Quiet` and `Websockets.Quiet` are true when no promise job is
left, and every event requires it. `EngineProcess.Up` is the same for the
continuation of `stop()`. In the modules about the database a serializable
transaction is one step; a transaction that is only REPEATABLE READ, or that
calls somebody in the middle, is a step that reads and one that commits; and
statements outside a transaction are steps of their own.

### Engines and their workers

*Lock.* `turn[n]` is the promise `ourTurn` of the n-th `acquire()`, `drained`
the last link of the chain `this._queue.then(() => ourTurn)` that is fulfilled.
`Acquire` is the code up to `await oldQueue`, `Drain` the reaction job of a
link, `Resume` the return of the `await`, `Unlock` the callback. The refinement
mapping gives `FifoMutex` the holder, the waiters and their order.

*EngineProcess.* One record per object holds its fields (`_child`,
`_rpcSocket`, `_starting`, `_hadExit`, the delay of `restart()`) and what
became of every child, attempt and kill it ever had, because the handlers of
old children and the timeouts of old kills stay attached and act on the same
fields. Each handler is an operator from record to record (`Started`,
`Restarted`, `BecameReady`, `SpawnFailed`, `Disconnected`, `ChildGone`,
`Killed`, `TimedOut`), and the actions say when it runs and what it does around
the object: the listener that restarts a shared process, the list `_processes`,
`stop()`, and the master, which a failed first start ends (`master.ts:183-189`)
and a rejection that nobody handles crashes (`main.ts`). A worker is `booting`
until its first message, `ready` until it loses its channel, then `adrift`
until the operating system reports its end. Assumed: separate processes are
sandboxed, shared ones are not (the configuration in production), so that a
signal other than SIGKILL does not reach a separate worker; a message that a
worker sent is delivered before the end of its channel; timers fire in any
order (no clock).
`kill()` gives its caller nothing to wait for: the worker of a separate process
lives on with its engine until it exits or the timeout sends SIGKILL, and is
*given up* (`GivenUp`) for as long as it does.

*EngineManager.* A request (one call of an operation) carries the stages it has
left; `Plan` gives them per operation and one action handles each stage. An
entry of `_engines` is named by the request whose `_runUser` made it, and so is
the separate process it may start; entries that were replaced live on through
`listening`, the set of those whose `die` is attached. `calls[p][n]` holds the
calls under way to the n-th worker of `p`, which answers them in order; a call
whose worker is lost is never settled, because the socket built on the IPC
channel reports no end. `locks` holds every lock object a user ever had:
`deleteUser` drops the object from `_locks`, and its waiters stay in the old
queue. A *scene* says which operations arrive, which rows the database has, and
what may happen around the master (`May`), so that a run can say under which
circumstances its properties hold. What runs (`RunningEngines`) is every engine
in a worker that is not dead, whether an entry lists it or not. Assumed: no
database proxy is configured, so that `runEngine` reaches the worker in the turn
in which it is called; the database and `/bin/rm` answer. `sendSocket`,
`getProcessId` and `useCount` (never read) are left out.

*Worker.* An engine is started by a chain of promises: `init`, `opening`,
`running`, `closing`; `killEngine`, an error of the engine, or the signal comes
in between. `listed` is what the map has for the user.

*Kubernetes.* `Reconcile` of the controller is a sequence of steps between its
requests to the API server and to the workers (`get`, `moved`, `decided`,
`delete`, `update`); the resource may be deleted and created anew between two of
them, a status update may meet a newer resource, a worker may be unreachable.
Three kinds of users are initial states: one in a worker process below a master,
one in the shared pods, one in a developer's own deployment. `missed` remembers
that the controller overlooked an engine of a pod or that a call to kill one
failed (which for a developer's does no harm, as his deployment is deleted next),
`lost` that a status update was, and `replaced` whose engine lost its place on the
map of the worker to the fatal error of an earlier one: it runs on without being
listed, and `Displaced` is what the properties excuse by name.

*EngineManagerClient and Websockets.* `direct[c]` is the c-th connection that
`getEngine` opened, with the state of its promise; `cached` is
`_cachedEngines`. The `close` handler of a connection outlives its entry. A
websocket record holds what the closures of `doConversation` (or the fields of
the cloud-sync delegate) hold: the queue, the wrapper, whether messages go
straight to the engine. `delivered` is what the engine has received, `calls`
the calls under way over each connection, which the engine carries out and
answers in order; a call over an ended connection is rejected or never answered
(either), which is how transparent-rpc, the library behind it, is used here and
the only thing assumed of it.

*DirectSocket.* The same on Kubernetes: each caller waits until the engine
runs, opens a websocket and caches it; the worker leads a websocket to the
engine it lists for the user and ends those of an engine it kills.

*Assistant and Subscriptions.* A visitor is one request: a websocket for
results, a conversation, a turn of Google Assistant, a request of the recording
page. What it opened in the engine and what it has still to close are the state;
a remote call in each direction is a step. Whose output an answer has is decided
by who is attached when a message goes out: outputs of earlier turns that nobody
destroyed, and the history of the conversation, which the library tells a new
output if it is asked to (`replayHistory`; `Replayed` are the visitors to whom
it does). `Recycle` is the end of an idle conversation. A request to stop asks
for the list of the apps and removes one after the other those that it is about;
the loop over the list takes them in any order, since no property tells the
orders apart. An app of a user's own engine that notifies a telephone is of
nobody's stop: the text message only asks the anonymous user.

*ChatPage and ChatForm.* `ChatPage` has the websocket, the messages of the
conversations, what the page shows and how it filters the history that is
repeated to it when it connects again. A message may have no number (the
hypothesis of a speech recognizer, a ping); the page then forgets which number it
has seen (`Undefined`). `ChatForm` extends it with the items of
the form that are enabled, the streams of the microphone, and the box that
switches recording on, whose status is asked for and answered out of order.

### The models of language

*Training.* A row of `training_jobs` and the Job object that walks through its
tasks (`saving`, `spawning`, `waiting`, `calling`, `recording`, `ending`),
`kill` and crash at any point, recovery at the next start, and the merging of
jobs that are asked for while one waits. `stuck` names the jobs whose completion
could not be recorded.

*NlpServer and Learning.* Overlapping reloads of a model, each of which waits
for its download, replace predictor and directory; a query goes to the predictor
it found unless Redis has an answer, whose key has neither model nor load. A
taught command is stored, added to one replica, and sent to the others that the
name service lists; replicas start, and load the file of the training task.

*Voice.* The silence timer, the wakeword, the audio stream, the recognizer and
the websocket each end by themselves; there is one session.

### The web site

*Catalogue* has the rows of one device: `device_class`, its versions, the schema
with versions of its own, commands, packages. Two uploads read a snapshot,
check, lock and commit while administrators approve, unapprove and delete.
*Devices* takes uploads as one step but has several devices, of each other's
kinds, and asks of each query whether what it finds agrees with what it gives
out; it is mostly operators, one per query. They keep the limit of a search
(`SearchLimit`, 20 in the code), the categories that come from the loaders of
built-in classes, and the shortcut by which UPnP hardware with a name like "hue"
is the one device `Hue`. *Commands* has the rows of a dataset and of the likes,
with the form of the device as a way to upload what it shows. *Manifest* is the
data that the others take as a set of functions: which manifest is valid for
whom and how it is completed, the schema it is reduced to, the rows, and the
three ways in which it is put together again. Whether a class is known to be the
same when it is uploaded once more depends on more than its functions; the
constants `Recognised` and `RecognisedSchemas` of *Catalogue* and *Translations*
name those of which it is. *Translations* keeps all versions of a schema, the
snapshots and answers that clients keep. *Upload* is the pipeline of three
streams inside one transaction.

*Accounts* has what an engine was started with beside the row, and each request
acts on the copy of the row that its session read. *SignIn* has sessions, the
user in each and whether the second factor was shown, the login of the phone
application, identities of Google and of GitHub, which may come without an
address, and the links in mails. *Grants* has codes, refresh tokens and access
tokens, each of which may be used again, over the table of permissions. A
refresh looks for the permission and makes the token in two steps, and a
revocation may come between; `before` are the codes, refreshes and tokens that
were there when the user last revoked. *Crowdsourcing* has the counters that are
stored twice. *SyncTable* has a table joined with its journal, and replicas
whose answers get lost. *Bootstrap* has a job cut off anywhere by a database
that comes and goes.

*DatagramSocket* cuts a stream of bytes anywhere; *Pool* gives connections to
requests some of which ask for a second one, and some of which give theirs back
twice, which destroys it under whoever has it by then.

## 3. The runs

| Run | Instance | Shows |
|---|---|---|
| `services` | lock: 3 callers, 5 `acquire`; pool: 4 calls, 1 of them nested, 2 connections; table: 1 key, 1 replica, 1 client; voice: 4 packets; page: 2 conversations, 2 messages each, 1 without a number, 2 closes; training: 3 rows, 1 fault, a job of two tasks | what each owes whoever waits: `ImplementsFifoMutex`, `EveryCallReturns`, `ReplicasConverge`, `VoiceEnds`, `PageCatchesUp`, `QueueDrains`; and that a started job is run (`StartedIsRun`) |
| `workers` | host: a shared and a separate process, 2 children and 2 kills each; cluster: 1 user of each of three kinds, 2 pods, 2 engines per worker, 1 fault; fair | never two workers in service for one object (`OneServingChild`); every kill settles, that of a separate process only with a dead worker (`EveryKillSettles`); no engine that nobody would stop, a resource leads to a running engine, a deleted one to none (`EnginesAreKnown`, `Served`, `DeletedStops`) |
| `manager` | 1 user, 2 operations, 1 automatic restart, 2 children; scenes `Calm`, `Timed`, `Edited`, `Own`, `Booting` | when an engine is removed or started, what else the user has is given up (`KilledBeforeGoingOn`) |
| `manager_live` | 2 operations and a restart by timer in four scenes, fair; workers are lost only while no call is under way | every operation returns and unlocks (`EveryRequestReturns`); a user lost with a worker runs again (`LostUserRunsAgain`) |
| `manager_hang` | 1 operation, a worker lost while it has a call to answer, fair | finding 1 |
| `manager_cache` | `restartUserWithoutCache` of a user with a process of his own | finding 2 |
| `manager_lost` | the shared worker lost twice, fair | finding 3 |
| `front` | a conversation of 2 messages and a cloud sync of 1 over 1 connection, with 1 control connection lost; the conversation beside a second connection, of the same user or of another; fair | `CachedIsOpen`, `LostEngineClosesWebsocket`, `ConversationInOrder`, `EveryMessageArrives` |
| `site` | see below | nineteen invariants, one or two per part |
| `commandpedia` | 2 uploads of up to 3 versions | finding 4 |
| `restart_inside` | 3 requests of 2 users | finding 5 |
| `bootstrap` | 3 jobs, a site in use | finding 6 |

The parts of `site`, each with its bounds:

| Part | Instance | Property |
|---|---|---|
| Catalogue | 2 uploads at once, 3 commits, three classes on offer, 2 packages | `UploadIsWhole`: device, versions, schema and packages belong together |
| Translations | 2 functions, a kind with 2 versions and its successor with 1, 1 snapshot, 2 readers | `SnapshotIsStable` |
| Manifest | 2 devices, 25 manifests, 4 uploads by 3 kinds of users, 2 languages | `UploadIsServed` |
| Devices | 3 kinds, 5 classes on offer, two kinds with 2 versions, a search limit of 1 | `DevicesAreFound`: queries, setup and discovery agree |
| Commands | 3 datasets; 3 uploads and 2 deletions, or 3 likes by 2 users in 2 requests | `CommandsAreKept`: commands and likes survive uploads, likes are counted |
| Upload | 2 files of 3 rows, streams of 1 row | `StoredIsOneFile` |
| Accounts | 2 users, 2 organizations, 2 locales, 2 concurrent requests of 3 | `KeyIsCurrent` |
| Sign-in | 2 people, 2 browsers, 2 addresses, 1 identity of Google and 2 of GitHub, one of them without an address, 4 steps of signing in | `EntryIsProved` |
| Grants | 1 application, 2 scopes | `AccessHasConsent` |
| Crowdsourcing | 4 workers, 2 sentences, target 3, 2 paraphrases each | `TrainingIsUnanimous` |
| Tables | 2 keys, 1 replica, 1 client, times up to 2, pushes of 1 | `NothingMissed` |
| Model | 2 overlapping reloads of 3, 1 query at a time, with the cache | `ServesItsModel` |
| Learning | 1 command, 3 replicas, 2 starts | `LearntEverywhere` |
| Bootstrap | 3 jobs | `RootMeansComplete` |
| Framing | 4 messages of 2 bytes, chunks of up to 7 | `MessagesOnceInOrder` |
| Engine on Kubernetes | 2 requests, 2 engines, 2 websockets, 1 fault | `CacheLeadsToListed` |
| Assistant | 3 visitors of any of five kinds, one of whom is told the history | `VisitorsAreServed` |
| Subscriptions | 2 apps of the anonymous user at a telephone, 1 of a user at his mail address, 2 requests | `StoppedAreTheirs` |
| Form, recording | 2 streams of the microphone; the form alone and the recording alone | `PageIsUsable` |

Why the bounds are enough. A hazard of this code needs two operations that
overlap, or one that meets what is left of an earlier one; hence two requests at
once and a third after them, two children of a process so that the late events
of the first meet the second, a second version of a device so that the newest
and the approved one differ and a third so that an upload meets both. Three
callers of a lock are the least for which the order of two waiters matters, five
acquisitions let a caller come back behind another. One user is enough where
requests of different users share only the processes or the connection pool, as
the properties speak of one user each; the front end has two, since the loss of
one user's engine takes away the listener of another's, and two connections, since
an old one may close late. There the constraint `OneThingAtATime` keeps apart what
does not meet: beside a second connection one message is said in all, and the
control connection stays. One fault is enough where the code
handles each fault by itself; a second one within the handling of the first
would only stop it as the first did. Three workers must agree in
the crowdsourcing part, and a fourth is the one too many. Times of the synchronised
table need only be compared: two of them can be equal, earlier and later. The
model server has one query at a time, of which the property speaks, and three
reloads around it. The form and the recording box are explored each alone,
since only the connection changes both.

`Orderly` in `MCSite` stops a behaviour of the synchronised table once a write
was out of order, of which nothing is said; `FirstIsPartial` in `MCServices`
lets the first row only be for some devices, which is enough for it to be merged
with, or to wait for, one that is for all. `SYMMETRY` permutes requests in
safety runs only. Deadlock is not checked: the bounds stop the models, and a
master that has exited takes no step; that nobody waits for ever is said by the
liveness properties instead.

What holds only with reservations is said in the property: it names the one way
in which the code parts from it. So `NothingMissed` says that a write out of
order is the only way to miss a change; `CacheLeadsToListed`, `EnginesAreKnown`
and `DeletedStops` excuse an engine that a fatal error took off the map, the last
also what the controller lost track of or failed to kill in a shared pod;
`KilledBeforeGoingOn` an engine in a worker that was asked to die;
`LostEngineClosesWebsocket` the listener that another user's loss took away;
`AccessHasConsent` the codes, refreshes and tokens from before a revocation;
`VisitorsAreServed` what `RecordingController.destroy()` closes for all and the
turn that is told the history; `PageCatchesUp` the history that is shown again
after a message without a number; `EntryIsProved` the profile that was saved with
its address unchanged; `PageIsUsable` the reconnection during the dialog;
`UploadIsWhole` the approval that an upload wrote over. The exceptions are what
the counterexamples of the unreserved statements showed.

`KilledBeforeGoingOn` holds for operations that arrive after `start()` has
returned, and so does `OneEnginePerUser`, which is only proved (section 5): a user
has one engine at most in workers that are not given up. They do not hold in
general: `start()` runs users without their locks, `startUser` does not look
whether the user runs, `clearCache` does not wait for the kill, and `deleteUser`
drops a lock object with waiters. That the old engine has *ended* before the next
one starts is only so for shared workers; for a separate one the next engine runs
beside it, which finding 2 is about.

### Findings

1. `manager_hang`: a call of `runEngine` or `killEngine` that is under way when
   the worker dies never settles. The operation keeps the user's lock, and the
   automatic restart, like every later operation on the user, waits for it.
2. `manager_cache`: `restartUserWithoutCache()` is for a user who lost his developer
   key, "and we don't want them having access to unapproved (and dangerous) devices
   through the cache". Such a user has a process of his own, whose `kill()` returns
   nothing to wait for: the cache is removed and the new engine started while the
   old engine still runs, for up to 30 s, and may write to the cache.
3. `manager_lost`: `_hadExit` is set by the first loss of a process object and
   never cleared, although `restart()` gives it a new worker. Its second loss is
   told to nobody: no timer restarts its users, and `isRunning()` says that they
   run.
4. `commandpedia`: the base examples are those of the newest upload, approved or
   not, and Commandpedia shows them all if any version of the device is
   approved. HISTORY.md says that it only shows commands of the approved subset.
5. `restart_inside`: removing a member of an organization restarts his engine
   inside the transaction. The engine is started over another connection, reads
   the row as it was, and keeps the developer key. A comment in `user.ts` says
   that a restart "must happen outside of the transaction".
6. `bootstrap`: any error of the query that asks for the root user, a lost
   connection too, is taken for an empty database, and `schema.sql` drops every
   table of the site.

### Observations

The models show more, which no text of the repository contradicts and for which
there is no run. The most important ones:

* *Workers.* The 30 s timeout of `kill()` reads `this._child` when it fires, and
  may send SIGKILL to the worker that replaced the one it was meant for. A late
  `exit` of an old child clears `_child`, so that `killAllUsers()` may return
  while workers run and a worker may outlive `stop()`. A websocket whose
  listener was removed by the loss of another user's engine is not closed when
  its own is lost.
* *Kubernetes.* A fatal error of an engine takes its entry off without ending
  its sockets, and a front end's cached websocket stays with the dead engine.
  `onError` of any websocket deletes whichever entry is cached. The promise of
  `getEngine` hangs when the websocket closes with no answer. An engine that a
  fatal error has displaced runs on after its user was deleted.
* *Assistant.* `RecordingController.destroy()` closes the conversation after
  every request of the recording page, which the page sends after every message.
  A vote that is not valid leaves its controller behind. Turns of Google
  Assistant never destroy their output, so that later messages go to all old
  ones. `/notifications/unsubscribe` deletes every app of a logged-in user.
* *Page.* A reconnection while the dialog asks starts the recording without
  confirmation, and Cancel does not stop it. A double click on the microphone
  before access is granted leaks a stream. A voice answer while disconnected
  enables the input, and then `ws.send` fails. Late answers about the recording
  overwrite the toggle. A message without a number makes `lastMessageId` undefined
  (`conversation.js:574-576`), so that the next connection shows the whole history
  again.
* *Voice.* A websocket has no event `end`; a recognizer that could not be stopped
  is never closed; a failed query or token refresh is an unhandled rejection.
* *Models.* Answers in Redis outlive a reload for a day, are shared between
  models, and an older predictor's answer may overwrite a newer one's.
  Overlapping reloads leak a predictor and a directory. A replica that starts
  while a command is learnt misses it until the next file. `learn.ts:153` calls
  `like()` with its arguments swapped.
* *Thingpedia.* A manifest that is uploaded once more counts as a new schema,
  without translations, unless each of its functions extends another, has a
  confirmation text and a Boolean `confirm`: `areMetaIdentical` compares strictly
  what comes back from the rows as null and true. `confirm: auto` is stored as
  true, and a translated confirmation is never shown in the manifest.
  Queries go by the columns of the newest upload and give out the
  class of the version the organization sees. Deleting a device drops its kind
  from the rows of others, which stay without it. Discovery compares prefixes of
  sorted lists, and a device with a Bluetooth class can never be a perfect
  match; it ignores approval. An upload re-creates secondary phrases and
  synthetic rows, which lose their likes and cause a training each time. Two
  commands with names of their own and the same code are shown, and uploaded
  again, as one (`dataset.ts:206-211`). Two
  withdrawals of one like at once count twice. A translation is made for the
  functions that the translator sees and stored for the newest version; the
  condition on the version in GET is inverted. A snapshot's translated texts
  change while its answer is cached for six months.
* *Accounts.* `/profile` with an unchanged address sets `email_verified`
  (`user.ts:732`), with which an identity of the same address is taken for the
  user's (`passport.ts:106-109`). An access that a code allows survives the
  revocation of the permission until the code expires, and the exchange of the code
  puts the permission back. An
  identity of Google sets `completed2fa`. `recovery/continue` misses a `return`.
  Requests on old copies of rows can leave an organization without members, or
  administrators who demote each other. Ten profiles with errors at once exhaust
  the pool of connections. A transaction that fails gives its connection back
  after the rollback, and again with the error (`db.ts:125-132, 212-218`), which
  destroys it though somebody else may have it by then.
* *Others.* Closing a batch with `autoapprove` never works (`model/mturk.ts:201`).
  A forced bootstrap that is cut off in `schema.sql` leaves the root user and no
  catalogue, and the next one refuses. An upload of entity values deletes only
  those of language `en`. `killJob()` that meets a job which has just ended sets
  it to `error` and lets its dependents fail, and then it becomes `success`.

## 4. Fairness

Liveness is checked under weak fairness of what Node.js, the operating system
and the services do by themselves, and of nothing else:

* `Lock`: reaction jobs run, and a holder reaches its `finally`.
* `Pool`: queries and callbacks end, perhaps with an error.
* `EngineProcess`: timers fire; the kernel carries out SIGKILL; a worker that
  closed its channel is in `process.exit()`. A worker that was only asked to
  exit may hang for ever, and none has to become ready.
* `EngineManager`: also, a booting worker becomes ready or fails, workers
  answer, the database answers. Their scenes leave room for every restart there
  can be, so that no timer of `restart()` is stopped by a bound.
* `Websockets`: promise jobs run; a request for an engine, and every call over
  an open connection, is answered, perhaps by an error. Browsers, users and the
  network owe nothing.
* `Kubernetes`: the controller's work queue goes on; a pod that was started
  comes up, one that is stopping ends; an engine's chain of promises goes on;
  the pods of a deleted deployment are ended; a service does not stay without
  endpoints.
* `Training`: the daemon is restarted (a Deployment of Kubernetes), starts what
  is queued, and each step of a job ends.
* `SyncTable`: a replica synchronises again and again, and not every answer is
  lost (strong fairness of the answer).
* `ChatPage`: the timer of the reconnection fires, the server accepts, messages
  are handled. `Voice`: timers fire and the service answers, or fails.

## 5. The proofs

TLAPS checks, for any sets of clients, processes, users and websockets and any
bounds, from the assumptions on constants that the modules name:

| Theorem | States |
|---|---|
| `PeopleProofs`: `TypeCorrect`, `LockIsExclusive`, `LockIsNeverLost` | the safety of `Lock`: `TypeOK`, `MutualExclusion`, `TurnHasOwner` |
| `LockImplementsFifoMutex` | every step of the promise chain is a step of the abstract mutex or none |
| `AccessNeedsConsent`, `EntryNeedsProof` | `AccessHasConsent`, `EntryIsProved` |
| `TrainingNeedsAgreement`, `EngineHasCurrentKey` | `TrainingIsUnanimous`, `KeyIsCurrent` |
| `EngineProcessProofs`: `ProcessTypeCorrect`, `OneChildServes`, `FirstLossIsRepaired`, `SeparateDeathIsReal` | the safety of `EngineProcess`: its type, `OneServingChild`, `FirstLossRestarts`, `SeparateDeadIsDead` |
| `EngineManagerProofs`: `ManagerTypeCorrect`, `UsersHaveOneEngine`, `KilledEnginesAreGone` | the type of `EngineManager`, with its processes and its locks; `OneEnginePerUser`, `KilledBeforeGoingOn` |
| `WebsocketsProofs`: `FrontTypeCorrect`, `CachedEngineIsOpen`, `LostEngineIsNoticed` | the safety of the front end's connections: their type, `CachedIsOpen`, `LostEngineClosesWebsocket` |
| `ConversationsAreInOrder` | `ConversationInOrder` |
| `KubernetesProofs`: `EngineIsKnown` | `EnginesAreKnown` of `Kubernetes`, with the engines of `Worker` |
| `StorageProofs`: `TableTypeCorrect`, `ReplicaMissesNothing` | the type of `SyncTable`, `NothingMissed` |
| `ModelIsServed`, `CommandIsLearntEverywhere` | `ServesItsModel`, `LearntEverywhere` |
| `RootUserMeansComplete`, `UploadStoresOneFile` | `RootMeansComplete`, `StoredIsOneFile` |
| `CatalogueTypeCorrect`, `UploadsAreWhole` | the type of `Catalogue`, `UploadIsWhole` |
| `SnapshotsAreStable`, `VersionsAreTranslatedWhole` | `SnapshotIsStable`, `TranslatedWhole` of `Translations` |
| `ManifestsAreServed` | `UploadIsServed` of `Manifest` |
| `TrainingProofs`: `TrainingTypeCorrect`, `StartedJobsAreRun` | the type of `Training`, `StartedIsRun` |
| `CommandsTypeCorrect`, `CommandLikesAreCounted`, `CommandsAreAlwaysKept` | the type of `Commands`, `LikesAreCounted`, `CommandsAreKept` |
| `DevicesTypeCorrect`, `DevicesAreAlwaysFound` | the type of `Devices`, `DevicesAreFound` |
| `FrontProofs`: `CachedLinkIsListed`, `StopRemovesItsApps` | `CacheLeadsToListed`, `StoppedAreTheirs` |
| `PageStaysUsable`, `VisitorsGetTheirs` | `PageIsUsable`, `VisitorsAreServed` |

What is proved of safety need not be checked again: the types,
`MutualExclusion`, `TurnHasOwner`, `FirstLossRestarts`, `SeparateDeadIsDead`,
`OneEnginePerUser`, `LikesAreCounted` and `TranslatedWhole` are in no run by
themselves (`LikesAreCounted` is a part of `CommandsAreKept`); every other theorem
states a property that a run checks as well.

*Lock.* Mutual exclusion is not inductive. `IInv` adds that every client
between `acquire()` and its callback has a pending turn of its own, that the
chain never drains past a pending turn, and that a holder is the owner of the
first pending one. The same invariant gives the refinement: `Resume` is only
possible for the waiter with the smallest ticket.

*EngineProcess.* Two workers in service would need a restart while one serves.
`ObjectInv` says why there is none: the worker in service is the last one
spawned, `_child` refers to it or to nothing, and as long as `_hadExit` is
false there was only one child. A lemma per handler gives the fields it
changes, a second one shows that it keeps `ObjectInv`, and a step of the
specification is one handler applied to one object (`SetInv`) or `kill()`
applied to all (`KillAllInv`). `LossRestarts` and `OneLife` are the parts that
hold of shared and of separate objects.

*EngineManager.* The theorems speak of scenes in which operations come one after
the other (`OneAtATime`): nobody calls `startUser`, `deleteUser` or
`clearCache`, nor anything before `start()` is done. In the others a user can
have two engines (section 3). They do not say that a killed worker of the user's
own has ended, since nobody waits for it, but that it is given up: it has left
its channel, or its SIGKILL timeout runs or has fired. That killed engines are
gone is not inductive: what matters is who may start the next one. `ManagerInv`
says that

* an engine that runs, and a call of `runEngine` to a worker in service, is that
  of the user's current entry in `_engines`, and an entry with a known process
  listens to it (`EnginesInv`, `CallsInv`); so whatever ends the worker's service
  takes the entry off;
* who kills, removes or starts is the first in the queue of the user's lock
  (`LocksInv`), or is run by `start()` before anybody else knows the user
  (`StartInv`); `OneActs` concludes that there is one at a time;
* he has killed (`ClearedInv`), or waits for the answer of `killEngine` from the
  worker that has every engine of the user in service (`CallsInv`), or has sent
  the kill to his own process, which emits `exit` once and has one child
  (`SeparateInv`), so that an entry that listens, or is about to, has not missed it,
  unless `killAllUsers()` or `stop()` met a worker that was booting (`Spared`).

An engine in service is listed, then, and whatever else runs is in a worker that is
given up (`UnlistedEngineIsGivenUp`): of a separate process that was asked to exit,
the timer of its SIGKILL is set or has fired (`TermIsTimed` of
`EngineProcessProofs`).

`Later` is what a step may do to a process object: a child that was spawned does
not come back into service, and a start succeeds only if the worker was booting
or had succeeded before. A lemma per handler shows it; `EngineProcessProofs` gives
the invariant of the objects (`ProcessInv`), of which the manager's is an
extension. Most steps end calls, let engines stop and entries die, and move one
request on: `Step` says so, and `StepManagerInv` concludes the invariant for all of
them. The steps that make an entry, call a worker, run an engine or give the lock
to the next have lemmas of their own (`RunUserInv`, `ProcessFoundLiveInv`,
`KillSharedLiveInv`, `WorkerRunsInv`, `ReleaseInv`).

*Websockets.* That a cached engine is open needs that the connection is the
user's own (`CacheInv`): the `close` handler removes the entry by user id, so
that it can take away a newer entry but never leave its own behind. That a
lost engine closes its websockets needs `EngineInv`: no connection closes
between the answer that settles the engine's promise and the promise job that
attaches the listener, because promise jobs run before events. `LossInv` is
the bookkeeping of who lost the listener and to whom. `GentleStep` is the
common part of all steps that neither open nor close a connection.

The order of a conversation is that of one line of messages in three parts: what
the engine has, the calls to it in the queue of the connection, which are those of
all websockets, and what waits in the websocket for its engine. `OrderInv` says of
each conversation (`SaidInv`) that the numbers grow along this line (`InOrder`,
`QueueIsLast`) and, while the websocket is open and its connection lives, that
none is left out (`AllThere`, `NoneBetween`); that only open connections have
calls, and each call is of a websocket of its connection (`LinesInv`, `HomeInv`);
and that the queue of a websocket is empty once it has its engine (`Shape`).

*Kubernetes.* Inside a worker (`WorkerInv`): a pod that is down has no engines,
and an engine is known from its first stage on, not only when it runs, because
`killEngine` may meet it before there is an `Engine` object. That a user has
engines in one pod only is not inductive; `RunsInPlace` names the pod
(`Place(u)`): the one that Reconcile is about to ask, has asked, or has to leave,
when it is about the user, else the one of the status, else his backend.
`ReadIsKnown` says what is left of what Reconcile has read: a resource that has
changed since has no backend. `lost` and `missed` are used as the property uses
them: a step that makes `RunsInPlace` false sets one of them.

*Tables.* `SyncInv`: what a replica was told, and what the transaction that
answers it is about to tell it, agrees with the table up to the time that goes
with it (`Agrees`), and that time is no later than the last one in the table
(`Reached`), so that a write in order is later than both. `TableTypeCorrect`
already needs that `handleChanges` finds a winner among the changes to a key and
`getLastModified` a time: the lemmas about maxima of finite sets.

*Models and commands.* A load that is under way is nobody's yet (`LoadsAreNew`),
so that what a reload stops cannot be what the model has then; a reload cleans up
a predictor with its own directory (`ReplacedIsOld`); reloads that do not overlap
know all predictors there are (`OneAfterTheOther`). `ToldOrAwaited`: a replica
that was told of a command knows it, or the request waits for its answer.

*Installation and files.* `SchemaIsRun`: the tables before the statement that
`schema.sql` has got to are there and empty, and the transaction of the default
data begins with all tables and nothing in them. `RowsGoOn`: the rows of a file
that were not skipped are, each in one place, in the writer, on the way to the
database, or inserted; `LatestIsStored`: the table has the file that was
answered last.

*Catalogue.* That an upload is whole is about the newest and the approved
versions of two rows with version numbers of their own. `CatalogueInv` says that
the rows come and go together and their numbers are in step (`RowsTogether`), that
the functions of the newest versions agree and those of the approved ones do
unless they were set apart (`NewestAgree`, `ApprovedAgree`), and that every file
is the package of its version (`FilesAreMeant`). The crossing is in `ReadIsOld`:
what an open upload has read is of a device that was deleted, of an older version,
or of the newest version with its schema, so that an upload that commits without a
conflict writes the next version of what is there.

*Translations.* No version of a schema is uploaded twice, because `id`s are not
used again (`Used`, `RowIsNew`); a snapshot holds versions that were uploaded
(`SnapshotsAreUsed`), which is why what it shows stays; and a version that was not
uploaded yet has no translation (`UnusedAreEmpty`), so that the one a form makes is
whole.

*Training.* A started row that nobody looks after would come from a job that is
begun twice or ended by somebody else's process. `TrainingInv` says that a row
with a job or a process is queued no more (`BegunOnce`), that nobody waits for a
process that has survived its job (`OrphansAreAlone`), and that a job that is to be
recorded has an outcome (`EndingHasOutcome`), so that its row does not stay
started. `First` is a minimum of numbers, which there is by well-foundedness.

*Commands.* `CommandsInv`: the number beside a command is that of its likes less
those whose requests are between their two statements (`CountsAreRight`), unless a
request met one to the contrary; a heart shows what was done, or a request that
has done it is still to be answered (`HeartsFollow`). That a form which is
submitted unchanged keeps the commands is about one moment, but it needs that no
two rows have the same name (`NamesDiffer`), which is inductive. Then the phrases
of the form are the rows of the device, one for one (`FormIsTheRows`: both are
sorted by id, `ListedOnce`), and the rows after the upload are its phrases
(`UploadIsTheRows`), so that contents, numbers, names and likes are the same
(`EditIsKept`).

*Manifests.* `ManifestInv` says of each device that its rows are those of the
functions of its manifest, and that there is no Italian row or the translation of
these (`IsStored`). The interesting case is an upload that leaves the rows: they
are of an earlier manifest. `RowsOfTheIdentical` shows that a schema which is
identical to what comes back from rows has these rows, as null and undefined
are different; `KnownAgainByRows` says when that is so for the manifest's own rows,
and `TypesAreServed`, `TextsAreServed`, `ServedInEnglish` and `ServedInItalian` that
all ways to ask lead to the same functions.

*Devices.* The row of a device is of its newest version: its columns, its services
and its kinds, but for those that went with the rows they name, and a kind that is
still named is a device (`RowIsOfNewest`, with which `DevicesInv` is inductive). From
this each query follows without another step. One organization sees one version
of a device at most, and one exactly if the device is listed for it (`OneVersion`),
so that the lists, the search and the factories are of the same devices
(`ListsAgree`), and a list and its pages have each of them once (`SortedOnce`,
`PageOfList`). The factory of a version that is seen is of that device and is no
choice of factories, so that what is offered for a kind does not depend on how many
there are (`OneFactoryOfDevice`, `SetupOffers`). Discovery asks for the first known
service that is announced: what it finds has that service (`FoundByServices`), and
just the services that were announced if something has (`FoundExactly`), from which
follows what is said of the two kinds of hardware (`BluetoothMatches`,
`UpnpMatches`, which has the hardware that calls itself a Hue).

*Grants and sessions.* What a code gives, if it is not from before the last
revocation, a permission, or a refresh that has found its permission, is consented
to, or a code from before brought it back (`CodesHaveConsent`,
`PermissionsHaveConsent`, `RefreshesHaveConsent`), from which the tokens come. A
session that shows the second factor did show it, or its browser skips it
(`CompletedIsProved`), before the factor is set up as well as after.

*Crowdsourcing.* The counters are those of the answers (`CountsAreAnswers`), which
is so because whoever answered about a paraphrase is in the log of its task
(`AnswersAreLogged`) and cannot answer again.

*Accounts.* A request that is not over knows its user and the row it is about
(`RequestsAreAbout`). While a member is removed his row is locked by that request
alone, and the engine started in the transaction has the key of the old row
(`RowIsLocked`).

*Front.* `DirectSocket`: each websocket that is up leads to the listed engine, or
to one taken off by an error (`SocketsLeadToListed`). `Subscriptions`: a request
removes apps it may remove, of one engine at a time (`RemovesItsOwn`), and what it
saw and still runs is ahead of it (`SawIsAhead`). `ChatForm`: there is a second
stream only after a hasty click (`ClicksAreHasty`), and whatever leads to a
recording follows a confirmation or a connection (`StartIsConfirmed`).
`Assistant`: who has no object yet hears nothing (`NewcomersHearNothing`), who has
one has his output until that is destroyed, and his conversation is the current one
unless it was cut off (`GuestsAreAttached`); what is on its way to a turn comes in
the order of its steps (`WireIsOfTurns`, `WireIsInOrder`), so that a reply is
behind the messages of its command (`RepliesAreLast`); and an answer has none of
the turns that were over before, unless the turn is told the history
(`TurnsAreAnswered`).

The assumptions on constants say no more than the code: there are finitely many
workers, a user and a pod, a crowdsourcing target is positive, a manifest has
the fields that the syntax gives it and no text in it is null or empty, no way
to configure a device is called "multiple", there are finitely many kinds of
devices and services, names that stand for "none" are none of the others.

Out of the prover's reach: liveness under fairness and `ENABLED`; what recursive
definitions and folds compute for every input (`MCServices` compares
`handleChanges` as a loop with its definition by the result on bounded inputs,
as an assumption that TLC evaluates).

## 6. What is only model-checked, and what to prove next

Everything not named in section 5, in particular liveness. One safety property of
the runs has no proof: `MessagesOnceInOrder` of `DatagramSocket`, which is about
what splitting and filtering sequences of bytes compute. These are functions of
their input that are defined by recursion, and stay with TLC.

## 7. What is not modelled

`PROJECT.json` gives each component's status and reason. In short:

* *The platform of an engine, the dialogue agent, parsing and generation of
  text* belong to the Genie library, which is not in the repository; speech,
  training programs, MySQL, Redis, Kubernetes and Mechanical Turk are external.
  They appear where the code waits for them, by what they may answer.
* *Protocol and sharding, sandbox*: a hash, message types, and system calls,
  with no state.
* *Pages, forms, searches and lists*: rendering of rows, except where a page
  keeps state (`ChatPage`, `ChatForm`) or where a query decides what is found
  (`Devices`, `Commands`).
* *The syntax of classes and datasets, icons, queries about entities and strings,
  tokens and their signatures*: functions of their input.
* *Alexa, signing in through the bridge*: rows that the catalogue reads and a
  login as in `SignIn`.
* *Scripts*: one-shot programs over the database or `kubectl`, except for the
  bootstrap, which runs at each deployment.
* *Caches, buffers and streams of one owner* (`timed_cache.ts`,
  `growable_buffer.ts`): two of their functions are not right where nobody calls
  them (`TimedCache.set()` on a key it has; `writeBuffer` over three buffers).
