# Formal models of gtk-devops-scd

The repository is a collection of Java modules (a platform backend, a lock
library, networking and RPC demos, algorithm exercises and samples of
frameworks) and the built front end of the platform, in JavaScript.  This directory holds TLA+ models of the parts with state that
several threads, processes or machines share, TLC configurations that check
them on small instances, and proofs, checked by TLAPS, of what holds for every
instance.  Paths below are under `src/`; file names without a directory are
unique in the repository unless one is given.

## 1. The system

### Components

| component | where | state it keeps | operations | modelled |
|---|---|---|---|---|
| ZooKeeper lock | `gtk-devops-lock` `LockZookeeper`, `gtk-devops-study` `ZkLock` | per lock object: `lockSeqName`, `downLatch`; in ZooKeeper: the catalog, one ephemeral sequential node per caller, sessions, watches | `tryLock`, create, children and exists callbacks, `process`, `unLock`, `close` | yes |
| Redis lock | `LockRedis` | one key with an expiry time | `tryAsyncLock`, `tryLock`, `unLock` | yes |
| Reactor | `gtk-devops-study` `io/net/reactor` | per thread a selector and a queue of channels; per group a counter | `bind`, `nextSelectorV3`, `run`, `acceptHandler`, `readHander` | yes |
| RPC client and server | `rpcdemo`, `Multiplex04RPC` | pool of connections per address, locks per slot, futures per request id | proxy `invoke`, `getClient`, `create`, `addCallBack`, `runCallBack`, server `channelRead` | RPC protocol only |
| RPC frame decoder | `ServerDecode` in both copies | accumulated bytes, reader index | `decode` | yes |
| System parameter cache | `gtk-project-bsp` `SysConfigServiceImpl`, `SysConfigRedis`, `RedisUtils` | a row in the database, copies in Redis with an expiry time | `getValue`, `saveConfig`, `update`, `updateValueByKey`, `deleteBatch` | yes |
| Front-end page and chunk loader | bsp `resources/public`: `index.html`, `static/config/*.js`, `static/js/manifest.*.js`, `app.*.js` | the document, what is loading, `window.SITE_CONFIG`; `installedChunks`, a timer per attempt | `createStyles`, `createScripts`, `requireEnsure`, `webpackJsonp`, `onScriptComplete` | yes |
| Router of the front end | `app.*.js` (`src/router`, `src/utils`), vue-router in `vendor.*.js` | per tab: the cookie, `isAddDynamicMenuRoutes`, the stored menus, the pending navigation | `beforeEach`, `beforeEnter`, `clearLoginInfo` | one tab |
| Login tokens | bsp `SysUserTokenServiceImpl`, `OAuth2Filter`, `OAuth2Realm`, `SysLoginController` | one token row per user | `createToken`, `logout`, `doGetAuthenticationInfo` | without the checks before `createToken` |
| Captchas | bsp `SysCaptchaServiceImpl` | one row per uuid | `getCaptcha`, `validate` | no |
| Roles and menus | bsp `SysRole*`, `SysUserRole*`, `SysMenu*` | relation tables, a tree of menus | save, update, delete | no |
| Thread demos | `gtk-devops-study` `thread`, `threadcecurity`; `SynchronizedLock`, `CountDownLatchLock` of the lock module | monitors, parks, latches | two or three threads each | no |
| Common utilities | `gtk-devops-common` | the cache of `RedisCacheAspect` | the aspect, export, file transfer | no |
| Algorithm exercises | `gtk-devops-algorithm` (135 files) | none | pure functions | no |
| Curator and database locks, application events | `gtk-devops-lock` | none of their own | wrappers and a stub | no |
| Samples (gateway, Nacos, Dubbo, RabbitMQ, RocketMQ, Elasticsearch, Kettle, Leaf, ShardingSphere, open platform, generator, web API, mds) | | none of their own | one call of a framework each | no |

`PROJECT.json` lists every component with its sources and the reason where it is
not modelled.

### How they interact

- A **ZooKeeper lock** object talks to the server through the handle of its JVM.
  The caller thread creates the catalog and queues an asynchronous create, then
  awaits a latch.  The one event thread of the JVM runs the callbacks of all its
  lock objects in turn: create stores `lockSeqName` and lists the children, the
  children callback either takes the lock (`setData`, count the latch down) or
  watches the node before its own, and the deletion of that node lists the
  children again.
- A **Redis lock** caller polls `SET key NX EX 50`; `unLock` deletes the key.
- In the **reactor**, `main` and every thread hand channels over by queue, then
  wakeup, and the thread that owns the queue takes one channel after each
  select.
- An **RPC** caller registers a future under its request id, writes the request
  to a pooled connection and waits; the server's event loop reads, hands the
  request to a task and writes a response, the client's event loop completes the
  future.  The **decoder** cuts the bytes into the messages of both directions.
- A request to **system parameters** is a transaction on the database and, in the
  middle of it, a write or delete in Redis, which knows nothing of transactions.
- A **page** gets its scripts from the parser (`index.html`) or from callbacks of
  `init.js`.  The script `manifest` defines the webpack runtime, `vendor` and `app`
  register with it, and the **router** that `app` starts asks it for the chunks of
  each view.
- A **tab** keeps the token of its login in a cookie and sends it with every
  request; before it first enters the main page the router asks for the menus of
  the user.  The **token row** of a user has the one token that the server accepts:
  a login on another device replaces it.

### What is hard here, and what correctness means

- *Lock by ephemeral nodes*: the children are read at one moment, the
  predecessor watched at a later one, and nodes disappear because of an unlock,
  a crash or an expired session.  Correct: exclusion, service in the order of
  the nodes, no waiter that is never told, no node left behind.
- *Lock with a time limit*: the key may expire or be deleted while its setter is
  inside.  Correct: exclusion and a holder that still has its key, for callers
  that are quick enough; polling ends.
- *Handover between threads*: coalescing wakeups, a counter that overflows, a
  boss thread that may already run while `main` configures it.  Correct: a
  channel is always with exactly one selector of the right group, and gets there.
- *Connection pool and callbacks*: double-checked creation, responses in any
  order, connections that break, interrupted callers.  Correct: an answer is the
  answer to the caller's own request, maps and pools do not grow, calls return.
- *Framing*: a stream cut anywhere.  Correct: every message once, in order, as
  soon as it is complete.
- *Two stores, one value*: a fill races an update, a commit fails after the copy
  was written, SET succeeds and EXPIRE does not.  Correct: the copy is the row,
  what is read was committed, a wrong copy does not stay for ever.
- *Loading by callbacks*: scripts need each other, anything may fail to load, a
  chunk's timer gives an attempt up and its script comes all the same.  Correct:
  scripts run in the order of need, the application starts once, every promise is
  settled and a loaded chunk stays loaded.
- *Sessions with stale state on both sides*: a row is read before it is written,
  a token is checked before the request that it lets through, menus outlive the
  login they were asked for, redirects meet guards that redirect.  Correct: a
  revoked token stays revoked, a tab shows the menus of its own user, nobody enters
  without a token, navigations end.

`PROJECT.json` "hazards" places each of these at its line, with the properties that
would catch it.

## 2. Modules

| module | models | extends |
|---|---|---|
| `TicketLock` | the abstract lock: draw a ticket, enter when it is the lowest, leave, and give up | |
| `LockZookeeper` | one action per request served, callback, return and fault | |
| `LockZookeeperProperties` | its properties, the inductive invariant and the refinement mapping | `LockZookeeper`, instantiates `TicketLock` |
| `LockZookeeperProofs` | nine theorems | `LockZookeeperProperties` |
| `LeaseLock` | the abstract lock with a lease: take, give back, abandon, run out | |
| `LockRedis`, `LockRedisProofs` | the Redis lock with a clock that ticks; four theorems | instantiates `LeaseLock` |
| `Handover` | abstractly, channels given to the threads of a group and closed | |
| `SelectorGroup`, `SelectorGroupProofs` | `main`, boss and worker threads, peers; six theorems | instantiates `Handover` |
| `RemoteCalls` | abstract remote calls: send once, execute at most once, return the own result or throw | |
| `RpcClient`, `RpcClientProofs` | both copies of the RPC client with their server; ten theorems | instantiates `RemoteCalls` |
| `MessageChannel` | an abstract channel of messages: arrive in order, deliver the next | |
| `FrameDecoder`, `FrameDecoderProofs` | both copies of the decoder over a stream of lengths; five theorems | instantiates `MessageChannel` |
| `ConfigCache`, `ConfigCacheProofs` | one parameter, several requests; four theorems | |
| `PageLoader` | the resources of a page: configuration, style sheets, scripts | |
| `ChunkLoader` | the webpack runtime and the views that are loaded by it | |
| `FrontEnd`, `FrontEndProofs` | a page and, once its application has started, its chunks; twelve theorems | `PageLoader`, `ChunkLoader` |
| `LoginTokens` | the token rows, concurrent logins and logouts, expiry | |
| `WebSession`, `WebSessionProofs` | the router of one tab over the tokens; six theorems | `LoginTokens` |
| `MC...` | model values, symmetry sets | the module of the name |

Operators called `Bad...` (and `NeverStates`) are faulty forms of the operator
after them; no specification uses them.  Each has been put in the place of the
right one to see a property of the runs fail.

### LockZookeeper

A client is one lock object used once.  Node names are sequence numbers.  A
request is two steps: `Serve...`, what the server does and answers, and
`...Callback`, what the event thread does with the answer; `EventThreadFree` keeps
the callbacks of one JVM apart from a callback inside a synchronous request.

| variable | code |
|---|---|
| `catalog`, `lastSeq`, `node`, `session` | the server |
| `call` | where the caller thread is in `tryLock` (46-72) or `unLock` (82-110) |
| `name`, `latch` | `lockSeqName`, `downLatch` |
| `cb`, `snap` | where the chain of callbacks is (112-175), the list of children it holds |
| `watch` | the node a deletion watch is set on |

`CatchNodeExists` chooses the copy: `LockZookeeper` handles NodeExists, `ZkLock` does
not and deletes without looking.  `tryLock` logs every exception and returns, so
`TryLockFails` lets the caller in; the interrupted, disconnected or expired caller
is a state of the model, not an error outside it.  Left out: the node data, the
wording of paths, the reconnection of a session (a lost connection is an
exception of a single request).

### LockRedis

`left` is the remaining life of the key and `Tick` the clock.  A caller inside for
`MaxHold` ticks stops the clock: `MaxHold` is the assumption on how long callers
stay.  `setter` is not known to the code, which stores a constant.  One object
calls `tryLock` or `tryAsyncLock` once.

### SelectorGroup

A thread is a group and an index.  `pc` separates select, the handling of each
selected key, the wakeup of another thread and the registration.  `target` is
the worker group of the boss group, `stg` the group a thread refers to, `to` the
thread chosen last.  Wakeups are a flag, since the Selector coalesces them.
`Increment` and `Remainder` are Java's on `-MaxInt - 1 .. MaxInt`; a negative index
is the exception that ends `main` or a boss thread.  `data` is what a read finds.
`client` is the client a thread is in `readHander` for.  The loop is "read" and "write":
a `Read` that finds bytes goes on to the echo, one that finds nothing or the end leaves.
`Echo` ends the write loop, which takes a peer that reads, or a write that throws.
`ReadThrows` is the exception of a reset connection, caught inside the loop, so that the
thread reads again.  `LoopStep`, the two together, keeps a thread from its other keys and
its queue.

### RpcClient and FrameDecoder

`copy` is chosen in the initial state: the package `rpcdemo` (its RPC branch; at
this commit a constant in `ClientFactory.transport` chooses HTTP) or
`Multiplex04RPC`.  They differ in `getClient` (a lock per slot and a double check
of the pool, or one monitor), in the local call and in the removal of callbacks.
A caller is one thread, `req` its request and also its request id, since ids are
random UUIDs.  `toServer`, `tasks` and `toClient` are the stages of a message on a
connection, each in order.  Values of results are "the result of this request".
In `FrameDecoder` the stream is the list of the positions where messages start;
bytes have no content.

### ConfigCache

`db` is the committed row, `lock` the thread whose transaction has written it, and
`held` the row it has written or read.  `cache` maps every key to a copy, `mortal`
is the set of keys with an expiry time, because `RedisUtils.set` is SET and then
EXPIRE.  Each Redis command and each commit is a step of its own.  The isolation
is the database's default: others read what is committed, a second writer waits
for the row.  `calm` is a history variable: no request has overlapped a writer (reads
may overlap reads), no update has renamed the parameter or met a missing row, and
no commit has failed or request died.  The two properties that relate the stores
are claimed of calm histories, in a model where every other history is there as
well.

### PageLoader, ChunkLoader and FrontEnd

`Pages` chooses `index.html`, whose three script tags the parser takes in turn, or a
page that runs `init.js`.  `next` is the `i` of `createScripts` (or the parser's place),
`styled` that of `createStyles`, `link` and `loading` what is on its way.  `opacity`,
`ready` (`document.readyState`) and `handler` (`document.onreadystatechange`) are the
document's.  The lists of resources are constants, `Needs` is what each script needs
to have run; a script without it throws (`threw`) and its `onload` comes all the same.
The four files `config/index*.js` differ in an address: `LoadConfig` stands for any of
them.  `init.js` is loaded after the configuration and while the document is parsed.

A chunk has a number of attempts.  `installed` is `installedChunks`: nothing, 0, or the
current attempt; `live` are the attempts whose timer runs, which is also when their
`onload` and `onerror` are set; `fetching` those whose script has neither run nor
failed, given up or not.  `webpackJsonp` resolves the promise of the current attempt,
whichever script calls it.  A view is requested again only after a failure.  The
views of the instance are one of each kind that matters: two that share a chunk, and
a menu whose page the bundle does not have.  The two state machines meet in
`boots`: chunks are asked for by the application, which the page starts.

### LoginTokens and WebSession

A thread of the server carries at most one login or logout: `CreateToken` reads the
row and `Save` writes it, `Logout` is the filter with the realm and `ReplaceToken` the
update.  Tokens are numbered in the order they are generated (`owner` remembers for
whom), `revoked` is the history of tokens that were accepted and are not any more.

`tab` has what the scripts of a tab read and write.  A callback of JavaScript runs to
its end, so each is an operator that takes the tab to the tab after it
(`ClearLoginInfo`, `BeforeEnter`, `WithAnswer`, ...), and an action is a callback: a move
of the user, the answer to a login or logout, the answer to a request for the menus,
a view that has loaded.  vue-router confirms only the navigation that is still
pending; a request for the menus of an abandoned navigation is `stale`, and its answer
still changes the stored menus and may navigate.  The login page and the bar with the
logout button are chunks that the repository does not have: their actions are
external and do what the rest of the code needs of them.  `orderly` is a history
variable: since the page was opened the user has logged out before logging in, and no
menus were on their way when a login or logout was answered.

## 3. Runs

Liveness runs use the fairness of section 4.

| run | question | bounds and why they are enough |
|---|---|---|
| `ZkHealthy` | without faults: exclusion, refinement of `TicketLock` and with it the order, nobody waits for ever, no node left | 3 callers, two in one JVM: a holder, its waiter and a waiter behind a waiter, with and without a shared event thread |
| `ZkFaults` | under all faults, any number of them: the chain of callbacks keeps its program order and a watch is never on a node that is gone | 3 callers in 3 JVMs, the `ZkLock` copy, which has all steps of the other and one more |
| `ZkWaiterDies` | *violated*: the holder owns the first node | 3 callers, crashes |
| `RedisTimely` | exclusion, refinement of `LeaseLock`, polling, with crashes and lost replies | 3 callers, key of 3 ticks, stays up to 2, the longest that is safe |
| `ReactorFaults` | one selector per channel, refinement of `Handover` (given once, in its group), no client dropped, index in range | 3 servers on 2 boss threads (one has two), 3 clients on 2 workers, peers that reset, `MaxInt` = 2: the first two binds and, apart from them, the first two accepts must find a thread; the third of each overflows its counter and may end `main` or the boss thread, so both sides of both bounds are met |
| `ReactorChatty` | clients get registered and read | 1 server, 3 clients on one worker, peers that close: two wait in its queue while it is in `readHander` for the third, and its loop is left in both ways |
| `RpcCalls` | answers find their callbacks; calls return | 2 callers, 2 calls each on one slot, both copies, interrupts: connections are shared and reused |
| `RpcBroken` | refinement of `RemoteCalls` (right answers, nothing executed twice), no callback left, no stray connection, bounded pool | the same with connections that break or are refused, and every kind of call |
| `DecoderStream` | both decoders: refinement of `MessageChannel` (only what has arrived, nothing twice or out of order); rpcdemo's: always between messages, everything decoded | 3 messages, header 3, bodies 1 to 4 (shorter and longer than the header), every cut |
| `ConfigRequests` | only a lost EXPIRE makes a copy immortal; in calm histories the copy is the row and `getValue` returns committed values | 2 threads at a time, 2 keys, 2 writes, all operations with renames and updates of deleted rows, all faults, expiry at any moment |
| `FrontEnd` | the order of scripts, started once, the page appears, promises settled, loaded chunks stay loaded, views end | the real lists of `index.html` and `init.js`, one style sheet (as in the code), 2 chunks with 2 attempts each, 3 views: an attempt that is given up meets its successor, and a shared chunk is in each state when the second view asks |
| `Session` | revoked tokens, logouts, own menus, guarded entry, pages appear | 2 users, the tab and another device, 3 tokens (a login, one elsewhere, a logout), 2 requests for the menus at a time, 4 moves of the user: log in, log out, log in as somebody else, and one more |

`CHECK_DEADLOCK FALSE`: in every model the system comes to rest when all calls are
made, all clients are served or the stream is decoded, and may stop when
everybody has crashed.  Symmetry is used in safety runs only.

Each run checks the properties that say most.  Those that say less, or follow from
another, are proved for all instances instead (section 5): type invariants,
`OnlyFirstNodeHolds` without faults, `HealthyInv`, `HolderHasKey`, `NothingLeft`,
`OneAttempt`, `HiddenUntilStyled`, and `RightAnswer`, `RolesSeparate` and `InOrder`, which
the refinements imply.  So are the invariants that the liveness properties of the runs
rest on: `QueueGoesOn`, `LocksMove`, `AnswersComing`, `NeverStuck`, `PageGoesOn`,
`RestsStarted`, `ViewsGoOn` and `NavigationGoesOn`.  The properties and what they mean are at their
definitions.  Some deserve a word.  `OnlyFirstNodeHolds` is stronger than exclusion, and is what fails first
when a waiter dies.  `EntriesExpire` is an action property: whichever thread
overwrites or deletes whose copy, no step except the loss of an EXPIRE leaves a
copy that lives for ever.  `NoStrayConnection` relates connections, slots and the
local variables of callers: the second test in `getClient` is what keeps it.
`NoOrphan` says why `ViewsEnd` holds: whoever comes late, the promise that is waited for
is the one that the next event will settle.  `PageShown` depends on the order of the
redirects of `beforeEach`, `beforeEnter` and of the failure of the menus request.

### Findings

- `ZkWaiterDies`: `LockZookeeper.java:151` takes the lock when the predecessor is
  gone at `exists`, without listing the children again.  A waiter between holder
  and caller that dies makes both hold the lock, which contradicts line 22 of the
  same file.

### Known limits

The properties of the passing runs have preconditions, and each of them is
needed.  Changing one constant, or taking the precondition out of the property, shows
it:

| run, change | what fails | why |
|---|---|---|
| `ZkHealthy`, `Faults = {"interrupt"}` | `MutualExclusion`, `AwaitEnds` | `tryLock` logs the exception and returns (`LockZookeeper.java:66`); `unLock` with a null name deletes nothing (:91) |
| `ZkHealthy`, `CatchNodeExists = FALSE` | `MutualExclusion` | two first users create the catalog (`ZkLock.java:78`); those whose latch opened still exclude each other (theorem `LatchExcludes`) |
| `RedisTimely`, `MaxHold = 3` | `MutualExclusion` | the key expires under its holder (`LockRedis.java:30`) |
| `RedisTimely`, `RefusedUnlocks = TRUE` | `MutualExclusion` | `unLock` deletes anybody's key (`LockRedis.java:64`) |
| `ReactorChatty`, `SPECIFICATION QuietSpec` | `AcceptedGetRegistered` | one channel is taken per select (`SelectorThread.java:78`), so a second one waits for traffic |
| `ReactorChatty`, `SPECIFICATION StreamSpec` | `AcceptedGetRegistered`, `SentIsRead` | `readHander` loops until a read finds nothing (`SelectorThread.java:115`): a peer that always has sent more by then keeps the thread from its queue and its other clients |
| `ReactorFaults`, `IndexInRange` with `MaxInt + 1` for `MaxInt` | the index | `%` of a negative counter (`SelectorThreadGroup.java:89`) |
| `RpcCalls`, `Faults = {"close"}` | `CallsEnd` | nothing completes the future of a broken connection (`Multiplex04RPC.java:180`) |
| `RpcCalls`, `Kinds = {"unregistered"}` | `CallsEnd` | a service the server lacks is an exception outside its `try` (`ServerRequestHandler.java:49`) |
| `RpcBroken`, `Faults = {"interrupt"}` | `NoStrayConnection`, `CallbacksRemoved`, `PoolBounded` | an interrupt in `create` is caught and null is stored (`ClientFactory.java:226`) while the connection may still be made; a caller that gives up leaves its callback in the map |
| `RpcBroken`, `PoolBounded` of rpcdemo | the pool | the second test of `getClient` looks at a local variable (`ClientFactory.java:176`) |
| `DecoderStream`, `BetweenMessages` instead of `Framed` | the reader of `Multiplex04RPC` | the length of the body is compared with bytes that include the header (`Multiplex04RPC.java:289`), so a message whose body is cut leaves the reader inside it; the comment at line 272 says that the sticking and splitting of packets is solved |
| `ConfigRequests`, `CacheAgrees` without `calm` | the copy in Redis | `getValue` fills the cache with a row read before somebody's commit (`SysConfigServiceImpl.java:78`), a rename leaves the copy under the old name (:53), an aborted commit the new copy (:52) |
| `ConfigRequests`, `ReturnedIsReal` without `calm` | `getValue` | Redis is written before the commit, which may fail |
| `FrontEnd`, `Appears` without `failed` | the page | a style sheet that fails has no `onerror`: the opacity stays 0 (`init.js:46`) |
| `FrontEnd`, `Starts` without `failed` | the application | a script that fails has no `onerror`: none is added after it (`init.js:67`) |
| `Session`, `MenusAreOwn` without `orderly` | the menus | logging in without logging out keeps `isAddDynamicMenuRoutes` and with it the menus of the former user; menus that arrive after a logout set it again |
| `Session`, `EnteredLoggedIn` for `current = "login"` as well | `main` | `beforeEnter` has no return after `next({name: 'login'})`; on the login page that navigation is none, and the `next()` after it enters |

And some are beyond the models:

- `static/config/init.js` works while the document is parsed: run later, it never
  adds a script, because `readyState` does not become "interactive" again.  In this
  repository nothing includes it, and the files it adds are not there.
- A module that threw while it was first evaluated stays in webpack's cache and is
  returned half-made the next time.
- A refused token is answered with code 1 (`OAuth2Filter.java:57`, `:76`) although the
  comment at line 50 says 401, and the front end clears its login on 401 only: it
  keeps the cookie, is refused again, and cannot log out with it either.  The model
  has these answers; no property of the runs is about them.
- Routes made of the menus of a former user stay registered until the page is loaded
  again, and the tabs of one browser share a cookie.

## 4. Fairness

- `LockZookeeper!Fairness`: the caller thread, the chain of an object (server and
  event thread) and the release are weakly fair, so is the end of a request that
  can only fail, and a crashed JVM loses its session.  ZooKeeper answers or fails
  every request and the event thread is never blocked for ever; nobody has to
  call `tryLock`, and no fault has to happen.
- `LockRedis!FairSpec`: time passes, the loop of `tryLock` goes on, and a caller
  inside that has not crashed unlocks.
- `SelectorGroup!FairThreads`: threads run.  `StreamSpec` adds that every connected
  peer sends again and takes what is echoed, and `ChattySpec` that no peer is for ever
  faster: a thread that gets to an echo, or to a read, again and again with nothing new
  from its client makes that step some time (strong fairness of `Echo` and `Read` while
  `CaughtUp`).  These are assumptions on peers and on the speed of threads, not promises
  of the code: the table above says what fails without them, and a peer that never takes
  its echo keeps the thread in the write loop.
- `RpcClient!FairSpec`: callers and event loops run.
- `FrameDecoder!FairSpec`: the stream arrives and is decoded.
- `FrontEnd!FairFrontSpec`: what a page requests arrives or fails and the parser goes
  on; promises run their callbacks; an attempt at a chunk has a timer of 120 s, so
  that its script, an error or the timer comes.
- `WebSession!FairWebSpec`: a request for the menus is answered or runs into its
  timeout of 30 s, answers are taken in, views load.  The user, the other devices and
  the logins need not do anything.

## 5. Proofs

All are checked by TLAPS for every value of the constants allowed by the named
assumptions.

| theorem | says | argument |
|---|---|---|
| `LockZookeeperProofs!TypeCorrect` | `TypeOK` under all faults | one lemma for `Types`, one for `ProgramOrder`, one step per action |
| `WakeupsNotLost` | `NoLostWakeup` under all faults | inductive with `TypeOK` and `NotYetCreated`: a node is created once, so a watched number is never given out again, and every deletion clears its watches |
| `LocksExclude` | without faults, with NodeExists handled: exclusion, and the holder owns the first node | from `HealthyInv` |
| `LatchExcludes` | without faults, both copies: callers whose latch was opened exclude each other | from `HealthyInv` |
| `RefinesTicketLock` | without faults, with NodeExists handled: `Spec` implements `TicketLock!TSpec` | `Ticket` is the node until `unLock` starts; each step is Draw, Enter, Leave or a stutter |
| `HoldersAreFirst`, `HealthyStays`, `NothingLeftBehind` | `OnlyFirstNodeHolds`, `HealthyInv`, `ClosedLeavesNoNode` without faults (`HealthyInv` for both copies) | `HealthyInv` is inductive and implies the others |
| `QueuesGoOn` | `QueueGoesOn`: without faults, both copies, some object can go on while a caller waits | `NoLostWakeup`: a watched node is an earlier one that exists, so the first of the queue watches none; a least element exists (`WFMin`); a callback kept from its event thread is kept by a request that can be served |
| `LockRedisProofs!TypeCorrect` | `TypeOK` whatever callers do | one step per action |
| `TimelyExclusion`, `HolderKeepsKey` | exclusion, and the holder's key, when `MaxHold < TTL` and refused callers do not unlock, with crashes and lost replies | `HolderHasKey` is inductive with `NotYetHeld`: the key's remaining life and the time inside add up to the TTL at least |
| `RefinesLeaseLock` | for such callers `Spec` implements `LeaseLock!LSpec` | `Lease`: the owner is the setter of a key that lives, inside are those who were told; `HolderHasKey` makes every unlock the owner's, and a tick that ends the key finds nobody inside |
| `FrameDecoderProofs!TypeCorrect`, `DeliveredInOrder`, `DecoderFrames`, `NothingKeptBack` | `TypeOK`, `InOrder`, `Framed`, `NothingLeft` | the lengths of messages are positive, so the reader is at the start of message `Len(out) + 1`; no header length or number of messages is fixed |
| `RefinesMessageChannel` | `Spec` implements `MessageChannel!CSpec`, both copies | `Channel`: arrived are the messages whose end has been received; a decoder that delivers is at the start of message `Len(out) + 1` and has all its bytes |
| `SelectorGroupProofs!TypeCorrect` | `TypeOK`; counters stay ints although they overflow | the chosen index is a thread of the group or the step is the end of its thread (`ChosenIsThread`, from `IncrementInRange` and `RemainderIsIndex`) |
| `ChannelsNotShared`, `RolesKept` | `OneSelector`, `RolesSeparate` | from `PlacesInv` |
| `ClientsNotDropped` | `NoClientDropped` | inductive together with `PlacesInv`, as long as no thread is dead; a dead thread stays dead |
| `IndexStaysInRange` | `IndexInRange`, for finitely many clients | `Told`: what a boss thread has registered comes after `setWorker`, since only the wakeup after it lets the thread go on, so an accept uses the counter of the worker group; `CountInv`: up to `MaxInt` the counters are the numbers of binds and of accepts |
| `RefinesHandover` | `Spec` implements `Handover!HSpec`, with all faults and overflows | `Shared`: given are the channels queued or registered; `PlacesInv` says that what is fresh is nowhere, and each step moves one channel, within a thread or out of the fresh ones |
| `RpcClientProofs!TypeCorrect` | `TypeOK` of both copies under all faults, for finitely many callers | `TypeInv`: who is in `getClient` has a pool, who is in a call counts it among those made, and the connections made and the calls that may yet make one (`Budget`) are no more than all calls |
| `AnswersRight` | `RightAnswer`, both copies, all faults | a response carries what its request's method returned (`ValuesRight`), and completes the future of its own id only |
| `ResponsesExpected` | `AnswersExpected`, both copies, all faults | `UnderWay`, below |
| `ConnectionsKept` | `NoStrayConnection`, when no caller is interrupted | `LockOwned`: who connects has the lock of its slot, and the slot names a broken connection |
| `CallbacksForgotten` | `CallbacksRemoved`, when no caller is interrupted | with `ChanKnown`: `getClient` never returns null, so no write throws after its callback is registered |
| `PoolHolds` | `PoolBounded`, when no caller is interrupted | `OnePool`: the monitor lets one caller make the pool; then open connections map one to one into the slots (`SlotsSuffice`) |
| `LockOwnersMove` | `LocksMove`, both copies, all faults | inductive with `TypeInv`: a lock is taken just before connecting and given back with the store or the refused connection |
| `WaitersAnswered`, `NoDeadlock` | `AnswersComing`, `NeverStuck`, while connections stay up and services are registered (`Undisturbed`) | connections that are used stay open (`Steady`), each step moves a request to the next stage; whoever is kept out waits for an owner that, by `LocksMove`, waits for nobody |
| `RefinesRemoteCalls` | `Spec` implements `RemoteCalls!RSpec`, both copies, all faults | `Remote`: sent are the requests and tasks on all connections, results the responses; since each is in one place (`Once`), executing one uses it up |
| `ConfigCacheProofs!TypeCorrect` | `TypeOK` under all faults | `Inv` adds that a thread which writes holds a row and that values are taken in order |
| `CopiesExpire` | `EntriesExpire` | step by step: no step but a failed EXPIRE leaves a copy that lives for ever (`OnlyAbortMakesImmortal`) |
| `CopiesAgree`, `ReturnedCommitted` | `CacheAgrees`, `ReturnedIsReal` | `CalmInv`: in a calm history at most one thread is writing, and how far it has come says how the copies and the row differ |
| `FrontEndProofs!ChunkTypes`, `PromisesNotOrphaned`, `AttemptsShared`, `ModulesThere`, `ChunksStayLoaded` | `ChunkTypeOK`, `NoOrphan`, `OneAttempt`, `NothingMissing`, `StaysLoaded` | from `ChunkInv`, below |
| `PagesTyped`, `PagesHidden` | `PageTypeOK`, `HiddenUntilStyled`, for any number of style sheets and scripts | from `PageInv`: which of `ready`, `handler`, `link` and `loading` go together (`Stages`) |
| `NeedsInOrder` | `InOrderOfNeed`, if the lists are in the order of need (`InOrder`) | `RanBefore`: without failures every script before `next` has run |
| `StartedAtMostOnce` | `StartedOnce`, if the lists have the application once (`Once`) | `StartedBefore`: once the application has started, it is before `next` in the list |
| `PagesGoOn`, `PagesRestStarted` | `PageGoesOn` for any lists, `RestsStarted` if the lists have the application once, after what it needs | `TagsTaken`, and `Visible` and `Reached`: what hides the page shows it again, and where the lists have got to says what has run |
| `ViewsNotStuck` | `ViewsGoOn` | `ChunkInv` with `WaitsTried`: what a view waits for was tried, so by `NoOrphan` it is settled or live |
| `WebSessionProofs!TypeCorrect`, `TokensStayRevoked`, `LogoutsRevoke` | `WebTypeOK`, `RevokedStaysRevoked`, `LogoutRevokes` | `TokenInv`: a revoked token is in no row or in one that has expired (`RevokedGone`), a thread that logs in has a token of its own that is nowhere else (`OwnToken`) |
| `MenusStayOwn`, `MainGuarded` | `MenusAreOwn`, `EnteredLoggedIn` | `TabInv`: a navigation from "start" to main whose view loads has a cookie (`Guarded`); in an orderly history the requests under way are for the owner of the cookie (`Own`) |

Exclusion of the ZooKeeper lock is not inductive.  What has to be added is
`HealthyInv`: how far an object's chain has come determines what its caller, its
name and its node are (`Progress`); nodes go in the order they came (`NoGaps`); a
list that was read still contains everything queued before its reader
(`ListCurrent`); and whoever may open its latch is first (`GrantedIsFirst`).  With
a crash `NoGaps` is false, which is exactly `ZkWaiterDies`.

That a channel is with one thread is not inductive either: accepting a client or
binding a server adds a channel to a queue, and it must not be anywhere yet.
`PlacesInv` says so: a server not yet bound is with no thread (`Unbound`), a client
not there or not accepted is with no thread and waits at one server at most
(`Waiting`), and `main` has made the worker group the target of the boss group
before it binds (`Started`), so that clients never go to a boss thread.

That a response finds its callback needs three facts about the requests on the
connections (`UnderWay`): each is in one place, as a request, a task or a response
(`Once`), belongs to a call whose caller has written it (`Sent`), and is in the map of
callbacks (`Expected`).  Without `Once` the first of two responses would take away
the callback of the second; without `Sent` a response could take away that of a
request about to be written.  Which step puts a request where is said once, by
`Moves`, and `OnceKept` is proved for every such step.

For the chunks, `NoOrphan` needs the rest of `ChunkInv`: the number in
`installedChunks` is that of the last attempt made and is not settled (`Current`), a
timer runs for the last attempt, which is current or whose chunk is loaded (`Timers`),
what is settled was tried (`SettledTried`), who says that a chunk is loaded has its
modules (`Registered`), and a waiting view waits for all of its chunks that are not
loaded (`WaitsForAll`).

The theorems about the page assume the lists to be what `InOrder` and `Once` say; TLC
evaluates both for the lists of the code (`ListsAsAssumed` in `MCFrontEnd`).

What a liveness property needs besides progress is proved, for every instance, as an
invariant that somebody can go on: `QueueGoesOn` for `AwaitEnds`, `NothingLeft` for
`AllDecoded`, `NoClientDropped` for `AcceptedGetRegistered`, `NeverStuck` with `LocksMove`
and `AnswersComing` for `CallsEnd`, `PageGoesOn` with `RestsStarted` for `Starts` and
`Appears`, `ViewsGoOn` for `ViewsEnd`, `NavigationGoesOn` for `PageShown`.  That nothing is
stuck does not yet mean that it ends: the step to the liveness, under fairness, is what
TLC checks on the instances of the runs.

Model-checked only: all liveness (`AwaitEnds`, `PollingEnds`, `AllDecoded`,
`AcceptedGetRegistered`, `SentIsRead`, `CallsEnd`, `Starts`, `Appears`, `ViewsEnd`,
`PageShown`) and the enabledness it rests on, which are out of the prover's reach, as
is induction over data and with it what recursive definitions compute.

## 6. Not modelled

- The HTTP transports of rpcdemo: each request has its own connection and event
  loop group, and nothing is shared by two calls.
- Event loop groups that `create` leaves behind when a connection breaks.
- The contents echoed by the reactor; the partial writes of an echo are one `Echo`.
- `queryPage` and `getConfigObject` of the parameters, which change nothing.
- The checks of a login before `createToken`: captcha, password, locked account.  A
  captcha can pass two logins that read it at the same time
  (`SysCaptchaServiceImpl.java:51`); nothing says that it must not.
- Roles and menus: an update of a role or user first updates its row and so waits for
  others of the same row; relations to a role or menu that is deleted meanwhile
  remain, since the tables have no foreign keys.
- The views of the front end, whose chunks are not in the repository, and vendored
  code apart from the parts of vue-router that the router's guards run in.
- Demonstrations of threads, exercises and samples: everything marked "no" in the
  table of components.

## 7. What is left

1. Captchas and account locks in `LoginTokens`, several tabs in `WebSession`, and chunk
   faults of views in the composition of both.
2. Roles, users and menus: relation tables under concurrent deletes.
3. The demonstrations with two threads that have a purpose of their own: turns by
   park and notify, the monitor of the lock module.
4. Abstract specifications of the tokens (one session per user, revoked for good), of the
   promises of the chunk loader and of the parameter with its copies in calm histories,
   and the refinements to them.
