# Verification of edgerouter

edgerouter is an HTTP load balancer: it discovers applications, routes each
request to the backend of the most specific matching frontend, and can serve an
application's static files by itself ("turbocharger"). This directory holds TLA+
models of its parts, the TLC configurations that check them on small instances,
and proofs checked by TLAPS. Line numbers refer to the files under `pkg/` and
`cmd/` of the repository.

Contents: [the system](#the-system) ·
[modules](#modules-and-how-they-correspond-to-the-code) ·
[runs](#runs-bounds-and-results) · [fairness](#fairness) ·
[disagreements](#where-code-and-comments-disagree) · [proofs](#proofs) ·
[not modelled](#not-modelled) · [plan](#plan) · [conventions](#conventions)

## The system

| Component | State it keeps | Operations | Hard behaviour |
|---|---|---|---|
| **MutexMap** `syncutil/mutexmap.go` | map key → channel, master mutex | `Lock`, `TryLock`, the returned unlock | channel read inside the mutex and received from outside it; unlock by key |
| **ManifestHandler, manifests** `turbocharger/manifesthandler.go:307-386` | RAM map, local disk cache, named lock | `resolveManifest` | concurrent misses, retry after waiting, errors on every step, restarts |
| **ManifestHandler, files** `manifesthandler.go:112-304`, `store-localfs.go` | gzip cache, plain cache, named lock, pipe and goroutine per hydration | `serveFromCache`, hydrate | second hydration, two goroutines joined by a pipe, one of which fails |
| **Turbocharger middleware** `turbocharger/middleware.go` | one `atomic.Value` with the discovery result; per result a validity channel and a `sync.Once` ping | `ServeHTTP`, advertisement check, ping check, attach, detach | load/store races between requests and pings; rolling deploys; typed nil; headers that do not parse |
| **Turbocharger deploy** `turbocharger/deployment.go`, `syncutil/concurrently.go` | manifest under construction, remote store | submit, workers, store manifest | workers append in any order; failure, kill and repetition |
| **Turbocharger command line** `turbocharger/turbochargerapp`, `turbochargerdeploy/cli.go` | a tar stream, a directory | export, deploy from tar, download | streams cut off anywhere, archives made by another tar, repeated downloads |
| **Application configuration** `erconfig/appconfig.go`, `erserver/backendfactory.go` | none | `Validate`, make a backend | what validation lets through and the factory does not |
| **Configuration sync** `erserver/schedulersyncer.go`, `serve.go`, `backendfactory.go`, `manifesthandler-singleton.go` | backend cache, the ManifestHandler singleton, channel of capacity 1, current config | tick, read, build, send or drop, receive, store | stale configs, one bad application, nobody receiving, a panic |
| **Server start and shutdown** `erserver/serve.go`, `utils.go` | listeners, tasks, requests in flight | `Serve`, `cancelableServer` | a task or listener that fails, graceful shutdown, restart |
| **Routing, IP filter** `erserver/serve.go`, `mountresolver.go`, `ipfilter.go` | the sorted mounts of the current config | `resolveMount`, scheme check, IP rules, strip prefix | order of prefixes, trailing slashes, overlapping rules |
| **Backends** `erbackend/*` | the S3 website's page for what is not found | auth, redirect, reverse proxy, S3 website, Lambda, turbocharger | guards nested around upstreams, paths rewritten twice, failing upstreams |
| **S3 website deploy** `erbackend/statics3websitebackend/deploy.go` | two channels, uploaded objects, the application's deployed version | read archive, upload workers, activate | failure of workers at any moment, full channels |
| **Application registry** `erdiscovery/ehdiscovery`, `erdomain`, `cmd/edgerouter/discovery.go` | event log; per router a cursor and its applications | `new`, edit, deploy, delete; replay | two operators, routers that restart and read in batches |
| **S3 discovery, multiDiscovery** `erdiscovery/s3discovery`, `multidiscovery.go` | the last read, filed under the hash of its list | list, get, merge | list and objects read one after the other; one reader fails |
| **Docker discovery** `erdiscovery/dockerdiscovery` | none between reads | four or five calls to Docker; labels to applications | things come and go between the calls; what is both a task and a container |
| Certificates, installation, admin UI, metrics, logging | files, counters | report | none |

How they interact:

```
 Docker, Swarm --(calls)----> DockerDiscovery --+
 bucket --(list, get)-------> S3Discovery ------+- ReadApplications -> ConfigSync, in a Server
 operators --(events)-------> AppRegistry ------+                         | currentConfig
     |                                                                    v
     +-- S3Deploy  (activates a version with an event)                 Routing
     |                                                                    v
     +-- TurboSite --objects--> remote store --GetObject--+     Backends / Middleware
                                                          v               |
                                    ManifestResolve --manifest--> FileHydration
                                              \_____ MutexMap _____/
```

* `Serve` is the only writer of the configuration that requests load; the sync
  goroutine hands configurations to it through a channel and drops one when the
  channel is full. A task that ends, or a signal, cancels all the others.
* A request is routed with the configuration that it loaded, checked for scheme
  and address, and handed to a chain of handlers: guards first, then one backend.
* The Middleware wraps an origin application. What it discovers is a pointer to
  a manifest; the ManifestHandler, shared by the process, answers for it.
* Both paths of the ManifestHandler use one `MutexMap` each, so what they rely
  on is what `KeyedLock` states and `MutexMap` is shown to implement.
* A deploy writes objects first and a pointer to them last; everything a router
  does afterwards assumes that the pointer's objects are complete.

What makes each component correct: MutexMap excludes, wakes whoever it put to
wait and closes each channel once. One goroutine produces a manifest or hydrates
a content, no queue behind it waits for ever, and a cached thing is not fetched
again. The middleware never keeps serving from a result nothing will check
again. Requests see a whole configuration, newer ones after older ones, and an
ending server cuts none of them off. The most specific frontend answers, and no
upstream is asked what rules, scheme or token forbid. A pointer to a version is
published only when the version is complete. Routers converge to what the log
says. A read of Docker has what was there all through it, nothing that never was,
and nothing open that its labels close; a read of the bucket comes to return what the bucket lists.

## Modules and how they correspond to the code

Every definition that stands for code is in the `map` of `PROJECT.json` with its
file and lines.

**KeyedLock** – the promise of `MutexMap`, as its callers use it: a set `held` of
pairs ⟨goroutine, key⟩; a key is acquired only when nobody holds it. It abstracts
`Lock`, `TryLock` and unlock to one step each. `ManifestResolve` and
`FileHydration` INSTANCE it for their locks.

**MutexMap** – `mutexmap.go` step by step. `masterMu` is the goroutine inside
that mutex, `locks` the map's entry per key, `closed` the closed channels. One
call is `Call`, `EnterMaster` (lock `masterMu`), then `Reserve` (insert an entry), `Refuse`
(`TryLock` on a taken key) or `Queue` (remember the entry's channel and leave the
mutex), then `Wake` when that channel is closed, and start over. An unlock is
`CallUnlock`, `EnterUnlock`, `DeleteEntry`, `CloseChan`. Channels are tokens that
are used again once nobody refers to them, so the state space is finite while
calls go on for ever. The refinement mapping to `KeyedLock` calls a key held from
the moment its entry is in the map until it is deleted.

**ManifestResolve** – `resolveManifest`. `at` is the place of each request:
`start` (RAM and `TryLock` in one critical section of `cachedManifestsMu`),
`queue` (in `Lock()`), `through` (got it, about to unlock and retry), `disk`,
`origin`, `insert`, `decode`, `store`, `release`/`fail`. `ram`, `disk` are the
caches. Every error path is an action: unreadable disk object (`DiskFault`),
origin error, failed insert, object that cannot be decoded (`Broken`, also when it
is read from disk). `Restart` ends the process at any time; the disk stays.
`fetches` and `excused` are history variables that properties use: how often the
origin delivered a manifest, and which manifests a fault or crash kept from disk.

**FileHydration** – `ServeHTTP` from the manifest entry on: two looks at two
caches (`gzip1`, `plain1`, then `gzip2`, `plain2`), the lock of the content, and
the hydration. For content that compresses well, `writer` is the gzip goroutine
and its pipe: `reading` from the origin, `writing` a piece that InsertObject has
to take, `closed` or `broken`. `AlreadyThere` is `InsertObject`'s early return for
an object that exists, which reads nothing. `faulted` is a history variable: nothing
has failed yet, a cache could not be read, or something else failed.

**Middleware** – a discovery result is a heap object, one of the tokens `Trees`
with its subtree, expiry and ping state; garbage is used again. `discovered`
is the `atomic.Value` with its three kinds of content: never stored, typed nil, a
result. Requests come in slots: a slot at `new` takes one request after the
other. A request loads the value (`LoadTurbocharged`/`LoadOrigin`), then checks
validity, or gets the origin's response and checks its header against a *second*
load, then stores by a step of its own. The header can be missing, lack the
manifest's ID or lack its space; the panics that this and a typed nil lead to
are recovered in a request (`NilAdvertisement`, `Recover`) and end the
process in the goroutine of a ping (`PingPanics`). `Deploy` changes which
versions the replicas run, several at a time.

**TurboDeploy** – a tar archive, a sequence of entries of directories, of files
and of the end, which is missing or cut off in a stream that broke. The submitter
reads it (`nextFile`) and offers files to a channel, `n` workers insert and
append, the first error cancels, and the manifest is sorted and inserted.

**TurboSite** extends it by what makes the archive and what uses the manifest:
`static-files-export` walks directories and writes entries, `tar-deploy-to-store`
reads them or an archive of another tar (`Foreign`: with a leading "./", in
another order), `download-from-store` writes a manifest's files into a directory,
also on top of what a failed attempt has left. `Again` kills whatever runs and
starts over against the same store.

**AppConfig** – operators, without state: what `Application.Validate()` says of an
application, and what the factory makes of it. A backend is the sequence of the
backends nested in it, since authenticating ones hold what they guard. Options
are told apart as far as the code does: nil, blank, refused, or any other.

**ConfigSync** extends it by `scheduledSync`, `syncAppsFromDiscovery`,
`makeBackend`, the singleton of the ManifestHandler and the loop of `Serve`.
`cache` has, for each application, what its handler was made from. Reading,
building one application, sending or dropping, receiving and storing are steps
of their own; `Change` alters what is discovered between any of them. A factory
that panics ends the process (`BuildPanics`), in the first sync, which `Serve`
makes itself, or in a later one.

**Server** extends it by the process: `Serve`'s early exits, its tasks, signals,
the listeners, and `systemd`, which starts a process again. A listener is two
goroutines of `cancelableServer`: the one in `ListenAndServe()` and the one that
calls `Shutdown()`; `open` counts its requests in flight. `certbus` is the task
that keeps certificates. The tasks' cancellation by the first that ends is
`CancelOthers`.

**Routing** – `appConfigToHandlersAndMatchers`, `resolveMount`, `serveRequest`,
`ipfilter`. Mounts are inserted in any order, sorted by the code's comparison
(`sort.Slice` is not stable, so every order that it allows is a behaviour), and a
request goes through resolve, scheme, IP rules and stripping. Paths are sequences
of single-character strings, because prefix matching and slicing by length are
what can go wrong. A host can be one that does not parse (`Malformed`).

**Backends** extends it by what happens then: the handlers of the mount's
application, `chain`, serve one after the other. `auth_v0` checks and removes the
header; what token it is configured with is not restricted, as the factory does not
restrict it, and `NoToken`, the empty one, is what headers of other schemes give.
`auth_sso` lets through or sends to the login (its mux redirects a path with two
slashes first). The last one asks its upstream (`asked`: host, path, header, query) and makes an answer of the
upstream's (`up`): a reverse proxy, the S3 website (which is a reverse proxy with
options of its own, and a page for what is not found), a Lambda in both models, or
turbocharged content in a manifest. An answer is `whole` or has been cut short:
`FileFails` has both ways in which sending a file fails, before the status is written
and while the body is copied. `BackendSpec` is one request from the
listener to its answer.

**S3Deploy** – the main goroutine (reads the archive, sends to the channel or
sees an error in `workError`, sends the deployment spec last, closes, waits,
activates) and the upload workers. Both channels have room for as many items as
there are workers.

**AppRegistry** – the event log, the commands of the command line tools (`PutNew`,
`Put`, `Make`, `Delete`, `Deploy`: each reads, checks and makes its event in one
step, as it decides on what it has read, and appends in another), and routers that
replay the log from a cursor in batches and restart from nothing. `Unknown` is an
event of a type that a newer version has introduced: the batch with it fails
(`BatchFails`), with what came before it applied and the cursor where it was.

**S3Discovery** – one read is a list, a `GetObject` per listed object unless the
list's hash is that of the last read, and the readers of `multiDiscovery` that
come after it. An object is its content, which is also its ETag, so the hash is
the sequence of ETags. Objects change between any two requests. `dirty` and
`mixed` are history variables: whether the bucket changed under this fetch, and
under the one that filled the cache.

**DockerDiscovery** – `ReadApplications` of `dockerdiscovery`. `pc` is the call to
be made next (`tasks`, `services`, `nodes`, `containers`, and `inspect` when a
container's address can only come from docker_gwbridge), `got` what the calls have
returned. The state of Docker is external and changes between any two calls:
nodes leave, tasks are allocated, placed and removed, containers start again with
other addresses. What is made of the answers are operators: `SwarmServices`,
`ContainerAddress` (which of a container's networks counts), `ServiceName`,
`BareContainers`, and the translation of labels (`Supported`, `Frontend`, `Guard`,
`App`). A read ends with the applications, for a call that failed, for a task whose
node is not there (`NodeMissing`), or for one without an address that can be used
(`Unaddressed`: the panic of `docker.go:161`, or `ParseCIDR`). NETWORK_NAME is a
variable that `Init` chooses. `through`, `seen` and `orphaned` are history variables: what could be reached during the whole read,
which addresses there were at some time in it, and whether a node left.

The modules `MC*` only give TLC the constants that a `.cfg` cannot write down
(functions, sequences, catalogues). Where a module needs none, the `.cfg`
instantiates the module itself.

## Runs, bounds and results

A run is a module, a `.cfg` and the INVARIANTs and PROPERTYs named in it; there is
one for each component, and one for the statement of a comment that does not hold
(marked ✗, see [below](#where-code-and-comments-disagree)). Where a `.cfg` has
`CHECK_DEADLOCK FALSE` the system may stop: its requests are all answered, its
deploy has ended.

| Run | Shows | Bounds | Distinct states |
|---|---|---|---|
| MutexMap | mutual exclusion; no wakeup is lost; it implements KeyedLock; a waiter is let out to try again | 3 goroutines, 2 keys, 3 channels | 116 000 |
| ManifestResolve | one producer per manifest; one download but for faults and crashes; each request ends, unless waiters refuse each other for ever | 3 requests, 2 manifests of which 1 corrupt, all faults, crashes | 59 000 |
| FileHydration | one hydration of a content at a time; races alone fail no request; cached content needs no origin; each request is answered unless a hydration of its content hangs in one of three ways | 3 requests, 1 content under a compressible and an incompressible name, all faults, crashes | 93 000 |
| HydrationAgain ✗ | a second hydration is harmless | 2 requests, 1 name, no faults | |
| Middleware | the ping check of the current result is never over; without a failing ping, races do not detach; after a rolling deploy only the surviving version is served, or a ping hangs | 2 request slots, 2 versions, 3 results, an origin that fails, loses or garbles its header | 204 000 |
| Server | requests see whole, matching and ever newer configurations; a quiet discovery is installed, across failures and restarts; unchanged applications keep their backends; a server that is told to end does, and cuts no request off | 2 applications, 4 discoveries (empty, good, one that cannot be mounted, one that panics), 1 listener with 1 request besides the other tasks | 137 000 |
| RequestPath | the most specific frontend answers; a path keeps its meaning up to the upstream; no upstream is asked what scheme, rules or token forbid; a success told to the client was one, with all of its body, but for three cases | up to 3 of 9 frontends in every order, 7 paths, 2 hosts and one that does not parse, 4 addresses, 9 applications with a chain of backends each, 7 clients, 2 manifests | 574 000 |
| S3Deploy | only complete versions are activated; a deploy ends or is stuck at its last send | 5 files, 2 workers, every fault | 43 000 |
| TurboSite | a stored manifest has all its files; a download gives back what the archive had, and a closed archive the whole site; a deploy ends | 4 files in 2 directories and the top, 2 archives of another tar, 3 workers, 1 stored manifest, any failures and kills before it | 99 000 |
| AppRegistry | each application of a router is what the log says up to its cursor, or up to an event it does not know; what it serves is what the log said of all of them at one point; routers converge unless there is such an event | 2 operators, 1 router, 2 IDs, 1 kind of backend, 4 events | 235 000 |
| S3Discovery | the cache has what it is filed under, unless the bucket changed under that very fetch; a quiet bucket is read right, but for one case, and fetched no more | 3 objects of which a page lists 2, one of them broken, one with two contents; any number of edits and failures | 148 000 |
| DockerDiscovery | what was in the network during a whole read is found, at its address; nothing else is: no address that nothing had, nothing behind another guard than its labels ask for or behind none, nothing twice; a read fails for a node only if one left | 4 networks, 2 nodes, 1 service with 2 tasks, 3 containers, 3 changes | 228 000 |

Why the bounds are enough:

* *MutexMap*: an owner, a waiter on its channel and a third that takes the key in
  between are three goroutines. Each of them has, or waits on, at most one channel,
  so that three are enough; `Reserve` takes one that nobody refers to.
* *ManifestResolve*: three requests let a producer, a waiter and a late request
  meet, or two meet while the corrupt manifest is asked for. A restart uses up the
  requests in progress, so the third finds what the first two left on disk.
* *FileHydration*: a winner of `TryLock`, a loser that waits, and one that missed
  the caches before the hydration and comes to `TryLock` after it. Two names of
  one content, of which one compresses, are all that the code tells apart:
  contents do not interact (locks and caches are keyed by content).
* *Middleware*: a discovery result is referred to by `discovered`, by a slot or by
  its ping; with three results `StoreNew` waits for one to become garbage when all
  are in use, and deadlock is checked. Two versions under one prefix are what a
  rolling deploy of a build is. A subtree that moves is not in the run: with
  `/assets` for the prefix of the second version instead, the same properties hold in
  383 000 states, but then no deploy keeps the prefix, and a run with all three
  versions is too large.
* *Server*: with `MaxStamp = 2` a read that is in the channel, one that is being
  made and what is current are told apart; the stamp saturates there, so the ticker
  goes on for ever. The two applications are of different kinds: one whose changes
  always work, one that needs the ManifestHandler through a guard, and whose
  changes are refused or panic. `MaxOpen = 1` is one request that is in flight when
  the server ends; listeners share nothing but the cancellation, and the proof of
  `NothingCutOff` is for any number of both.
* *RequestPath*: three of the nine frontends, in every order, hold every pair that
  the comparison of prefixes can confuse next to a third; the paths are at, below,
  beside and short of the prefixes. Applications share nothing while a request is
  served, so that one backend of each shape is one application; the clients have
  the token in each form that `authv0` knows, another one, a scheme that it does not
  know, and none. Of the guards two have a token, one of them behind another guard,
  and one has none.
* *S3Deploy*: two workers are what the code starts. `Len(channel) + workers + 1`
  files fill everything while the main goroutine holds another: five files.
* *TurboSite*: three workers with four files, two of them equal in content, give
  every order of insertions, appends and cancellation among workers that are idle,
  inserting and appending. Deploys share the store and nothing else; until a
  manifest is stored, any number of them fail or are killed and leave files there.
* *S3Discovery*: two objects in a page show a fetch half of which is old, the third
  what a page does not show and what comes up when another is deleted.
* *DockerDiscovery*: reads start from an empty Swarm and from every placement of two
  tasks; three changes are what it takes for a task to come to a node that joined
  after the nodes were read, and for a container to get another address between
  two reads. One container is that of a task, one is in two networks, one in the
  host's and without a usable label.
* *AppRegistry*: three events let a second operator's append come between the read
  and the append of the first, followed by a deletion or new creation. The fourth
  is what it takes for a batch that fails to be followed by a shorter one, so that
  two applications are known as of two different times. Routers share nothing but
  the log, so one of them, in every batching and with restarts, is all; kinds of
  backends differ in which commands edit them, and one that has versions is the
  one that all commands edit.

## Fairness

Runs with liveness properties use `FairSpec` (or `ManifestFairSpec` and the like,
where one module extends several); fairness does not make any state
unreachable, so their invariants say as much as under `Spec`. It assumes:

* *A goroutine that can run runs* (weak fairness of its steps): Go's scheduler is
  preemptive.
* *MutexMap*: strong fairness of entering `masterMu`, as `sync.Mutex` hands itself
  over to a waiter of 1 ms, and weak fairness of each goroutine's other steps,
  calling unlock among them: that is the callers' obligation, which
  `ManifestResolve!EveryRequestEnds` and `FileHydration!EveryRequestAnswered`
  discharge but for what they name. There is no fairness that makes a `Lock()`
  succeed: the code says that it may lose again.
* *ManifestResolve* assumes weak fairness per request, and nothing stronger. That
  is why `EveryRequestEnds` has an exception: after a failed download the waiters,
  each of which holds the lock for a moment to let go of it, can refuse each other
  for ever.
* *FileHydration*: faults are not fair, nothing relies on a fault happening. The
  pipe's last piece comes some time (strong fairness of the transfer that
  closes it), as content is finite.
* *Middleware*: time passes (`Expire`), and clients keep asking. Neither deploys
  nor answers to pings are fair: the code puts no deadline on the ping
  (`middleware.go:143`), and `EventuallyCurrent` excepts the one that hangs.
* *Server*: the ticker ticks; goroutines run; of the ready cases of a `select` each
  is chosen some time, therefore strong fairness of `Exit`, which competes with the
  tick; tasks leave when they are cancelled; systemd restarts. The discovery is
  readable now and then (strong fairness of `Read`): an assumption about the
  environment, not the code. That requests end is not part of `FairSpec` but the
  hypothesis `RequestsEnd` of the properties that need it, for `Shutdown()` has no
  deadline. `EventuallyInstalled` has two more hypotheses: that the applications
  stay as they are, and that nothing outside ends the process for ever again
  (`Disturbance`).
* *S3Discovery*: the ticker ticks, and each request has a result, an error among
  them. That requests succeed from some time on (`RequestsSucceed`,
  `OthersSucceed`) are hypotheses of the properties.
* *S3Deploy, TurboSite*: goroutines run and an upload ends: it has a timeout in
  S3Deploy; in TurboSite the S3 client's own is assumed, and that the operator
  whose export has ended runs the deploy.
* *AppRegistry*: routers poll; operators need not do anything.

## Where code and comments disagree

One statement of a comment has a run (✗) in which TLC finds the counterexample;
`PROJECT.json` quotes the comment.

* **HydrationAgain** (`manifesthandler.go:288`): "additional hydrations (but that's
  not dangerous)". A request that missed the caches and wins `TryLock` only after
  the hydration hydrates again. For piped content it hangs with the lock held:
  `InsertObject` returns for an existing object without reading the pipe, the gzip
  goroutine waits for a reader, and the request waits for the goroutine.

Others are visible in the models, and the properties are stated so as to say
exactly how far the code goes.

In the turbocharger:

* `manifesthandler.go:266`: when the origin's stream breaks, the gzip goroutine
  leaves its pipe open; `InsertObject` and everyone in the queue wait for ever.
* `manifesthandler.go:283`: when `InsertObject` fails (a full disk) before it has
  read the pipe to its end, the wait for the gzip goroutine never ends, as in
  HydrationAgain. These three are `Hangs`, and `EveryRequestAnswered` says that
  there is no fourth.
* `manifesthandler.go:177, 188`: "serve from origin" on a cache error; the request
  fails after the second look. `NobodyFails` and `CachedNeedsNoOrigin` except it.
  Its client gets the status 200 and nothing, since an error is only logged and
  `net/http` adds the status: an exception of `SuccessIsTrue`.
* `manifesthandler.go:144-147, 162-165`: the status is written before the file is
  copied. When the copy fails (a disk that cannot be read, a damaged gzip object), the
  error is only logged and the response ends as if it were whole: the client has the
  status 200, or the 404 of the manifest's own page, and a part. It is the other
  exception of `SuccessIsTrue` for files, and the flag `whole` is there to say so.
* `manifesthandler.go:260`: the caches are chosen by path and keyed by content, so
  content under two names can get into both; `CachedNeedsNoOrigin` holds anyway.
* `manifesthandler.go:322`: a refused request waits for "someone else already
  downloading", but the holder of the lock can be a waiter that passes through
  after a failed download. `EveryRequestEnds` excepts those that do so for ever.
* `manifesthandler-singleton.go:26`: an error of the first initialization is kept
  until the process ends; turbocharged applications then fail every sync.
  `EventuallyInstalled` excepts it.
* `middleware.go:98-99`: `detachTurbocharger` stores a typed nil. The comment of
  line 64 knows it, the assertion of line 98 does not: the next advertisement
  dereferences it, and the request panics (`NilAdvertisement`), each time until
  the process ends. `net/http` recovers.
* `middleware.go:246`: a header without a space panics too, also in the ping's
  goroutine, which nothing recovers: the load balancer dies of an origin's header.
  `EventuallyCurrent` holds across that restart.
* `middleware.go:102`: a deploy that moves the subtree conflicts with what is
  discovered, and detaches ("shouldn't happen").
* `deployment.go:127`: "same file set multiple times we end up with same manifest":
  sorting by path leaves the order of two files of one path to the race of the
  workers, and the manifest has the time of its deploy in it (`types.go:103`).
* `turbochargerapp/appintegration.go:104`: an export that fails between two entries
  leaves a stream that reads like a shorter, whole archive, and nobody sees its exit
  status in a pipe: its manifest is complete (`ManifestComplete`) for the archive,
  not for the site. `RoundTrip` asks for the site only if the archive was closed, so
  that no property notices it.
* `turbochargerdeploy/cli.go:97`: a name that begins with a dot is refused as "not
  relative to root": a site with a dot file at its top cannot be deployed, nor one
  that `tar -c .` has made.

In the configuration and the server:

* `backendfactory.go:49, 119`: applications of one ID (from two discoveries) replace
  each other's backend on each sync, and handlers of removed applications stay in
  the cache. `ConfigSync` has unique IDs.
* `backendfactory.go:84`: nested backends are not validated. One without its options
  makes the factory panic, in the goroutine that syncs: the process dies, and again
  at each start, until the configuration is another. `AppConfig!FactoryPanics` is
  what `EventuallyInstalled` leaves out, and the theorem `ValidatedPanics` says
  what of it can pass validation.
* `authv0.go:50-73`, `backendfactory.go:81-91`: a guard that is configured with an
  empty token takes every header that is not empty and gives no token: another scheme,
  or another user than "" or "x". Only `discovery put` refuses such a token, and only
  in the outermost backend (`appconfig.go:181`); a nested one, and what comes from a
  file or a bucket, is taken as it is, while the Docker labels say "empty bearer token
  not supported" (`traefikannotations.go:118`). `AuthorizedOnly` says that this is all
  that gets through without the token.
* `utils.go:38-40`: `Shutdown()` has no deadline: one request that does not end
  keeps the process. `utils.go:49-52`: a listener that failed by itself does not
  wait for its requests. `ServeEnds` and `NothingCutOff` except these.
* `serve.go:156`: a mount "/f/" matches the path "/f", and slicing "/f" by the
  length of "/f/" panics. `RemainderIsKept` says that this is the only case, but for
  prefixes that end in two slashes.
* `mountresolver.go:29-35, 125-129`: of a prefix one slash at the end is trimmed to
  match, but prefixes are sorted by their full length. "/f//" matches what "/f/"
  does, wins over "/f/b", and strips the path "/f/b" of its "b" too. Validation
  does not refuse it. `MostSpecificWins`, `RemainderIsKept` and `AskedRelative`
  except it; TLC found it when the catalogue got such a frontend.
* `lambdabackend.go:129-132`: a body that is not base64 is noticed when the status
  is written; the client gets the function's status with the text of the error
  (an exception of `SuccessIsTrue`, and a TODO of the code). Of the two models only
  the REST one checks for a missing status: in the other `WriteHeader(0)` panics.

In discovery and deployment:

* `statics3websitebackend/deploy.go:144`: "cancel and wait for workers exit in all
  exit paths". With both workers gone and the channel full, the send of the
  deployment spec, which is not in a `select`, blocks for ever. `DeployEnds` says
  that this is the only way not to end.
* `s3discovery.go:105`: what was fetched is cached under the hash of a list made
  before. An object that is replaced in between, and replaced back, is served wrong
  until the list changes: `StuckStale`, the exception of `EventuallyRead`. Only the
  first page of a list is read.
* `ehdiscovery.go:116`: one event of a type that a router does not know stops it at
  that event for good, with the configuration it had. `RoutersConverge` excepts it.
  What came before it in its batch is applied, though (`ehdiscovery.go:93-105`), and
  batches are processed again on top of that: when a shorter one follows, the router
  knows one application as of an event further on, and another as of its cursor.
  `ViewIsPrefix` therefore speaks of each application by itself, and of all of them
  together only in what is served; `ReadApplications` returns an error meanwhile.
* `multidiscovery.go:23`: one reader that fails keeps the changes of all others.
* `docker.go:161-164`: a task that is attached to the network and has no address there
  makes the read panic, and one with an address that does not parse makes it fail: the
  end "no address" of a read in DockerDiscovery.
* `docker.go:177`: one task whose node was removed fails the read of all services,
  and goes on failing it until Swarm drops the task.
* `docker.go:327`: containers of one compose project become applications of one ID,
  like two containers of a service found through docker_gwbridge; to the backend
  cache of `ConfigSync` these are one application that changes. The container of a
  task that is in a project (`Renamed`) has another name than its service, so that
  both are found: `NothingMore` excepts it.
* `cmd/edgerouter/discovery.go:108`, `turbochargererdeploy/cli.go:68`: commands
  check and copy what they read before; concurrent ones overwrite each other.
  `AppRegistry` has both operators do so.

## Proofs

The modules `*Proofs` prove, for every set of goroutines, keys, channels, requests,
manifests, paths, contents, faults, files, workers, applications, listeners,
frontends, rules, clients, versions, operators, routers, events, objects, nodes,
tasks and containers:

| Theorem | Statement |
|---|---|
| MutexMapProofs!TypeCorrect | `Spec => []TypeOK` |
| MutexMapProofs!Mutex | `Spec => []MutualExclusion` |
| MutexMapProofs!NoWakeupLost | `Spec => []NoLostWakeup` |
| MutexMapProofs!UnlockSafe | `Spec => []UnlocksItsOwn` |
| MutexMapProofs!Refinement | `Spec => ImplementsKeyedLock` |
| ManifestHandlerProofs!TypeCorrect | `Spec => []TypeOK` |
| ManifestHandlerProofs!SingleHydration | `Spec => []OneDownload` |
| ManifestHandlerProofs!NoneFails | `Spec => []NobodyFails` |
| ManifestHandlerProofs!CachedStaysServed | `Spec => CachedNeedsNoOrigin` |
| ManifestHandlerProofs!ManifestTypes | `ManifestSpec => []ManifestTypeOK` |
| ManifestHandlerProofs!NoCompetingProducers | `ManifestSpec => []OneProducer` |
| ManifestHandlerProofs!NoLoadOfKnown | `ManifestSpec => []KnownIsNotLoaded` |
| ManifestHandlerProofs!SingleDownload | `ManifestSpec => []DownloadedOnce` |
| MiddlewareProofs!NoResultStuck | `Spec => []NeverStuckStale` |
| MiddlewareProofs!OneVersionStays | `Spec => NeverDetached` |
| ServerProofs!TypeCorrect | `Spec => []ServerTypeOK` |
| ServerProofs!ReadsWhole | `Spec => []AllOrNothing` |
| ServerProofs!BackendsMatch | `Spec => []BackendMatches` |
| ServerProofs!EndsGracefully | `Spec => []NothingCutOff` |
| ServerProofs!ConfigsGoForward | `Spec => NeverGoesBack` |
| ServerProofs!ValidatedPanics | which valid applications make the factory panic |
| BackendsProofs!GuardedBackends | `BackendSpec => []BackendGuarded` |
| BackendsProofs!AuthorizedUpstreams | `BackendSpec => []AuthorizedOnly` |
| BackendsProofs!TrueSuccess | `BackendSpec => []SuccessIsTrue` |
| BackendsProofs!MostSpecific | `BackendSpec => []MostSpecificWins` |
| BackendsProofs!Remainder | `BackendSpec => []RemainderIsKept` |
| BackendsProofs!RelativeUpstreams | `BackendSpec => []AskedRelative` |
| TurboSiteProofs!ManifestsComplete | `Spec => []ManifestComplete` |
| TurboSiteProofs!RoundTrips | `Spec => []RoundTrip` |
| S3DeployProofs!TypeCorrect | `Spec => []TypeOK` |
| S3DeployProofs!Atomic | `Spec => []AtomicDeploy` |
| S3DeployProofs!ReportsFit | `Spec => []ReportNeverBlocks` |
| DiscoveryProofs!KnowsTheStream | `RegistrySpec => []ViewIsPrefix` |
| DiscoveryProofs!BucketTypes | `BucketSpec => []BucketTypeOK` |
| DiscoveryProofs!FiledByETag | `BucketSpec => []FiledRight` |
| DiscoveryProofs!DockerTypes | `Spec => []TypeOK` |
| DiscoveryProofs!Kept | `Spec => []KeptThroughout` |
| DiscoveryProofs!OnlyThat | `Spec => []NothingMore` |
| DiscoveryProofs!Grown | `Spec => []ReadsSurviveGrowth` |

Two modules hold the proofs of more than one component: `ManifestHandlerProofs`
extends `FileHydration` and `ManifestResolve`, `DiscoveryProofs` extends
`DockerDiscovery`, `AppRegistry` and `S3Discovery`. The components share no variable
there, and therefore each definition has a name of its own (`ManifestSpec`,
`RegistrySpec`, `BucketSpec`).

*Assumptions.* MutexMap: the tokens for "nobody", "no key" and "no channel" are
none of the others (`DistinctAssumption`). FileHydration: each path has a content
(`PathAssumption`); ManifestResolve: the corrupt manifests are among the manifests
(`BrokenAssumption`). Middleware: the tokens of results are none of the other contents
of the atomic value (`TreeAssumption`). Server: applications have an ID and a backend
(`WorldAssumption`), `MaxOpen` is a number (`ServerAssumption`). Routing: frontends,
rules and paths have their types, a host name is one host, paths start with a slash,
and a rule that is not for all applications names one (`RoutingAssumption`).
Backends: each application has backends, of which all but the last are guards, and
paths of origins have their type (`BackendAssumption`); of tokens nothing is assumed. TurboSite (`SiteAssumption`): the site is a
tree, that is, each file is in the listing of its directory or below a directory
listed there; what another tar has archived has the site's contents under the site's
names, or names that are refused, and all of the site if none is refused; the tokens
for a missing and a partial file are no contents. S3Deploy: finitely many workers, at
least one, and tokens that differ (`ItemAssumption`). AppRegistry: none but that
`MaxLog` is a number (`RegistryAssumption`). S3Discovery: keys are a sequence of
names, contents are strings, and the token for a missing object is none of them, a
page has at least one object, and another discovery has something to list
(`BucketAssumption`).
DockerDiscovery: a node's name is not a task's state, services have a name, IDs of tasks and containers
differ, a task has one container, a container is in finitely many networks, and
labels and addresses have their types (`DockerAssumption`).

*MutexMap, the argument.* Mutual exclusion is not inductive: nothing in it says
that the map has an entry for who occupies a key. The inductive invariant adds
that `masterMu` is held by exactly the goroutine between its lock and unlock
(`MasterInv`), that a call in progress has a key (`KeyInv`), that the map's entry
of an occupied key is its occupant's channel, which is open, and that each entry
belongs to some occupant (`EntryInv`), and that no two owners have the same
channel (`OwnersDiffer`). Exclusion then follows as two occupants of a key would
have one channel. The wakeup is safe because a waiter's channel is, when it reads
it, an entry's, thus an owner's, and an owner ceases to be one only by closing it.
The refinement shows that `Reserve` is an acquisition, `DeleteEntry` a release,
and every other step a stutter.

*ManifestResolve, the argument.* The lock is held by exactly the requests at the
places between getting and releasing it, each for what it wants (`ManifestLockInv`); with
the mutual exclusion of `KeyedLock` that gives `OneProducer`. A download counted
in `fetches` is on disk, or in the hands of a request about to insert it, or
excused (`DownloadInv`); a producer that goes to the origin did not find it on
disk (`OriginInv`), so there was no earlier download (`FirstInv`).

*FileHydration, the argument.* As for manifests, the lock of a content is held by
exactly the requests between getting and releasing it (`LockInv`), here through the
path each asks for: two names of one content have one lock. `WriterInv` adds that a
gzip goroutine exists only while its request is in `InsertObject` or waits for it.
That nobody fails needs `FoundInv`: while nothing has failed, who has hydrated or
waited finds the content in one of the caches, and who waits does so for a hydration
under way, or the content is cached already; both follow from the lock, as a
waiter's predecessor has hydrated or has waited itself. `CachedNeedsNoOrigin` is a
statement about the rest of a behaviour: `ServedLocally`, which holds of a request
from then on, says that the content stays cached and where the request can be, the
plain cache only if the content is in that one.

*Middleware, the argument.* A result's check is over only in the step that stores
another result or detaches, and the token for a new result is one that nobody
refers to, so it is not that of the ping which stores it, and its own ping has not
been sent. That one version alone is not detached is shown under the hypothesis of
the property at both ends of each step (`Alone`): all that is stored, answered to a
ping, in a header or about to be attached is that version (`OnlyOne`), so that no
advertisement conflicts.

*Server, the argument.* What is read is, at any time of the making of a
configuration, either to be built or mounted (`BuiltInv`), and what is mounted is
what the cache had for an equal backend, or was put there. Configurations get older
from the goroutine that syncs through the channel to the requests (`StampInv`),
which is what makes `NeverGoesBack` hold over dropped ones. A listener that has
ended has a shutdowner that is done, and that one left no request in flight
(`ListenerInv`); `Serve` leaves when all of them have ended (`MainInv`).

*Backends, the argument: who gets through.* Mounts come from the catalogue, in
whatever order they are sorted (`MountsInv`); a check that a request has passed stays passed, as nothing
changes its mount or address any more (`PassedInv`), and that the first of the IP
rules that matches allows the application is `RulesGuard`, which takes the least of
the indexes that match (`Least`, from the well-foundedness of `<`). For the token:
after k handlers the chain is the rest of the application's backends, each guard
among the k has taken the client's header, and the header is gone if there was one (`Through`,
`ChainInv`); as the last backend is none of the guards, whoever asks has passed all
of them. `AuthorizedOnly` itself is then inductive. `SuccessIsTrue`
needs `PlaceInv`: nothing is answered before the end, the place in a handler says
which kind of backend it is, and only what went wrong gets the error page.

*Backends, the argument: where it goes.* `MostSpecificWins` compares the parts of a
path between slashes, the code compares characters and lengths. The functions that
split a path are recursive over its length; that they exist, and what they are
from one character to the next, is proved once (`SplitDefined`, `SegmentsDefined`).
From there: a path is in a directory, part by part, exactly if the code's comparison
of characters says so (`InDirectory`, `CoversIsMatch`), and of two directories of one
path the one with more parts has the longer prefix, unless that ends in two slashes
(`DeeperIsLonger`). The lists of mounts have those of the frontends that concern them
from longest to shortest, whatever order the sort has left equal ones in, and host
patterns are in the order of their frontends (`ListedInv`); hence the first of a list
that matches is the best (`ResolvesBest`). Until it is stripped a path is what was
asked for (`RoutedInv`); what is stripped is a number of whole segments (`Strips`),
and what an upstream is asked is those of its own path, the rest, and the index
document (`AskedPath`), since where a slash separates two paths their segments follow
each other (`SegmentsConcat`).

*TurboSite, the argument.* `NothingLost`: unless something failed, each file of the
archive up to where the submitter reads is listed, offered, or with a worker; the
submitter ends without an error only when there are no more (`SubmitterInv`); what is
listed is stored (`StoredInv`), as a worker appends after it has inserted. A manifest
is published when all have left without an error (`PublishInv`), and sorting loses
nothing. For `RoundTrip`: an archive has files of the site only, under names that
`tar-deploy-to-store` takes or refuses (`Genuine`); what the export has not yet
written is below a name that it has yet to visit (`ExportInv`), so that a closed
archive has everything; the download has written the first files of the manifest
(`DownloadInv`), and two files of one name have one content.

*S3Deploy, the argument.* `NothingLost`: unless an error is on its way (a worker is
about to report, one is in the channel, or the main goroutine has seen one), every
file is in the bucket, unread, offered, in the channel or with a worker. `ExitInv`: a
worker exits without an error only when the channel is closed and empty. When all
workers have exited and no error is found, nothing but the bucket is left for a file
to be in; that is `UpdateInv`, and the pointer follows it. It needs a worker at
least: without one, `wg.Wait()` would return at once. `ReportNeverBlocks` needs a
count instead (`CountInv`): there are at most as many errors in the channel as
workers that have exited, so a worker about to report finds room.

*AppRegistry, the argument.* What processing a batch makes of what is known is
established from event to event: it knows of each application what the events up to
there say last (`Process` is recursive over the batch). `KnownIn` is the first half of
`ViewIsPrefix`, what a router knows of each application, and `WholeIn` the second,
what it serves of all of them: at the end of the log, where a read returns, the
router's cursor is all that is left for an application to be known as of
(`EndsKnown`). Both survive an append, which changes nothing that was said before
(`AppendSays`).

*S3Discovery, the argument.* The list is of the bucket at the time of the list
(`Listing` is recursive over the keys). While a fetch goes on without an edit the bucket
is still that, and what has been fetched is the first part of it (`FetchInv`); the
cache is replaced by a whole fetch only, together with its hash.

*DockerDiscovery, the argument.* What is in `through` at any time of a read has been
there since its start, so each call that has been made has it in its answer
(`ThroughInv`), and what an answer has was seen (`SeenInv`); a node is missing of a
task's only if one left (`OrphanInv`). The result is made of the answers by operators
without state: that each instance is in the application that is made of it, and
nothing else is, is the rest (`ResultInv`). For `NothingMore`, an address says which
task or container it is of: of a service of Swarm's catalogue it is a task's, and a
container with the same one has the service's name unless it is renamed, so that the
search by containers has left it out (`FoundOnce`); the guard is the one that the
labels of that task or container ask for (`FoundGuarded`), as labels that name no
authentication are not `Supported`.

*Induction over data*: the induction theorems of the library take an operator as a
parameter, which none of the provers can instantiate. Where the proofs above need
induction, over a path, a log, a batch or the keys of a bucket, they take the least
element of a set of numbers instead (`WFMin` of the library's
`WellFoundedInduction`), from which `BackendsProofs` and `DiscoveryProofs` derive that
a function exists that is what each step makes of the value before (`Iterates`,
`Steps`). Recursion is therefore written as recursive functions in all modules that
have a theorem.

*Only model-checked*: every liveness property (fairness and ENABLED are out of
the prover's reach), and `InstancesKept`, which says that something happens only
finitely often. Every invariant and every other action property that a run checks
has a theorem.

## Not modelled

* **Certificates, installation as a service**: files written once, TLS and certbus by
  external libraries. That the task of certbus can end is part of Server.
* **File, static and default discovery**: a file or a constant, without state; the
  second reader of S3Discovery, whose content changes and whose read can fail, is
  what they are to the rest.
* **Parts of the backends**: which of several origins a request gets is any of them;
  copying of headers, TLS settings, the timeouts of transports, and what the library
  behind `auth_sso` makes of a cookie are left out. So are an upstream's body that
  breaks off after the proxy has begun to copy it (the connection is aborted), and a
  cached object that is damaged unnoticed. Content types and content
  encodings of the ManifestHandler are text of an answer whose content is modelled.
* **What `discovery put` refuses** is `AppConfig!Valid`; AppRegistry is not composed
  with it: its `Config` is what passes.
* **Docker**: an address that the list shows in the host network, which the code does
  not expect and for which it skips the container (`docker.go:282-285`).
* **Syntax**: host regexps are sets of hosts, IP prefixes sets of addresses; HCL,
  URL and JSON text are left out. Where a property depends on text (slashes in
  prefixes, the space of a header) the text is in the model.
* **Time** is an event that can come whenever its timer is pending; durations are
  not compared with each other.
* **Admin UI, metrics, logging, the describers of a configuration**: reporting only.

## Plan

Done, in this order: locks, manifests, hydration, middleware (the turbocharger);
configuration and routing; what publishes (both deploys, the registry, Docker); then
S3 discovery, the server's process around the configuration, what the factory and
the validation make of an application, the backends behind the routing, the command
line around the turbocharger's deploy. What is left:

1. `StaticSite`: composition of TurboSite's store, the origin's advertisement,
   Middleware and ManifestResolve with FileHydration: a file of a version that was
   ever advertised can be served while the store keeps it, and no answer mixes
   versions within one discovery result. Abstract specification: a site is one
   version at a time, per discovery result.
2. `Delivery`: composition of S3Deploy, AppRegistry and Server: what a router
   mounts was a complete version when it was activated.
3. Proofs: with every safety property of the components proved, what is left is that
   of the two compositions above, from the theorems about their parts.

## Conventions

* A definition that a comment begins with `Fault:` is not part of any
  specification. It is a variant of the definition after it, wrong in a way in
  which the code could be: put in place of the original it makes a run's property
  fail. `PROJECT.json` ("mutants") says which breaks which, so every property is
  known to notice something.
* What the code does not do although a comment says so is stated at the end of
  its module, apart from what holds.
* To run one: `tlc -config FileHydration.cfg MCFileHydration`; to prove one:
  `tlapm MutexMapProofs.tla`.
