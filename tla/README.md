# MazeRegistryUI in TLA+

MazeRegistryUI is a web front end for container registries: one Go process that
renders pages from the answers of one or more registries speaking the
Distribution API. It has no database. What is hard about it is what sits between
the browser and the registry: caches with different lifetimes, a token
negotiation shared by every goroutine, limits on parallelism nested inside each
other, and lists read page by page while they change. This directory models that
machinery in TLA+, checks it with TLC on small instances and proves parts of it
with TLAPS for every instance.

Line numbers are those of the Go files under `src/`.

## 1. The system

```
 browser ──► handlers ──► catalog index ──► client ──► response cache
               │  ▲             (per registry) │  ▲
               │  └── row slots (acquire)      │  └── token + challenge cache
               └────► health cache             └────► net/http ──► registry, token service
```

Every request is a goroutine. A registry has one client (one response cache, one
token cache, one connection pool), one catalog entry and one semaphore; these are
shared by all goroutines, and registries share nothing.

| Part | State it keeps | Operations | What is hard | What makes it correct |
|---|---|---|---|---|
| Response cache, `registry/cache.go` | entries with expiry, scope, LRU stamp; the stamp counter | `get`, `set` (evicts), `InvalidateRepo`, `Purge` | eviction mixes expired and live entries; invalidation must find everything | bounded; never answers expired, overwritten or invalidated data; keeps what was used last |
| Authentication, `registry/auth.go`, `client.do` | tokens per challenge, challenges per resource, a mutex held across the token request | `do` in up to three rounds, `token`, `challengeCache` | bursts of 401s, stale challenges, tokens that expire or are revoked | one token request at a time, none redundant; nobody entitled is refused but for a token that has ended; every call returns |
| Registry reads, `registry/client.go` | none of its own: it uses the cache | manifests by tag and digest, blobs, tag pages, `DeleteManifest` | a read that crosses a deletion; two stores with the lock free in between; lying digest headers | bounded age; no ghosts but raced ones or after a deletion that invalidates nothing; what a tag reads is filed under the digest of its bytes |
| Image model, `registry/manifest.go`, `client.go`, `buildImagePage` | none | parse, resolve children, count distinct layers, apply history, summarise, lay out the page | shared layers, attestations, failing children; two ways to the same image | sizes of unions; commands at their layers; row and page agree |
| Tag order, `sortTags` | none | sort | versions, leading zeros, "latest" | one order whatever comes in, newest first |
| Catalog index, `server/catalog.go` | per registry: list, age, error, load mutex | `List` (walks all pages), `Invalidate` | a walk of many requests under a mutex; changes in the middle of it; failures | complete for steady repositories; one walk for a cold burst; stale beats error; bounded age |
| Row fan-out, `server.acquire`, `resolveChildren` | semaphores, WaitGroup, connections | a row, a counter, an image page, a child | four limits nested in one another, cancellation, failure | nothing leaks, load bounded, no deadlock, all return |
| Paged lists, `server/handlers.go` | in the browser: the rows and the button | repository page, more tags, catalog page, more repositories | pages of different ages; cursors against offsets; boundary sizes | nothing missing, nothing twice, exact counters |
| Health cache, `server.go`, `handleRegistryHealth` | verdict and time per registry | `get`, `set`, probe | probes out of order, a cancelled probe remembered | a verdict was true within its lifetime, unless its visitor left |
| Response pipeline, `middleware.go`, `compress.go`, `render.go` | per response: headers, status, encoder; the pool of encoders | write header, write, panic, finish, log | who decides what and when; encoders handed round | status, headers and body agree; error pages have an error's status; encoders are exclusive; the log tells the truth |
| Lifecycle, `main.go`, `Server.Run` | listener | run, shut down, crash, restart | a drain that times out | it ends, and cuts no request off early while its listener works |
| Configuration, `config/config.go` | immutable after start | expand, defaults, secrets, validate | defaults that depend on one another; two checks of one URL | what is accepted can be served |
| Presentation: theme, templates, scripts | a cookie | render | little | – |

`PROJECT.json` lists the same parts with their status.

### How the parts meet

* A handler calls `catalogCache.List`, which may walk `client.Catalog`, which
  looks into the response cache, which may send it to `client.do`, which may
  need the token mutex and a connection. `CatalogIndex` composes index and
  cache; `RegistryReads` composes client and cache; `FanOut` composes the limits
  along the whole path; `Listings` composes handlers, index and tag pages;
  `Serving` composes the configuration, the process and the health cache.
* The composition rests on one contract: `LossyStore`, what a caller may assume
  of the cache. `TTLCache` is proved to implement it, and `RegistryReads` and
  `CatalogIndex` are built on it with `INSTANCE`, so that neither depends on how
  eviction works.
* `handleDelete` is the only writer. It deletes at the registry, then drops the
  repository's cache entries, then makes the catalog list old: three steps that
  everything else can fall between.

## 2. The modules

Each `X.tla` is a component, `MCX.tla` its instances for TLC, `XProofs.tla` its
theorems. Components that one handler shows together share a module for either:
`MCPages` instantiates `Listings`, `ImageModel` and `TagOrder`, with the theorems
about the first two in `PagesProofs` and about the third in `TagOrderProofs`;
`MCServing` instantiates `Responses`, `Configuration` and `Serving`, with the
theorems about all three in `ServingProofs`.

| Module | Models | State and actions against the code |
|---|---|---|
| `LossyStore` | the cache's promise | a ledger of what was stored; a lookup may miss, but never lies |
| `TTLCache` | `cache.go` | every method holds `c.mu` throughout, so each is one action; the three ways out of `get` are `GetAbsent`, `GetExpired`, `GetHit`; `Evict` is `evictLocked` |
| `TTLCacheHistory` | the same with history variables | `ledger` and `lastUse` record what callers did; the refinement mapping to `LossyStore` is the identity on `ledger` |
| `BearerAuth` | `client.do`, `auth.go` | one `pc` per goroutine; a step between any two points where the code gives up the CPU to the network or the mutex; rounds `known`, `bare`, `retry` are the three sends of `do` |
| `RegistryReads` | `fetchManifest`, `fetchBlobCached`, `Tags`, `DeleteManifest` | lookup, request, answer and store are separate steps, and so are the two stores of a manifest read by tag |
| `CatalogIndex` | `catalog.go`, `client.Catalog`, `handleDelete` | the load mutex, the walk page by page, the response cache in between |
| `FanOut` | `acquire`, `handleTagRow`, `handleImage`, `resolveChildren`, `do` | goroutine `<<r, owner>>` serves request r, `<<r, c>>` resolves child c; every wait is a step |
| `Listings` | `client.Tags`, `nextCursor`, the list handlers, `filterRepos` | `view` is what the browser shows, its button included; pages come from a cache of any age |
| `ImageModel` | `parseManifest`, `buildImage` and what it calls, `TagSummary`, `buildImagePage` | operators from a document to an `Image`, and from there to `TagSummary` and `ImagePage`; the state is one tag on its way to its row and to its page |
| `TagOrder` | `sortTags`, `naturalCompare` | tags are sequences of bytes; the loop of `naturalCompare` is the recursive function `from` on the code's positions i and j, its two inner loops are `DigitsEnd`; `SortTags` is the insertion sort that `slices.SortStableFunc` is on short lists |
| `Responses` | `compress.go`, `middleware.go`, `render.go`, the static files | each wrapper of `http.ResponseWriter` is an operator on the record of a response that calls the one below; a step reaches from one touch of the encoder pool to the next |
| `Configuration` | `config.go`, the checks of `registry.New` | `Parse` on documents and environments, composed of `Expanded`, `WithDefaults`, `WithSecrets`, `Valid` as in the code |
| `Serving` | `main.go`, `Server.New`, `Server.Run`, `healthCache`, `handleRegistryHealth` | `stage` is where `run` stands; `visit` where each request; a probe is three steps: `get` and the request, the answer, `set` |

Definitions marked "Mutant" are the ones `PROJECT.json` puts in the place of the
definition they precede; they say which bug a property would catch.

### Abstractions

* Time is a discrete clock. A response takes between 0 and `Timeout` ticks, as
  `http.Client.Timeout` guarantees; what does not wait takes none.
* A manifest, a blob or a page is its identity. A digest is the name of its
  bytes, so "computed" and "advertised" digests can differ (`DigestKey`), and a
  registry may answer a digest with other bytes (`Lies`).
* The registry and its token service are external and nondeterministic: others
  push and delete, tokens are revoked, requests fail when `Faults` is TRUE.
* A failure of any kind below HTTP (refused, timed out, cancelled by the caller)
  is one action per call. In `FanOut` cancellation is a state of its own, for
  there it decides who gets a slot.
* Of the tag "latest" only is assumed that it is made of lower-case letters
  (`TagsAssumption`).
* Names are ordered numbers where order matters (`CatalogIndex`, `Listings`).
  The display order of tags is a constant permutation `Shown` in `Listings`; an
  assumption of `MCPages` checks that `SortTags` of `TagOrder` makes this very
  permutation of four tags.
* A document carries what its digests refer to, `Absent` where the request
  fails (`ImageModel`). A command is its position in the history.
* A body is a sequence of writes, each content, a banner or an error, raw or
  gzipped (`Responses`); lengths and `gzipMinSize` are counted in writes. A banner
  is what a page shows in place of the data that the registry refused.
* Strings are compared without regard to case where the code does so and a
  spelling decides something (`Placeholder`): two spellings of "unknown" stand for
  all.
* A field of the configuration is a text or one reference, a URL is what
  `url.Parse` finds in it (`Configuration`).

## 3. What the runs check

| Run | Instance | Shows |
|---|---|---|
| `ttl_cache` | 4 keys (2 of one repository, 1 of another, 1 catalog page), bound 3, 5 uses, 1 tick | bound, working set kept, every answer one a lossy store may give |
| `auth_burst` | 3 goroutines reading one repository, tokens of 2 ticks or of no stated lifetime, timeout 2, margin 1, 3 ticks, faults | one token request at a time, none redundant, no token in use that ended longer ago than the timeout exceeds the margin |
| `auth_scopes` | 2 goroutines, a repository whose challenges ask for two scopes, the catalog, caches of size 1, timeout 1, margin 0, one tick or revocation, no faults, weak and strong fairness | limits of caches and effort, refusals only of a token of the scope that this call was asked for, no entitled request refused but for a token revoked or expired by then, every call returns |
| `auth_revoked` | 1 goroutine, one revocation | *violated*: the refused token is presented again |
| `reads_raced` | 2 goroutines, a tag, 2 manifests, 2 pushes, faults, a registry that serves wrong bytes and acknowledges deletions with any 2xx | bounded age, ghosts only by a raced store or a deletion that invalidated nothing, wrong bytes only for the digest that was read |
| `reads_deleted` | 2 goroutines, a tag, a manifest, a blob | *violated*: a deleted manifest is served from the cache |
| `index_walks` | 2 goroutines, 2 repositories in pages of 1, 3 changes, 1 tick, faults, deletions acknowledged with any 2xx | complete list, one walk for a cold burst, stale beats error, ghosts only by a page that a deletion has left in use |
| `index_time` | 2 goroutines, 1 repository, 5 ticks, faults, fairness | age at most two lifetimes and the walk; listings and deletions return |
| `rows` | 2 rows (one an index of 2 platforms), 1 image page; 1 slot, 1 child slot, 1 connection; one cancellation at a time, faults, fairness | nothing leaks, load bounded, no circular wait, every request returns |
| `rows_cancelled` | the same | *violated*: a cancelled row waits for the mutex with its slot in hand |
| `pages` | lists: 4 tags in pages of up to 2, 3 repositories in pages of 1, registries that link, count or ignore paging, 1 change; images: some thousand documents with up to 3 children, 4 layers and 4 steps; tags: all lists of up to 3 of 34 tags | nothing steady missing, nothing twice, counters exact, offsets consistent; sizes of unions, commands at their layers, layers of a platform, row and page agree; one order, newest first |
| `serving` | some hundred files in 3 environments, 2 visitors, 1 registry, lifetime 2, probe 1, shutdown 2 ticks; 2 responses, 2 encoders, files of up to 3 writes; fairness | what is accepted can be served, verdicts honest, a signal ends the process and gives requests their time; responses coherent, error pages and texts of `http.Error` with an error's status, encoders exclusive, the log true |

### Why the bounds are enough

Each bound is named in the MC module or the cfg, and chosen so that the case a
property is about happens, which the mutants confirm: each property is violated
under its run's own bounds once the code is changed where it matters.

* Cache: with bound 3 the `Target` of `evictLocked` is 2, so an eviction drops
  two live entries; 5 uses overflow the bound twice.
* Burst: three goroutines make a holder, a waiter that will find the token and
  one that comes late. The timeout is twice the margin, as the code's 20 seconds
  (`client.go:28`) are twice its 10 (`auth.go:21`), so a reply may take longer than
  the margin allows for; a lifetime of two ticks makes a token that is cached, one
  the service does not state (default 1) a token that is not; a table of one token
  is pruned. `MaxEvents` bounds ticks and revocations together.
* Scopes: one resource with two scopes is what makes a remembered challenge
  wrong; caches of size 1 are emptied by the catalog. With margin 0 a tick is as
  long as the timeout exceeds the margin, and a token of one tick ends between its
  request and its use; `MaxEvents` is 1, so that a call meets a clock that moves or
  a revocation.
* Reads: two goroutines make every race of a read with a deletion or with the
  other store; two pushes move the tag and push again what was deleted. The clock
  stands while the cache holds what a read was misled to or a deletion has spared:
  those histories say nothing of time, and `AgeBounded` has both goroutines without
  them.
* Index: two pages make a walk that a change can fall into, of both its sides;
  three changes let a repository go, come back and go again while one deletion is
  under way, so that the history variable `returned` matters to `GhostsAreRaced`;
  while the cache holds a page that a deletion has passed by (`Outdated`) the
  registry stands still, which keeps the run small: such a page is marked already
  and what it is served for is a matter of the requests;
  five ticks let page and list expire one after the other.
* Rows: one unit of each limit is the tightest case for a circular wait, and a
  token request must share the connection.
* Lists: four tags in pages of two make a last page that is exactly full, and
  three pages when one tag goes and pages are shorter. `MaxRows` only cuts the
  endless list of a registry that ignores paging.
* Images: two children that share blobs or not, in every combination of configs
  and layers, are what a union can differ in; three of any platforms what a
  choice among them can; four layers are more than three are highlighted.
* Tags: lists of three are what an order must be transitive on; one or two bytes
  of each class make every case of `naturalCompare`, a longer version the rest.
* Responses: two requests are what shares an encoder; a file is shorter than,
  as long as and longer than `gzipMinSize`.
* Process: a lifetime of two and probes of one tick let two probes of one
  registry overlap, end in the other order and outlive a change. Files differ
  from a good one in one or two places.

Symmetry is used where no property tells the members apart (goroutines, values,
manifests), and in no run with a liveness property. `pages` and `serving` each
check components that share nothing: a behaviour picks one `subject` and leaves
the others where they begin.

### Fairness

Fairness is stated per goroutine and only for what the runtime gives:

* An `hc.Do` ends, by its answer or by `opts.Timeout`: weak fairness of the steps
  of a call that has begun. What the registry answers is never assumed.
* A `sync.Mutex` hands itself over to a waiter that has starved for a
  millisecond: strong fairness of taking the mutex, which is enabled only now
  and then.
* A Go channel serves blocked senders in order, and so does the transport's
  queue for connections: strong fairness of the steps of each goroutine in
  `FanOut`, since another may take the place first, but not for ever.

* The process goes from stage to stage, time passes and a probe ends by its
  answer or its timeout: weak fairness in `Serving`. Other requests may take for
  ever, for a handler may.

Users are not fair: nobody must begin, cancel or load more, and nobody must send
a signal.

## 4. Where code and words disagree

Three runs expect a violation. Each checks one sentence of the repository:

* `auth_revoked`: `client.go:281-282` says that after a 401 it renegotiates from
  scratch because "tokens get revoked". The challenge has the same key, so
  `tokenCache.token` answers with the very token that was refused, and the call
  fails until the token's deadline.
* `reads_deleted`: the test at `client_test.go:2036` wants a deletion to
  invalidate the repository. A manifest that was answered before the deletion
  and is stored after it stays, for up to an hour under its digest.
* `rows_cancelled`: `ARCHITECTURE.md:192-194` has a cancelled row release its
  slot. One that queues for the token mutex does not hear of its cancellation
  and keeps it until the token requests before it are done.

The properties that hold are stated around them: `GhostsAreRaced` names the only
ways to a ghost, `EntitledNotRefused` excepts a token that has been revoked or has
expired by the end of the call, `RefusalRenegotiated` asks for a token of the right
scope and not for a new one, `StaleBeatsError` speaks of lists that are not empty.

Further disagreements and oddities that the models show but no run is spent on.

Tokens: `auth.go:19-21` subtracts a margin so that "a token is never presented in
the same instant it expires". Unless the token service says when it issued the
token, the client counts its lifetime from its arrival (`auth.go:231`, `345-359`), the
service from its issue, and a reply may take the whole timeout: with 20 seconds of
that and 10 of margin a token may be presented up to 10 seconds after its end.
`OverrunBounded` is the bound that does hold, for any timeout and margin.

Deletions: `DeleteManifest` invalidates the cache after a 200 or a 202; any other
2xx passes for success as well, but invalidates nothing (`client.go:612-629`). The
user is told that the manifest is gone, `handleDelete` drops the catalog list, and
cached answers show what was deleted until they expire or the next deletion
invalidates them; those of the catalog do so in a list that is built anew. Both `GhostsAreRaced` name this way to a ghost.

Digests: what a read by digest brings is filed under the digest that was asked
for, whatever its bytes (`client.go:700-701`, `906-910`), and served for an hour;
bytes read by tag are filed under the digest that was computed from them
(`client.go:682-692`). `DigestsFaithful` promises no more than that the second never
spoils the first.

Lists and authentication: `ARCHITECTURE.md:150-151` has a previous list served
when a refresh fails, but the list of a registry without repositories is a nil
slice, which `List` takes for none (`catalog.go:65`); a registry that ignores paging and
holds exactly `n` tags is asked for more for ever (`client.go:969` against
`CONFIGURATION.md:555-559`; `NoTagTwice` names the exception); a token whose
lifetime is within the margin is not cached, so a burst fetches one token per
goroutine (against `CONFIGURATION.md:447-449`); `client.go:263` speaks of at most
one handshake, while a stale challenge costs two token requests
(`EffortBounded`); `ARCHITECTURE.md:341-342` has `v1.10.0` sort after `v1.9.0`, while
`sortTags` puts the newer first (`client.go:1079-1102`, and so the test at
`client_test.go:335`; it is `naturalCompare` that has it after), which is what
`NewestFirst` says.

Responses: a refusal of the registry that the catalog, a counter or a repository page
shows as a banner goes out under a 200 (`handlers.go:101-103`, `156`, `209-211`), while
the same refusal of a page of rows is a 502; such a page counts as a page in
`ErrorsHaveErrorStatus`, which is about `renderError` and `http.Error`; `compress_test.go:205` wants gzip "on an error page too", but
`renderError` sends the status before there is a Content-Type, so no error page
is ever compressed; `compress.go:62-63` speaks of "enough bytes to judge the
size", but only a declared Content-Length is judged; an error page whose own
template fails is logged as 500 and sent as 404 unless the client takes gzip,
for `statusRecorder` keeps the last status and `net/http` the first (the
exception in `LogTellsStatus`); a request that panics leaves no line in the access
log; part of a static file, a 206, is gzipped like a whole one, so that its
range counts other bytes than its Content-Encoding says.

Health and life: a probe whose visitor leaves is remembered as "down" for
everybody for 30 seconds (the exception in `VerdictHonest`; `ARCHITECTURE.md:169`
has the cache remember "each registry's reachability"); a panic in a goroutine of
`resolveChildren` is recovered by nobody and ends the process; during a drain a
second signal is swallowed; a listener whose `Accept` fails ends the process and the
requests that are being served, without the shutdown's time (`server.go:190-192`; the
exception in `StopsGracefully`). `VerdictHonest` is silent about the verdict of a
visitor who left, so it would not notice if that one became worse.

Configuration: `ARCHITECTURE.md:309-310` has references expanded "on the raw text,
before parsing", while `Parse` expands the scalars of the parsed document
(`config.go:123-126`), as `Configuration` does; negative timeouts and lifetimes are accepted, those of a registry
meaning the client's defaults; an explicit `id` is not checked, so that one with
a slash is accepted and cannot be reached; an expanded scalar becomes a string,
so that `${VAR}` cannot stand for a number or a boolean.

Images: the client's test for attestations wants OS and architecture to be
"unknown" in any case, the page's wants one of them to be exactly "unknown", so
a child for unknown/arm64 is on the row and not on the page, and one for
Unknown/Unknown on the page and not on the row (`PlatformsAgree` speaks of platforms
that are known in full, and of placeholders that both tests know).

## 5. What is proved

The theorems hold for every value of the constants that satisfies the modules'
assumptions; TLC evaluates those assumptions in every run.

**`TTLCacheProofs`.** `CacheTyped`, `CacheBounded`, `CacheStampsOrdered`,
`CacheImplementsStore`, `CacheKeepsWorkingSet`. The bound is not inductive
without types: `Newest(es, K, n)` has at most `n` members only if stamps are
different, so `StampsOrdered` comes first. The working set theorem needs more:
that an entry's stamp is the last use of its key (`EntriesMatchHistory`), that a
key missing from the cache was not among the newest when it was dropped, and that
nothing but a use makes a key newer. The refinement maps each step to the step of
the same name of `LossyStore` and a forgotten entry to a stutter.

**`BearerAuthProofs`.** `AuthTyped`, `AuthSingleFlight`,
`AuthNoRedundantTokenRequest`, `AuthCachesBounded`, `AuthEffortBounded`,
`AuthOverrunBounded`. The mutex invariant ties `pc` to `mutex`; that no token
request is redundant follows from it, since only the holder stores tokens, and
from `Fresh` never becoming true by time. The effort bound needs what each round
may have cost so far. The overrun needs `TokenTimes`: a token on its way was issued
since its request began, which is a timeout ago at most, so a cached one is given up
no later than its end, plus the timeout, less the margin. Nothing is assumed of how
timeout and margin compare.

Two action properties follow from the same invariant and one more each.
`AuthRefusalRenegotiated` needs `ScopesMatch`: a token has the scope it is filed
under, and a retry asks for what the registry wanted of this very request.
`AuthEntitledNotRefused` needs no more: of a token of the scope that the registry
wants and the credentials may have, the registry refuses only one that is revoked or
expired (`Spent`), under any timeouts and revocations.

**`RegistryReadsProofs`.** `ReadsTyped`, `ReadsAgeBounded`,
`ReadsGhostsAreRaced`, `ReadsDigestsFaithful`. The strengthening speaks of the
answers in flight as the properties speak of the cache: how old they may be, and
that one which shows a deleted name has been raced, where names count as deleted
(`Swept`) that an invalidation has followed. `DigestsFaithful` holds for a registry
that serves any bytes for any digest: `misled` has the digests whose own reads were
given wrong ones. Both lifetimes are arbitrary
positive numbers: `cache_ttl` may exceed the hour of digest-addressed content.

**`FanOutProofs`.** `RowsTyped`, `RowsNothingLeaks`, `RowsNeverStuck`,
`RowsLoadBounded`. That counters count their holders is nearly inductive; what it
needs besides is `InPlace`: children run only while their request waits in
`wg.Wait()`, and only rows stand in the queue of `acquire`. The invariant comes in
two halves, one that handlers keep whatever the client does and one the other way
round, and each action is shown to move one goroutine and with it at most one of
each count (`CountDiffers`). `NeverStuck` then follows the waits from the inside:
no one is connected, so a connection is free, so no one holds the mutex, so no
child waits, so no row waits. `RowsWorkShrinks` is the other half of termination, as
far as it can be stated without fairness: `Left` counts the moves a goroutine has
before it at most, through the rounds of `do` and the limits above them, `Work` those
of a request and its children. Each move of a request makes its work less, nobody
else's move makes it more, and it begins at 35 for the request and for each child at
most; so nothing is retried for ever. For `LoadBounded` each fetch is numbered by the slot
of its row and the slot of its child, one to one.

**`CatalogIndexProofs`.** `CatalogTyped`, `CatalogListComplete`,
`CatalogOneWalkWhenCold`, `CatalogStaleBeatsError`, `CatalogGhostsAreRaced`,
`CatalogAgeBounded`. Each property speaks of the list that is shown; its invariant
says the same of everything a list is made of: the cached pages, the pages on their
way and the walks. For completeness (`AllComplete`) a walk misses no steady
repository *up to its cursor*, and that pages end beyond their cursor (`PagesAhead`)
makes the last page complete the list. For ghosts (`GhostsShunned`) a deletion is
followed through its three steps: from the first on the repository is gone or its
return is known, from the second on every answer that shows it has been raced, or been passed by
where the client invalidates nothing (`ClientKeepsPages`), from
the third on every walk and every list. For the age (`AgesBounded`) a walk at cursor
`c` is no older than a lifetime and `c` timeouts. `QueuedCold`, which carries
`OneWalkWhenCold`, says that who found nothing when it queued will find the answer of
this very moment.

**`PagesProofs`, the lists.** `ListingsTyped`, `ListingsTagsComplete`,
`ListingsNoTagTwice`, `ListingsCountExact`, `ListingsCatalogComplete`. The invariant
speaks of every cached page (`PagesStand`: it has all steady tags between its cursor
and the next one, and nothing outside, unless the registry ignores both), of the rows
up to the button (`RowsStand`) and of the catalog up to its offset (`CatalogStands`).
That pages of different ages fit together then takes no more than that each begins
where the rows end. A page is the first `n` of a set in some order, so the lemmas
beneath are about ranks: those of a finite set are 1, 2, ... up to its number.

**`PagesProofs`, the images.** `ImagesPlatformsAgree`, `ImagesCommandsFitHistory`,
`ImagesLayersOfAPlatform`, `ImagesIndexSizeIsUnion`, for all documents of any length.
What they assume of a document is that its lists are finite and sizes integers
(`DocumentsAssumption`), and that `Absent` is no document and no child.
The state only says that row and page were made of the answer (`ImageInv`); the work
is in what they are made by. `Fits` says what `applyHistoryToLayers` leaves behind and
survives `FromManifest`, `StandIn` what `RepresentativeChild` chooses, `HotAreLargest`
what `Hot` highlights. `IndexSizeIsUnion` is about two nested loops and a union that
neither of them mentions; `Accounted` says what the sum is after the blobs at any set
of places have been counted: each blob without a digest once, and each digest with a
size between the least and the greatest that some child declares for it.

Folds are functions on the subsets of a finite set here, and induction on such a
set is a fact about sets (`SetInduction`, from the well-foundedness of the natural
numbers): a set of subsets that has the empty one, and every other one that it has
without its greatest member, has them all (`PickInduction`).

**`TagOrderProofs`.** `TagsNewestFirst`, `TagCompareIsOrder`, `PageKeepsTags`,
`PageIsSorted`, for tags of any bytes and lists of any length up to `MaxListed`.
`naturalCompare` compares token by token, a token being a run of digits or one byte:
`LoopDefined` says that its recursion defines something, by induction on the length
that is left, and `LoopRound` what one round does. Tokens are in a total preorder, in
which a byte that is no digit stands among the runs of digits by what it is, so texts
are (`NaturalSigns`, `NaturalTransitive`), and with "latest" in front and ties broken
by text the comparator is a total order in which only equal tags tie
(`TagCompareIsOrder`). In such an order two insertions commute (`InsertedCommutes`), so
that neighbours may be swapped in the list before (`SortForgetsOrder`). That versions
are in order takes more: runs of digits compare as the numbers they say
(`DigitsCompare`, leading zeros and any length), and while two versions agree the loop
stands at the beginning of a number in both (`GoesOn`), so that it decides where they
first differ (`VersionCompare`). `WordyCompare` is the same for tags without digits.
Since only equal tags tie, every correct sort ends in this list; that lists have at
most 20 tags, where `slices.SortStableFunc` is an insertion sort, is a matter of the
model and not of the result.

**`ServingProofs`, the responses.** `ResponsesTyped`, `ResponsesCoherent`,
`ResponsesErrorsHaveErrorStatus`, `ResponsesEncodersExclusive`,
`ResponsesLogTellsStatus`. There is one lemma for each wrapper of
`http.ResponseWriter`, which says what a call does to the record of a response
whatever state it is in, and one for each step, which says that the response stands
afterwards (`Stands`: what has been decided and sent at each `pc`). Pages with banners
are among the responses, and are pages: `ErrorsHaveErrorStatus` says of error pages and
of texts of `http.Error` that they have an error's status and follow no part of a page,
and of whatever is missing, fails to render or panics that it ends in one. Responses meet in
the pool only: `EncodersApart` says that an encoder is in the pool, with one request,
or nowhere.

**`ServingProofs`, process and configuration.** `ServingIsTyped`, `ServingConfigUsable`, `ServingVerdictHonest`,
`ServingCutsAfterGrace`. `Configured` says that a configuration is what `Parse` made
of some file; that it is usable follows through expansion, defaults, secrets and
validation. `HealthInv` says of probes on their way and of remembered verdicts what
`VerdictHonest` says of shown ones: since when the verdict had been true, or that its
visitor had left. `ShutdownTimed` counts the time a shutdown has waited, and knows the only other way
for a request to be cut off, a listener that fails.

Model-checked only: liveness (`CallsReturn`, `RequestsReturn` and the half
of `StopsGracefully` that the process ends), for it needs fairness and
`ENABLED`. `TypeOK` of the proved modules, `TagsKept` and the measure of
`RowsWorkShrinks` are properties of no run: the theorems show them.

## 6. Plan

The components are modelled, and every safety property that a run checks is a
theorem. What is left:

* `RegistryReads` and `CatalogIndex` over the cache as it is instead of its promise:
  the refinement of `TTLCache` is proved, its composition with them is not.
* Liveness beyond the measure of `FanOut`: from a request's bounded work and
  `NeverStuck` to its return takes fairness, which stays with TLC.

## 7. Not modelled, and why

* Text: parsing of names, challenges, Link headers, YAML and JSON; sanitising and
  formatting. Their results are inputs of the models.
* Presentation: templates, scripts, theme cookie and its redirect, crumbs,
  stylesheets, number formatting.
* `net/http`, the operating system, the registry and the token service, except
  as the nondeterministic environment described above.
* TLS trust, embedded assets, constant headers, the base path: fixed at start.
* The arithmetic of lifetimes in nanoseconds (`auth.go:345`): a token service
  would have to grant three centuries to overflow it.
* `Blob`, which no handler calls.

## 8. Running

```
tlc -config MCRows.cfg MCFanOut
tlapm BearerAuthProofs.tla
```

The runs with their cfg files are listed in `PROJECT.json`; each takes between
a few seconds and three minutes on two cores, and a proof module at most four.
