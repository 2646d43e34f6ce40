# A TLA+ model of the SAX ad exchange

This directory holds a specification of the Sina Ad eXchange (SAX), the program in
`src/openresty/trunk`: Lua handlers that run inside nginx (OpenResty). The rest of the
repository is vendored software (OpenResty itself, redis, drizzle, expat, ...) and unrelated
small scripts.

`PROJECT.json` is the index: components, runs, mutants, the map from definitions to source
lines, findings, hazards, theorems. Paths below are relative to `src/openresty/trunk/src/lua`.

## The system

A **center** (nginx on port 9090, `conf/server_master.conf`) owns the business data in MySQL.
Many **workers** (nginx on port 80, `conf/server_worker.conf`, type `'s'` in table `server`)
answer ad requests. A worker is one host with several nginx processes, which share the memory
dictionary `ngx.shared.sax`. A Lua handler runs alone in its process until it yields at a
query or a subrequest; a dict operation is atomic, a sequence of them is not.

| part | state | operations | interacts with |
|---|---|---|---|
| quota distribution, `center.lua` `updateQpsInfo` | none between requests | gather the traffic counters, divide each DSP's qps quota, send each worker its share | MySQL; workers over `/center/resetqps` (10 s timeouts) |
| qps counters, `model/dsp.lua` | dict keys limit, count (expires after 1 s), total | `getQpsInfoList`, `setQpsLimit`, `getQpsTotal` | `impress.lua` `checkDspQps`; `sax.lua` `updateQpsInfo` |
| object replication, `center.lua`, `sax.lua`, `model/*.lua` | MySQL rows; dict entry per object | update or delete a list of objects, notify the workers, reload entries, `initObjectInfo` | MySQL, `/center/notifysax` |
| ad request, `impress.lua`, `rtb.lua` | `ngx.ctx` of one request | query the ad engine, preferred deals, open auction, network and bottom ads, confirmation | ad engine, DSPs, dict |
| ad requests of other clients, `video*.lua`, `mobile*.lua` | as above | ad engine, preferred deals, open auction, bottom ads (mobile) | as above |
| shared dictionary, `ngx_http_lua_shdict.c` of ngx_lua 0.9.10 | a tree and a queue of nodes in a slab | get, set, add, incr, delete, flush_all, flush_expired | all handlers of a host, through `util.lua` |
| `preview.lua`, `weibo.lua` | none | pass one query to the ad engine | ad engine |
| `click.lua`, `view.lua`, `cm.lua`, `log.lua` | none | redirects, log lines | |
| mobile business data, `saxmob/bdm` | as the center's and the workers', and the list `dspall` | as the center's; every change of a DSP rebuilds the list | MySQL, workers |
| targeting records, `saxmob/tdm` | redis masters and slaves; `ngx.shared.targeting`; per-request object | import, done, delete all, flush, `get_value` | redis, workers |
| hash ring, `saxmob/tdm/c_hash.lua` | table of buckets, built once | `init_consistent_hash`, `get_consistent_hash_peer` | `tdm` |
| mobile ad request, `saxmob/rtb` | as the ad request | one auction among all DSPs | DSPs, dict, `tdm` |

What is hard in this code:

* the center's requests overlap freely, and nothing orders what they send to the workers;
* nothing is sent twice: a notification, a limit or a flush that is lost stays lost, and one
  that times out at the center may still be executed later;
* handlers yield between reading the database and storing into the dict;
* the processes of a host race on the counters, which expire and can be evicted or flushed, and
  each of them has its own cached idea of the time;
* the stages of an ad request share the list of pending units and one auction id;
* an error in a handler is caught nowhere: it ends the ad request, with what was sold in it.

What would make each part correct is stated as properties, listed with the modules below; the
hazards of `PROJECT.json` name the lines where each of these bites.

## The modules

Operators that model code keep the names of the functions in the source. Those
introduced by a comment `Mutant:` are wrong on purpose: each stands for a plausible bug in the
definition after it, and shows that a property notices that bug. They are part of no specification.

### `QpsAlloc`: the distribution of a quota

State: the DSP's row; per worker the limit and the traffic counter of its dict; per round
(one `/center/updateqps` request) its place in `updateQpsInfo` and what it has read and
computed; `late`, the set requests the center has given up and a worker may still execute.
`source[w]`, the round a limit stems from, is history. Actions: `Start` (with the early
return for a DSP without quota), `GatherOk`/`GatherFail`, `Realloc`, `SetOk`/`SetFail`/
`SetTimeout`/`LateSet`, `Finish`; around them `Serve`, `FlushDict`, `UpdateRow`.
`ReallocQpsLimit` gives the set of results the arithmetic may have: whole numbers, except that
`floor(quota * (v / total))` in doubles may fall one short when the exact product is a whole
number (`FallsShort`); the remainder goes to any worker.

* `RoundNeverOverallocates`: the limits in force that stem from one round never exceed the
  quota it read, however rounds overlap and whatever is lost or late.
* `WholeQuotaInUse`: when all workers hold limits of one round, they add up to the quota.
* `SharesSettled`: the inductive invariant behind both.
* `RoundEnds`: a round ends although workers are down.

The sum over all workers is *not* bounded by the current quota while limits of different
rounds coexist; the code makes no attempt at that, and no property claims it.

### `ShDict` and `LossyDict`: the shared dictionary

Everything else stands on `ngx.shared.DICT`, so what it promises is a specification of its own,
`LossyDict`: it may forget, but an entry without expiry goes only when its own key is written,
when all keys are flushed, or when a store says it used force; an entry with expiry may be
missed by one process and still be seen by another; no call returns an older value. `ShDict` is
the implementation in `ngx_http_lua_shdict.c`: the tree, the queue in order of use, `expire` in
its two modes, `set_helper` with its labels, and one cached clock per process. Each call holds
the slab's mutex, so it is one step.

* `ImplementsLossyDict`: the refinement. The abstract entry of a key is its node if some process
  still sees it (`Seen`), else nothing.
* `LeastRecentlyUsedGoes`: a store that makes room never takes an entry that has not expired
  while it spares one used less recently.
* `TypeOK`: the queue links every node of the tree exactly once.

### `QpsWorker`: the counters on a worker

One DSP, several processes, each dict operation one step, on a dict of which no more is assumed
than `LossyDict` promises: `Drop` is expiry and eviction, `FlushAll` is `/sax/initobject`, a
process may find no count key though another does (`Unseen`), and an `addDict` may fail for
lack of memory.

Each ad request that keeps the DSP adds an entry of its own to the sequence `granted` (history),
so that two requests with the same number count twice.

* `WindowCap`: while one count key lives, no more requests keep the DSP than the largest limit
  any of them read.
* `TicketsDistinct`: the race to create the key loses no increment.
* `TotalExact`: the traffic counter is the number of requests since its last reset.

### `ObjectSync`: replication of objects

Requests at the center go through `contentParse`, the statements one by one, and `notifySax`;
each notification is a task on a worker that reads rows, stores entries and goes on to the
virtual object. `/sax/initobject` is the task `Boot`. A behaviour is about one table: a plain
one (`"dsp"`), one with a virtual object (`"resource"`, cached as publisher too), or one whose
dict key is made of columns (`"creative"`; advertisers are the same). The content of a row is
the request that wrote it and its key.

`cause[w]` (history) collects the entries that have an excuse for being wrong: a failed or lost
step, an eviction, an out-of-date row stored over an entry that another handler has stored since
the row was read (`met` in the task collects such entries), a delete that arrives after the id was inserted again, or a row whose key has changed: the entry under the old key is never
removed, nor is it when the key changes between `getObjectId` and the delete. `clash` collects
the keys two rows have had at once.

* `StaleHasCause`: an entry differs from its row only while a change is under way or for such a cause.
* `NotStaleForever`: without a cause it does not stay so.

### `MobSync`: the DSPs of saxmob

The same protocol in `saxmob/bdm`, with its differences: a delete of missing rows is not refused,
and each handler writes the list `dspall` from a query of its own after its entries, also as nil
when that query fails. An ad request asks the DSPs that are on the list and have an entry.

* `EntryStaleHasCause`, `ListStaleHasCause`: as above, for the entries and for the list; in
  particular a handler of one DSP spoils the list for another only if the two overlap.
* `AskedEventually`: a DSP that nothing went wrong with is asked again, and one that is gone is not.

### `Auction` and `Impress`: one ad request

`Auction` is `selectWinner`, which the code has four times, word for word. `Impress` is the
stages of `newImpress` and `wapImpress` in order. The engine gives any answer that stays within
the question, and so do the DSPs except those in `Stray`, because `rtb.lua` does not compare a
bid with the request. Prices are multiples of
`1 / PriceScale`, since any number is accepted as a bid. Order within a sort is nondeterministic where the comparison
allows it, and so is the draw among equal bids.

* `NeverOverfilled`, `PendingIffRoom`, `NoGapInResponse`: the stages' separate bookkeeping of
  the same places agrees.
Nothing catches an error, and two can occur. `checkDspQps` compares a count that is nil
(`CheckDspQpsRaises`; `QpsWorker` shows how that happens). A stray DSP bids for a unit that nobody
knows, before anything is sold, or wins with a creative that is not JSON, on which `fillSign` fails
when its unit and perhaps others are sold (`HandleBidRspRaises`). The stage is then `"failed"`: no
response, no confirmation; what was sold, preferred deals included, is in the log (`book`) only.

`adPendList` is a set in the model. The code does not refuse a request that names a unit twice,
and `removeAdFromPendList` then removes one of the two entries only; such requests are left out
here and in `AppImpress`.

* `WinsAreShown`, `ConfirmedUnderOwnId`: who is told to pay is shown in a response that was sent,
  and told under the id of its auction; nobody is told in a request that has failed.
* `WinnersToldEventually`: every winner with a confirm url is told in the end, or the request has
  failed for one of the two causes (`FailedForCause`): a stray DSP was asked in the auction, or a
  DSP that would have been asked for a unit still pending has no count.
* `PricesFair`: the highest bid wins at the second price. With fractional bids "second price
  plus one" can exceed the winner's own bid, by less than one; the property says exactly that.

### `AppImpress`: ad requests of the video player, the apps and saxmob

Three further handlers with fewer stages: a unit is filled by one source or not at all, and
there is no network and no confirmation. Where they differ from each other (`client`) the model
does: the video player appends to a unit and sells deals at price 0, the others replace; saxmob
drops all units for an unknown ssp of the first one and asks every DSP for every unit; mobile
has bottom ads.

* `PendingIffEmpty`: a unit is pending exactly while nothing was found for it, also when the
  engine names a deal that comes to nothing.
* `SoldIsShown`: a unit shows what was sold for it, unless a stray DSP has won it.
* `CreditedToBidder`: the bid is credited to its bidder, unless a DSP listed earlier has a bid
  url without a host; `saxmob/rtb/rtb.lua` then takes the wrong entry of its list (see Findings).
* `FailsOnlyForCause`: a request fails only in an auction in which a DSP was asked that answers
  what it was not asked, or before one, for want of the count of a DSP that would have been asked
  for a unit still pending (`CheckDspQpsRaises`). All units that are asked for have a price.
* `PricesFair`: as in `Impress`.

The types of this module are left to these properties; it has no type invariant of its own.

### `Targeting`: targeting records

Imports write to the redis masters, one thread per peer; slaves follow; a worker reads
through the request's object, the dict and a slave. A query without an answer (`QueryFail`) leaves
the dict alone; an answer that is an error of redis, or a value that is not JSON, is stored as "no
record" (`QueryError`). An entry carries (as history) whether the slave was behind when it was read,
whether the dict was flushed before it was stored, and whether redis refused the answer.

* `ServesCurrent`: after a flush, an entry that differs from redis was read from a slave that
  was behind, was read before the flush, has changed since, or says "no record" because the answer
  was refused.
* `OneRecordPerRequest`: a request sees one record of a udid, whatever happens in between.
* `FailuresReported`: an id not named in the answer to an import has been written.

### `CHash`: the hash ring

The loop of `_consistent_hash_find` and the loop over the buckets, for any sorted points.

* `SearchBounds`: the loop invariant of the binary search.
* `BucketsRight`: each bucket has the first node at or after its point. After the last node
  the code does not wrap around to the first one: it takes the last node or the one before
  it, and the property says so.

## The runs

| run | bounds | what it shows |
|---|---|---|
| `qps_alloc` | 2 workers, 2 rounds, quotas 3 and 20 | overlapping rounds; both the division without remainder and with one; rounds end. More workers and quotas are covered by the proofs |
| `qps_worker` | 3 processes, 3 requests, limits 0, 1 and 2 | two processes can both fail to create the key while a third uses it up; 3 requests exceed the limit 2, and requests of one window may have read different limits |
| `qps_zero`, `qps_nil_count` | 2 processes, 2 requests | expected violations, see below |
| `object_sync` | 1 object of each sort of table, 2 keys, 2 requests and a reload, `MaxOverlap` 2 | insert, delete, change of key and reload in any order at the worker; no entry stays wrong without a cause |
| `creative_sync` | 2 creatives, 2 keys, 2 requests with one or two ids | lists interrupted in the middle; keys that coincide, change hands, or are left behind |
| `impress` | 2 units (2 and 1 places), 2 DSPs, one of them stray, 2 prices in halves | all stages; both auctions selling in one request, to the same DSP too; bids nobody asked for; errors in either auction and in the check before it, also after a deal was sold |
| `targeting` | 1 id, 2 imports, 2 requests, 1 worker | reads that straddle a flush, a slave that is behind, a query that redis answers with an error, a peer that fails; ids are independent of each other. Two ids on two peers with two imports take more than five minutes, and with fewer imports or requests the races would be lost; `NoFailureOverlooked` covers any number of peers |
| `hash_ring` | 6 points out of 8 hash values, 7 buckets | all rings with ties and with points before the last bucket |
| `shdict` | 3 keys, 2 processes, a slab of 3 units, values of 1 and 2, `MaxNum` 1, `MaxEvict` 2 (30 in the code), `MaxTime` 4 | stores that evict one or two entries or fail; keys that expire on one clock and not on the other; flushes before and after both |
| `mob_sync` | 2 DSPs, 2 requests with one or two ids, a reload, `MaxOverlap` 2 | handlers of different DSPs that meet in the list |
| `app_impress` | 3 clients, 2 units, 3 DSPs, one of them stray, 3 prices in halves | all ties among three bids, and bids closer than 1; every set of DSPs without a host; a missing count before either auction |

Workers do not influence each other except through the center, so one or two suffice;
requests, rounds and processes are interchangeable (symmetry is used in `qps_worker`, `shdict` and `targeting`,
which check no liveness). `CHECK_DEADLOCK FALSE` is
set where the requests of a behaviour are finite and the system then rests. The bounds `MaxTotal`, `MaxBids`, `MaxWindows`,
`MaxFlush`, `MaxNum` and `MaxTime` cap counters that have none in the code; `MaxOverlap` caps how many requests
and reloads are under way at once: two suffice for every race between a handler and another.

**Fairness.** `QpsAlloc`: `WF` of the steps of a started round, because the proxied
locations have 10 second timeouts and `capture_multi` returns then; nothing is assumed of a
worker or of the network, since `GatherFail`, `SetFail` and `SetTimeout` satisfy it as well.
`ObjectSync`: `WF` of the steps of a handler and of "delivered or lost", for the same reason
(MySQL queries have timeouts too). `MobSync`: the same, with the timeout of one second in
`saxmob/common/mysql.lua`. `Impress`: `WF` of the one handler. No
strong fairness, and none for the arrival of requests.

## What is proved

`QpsAlloc_proofs` proves for every number of workers `N`, every set of rounds and all quotas:

* `ReallocExact`: every result of `reallocQpsLimit` consists of natural numbers that add up
  to exactly the quota;
* `SettledInvariant`, `TypeCorrect`, `NoOverallocation` and `NothingLost`, that is
  `SharesSettled`, `TypeOK`, `RoundNeverOverallocates` and `WholeQuotaInUse`.

Assumptions: `NAssumption` (at least one worker), `RoundsAssumption`, `QpsAssumption` (quotas
are natural numbers; `Start` skips 0), `MaxTotalAssumption`.
The two properties are not inductive: that limits of round `r` stay within its quota needs that
what a worker holds is what the round computed, that this never changes once a worker or a
late request has it, and that it sums to the quota when computed. `SharesSettled` says these three things.
Sums are a recursive function over `0 .. N`; the facts about them (monotone, additive, changed
in one place) are proved by induction on `N` through the minimum of a set of natural numbers
(`SetInduction`, from the library's theorem on well-founded minima), as induction with an operator parameter is not available. The
arithmetic rests on `Floor`: the floors of the shares stay within nine tenths, the even part within one
tenth, so the remainder is never negative, whichever quotients fall short.

`Targeting_proofs` proves `ServesCurrent` and `TypeOK` for any number of ids, peers, slaves, imports,
workers and requests. `ServesCurrent` covers the reads under way besides the dict, which makes it
inductive together with `TypeOK`; `ChangeKeepsCause` says why a change on the redis master
needs no look at the readers.

Two more theorems of that module: `OneRecordPerRequest`, inductive with `SameRecord` (what a request
has loaded for an id stays what its answers are based on), and `FailuresReported`, inductive with
`Accounted` (each id of an import is written, reported, or in the hands of a thread that is not yet joined).

The same module proves `BucketsRight`, `SearchBounds` and `RingTypeOK` of `CHash`, for every number of buckets,
of peers (at most as many as buckets, `RingAssumption`) and every choice of hash values. The inductive
invariant is their conjunction with the order of the points.

`QpsWorker_proofs` proves `TypeOK`, `TotalExact`, `TicketsDistinct` and `WindowCap` for any number of
processes and of requests (`LimitsAssumption`: limits are natural numbers; `NilAssumption`: "no
number" is not one). `WindowCap` is not inductive. `TicketInv` says why it holds: a number that a process has in
hand, or that kept the DSP in, was drawn from the count key of its window, so it is at most the
key's value, and no two are equal. The key only grows within a window, so the next number is new. The cap
follows because the numbers map the entries of `granted` of one window one to one into `1 .. limit`.

`MobSync_proofs` proves `TypeOK`, `EntryStaleHasCause` and `ListStaleHasCause` for any number of DSPs,
workers, requests and handlers that overlap (`ContentsAssumption`, `DistinctAssumption`). Neither is inductive:
that a change is under way is not enough, since the handler of that change may have read its rows
before. The invariants (`EntryInv`, `RowInv`, `ListInv`, `NewListInv`) therefore speak of a change that is
*coming*: the request that made the row what it is has not told the workers yet, or its notification
has not been read there, or has the right row in hand. A row in hand that is out of date is excused by
`met`, and `Overlap` says that two handlers running on one worker have indeed met.

`ObjectSync_proofs` proves `TypeOK` and `StaleHasCause` for any number of objects, keys, workers, requests
and handlers that overlap, and any lists of ids (`ListsAssumption`, `TablesAssumption`, `DistinctAssumption`, and
`AbsentAssumption`: "absent" is no key, row or entry). The argument is that of `MobSync_proofs`, but here
a row may change its key and two rows may share one, so it goes by keys. `SyncInv` says of every entry, and of every
row that a handler has in hand, that it is right or `Excused`: a request that wrote the row is
still to tell the workers (`Wrote`), a notification is still to read it (`Notified`) or has the right row
in hand (`InHand`), it has a cause, or the key has clashed. `Fits` is the point of the first two: an
update helps only if one of its ids has the key now, a delete only if none has. `WriteEffect` shows that a statement
changes what is seen at two keys at most, the old one (blamed) and the new one (`Wrote`); `SetKeeps` that storing a row
removes the excuse of its own entry only, when that is right, and that every handler that could spoil it has noted it in `met`.

`AppImpress_proofs` proves the five properties of `AppImpress`, and `Impress_proofs` the seven invariants of
`Impress`, for any units, places, finite set of DSPs, white lists and prices that are natural numbers of
steps. Both rest on the same account of `selectWinner`: a sorted list of the bids has all of them
(`SortedHasAll`: an injection between finite sets of the same size), `Second` is the first lower bid
(`SecondIs`), so every member of `Winners` is `Fair` (`WinnerFair`). A DSP has at most one bid
for a unit (`BidsOfAsked`), which makes the winner's own bid unique. `AppInv` carries `PendingIffEmpty` from the first
stage on, adds that the units of a deal are still empty when the deal is launched, and states `SoldIsShown` for all stages.
For `FailsOnlyForCause` it adds that the units of a deal are pending and their DSP is on the white list.
For `CreditedToBidder`, `RankNumbers` shows that `Rank` numbers a set of DSPs from 1 without gaps, and
`CreditIs` that counting by position names the bidder if no DSP before it was skipped. `ImpInv` adds to
the invariants of `Impress` that what was sold is among the contents until an error ends the request (`BookShown`), that an
unconfirmed `winList[s]` has the id of its auction (`WinsBooked`), that nothing is confirmed before the response
(`ConfirmedLate`), and what holds between the network and the bottom ads (`SettledInv`).
`EndsToldOrFailed` is the safety part of `WinnersToldEventually`: a request that has ended has told every winner or has
failed for a named cause. `EndInv` carries it: a sale waits in the list of its auction until that is confirmed
(`ListedInv`), and a unit with a deal is pending when the deal is launched, as the engine leaves room for it (`DealsInv`).

`ShDict_proofs` proves `TypeOK`, `LeastRecentlyUsedGoes` and the refinement `ImplementsLossyDict` for any
processes, any finite set of keys, any values, sizes, capacity and number of eviction rounds. From
`DictAssumption` they use that a value has a size, that all numbers have the same one (so `incr` can write in
place) and that the clocks start later than 1, the time `flush_all` writes.

* `DictInv` is inductive: the queue links the tree, the nodes fit, and the order of the queue is the
  order of use (`InOrderOfUse`), which ties the queue to the history `used`.
* Every operation on a dictionary is described by two relations that compose (`EvictsTransitive`): `Evicts`, nodes went
  from the tail only and the rest is as before except at the key of the call; `Spares`, only nodes with an
  expiry time went. All calls on a key end in `Called`; stores in `StoreEnds`, where `Spares` may fail only if
  the reply says `forced`. `LeastRecentlyUsedGoes` is `Evicts` read with `InOrderOfUse`.
* The refinement maps the nodes some process still sees (`Seen`). There is one lemma per call
  (`GetMaps`, `AddMaps`, `IncrMaps`, ...); they rest on `LookupFacts`: what a lookup by one process's clock
  finds is seen, and what it misses is absent or may expire. `TickMaps` shows that no entry comes back.
* Nothing recursive is left to the prover's own induction. The filter of the queue (`Without`) and the
  rounds of eviction (`Evictions`) are recursive functions, shown to exist by `LoopRuns` and followed with
  `SetInduction`; the bytes in use are sums over finite sets (`Sums`), compared by `FiniteInduction`.

Only model-checked: the liveness properties (`NotStaleForever`, `AskedEventually`, `WinnersToldEventually`,
`RoundEnds`), which are out of the prover's reach (for `WinnersToldEventually`, that a request ends at all). Every other property of a passing run is also a theorem.

## Findings

* `qps_zero`: the comment on `getQpsInfoList` (`model/dsp.lua:128`) says "limit = 0 means no
  qps limit"; `checkDspQps` drops such a DSP (`impress.lua:180`).
* `qps_nil_count`: the same comment (`model/dsp.lua:127`) gives every entry a count; when the
  second `incrDict` finds no key there is none, and the comparison in `checkDspQps` raises an
  error, as it does in the copies of that check (`video.lua:198`, `mobile.lua:108`,
  `saxmob/rtb/impress.lua:168`). The key may have vanished after the failed `addDict`, this
  process's clock may be ahead of the creator's, or `addDict` may have failed with "no memory".

Four more things the models show without contradicting any statement in the repository, so they
are excuses named in a property rather than violations: saxmob credits bids to the wrong DSP
after a DSP whose bid url has no host (`CreditedToBidder`; `saxmob/rtb/rtb.lua:121-122` skips
the request, `:328` counts answers by position); and an update of a creative that changes
`dspid` or `dspideaid` leaves the old entry in every dict (`StaleHasCause`); a worker that redis
answers with an error (while it loads its data, say) stores "no record" for that udid, without
expiry, until the next flush (`ServesCurrent`; `saxmob/tdm/targeting.lua:111-116`, `:123`); and an
error in the open auction or in the check before it ends a request whose preferred deals are sold
and logged, and whose winners are never told (`WinnersToldEventually`; `impress.lua:180`, `rtb.lua:679`).

## What is not modelled

* layout of requests and responses, urls, signatures, macros, logging and alarms;
* attribute checks beyond valid or not;
* `preview.lua` and `weibo.lua`: one query to the ad engine and one answer, no state and no
  auction; `new_rtb.lua`: no file and no location of nginx loads it;
* click, view and cookie mapping: one request, one redirect or log line, no state;
* `saxmob/bdm/qps.lua` and the counters of `saxmob/bdm/dsp.lua` as modules of their own: they
  are copies of `center.lua` and `model/dsp.lua`, which `QpsAlloc` and `QpsWorker` model;
* operations of the shared dictionary this program does not call; the slab allocator (an
  allocation may fail even if the bytes would fit) and the red-black tree (a function);
* schemas, log rotation, deployment, unrelated small programs;
* vendored software. It is by far the largest part of the repository, and practically all of its C and
  C++: drizzle, redis, two OpenResty bundles with nginx and LuaJIT, expat. The program itself is about
  twelve thousand lines of Lua. Of the vendored trees only the part the program's own correctness
  hangs on, the shared dictionary, is modelled;
* requests that name an ad unit twice.

External parts that appear only through their use: MySQL (one statement at a time), redis (atomic commands, asynchronous
replication, error replies), the ad engine (any answer within the question, as the headers of `Impress` and
`AppImpress` say) and the DSPs (any answer to what they were asked; the stray ones as said there).

## Plan

Done, in this order: `QpsAlloc` with its proofs, `QpsWorker`, `ObjectSync`, `Impress`, `Targeting` and
`CHash` with their proofs; then `LossyDict` and `ShDict`, derived keys in `ObjectSync`, `MobSync`,
`Auction` and `AppImpress`.

Then the proofs about `QpsWorker`, `MobSync`, `AppImpress`, `Impress` and `ObjectSync`, and the other invariants of `Targeting`.
For these, `Selections`, `Rank` and `Credit` are written with functions and sets rather than folds over
lists, the constants have the assumptions the proofs name, and `ObjectSync` keeps its history by entries: by the
ids of overlapping handlers, as before, a third handler could take away an excuse that was still needed.

Last the proofs about `ShDict`, up to the refinement of `LossyDict`. For these the filter of the queue, the
number of nodes `expire` frees and the rounds of eviction are operators of their own (`Without`, `Expirable`,
`Evictions`).

Nothing is planned beyond this. Candidates, if the code they model changes: `new_rtb.lua` once a location loads it, and
the copies of the qps code in `saxmob/bdm` once they differ from the originals.
