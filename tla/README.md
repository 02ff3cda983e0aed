# Verification of canyougrab-api

TLA+ models of the canyougrab domain-availability service, the TLC runs that
check them on small instances, and proofs that TLAPS checks for every instance.

## 1. The system

The service answers "is this domain available?" for single domains, for bulk
lists and for generated names. Its processes share two stores.

| Process | Code | How many |
|---|---|---|
| API | `backend/app.py` and the modules it imports, under uvicorn | 3 worker processes per host |
| Go worker | `cmd/worker/main.go` | one or more per list |
| Python worker | `backend/worker.py` | 3 units; restarted on every deploy |
| Bloom builder, zone sync, parking scanner | `cmd/*`, `scripts/*` | timers |
| Portal | `portal/src`, a single-page application; `portal/docs`, a second one | a document per browser tab |
| MCP server | `mcp-server/` | a stateless client of the API |
| Stripe, Auth0, Turnstile | external | webhooks, logins, tokens |

Valkey holds jobs, lists, rate counters, the domain cache and bloom filters; PostgreSQL holds accounts, keys, usage and scan results.
Python handlers are `async` but call Valkey and PostgreSQL synchronously, so a
handler is interrupted only at an `await`; processes interleave at every store
round trip.

### Components, their state and what makes them correct

**Bulk-check job pipeline** (`app.py`, `name_gen.py`, `valkey_client.py`,
`rdap_router.py`, `worker.py`, `cmd/worker/main.go`). State: the hashes
`job:*`, the two lists, the poll loops of the handlers, the job each worker
holds. Operations: create (split), push, withdraw, poll, fetch, drain; pop,
claim, check, complete, merge, fail; recover; expire. Hard: two-step pushes,
the last-sub-job election, ghost keys of withdrawn jobs, crashes between BLPOP
and completion, errors of the script call. Correct when each key is delivered
once, one worker merges, a merge sees final sub-jobs, results stay in request
order, and every accepted request is answered.

**Rate limit, quota and usage** (`app.py`, `queries.py`, `plans.py`). State:
the per-minute Valkey counter, the usage tables. Hard: check and record are
separate round trips, of several processes. Correct when the overshoot of a
quota is bounded and every accepted request is charged.

**Domain lookup and cache** (`cmd/worker/main.go`, `lookup.py`,
`domain_cache.py`, `cmd/parking-scanner`). State: `dom:*` hashes, written by
several writers field by field. Hard: partial hashes, writes in two commands of
which one may be lost, background writes that outlive the entry, results that
must not be cached. Correct when an answer in the cache expires and an
'available' in it is a registry's own, recent one.

**Zone bloom filter** (`zone_bloom.py`, `cmd/bloom-builder`, `cmd/zone-sync`,
`cmd/worker`). State: a bitmap and its metadata in two keys. Hard: swap of two
keys, two hash implementations. Correct when a swap loses no name that both
filters hold, only a filter with the known names goes live, and the two keys
come to agree. (The code promises more, "no false negatives"; see section 6.)

**Hosted-LLM circuit breaker** (`hosted_llm.py`, callers in `name_gen.py`) and
the **deep-health breaker** (`health.py`). State: failure counter, open-until
time, a semaphore. Hard: awaits between the check and the call, late outcomes.
Correct when no path loses a slot, the two globals of the breaker agree, and it
closes again once the model is back.

**Name-generation gate** (`name_gen.py`, `name_gen_routes.py`): trial counters
and free allowances, read before and written after a long generation.

**Keys, billing and accounts** (`keys.py`, `billing.py`, `users.py`, with
`auth.py` and `antifraud.py` in front). State: the rows of `api_keys`, which
alone hold the plan of an account, and `card_fingerprints`; at Stripe,
subscriptions, payment methods, open sessions and undelivered events. Hard: a
plan is read in one transaction and updated in another, events come late, twice
and in any order, a card is checked and stored in two statements, accounts are
linked and their keys moved. Correct when no key has a plan nobody paid for, a
payment reaches the keys, and a card serves one account.

**Plan catalogue** (`shared/plans.config.ts`): the table that the portal, the
marketing site and, exported, the backend read; two pages keep copies.

**Developer portal** (`portal/src`). State: the React state of the page that is
mounted, the requests of its handlers, localStorage (remembered accounts, the
visitor id that came with a link), Auth0's session of the browser. Hard:
handlers that overlap or outlive their page, answers that are lost, redirects
during which a page lives on or is kept for Back, tabs that share storage, terms
and accounts that change behind a session. Correct when what a page shows is
what the API has or had good reason to say, no button or spinner stays stuck,
the gate opens for accepted terms only, and a visitor's work is not lost.

**Starred names** (`name_starred.py`, `StarredPage.tsx`): a toggle and a list;
the star store between them is external.

**OAuth server** (`oauth.py`): registered clients, pending authorizations,
one-time codes with PKCE, and the API key a token stands for.

**DNS client** (`dns_client.py`): resolver pool with adaptive caps and retries.

**TLD registry, RDAP statistics, plan cache**: process caches with a time to live.

**Parking scanner and validator, Slack, share links, marketing, MCP server,
scripts, monitoring**: I/O around other systems, not modelled.

## 2. Modules

A `MC*` module holds the values of the constants for TLC, a `*Proofs` module the
theorems. Every module's header names the code it stands for; an action is one
store round trip, or what a coroutine does between two awaits. "Variant"
definitions are altered forms of an action or operator, plausible mistakes in
that code; no behaviour of `Next` uses them.

### JobPipeline, BulkCheck

`hash` is `job:*` (status, creation fields present or not, results, whether a
time to live is set), `queue` the lists, `client` the handlers of `do_bulk_check`
and `check_domains_anon`, `worker` the Go workers, `stale` what
`recover_stale_jobs` has read. Each statement that talks to Valkey is an action,
with its failure as a second one (`PushError`, `ClaimError`, ...), which may or
may not have taken effect on the server. A domain is its position in the
request and its result is that position, so a misplaced result is visible.
`classify_domains` is any split of the positions that keeps their order.

`BulkCheck` is what the sender is promised: one reply, at most one array
published per open request, a 200 reply is that array. `ImplementsBulkCheck`
maps the parent's `results` to the array and the handler's answer to the reply.

### QuotaGate

One consumer, several API processes. `rate` is the counter in Valkey,
`monthly` and `minutely` the two usage tables, `proc` where each process is
between `_check_rate_limit` and `create_split_job`. The clock may tick between
any two round trips, so a request can be counted in one minute and charged to
the next, or to the next month.

### HostedBreaker

The globals of `hosted_llm.py` per process (`failures`, `tripped`/`cool` for
`_breaker_open_until`, `free` for the semaphore) and the calls in the queue or
under way. `up` and `doomed` describe the machine at home, which is external:
a call that met it down may fail after it is back.

### ZoneBloom

`live`, `staging` and `meta` are the three Valkey keys of a TLD, `builder` and
`reader` the processes; every command is an action. A bitmap carries, for the
properties only, the names that were put in and who made it. `Words` are the two
halves of the hash as each language takes them, which are not the same two
numbers; `Position` is the double hash with each language's integer width.
`steady` is a history variable of a reader: every filter that has been live
since it read the size held the name, in that size and in its language. Any
zone file is built from, also one that has been cut short.

### DomainLookup

One domain: `entry` is `dom:{domain}`, `lookup` runs `checkDomain` (Go) or
`check_domain` (Python), `probe` is `backgroundProbeForSale`, `scan` the zone
scanner between its two commands, `reverse` the reverse-IP scan. The Go writers
send HSET and EXPIRE in pipelines that are no transactions and drop the error:
each command is an action of its own, another writer's may come between, and
one may be lost without the other (`HsetLost`, `Expires`). Python's pipeline is
a transaction, one action. What a registry, the DNS, the bloom filter or the
terms table says is chosen at each question: the world may change at any time.
`torn` is a history variable: the last pipeline on the entry that wrote an
answer lost a command. `sinceFree` counts the ticks since a registry last said
what the code takes for "not registered" (404, or an answer without an expiry
date). The Python bloom hit
calls `cache_domain(..., ttl=86400)`, which has no such parameter; the
`TypeError` is swallowed and the lookup goes on to DNS, as the model does.

### PlanCatalog, Accounts

`PlanCatalog` is the plan table and its queries; prices and limits are the
numbers of the file. `Accounts` is the backend of the portal. `keys` is
`api_keys` in the order of `created_at`, which PostgreSQL takes from the start of
the transaction: a row is `pending` until its transaction commits, but has its
place. `call` holds the requests and the webhook deliveries under way, each with
what its transaction has read; an action is one statement that others can come
between, or a commit. Every request may fail between two of them, before it
commits. An error *status* of Stripe's is no failure: `_stripe_request` returns
the body, and what is missing in it is taken for absent. `HookDrops` is that for
the subscription a webhook asks about, `UpgradeCard` for the card, `OpenSession`
for the url; the scenario's trait `outage` says that Stripe does the first to
the account. `subs`,
`method`, `sessions` and `events` are Stripe's; an event stays until a 2xx is
seen, so that it comes again, and later than its successors. `wants` is the
scenario: what each account does. `missed` and `raced` are history variables.
They name what the code is exposed to and record it where it happens: a payment
that found no key, met a half-done create or was answered with an error body, a
card or key under two checks at a time. The properties say that nothing else
goes wrong; what they excuse does go wrong, and is in section 6.

### AccountPage, KeyPage, BillingPages

`AccountPage` extends `Accounts` by what both pages have: the account `Me` of
the tab and its requests. A page sends a request by putting it into `call`, and
the backend's own actions serve it. `KeyPage` is `ApiKeysPage.tsx`: `ui` is its
React state, `shown` the rows, a `task` the handler under way (the token, the
request, the list request after it). The keys page of the docs portal and
clients of the API change keys beside it. `BillingPages` is one tab on the
pricing, usage and card pages: `view` is the React state of the page shown,
`wait` says which call a handler awaits, `stray` holds the calls whose page was
unmounted, `adrift` that a card page was left while Stripe confirmed the card
(its handler still asks the API to record it), `leaving` what `location.href`
was set to; the browser gets round to it later. `doc` tells a document on the screen from one left and kept for Back,
whose state then comes back as it was. `LeftUp` names the one flag that then
stays up: that of a redirect, which nothing lowers on the way back.

### PortalSession, StarredPage

`PortalSession` is what stands in front of every page: `main.tsx`, `App`,
`RequireAuth`, `TosGate`, `useSession`, the account menu and the claim of
anonymous lists, in the tabs of one browser, with the session, terms and claim
handlers behind them. `tab` holds the state of each document, `req` the requests
with the account that signed them. `plot` is what happens in a behaviour.
`StarredPage` extends it by a page behind the gate and its handlers.

## 3. Runs

| Run | Shows | Bounds |
|---|---|---|
| `pipeline_faults` | delivery, single merger, quiescent merge, results in place, whole answers, finality, refinement of `BulkCheck` | 1 request of 2 domains, 2 workers on 2 lists, one fault of each kind |
| `pipeline_liveness` | every request that reaches the lists is answered, every hash goes | 1 request, 2 workers, 2 API-side errors |
| `quota_gate` | bounds on rate, quotas and charge; rate keys expire | 2 processes, 2 minutes and a month end, limits 2, requests up to 2, 1 exception |
| `breaker_safety` | slots, agreement, recovery | 2 processes, 3 calls, 2 slots, threshold 2, cooldown 2 |
| `bloom_swap` | a swap loses no name both filters hold, verified filters, catching up | 1 builder, 1 reader, 2 names, 2 sizes, 2 hashes, words of 3 bits, 1 death |
| `lookup_cache` | expiry of answers, freshness of 'available' | 2 symmetric lookups, times to live 1 to 3, 1 failing or lost command |
| `accounts` | plans are earned, a card is shared and a payment missed only in the ways named, paid plans end at Stripe; the keys page is current, shows each new key, rotates one for one | 3 accounts (2 linked), 2 calls, 2 subscriptions, 1 card, 2 paid plans, 3 rows; 9 scenarios; calls and subscriptions symmetric |
| `billing_tab` | no stuck button, honest success, plans shown were earned, the usage page shows something | 1 tab, 2 calls, 1 subscription, 1 card, 1 row; 6 scenarios |
| `portal_session` | the gate, the visitor's work, lists and stars of the right account, the spinner ends, a star pressed goes | 2 tabs, 2 linked accounts, 2 visitor ids, 2 requests, 2 versions of the terms, 2 domains; 4 plots |
| `pipeline_failed_sub`, `lookup_orphan`, `billing_paid` | disagreements, section 6 | as above; `lookup_orphan` without a failing command |

Why these are enough: two sub-jobs are all a request is ever split into, and
two workers are all that can meet at a merge; a third would only wait. The
arithmetic bounds are reached at these sizes (limit, limit - 1, one over), two
processes make the overshoot. A quota of 2 with requests of 2 has every
combination of "below, at and above the limit". Three calls on two slots make
a queue; two ticks of cooldown let an outcome fall before, in and after it.
Two filter sizes are enough to disagree, and 3-bit words make the Go sum wrap
and the two languages' positions differ.
Two lookups of both implementations make every pair of writers, and with the
scanner three pipelines; times to live
keep the order of 5 minutes, 6 to 25 hours, and 3 or 7 days, with the middle
ones equal. The theorems of section 5 hold for all values.

The portal and the accounts are checked in scenarios, because everything at once
is too much for two calls and TLC. A scenario names the kinds of request an
account makes and is chosen initially; within it every interleaving, failure
and repetition is possible. Two calls make every pair of transactions
overlap, webhooks included; `MaxKeys` bounds the rows at two for the account that
rotates and three on the page (two creates beside what there is). Two paid plans are
needed to be switched between and told apart, two subscriptions to end one of
them. The scenarios pair what can disturb each other: creates and rotations
with a payment; the card check of two accounts; a payment with a card that comes late and a
cancellation; a change of plan; a second subscription. In
`portal_session` the plots pair two tabs with two visitor ids, two accounts
with a claim and the history page, terms with a deployment and a merge, and
stars with stars from elsewhere. Reloads are possible at any time.

TLC takes 270,000 states with liveness for `billing_tab`, 1.4 million for
`accounts` and 1.9 million for `lookup_cache`; one more call takes each past
five minutes.

Deadlock is checked except where the system may stop: in `JobPipeline` when
every request of the bounded set has been answered and has expired, in
`QuotaGate` after the last minute. In `KeyPage`, `BillingPages` and
`StarredPage` every account may have done what it wanted, and a promise that
never resolves (`getTurnstileToken`) holds a slot for good.

## 4. Fairness

Only the liveness properties use it.

- `JobPipeline`: handlers and workers take the steps they can take (event loop,
  goroutines), keys with a time to live expire, a started recovery goes on.
  Faults and requests are never forced. The poll loop of a patient request is
  long enough; one that is not is covered by the safety runs.
- `QuotaGate`: a started request goes on, the clock ticks, expired keys go.
- `HostedBreaker`: `HOME_LLM_QUEUE_TIMEOUT` and the HTTP timeout end every call,
  time passes, visitors keep asking. Nothing makes the machine come back:
  `Recovers` assumes that it stays up from some time on.
- `ZoneBloom`: a build goes on, and the daily timer brings, again and again, a
  zone file with the names that are verified (strong fairness of `Build`, which
  is disabled while a build runs).
- `BillingPages`: handlers of the API and of the page run to their end (a
  request is answered or fails). Asking for the numbers is strongly fair,
  because it needs a free call, and others come and go.
- `PortalSession`: requests are answered, Auth0 settles (its library has a
  timeout), and a document asks for its session, strongly fair for the same
  reason. Nothing makes users go anywhere; a user who reloads for ever sees the
  spinner for ever, and both properties say so.

## 5. Proofs

TLAPS checks these for every value of the constants that satisfies the named
assumption of the module (types and signs; finiteness where something is
counted).

- `JobPipelineProofs`. `CoreInv` strengthens delivery with where a key may be:
  one that its handler may still push is nowhere (`PushedOnce`); a completed one
  will never be worked on again (`CompletedIsSpent`), which is what makes the
  last-sub-job election sound; a merge finds every key of its job spent
  (`MergingIsSpent`). From it: `TypeCorrect`, `DeliveredOnce`, `OneMerger`,
  `MergeIsQuiescent`. Then about what is in the arrays: `PipelineInv` says of
  every array, in a hash or in the hands of a worker or handler, that its
  results are at their own positions (`StoredArrays`, `WorkerArrays`,
  `ClientArrays`), that a request that is waited for keeps its hashes (`Kept`),
  and that without errors of workers a merge finds both sub-jobs completed and
  fills every position (`WholeArrays`). It needs `CoreInv`: nobody may write to
  a sub-job that is being merged. From it `ArraysInPlace`, `AnswersAreWhole`,
  `CompletedStaysSo`, and the refinement `PipelineImplementsBulkCheck`: every
  step of the pipeline is a step of `BulkCheck` or changes nothing that it knows
  of. `SafetyCount`, the length of a merge that cannot read `domain_count`, is
  any positive number.
- `QuotaGateProofs`. Neither bound is inductive alone: `QuotaInv` says that
  below a limit anybody may pass, and from the limit on only the processes that
  owe a charge can still raise the usage, each by one request. From it
  `MinuteQuota` and `MonthlyQuota`. `RateInv` counts, with those who passed,
  those who have been counted and not let through yet, and in a minute that is
  over everybody still on the way (`RateLimit`). `WorkInv` says that what has
  been pushed and what is in hand for it is at most what was charged to minutes,
  and that in the same way at most what was charged to months (`WorkCharged`).
  Sums over processes are a recursive function; what is needed of them is proved
  with a least counterexample (`WFMin`), which takes no operator parameter.
- `HostedBreakerProofs`. `BreakerInv` adds that a call is in one place.
  `SlotsAreAccounted`, `BreakerAgrees`.
- `ZoneBloomProofs`. `BloomInv`: every bitmap that exists holds its names' bits,
  and what a steady reader asks for is in the live filter and not missed so far.
  `NothingIsMissed` holds for any number of builders that overlap in any way,
  which the run does not cover; it says nothing of readers whose size or
  language is not the filter's.
  `OnlyVerifiedGoesLive` has one builder as its hypothesis, because with two it
  is false: `StagedInv` says that what lies in the staging key is what the
  builder put there, from which it is known when it is renamed. It is about the
  known names only.
- `DomainLookupProofs`. An entry with an answer and no time to live is excused
  while a writer between HSET and EXPIRE is about to give it one (`Pending`); so
  `LookupInv` says which answer stands under a pending EXPIRE, that the oldest
  'available' there is fresh enough for the longest time it may be given
  (`PendingIsFresh`, `Grace`), and carries freshness through a pending write:
  what a lookup is about to write is at most one tick older than it should be.
  The assumption that Go's time to live for 'available' is longer than the
  others is used there. `EveryAnswerExpires`, `EveryFreeAnswerWasConfirmed` and
  the action property `ConfidenceIsEarned`; all three except a torn entry.
- `PortalProofs`, over `StarredPage` and so over all of `PortalSession`.
  `PortalInv` ties the requests under way to the tabs: a request that a tab
  still waits for is of the account, and for lists of the page, that the tab
  shows, because whatever changes either gives its requests up (`Belongs`). A
  session, in a tab or on its way, that would open the gate names an accepted
  version (`Honest`), and a good answer to a claim means an owner or a mishap.
  From it `GateIsHonestHolds`, `NoVidLostHolds`, `ShownIsMineHolds` and
  `PortalTypes`. In `StarInv`, a tab that is not `astray` (its toggles
  overlapped or failed, or somebody else changed the stars) has one request
  under way at most, shows what is stored until its toggle is done, and gets a
  list that is. `StarsAgreeHolds`, `UnstarOnlyRemovesHolds`.
- `AccountsProofs`, over `KeyPage` and so over all of `Accounts`. `AccountsInv`
  adds to what the runs check what is about to be written: the plan in a
  webhook's hands is earned, as are the plans in Stripe's events; a create or a
  rotation holds a row no one else holds and no one sees; a card check that came
  out well still does, unless it had company (`CheckHolds`); and a subscriber's
  checkout is either on all of its keys or not acknowledged (`ServedOrTold`).
  The assumption that `Links` is transitive is what Auth0 does: a primary
  account has all the identities. From it `PlansEarned`, `CardsShared`,
  `PaidServed` and `PaidEnds`. Of the page, for any number of handlers at a
  time: `KeySeen` (`SeenInv`: without overlap one handler hides the page and
  draws it again), `OneForOne` (`OneKeyInv`: a rotation holds the only key) and
  `PageCurrent` (`CurrentInv`: the handler that has changed a key has the list
  asked for before it ends). The last two have a hypothesis on `Links`, since a
  merge brings keys: `NoOneJoinsMe`, that no account is merged into the one on
  the page, and `MeApart`, that this one is not merged into another either. The
  instance satisfies both: its page is the third account's.
- `BillingProofs`, over `BillingPages` and `AccountsInv`. `BillingInv` says that
  a handler awaits a request of its own kind, which no one else takes up
  (`AwaitsOwn`), and that a good answer is true and stays so while it is under
  way (`AnswerTrue`): what Stripe has sold and whose a card is are never unsaid,
  so an answer may be late but not wrong. `FlagHasCall` says that only the flag of a
  redirect is ever up without a call, which is what makes `LeftUp` the only
  exception after Back. From it `ButtonsComeBack`, `SuccessRecorded` and
  `ShownEarned`. `PagesInit` starts with nothing bought or
  with a subscriber who is served already, and the proof covers both.

Only model-checked: all liveness (`AnsweredInFull`, `HashesExpire`,
`RateKeysExpire`, `Recovers`, `MetaCatchesUp`, `UsageShows`, `SpinnerEnds`),
which is out of this prover's reach. Every invariant and every action property
without fairness that a passing run checks is also proved.

## 6. Where code and documentation disagree

Runs that end with a counterexample:

- `pipeline_failed_sub`: the completion script wants `completed` of every
  sub-job, so a job with a failed sub-job is never merged and times out,
  although both merge functions have code that fills its gaps.
- `lookup_orphan`: a sale probe, or the reverse scan, that writes after the
  entry is gone (or was never written) makes a hash without a time to live,
  and any field is a cache hit: the domain has no answer from then on.
- `billing_paid`: `_update_user_plan` writes a paid plan to the keys there are
  and nowhere else. An account that subscribes before it has a key, or while
  one is being created or rotated, is not on the plan it pays for, although
  every event was handled (`PricingPage.tsx:153`: "Subscription activated!").

Seen while modelling, without a run.

The API and its workers:

- A Python worker that starts fails jobs that live Go workers are checking, not
  only those of crashed workers (`worker.py:92`).
- The semaphore of the hosted model is per process, and three processes run, so
  the one machine gets three times the calls it has slots for.
- The filters of the two languages differ for practically every name: Python
  reads the digest, which is big-endian, with `<Q` (`zone_bloom.py:46`), Go takes
  `Lo` and `Hi` (`bloom-builder/main.go:65`), though its comment says "matches
  Python" (`:62`); and Go's `h1 + i*h2` wraps at 2^64 (`Words` and `Position`
  model both).
- "The domain is guaranteed NOT in the zone" (`zone_bloom.py:73`; `:12` says
  "impossible") holds for a reader of the builder's language and size. A reader
  that took the size before a swap, or comes between the RENAME and the HSET of
  the size, or after a builder died there, looks at the wrong bits, and the
  transaction that could join the two commands is not used.
- A zone file that was cut short is noticed only if a known name is missing; a
  TLD without known names is not verified at all.
- An EXPIRE of the Go writers that is lost after its HSET leaves an answer that
  stays for good or as long as the answer before it (`worker/main.go:247`,
  `parking-scanner/main.go:310`); the properties call such an entry torn.
- A worker that dies after BLPOP leaves its job in `processing`: nothing
  retries it, while the repository's `README.md:441` speaks of retries and failed-job
  tracking (the RQ path that had them is not reached).
- The rate key gets its time to live in a second round trip that only the
  request that made it sends; `RateKeysExpire` therefore assumes no request
  ends in between.
- `hosted_llm.py:78` says one probe after the cooldown; every call that asks
  then is let through.
- The time to live of an available domain is 5 minutes in Python and in
  `docs/api-response-enrichment.md:194`, 3 days in the Go worker, which serves
  the requests.
- `health.py:82` reads filters with the Python implementation and
  `health.py:437` expects the source `zone_bloom` where Go says `bloom`.

Accounts and billing:

- "Switch Plan" makes a second subscription beside the first
  (`billing.py:172` asks nobody); the end of the first then takes the keys off
  the plan of the second. `ServedUnlessMissed` speaks of accounts with one
  subscription that never changed for this reason, and because
  `customer.subscription.updated` is taken from the event, so that an old one
  that comes late wins.
- `card_fingerprints` allows a card two owners, and `confirm_free_plus` and
  `_handle_free_plus_upgrade` look before they insert, in a transaction that does
  not exclude another (`SharedOnlyIfRaced`).
- `merge_user_data` moves keys "and all data", but not cards, stars or lists;
  the subscription's metadata still names the old account, whose events then
  reach no key.
- Two rotations of one key at a time leave two successors; rotating a disabled
  key gives an enabled one.
- A webhook for a price that is not in the catalogue is acknowledged and dropped.
- `_stripe_request` looks at no status (`billing.py:60`). When Stripe answers the
  webhook's question about the subscription with an error body, the event is
  acknowledged and the payment recorded nowhere (`HookDrops`); when it does so
  to the card check, the card is taken for missing; and the pages get an empty
  url with a 200. The same reading of a failed customer search makes a second
  customer, which is not modelled.
- `accept_tos` without a row answers a pair, which is a 200; it records the
  current version, though the page may have shown an older one.
- `claim_anon_lists` answers 0 when the database fails; the portal then forgets
  the visitor id.
- `toggle_star` is called idempotent; a retry stars again.

The portal:

- `CardSetupPage` renders the card element's container only after it has looked for it, and
  nothing sets the `setup_intent_secret` it reads.
- Its `loadStripe` keeps a rejected promise: "Try again" needs a reload.
- "Card verified! Your account has been upgraded" is shown on return from
  Stripe, before the webhook has checked whose card it is.
- Back from Stripe to a kept document finds the button of the plan disabled
  until a reload: `LeftUp`, the exception that `BusyHasReason` names.
- A handler whose page was left still assigns `location.href` when its answer comes.
- A disabled key vanishes from the keys page, which shows active ones, so that
  "Enable" and "Disabled" (`ApiKeysPage.tsx:249`, `:335`) are never drawn.
- `getTurnstileToken` may never resolve; the form then says "Creating" for good.
- `claimPending` clears whatever visitor id is stored by then. `SavedNamesPage`
  loads once and may miss a claim that lands after it.
- An error on the starred page stays until the page is left.
- The docs portal's `createKey` and `rollKey` drop the new key, which is shown
  only once; its `deleteKey` calls a method the API does not have.
- The docs portal sells the plans at 10, 20 and 30 dollars, the catalogue at 5, 7
  and 9; `getPer100Cost` of Business is "0.00".

## 7. Not modelled

Listed with the reason in `PROJECT.json`. In the portal: pages without state
(terms, API reference, interactive), avatars, buttons, logging, the clipboard,
and the docs portal's copies of the usage and card pages. In the accounts:
verification of tokens, signatures and mail addresses, the marketing choice, and
the fields of a key, list or star that no property is about; a failing request
before its first statement is one that was not sent. In the older parts: the single
queue of `SPLIT_PIPELINE=off` (a job without sub-jobs has the same shape); the
RQ executor (unreachable); reports that only read; the plan cache (limits are
constant in a behaviour); registration details in the cache hash; RDAP
statistics; parsing and fetching of zone files. `ZoneBloom` is checked with one
builder: builds come from one
daily CronJob (`scripts/zone_bloom_builder.py:8`). Nothing in the code keeps a
second build, started by hand, from overlapping: `LiveIsVerified` is
then not promised, `NothingIsMissed` is.

## 8. Plan

| Order | Modules | Abstract specification | Theorems |
|---|---|---|---|
| done | `JobPipeline`, `BulkCheck` | one array per request, one reply | types, delivery, one merger, quiescent merge, results in place, finality, the refinement |
| done | `QuotaGate` | – | the three overshoot bounds, work is charged |
| done | `HostedBreaker` | – | slots, agreement |
| done | `ZoneBloom` | – | a swap loses nothing; with one builder only verified filters go live |
| done | `DomainLookup` | – | expiry, freshness |
| done | `PlanCatalog`, `Accounts`, `KeyPage`, `BillingPages` | – | plans earned, cards shared, payments served, the keys page; reasons for busy buttons, success and plans shown |
| done | `PortalSession`, `StarredPage` | – | types, gate, visitor's work, owner of lists, stars |
| 7 | `NameGenGate`: trial and free counters | – | allowance bound |
| 8 | `OAuthFlow`: pending requests, one-time codes, tokens | a code is spent once | code and token life cycle |
| 9 | `ResolverPool`, the deep-health breaker, the TLD registry cache | – | – |
