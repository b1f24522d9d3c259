# A verification project for the Corazium control plane

Corazium manages a fleet of Coraza WAF nodes. A Go control plane
(`src/backend`) keeps the policy, answers the REST calls of a Next.js console
(`src/frontend`), and pushes the policy to edge agents over gRPC streams. This
directory holds TLA+ modules of its parts, TLC configurations that check them
on small instances, and proofs for every value of their constants.

Go paths below are relative to `src/backend/internal/`: `store.go` is
`store/store.go`, `server.go` is `grpcsrv/server.go`, `router.go` is
`api/router.go`, `persist.go` is `store/persist.go`. TypeScript paths are relative
to `src/frontend/src/`: `api.ts` is `lib/api.ts`, `rules/page.tsx` is
`app/(console)/rules/page.tsx`, `route.ts` is the proxy
`app/api/v1/[...path]/route.ts`.

## 1. Inventory

| component | state | operations | works with |
|---|---|---|---|
| policy store (`store.go`) | maps of sites, CRS categories, rules, exceptions, IP entries, rate limits, feeds, bots; `VersionSeq`, `ConfigVersion`; one `RWMutex` | create, update, delete; every one but two bumps the version under the lock | called by REST and gRPC; writes through to PostgreSQL |
| node registry (`store.go:74-129`) | `Nodes`: status, `SyncStatus`, displayed version | `UpsertNode`, `Heartbeat`, `MarkSynced` | gRPC service, fleet page |
| REST handlers (`router.go`) | none | validate, call the store, `policyChanged` | console, store, `NotifyConfigUpdate` |
| NodeControl service (`server.go`) | `notify`, one buffered channel; per stream a handler and an ack goroutine | `Register`, `StreamConfigs`, `Heartbeat`, `NotifyConfigUpdate` | store, agents |
| edge agents (`src/backend/cmd/nodetest`) | configuration, stream | register, stream, ack, heartbeat | NodeControl |
| persistence (`persist.go`, `migrations/`) | tables of the policy | write-through, seeding of empty tables, reload at a start | store |
| accounts (`auth/auth.go`, `router.go`) | users, signed tokens naming an e-mail address | login, change of password, name, role | console |
| audit log (`store.go:520-560`, `router.go:260-300`) | entries, newest first, at most 100000 | ingest with a cut, list with filters | edges, Log Explorer |
| start and jobs (`main.go`, `jobs/queue.go`) | none | order of the start, scheduler, HTTP and gRPC servers | everything |
| overview, sandbox | none | aggregate, match | console |
| pages of the console (`app/(console)`) | per page: a copy of some collections, an editor, a form, a toast | clicks, optimistic edits, refreshes after a change | REST through the proxy |
| session (`api.ts`, `proxy.ts`, login, shell, profile) | token in a cookie and in localStorage | sign in and out, guard of documents, reaction to a 401, rename | accounts |
| same-origin proxy (`route.ts`) | none | forwards a request and its answer | pages, REST handlers |

Behaviours that are hard to test here:

* **sendUpdate is not one read.** It is given a version read earlier, then
  reads the rule bundle, the CRS toggles and a site's tuning one after the other.
  Handlers edit all three in between, and `DefaultPolicy` takes no lock.
* **One channel for all streams.** A ping wakes one handler, may be posted out
  of order, may find the channel full, and may be taken by the handler of a
  connection that is already gone.
* **Late acks and heartbeats** name versions the store, or the agent, has left.
* **Restarts** set the version counter back to v104, forget the registry, and
  restore a mix of seeded and stored policy.
* **Identifiers** are the size of a map plus one, while rows bear UUIDs.
* **Two-step changes**: `updateSite` and `changePassword` read in one critical
  section and write in another.
* **A page is a cache without invalidation.** Calls overtake each other; an
  optimistic edit is not taken back when its call fails; some writes are followed
  by a refresh and some are not; editors and panels send copies taken earlier.
* **Answers outlive their page**, a 401 outlives the token it is about, a rename
  kills every other token, a token is written to its two copies one after the other
  while other tabs read them, and two places that see different halves of a session
  (the guard the cookie, the page the 401) redirect to each other.

`PROJECT.json` lists each of them at its line, with the properties that watch it.

## 2. What correct means, and the modules

| module | component | what makes it correct | proofs |
|---|---|---|---|
| `EdgePolicy` | *abstract specification* of the distribution: which configurations an agent may be given | nothing taken back, nothing ahead of the store, nothing old under the present version | as what `ConfigSync` implements |
| `ConfigSync` | push: versions, REST mutations, NodeControl, agents; **implements `EdgePolicy`** | the promise of `EdgePolicy`; a status of IN_SYNC is earned; all agents converge, and stay so | `ConfigSyncProofs` |
| `PolicyStore` | rules, IP list, exceptions and their tables | no row outlives its rule; no two rows for one network; identifiers do not stray; additions replace nothing; state survives a restart | `PolicyStoreProofs` |
| `PageSync` | *abstract specification* of a page: what it may show, send and forget | a page at rest shows what the server holds | `PageSyncProofs` |
| `Console` | every page, its handlers and callbacks, the proxy, and the REST handlers as the pages see them; **implements `PageSync`**, contains `AuditLog` | the promise of `PageSync`; no call leaves half a row; messages go away | `ConsoleProofs`, `ConsoleRowsProofs` |
| `AuditLog` | ingest with its cut, the two filters over the log | the newest entries are kept; both filters agree | `AuditLogProofs` |
| `Session` | token, guard, 401s, sign in and out, rename, several tabs | a token cleared stays cleared; a rename keeps the session; redirects end | `SessionProofs` |

`LeastNumber` holds two lemmas on the least number of a set, for the modules
that CHOOSE a first free place and for inductions over numbers. `MC...` modules give the instances for TLC. Not
composed: `ConfigSync`, `PolicyStore` and `Console` speak of the same REST
handlers, each with the part of their effect its properties need (what an
update carries, what a table holds, what a page shows), and share no state
beyond that; `Session` and `Console` share the browser, but a token decides only
whether a call is answered, which `Console` covers by letting any call fail.

Left of the plan: `SiteTuning` (the three fields `updateSite` fills from an older
read), passwords and a second account, outages of the database and the
remaining tables of the store, the order of the start. Section 7 says why.

## 3. ConfigSync and EdgePolicy

### The abstract specification

`EdgePolicy` has no messages, pings, streams or handlers: a policy whose parts are
rewritten, a version, and what each agent runs. At any moment any agent may be given
any configuration, as long as it (`Deploy`) takes no part the agent has from this process
back to an older edit, contains no edit and bears no version that the store has not
reached, and *is* the policy if it bears the version of the policy. A configuration
need not be a snapshot of one moment: `sendUpdate` does not take one, and what the code
promises is only that the mixture is labelled as old. A restart changes the policy
but no agent. `EdgePolicy` stands for no lines of its own.

`ConfigSync` implements it under the mapping in which the agents' configurations,
the policy and the version are themselves, and `unsettled` is `Writing`, the site
whose tuning is between two assignments. `EdgeSpec` is that claim.

### State and actions

The policy is reduced to what a `ConfigUpdate` carries: rules and exceptions
(one bundle), CRS toggles, and the tuning of each site. A part holds the number
of the edit that wrote it, so that two parts are equal exactly when the same
edit wrote them. A version is its number; `""` is 0.

One action is one critical section of `Store.mu`, one channel operation, one
stream operation, or one read without the lock:

* `CreateRule` ... `DeleteException`, `ToggleCrs`, `AddIp` ... `UpdateBot` are the
  store operations behind the mutating routes. They differ in what they edit,
  in whether they bump the version, and in whether their handler notifies:
  `DeleteException` never does (`router.go:348`), `UpdateRateLimit` and
  `UpdateBot` notify without a bump.
* `BeginUpdateSite`, `FinishUpdateSite`: the only critical section in two steps.
  `DefaultPolicy` reads without the lock, so the state between two field writes
  can be seen; it is an edit of its own.
* `ReadVersion`, `PostPing`: `NotifyConfigUpdate` reads the version, then tries to
  send it. A full channel keeps the older pings and drops the newest.
* `OpenStream`, `ReadBundle`, `ReadToggles`, `SendUpdate`, `Wake`, `Return`: one
  `StreamConfigs` handler. `Wake` sends again whenever the ping differs from the
  remembered version, newer or not.
* `ReceiveAck`, `Register`, `HeartbeatKnown`, `HeartbeatUnknown`, `Enroll`: the ack
  goroutine and the unary calls. An unknown node is enrolled in a second critical
  section.
* `ReceiveUpdate` and its ack follow the simulator in `src/backend/cmd/nodetest`, which
  does each exchange once and ends; that a real agent goes on receiving, and beats with
  the version it runs (`SendHeartbeat`), is the protocol's (`node.proto`, two streams
  and `HeartbeatRequest`). `RejectUpdate` and `ReSync` are what the protocol lets an agent do
  (`ConfigAck.applied`, `desired_config_version`); no agent code is in the
  repository, so they are marked external.
* `Register` updates the registry. Its answer carries the version and the bundle as
  well (`server.go:47-51`); the only client in the repository prints it and waits for the
  stream, so in the model no agent takes a configuration from it. An agent that did would
  run the rules of one moment without the toggles and the tuning.
* `Seeded` is what the seed says of each node. `SeedDemo` enrolls four, two of them
  `PENDING_UPDATE` at a version that is passed (`seed.go:10-16`); an agent may bear such an
  identifier or be new (`Absent`).
* `ConnectionLost`, `Restart`. A restart restores the version, tunings and
  toggles of the seed (no row for either is ever written), and rules that are
  the seed's, the database's, or a mix. Agents keep what they run: one that restarts
  and comes back with nothing is outside the model.

`asOf` and `epoch` in a configuration, `edits` and `epoch` are ghosts: they say when
a configuration was read and let properties compare edits. The CRS comment lines
of the bundle and the displayed names of nodes are left out. The fields that
`registerNode` adds through REST concern identifiers no agent uses.

### Properties and runs

| run | shows | instance |
|---|---|---|
| `push` | `TypeOK`, `PushFresh`, `EdgeSpec`, whatever is changed | 1 agent, 1 stream slot, 1 REST handler; toggles, tunings, bumps that no update carries, pings without a bump; refusals; versions 1-3 |
| `reopen` | `PushFresh`, `NoRollback`, `RecoveryHonest`, `StaysCaughtUp`, when two handlers race and one of the old stream is still at work | 1 agent, seeded PENDING_UPDATE, 2 stream slots, 2 REST handlers; rules; 1 lost connection; versions 1-3 |
| `converge` | `Convergence`, and `EdgeSpec` across a restart | 1 agent, 2 stream slots, 1 REST handler; rules and silent deletions of exceptions; 1 restart; versions 1-3 before it, 1-2 after it |
| `wakes_all` | `WakesAll` **fails**: with two streams one change wakes one | 2 agents, 2 streams |
| `bumps` | `BumpsAfterAnyMutation` **fails**: a deleted exception wakes nobody | 1 agent, 1 stream, 1 handler |
| `refused` | `RefusedStaysPending` **fails**: a refused version turns a node IN_SYNC | 1 agent |
| `tuning` | `SameTuning` **fails**: which site's tuning is pushed is the order of a Go map | 2 agents, 2 sites |

`PushFresh` is why reading the version first is right: content read later than
the version can only be newer, and a bump in between makes the label old.
Swapping the two reads breaks it. `NoRollback` is about content: the *version*
an agent runs may go backwards, when a stale ping is taken, and then newer
content travels under an older label; heartbeats repair the label.
`RecoveryHonest` is stated until the first restart. After one the counter starts
again and an agent may hold a version of the previous process under the same
number as other content; if the counter passes that number while the agent is
away, a heartbeat declares it IN_SYNC. `Convergence` nevertheless covers a
restart, because the agent has lost its stream and gets the policy when it opens
another. A node is shown IN_SYNC when it is enrolled, before it has any
configuration; `RecoveryHonest` therefore speaks of nodes that were
PENDING_UPDATE. Nor does it speak of a heartbeat that names no version
(`ReportsNothing`): the store believes such a node to be in sync whatever it was
before (`store.go:123-127`), so a seeded PENDING node whose agent has nothing yet is shown
IN_SYNC at its first beat.

`StaysCaughtUp` is the safety half of `Convergence`: when all agents run the store's
content under its version, are shown IN_SYNC, and whatever is still on its way
(pings, updates, versions being posted, heartbeats) bears that version, only a
change or a restart undoes it. Late *acks* may name any version, since `MarkSynced`
ignores what is not current; a lost connection, an ack, a re-sync, and a
bundle read anew change nothing. A comparison in `Heartbeat` that were off by one would
keep such agents re-syncing for ever, each round harmless to every other
safety property.

**Bounds.** The channel holds one ping instead of 64, so that it is full after one
change and the drop happens within two; with more room fewer pings are lost. Two
further versions (`MaxSeq = 3`, from `FirstSeq = 1`) let a version be read, overtaken
and overtaken again; after a restart one further version is enough to meet a number
an agent still holds, so a restarted process gets one fewer (`MoreVersions`). One
message in flight in each direction of a stream is enough to have an update on its
way while the next is being read. Two REST handlers are needed for pings out of
order and two stream slots for a reopened stream: `reopen` has both, and then
one kind of change is enough, since what differs between the kinds (what is
written, whether the version is bumped, whether a ping follows) is met by one
handler in `push`. The proofs cover any number of either. Agents, slots and handlers
are symmetric in the safety runs; `converge` uses no symmetry. Deadlock is checked in
all of them: agents beat for ever.

**Fairness** (`FairSpec`). Weak fairness of goroutines that have begun: the end of a REST
handler, a stream handler, an ack goroutine, a heartbeat call. The Go scheduler
runs a runnable goroutine, the mutex does not starve, and sends to the channel
never block. Weak fairness of a live agent: it opens a stream, reads it, beats,
and follows a request to re-sync; this is what `node.proto` asks of an agent, the
simulator does each of it once. No fairness is
assumed of administrators, losses and restarts, nor of `Register`, `RejectUpdate` or
`ConnectionLost`. `Convergence` depends on agents obeying `desired_config_version`: the
push alone does not get every agent there, as `wakes_all` and `bumps` show.

### Proofs (`ConfigSyncProofs`)

Assumed are only the named assumptions of the module: there is a site, site names
are not `"rules"` or `"crs"`, `NoStream` is no stream, capacities are positive, the
first version is not 0, and the seed says of a node what a registry can say. Agents, streams, handlers and sites are arbitrary sets.

* `TypeCorrect`: `[]TypeOK`.
* `PushedIsFresh`: `[]PushFresh`. `PushFresh` speaks of finished messages and is not
  inductive. `PushInv` adds: no version in a ping, a handler or a stream's local
  variable is ahead of the store's; a handler between its reads holds a label no
  newer than the version at its first read, and if that version is still the
  store's, what it has read is still the store's content; the same of messages
  and agents. Every edit bumps the version, so it makes that premise false; a site
  being written is excused until the write ends, which bumps the version as well.
* `RecoveryIsHonest`: `RecoveryHonest`. Only the version string is compared with the
  store's, so the proof needs that *the agent has content at least as new as what
  the string stands for*. `LinkInv` orders messages on a stream, the handler's
  reads and the agent by the version at which their content was read; `BeatInv` and
  `AckInv` say that a heartbeat or an ack in flight names a version no newer than
  that. With `PushInv`, a named version equal to the store's gives current content.

* `UpdatesNeverRollBack`: `NoRollback`. Versions do not order what an agent is given, since
  pings come late; the *edits* do. `EditInv` is the order of `LinkInv` part by part: what
  an agent got from this process, then the messages on its stream from the front to
  the back, then what `sendUpdate` has read so far, then the store, never hold an older
  edit than the one before. `StoreEdits`, `WireEdits` and `AgentEdits` are its three links.
  It is inductive because one handler serves a stream, reads after it has sent,
  and a new stream starts with an empty wire and nothing read (`SlotInv` of `LinkInv`). A
  receive moves the agent one place along the chain.
* `CaughtUpStays`: `StaysCaughtUp`, from `PushInv` (an update that bears the version
  there is holds the content there is) and `StoreEdits` (a part that is rewritten changes,
  so a step that leaves the policy alone rewrites nothing). Four lemmas go through the
  steps of REST handlers, stream handlers, reports and agents.
* `SyncImplementsEdgePolicy`: `EdgeSpec`. Changes of the policy become those of `EdgePolicy`
  (`ChangesImplement`), a received update becomes `Deploy` (`DeliveriesImplement`, with `PushInv`
  for the label and `EditInv` for the order), a restart becomes `Restart`, everything else a
  stutter. `LockInv` (one `UpdateSite` at a time) makes `unsettled` shrink by the right site.

Only model-checked: `Convergence`, since liveness under fairness and `ENABLED` are beyond
the prover.

## 4. PolicyStore

### State and actions

Custom rules, IP entries and exceptions, each with its table, with PostgreSQL
configured. (Without it there are no rows and a restart is the seed.) All
operations hold `Store.mu` from their first read to their last statement, so each
is one action; a crash inside one is a `Restart` before it or after it, since
each issues at most one statement that changes a table.

A collection is a set of entries with the key of the Go map. An IP entry has an
`id` as well, the one the API returns: `saveIpRow` sets it to the row's UUID after the
entry was put under `ip-n`. UUIDs are drawn from a counter.

What the code does to the tables, as modelled:

* A rule with a site is never written: `"site-001"` is no UUID and the cast fails
  (`persist.go:161`). The seeded rules are such. Others are upserted by rule number.
* `ip_list` is searched by network and list before an INSERT; a deletion names the
  *key*, so only entries that were loaded, whose key is a UUID, lose their row.
* No statement on `rule_exceptions` works: both name `created_by`, which the table lacks.
* A start seeds memory, seeds an empty `ip_list`, then *adds* the rows to memory
  although the comment at `persist.go:14` says "replaces". Seeded and loaded copies
  of an entry stand side by side, and a rule is in memory under its number and
  under its row's UUID.

### Properties and runs

| run | shows | instance |
|---|---|---|
| `store` | `TypeOK`, `RuleRowsLive`, `UniqueIpRows`, `IdsDoNotStray`, `AddsKeepEntries` | 1 rule number, 2 texts, 2 networks on 2 lists, 1 seeded of each kind, up to 4 IP entries, 4 row identifiers, 2 restarts |
| `survive` | `ExceptionsSurvive` **fails** | 2 paths, 1 restart |

`RuleRowsLive` excuses rules with a site: one that replaces a stored rule cannot
overwrite its row, and the older text returns with a restart. The converse is not
claimed: after a restart, deleting one copy of a rule deletes the row and leaves
the other copy in force. `IdsDoNotStray` does not say that an identifier leads
somewhere: the one shown for a fresh entry is the row's, and deleting by it is
answered 404 until the next restart. `AddsKeepEntries` holds until the first
deletion of a process: afterwards the size of the map plus one may be the number
of a live entry, which the addition then replaces. No document promises
otherwise, so no run is devoted to it.

**Bounds.** Rules of different numbers do not meet (a row and a named key carry the
number), so one is enough. Two networks and two lists give entries that agree in
one of the two, four entries let a deleted number be drawn again and a
loaded, a seeded and two added entries coexist; three identifiers beyond the seed's
and two restarts give rows that were loaded, deleted and written again. Deadlock is
checked.

### Proofs (`PolicyStoreProofs`)

All five properties of `store` are proved for all sets of rules, texts, networks and
seeds, from the assumptions that seeds are among them and that no network is
seeded twice (`seed.go:59-65`).

* `StoreTypeCorrect`: needs `UuidInv` (a row identifier is drawn once and is never ahead
  of the counter, in a table or in memory), or a reload would put two entries
  under one key, and `FiniteInv`, since numbers are cardinalities.
* `RuleRowsAreLive`: with `NamedInv` (the number in a key is the rule's), or a new rule
  could replace one that alone justifies another row.
* `IpRowsAreUnique`, `IdentifiersDoNotStray`: with `OneNetInv`, by which everything that bears
  a row identifier (entries by key, entries by what they show, the row) speaks of
  one network. A fresh identifier is borne by nobody, and a start gives an
  identifier to an entry together with its row.
* `AdditionsKeepEntries`: with `NumberedInv`, no number in use exceeds the size of the map
  until something is deleted; at a start this counts the seeded entries.

## 5. Console, PageSync and AuditLog

### The abstract specification

`PageSync` says what any page of this console may do with the rows it shows. The
server holds a value in every *cell* (a field of a row of a collection); a page
shows a copy. It talks to the server only through requests in flight, which
overtake each other: *reads*, whose answer replaces what is shown; *edits*, shown
first and sent afterwards; *mutations*, after whose answer the page reads the
cells again; *blind* writes, after which it does not. Leaving a page abandons its
reads; its writes may still arrive.

Its promise is `Settled`: a page that waits for nothing shows what the server
holds, **if** no two requests about one cell overlapped, none failed and nobody
else changed the policy since the page was opened (`orderly`), and save for cells
written blindly (`stale`). Each excuse is one the code needs: nothing orders two
calls; no page takes an optimistic edit back (`rules/page.tsx:68`); nothing is
polled; and Save & Deploy never loads the sites again (`rules/page.tsx:74`).
`PageSync` stands for no lines of its own; it is what `Console` is shown to
implement.

### State and actions

`Console` is one browser tab with all its pages, the calls in flight, the proxy,
and the REST handlers as far as pages can tell them apart.

* `server`: a value in each cell; a row that does not exist has `Gone` in all of
  them. The number in an id stands for the id.
* `page`, `shown`, `flight`, and `ui` with the rest of a page's state: the tuning
  panel's copy of a site, the editor's copy of a rule, the open form, the toast and
  its pending timers, the rows, filters and drawer of the Log Explorer.
* **Click handlers** are one action each, since JavaScript runs them to their end:
  a change of `ui` (`Local`) or one request (`Post`). `SaveRule` decides by the rows the
  page shows whether to update or to create; the editor sends `is_active` as it
  was when it was opened; the quick form sends any threshold; a form with an empty
  required field is not sent.
* **REST handlers** are one action each and differ in what they check: 404 for a row
  that is gone, 400 for an empty rule, a limit of zero or an exception for rule 0 (`router.go:334`; the
  drawer of the Log Explorer sends one for an entry that matched no rule), `createRule` overwrites
  a rule of the same number and makes it active, an empty name or body in
  `updateRule` is left alone, identifiers are the number of rows plus one (for nodes:
  never used before), `getSites` lists a Go map, so that its first entry is any.
* **The proxy** (`Carry`): `route.ts:66` builds its answer from the body it read. An
  answer with status 204 may have none, even an empty one, so the constructor
  throws and the page is told 502. In consequence the `.then` of a deletion never
  runs: the row stays on the screen, and the refresh chained to it is dead code.
* **Callbacks**: `DeliverRead`, `DeliverMutate` (and the refresh it sends), `DeliverOther`,
  `DeliverFailure`, and `Ignore` for a page that is gone. `ToastTimeout` clears whatever
  message it finds (`ui.tsx:13`).
* `Visit` mounts another page; `Lose` fails a call before or after its effect;
  `Elsewhere` is another administrator; `Ingest` an edge that reports transactions.

`AuditLog` has the cut at the cap, with the uncut history as a ghost, and the two
filters, which are written twice in the code: three passes in `router.go:268-289`,
one in `logs/page.tsx:29-39`. The rows of the Log Explorer are a snapshot taken when
the page was mounted, whatever its LIVE STREAM switch says, and the drawer keeps
its own copy of an entry.

### Properties and runs

| run | shows | instance |
|---|---|---|
| `console` | `SyncSpec` (Console implements `PageSync`), `Settled`, `RowsWellFormed`, `ToastGoesAway`, `LogKeepsNewest`, `FiltersAgree`, `TypeOK` | one or two rows of each of 9 collections, room for one more; 2 places for the calls of clicks besides those of the mount; 2 or 3 clicks (a move of a slider is one), 1 event (loss, visit, other administrator), batches as often as there are steps, 1 typed change; log of at most 3 entries |
| `proxy` | `ForwardsReliably` **fails**: a deletion that was carried out is answered 502 | the same |

`RowsWellFormed` is what the 404s are for: a PATCH that arrives after the row
was deleted must not leave half a row. `ToastGoesAway` is about timers that clear
each other's messages: whatever the order, a message has a timer left.

**Bounds.** Every behaviour of `Settled` that matters involves one cell and two
requests about it (an optimistic edit and the refresh or the mount that overtakes
it, an edit and another edit, a mutation and its refresh), which two places
beside the three of the mount give; a third click reaches what needs a form or a
drawer opened first, so fleet, exceptions and bots get three steps and the pages with
more rows, or a log, two. One event of each kind is enough to make `orderly` false, and with it
the promise void; more would only void it again. Two rows and one to come let a
deleted number be drawn again. Edges report only while the Log Explorer is open:
no other page shows the log. The proofs have none of these bounds. Deadlock is not
checked: a tab whose bounds are used up rests.

### Proofs

* `PageTypeCorrect`, `PageSettles` (`PageSyncProofs`), for any cells, values, pages
  and slots, if a page's cells are cells and its mock rows have values. `Settled`
  speaks of a page at rest and is not inductive. `OrderlyInv` says what is true on
  the way: two requests about one cell, one of which writes, are not in flight
  together (`Apart`); what an edit will write is what is shown (`EditsShown`), until
  then and after; an answered read bears what the server holds (`AnswersTrue`); and
  every cell that is not shown truly is covered by a request whose completion will
  make it so (`Covered`). At rest nothing can cover it.
* `LogIsNewest` (`AuditLogProofs`), for every cap and every batch, also one longer than
  the cap: `CutOnce` says that cutting before an append and again after it is the
  same as cutting once.
* `FiltersAreOne` (`AuditLogProofs`), for every sequence of entries and every filter, and
  from it `PageFiltersLikeServer` (`ConsoleProofs`): `[]FiltersAgree`. A filter is a loop that
  appends (`Select`, a recursive function). `SelectTwice` says that selecting from a
  selection is selecting from the intersection. It is an induction over the length; since
  the prover cannot instantiate an induction theorem, it is done by descent: the
  prefixes for which the claim fails would have a shortest one (`LeastExists` of
  `LeastNumber`), and the step of the loop shows that there is none.
* `ConsoleTypeCorrect`, `MessagesEnd`, `ConsoleLogIsNewest`, `ConsoleImplementsPageSync` and
  `ConsoleSettles` (`ConsoleProofs`), from `ConsoleAssumption` alone. The handlers are
  looked at once, to show that each is `Local` or posts a request that is well
  formed; after that only the two cases are left. The refinement needs `StateOK`: what
  the operation of a call implies about its kind and its cells, without which the
  server could handle an edit as if it were a read. `ConsoleSettles` then carries
  `OrderlyInv` along the refinement; nothing about clicks is proved twice.
* `RowsStayWhole` (`ConsoleRowsProofs`): `RowsWellFormed`, from `ConsoleAssumption` and
  `SeedAssumption` (the seed and the mock rows are whole, and the marks `Gone`, `Blank`
  and `Zero` are no rule's text and no level). `RowsWellFormed` is not inductive,
  because what reaches a row was written into a request long before, and came from a
  form, the editor, the tuning panel or the page's copy of the row, which came from an
  older answer. `RowInv` therefore says of each of these places which marks it can hold:
  a request of the editor can be empty but not gone, one of the quick form or of a new
  exception can leave its number out but not be empty, a deletion is of a whole row. The server's checks (404, 400,
  the defaults for empty fields) do the rest, in `WriteWhole`, `NewWhole` and
  `GoneWhole`.

## 6. Session

### State and actions

Several tabs of one browser share a token, kept in a cookie and mirrored in
localStorage (`api.ts:22-49`); a token is the address it names and the day it was
signed. The Next server's guard looks at the cookie alone (`proxy.ts:10-20`), the
control plane at the token alone (`auth.go`, `authRequired`). `getToken` takes the cookie
and, without one, the mirror.

A tab runs one callback at a time, but tabs run side by side (they may be different
processes), so the two writes of `setToken` and `clearToken` are two steps: `SetToken` or
`ClearToken` writes the cookie and notes in `writing` what is left to do, `WriteMirror`
writes the mirror and ends the callback. In between the other tabs send calls with
the one or the other and write themselves; the tab itself does nothing else.
`WriteFails` is `setItem` throwing (for one, the profile picture is kept in the same
storage): the callback's `.catch` shows a failure and the cookie stays. `removeItem`
throws nothing.

* The user's actions: `Open` (a document, a reload), `Get` (any read), `Login` with some
  address, perhaps one the account no longer has, `Logout`, `Rename` (profile page).
  `Login` leaves by a client-side push, so the page's other calls live on; `Logout`,
  `Open` and a 401 are hard navigations. Until the new document is there (`Arrive`) the
  page they leave still takes answers, and these change the token; then its calls lose
  their answers: a rename it sent may still be carried out, and with its answer the only
  valid token is lost. On a page that is being left the user does nothing but open
  another one.
* The Next server's `Arrive`, which is the guard's look at the cookie and the change
  of document in one step; the page's `Mount`, with the shell's first read.
* The control plane's `Handle`: check, then effect, in one critical section. `Login` is
  refused when the address is no longer the account's (`auth.go:51`), every other call
  by `authRequired` (`Accepted`). `updateProfile` issues a token for the new address,
  since it has just made every other one invalid (`router.go:651`).
* `DeliverUnauthorized` is `handle401`; only reads do it. `send` never looks at 401, so
  a refused write changes nothing (`DeliverOther`).
* `Day` and `CookieExpires`: both token and cookie live for a day; the mirror stays.
  `Restart`: users are not loaded from the database, so the default administrator comes
  back under the default address (`auth.go:34`). `Lose`: the proxy answers 502, before or
  after the effect.

Three ghosts: `signed`, the user's last success was a login and not a logout; `out`, a token
was cleared when none could come and nobody logged in since; `smooth`, nothing
failed and nothing overlapped a login, a rename or a write.

### Properties and runs

| run | shows | instance |
|---|---|---|
| `session` | `TypeOK`, `StaysSignedOut`, `SessionKept`, `RedirectsEnd` | 2 tabs, 2 calls in flight, 2 addresses, 3 clicks, 1 change of day, 1 fault (restart, loss or a write that throws) |

`StaysSignedOut` is about the fallback in `getToken`: with the cookie gone any old
token left in the mirror would be used again, in any tab and long after. It holds
however calls, answers, days, losses and restarts fall, also when both tabs log out
at once. Two things end its promise, and the code needs both: a login or a rename in
flight when the token is cleared, or a tab between its own two writes, may still bring
one (a late answer does sign the user in again); and a rename sent by another tab
after the cookie is gone and before the mirror is takes the old token from the mirror,
is carried out, and its answer stores a new one.

`SessionKept` says that both the guard's token and the one calls are sent with are good
exactly when the user's last success was a login or a rename, not a logout. It excuses
the cases in which the code does lose the session: a 401 for a call sent before the
rename clears the token of the rename, and an answer to a rename that arrives after
a logout in another tab signs the user in again. `RedirectsEnd` holds because
`handle401` clears the very cookie the guard looks at, whichever tabs write in
between; the mutant that clears only the mirror loops for ever.

**Bounds.** Two tabs and two calls give every pair of a login, a rename and a read
that overlap, and two tabs between their writes at once; three clicks are sign in,
rename and one call more, or a logout in each tab and a call. With two addresses an
account can be renamed back. A second day or fault would only repeat what the first
does to every token. Deadlock is not checked: a user may stop.

**Fairness** (`FairSpec`): weak fairness of `Arrive`, `Mount` and `WriteMirror` of each tab
and of `Handle` and of the delivery of each call. Browsers follow a navigation and run
callbacks, once begun, to their end; servers answer or the proxy does. The user, the
clock, expiry, restarts, losses and failing writes have no fairness.

### Proofs (`SessionProofs`)

From `SessionAssumption`, for any tabs, calls, addresses and bounds.

* `SessionTypeCorrect`: `[]TypeOK`.
* `ClearedStaysCleared`: `[]StaysSignedOut`. The property looks at moments between writes
  and is not inductive. `OutInv` says that while the promise stands the cookie is
  gone already, that whoever is between two writes is clearing, that the mirror holds
  something only while somebody is, and that no call in flight can bring a token: there is
  no login, and a rename bears no token and will be refused.
* `RenameKeepsSession`: `[]SessionKept`, strengthened to `SmoothInv`. As long as all is smooth,
  a login or a rename in flight is alone and nothing is lost (`AloneInv`), no day has
  passed and the copies agree when no tab is writing (`TodayInv`), a tab that is writing
  writes what it wrote to the cookie (`WriteInv`), the token kept is good unless an
  answered rename is about to replace it (`KeptInv`), reads in flight bear a token that is
  good if the user is signed in (`GetInv`), so that no 401 is on its way that could
  clear a good token, and an answered rename or login bears the good one (`RenameInv`,
  `LoginInv`).

## 7. What is only model-checked, and what is not modelled

Only model-checked:

* `Convergence` and `RedirectsEnd`: liveness under fairness and `ENABLED` are beyond
  the prover. Every other property of the passing runs is also a theorem; of
  `Convergence` the safety half is (`CaughtUpStays`).
* The six runs that show where the code departs from its documentation, which are
  counterexamples and need no proof.

Not modelled:

* `SiteTuning`: `updateSite` fills the fields a request leaves out from an earlier
  read, so that one of two partial updates can be undone. The console sends all three
  fields at once, so the case needs another client. `ConfigSync` has the two critical
  sections, with one value for the three fields.
* Passwords and a second account; avatar and theme.
* Database outages, rate limits, feeds, CRS categories and sites in the tables.
* The order of the start (one sequence: with Redis configured it stops in
  `jobs/queue.go:43`), background jobs that only log.
* The sandbox's matching and the export's YAML (pure functions of strings), the `limit`
  parameter and `GetLog` (no page uses them), the ClickHouse writer (no caller).
* The overview, API security and access pages, which show read-only tables; the
  presentation of all of them; generated gRPC code.
* Everywhere: validation and answers except where they decide what state changes or
  what a page does; data races inside one Go word or string.

## 8. Running

    tlc -config ConfigSync_push.cfg MCConfigSync       (likewise _reopen, _converge, ...)
    tlc -config PolicyStore.cfg MCPolicyStore
    tlc -config Console.cfg MCConsole
    tlc -config Session.cfg MCSession
    tlapm ConfigSyncProofs.tla                         (likewise the other proof modules)

Operators named as a mutant in a comment (`UpsertNodeUnset`, `SavedRuleKept`, ...) are
plausible wrong versions of the operator they precede. They are used by no
specification; putting one in the place of the original makes the property
that `PROJECT.json` pairs it with fail.
