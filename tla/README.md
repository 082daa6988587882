# Formal models of the koperasi parking wallet

A cooperative issues NFC cards that hold a member's money and parking session.
Kiosks (gate, terminal, scout) and a staffed station read and write the cards in
the browser through Web NFC, work offline, and synchronise with a server (a
Worker over D1) when they can. The card is the source of truth; each device's
IndexedDB and the server's tables follow it.

This directory holds TLA+ models of the parts of that system where order,
failure and time decide whether money, sessions, accounts and tenants come out
right, the TLC instances that check them, and proofs that TLAPS checks. Paths
below are relative to the repository, with `src/` its root (`src/src` is the
application, `src/api` the server). `PROJECT.json` maps every definition to the
lines it stands for, lists the hazards line by line with the properties that
watch them, and gives for each property a mutation of the code that breaks it.

## How to run

    tlc -config CardLifecycle.cfg MCCardLifecycle.tla    # likewise every other .cfg
    tlapm CardLifecycle_proofs.tla                       # likewise every other *_proofs.tla

Each `.cfg` belongs to one `MC` module:

| module | configurations |
|---|---|
| `MCCardLifecycle` | `CardLifecycle` |
| `MCNfcWrite` | `NfcWrite` |
| `MCKioskTap` | `Kiosk` |
| `MCTxPush` | `TxPush`, `TxPushCrash` |
| `MCPullCursor` | `PullCursor`, `PullSameSecond` |
| `MCSyncEngine` | `SyncEngine` |
| `MCEntitySync` | `EntitySync` |
| `MCTenantSync` | `TenantSync` |
| `MCAdministration` | `Administration`, `ShownTenant` |
| `MCDeviceAccess` | `DeviceAccess` |
| `MCCardIssuance` | `CardIssuance` |

An MC module only gives constants their values. Most models take a set of
*sites* (scenes, visits, plans, days): records that say what may happen in one
behaviour, which users, faults and edits there are. The initial state picks one
and it never changes, so one run covers calm and busy places without paying for
all hazards at once.

## Inventory

### How the parts fit together

    log-in, context, grant, block  -->  which page is open, with which key
      (DeviceAccess, LocalTenants)           |
                                             v
    tap -> scan -> section rules (card engine) -> write pipeline -> card
                         ^                            |       (bytes: CardWire)
                  blocked-card lookup                 v
                  (IndexedDB) <---------- journal, outbox, log, card row
                         ^                            |
                         |     scheduler: debounce, retry, 30 s, events
       live events ------|                            v
                       pull  <---- server ---->  entity push, transaction push
                                     ^
                 registration of tenants, log-ins, sessions, superadmin's pages

The sections call the NFC hook; the hook calls back into IndexedDB; a record in
the outbox notifies the scheduler by a window event; the scheduler runs push and
pull, which talk to the server by requests that may be lost in either
direction. A 403 that says the device is blocked clears the contexts and closes
the pages. Nothing is shared between devices except the card and the server.

### Components

| component | state | operations | what is hard | what makes it correct | model |
|---|---|---|---|---|---|
| card engine (`core/state-machine/engine.ts`) | the payload | transition table, fee, top-up, apply-functions, log ring | negative stays, ring eviction, session expiry | log explains balance and session; balance in its limits | `CardEngine` |
| card life cycle (`GateSection`, `TerminalSection`, `useCardSection`) | card, per-device clock and local status | check-in, checkout, top-up, reset, block write-back | clocks disagree, blocks arrive at any time, each device judges by its own copy | fee follows the stay; the abstract purse | `CardLifecycle`, `ParkingPurse` |
| bytes of the card (`core/payload`, `core/crypto`, `recordCardWrite`) | fields of fixed width, chain of hashes, seal | pack, seal, open, judge; the record for the server | widths, order of sealing and hashing, two judges (device and server) | what is written is read back, at the tenant's devices only; what is told to the server is what the log says | `CardWire` |
| NFC write pipeline (`useNfcCard`, `writeJournal`) | phase, refs, timers, journal | scan, inline and deferred write, verification, recording, recovery, teardown | card pulled away mid-write, crash between two awaits, callbacks that outlive their session | no phantom transaction, no lost operation, journal covers the write | `NfcWrite` |
| kiosk sections (`useBlockedCheck`, `useKioskAutoScan`, `ScoutSection`) | React state of one kiosk | lookup, automatic write, automatic rescan, a scout's copy | effects of one commit see old values, late answers | at most one write a tap, after the lookup; always scanning again | `KioskTap` |
| scanner (`useUnifiedNfc`, `GenericNfcLayer`, `webNfcAdapter`) | reducer, refs, reader | scan, classify, validate, write, retry, cancel | aborted operations answer late; a second reader | the screen is true of the tag; no phase waits for ever | `UnifiedNfc` |
| transaction push (`syncPush.usecase.ts`, `api/routes/sync.ts`) | outbox, log, server row | batches, retries, verdicts; a handler of several SQL statements | statements of concurrent requests interleave, answers get lost | verdicts are true; counters never fall; everything settles | `TxPush` |
| entity push and merge (`syncPushEntities`, `push-entities.ts`, `syncPull`) | members and cards rows on both sides | mark, push, verdicts; merge of a pulled page | edits during a push, clocks ahead, skipped rows | no edit lost at home; the server's row never goes back | `EntitySync` |
| pull (`syncPull.usecase.ts`) | cursors | pages | whole-second stamps, pulls that overlap or fail half-way | no row behind the cursor; every row arrives | `PullCursor` |
| scheduler (`useSyncEngine`, `SyncEngineContext`) | flags, timers, status | triggers, cycles, retries, mounting | cycles overlap, timers cleared by other triggers, pages left | no stuck flag; every mutation is pushed | `SyncEngine` |
| live events (`realTimeSync.ts`) | stream, fallback timer | catch-up pull, stream, reconnection, event write | events beside pulls, writes in two steps | always a stream or the fallback; newest status arrives | `LiveSync` |
| registration of a tenant (`useTenantSync`, `api/routes/tenants.ts`) | configuration, rows, server's tables | register, conflict dialogue, push of its rows | lost 201, three hooks for one tenant, foreign keys | device and server agree; parents before children | `TenantSync` |
| log-in and sessions (`authSession.usecase`, `authRateLimit`, `deviceRegistry`) | sessions, devices, attempts | token, refresh, revoke, block, limiter | statements of concurrent handlers | limits hold, blocks end sessions, no false alarm | `AuthSessions` |
| superadmin's pages (`SuperadminSection`, `superadminTenants.usecase`) | query cache, dialogs, accounts and tenants | queries, mutations, status changes | answers of closed dialogs, fetches across an invalidation, overlapping PATCHes | what is shown fresh is current; archived stays archived | `SuperadminPages` |
| browser: context, grant, block (`useLoginAuth`, `useSessionGrant`, `deviceBlock`) | token, contexts, grant cache, timers | log-in, set-up, fetch, renew, block, unblock | late answers, timers capped at 24 h, offline grants | no page without its context; the server's word counts; access comes back | `DeviceAccess` |
| local tenants and accounts (`tenantRepository`, `useLocalSetup`, `useLoginAuth`) | two tables | set up, log in, copy of an account | two tables one after the other; names shared by tenants | the tables agree | `LocalTenants` |
| issuing and restoring a card (`useCardIssuance`, `useCardRecovery`, `CardSection.utils`) | refs shared by attempts, dialogs | prepare, read, ask, write, register | an attempt's answers arrive in the next one | row and card agree; asks before overwriting | `CardIssuance` |
| station's cards and members (`useCardOperations`, `useCardSync`, `MemberSection`) | drawer, pending write, rows | top-up of a chosen card, delete, suspend with cascade | drawer closed mid-write, cascade over rows read before | no card written that was not meant; cards follow their member | `CardsPage` |

`PROJECT.json` has the remaining components, with the reason why they have no
model; so has the section "Not modelled".

## The modules

**`CardEngine`** translates the pure rules: `ValidateTransition`,
`CalculateCheckoutFee`, `CheckoutSufficient`, `ValidateTopup`, the `Apply...`
functions and the log ring `BuildLogEntry`. Ceiling division is written out
because a stay may be negative.

**`CardLifecycle`** carries one card between three devices. `offset[d]` is the
error of a device's clock (`Skew` bounds it; the gate's simulated clock counts
as one), `local[d]` what its database says of the card. A tap is one step:
read, decide, write, update the local row. `enteredAt` is a history variable,
the real time of the last check-in. The model admits what the code admits: a
gate does not consult its database before a check-in (see `KioskTap`), a top-up
looks at the database and not at the card's status.

**`ParkingPurse`** is the abstract promise to the card's holder: money, parked
or not, frozen or not. `RefinesPurse` is its specification under the mapping
`balance <- card.balance`, `parked <- card.state = "CHECKED_IN"`,
`frozen <- card.status # "ACTIVE"`.

**`CardWire`** extends `CardLifecycle` with what is on the chip: each write
packs the payload into fields of fixed width, chains and seals the log, and
keeps what the outbox will tell the server. `Word` and `AmountRange` are the
widths; `Tenants` are the keys there are. A device judges the bytes as the
code does, and the server judges the record by its own limits.

**`NfcWrite`** models `useNfcCard` at the granularity of its awaits. A write is
a record in `pipes` with a step (save the journal, write, verify, record,
clear); crash, teardown, abort and the reader's events happen between steps. A
card's content is the sequence of operations it embodies: its counter is the
length, and an overwritten operation shows.

**`KioskTap`** models React: an event changes state, the commit's effects run
in their order of declaration with the values of that commit (`seen` holds the
last ones), then the next event comes. Lookups of the database answer late and
for the card they were started for. `role` is the section the kiosk runs.

**`UnifiedNfc`** has the reducer of the scanner's screen and beside it the
operations in flight, each with its signal and step; an aborted operation goes
on until it notices. Tags are members' cards, forged ones and foreign ones.
**`NfcScreens`** puts `KioskTap` and `UnifiedNfc` side by side: a tab shows one.

**`TxPush`** has one card, several devices and a server whose requests are
tasks that run one SQL statement at a time, up to `MaxTasks` at once. Entries go
pending, synced, conflict or failed by the verdict of the batch; `row` carries
the counter and the transaction its balance was taken from. The card's entity
push works on the same row.

**`EntitySync`** has one member and its card at two devices and the server:
edits, marks, requests, verdicts, merges, with a clock that may be ahead. Of
the transactions it keeps only what they do to the card's row.

**`PullCursor`** has rows with stamps in whole seconds, inserted by handlers
that read the clock when they begin, and two pulls of one device that share the
saved cursor.

**`SyncEngine`** has the timers and flags of `useSyncEngine` and cycles that
overlap, since `executeSyncCycle` sets `isSyncing` but does not test it; the
provider that mounts and leaves it. What a cycle does to data is one bit,
whether the outbox holds something that has not been pushed. **`LiveSync`** has
the catch-up pull, the stream, the fallback timer and the two steps of an
event's write; the stream's feeding side is external, since no route of the
server opens it. **`DeviceSync`** puts the two side by side.

**`TenantSync`** follows a tenant from the set-up form to the server through
the three hooks that may register it, each a sequence of awaits with requests
that may be lost, and the server's handlers with their unique slugs, names and
foreign keys; the superadmin creates and changes tenants in the same tables.

**`AuthSessions`** runs the handlers of log-in, refresh, revocation and
blocking one statement at a time, with the limiter of failed attempts.
**`SuperadminPages`** has the query cache (keys, fetches, invalidations), the
mutations with their dialogs and the handlers they call. **`Administration`**
composes the two: an account's or tenant's status changes for `AuthSessions`
exactly when a handler of `SuperadminPages` writes it.

**`DeviceAccess`** is one browser after log-in: page and context, token, grant
cache, renewal and expiry timers, the block with its poll. Times are what is
left, in ticks. **`LocalTenants`** is what the browser keeps before: the two
tables, the set-up form with its debounced checks, log-ins here and at the
server. **`Browser`** puts the two side by side: `DeviceAccess` knows of the
local tables only whether a tenant's credentials are there.

**`CardIssuance`** models attempts to print as processes over shared refs
(abort controller, prepared session, time-out), with the dialogs that outlive
them, and the recovery of a card. **`CardsPage`** has the top-up drawer with its
scan and effects, and the members' cascade. **`CardSection`** composes them.

A composition "side by side" (`NfcScreens`, `DeviceSync`, `CardSection`,
`Browser`) has a variable that says which part a behaviour shows: the parts
share no state in the code beyond what the text above names, and a product of
their interleavings would show nothing more. `CardWire` over `CardLifecycle`
and `Administration` are real compositions, with joint steps.

## What the runs check

Passing runs:

| run | instance | states | checks |
|---|---|---|---|
| `CardLifecycle` | an hour of 3 s, clocks 1 s off, log of 2, money in units of the hourly rate, 3 writes after issuance, stays of up to 3 s, two tenants | 1,152,495 | the log explains the balance and the session, the fee follows the stay, every write is understood by the next device and by the server, refinement of `ParkingPurse` |
| `NfcWrite` | a kiosk with two cards, 3 operations, crashes; a station with one card and 2 operations, where drawers close mid-write, cards are tapped during the save and the journal may fail | 239,979 | card, journal and books go together, nothing recorded is taken off, nothing overwritten, writing ends |
| `Kiosk` | two cards, one without money: a gate with an operator who retries, an unattended terminal whose grant is renewed, a scout; the scanner in three uses with three kinds of tag | 129,806 | at most one write a tap, the terminal's after the lookup; gate and scout scan again; the screen is true; no wait for ever |
| `TxPush` | two devices, 2 writes; sites with faults and refused types, batches of one, forks, edited and newly created cards | 251,312 | verdicts are true, the server's counter never falls, everything settles |
| `PullCursor` | two overlapping pulls, pages of 2, 4 rows, 1 failed pull | 273,968 | nothing behind the cursor, every row arrives |
| `SyncEngine` | two overlapping cycles on an idle, a busy and an abandoned day; live events with 2 changes, three kinds of luck | 140,587 | no flag stuck, mutations get pushed, always a stream or the fallback, the newest status arrives |
| `EntitySync` | two devices, 2 edits, retries; offices, a park site, new cards, an office with a fast clock, a hurried site with a clock ahead and edits during a push | 730,649 | no edit lost, agreement unless skipped, the server never goes back |
| `TenantSync` | six sites: rival tenants, a failing network, refused rows, the superadmin at work, changes of status, a second-hand device | 156,458 | device and server agree on the registration, which ends |
| `Administration` | the pages in ten visits without log-ins, the log-ins in five sites without pages, both together twice | 1,399,410 | blocks and limits, no false alarm, fresh is current, archived for good, a success closes its own dialog |
| `DeviceAccess` | five places for the page (long blocks, shared browser, card reader, kiosk set-up, failing network), four plans for the local tables | 347,361 | no page without its context, the server's word counts, access comes back, the tables agree |
| `CardIssuance` | three profiles of issuing (careful, hasty, cards moved), five visits to the cards and members | 255,292 | row, card and member agree, no unmeant write, every attempt and drawer ends |

`ShownTenant` is listed as a run that TLC refutes: the status change goes to the
selected tenant while panel and confirmation still show the one before
(`placeholderData`, SuperadminSection.tsx:231), against
superadmin-tenant-management/requirements.md:89.

### Counterexamples to other statements of the repository

Each line gives a counterexample: a configuration of its own, or one of the
above with the named property added to it. The statement is quoted in the
comment above the definition.

| configuration | statement that fails | because |
|---|---|---|
| `NfcWrite.cfg`, PROPERTY `SeenIsRecorded` | useNfcCard.ts:397, a landed write found by a scan is recorded | it is only removed from the journal; outbox and log never see it |
| `Kiosk.cfg`, PROPERTY `CheckedBeforeCheckin` | GateSection.tsx:130, the check-in waits for the lookup | the effect runs in the commit in which the lookup is started, with `isChecking` still false |
| `TxPushCrash.cfg` | `BalanceFollowsLog`: tenant-management-enhanced/design.md:695 | transaction and card are two statements; a repeated request finds the key and never updates the card |
| `PullSameSecond.cfg` | `EverythingArrives`: assumptions.md:123 | a row inserted in a second already pulled is behind a cursor that asks for greater stamps |
| `EntitySync.cfg`, INVARIANT `BothHaveTheLatest` | tenant-management-enhanced/design.md:759 | a pending row is skipped by the merge (syncPull.usecase.ts:383), the cursor moves past it |
| `TenantSync.cfg`, INVARIANT `TenantGoesFirst` | tenant-sync-ordering-fix/bugfix.md:27 | the engine pushes rows for whatever token the device holds (push-entities.ts:275) |
| `DeviceAccess.cfg`, PROPERTY `GrantReturns` | gate-terminal-scout-ux-stabilization/requirements.md:178 | the offline branch is not left when the connection comes back (useSessionGrant.ts:257) |
| `DeviceAccess.cfg`, PROPERTY `LoginRenewsToken` | system-architecture/design.md:1359 | a log-in found locally keeps the expired token (useLoginAuth.ts:328) |
| `CardLifecycle.cfg`, PROPERTY `EveryWriteIsTaken` | tenant-management-enhanced/requirements.md:31, six types | a reset is written as "admin_reset" (useCardOperations.ts:104), refused by `VALID_TYPES` (api routes/sync.ts:60); the entry becomes failed and never arrives |
| `CardLifecycle.cfg`, PROPERTY `RecordHasTheHash` | docs-arch/HLD-diagram.html:1245, "chain hash from card" | recordCardWrite takes the hash before prepareWrite computes it: zeros |
| `Kiosk.cfg`, PROPERTY `KeepsBlocks` | ScoutSection.tsx:49, accurate blocked checks | the scout's copy of the chip's status undoes a local block |
| `Kiosk.cfg`, PROPERTY `RawGetsReady` | useUnifiedNfc.ts:250 | in raw mode a valid card stays "validating" |
| `Kiosk.cfg`, PROPERTY `OpensScanning` | unified-nfc-scanner/requirements.md:174 | a reopened drawer keeps its phase, START_SCAN is ignored |
| `Kiosk.cfg`, PROPERTY `DrawersShowWrites` | useUnifiedNfc.ts:354 | scan() leaves the 30 s timer of a deferred write, which fires into a later one |
| `Kiosk.cfg`, PROPERTY `WritesNeedSession` | unified-nfc-scanner requirement 7.1 | write() does not look at the grant's expiry |
| `SyncEngine.cfg`, PROPERTY `CatchUpIsRetried` | realTimeSync.ts:283 | the periodic pull that would retry has just been stopped |
| `SyncEngine.cfg`, PROPERTY `RowsStayWhole` | realTimeSync.ts:143 | the minimal record replaces a row that came in between |
| `DeviceAccess.cfg`, PROPERTY `PagesAreChosen` | a page, once chosen, stays | a late log-in answer navigates from wherever the user is by then |
| `DeviceAccess.cfg`, `Sites <- OnePlace`, INVARIANT `StaysOffline` | tenantRepository.ts:272 | the copy of an account takes over one of the same name of another tenant |
| the same, PROPERTY `NobodyIsShutOut` | useLoginAuth.ts:390, local first, then the server | a local wrong-tenant answer never asks the server |
| the same, INVARIANT `SlugWasChecked` | useLocalSetup.ts:89 | the step advances on the answer for an older slug |
| `CardIssuance.cfg`, PROPERTY `CheckedBeforeTopup` | useCardOperations.ts:117 | confirming does not wait for the blocked lookup |

### Bounds, and why they suffice

- *Card.* Three writes after issuance cover check-in, checkout and one write
  between or after them; a log of 2 entries evicts from the third write. Stays
  of -2 s to 5 s by the devices' clocks, against an hour of 3 s, give zero, one
  and two charged hours, and fees above the balance. Fields are as tight against
  the amounts as they are in the code (the log's amount holds one unit more
  than a balance). The theorems below hold without any of these bounds.
- *NFC.* Two cards are the least at which a pending write can meet the wrong
  card; three operations let a recovered write meet a newer one. Two pipelines
  is what the hook can have: a live one and one that a teardown has aborted.
  The scanner has two operations in flight: the current one and an aborted one.
- *Push.* Two devices, two requests at a time: every race in the handlers is
  between two requests on one row. Batches are sent in order, so two counters
  show a batch that is half carried out, and a batch size of 1 two batches.
- *Pull.* Two pulls overlap in the scheduler's worst case; a page of 2 and 4
  rows force several pages. The last second of the bounded clock takes no
  pushes, so that a row has a second left to be pulled in.
- *Entities.* Two devices are the least that can disagree; two edits give the
  first, a conflicting one and, with a clock one second ahead, an older one that
  arrives later. Two tries show a retry that meets its own first attempt.
- *Scheduler and events.* Two overlapping cycles show every way in which one
  clears the other's flag; three statuses let an old one meet a newer one in
  every step; counters of faults and requests bound the number of timers.
- *Tenants.* Two tenants want one slug and one name; three presses are a first
  attempt, a retry that meets its own row and an answer to the conflict.
- *Sessions.* `MaxSessions = 2` (5 in the code) with three log-ins reaches the
  limit and exceeds it by an overlap; `MaxAttempts = 2` (5 in the
  code) with three ticks runs a window of 2 out. Two requests in flight show
  every overlap of two handlers.
- *Pages of the superadmin.* Two tenants, two calls: the one under
  way and the one that meets it. A scene has the operations it is about; an
  operation only shares rows and dialogs with the ones in its scene. Three
  accounts: the superadmin's, the one that logs in, and one that is made in the
  scene that makes accounts.
- *Browser.* A block shorter and one longer than the timer's cap, a grant that
  outlives a token, a local grant that outlives both. Two tenants and two
  accounts, one of each unknown here; two jobs overlap.
- *Station.* Two cards (one whose serial number is its card id and one whose
  serial is longer); up to three attempts, of which one is abandoned and one
  meets its answers; two top-ups.

### Assumptions the passing runs make

- `PullCursor` keeps a push and a pull out of the same second and a push
  request within its second (`SameSecond`, `SlowHandlers`, `MaxBatch`), and
  stamps rows with the server's clock. It shows that the protocol is right when
  stamps order insertions; `PullSameSecond` shows what happens otherwise.
- `NfcWrite`: `NoRollback` and `RecordedIsOnCard` are claimed for the kiosk
  site, where nobody closes a drawer mid-write and no card is tapped again
  while the journal is being saved; the station allows both and is claimed
  the rest. One device writes at a time: with two, a deferred write overwrites
  what the other wrote in between (see the list below).
- `Kiosk` lets an operator retry at the gate only, and the grant be renewed at
  the terminal only.
- `CardLifecycle` keeps clocks within half an hour of real time each, so that
  two of them are less than an hour apart. `CardWire` takes ciphers, MACs and
  hashes for free constructors, leaves out a hash whose first four bytes are
  zero (it would end the log early, one in 2^32), and gives all devices of a
  tenant one key.
- `EntitySync`: `ServerNeverGoesBack` is claimed of members for requests that
  are handled one after the other, of a card's counter for all. `AgreesUnlessSkipped`
  names its excuses: the row its last pull skipped, and an edit whose stamp is
  ahead of the clock, which the server keeps although a later edit, stamped
  earlier, has been answered "synced" by the device that made it.
- `LocalTenants`: neither side makes an identifier of the other's (both use
  `randomUUID`), and none is the name of a page.
- `DeviceAccess`: the two seconds before a redirect suffice to delete the
  contexts; a grant arrives before it runs out; one request for a grant and one
  log-in under way at a time.
- `Administration`, `CardIssuance`, `CardsPage`, `TenantSync`: excuses are history
  variables set where the code loses the information (an answer nobody heard, a
  dialog dismissed, two handlers between look and write, a toggle that overlaps a
  deletion, a confirmed print beside another attempt, a card chosen during a
  write); each property's comment names them.

### Awaits that are one step

No property tells the order inside these apart, and nothing else reads or writes
what they touch in between:

- `NfcWrite!TapReady` and `TapRecover`: reading and judging a fresh scan and
  looking up its journal entry (useNfcCard.ts:386-411). `Record`: the outbox and
  the transaction log, whose failure the code swallows.
- `KioskTap!Resolve`: the two lookups of one card (useBlockedCheck.ts:78-119).
- `TxPush!EntityReply`: an entity's statement that fails is left to `EntitySync`.
- `SyncEngine!ExecuteSyncCycle`: a blocked device counts as one that is offline
  (useSyncEngine.ts:262); either way no cycle starts.
- `TenantSync!Recheck`: the two reads after a conflict (tenants.ts:100-122); rows
  are only added.
- `CardIssuance!Put`: the 1.5 s for which a fresh card's success is shown.
- `CardLifecycle!StationTopup` asks the local database first. A hasty operator can
  confirm before the answer (useCardOperations.ts:149-162), which is `CardsPage`'s
  subject and `CheckedBeforeTopup`'s.

### Fairness, and why the code justifies it

- `NfcWrite`: promises of Web NFC and IndexedDB settle, and timers fire (weak
  fairness of the pipelines, the 30 s timeout of a deferred write, the
  automatic reset). Nobody has to tap, retry or close anything.
- `KioskTap`: React runs effects after a commit, lookups answer, writes end,
  timers fire, a renewal that began ends. Taps and errors are not fair.
  `UnifiedNfc`: its promises and timers likewise, and a page without a drawer
  goes on as long as tags keep coming, which is what the property supposes.
- `TxPush`: the periodic timer starts cycles for ever; a request that reached
  the server is carried out statement by statement; a device whose request died
  notices (its fetch fails). Starting a cycle and reading the outbox are
  strongly fair because the slot for a request (`MaxTasks`, a bound of the
  model) may be taken for a while. Faults are bounded in number: a network
  that fails for ever is not claimed to synchronise.
- `PullCursor`: pulls are started again and again; the query is strongly fair
  because without `SameSecond` it waits for a second to be over. Failed pulls
  are bounded.
- `SyncEngine`: timers fire and awaits settle; the periodic tick is strongly
  fair because it is skipped, not lost, while a cycle runs; the connection
  comes back. `LiveSync`: the stream opens or fails, timers fire, pulls and
  writes end; failures are bounded by the day's luck.
- `TenantSync`: a handler ends and fetch returns or throws; the page's sequence
  goes on. Nobody has to press a button.
- `DeviceAccess`: handlers that have begun, timers and the clock go on; the
  user, the network and the superadmin need not.
- `CardIssuance`, `CardsPage`: the time-out fires, awaits settle, lookups
  answer, rows are read and written. The operator and the reader need not.
- `AuthSessions`, `SuperadminPages`, `LocalTenants`, `EntitySync`, `CardLifecycle`:
  safety and action properties only, no fairness.

Deadlock is not checked where the day's events are bounded and the system may
be left at rest (`SyncEngine`, `TenantSync`, `Administration`, `DeviceAccess`,
`CardIssuance`); everywhere else a state without a step is an error.

## What is proved

Each theorem is about one of the properties the runs check and holds for every
value of the constants that satisfies the named assumptions of the module
(`ASSUME`, with names; TLC evaluates them in every run). No bound of the runs is
left in them: any number of devices, cards, operations, requests, retries,
faults and seconds.

| module | theorem | statement | extra hypothesis |
|---|---|---|---|
| `CardLifecycle_proofs` | `TypeCorrect` | `Spec => []TypeOK` | |
| | `LogExplains` | `Spec => []LogExplainsBalance` | |
| | `SessionMatches` | `Spec => []SessionMatchesLog` | |
| | `BalanceLimits` | `Spec => []BalanceWithinLimits` | `2 * Skew < Hour` |
| | `FeeFollows` | `Spec => FeeFollowsStay` | |
| | `Refinement` | `Spec => RefinesPurse` | `2 * Skew < Hour` |
| | `Understood` | `WireSpec => WritesAreUnderstood` | `2 * Skew < Hour`, `MaxCounter <= 65535` |
| | `BooksAgreeHold` | `SectionSpec => []BooksAgree` | |
| | `WritesMeantHold` | `SectionSpec => WritesAreMeant` | |
| `NfcWrite_proofs` | `BooksTogether` | `Spec => []BooksGoTogether` | |
| | `RecordedStays` | `Spec => []RecordedIsOnCard` | one device |
| | `NothingRolledBack` | `Spec => NoRollback` | one device |
| `TxPush_proofs` | `VerdictsTrue` | `Spec => []VerdictsAreTrue` | |
| | `CounterKept` | `Spec => CounterNeverFalls` | |
| `EntitySync_proofs` | `EditsKept` | `Spec => []NoEditIsLost` | |
| | `Agrees` | `Spec => []AgreesUnlessSkipped` | |
| | `NeverBack` | `Spec => ServerNeverGoesBack` | |
| `DeviceSync_proofs` | `FlagNotStuck` | `SyncSpec => []FlagIsNotStuck` | |
| | `Listens` | `SyncSpec => []AlwaysListening` | |
| | `NothingBehind` | `PullSpec => []NothingBehindCursor` | stamps order insertions |
| `Administration_proofs` | `ArchivedStays` | `Spec => ArchivedForGood` | |
| | `OwnSuccess` | `Spec => SuccessIsItsOwn` | |
| | `FreshStays` | `Spec => []FreshIsCurrent` | |
| | `SessionRulesHold` | `Spec => []SessionRules` | |
| | `NobodyAccused` | `Spec => NoFalseAlarm` | |
| `TenantSync_proofs` | `Registration` | `Spec => []RegistrationAgrees` | |
| `Browser_proofs` | `OneAllowedWrite` | `ScreensSpec => OneAllowedWritePerTap` | no attended terminal |
| | `ScreenTrue` | `ScreensSpec => []ScreenIsTrue` | |
| | `WritesShown` | `ScreensSpec => WritesAreShown` | |
| | `NoPageOrphaned` | `BrowserSpec => []NoOrphanPage` | |
| | `Obeyed` | `BrowserSpec => ServerIsObeyed` | |
| | `LocalTables` | `BrowserSpec => []LocalBooksAgree` | |

A hypothesis is there only where the statement is false without it. With two
clocks an hour apart a stay can be negative by a whole hour and is paid out
(`Skew = 2` in the run shows it). Two devices that hold the same card overwrite
one another (set `Devices` to two in the station's run). A row inserted in a
second already pulled is behind the cursor (`PullSameSecond.cfg`). At a terminal
with an operator a retry skips the idle phase that resets the lookup's answer,
and a second write goes out on it (see "Kiosk" under the disagreements).

### The card

`TypeOK` is inductive, given what each operation leaves on a card (the
`...Properties` lemmas, from `BuildLogEntryProperties`): a log of at most
`LogSize` entries stays one. `Explained` is inductive with `TypeOK`: each write
appends one entry whose signed amount is the change of the balance, and the ring
drops entries only from the old end (`AppendExplains`).

`SessionMatchesLog` is `Matches(card)`, which is stated for any payload: a
session entry with nothing but top-ups after it tells the card's state and the
time that goes with it. It is inductive with `TypeOK`. An operation that opens or closes a
session, or blocks, appends the one entry that is judged (`SessionEntryMatches`);
a top-up keeps session and session entry, and the ring only drops older ones
(`TopupMatches`).

`BalanceWithinLimits` is not inductive. A state with a card checked in at
a time far in the future would be charged a negative fee, and the balance would
grow beyond its limit. `SessionInv` excludes it: while the card is checked in,
its start time is the real time of the check-in up to `Skew`, and that time has
passed. With it a stay reads at least `-2 * Skew`, so rounding up gives no
negative hours (`HoursNat`). The inductive invariant is
`TypeOK /\ SessionInv /\ BalanceWithinLimits`. `FeeFollows` needs `SessionInv`
alone. `Refinement` maps every step to a step of the purse or a stutter under
the same invariant: a checkout to `Leave` with the charged hours as witness, a
block to `Freeze`, a reset to `Reset`.

### The bytes of a card

These proofs go on from the ones above, about `CardWire`. `WritesAreUnderstood`
is not inductive, for what is read back depends on what was on the card before.
`WireInv` adds that every number of the card fits its field (`CardFits`) and that
the chip holds what a write with a new trailer would put there (`Sealed`): the
trailer of the write before leaves nothing behind (`SealedAgain`). That a card
fits is where the widths, the limits of the balance and the clocks come in; a
checkout that logs a negative fee would not, hence the hypothesis on `Skew`.

Reading is one lemma for each conversion and the one that undoes it: an entry is
packed without loss (`PackedIsSame`), the hashes of a log are a chain
(`ChainHolds`), the body gives back payload and slots, of which those in use are
counted (`BodyReadsBack`), and the seal opens under the tenant's key and no
other (`SealedReadsBack`). For the server, `StepWrote` names the entry that each
tap appends, and `WroteTold` compares it with the record: the amount of the one
is the difference of the balances in the other. The server refuses a counter
above 65,535, the card does not; so `MaxCounter` is bounded in the theorem.
Ciphers, MACs and hashes remain free constructors.

### Printing and topping up a card

These stand in `CardLifecycle_proofs` too, which extends both modules. The two
parts of the station's page share no state, so a step of one leaves the other's
invariant; the invariant of `CardSection` is the conjunction of theirs.

*Printing* (`IssueInvariant`). `IssueShape` gives the shapes of refs, attempts
and dialogs: whose number a session bears, and that a confirmed attempt has a
prepared card. Where the operator does not hurry, `OneAttempt` says what the
page then has at most: one attempt, or one open question about the card that is
prepared, or a recovery. From it `CardsListed` keeps card and row together: a
printed card has its row, or the one attempt that printed it is about to write it.
`AsksBeforeOverwriting` has to hold of hasty operators, too. `NothingLost` says
that of all attempts under way nobody confirmed at most one has a session that
has not aborted, and it is the one the page's refs know; hence `AskedFirst`: an
attempt on its way to the write has found its card blank, and nobody else can
have printed it since. This failed at first in the model: a confirmed write that
breaks off forgets the session of the page (`EndedBy`), and a second session
stays open beside the new one. `mixed` is the history variable that excuses it,
and the disagreements below tell the story.

*Topping up* (`PageInvariant`). On top of the shapes, `WritesMeant` follows an
amount from the drawer to the card: whatever is being written, waits for its card
or is kept in the journal was confirmed, and is not less than what the card has;
at most one write is on its way; a card that is ready while the drawer is open is
the one chosen, with its check under way or done. `LandsAsConfirmed` is then a
step of `Lands`. `RowsMeant` is what the row of a card may lag behind: it shows
the card's balance unless the journal has an entry of that card or one of the
page's two effects is about to write the row, with the balance that the card has
by then. It needs a calm visit (`~visit.hurries /\ ~overtaken`): with two writes
at a time the second record may be the older one. `MemberFollowed` is the cascade:
the cards that a mutation has still to change include all that do not fit the
member's status yet, as long as one mutation runs and nothing undoes it.

### Writing a card

`BooksGoTogether` has three parts, each with an invariant of its own on top of the
types. What is written is of the right type only with the number of operations
prepared so far (`TypeInv`). Nothing recorded was never on a card, because a
pipeline that records has verified what the card holds (`PhantomInv`). The
journal covers every write under way because of what a kiosk allows in each
phase: one live pipeline and one deferred write at most, and no second card
while the first has not been let go (`KioskOK`).

`RecordedStays` and `NothingRolledBack` need `InStep`, at the kiosk's site: what
is shown, journalled and being written is a beginning of what the card holds, or
one operation more, and the books follow it. Another device's write would break
it, hence the hypothesis.

### Push

`PushInv` says whose request is on its way (`Sent`), that the transactions in it
are its device's (`Owned`), what a handler has done for what it is about to
answer (`RequestsOK`), that every transaction of a batch is in the request,
refused or stored (`Carried`, `Covered`), and that what a device was told is
stored (`Told`). A flagged transaction is one whose counter the row has reached.
`VerdictsTrue` follows from it. `CounterKept` needs it where an entity's last
statement runs on a row read earlier: the row is still there, and the statement takes
the greater of the two counters as they then are.

### Members and cards

`EntityInv` follows an edit from the device's row into the request, from there
to the server's row, and from there into an answer of a pull (`MemberInv`;
`StatusInv` for the status that goes with the stamp, `CardInv` and `CountInv` for
the card). What lies between is `JobsOK` (what a request at a certain step
carries), `Pulled` (an answer is not newer than the server's row) and `Stamps`
(nothing has a stamp that no clock has shown). Where requests are handled one
after the other, `Alone` says so of the states. `TypeOK` alone was not inductive:
a request at the server must carry what the handler reads.

### Pull

Under the hypothesis (`InOrder`: a push ends in its second, one row each, and
no pull reads in a second that still gets rows), `PullInv` says that stamps
increase along the table, that a handler at work stamps the current second and
that no other has stamped it yet, and that every cursor, the saved one and the
ones of pulls and pages under way, is behind the clock with all rows up to
it here or on the page. A page that is cut off ends at its greatest stamp, which
is the stamp of one row only. The proof stands with the scheduler's, which starts
the pulls.

### Scheduler and live events

`FlagIsNotStuck` is inductive as it stands: a set flag has a cycle of this mount
in one of its three phases. `AlwaysListening` needs `LoginOnce`: at most one pull
is one that the hook's log-in waits for, and then the hook is at its log-in. The
engine and the live events share no variable, so a step of one leaves the
other's invariant.

### The kiosk and the scanner

For `OneAllowedWritePerTap` the history the property reads is not enough: it
compares a write with the last lookup's answer, and an effect runs on what the
commit before it saw. `KioskInv` says of a kiosk's reader what each phase
implies. Where a write is still to come none has gone out for this tap
(`WroteOnce`), and an answer that effects may act on was given for the card that
is there now (`AnswerIsNew`): the idle phase between two taps clears it.

The scanner's invariant has to follow promises nobody waits for any more. Of all
operations of a hook that are live (neither aborted nor superseded) there is at
most one, the hook's current one, and it has the phase the screen shows
(`LiveFits`); a screen that shows a card or a success shows what the operation it
belongs to has read or written (`ShownIsTrue`). A cancelled operation may still
resolve, but finds itself aborted and leaves the screen alone, which is why both
properties hold whatever order answers come in. An inline write is tied to the
scan that started it (`InlineFits`). The kiosk and the scanner share no variable,
so a step of one leaves the other's invariant.

### The browser

`AccessInv` is about a browser whose tenants are in use. `NoOrphanPage` needs to
know of the time between a refusal and the redirect it asks for: a request that is
about to delete contexts has its redirect ahead of it, because the toast that
would suppress the redirect belongs to a block that is still on (`Leaves`). A
second refusal meanwhile breaks the tie, which is what `late` excuses. A log-in
goes on at the start page only (`Waits`), so no page that was open before gets
its context from it. For `ServerIsObeyed`, `Heard` says that what the server told
last is what the block, its timer and the answers still being handled go by, all
of them at least as long: until then `apiFetch` finds the browser blocked. What
is typed (`ContextsOK`: each tenant once, hence no more contexts than tenants)
is most of the work, since a context is taken out of the middle of a sequence and
put at its end (`TakenOut`, `OneEach`; the second is why `Tenants` is finite).

`LocalInv` is about the tables of local tenants and accounts. That stored
credentials let their owner in (`EntersHere`) has to be known while a copy of a
server's account is half done, too: one copy of a name runs at a time, and at its
last step the account is there as the copy has it (`CopiesFit`). A tenant that is
set up has an identifier nobody else has, and its configuration is written between
the second step and the third (`SetupsFit`); so the tenant without an admin is
always the one whose set-up is about to write the account. `SlugsKept` ties
a configuration to the server's slug and gives `RightTenant` when a page opens
whose configuration was there before; `FormFilled` says when a form has a slug.
Names in dispute are excused in all of them: one name for two tenants, or two
copies of it at a time.

The two parts share no variable (`OnePart`).

### The superadmin's page

The theorems are about `Administration`, where log-ins and sessions go on beside
the page (`NextPage`: those steps leave the page's variables alone). Three
invariants, on top of `TypeInv`, which says more of a call and a dialog than the
run's type invariant: whom it is about and to which status it turns.

- `StatusInv` for `ArchivedForGood`. A handler that has looked at a tenant may
  still make the change it looked for (`MayStill`), because nobody else has
  looked at that tenant since (`LooksAlone`), unless the tenant is in `met`. Each
  conjunct needs the other: a second handler's write would change the status under
  the first. For the second half of the property, `Undisturbed`: one call for each
  operation, and a tenant's creation and its change of status exclude one another,
  because a row that is to be created is not there.
- `DialogInv` for `SuccessIsItsOwn`: one call that is heard for each operation,
  and its dialog is open for its row or was dismissed.
- `FreshInv` for `FreshIsCurrent`. What is cached for fresh is not enough: an
  answer on its way will be cached, so `Coming` says the same of answers, and
  `Unheard` that a write nobody will hear of is excused. A new tenant changes the
  answer for its detail, which its creation does not invalidate; the detail is
  neither cached nor being fetched because the page found no such tenant in
  the list (`Found`). This is what the second part of `PagesAssumption` is for: a
  visit in which tenants are made shows details from the list only, as the page does.

### Log-ins and sessions

`SessionRules` and `NoFalseAlarm` are about the same `Administration`, seen from the
other side: a step of the page is for the server's log-ins a change of status, or
no step (`NextServer`). One inductive invariant, `SessionsInv`, serves both. What a
run cannot show is here that the numbers do not matter: any number of browsers,
requests, sessions and devices, any limits, windows and durations.

- *Types* (`ServerInv`). A request, the row and session it has found, and what a
  browser holds belong to one browser (`Fits`, `Holds`); rows and sessions only grow
  and keep their owner (`Grown`), so this survives every step of others. The bounds of
  `TypeOK` on the tables need room for what is under way, since a handler passes its
  check before it adds its row: `RecordRoom`, `SessionRoom`. That a free record and a
  fresh token can be chosen at all is a count of those in use (`FreeRecordFree`,
  `FreshToken`); for the second one, browsers are finitely many.
- *Blocks.* `BlockEndsSessions` is inductive on top of the types, because nothing
  clears `revokedAt` or moves an expiry. `BlockReachesBrowser` follows from `OneRow`:
  a browser whose requests never met has at most one row, and none while it
  registers, so there is no second row that a block would miss.
- *The number of sessions* (`CreatorsOK`). Three statements create a session: count,
  revoke, insert. The invariant has, for every handler between its count and its
  insert, the set of those whose session may still come on top of what it counted.
  What is alive and not about to be revoked, and this set, fit into the limit and the
  overlap. Of two handlers one has counted with the other or knows of fewer: this
  chain keeps the bound when a session arrives that somebody did not count.
- *The limiter* (`Counted`). While attempts do not meet, one request at most has a
  record, the map's or the one that will be stored. Log and history are pruned at
  different times; that this makes no difference (`PruneTwice`, `AlikeAppended`,
  `AlikeLater`) is a fact about `pruneOld`, whose recursion is dealt with by a shortest
  counterexample (`Least`).
- *False alarms* (`Trusted`). A browser holds the token that counts, or its refresh
  has rotated it and the answer is on its way; a request that is about to be looked
  at has the token that counts. The tokens of others do not matter, because a session
  belongs to one browser.

### Registration

The inductive invariant (`Inv`; TLC has checked its parts as well) says what the
property leaves out between two answers. A 201 that is still under way stands for
both rows as they were stored (`Stands`, `HasRows`), so whichever of the three
parts hears its answer last leaves the device with what the server has. Nothing
is known of a tenant before it is set up (`NothingYet`). An INSERT that failed has
met a row, and rows only grow (`Grows`; `UpdateStatus` changes a status, not an
identifier or slug), so the second look finds one of the three: the slug, an
admin of that name (then the conflict names a tenant), or neither, and then it
is an account of another role or this very tenant. For the rows, `RowsInv`: a
page that has passed the members has left none pending, which is where `late`
and `refused` come in, and the token of a device without a second-hand one is
its tenant's. `NamesAssumption` says that neither side makes an identifier of
the other's (both use `randomUUID`); with equal ones the theorem would be false.
`FreeInv` keeps an identifier for the superadmin's request, which only one request
at a time needs.

### What is only model-checked

Out of the prover's reach: liveness under fairness and ENABLED (`Settles`-like
properties of every module); what a fold computes, which needs induction over
data with an operator as parameter. (Where a least counterexample is enough, as
for `pruneOld`, a recursive function can be dealt with.) Therefore
`PullCursor` counts its handlers with `Cardinality` and `EntitySync` compares
stamps rather than sums. All safety and action properties of the passing runs
have a theorem; `ChangesWhatItShows` is refuted by its run. Checked in no form:
what the pure encoders compute byte by byte.

## Disagreements met on the way

Beside the runs and counterexamples above, these came up while modelling. Each
can be seen by changing the named constant, or is plain from the definition.

*Card.* An expired card can be topped up, and the top-up renews it
(assumptions.md:64 allows only a checkout). A blocked card can be topped up at
the station if its own database does not know of the block (assumptions.md:26).
A card that was checked out goes straight to checked in at the gate, not by way
of idle (assumptions.md:63). The fee is not capped by the balance, contrary to
the comment at engine.ts:134; such a checkout is refused instead. With
`Skew = 2` and an hour of 3 seconds, clocks are more than an hour apart and
`BalanceWithinLimits` fails (assumptions.md:41). A stay between minus one hour
and zero costs nothing, where requirements.md:153 of
gate-terminal-scout-ux-stabilization asks for one hour.

*Bytes.* A negative fee would wrap in the three bytes of the amount and pass the
verification. A name longer than 24 bytes that is cut inside a character fails
its first verification, and issuance does not verify. The server refuses
counters above 65,535 and amounts above 16 million. Foreign cards fail at the
decryption, so the warning for another tenant's card is never reached.

*NFC.* With two devices a deferred write overwrites what the other device wrote
in between: `NoRollback` fails (design.md:1305 of the system architecture). So
do it and `RecordedIsOnCard` when drawers may close mid-write (`mayCancel`)
or when a card is tapped while the journal is saved (`tapDuringSave`), against
useNfcCard.ts:53; the properties excuse these sites. With `saveMayFail` the
write goes on without a journal entry. A deferred write that timed out, and was
reported as failed, is written after all when the card is presented again
(assumptions.md:81).

*Kiosk.* With `Attended = {"terminal"}` a retry skips the idle phase that resets
the lookup's answer, and a checkout or a block is written on the answer for the
card before (TerminalSection.tsx:113 and :156). A renewal of the grant during
the pause before the next scan clears its timer, and the kiosk stays idle
(`Renewing = {"gate"}`, useKioskAutoScan.ts:75; requirement 6.1). At a terminal
the message that a block was written never closes (requirement 8.5). A scout
that recovers a journalled write shows "success", which only "Selesai" closes.
A gate or terminal without station access that switches to scout mode is
offered only scout afterwards (KioskLayout.tsx:61).

*Scanner.* A second scan started while the reader starts is killed by the first
one's AbortError. Validating waits for a second tap, which may be of another
card. Closing the drawer cancels nothing; reopened during "writing" it aborts
the write and the screen stays "writing"; a cancelled write may have landed.
`retryWrite` writes to whichever card is tapped.

*Push.* With forks two devices use one counter and one of the transactions is
answered as known without being stored (assumptions.md:46). An entry refused
with a 4xx becomes failed and is never sent again (design.md:701 of
tenant-management-enhanced). `BalanceFollowsLog` also fails, without a crash,
when edited records race with transactions.

*Pull.* `SlowHandlers`, `MaxBatch = 2` with a page that ends within a second,
and members stamped by the device that edited them each break
`NothingBehindCursor` (requirements.md:117 and :119 of
tenant-management-enhanced).

*Scheduler and events.* Cycles overlap (requirement 14.4); a mutation during a
cycle starts its debounce but the callback only queues (14.1); the periodic tick
goes on after the retries are exhausted (11.6); going offline during a cycle is
shown only until the cycle's next step sets the status (11.3). An empty pull
that started earlier can set the cursor back past an older status. A delayed or
repeated event write can put an older status over a newer one (excused in
`StatusArrives`). `fullSyncOnLogin` makes one attempt, its comment says five.
`useRealTimeSync` is not mounted although SyncEngineContext.tsx:8 says so.

*Registration.* After a lost 201 every retry is a conflict with itself. A retry
with changed names violates the primary key and is reported as "Unknown". The
local configuration is stale after `retryWithChanges`. The comment at
useTenantSync.ts:78 is not implemented (server-tenant-selection,
requirements.md:82). `isSyncingToServer` stays set after a failed push
(useAdminTenantSync.ts:33). A name that belongs to a non-admin passes the check
for the admin's (tenants.ts:281).

*Sessions.* No client calls `/refresh`. Overlapping log-ins exceed five sessions
(tenant-management-enhanced, requirements.md:58); the one revoked is the oldest
by creation, not by use (authSession.usecase.ts:89). A refresh rotates before it
looks at the account (auth.ts:331). A blocked browser may log in anew and gets
the blocked row's token. Two first log-ins make two device rows
(deviceRegistry.usecase.ts:36). The limiter's record is overwritten by a
concurrent first attempt (authRateLimit.ts:89).

*Superadmin.* Logging out only navigates; the token stays (requirements.md:101).
A failing background refetch replaces a cached detail by an error
(requirements.md:114). A late 401 of an older request removes a newer token
(SuperadminSection.tsx:53). `accountStatus` and `createAccount` invalidate
neither the tenants' details nor the options. Overlapping PATCHes can revive an
archived tenant; a superadmin may suspend its own account; a lost answer to
`createTenant` makes the retry conflict with itself; an error stays in a
reopened dialog.

*Browser.* Leaving the device set-up while its answer is on the way still caches
the credentials. The unblock timer is capped at 24 hours and clears longer
blocks (requirement 5.5); `isDeviceBlocked` never calls the unblock callback
(5.6). `clearSessionGrantCache` opens version 3 of a database whose version is 5
(deviceBlock.ts:181). Picking a role caches a local grant over the server's
(useLoginFlow.ts:299). A local grant of one year overflows `setTimeout`
(useSessionGrant.ts:122). A late 403 after a new log-in wipes the new context; a
block is forgotten by a reload. `setDeviceSetupLaunchContext` has no caller, so
the branches for a launch context are unreachable.

*Local tenants.* Set-up writes the configuration and then the account: a taken
user name leaves a tenant without admin and its slug taken. Without a slug the
server takes a superadmin or the first match (useLoginAuth.ts:142 says only
superadmins). The set-up's context has the account "<tenantId>-admin", which is
not the account's id.

*Issuance and station.* Serial numbers of NTAG cards have seven bytes, card ids
six: comparisons of a whole serial with an id never match, and `executeRecovery`
refuses every real card (the tests at CardSection.utils.test.ts:402 and :1226 use
six). Confirming the dialog of a card that is not blank skips the registration
check; a dialog of an earlier attempt can be confirmed while a later one is
being prepared; a forced write has no time-out. A confirmed write that breaks
off clears the page's session, whoever it belongs to by then
(CardSection.utils.tsx:254), and opens a fresh one beside that of a later attempt;
with four hurried attempts the later one may then print over a card that has just
been printed, without asking. A late "blocked" for one card closes the
drawer opened for another (useCardOperations.ts:138); if a write is under way
there, the operator can choose a card again, and the older of two records may
come last: the row then keeps an old balance although nothing is left to do
(five top-ups and one fault show it). A pending write survives its drawer and
lands at its card's next tap. Scanning a card at the station marks its row
pending with the local status, which can push an outdated "active" over a block.
A failed cascade leaves a suspended member with active cards.

## Not modelled

- Rendering, forms, routing and wording; their handlers call the operations the
  models have. Table definitions of the local database: each model carries the
  tables its component uses.
- Code without a caller in the application: `conflictResolver`, the client's
  rate limiter, `processTenantSync`, the forced push before a read of
  `peerSyncCoordinator`, the dual buffer of the payload (`commitWrite`,
  `recoverFromIncompleteWrite`), `enforceBlock`, export and import of a tenant,
  `NfcScanDrawer` and the station's fix-card panel. `UnifiedNfc` and `LiveSync`
  are modelled although no route mounts them, since they are complete components
  with specifications of their own.
- Reconciliation: the client posts without an `Authorization` header to a route
  behind `verifyToken`, so every call is refused; what is left is one read.
- Validators and `syncRateLimit`: no state beyond one call or one counter in
  memory.
- A tenant's own accounts and devices pages: one request, one row.
- Ciphers, hashes and byte layouts as computations; the repository's property
  tests cover them.
- Adapters that replace the reader in tests.

## Plan

Done: card rules, life cycle and bytes with the abstract purse and its proofs;
writing, kiosks and scanner; push, pull, entities, scheduler, live events;
registration, sessions, superadmin's pages; browser, local tenants; the
station's pages.

In the models: `NfcWrite` with two devices under a card that both
may hold, and the stale deferred write as a property of its own; an abstract
specification of a registered row (a register that takes the newest accepted
edit), refined by `EntitySync`.
