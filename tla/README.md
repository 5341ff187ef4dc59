# Situs, specified

TLA+ modules, TLC configurations and TLAPS proofs for Situs, the self-hosted property management
server of this repository: a Next.js and TypeScript application over one SQLite database, whose
core is a *reference-month* rent ledger. Money travels

    bank movement -> match -> receipt -> allocation to months -> lifecycle -> tax filing

and every hop is a handful of awaited database calls. Two requests interleave at each await, and
the server can stop at each one. That is what these modules are about.

Paths below are those of the repository (`lib/services/...`).

## 1. The system and its parts

| Component | State it keeps | Operations | Hard part | What makes it correct |
|---|---|---|---|---|
| Allocation engine, `lib/services/allocation/engine.ts` | none (pure) | `planAllocation`, `derivePeriodStatus`, `deriveTenantStatus` | boundaries: full months, horizon, left-over money | oldest month first, no cent lost |
| Rent ledger, `lib/services/allocation/service.ts` | `RentPeriod` totals and statuses, `PaymentAllocation`, `Tenant.paymentStatus` | generate months, allocate, reverse | a plan made before the transaction that applies it | totals, statuses and back-links agree with the live allocations |
| Receipts, `lib/services/database/receipt`, `lib/services/receipts` | `Receipt` rows and their lifecycle | create, edit, transition, void, delete | check, then unconditional write | terminal states are final; voids and deletions take the money back |
| Bank inbox, `lib/services/bank/import.ts` | `BankTransaction` status, lease, receipt | import, confirm, reassign, ignore, restore, link | two writers of one movement | a movement's money counts once |
| Matching, payer accounts, `lib/services/matching`, `bank/payer-accounts.ts` | learned accounts | classify, learn | scoring | which verdict, never whether money counts twice |
| Bank connections, `bank/consent.ts`, `connections.ts`, `sync.ts` | `BankConnection` status, consent, parked renewal; `BankSyncJob` | connect, renew, complete, disconnect, remove, sync | bank redirects, two callbacks, partial grants | a reference is spent once; a disconnected connection stays so |
| Tax filing, `lib/tax/connectors`, `lib/compliance` | `RentReceipt.status`, submission log | submit, poll, number | two rows written independently | receipt and filing agree after a stop |
| Accounts, `lib/services/auth/accounts.ts`, `registration.ts`, `sign-up.ts` | `User.role`, the sign-up switches, invitations | sign in, change role, delete own account, open and close the doors | two administrators at once; a decision made awaits before the row | one administrator always remains; nobody enters by a closed door |
| Second factor and sessions, `lib/services/auth/auth.ts`, `session-epoch.ts`, `app/api/auth/totp`, `app/api/auth/passkey` | the factor, its secret and passkeys, `sessionsValidFrom` and its cache, each session's token | set up, enable, disable, answer, end sessions | a code checked awaits before the write it allows, stale cache | a session is released by its own factor; an ended session ends; nobody is locked out |
| Notifications, retention, recurring expenses, lease renewals | reminder rows, expense rows, renewal offers | cron and route handlers | check then create | nothing is created twice |
| Rate limits, reports, email, PDF, user interface, scripts, translations | views and output | — | — | not modelled, see section 7 |

How they meet: the inbox and `POST /api/receipts` create a `Receipt` and call `allocateReceipt`; the
receipt's void and deletion call `reverseAllocationsForReceipt` inside their own transaction; a
deletion also sends the bank movement back to the inbox; the retention job deletes movements without
a receipt; the backfill script calls the ledger with the server stopped (docs/truenas.md).

## 2. Modules

| Module | Models | Depends on |
|---|---|---|
| `AllocationEngine` | the engine's functions, in closed form | — |
| `Waterfall` | the two loops of `planAllocation`, one iteration a step | `AllocationEngine` |
| `RentAccount` | abstract: a tenant's account, entered and taken back in whole receipts | — |
| `RentLedger` | the ledger of one lease: months, receipts, allocations, requests in flight | `AllocationEngine`, `RentAccount` |
| `MCRentLedger` | instances for TLC, symmetry | `RentLedger` |
| `MCBackfill` | the ledger with a record of what the script has allocated | `MCRentLedger` |
| `MatchingBook` | abstract: which receipt each movement has become, and which receipts count | — |
| `BankInbox` | movements, receipts, requests of `import.ts` | `MatchingBook` |
| `MCBankInbox` | instances for TLC | `BankInbox` |
| `ConsentLife` | abstract: the life of one connection and of the consents granted for it | — |
| `BankConsent` | one live connection: consent attempts, renewals, syncs, disconnection, removal | `ConsentLife` |
| `MCBankConsent` | instances for TLC | `BankConsent` |
| `AccountRegistry` | abstract: who has an account and who administers, one step an operation | — |
| `Accounts` | sign-ins, role changes, erasures, sign-up switches, invitations, split at their awaits | `AccountRegistry` |
| `MCAccounts` | instances for TLC | `Accounts` |
| `SecondFactor` | one account's second factor, its sessions, the stamp and its cache | — |
| `MCSecondFactor` | instances for TLC | `SecondFactor` |
| `AllocationEngineProofs` | proofs about the closed form | `AllocationEngine` |
| `WaterfallProofs` | the loops compute the closed form | `Waterfall`, `AllocationEngineProofs` |
| `RentLedgerProofs` | the inductive invariant of the ledger and what follows from it | `RentLedger`, `AllocationEngineProofs` |
| `RentAccountProofs` | the ledger implements the account, and what follows from that | `RentLedgerProofs` |
| `BankInboxProofs` | the inductive invariant of the inbox, and the refinement of the book | `BankInbox` |
| `BankConsentProofs` | the inductive invariant of the consent, and the refinement of the connection's life | `BankConsent` |
| `AccountsProofs` | the inductive invariant of the accounts, and the refinement of the registry | `Accounts` |
| `SecondFactorProofs` | the inductive invariant of the second factor and what follows from it | `SecondFactor` |

### How a request is modelled

A request is a record with a program counter. What a handler read before an await is kept in the
record and used by a later action, while other requests' actions run in between. The body of a
`prisma.$transaction` is one action, and so is a single call with a condition in its `where`.
The database is one SQLite file behind one connection, on which interactive transactions run one at
a time; that they are atomic and isolated is an assumption about Prisma and SQLite, not something
these modules show. `Abandon` ends a request at any await: it stands for an early return, an error,
a rolled-back transaction and a stop of the server alike, since the only thing a restart loses is
the requests (nothing the modelled components keep in memory survives one). `Lost` and `Lose` are its names
in the other modules. The one thing kept in memory is the cache of the session stamp: a restart empties it,
which is `CacheExpires`. The calls of a `Promise.all` are answered in the order they were issued, since they
go over one connection.

### RentLedger and the code

| Action | Code |
|---|---|
| `CreateReceipt` | `POST /api/receipts` (`receiptService.create`), or the inbox's draft |
| `Load`, `Generate`, `Plan`, `CommitAllocation` | `allocateReceipt`: its first reads, `generateRentPeriods`' insertion, the plan, the transaction |
| `SeedLease` | `POST /api/leases`, which generates the months of a new lease |
| `StartTransition`, `ApplyTransition` | `transitionReceipt`: check, then write, with the reversal when it voids |
| `StartDelete`, `ApplyDelete` | `receiptService.delete` |
| `UpdateReceipt`, `ChangeRent` | `PUT /api/receipts/[id]`, `PUT /api/leases/[id]` |
| `StartBackfill` | `scripts/backfill-rent-periods.ts`, while no request is running |
| `Tick` | a month passes |

A month is its index from the start of the lease, a date is a month index, and money is an integer
number of cents: the code's floating-point tolerance of half a cent becomes an exact comparison with
zero. What floating-point addition does to amounts is outside the model. `live[r][m]` holds the
non-reversed allocation of receipt `r` on month `m`; reversed rows are history nothing reads. A void
keeps the receipt row, a deletion removes it. `RentPeriod.status` is what was last written: the code
does not refresh it as time passes (the reports recompute it when they are read), and neither does
the model, which is why `StatusFollowsMoney` says nothing of the clock.

`PUT /api/receipts/[id]` may also give a receipt to another tenant. `tenantStatus` is the status of the lease's own
tenant (`Tenant`): a commit recomputes it whoever the receipt names, since it goes by the lease
(`allocation/service.ts:222-232`), and a reversal recomputes the status of the tenant the receipt names by then (313-322). The other
tenants' statuses are theirs to derive, from months this lease does not have. A receipt without a lease that was given
away is looked for on the other tenant's lease: here its request ends.

Nothing in the repository writes `RentReceipt.receiptId`, so `transitionReceipt` refuses every move to
"submitted" for want of a filing (`lib/services/receipts/service.ts:153`). The state machine is modelled whole,
with all its states; the instances ask only for the moves the running program can make
(`Targets`), and the proofs cover any subset of them.

### BankInbox and the code

| Action | Code in `bank/import.ts` |
|---|---|
| `StartImport`, `Insert` | one row of `importBankRows`: dedupe, classify, quarantine; then the insertion |
| `MakeReceipt`, `Claim`, `Discard`, `Allocate` | `createReceiptAndAllocate`, call by call |
| `StartConfirm`, `CheckRecorded`, `Park`, `Settle` | `confirm` and `reassign` of `applyTransactionAction` |
| `StartIgnore`, `Ignore`, `StartRestore`, `Restore` | the other two row actions |
| `StartLink`, `Offer`, `LinkPayment` | `linkToRecordedPayment` |
| `RecordByHand`, `VoidReceipt`, `DeleteReceipt`, `PurgeMovement` | the receipt routes and the retention job, as far as a movement sees them |

Rows of a batch are imported one after another, so a row is a request. The verdict of rules and
matching is a choice, within what the code lets follow from it; whether a recorded payment has the
movement's amount and date is a choice too, so `PUT /api/receipts/[id]`, which can only change that,
needs no action. What kind of movement it is (rent, an outflow, test money) is fixed at the
start. `allocateReceipt` is one step: what happens inside it is `RentLedger`'s subject. The backfill
script is not among the actions; what it does to a receipt that is left without a movement is the
defect `ledger_backfill` shows. Counters, audit rows and learned payer accounts are left out: no
guard of the modelled code reads them.

### BankConsent and the code

| Action | Code in `bank/` |
|---|---|
| `CreatePending`, `StoreLink` | `startConsent`: the pending row, then the provider's link |
| `ReadForRenewal`, `Park` | `startRenewal`: read, link, conditional write of the parked renewal |
| `ReadForCompletion`, `Claim`, `Exchange`, `PersistAccounts`, `RereadMetadata`, `RewriteMetadata`, `Activate` | `completeConsent` with `persistAccounts`, call by call |
| `ReadForDisconnect`, `StopSyncing`, `AskBank`, `LetConsentGo` | `disconnectConnection` |
| `ReadForRemoval`, `Remove`, `ReadForTestDeletion`, `Discard` | `removeConnection`, `deleteTestConnection`; both end in `AskBank` |
| `ReadForSync`, `Fetch`, `FetchRefused`, `ImportRows`, `MarkExpired` | `syncConnection`, one account after another |
| `SweepAbandoned` | the retention job's deletion of pending rows a day old |
| `Lost`, `BankEnds`, `DayPasses` | a failed call or a stop; a consent ending at the bank; references lapsing |

A consent attempt is known by the reference minted for it. The bank sends it back with a code that is
good for one exchange, so the same name serves for the attempt, its reference and the consent the
exchange mints. The redirect can come any number of times, late or never: `ReadForCompletion` is enabled
as long as the row holds the reference. The `metadata` column is one value that is read, compared and
written whole, as in the code; its fields are those some guard reads. All accounts of a connection are
one flag, and so are its movements, because the code only asks whether there are any. `answer`
is what the bank's answer to an exchange carried: `providers/enablebanking.ts` refuses one without accounts, but takes one without a
session id (541-543), and one whose accounts have no `uid` a sync could use (502-508), and the connection becomes active on either.
Where the id is missing the column is set to null, whatever it held. The bank
refuses what it likes: a refused fetch is free to be wrong about the consent. Left out: names and audit rows, the
lookup of a bank id for connections made before it was stored, the connection's expiry date (a fetch may be refused at any
time, which includes that day), the daily budget, the erasure of a user's account, and the
retention job's deletion of old movements (that is `BankInbox`'s).

### Accounts and the code

| Action | Code in `lib/services/auth/` |
|---|---|
| `SignIn`, `LookUpUser`, `CountUsers`, `ReadSignUpSettings`, `FindLiveInvitation` | the `signIn` callback (`auth.ts`): `resolveSignIn`, read by read, then `decideSignIn` |
| `FindAccount`, the same reads again, `CreateAccount`, `FindRaced` | `provisionAccount`, called where the session is minted |
| `ChangeAccountRole`, `ReadTarget`, `WriteRole`, `Classify` | `requireAdmin` and `changeAccountRole`: up to three attempts, each a read, one conditional UPDATE and a reading of why it wrote nothing |
| `DeleteOwnAccount`, `DeleteAccount`, `RevokeAtBank` | `deleteOwnAccount`: the transaction, then the bank |
| `UpdateSignUpSettings`, `ReadSettingsBefore`, `StoreSettings` | `updateSignUpSettings`: both switches are read, then those named are written |
| `CreateInvitation`, `CheckInvitee`, `StoreInvitation`, `RevokeInvitation`, `DeleteInvitation` | `sign-up.ts` |
| `Lapse`, `RemoveLapsed` | thirty days; the daily retention run |
| `Lose` | any await that fails, a stop |

`request.stage` tells the gate's reading from provisioning's: they run the same policy, and the second one
alone decides. `open` is history for `AdmittedByADoor` only: the doors that were open at some moment since
provisioning began. The property has to allow for that window, because a decision is written a few awaits after
what it was read from; what it excludes is a door that was open at *no* moment of it. One consequence is in the
code and allowed: two first sign-ins that both see an empty instance both become administrators. A role is ADMIN
or MANAGER: no path gives USER, which is what rows of older versions hold, and `scripts/delete-user.js`, which
deletes a row by hand, is not among the actions. The provider is Google; the demo's credentials login is off in
production.

### SecondFactor and the code

| Action | Code |
|---|---|
| `SignIn`, `Mint` | the `jwt` callback at sign-in: the sign-in time, then the reading of the factor |
| `Begin`, `BeginCached`, `ReadEpoch`, `RememberEpoch`, `EpochUnreadable` | the `jwt` callback of any later request: the stamp, cached or read; then what `Judge` does with it |
| `Keep` | the same callback with a keep proof |
| `CacheExpires` | five seconds, an eviction, a restart (`session-epoch.ts`) |
| `Setup`, `StoreSecret` | `totp/setup` |
| `Enable`, `TurnOn`, `RememberStamp`, `ClearPasskeys` | `totp/enable`, await by await |
| `Disable`, `TurnOff`, `ClearPasskeys` | `totp/disable`; `RightCodes` is what `provesSecondFactor` accepts |
| `VerifyTotp`, `VerifyBackup`, `SpendCode` | `totp/verify` |
| `Register`, `SaveKey`, `RemoveKey`, `DropKey` | `passkey/register/verify`, `passkey/[id]` |
| `FindKey`, `CheckFactor`, `UseKey` | `passkey/authenticate/verify` |
| `Lose`, `Tick` | a failed await; the clock |

A session is its token, one at a time: what a browser does when answers to two of its requests arrive in another
order is outside the model. A proof is a flag of the session it was made for (`mfaProof`), or the sign-in time it
was made for (`keepFor`): a MAC cannot be made otherwise, and which of the two the callback compares is what
`OwnProof` is about. `accepted` and `confirmed` are history, for the properties. The code somebody sends is
right, guesses that fail change nothing; but a backup code is named by the secret it came with, and is right as long as the stored list
has it. `SpendCode` writes the list it read, whatever the secret is by then, so a list can outlive its secret. Proofs never expire here and the
guess limits are left out, so the model allows more than the code. The two options routes sign a
challenge and write nothing: a request to register comes from a browser that has one. A sid is given at
sign-in; the repair of tokens minted before there were sids and verified ids is left out.

## 3. Runs

Passing runs explore their whole state space. Deadlock is checked in each but four. The life
of a connection ends, with its removal and the end of its last consent, and `bank_consent` has nothing after it;
account ids, sign-ins and the clock are used up in `accounts`, `second_factor` and `session_ends`, where a state in which every
session is over is an end.

| Run | Question | Bounds |
|---|---|---|
| `engine` | do the loops compute the closed form, oldest first at every iteration, losing nothing? | rows among 3 months, due 0 (a free month), 1 or 2, total 0, 1 or 3 (under, at and over due), horizon 0 to 2, seven amounts from nothing to more than everything holds |
| `ledger_concurrent` | do totals, statuses and back-links follow the live allocations under concurrency, and does money move in whole receipts? | 2 receipts, 2 requests and the script, 3 months, rents 2 and 3, amounts 1 (a part) and 3 (more than a month) |
| `ledger_sequential` | one request at a time and a fixed rent: is the ledger the account of `RentAccount`, and never over-full? does a tenant who reads overdue owe? | 2 receipts, 2 tenants, 4 months of which 2 or more are created by plans, amounts 1, 3 and 4, early and late payments |
| `bank_inbox` | does a movement's money count once, whatever overlaps: is the inbox the book of `MatchingBook`? | 2 movements of any kind, 2 requests, 1 receipt by hand, 2 by the inbox |
| `bank_consent` | does the row stay true to the consent, and keep its movements, whatever overlaps or is lost: is it the life of `ConsentLife`? | 2 consent attempts, 2 requests; answers with or without an id and accounts; a row real or a test's, with or without accounts and movements |
| `accounts` | is the instance what `AccountRegistry` promises, and does nobody enter or rise on what is no longer so? | 2 addresses, one on the allowlist and one the provider verified, 2 accounts, 1 invitation, 2 requests |
| `second_factor` | is a session released by its own factor only, and is nobody locked out? | 2 sessions, 2 secrets with 2 backup codes each, 1 passkey, 2 requests, 2 clock values; the factor off, set up or on at the start, with and without passkeys; every operation but adding and removing one passkey |
| `session_ends` | does a session older than the stamp end, if it stays in use? | 2 sessions, 1 secret without backup codes, set up at the start, 1 passkey, enable and adding and removing a passkey, 2 requests, 2 clock values, no symmetry |

Two requests are what every race of these handlers needs: each handler has one window between a read
and a write, and one other request to disturb it. Two receipts are needed for a total shared by two
payments; one payment that covers more than a month, and one that covers less, reach every branch of
the plan. Three months hold an existing month, one that is generated, and one that a plan
creates; `LastMonth` is always large enough that a plan's horizon stays inside it, so the bound never
cuts a plan short. Two movements and two receipts of the inbox are the least that let two movements
want one receipt, and one movement be offered two. Two attempts are a first consent and its renewal, or a
first consent that is abandoned; three attempts at once are beyond TLC's reach here, and the proofs cover
any number.

Two accounts are two administrators who demote or leave at once, and an address each makes the four kinds of newcomer
(first, allowlisted, invited, by Google) meet the two switches. Two sessions are the one that turns the factor on and
the one it should end, or one that answers and one that waits; two clock values are before and after the stamp; two
secrets are the one a code was checked against and the one that replaced it; two backup codes are one that is spent and one that is
written back with the rest of the list. The one address that is not on the allowlist is verified in `accounts`: the unverified one,
which no switch and no invitation admits, is covered by the proof only.

What each property says is in the comment above it. In short:

- `LedgerBalanced`: a month's total is the sum of its live allocations. The plan's amounts are added
  to totals read *inside* the transaction; a version that wrote totals from the plan would break it.
- `StatusFollowsMoney`: the status reads paid exactly when the money covers the rent (README.md:50,
  "it can never drift from the money").
- `MoneyHasReceipt`, `BackLink`: no money without a receipt and a month; a receipt names its oldest month.
- `AllocatedOnce`: the idempotency check made before the transaction still holds inside it.
- `OverdueTenantOwes`: the tenant's status is derived when money moves and then kept, while months are added and receipts are
  given to other tenants; a tenant who reads overdue owes all the same. (The converse is no promise: nothing makes a tenant
  overdue as time passes, until money moves again.)
- `NoMoneyMinted`: what a receipt enters adds up to no more than the amount its request read, whatever became
  of the months since its plan was made. (Not the amount it has now: `PUT /api/receipts/[id]` may change that meanwhile.)
- `MovesWhole`: under concurrency, rent changes and stops, every step enters the money of one receipt, takes back all
  the money of one receipt, or moves none: `RentAccount` with the order left open (`WholeSpec`).
- `ImplementsAccount`, `NeverOverfilled`: with one request at a time and one rent the order holds too, and no month
  is allocated more than its rent. Both are false without these two conditions, see the disagreements below.
- `ImplementsBook`: whatever overlaps, a movement is given a receipt no other has, and only a deletion takes it back.
- `MoneyBehindMovement`, `OneMovementPerReceipt`, `ReceiptNeverReplaced`, `TestMoneyStaysOut`: the
  inbox's promises, see `BankInbox`.
- `ActiveIsGranted`: wherever a completion stops, what the row holds the bank granted, and a row that works lacks an id or account
  ids only if the bank once answered without them.
- `FirstReferenceSpentOnce`: a redirect delivered twice is completed once.
- `ExpiryIsEarned`, `LetGoOnlyWhenEnded`: an answer about an old consent is never taken for one about the
  consent that replaced it; both conditional writes are needed for that. (A renewal answered without an id lets go of a live one;
  the property names that case.)
- `ImplementsLife`, `PlacedOnce`: a granted consent is in one completion's hands until it is put in place, once. The
  code re-reads the metadata and writes it back without a condition (`consent.ts:493`), which can bring back a reference
  another renewal has just spent (that takes a first consent and two renewals, one more than the run has; the proof covers
  any number); a second completion with it ends at the bank, which refuses the code.
- `RemovalKeepsMovements`: the cascade never reaches movements, though the check is a read away.
- `AdministratorRemains`, `ImplementsRegistry`: the handlers, split at their awaits, do what a registry does in one
  step: an address has one account, and an instance with accounts has an administrator. The conditions inside the UPDATE, the
  DELETE and the creating transaction are what it takes; each of them as a count before the statement fails.
- `RoleGivenByAdmin`, `AdmittedByADoor`, `SwitchNeverPutBack`: nothing is done on behalf of
  someone who may no longer ask for it, nobody is admitted by a read that failed, no request undoes another's switch though it
  writes after a reading that has gone stale.
- `OwnProof`: of the sessions newer than the factor, those let through had their own factor accepted.
- `FactorConfirmed`, `OffByItsOwnCode`: turning on and off go by the secret that was held while the code was checked, whatever
  replaced it meanwhile; both conditional writes compare the secret and not only the switch. A backup code of the stored list
  counts, whichever secret it came with: see the last of the observations below.
- `EndedSessionsEnd`: an older session that stays in use ends, although a reading begun before the stamp may be
  remembered over it.

### Runs that show a disagreement

Each checks one sentence of the repository and TLC finds it false of the code.

| Run | Sentence | What happens |
|---|---|---|
| `ledger_backfill` | `scripts/backfill-rent-periods.ts:7`: re-runs are no-ops; docs/truenas.md:471: safe to re-run | a run allocates a receipt, a void takes its money off the months, and the next run, finding no live allocations, puts it back |
| `ledger_rent_change` | README.md:51: partial payments can't silently skip a month | the plan caps a new month at the last month's due amount, the transaction creates it at the lease's present rent: after a rise it is left short and a later month is paid |
| `ledger_terminal` | `lifecycle.ts:34`: the lifecycle never leaves terminal states | a transition checked before a void and written after it revives the voided receipt, without its money |
| `consent_disconnect` | `connections.ts:91`: a renewal completing at the same moment lands first or finds its reference gone | a renewal that has claimed its reference is at the bank while the connection is disconnected, and then writes `active` over `revoked` |

More follow from the models and have no run of their own:

- two payments planned on one reading of the months both land on the oldest one, which ends over its due amount
  (`allocation/service.ts:123`, planned before the transaction; `engine.ts:8`: always fill the oldest not-fully-allocated period);
- a movement is given its receipt between `ignore`'s check and its write, and ends ignored with that receipt behind it
  (`import.ts:824`; the comment at 815 says the check prevents it);
- a receipt is given to another tenant and then voided: its money leaves the months of the first tenant, whose status is not
  recomputed and may go on reading paid (`allocation/service.ts:313-322`, by `receipt.tenantId`, which `receipt/service.ts:126` may have
  changed; the comment at 221 says the status is derived from the ledger);
- a renewal answered without a session id writes null over the id of a consent (`consent.ts:372-377`), and from then on two
  consents without an id look alike: a sync refused under the first marks the connection expired under the second
  (`sync.ts:115-127` compares ids);
- two renewals that overlap each end the consent they read at their start (`consent.ts:387-391`), not the one they replace: the first
  one's consent stays live at the bank with nothing holding its id;
- a backup code is looked up in the list as read and the rest written back, so two requests spend one code
  (`totp/verify/route.ts:98-119`; `prisma/schema.prisma:48` calls them one-time codes);
- that write has no condition, so it also lands after the factor was removed and set up anew: the list of the replaced secret
  is back, in place of the new one's, and a code of it turns the new factor off (`totp/disable/route.ts:50`, `second-factor-code.ts:32-36`).

## 4. Fairness

Every property but one is a safety property and assumes nothing: a request may stop for ever at any await, as a
stopped server's do. `EndedSessionsEnd` is checked under `FairSpec`, which says:

- a cached stamp expires (`WF CacheExpires`): its age is compared with five seconds at each use;
- a request goes on or fails (`WF`, per worker): a pending promise is settled, with an answer or an error;
- a session that stays in use asks again and again, and some of the times its request has to read the row the
  answer comes (`SF Asks`, `SF Reads`, `SF Judges`). The page polls its session, but a poll finds the one worker or the
  other busy, and any one read may fail and then ends nothing, so weak fairness would say nothing. A database that
  never answers is excluded, as the comment in `auth.ts` does: it serves nothing else either.

A route may fail every time. Nothing is assumed of sign-ins, of proofs being handed over, or of the clock. Without the
expiry the property is false, which its mutant shows: a reading begun before the stamp, remembered after it, would keep an ended
session for ever. Where the code schedules retries (the bank synchronisation, the reminders) a liveness property
would need the cron caller outside the repository to be fair; none is claimed.

## 5. What is proved

`AllocationEngineProofs` proves, for any months, due amounts, totals, amount and horizon, that a plan
is a function from months to natural numbers (`PlanType`), that it gives no month more than it can
hold and gives a month money only when every older one is given all it can hold (`PlanOldestFirst`),
that a full month gets nothing (`FullMonthGetsNothing`), and that the plan's amounts add up to no more than the
payment, and to less only when every month it could fill is full (`PlanSpendsThePayment`). What remains of a payment after each month
is a recursive function on `0..last`. The induction is by least counterexample: the set of months
where the claim fails has a least element (well-founded induction on the naturals, instantiated with
the set as a constant), and the recursion equation contradicts it. That way no theorem with an
operator parameter is needed. A sum is the number of a set's elements, one per cent (`PlanTotal`), and so needs no
induction over the plan either: what the months up to *n* get is what is left before them less what is left after
(`TotalTelescopes`), again by least counterexample.

`WaterfallProofs` proves that the loops, as the code runs them, compute that closed form
(`LoopsAreTheClosedForm`, with the type of each entry) and keep money on the oldest months between any
two iterations (`EveryIterationOldestFirst`). The loop invariant says that some month *t* has been
reached: the months up to *t* hold what the closed form gives them, the later ones hold nothing, and
what remains is what the closed form leaves after *t*. Pass 1 jumps over months that have no row; they
can hold nothing, so what remains is flat over the gap (`FlatOverGap`). With the sum of the closed form, that the loops
lose no cent (`LoopsLoseNothing`) follows.

`RentLedgerProofs` proves, for any finite or infinite set of receipts and workers and any amounts,
dates, rents, horizon and clock, that each safety property of `ledger_concurrent` holds of `Spec`:
`TypeCorrect`, `LedgerStaysBalanced`, `StatusAlwaysFollowsMoney`, `MoneyAlwaysHasReceipt`,
`BackLinkHolds`, `AllocatesOnce`. The same invariant carries `OverdueAlwaysOwes`, without the bounds of the run that checks
`OverdueTenantOwes`: a month reads overdue only once it has come and is short (`ShortHasCome`), the clock never goes
back, and whatever fills a month recomputes the tenant's status in the same step.

The argument is one inductive invariant, `IInv`. The properties alone are not inductive: nothing in
them says why a commit finds its receipt free. `IInv` adds `RequestsSound`:

- a request past its first step names a receipt (`NamesReceipt`);
- a request that has passed the idempotency check finds it still true: its receipt holds no money
  (`CheckStillHolds`). This is the heart of it. It survives because of the next part;
- at most one request allocates a given receipt (`OneAllocator`): the handler that creates a receipt is
  the only one to allocate it, and the script runs only when no request is in flight;
- a plan about to be committed is not empty (`PlansMoney`);

and `CentsFinite`: the sum in `LedgerBalanced` is over a finite set. The sum is stated as the
cardinality of a set with one element per allocated cent, so a commit enlarges it, and a reversal
shrinks it, by disjoint pieces whose sizes the library's finite-set theorems give. One lemma per action
group carries the invariant (`TypeStep`, `RequestsStep`, `BooksStep`), and `Inductive` puts them
together.

`RentAccountProofs` proves that the ledger does what its abstract account says, in two strengths.

- However requests overlap and stop, and whatever becomes of the rent, every step enters one receipt's money as a
  whole, takes one receipt's money back as a whole, or moves none (`MoneyMovesWhole`). This refines `RentAccount` with the order
  left open. A commit enters the plan on months it found or creates; what it needs beyond `IInv` is that a month
  without a row owes nothing (`Unbilled`).
- For one request at a time (`OneAtATime`) and one rent (`FixedRent`) the order holds as well (`LedgerIsAnAccount`), and from what is
  proved of the account alone (`AccountNeverOverfills`) no month of the ledger is ever allocated more than its rent
  (`LedgerNeverOverfills`). The two hypotheses are what the code needs, not what the proof does: with two requests, two payments
  planned on one reading overfill a month, and after a rent change a month is skipped (`ledger_rent_change`). The script
  is not excluded: it runs only when no request is in flight. The invariant is `Sequential`: one process is active, every month owes the
  rent, and the plan about to be committed is the plan the engine would make now (`Fresh`). That the plan
  stays fresh is the heart of it, since nothing in the transaction checks it. `CommitFillsOldest` then carries `PlanOldestFirst` from the
  engine's months to the ledger's.

`NoCentMinted`, without these hypotheses: a commit enters no more than the amount its request read, as the plan in hand never adds up to more
(`PlanAffordable`, from `PlanSpendsThePayment`).

`BankInboxProofs` proves every property of `bank_inbox`, for any number of movements, receipts, leases
and requests: `MoneyCountsOnce`, `ReceiptHasOneMovement`, `SandboxStaysOut`, `MovementKeepsReceipt`,
`InboxTypeCorrect`. Again the properties are not inductive, because they say nothing of the requests
between two awaits. `Sound` does, request by request:

- a receipt on its way to claim a movement is held by one request only (`OneHolder`), counts nowhere
  and is linked nowhere (`HoldsUnpaid`);
- a receipt about to count was made by hand, is gone, or is its movement's (`OwnsWhatItCounts`). This is
  what the conditional `updateMany` of `createReceiptAndAllocate` buys;
- a payment about to be linked was recorded by hand (`LinksByHand`): the inbox's own receipts never
  stand unlinked and counting, so `recordedPaymentsFor` never offers one;
- the movement of a request that may make money is not sandbox money (`KeepsTestMoneyOut`).

Steps that leave receipts and links alone (two thirds of them) share one lemma, `MoneyStays`; the others
have one each. TLC checked each `IInv` on the instances of the runs before it was proved.

The same invariant gives the refinement: every step is one of `MatchingBook` or leaves the book as it is
(`InboxImplementsBook`). A claim and a link are `Give`, an allocation `Count`, a discarded draft and a deleted receipt
`Delete`; that the receipt given is nobody's is `OneHolder` and the condition of the write. That each movement then counts once is
proved of the book alone (`BookCountsOnce`).

`BankConsentProofs` proves every property of `bank_consent`, for any number of attempts and requests:
`ConsentTypeCorrect`, `WorkingIsGranted`, `ExpiredForItsConsent`, `ConsentKeptWhileLive`,
`MovementsOutliveRemoval`, `FirstConsentClaimedOnce`. Three writes of these handlers have no condition (the
link, the metadata, the activation), so what makes them right has to be known of the request:

- `Sound`: the consent a completion works for was granted (`NamesAttempt`); the accounts and provider ids
  it left on the row are there as long as the row is, unless the bank has answered without them (`LeftOnRow`); a sync about to write `expired`
  was refused on the consent it read, and a disconnection about to let a consent go has seen it end (`KnowsConsent`);
- `Quiet`: while `startConsent` waits for its link, nobody holds the reference, so only a removal can be
  under way, and its unconditional write finds the row as it left it;
- `RowSound`: what the row says of its consents, and that an unclaimed first reference has not been spent.

Most of it is monotone: consents granted, references spent and refusals met never become fewer, and a row
keeps its accounts until it is gone. `Onward` states that once for every step, and the requests a
step does not touch inherit their part of the invariant from it.

The refinement of `ConsentLife` (`ConsentImplementsLife`) needs two things more, about who holds what (`LifeInv`): a granted consent
is in the hands of one completion (`OneHolder`), because the bank grants it once; and a request that has read a consent
read a granted one (`ReadsGranted`). Most steps do not show in the life of the connection, and share one lemma (`Unseen`): if
such a step ends a completion, its consent is dropped. Of the life alone it is proved that a consent is put in
place at most once (`LifePlacesOnce`), and so it is for the handlers (`ConsentPlacedOnce`), though the metadata write of
`persistAccounts` may bring a spent reference back.

`AccountsProofs` proves every property of `accounts`, for any addresses, accounts, invitations and requests, the refinement
among them (`RefinesRegistry`): initial states map to initial states, and each step to one step of the registry or to none.
The conditions of the writes carry most of it. What they do not say is in `SoundRequest`, request by
request: a request about to write names an account, an address and a role that exist; a provisioning that has decided
found the door it decided by among those that stood open while it ran (`DoorFound`), reading by reading: what it knows of
the count, of the switches and of the invitation was so at some moment since it began. Ids are never given twice, so
an erased account stays erased. Of the switches a request has read nothing is claimed: what it writes does not depend on them, which is
what `SwitchesAsAsked` rests on.

`SecondFactorProofs` proves the four properties of `second_factor`, for any number of sessions, secrets, backup
codes, passkeys and requests, and any bound on the clock: `TypeCorrect`, `ReleasedByItsOwn`, `NobodyLockedOut`,
`GoesOffByItsOwnCode`. `SoundRequest` says what a request still holds of what it looked at: a sign-in owns its
session; a session in a route is live or over and never comes back; the secret a code was checked against is gone
from the row or is confirmed (a secret that was replaced is never made again while somebody holds it); the code a request is about
to turn the factor off by was its secret's or on the stored list. `SessionSound` says that
sign-ins are never later than now and that proofs are made only for sessions whose factor was accepted. Interference is stated
once: `GoesOn` for sessions, `SecretsGoOn` for secrets, and `OthersSound` carries every other request over a step that keeps
both.

The assumptions are those of the modules: receipts and the script and consent attempts are distinct from the null values,
amounts and rents are positive, the lease ends at a modelled month. TLC evaluates them in every run.

## 6. Order of work

The modules were written in this order, each checked before it was proved about: the engine, its loops, the ledger, the account it
implements, the inbox, the bank consent, the accounts, the second factor. What could follow:

1. renewal offers and the deletion of a lease, in `RentLedger`;
2. the daily budget of `sync.ts` under two syncs at once, in `BankConsent`;
3. an abstract specification of the sessions of `SecondFactor`, and its refinement.

## 7. Only model-checked, and not modelled

Every property of a passing run but one is proved of its specification for every value of the constants. Only model-checked is
`EndedSessionsEnd`, since liveness under fairness and ENABLED are beyond the prover. That `ImplementsAccount` and `NeverOverfilled`
hold is proved under the two hypotheses `ledger_sequential` makes.

Not modelled, and why:

- tax filing (`lib/tax/connectors`, `lib/compliance`): submission and polling start from a receipt's `RentReceipt`, and nothing in
  the repository writes `RentReceipt.receiptId`, so no run of the program reaches them. The receipt number is a count plus
  one, per user, on a column unique over all users (`rent-receipts-pt.ts:20`): two users' first receipts of a year collide,
  which is arithmetic and needs no model;
- reminders and recurring expenses: a check, then a creation, with nothing between them that could hold; two
  runs at once do create two, and no document says otherwise;
- renewal offers, the deletion of a lease, the daily budget of the synchronisation: see section 6;
- the matching score and payer accounts: which verdict a movement gets is a choice of `BankInbox`, over all verdicts;
- rate limits, e-mail, PDF, reports, export, translations, build and scripts: no state the modelled parts depend on;
- the user interface, more than half of the repository's implementation lines: components that render what the API
  answers. It is also why the modules, which follow the services, map a small share of all lines;
- several leases of one tenant (the tenant's status would be derived from the months of all of them; the ledger of one
  lease is otherwise independent of the others), and data migrations.
