# A TLA+ model of the investment platform

This directory specifies the platform of this repository in TLA+, checks it with TLC on small
instances and proves part of it with TLAPS: the services that move money (`src/src`, NestJS over Prisma
and PostgreSQL 16), the books and the statements drawn from them, the reconciliation, the staff
administration and the seed script, and the session and the pages of the web front end (`src/web`,
Next.js with react-query). It is written for someone who has the repository at hand: definitions keep
the names of the code they model, and `PROJECT.json` maps each of them to its lines.

## 1. The system

Every handler of the API is an async method of an injectable service, so the requests being served
interleave at each `await`. All its shared state is in PostgreSQL; nothing is kept in memory between two
requests. A browser tab keeps a session and a cache of what it read.

| component | state it keeps | operations | talks to |
|---|---|---|---|
| Ledger engine (`ledger/journal.service.ts`) | `journal_entries`, `journal_lines` | `postJournal`, `approveJournal` | called by every service inside its own transaction |
| Wallet (`wallet/wallet.service.ts`) | none: a view of `wallet_transactions` | `computeAvailableBalance`, `getPosition` | read by withdrawals and investments |
| Deposits (`deposits/deposits.service.ts`) | `deposits` | `request`, `approve`, `reject` | journal 1010/2010, wallet credit |
| Withdrawals (`withdrawals/withdrawals.service.ts`) | `withdrawals` | `request`, `approve`, `complete`, `reject` | wallet reservation, journal 2010/1010 |
| Investments (`investments/investments.service.ts`) | `investments`, `investment_opportunities.status` | `invest`, `markDefaulted` | row lock on the opportunity, wallet debit, journal 2010/2020, schedule generator |
| Schedule generator (`investments/repayment-schedule.generator.ts`) | none: a pure function | `generateRepaymentSchedule` | called by `invest` |
| Repayments (`repayments/repayments.service.ts`) | `repayments`, `repayment_schedules`, `investments.status` | `accrueRoi`, `recordRepayment`, `disburseRepayments` | journal 1030/2030, 1010/1030, 2030/2010, 2020/2010, wallet credits |
| Onboarding (`investors/investors.service.ts`) | `investors.status` | `register`, `registerBusiness`, `approve` | audit log |
| Reconciliation (`reconciliation/`) | `investor_gl_reconciliations` and items | `run` | compares the ledger and the sub-ledgers of 2010, 2020, 2030 |
| Chart of accounts (`accounts/accounts.service.ts`) | `chart_of_accounts` | `create`, `update` | read by `postJournal` and by every statement |
| Reports (`reports/`) | none | the dashboard, the management report, trial balance, balance sheet, profit and loss, cash flow, three investor sub-ledger reports, listings | several queries each, no transaction |
| Staff, categories, login (`users/`, `roles/`, `auth/`) | `users`, `roles`, `user_roles`, reset tokens; JWTs in the hands of their holders | create, edit, delete, rename; login, forgotten password | every guard trusts the claims of the token |
| Seed (`prisma/seed.ts`) | the above | roles, chart, staff users, statement by statement | run again on an installation that is in use |
| Web front end (`src/web`) | session, local storage, query cache, one write at a time, timers | the pages, hooks and mutations; `RequireRole`; `request()` | every route of the API |
| Catalogue (products, companies, opportunities), audit log | their tables | single inserts and updates | constants of `invest` |

What is hard about it:

* **No isolation beyond READ COMMITTED.** Handlers check a row (or a sum), then write, with an `await`
  between the two. The guard may be stale when the write commits. The exceptions are the row lock
  `invest` takes and the unique indexes (`wallet_transactions` by reference, `deposits` by payment
  reference, codes, emails and names); a reference has no unique index in the journal.
* **One fact in several tables.** A deposit, its journal entry and its wallet row must appear together
  or not at all, through failures of the commit and aborted handlers; the ledger and the
  business tables are compared by the reconciliation and the reports, in queries that see different
  moments.
* **Maker and checker.** The approver of a deposit, a withdrawal or a journal must not be its requester.
* **Claims outlive facts.** A token says what roles its holder had at login. Roles are renamed,
  reassigned and deleted meanwhile, and the rules on who may edit whom are evaluated before the
  transaction that edits.
* **Answers in any order.** The front end reads and writes concurrently, invalidates by key, and repeats
  the guards of the routes by hand.
* **Rounding.** Amounts are compared as the client sent them and stored in `DECIMAL(18,2)`; the ROI of a
  schedule row is rounded to three decimals first and to two when it is stored.
* **Order of legal calls.** Reserve, invest, complete; default, repay; accrue, record, disburse.

The properties that make each component correct are in section 4; `PROJECT.json` lists the places where
they could be lost (`hazards`), each with the properties that watch it.

## 2. How the code becomes actions

**Requests.** `Workers` are the requests that can be in flight at once. `call[w]` is the local state of
the handler worker `w` is running: the step it will take when its pending `await` settles and the values it
has read. `Begin` starts a request (its early returns and thrown errors are guards of the
action: such a request changes nothing), `Go` moves it on, `End` returns or throws.

**Transactions.** Each read a handler awaits is a step of its own and sees what has been committed
by then. The writes of a transaction come after its reads and are committed in one step. At READ
COMMITTED this loses no behaviour of these handlers: a transaction's uncommitted writes are invisible
to others; a second writer of a row waits and then overwrites it, since updates name a row by its id
alone; a second inserter under a unique index waits and then fails. Where a transaction reads again
after a write that takes a lock (`SELECT ... FOR UPDATE` in `invest`, the schedule update
in `recordRepayment`), taking the lock is a step and the lock is held, as a function of `call`, until the
commit or the abort. A handler's own uncommitted rows are added to the sums it takes (`OwnPayment`).
Where a read can not go stale (a parent account is never deleted and keeps its type) read and write
are one step, and the comment says why. The reconciliation, the statements and the seed are not in a
transaction: each of their statements is a step.

**Failure.** `Abort(w)` is a dead process, a dropped connection or the time limit of an interactive
transaction, at any step: the transaction is rolled back, the request is gone, what it committed
before stays. A commit that a constraint or `validateLines` refuses is an action of its own
(`ApproveDepositFails`, `CompleteWithdrawalFails`, `AccrueRoiFails`, `DisburseFails`, `Refused`,
`DeleteUserRefused`). The seed may be killed between any two statements (`SeedDies`), a reconciliation
between any two rows (`AbortReconciliation`), and a tab may get its answers late, refused or never
(`LateRefusal`, `Refused`, `Fail`).

**Data.** Amounts callers ask for are natural numbers in tenths of a paisa and columns are in paise, with
`Column` the rounding of `DECIMAL(18,2)`: enough to tell a checked amount from the stored one. Rows
that can be created are drawn from finite sets of ids; a row that has not been created holds a `No...`
value. The journal of a reference is the sequence of the entries posted under it, so that a second
posting shows. An entry has the two lines of its template, named by `DebitAccount` and `CreditAccount`.
`Total` counts units rather than folding `+`, which keeps the modules free of RECURSIVE operators and lets laws
of sums follow from laws of cardinality. Answers of the API to the front end carry no data but what a
property needs: the tables written by the view since the answer was read (`missed`).

## 3. Modules

| module | models | state |
|---|---|---|
| `Totals` | `sumMoney`, `aggregate({ _sum })` | |
| `Postings` | the journal templates and `validateLines` | |
| `Store` | schema, journal, wallet balance, sub-ledger balance, requests in flight | `investorStatus`, `walletTxn`, `journal`, `call` |
| `Deposits` | `DepositsService` | `deposits` |
| `DepositPromise` | the abstract specification of a deposit: a maker, a checker, one credit | `maker`, `checker`, `credits` |
| `DepositsRefinement` | the refinement mapping from `Deposits` to `DepositPromise` | |
| `Withdrawals` | `WithdrawalsService` | `withdrawals` |
| `RepaymentSchedule` | `generateRepaymentSchedule` as operators | |
| `ScheduleChecks` | the generator's promises over every input in bounds | `principal`, `plan`, `date` |
| `Investments` | `InvestmentsService` | `opportunities`, `investments`, `schedules` |
| `FundingPromise` | the abstract specification of raising an opportunity's target: paid in while it is open and fits, closed when full | `paid`, `raised`, `open` |
| `FundingRefinement` | the refinement mapping from `Investments` to `FundingPromise` | |
| `Repayments` | `RepaymentsService`, with `markDefaulted` beside it; extends `Investments` | `repayments` |
| `Reconciliation` | `ReconciliationService.run` beside the requests of `Repayments`, and the investor sub-ledger reports; extends `Repayments` | `recon`, `written` |
| `Onboarding` | registration and activation in `InvestorsService` | `activationAudits` |
| `Platform` | all of the money services over one `Store` | the union of the above |
| `Reports` | the dashboard and the management report over `Platform` | |
| `Chart` | the seeded chart of accounts and the Schedule III groups | |
| `Books` | `AccountsService`, `JournalService` (drafts and approvals included) and the statements of `FinancialReportsService`, query by query | `chart`, `entries`, `call`, `report` |
| `Staff` | `UsersService`, `RolesService`, login and reset links of `AuthService`, and `prisma/seed.ts` | `users`, `roles`, `links`, `documents`, `tokens`, `call`, `seed` |
| `Access` | the routes of the API: whom `RolesGuard` admits, what each reads and writes; the functions of `api-client.ts` | |
| `Pages` | the hooks with their cache keys, the pages with the gates of `RequireRole`, the queries they mount, the writes they offer and the keys these invalidate, the links | |
| `Tab` | one browser tab: session, moves, queries, writes, redirects, late answers | `page`, `session`, `stored`, `live`, `asked`, `write`, `timer`, `late`, `reloading` |
| `MC*` | constants, bounds and symmetry for TLC | |
| `StoreProofs`, `WithdrawalsProofs` | lemmas about sums, about the store, about the steps of withdrawals | |
| `DepositsProofs`, `StaffProofs`, `TabProofs` | theorems about the modules they are named after | |
| `BooksProofs` | theorems about `Books` and `ScheduleChecks` | |
| `RepaymentsProofs` | theorems about `Investments`, `Repayments` and `Reconciliation` | |
| `PlatformProofs` | theorems about `Platform` and `Reports`, from the step lemmas of the services' proofs | |

Composition: `Platform` instantiates the service modules and lets any worker serve a request of any of
them; the tables a service does not touch are UNCHANGED. `Reconciliation` adds a run to the requests of
`Repayments`. `Books` stands beside them: what the money services post is there any sequence of their
journal templates (`Postings`, shared with `Store`), so its properties do not depend on the services' order.
`Staff` says who holds which claims; `Access` says what a claim admits to; `Tab` is the client of
the routes. Definitions under a comment that begins "Mutant" are the code with a plausible bug; no
specification uses them, they are there to show that each property can fail (`mutants` in
`PROJECT.json`).

Correspondence, for the deposit workflow (the others follow the same scheme):

| code | actions |
|---|---|
| `request`: activation, lookup by payment reference | `RequestDeposit` (returns the existing deposit when there is one) |
| `request`: the transaction, and its catch of P2002 | `CreateDeposit`, `ReturnRacedDeposit` |
| `approve`: status and maker checks | `StartApproveDeposit` |
| `approve`: journal, wallet row, status, audit in one transaction | `ApproveDeposit`, `ApproveDepositFails` |
| `reject`: status check; update | `StartRejectDeposit`; `RejectDeposit` |

and for the newer modules:

| code | actions |
|---|---|
| `AccountsService.create`; `update`: checks and line count; the update | `CreateAccount`; `StartUpdate`; `UpdateAccount` |
| `postJournal` with `requiresApproval`; `approveJournal`: checks; update | `DraftJournal`; `StartApproveJournal`; `ApproveJournal` |
| a statement: one call, then each `findMany` and `groupBy` | `StartReport`; `AnswerQuery` (order: `Awaits`) |
| `ReconciliationService.run`: ledger sums; rows; sub-ledger sums; the row; each item | `ReadLedger`; `ListRows`; `ReadSubLedger`; `CreateRow`; `CreateItem` |
| `updateStaffUser`: rules on the row read; lookup of the roles to grant; transaction | `StartUpdateUser`; `MayGrant`; `UpdateUser`, `Refused` |
| `deleteStaffUser`: delete; P2003; update to DISABLED | `DeleteUser`; `DeleteUserRefused`; `DisableUser` |
| `seedUserWithRole`: `findUniqueOrThrow`; upsert user; upsert assignment | `LookUpRole`; `UpsertUser`; `UpsertAssignment` |
| `useQuery`: sent; served; received, failed or refused | `Opening`, `AskAgain`; `Serve`; `Receive`, `Fail`, `Refused` |
| `useMutation`: `mutate`; each call; `onSuccess`, `onError` | `Submit`; `ServeWrite`; `WriteDone`, `FailWrite`, `RefuseWrite` |
| `request()` on 401; the reload it starts | `SessionEnds`; `Reload` |

## 4. What the runs check

| run | instance | question and answer |
|---|---|---|
| `PlatformConcurrent` | 2 workers, 2 users, 1 investor, 2 deposits of one reference, 1 withdrawal, 1 investment, amounts 0.004 and 0.02, no repayment ids (accrual is the last step of an investment) (544 thousand states) | However requests of the services overlap, fail and abort: credits and payouts have a checker; what is APPROVED is credited and what is debited is posted; one deposit per reference; wallet and ledger differ by the second entries of overlapping completions and by nothing else; only activated investors transact; deposits implement `DepositPromise` among the others' writes. `PlatformInv`, the invariant of the proofs, holds. |
| `InvestTwoOpportunities` | 2 workers, 1 investor with 2 paise, 2 opportunities of 2 paise that take 1 at a time, amounts that are and are not whole paise (43 thousand) | Each lock keeps its total current, no target is exceeded, `FundingPromise` is implemented (an opportunity is never closed early, and takes exactly what is debited), every request ends. The two locks do not guard the wallet they share: it is overdrawn, by what is taken under one of them at most. |
| `RepayOverlap` | 2 workers and a reconciliation, 1 investment, 2 repayments (277 thousand) | A repayment is disbursed once and whole; PAID and CLOSED claim no more than was recorded; a row's ROI is posted by no more requests than were served when it was accrued first; a reconciliation nothing was committed during finds exactly the differences there are, and the ROI reports are off by exactly those. |
| `PlatformSerial` | 1 worker, every service (93 thousand) | One request at a time, in any order and with aborts: the control accounts agree, rejections and decisions are final, reservations follow withdrawals, an investment closes when repaid, and the figures of the management report tie together. |
| `ScheduleBounds` | 4 principals, 3 rates, 5 tenures, 3 plan types, 16 dates (2,880) | Principal due once; rows fall due in order and the last at the end of the tenure, days of the month that run over included. |
| `BooksAndStatements` | 2 workers, 2 users, 2 entries, the seeded chart of 49 accounts (504 thousand) | However account edits, postings, drafts and approvals overlap with each other and with a statement: the chart stays well formed and adjustments have a checker (`BooksInv`), the trial balance balances, and a statement drawn up undisturbed says what the ledger says. |
| `StaffAndSeed` | 2 users, 3 roles, 1 link, 1 document, 1 token, and the seed (1.2 million) | Keys and references hold, a staff user never loses the last role, only a Super Admin touches a Super Admin or reactivates a user, and an undisturbed run of the seed leaves its users with their roles, however often it was killed before. |
| `TabOfPages` | an investor and four kinds of staff, one of a custom category; every page behind `RequireRole` (388 thousand) | A page at rest shows the user's own writes; no page asks or offers what the API refuses to those it lets in; a session the API has refused ends. |
| `DepositsRejectRace` | 2 workers | Violation: an approval that commits between a rejection's check and its update leaves a deposit credited and REJECTED, which `deposits.service.ts:16-17` says is impossible. |
| `PlatformOverdrawn` | 1 worker | Violation: an investment spends the funds a pending withdrawal reserved (`withdrawals.service.ts:14-15`); completing the withdrawal overdraws the wallet. |
| `RepayAccrueRace` | 2 workers, a schedule of one row | Violation: two accruals of a row both find `roi_accrued_at` empty and both post, though the field "guards against double-accrual" (`schema.prisma:405`). |
| `ScheduleStoredRoi` | one principal and rate, a tenure of 3 months | Violation: rows of 3.33 paise are stored as 3, and the schedule's ROI is 9 of 10 paise, though `repayment-schedule.generator.ts:17-23` says that no cent is lost to rounding. |

### Divergences met on the way

These have no run of their own, because a run above shows the same mechanism or a reader sees them in a
line of the source.

* Money. Two withdrawal requests that read the balance before either reserves, reserve more than
  there is (`withdrawals.service.ts:44`). Two completions of one withdrawal that overlap post its
  journal twice; `LedgerExplained` says that nothing else parts the wallet from the ledger. ROI recorded
  without a schedule row debits 2030 for what was never credited (`repayments.service.ts:102`):
  `QuietRunTellsTruth` and `RoiReportsExplained` say that this and the double accrual of
  `RepayAccrueRace` are the only ways the ROI payable goes wrong. Two overlapping recordings that
  together repay an investment leave it ACTIVE, and of `markDefaulted` and a recording that overlap
  the later decides between DEFAULTED and CLOSED. Investing one wallet in two opportunities at once
  overdraws it, since the lock is per opportunity (`OverdraftBounded` says how far).
* Rounding. An amount below half a paisa is stored as zero; a fraction of a paisa that rounds up to the
  target leaves the opportunity OPEN.
* Audit. An abort between the two commits of an activation leaves it without an audit row. Erasing a
  staff user clears `approved_by` of what they approved (`ON DELETE SET NULL`), though
  `users.service.ts:144-152` says approvals stay attributable.
* Books. `financial-reports.service.ts:405-408` says that dropping deactivated and header accounts
  from a statement never hides a real balance. `resolveAccounts` looks at neither, so an account can
  be posted to after its lines were counted and it was deactivated, or after it was given a
  sub-ledger; `QuietStatementsAgree` therefore compares the statements with what the ledger says of the accounts
  shown, and says what a balance sheet is out of balance by: those accounts, and the result of
  the period, which nothing carries to the reserves. `approveJournal` and `requiresApproval` are called by tests
  only.
* Front end. A rename of a category leaves the staff directory with the old name
  (`admin/platform/page.tsx:135`); of its two calls the first may succeed and the second fail, and then
  nothing is refreshed. The statements on an investor's page are refused to two of the roles the
  page admits (`investor-reports.controller.ts:10`), and `OnlyWhatIsGranted` names them. A custom category with
  `REPORTS:VIEW` or `INVESTORS:VIEW` alone is let in by pages some of whose queries ask for other roles.
  APPROVER, INVESTMENT_MANAGER, COMPLIANCE_OFFICER and custom categories land on pages that send them
  to `/`, which sends them back. A 401 that comes after the user signed in again clears the new
  session's storage (`api-client.ts:88-93`).

### Bounds

Two workers are enough for every race between a check and a write: each involves one reader and
one writer of a row. Two users are needed for maker and checker, two ids per table for one row to be
affected while another is not. `InvestTwoOpportunities` has as many investment ids as whole paise in the
targets, so ids never run out and liveness is not about the bound; its two opportunities are together
worth more than the wallet and what may be taken under one lock, so that `OverdraftBounded` could fail.
Amounts are the smallest that tell the cases apart: below half a paisa, rounding up, exact, and
twice that. `PlatformSerial` and `RepayOverlap` include a twelve-row schedule whose rounding makes the last ROI
negative, the only way `AccrueRoiFails` happens.

Constraints cut instances that would be too large:

* `IdsInOrder` (`MCInvestments`): investment ids are taken in their order, as it makes no difference which
  one an investment has (symmetry would be unsound with the liveness property of that run).
* `RecordedInOneRow` (`MCRepayments`): repayments are recorded for the schedule of one row, whose steps
  are those of any row. `ReconciledBesideOne`: an account is reconciled beside one request at a time
  and, once that has committed, beside none, with at most one repayment recorded; the requests still overlap each other
  while no reconciliation runs, and what they leave behind is reconciled.
* `OneConcern` (`MCStaff`): reset links, documents and a running seed do not meet in one behaviour, as no
  handler relates them. `OneChange`: an edit changes one field. `SeedBetweenRequests` (`Staff`): the
  seed works between requests, not between two steps of one. `MaxTokens` is one token that has not expired, and there
  is one worker: staff requests are served one at a time, with claims that may be as old as you like.
* `FewLeftBehind` (`Tab`): the user moves on when no more than one move's requests are left behind. One
  write at a time is submitted; requests left behind are told apart only by whose session they carried.

Symmetry is used over workers, users and ids, in runs whose properties are invariants or action
properties only.

**Deadlock** is checked except in `InvestTwoOpportunities`, `RepayOverlap` and `RepayAccrueRace`, where the
system does stop: every opportunity funded and every investment defaulted; every investment closed or
defaulted and every repayment disbursed.

**Fairness.** `InvestTwoOpportunities` (`LiveSpec`): weak fairness of a request's steps, since a pending query
settles and a handler that can continue does; strong fairness of taking the lock, since PostgreSQL queues
the waiters of a row lock. Nothing makes callers send requests, and nothing makes a request
abort. `TabOfPages`: weak fairness of handing on an answer that says 401 (`Refused`, `LateRefusal`) and of the
reload it starts: the browser delivers what has arrived and carries out `location.href = ...`. Nothing
makes the API answer or the user do anything.

## 5. What is proved

Every theorem holds for any sets of workers, users, investors, ids, accounts and amounts. The
assumptions: `StoreAssumption` (amounts are positive naturals, NULL is none of the ids); `FiniteAssumption`
(finitely many ids), for laws of sums; `OpportunityAssumption` (opening balances and the figures of an
opportunity are naturals); `ScheduleAssumption` (principals are naturals, rates integers,
tenures positive); `PlatformAssumption` (the same of the platform's opportunities, whose schedules have no more
rows than `MaxPeriods`); `BooksAssumption` (what the requests to the books may ask for), the `FiniteAssumption` of
`Books` (finitely many entries and account codes, for its sums) and `SeedAssumption` (the seeded chart is well
formed and holds every account the journal templates name: a statement about a constant table, which TLC
evaluates); `StaffAssumption` (the seed names roles and users it can create); `TabAssumption` (the mark of no move
put off is no path).

Some theorems have hypotheses besides. Two only say that a sum has finitely many terms: finitely many
opportunities (`OverdraftIsBounded`), finitely many requests served at once (`AccrualsAreBounded`). The others
are there because without them the properties are false (section 4). `OneAtATime` says that there is at most
one worker: requests follow each other, of any callers, in any order, each aborted anywhere.
`MinimumsPositive` says that no opportunity takes amounts that round to nothing.
`[][SeedBetweenRequests]_vars` says that the seed works between requests, not between two steps of one.
`Suitable` says of the tokens that nobody is let into the pages of reports and investors by a permission alone:
those pages ask routes that want roles besides (accounts, investments, the wallet's position). The roles the
seed creates have no permissions, so only a category somebody edited or added is excluded.

| theorem | statement |
|---|---|
| `DepositsProofs!InvHolds`, `TypeCorrect` | `Spec => []DepositsInv`, `Spec => []TypeOK` |
| `DepositsProofs!SingleCredit` | `Spec => []CreditedAtMostOnce` |
| `DepositsProofs!MakerIsNotChecker` | `Spec => []CreditNeedsChecker` |
| `DepositsProofs!ApprovalIsWhole` | `Spec => []ApprovedIsCredited` |
| `DepositsProofs!ReferenceIsKey` | `Spec => []OneDepositPerReference` |
| `DepositsProofs!Refinement` | `Spec => ImplementsPromise` |
| `DepositsProofs!LedgerAgrees` | `Spec => []LedgerAgreesWithWallet` |
| `RepaymentsProofs!FundingHolds` | `Spec => []FundingInv` |
| `RepaymentsProofs!LockKeepsTotal` | `Spec => []TotalIsCurrentUnderLock` |
| `RepaymentsProofs!TargetIsKept` | `Spec => []TargetNeverExceeded` |
| `RepaymentsProofs!FullIsFunded` | `Spec => []ClosedOnlyWhenFull` |
| `RepaymentsProofs!OverdraftIsBounded` | `Spec => []OverdraftBounded` |
| `RepaymentsProofs!FundingImplemented` | `Spec => ImplementsFunding` |
| `RepaymentsProofs!InvHolds` | `RunSpec => []RepaymentsInv` |
| `RepaymentsProofs!RepaymentsDisbursedWhole` | `RunSpec => []DisbursedOnceAndWhole` |
| `RepaymentsProofs!StatusesEarned` | `RunSpec => []PaidIsPaid` |
| `RepaymentsProofs!ClosedIsEarned` | `RunSpec => []ClosedIsRepaid` |
| `RepaymentsProofs!LedgerAgrees` | `RunSpec => []LedgerAgreesWithWallet` |
| `RepaymentsProofs!PayableAgrees` | `RunSpec => []InvestmentPayableAgrees` |
| `RepaymentsProofs!AccrualsAreBounded` | `RunSpec => []AccrualsBounded` |
| `RepaymentsProofs!QuietRuns` | `RunSpec => []QuietRunTellsTruth` |
| `RepaymentsProofs!ReportsExplained` | `RunSpec => []RoiReportsExplained` |
| `BooksProofs!PrincipalOnce` | `Generation => []PrincipalDueOnce` |
| `BooksProofs!RoiDrift` | `Generation => []RoiDriftBounded` |
| `BooksProofs!RowsFallDueInOrder` | `Generation => []DueDatesIncrease` |
| `BooksProofs!InvHolds` | `Spec => []BooksInv` |
| `BooksProofs!TrialHolds` | `Spec => []TrialBalanceBalances` |
| `BooksProofs!QuietStatementsHold` | `Spec => []QuietStatementsAgree` |
| `StaffProofs!StaffInvHolds` | `Spec => []StaffInv` |
| `StaffProofs!SeedConverged` | `Spec => []SeedConverges` |
| `StaffProofs!LastRoleStays` | `Spec /\ OneAtATime /\ [][SeedBetweenRequests]_vars => HoldersKeepARole` |
| `StaffProofs!RulesAreKept` | `Spec /\ OneAtATime /\ [][SeedBetweenRequests]_vars => SuperAdminRulesKept` |
| `TabProofs!WritesAreShown` | `Spec => []OwnWritesShown` |
| `TabProofs!PagesAskWhatIsGranted` | `Spec => []OnlyWhatIsGranted`, if the tokens are `Suitable` |
| `PlatformProofs!InvHolds` | `Spec => []PlatformInv` |
| `PlatformProofs!DocumentsNeedActivation` | `Spec => []OnlyActiveInvestorsTransact` |
| `PlatformProofs!MakerIsNotChecker` | `Spec => []CreditNeedsChecker` |
| `PlatformProofs!ApprovalIsWhole` | `Spec => []ApprovedIsCredited` |
| `PlatformProofs!PayoutIsChecked` | `Spec => []PayoutNeedsChecker` |
| `PlatformProofs!DebitIsPosted` | `Spec => []DebitHasEntry` |
| `PlatformProofs!ReferenceIsKey` | `Spec => []OneDepositPerReference` |
| `PlatformProofs!GuaranteesCompose` | `Spec => []ServicesKeepTheirWord` |
| `PlatformProofs!PromiseKept` | `Spec => DepositsKeepPromise` |
| `PlatformProofs!SerialHolds` | `Spec /\ OneAtATime => []SerialInv` |
| `PlatformProofs!LedgerHolds` | `Spec /\ OneAtATime => []LedgerAgrees` |
| `PlatformProofs!DecisionsHold` | `Spec /\ OneAtATime => []DecisionsAreWhole` |
| `PlatformProofs!DecidedStays` | `Spec /\ OneAtATime => DecisionStays` |
| `PlatformProofs!RepaidCloses` | `Spec /\ OneAtATime /\ MinimumsPositive => []RepaidIsClosed` |
| `PlatformProofs!ManagementHolds` | `Spec /\ OneAtATime => []ManagementExplained` |

The safety properties are seldom inductive; each proof strengthens them.

* **Deposits.** `CreditedAtMostOnce` does not follow from itself: an approval posts whenever the wallet row
  is missing, so one needs that the wallet row and the entry exist together
  (`Uncredited \/ CreditedByChecker`). `CreditNeedsChecker` depends on a check made in an earlier step on a
  row that others write meanwhile, so `CallsWellFormed` carries it to the commit: an approval in flight
  names a row that exists and whose requester is not the caller, and remains right because no action
  changes a row's requester or creates the row again. `ReferenceStep` is inductive relative to `DepositsInv`. The
  refinement maps `CreateDeposit` to `Request`, `ApproveDeposit` to `Credit` and everything else to
  stuttering.
* **Ledger and wallet.** `LedgerAgreesWithWallet` equates two sums over different tables. `Mirrored` says
  that every wallet transaction of a deposit has exactly one entry, for the same investor and amount; it is
  inductive with `DepositsInv`, and `SameTotal` turns the one-to-one correspondence into equal sums.
* **Withdrawals.** A payout is posted by a request that checked nothing but the status: that there was a
  checker was established by another request, earlier. `WithdrawalsInv` therefore says of each row that
  whatever is APPROVED, COMPLETED or paid out has a checker, and of a completion in flight that its row
  still has one; an approval that overlaps only puts another checker in its place.
* **Investments.** `FundingInv` adds `OneHolder` (one request holds an opportunity's lock) and
  carries the check of the target from the sum to the commit (`InvestCallWellFormed`). The new total is
  the old one plus the stored amount (`TotalAdd`, from the cardinality of a disjoint union), and what fits
  before rounding fits after it, because the target is in whole paise (`RoundingFits`,
  `RoundingFills`). The refinement maps `CreateInvestment` to `Invest`, unless the amount rounds to nothing, and all else
  to stuttering. The code looks at the status before it takes the lock and not after: that the opportunity is still
  open at the commit follows from `ClosedOnlyWhenFull`, as what fits a full one is nothing (`CreateMaps`).
* **Wallet.** Requests for one opportunity read the balance under its lock, one after another; those for
  different ones hold different locks and may all count the same money. `WalletInv` says what the requests found
  covered may still take: at most `f[o]` under the lock of opportunity `o` (`MayTake`), and all of `f` together is
  within the balance, or beyond it by the maxima of all opportunities but one at most (`Takings`). The request that
  is found covered sets its own `f[o]` against the balance it read; a debit lowers both sides alike. What was
  read of the credits still stands, as posted credits only grow (`SumTxnsGrows`); an investment takes at
  most what was checked, rounding included (`RoundingCovered`), and its wallet row is a new one
  (`NotDebitedBefore`).
* **Books.** `BooksInv` carries the checks of an edit and of an approval to their commits: an edit in
  flight names a group of the type of an account that exists, whose type nothing changes
  (`ChartKeepsCalls`); an approval names an entry that someone else made, and no insertion takes the row
  of an entry (`InsertKeepsInv`). An account whose parent exists never precedes it.
* **Statements.** `TrialInv` says that journals name seeded accounts alone and that these stay, so that a list
  of the accounts, however old, has every account with lines (`ListsAll`); and that the sums, of whatever moment,
  are `Balanced`: the columns of a set of accounts are sums over the parts the entries fall into
  (`TotalOfParts`). `QuietInv` says of a statement nothing was committed during that each answer is what it
  would be now (`AnswerNow`); a section is then the `Net` of its accounts (`SectionAddsUp`), `Net` is additive over
  disjoint accounts (`NetOfParts`) and zero over all of them, and the sections of a type divide its groups
  (`Sections`). Balances may be negative, so `SumMoney` is a difference of two totals (`SumOfDifferences`).
* **Repayments.** A disbursal checks `journalEntryId` in one step and writes four rows in a later one, and a
  recording decides PAID and CLOSED from sums that other commits overtake. `RepaymentRowsInv` says of the rows
  that a repayment has either no entry and no credit or both of both, and of the requests in flight
  that what they read still bounds what they will write: a sum read is at most the sum there is, since
  recorded repayments never shrink. It supposes nothing of the rows of other services, so that the platform can
  use it; `RepaymentsInv` adds `Mirrored`, which puts every wallet row in correspondence with one entry
  on 2010; for 2020, each entry is that of one investment or of one repayment of principal, and `SameTotal`
  turns both correspondences into equal sums.
* **Accruals.** The guard on `roi_accrued_at` is read before the transaction, so it bounds the entries of a row by
  the requests served at a time and no better. `AccrualAt` says why: once a row is accrued, its entries and the
  requests about to accrue it are together no more than the workers. The first entry costs the
  request that posts it (`AccrueCounts`), and no request joins once the row is accrued (`OthersDoNotAccrue`).
* **Reconciliation.** `QuietRunTellsTruth` is about a run that took its reads in different steps, none of
  which anything was committed between (`written`). `ReconInv` says of such a run that each figure it
  holds is the figure of now, so that its rows compare figures of one moment; the difference on 2030 is then
  rearranged into accruals beyond the first and ROI disbursed without a schedule row.
* **Schedule.** The rows are sums of constant functions but for the last one, which takes the rest
  (`PrincipalOnce`); each stored ROI is off by half a paisa at most and the sum of the differences is bounded row
  by row (`RoiDrift`). `DaysBefore` is a sum over months of 28 to 31
  days, so a later month begins later (`DaysGrow`), and a due date adds the same day of the month to each.
* **Staff.** `StaffInv` alone is not inductive: a commit writes roles that were looked up in an earlier step, and
  the seed works from ids it read before other requests renamed or deleted their rows. `StaffIndInv`
  carries what each request and the seed hold from one step to the next; `SeedConverges` needs besides that a
  run no request overlapped has done what its position says it has.
* **Staff, one request at a time.** `ServedAlone` says that what the rules on editing, deleting and removing were
  evaluated on is still so when the transaction writes: the target is still no Super Admin, the roles to grant
  still include none, and nobody has been given the role that goes. A commit writes and ends, so there is nothing left to
  rely on; a step that goes on writes neither users nor roles (`MovesOn`). With two requests, or a seed that assigns
  a role between the count of its holders and the deletion, both properties fail.
* **Platform.** `PlatformInv` is the conjunction of the services' invariants with `InvestorsFit`; of repayments it
  takes `RepaymentRowsInv`. A step of a service keeps its own invariant by the lemma of its own proofs, cited through an
  instance of that module (`SameAssumptions` discharges the assumptions). It keeps the others' because it
  touches only wallet rows and journal references of its own kind and only requests at its own steps (`Serves`).
  `OnlyActiveInvestorsTransact` needs that an ACTIVE investor stays ACTIVE: then a request that has passed the
  check is still one of an ACTIVE investor when it commits, whatever came between. `PromiseKept` maps every step of another
  service to a stutter of `DepositPromise`.
* **Platform, one request at a time.** `SerialInv` adds to `PlatformInv` that what a request has checked is still so
  (`CallIsCurrent`), and what then holds of the rows: a deposit that is not APPROVED is nowhere in the ledger
  (`DepositsDecided`), a withdrawal's reservation has its status, investor and amount (`ReservationsHeld`), every
  wallet row has its journal entry (`Mirrored`). The last needs the two before it: a completion posts what
  the withdrawal says and turns the reservation into the debit. `SerialStep` proves besides that no step takes a
  CLOSED or DEFAULTED investment back (`StatusesKept`). `RepaidIsClosed` is inductive with `SerialInv`: the recording that
  makes up the principal has summed all the others and closes the investment. It needs `MinimumsPositive`: the
  DTO of opportunities takes a minimum of 0, and an investment that rounds to no principal is repaid while it is ACTIVE.
* **Management figures.** `ManagementExplained` ties figures that are sums over documents to others that are sums over
  wallet rows and journal lines. A sum over the rows of a direction is the sum of those of each kind (`TotalOfParts`); with
  `Mirrored` each kind is the sum over its documents (`MirroredLines`), and as only a withdrawal's row is pending,
  what is reserved is what the open withdrawals ask (`PendingHolds`). It needs `SerialInv`, and so `OneAtATime`: what is
  reserved and what withdrawals say part when a decision races another.
* **Front end.** `OwnWritesShown` is about a page at rest; between the write and that, `TabInv` says that whatever is
  shown and out of date, or about to be, will be asked again: the write that changed it has still to invalidate its key,
  or the page is about to be left or reloaded (`WillRefresh`). That the keys a write invalidates cover what it changes is a fact about the
  tables of hooks and routes, proved page by page (`PagesRefresh`), as is whom the routes admit of those the gates
  let in (`PagesSuit`); `OnlyWhatIsGranted` is then inductive with `TabInv`.
* `StoreProofs` holds what several of them use: sums are naturals, a sum over nothing, over one more, over a
  renamed domain; rounding keeps naturals.

Each proof has one lemma per action (`CallMoves` for all that only move a request on), `StepInv` combines
them, and the theorems follow with PTL. `PlatformInv`, `BooksInv` and `StaffInv` are also invariants of runs; the
other inductive invariants were checked by TLC on the instances of the runs before they were proved.

Only model-checked: liveness, out of the prover's reach with ENABLED (`EveryCallEnds`, `RefusedSessionEnds`), and
`LedgerExplained`. Every other property of a passing run is stated by a theorem. Proved though no run checks them
as they stand: the theorems of `DepositsProofs` about that service alone and `ServicesKeepTheirWord`, whose parts
are conjuncts of `PlatformInv` or follow from it; `FullIsFunded`, a part of `ImplementsFunding`; `LedgerAgrees` of
`RepaymentsProofs`, which `QuietRunTellsTruth` repeats for 2010; `RoiDrift`, the bound of what
`ScheduleStoredRoi` shows; and the remaining inductive invariants.

## 6. What is not modelled

* **Listings.** The general ledger, the cash book and the investor statements list rows with running
  balances in memory; the reports that aggregate are modelled.
* **Catalogue.** The creation and editing of products, companies and opportunities are single
  statements on parameters the models take as constants (an opportunity moves from OPEN to FULLY_FUNDED
  in `invest` only); their routes and pages are in `Access` and `Pages`.
* **Authentication.** The values of passwords and hashes, `changePassword`, and the permission list of a
  category (a claim like the role names). Two resets with one link both succeed, as `StartResetPassword` and
  `ResetPassword` show; no state tells their passwords apart. Staff requests do not overlap in the run: a role
  assigned between the count of its holders and its deletion goes with the role (`roles.service.ts:85`), and
  an edit judged by a row that another edit has replaced is outside it. The documents of `Staff` have makers and no
  approvers, whose names a deletion clears (section 4).
* **Access to one's own.** The check of the wallet's routes that an investor asks for no other's wallet
  (`assertCanAccess`, `wallet.controller.ts:33-41`): the pages ask for their user's own.
* **Reports, query by query.** The figures of `ReportsService` and the sub-ledger reports are taken at one moment
  in the model and in several queries, each with a snapshot of its own, in the code: the properties speak of
  responses during which nothing was committed. The reconciliation and the statements are modelled query by query.
  The maturity analysis, which only groups rows the management report sums, is left out.
* **Seed.** The demo data and the sequences it creates, and the chart's upserts as steps (their result
  is `SeededChart`).
* **Front end.** Forgotten-password pages, forms, formatting and layout; the cache of pages no longer
  shown, which outlives a logout, as every query is asked again when its page is.
* **Data.** Reference numbers (PostgreSQL sequences), notification and document fields, negative
  amounts in a repayment, overflow of `DECIMAL(18,2)`, the wallets' status (created ACTIVE, never changed),
  audit rows written in the transaction they describe. The one that is not (activation) is modelled.

## 7. Plan

Done, in this order: `Totals`, `Store`, `Deposits` with its abstract specification, `Withdrawals`,
`RepaymentSchedule`, `Investments` with its own, `Repayments`, `Onboarding`, `Platform`; then `Chart` and `Books`,
`Reconciliation`, `Reports`, `Staff`, `Access`, `Pages`, `Tab`; the proofs of section 5.

Left:

1. `LedgerExplained` as a theorem of the platform with overlapping requests.
2. `Staff` with two requests that overlap, on an instance without links and documents.
3. An abstract specification of a wallet's reservations, implemented by `Withdrawals` one request at a time.
