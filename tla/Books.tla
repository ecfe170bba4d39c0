-------------------------------- MODULE Books --------------------------------
(***************************************************************************)
(* The general ledger as the finance staff see it: AccountsService, which  *)
(* edits the chart of accounts, JournalService, which posts and approves   *)
(* journals, and FinancialReportsService, whose statements are built from  *)
(* several queries, each with a snapshot of its own, while the others      *)
(* commit.  What the money services post is any sequence of their journal  *)
(* templates; the modules of those services say in which order.            *)
(***************************************************************************)
EXTENDS Chart, Postings, Totals

CONSTANTS Workers,
          Users,
          EntryIds,      \* a bound on the journal entries
          Amounts,
          Kinds,         \* the journal templates that are posted
          Adjustments,   \* <<debit, credit>> accounts of journals that need approval
          NewAccounts,   \* account creations and updates that are requested
          AccountUpdates,
          None

Codes == SeededCodes \cup {dto.code : dto \in NewAccounts}

ASSUME BooksAssumption ==
  /\ Amounts \subseteq Nat \ {0}
  /\ None \notin Users
  /\ Kinds \subseteq {"DEPOSIT", "WITHDRAWAL", "INVESTMENT", "ROI_ACCRUAL",
                    "REPAYMENT_ROI_CASH", "REPAYMENT_ROI_WALLET", "REPAYMENT_PRINCIPAL"}
  /\ Adjustments \subseteq SeededCodes \X SeededCodes
  /\ NewAccounts \subseteq [code : STRING, parent : STRING, type : AccountTypes, group : Groups]
  /\ AccountUpdates \subseteq
       [code : SeededCodes, status : {"ACTIVE", "INACTIVE", "KEEP"}, group : Groups \cup {"KEEP"}]

VARIABLES chart,     \* accounts, by account_code
          entries,   \* journal_entries with their lines
          call,      \* what each worker's handler will do next
          report     \* the statement being drawn up, or the last one

vars == <<chart, entries, call, report>>
-----------------------------------------------------------------------------
NoAccount == [status |-> "NONE", type |-> "", parent |-> "", group |-> ""]

Exists(code)   == code \in Codes /\ chart[code] # NoAccount
Children(code) == {c \in Codes : chart[c].parent = code}

(* seedChartOfAccounts: rows a chart already has are left as they are; with  *)
(* no user to change them before the seed has run, each finds its parent.    *)
Seeded(accounts) ==
  FoldLeft(LAMBDA acc, row :
             [acc EXCEPT ![row.code] =
                IF @ = NoAccount
                THEN [status |-> "ACTIVE", type |-> row.type, parent |-> row.parent,
                      group |-> row.group]
                ELSE @],
           accounts, SeedOrder)

SeededChart == Seeded([c \in Codes |-> NoAccount])

(* Mutant: any Schedule III group will do.                                   *)
AnyGroup(type, group) == group \in Groups

ValidGroup(type, group) == group \in GroupsOf[type]

(* What a commit means for a statement being drawn up: it is no longer the   *)
(* picture of one moment.                                                    *)
Disturbed == report' = [report EXCEPT !.quiet = FALSE]

NoUpdate == [code |-> "", status |-> "KEEP", group |-> "KEEP"]

Idle == [next |-> "idle", by |-> None, entry |-> None, update |-> NoUpdate]

Begin(w, c) == call[w] = Idle /\ call' = [call EXCEPT ![w] = c]
End(w)      == call' = [call EXCEPT ![w] = Idle]
-----------------------------------------------------------------------------
(* create: a parent is never deleted and never changes its type, so reading  *)
(* it and inserting the row behind the unique code are one step.             *)
CreateAccount(w, dto) ==
  /\ call[w] = Idle
  /\ ~Exists(dto.code)
  /\ dto.parent # "" => Exists(dto.parent) /\ chart[dto.parent].type = dto.type
  /\ ValidGroup(dto.type, dto.group)
  /\ chart' = [chart EXCEPT ![dto.code] =
                 [status |-> "ACTIVE", type |-> dto.type, parent |-> dto.parent,
                  group |-> dto.group]]
  /\ Disturbed
  /\ UNCHANGED <<entries, call>>

(* The lines of an entry, whatever its status.                               *)
PostedTo(code) ==
  {e \in EntryIds : entries[e].status # "NONE" /\ code \in {entries[e].debit, entries[e].credit}}

(* update: a deactivation counts the account's lines before the update, and  *)
(* nothing holds the account, or its lines, in between.                      *)
StartUpdate(w, dto) ==
  /\ Exists(dto.code)
  /\ dto.group # "KEEP" => ValidGroup(chart[dto.code].type, dto.group)
  /\ dto.status = "INACTIVE" /\ chart[dto.code].status # "INACTIVE" => PostedTo(dto.code) = {}
  /\ Begin(w, [Idle EXCEPT !.next = "updateAccount", !.update = dto])
  /\ UNCHANGED <<chart, entries, report>>

UpdateAccount(w) ==
  LET dto == call[w].update IN
  /\ call[w].next = "updateAccount"
  /\ chart' = [chart EXCEPT ![dto.code].status = IF dto.status = "KEEP" THEN @ ELSE dto.status,
                            ![dto.code].group = IF dto.group = "KEEP" THEN @ ELSE dto.group]
  /\ Disturbed
  /\ End(w)
  /\ UNCHANGED entries
-----------------------------------------------------------------------------
NoEntry == [status |-> "NONE", kind |-> "", debit |-> "", credit |-> "", amount |-> 0,
            createdBy |-> None, approvedBy |-> None]

(* postJournal in its caller's transaction: the accounts are looked up by    *)
(* code, whatever their status and whether they have sub-ledgers.            *)
Resolves(codes) == \A c \in codes : Exists(c)

Insert(e, u, kind, debit, credit, amount, status) ==
  /\ entries[e] = NoEntry
  /\ ValidLines(amount)
  /\ Resolves({debit, credit})
  /\ entries' = [entries EXCEPT ![e] =
       [status |-> status, kind |-> kind, debit |-> debit, credit |-> credit,
        amount |-> amount, createdBy |-> u, approvedBy |-> None]]
  /\ Disturbed

PostJournal(w, e, u, kind, amount) ==
  /\ call[w] = Idle
  /\ Insert(e, u, kind, DebitAccount(kind), CreditAccount(kind), amount, "POSTED")
  /\ UNCHANGED <<chart, call>>

(* Manual adjustments and reversals need a separate approval step.           *)
DraftJournal(w, e, u, accounts, amount) ==
  /\ call[w] = Idle
  /\ Insert(e, u, "ADJUSTMENT", accounts[1], accounts[2], amount, "PENDING_APPROVAL")
  /\ UNCHANGED <<chart, call>>

MayApproveJournal(u, e) ==
  /\ entries[e].status = "PENDING_APPROVAL"
  /\ entries[e].createdBy # u

StartApproveJournal(w, u, e) ==
  /\ MayApproveJournal(u, e)
  /\ Begin(w, [Idle EXCEPT !.next = "approveJournal", !.by = u, !.entry = e])
  /\ UNCHANGED <<chart, entries, report>>

(* The update names the entry by its id alone.                               *)
ApproveJournal(w) ==
  /\ call[w].next = "approveJournal"
  /\ entries' = [entries EXCEPT ![call[w].entry].status = "POSTED",
                                ![call[w].entry].approvedBy = call[w].by]
  /\ Disturbed
  /\ End(w)
  /\ UNCHANGED chart

Abort(w) ==
  /\ call[w] # Idle
  /\ End(w)
  /\ UNCHANGED <<chart, entries, report>>
-----------------------------------------------------------------------------
(* A statement is the answers of its queries, <<what, scope>>: the accounts  *)
(* in scope, and the sums of the posted lines of those accounts.  The scope  *)
(* is ALL accounts, the CASH accounts or an account type.                    *)
QueriesOf ==
  [none          |-> {},
   trialBalance  |-> {"list", "sum"} \X {"ALL"},
   balanceSheet  |-> {"list", "sum"} \X {"ASSET", "LIABILITY", "EQUITY"},
   profitAndLoss |-> {"list", "sum"} \X {"INCOME", "EXPENSE"},
   cashFlow      |-> {"list", "sum"} \X {"CASH", "ASSET"}]

(* What is awaited before a query: the types of a statement run in parallel, *)
(* and so do the two queries of the trial balance.                           *)
Awaits(q) ==
  CASE q[2] = "ALL"                  -> {}
    [] q[1] = "sum" /\ q[2] # "ALL" -> {<<"list", q[2]>>}
    [] q = <<"list", "ASSET">> /\ report.kind = "cashFlow" -> {<<"sum", "CASH">>}
    [] OTHER                       -> {}

(* Mutant: the trial balance, too, leaves out headers and inactive accounts. *)
InScopeLeaves(scope, c) ==
  /\ Exists(c)
  /\ chart[c].status = "ACTIVE" /\ Children(c) = {}
  /\ scope \in AccountTypes => chart[c].type = scope
  /\ scope = "CASH" => chart[c].group = "CASH_AND_CASH_EQUIVALENTS"

(* Leaf accounts that are active; the trial balance lists every account.     *)
InScope(scope, c) ==
  /\ Exists(c)
  /\ scope # "ALL" => chart[c].status = "ACTIVE" /\ Children(c) = {}
  /\ scope \in AccountTypes => chart[c].type = scope
  /\ scope = "CASH" => chart[c].group = "CASH_AND_CASH_EQUIVALENTS"

(* Mutant: drafts are counted too.                                           *)
ReportedWithDrafts(e) == entries[e].status # "NONE"

Reported(e) == entries[e].status = "POSTED"

ReportedEntries == {e \in EntryIds : Reported(e)}

Amount(E) == Total([e \in E |-> entries[e].amount])

Debits(code)  == Amount({e \in ReportedEntries : entries[e].debit = code})
Credits(code) == Amount({e \in ReportedEntries : entries[e].credit = code})

Touched == UNION {{entries[e].debit, entries[e].credit} : e \in ReportedEntries}

Sums(codes) ==
  [c \in codes \cap Touched |-> [debit |-> Debits(c), credit |-> Credits(c)]]

Answer(q) ==
  CASE q[1] = "list"         -> {<<c, chart[c].group>> : c \in {d \in Codes : InScope(q[2], d)}}
    [] q = <<"sum", "ALL">>  -> Sums(Codes)
    [] OTHER                 -> Sums({row[1] : row \in report.answers[<<"list", q[2]>>]})

StartReport(kind) ==
  /\ DOMAIN report.answers = QueriesOf[report.kind]
  /\ report' = [kind |-> kind, answers |-> <<>>, quiet |-> TRUE]
  /\ UNCHANGED <<chart, entries, call>>

AnswerQuery(q) ==
  /\ q \notin DOMAIN report.answers
  /\ Awaits(q) \subseteq DOMAIN report.answers
  /\ report' = [report EXCEPT !.answers =
       [p \in DOMAIN @ \cup {q} |-> IF p = q THEN Answer(q) ELSE @[p]]]
  /\ UNCHANGED <<chart, entries, call>>
-----------------------------------------------------------------------------
Init ==
  /\ chart = SeededChart
  /\ entries = [e \in EntryIds |-> NoEntry]
  /\ call = [w \in Workers |-> Idle]
  /\ report = [kind |-> "none", answers |-> <<>>, quiet |-> TRUE]

Editing(w) ==
  \/ \E dto \in NewAccounts : CreateAccount(w, dto)
  \/ \E dto \in AccountUpdates : StartUpdate(w, dto)
  \/ UpdateAccount(w)

Journaling(w) ==
  \/ \E e \in EntryIds, u \in Users, k \in Kinds, a \in Amounts : PostJournal(w, e, u, k, a)
  \/ \E e \in EntryIds, u \in Users, accounts \in Adjustments, a \in Amounts :
        DraftJournal(w, e, u, accounts, a)
  \/ \E e \in EntryIds, u \in Users : StartApproveJournal(w, u, e)
  \/ ApproveJournal(w)

Reporting ==
  \/ \E kind \in DOMAIN QueriesOf \ {"none"} : StartReport(kind)
  \/ \E q \in QueriesOf[report.kind] : AnswerQuery(q)

Next == Reporting \/ \E w \in Workers : Editing(w) \/ Journaling(w) \/ Abort(w)

Spec == Init /\ [][Next]_vars
-----------------------------------------------------------------------------
(* The figures of a statement whose queries have all been answered.          *)
Complete(kind) == report.kind = kind /\ DOMAIN report.answers = QueriesOf[kind]

Listed(scope) == report.answers[<<"list", scope>>]
Summed(scope) == report.answers[<<"sum", scope>>]

(* What the groups say of an account; nothing of one without posted lines.   *)
DebitOf(scope, c)  == IF c \in DOMAIN Summed(scope) THEN Summed(scope)[c].debit ELSE 0
CreditOf(scope, c) == IF c \in DOMAIN Summed(scope) THEN Summed(scope)[c].credit ELSE 0

NetDebit(scope, c) == DebitOf(scope, c) - CreditOf(scope, c)

DebitNormal == {"ASSET", "EXPENSE", "CASH"}

Balance(scope, c) == IF scope \in DebitNormal THEN NetDebit(scope, c) ELSE -NetDebit(scope, c)

(* sumMoney of balances, which may be negative, as units are not.            *)
SumMoney(f) == Total(f) - Total([x \in DOMAIN f |-> 0 - f[x]])

(* groupByScheduleIII: an account is shown under the group it was listed by. *)
SectionTotal(scope, groups) ==
  SumMoney([row \in {r \in Listed(scope) : r[2] \in groups} |-> Balance(scope, row[1])])

TrialBalanced ==
  Total([row \in Listed("ALL") |-> DebitOf("ALL", row[1])])
    = Total([row \in Listed("ALL") |-> CreditOf("ALL", row[1])])

TotalAssets == SectionTotal("ASSET", NonCurrentAssets) + SectionTotal("ASSET", CurrentAssets)

TotalEquityAndLiabilities ==
  SectionTotal("EQUITY", ShareholdersFunds) + SectionTotal("EQUITY", ShareApplicationMoney)
    + SectionTotal("LIABILITY", NonCurrentLiabilities)
    + SectionTotal("LIABILITY", CurrentLiabilities)

ProfitForThePeriod ==
  SectionTotal("INCOME", Revenue) - SectionTotal("EXPENSE", Expenses) - SectionTotal("EXPENSE", Tax)

NetIncreaseInCash == SectionTotal("CASH", Groups)

ActualCashBalance == SectionTotal("ASSET", {"CASH_AND_CASH_EQUIVALENTS"})
-----------------------------------------------------------------------------
Account == [status : {"NONE", "ACTIVE", "INACTIVE"}, type : AccountTypes \cup {""},
            parent : Codes \cup {""}, group : Groups \cup {""}]

(* A sub-ledger's type is its parent's, and an account is shown in a section *)
(* of its own type's statement, however creations and edits overlap.         *)
WellFormed(accounts) ==
  \A c \in Codes :
    accounts[c] # NoAccount =>
      /\ accounts[c].type \in AccountTypes
      /\ accounts[c].group \in GroupsOf[accounts[c].type]
      /\ accounts[c].parent # "" =>
           /\ accounts[accounts[c].parent] # NoAccount
           /\ accounts[accounts[c].parent].type = accounts[c].type

(* Tables are finite; only what is said of sums needs it.                    *)
ASSUME FiniteAssumption == IsFiniteSet(EntryIds) /\ IsFiniteSet(Codes)

(* The seed creates what it lists, well formed, and with it every account    *)
(* the journal templates name.                                               *)
ASSUME SeedAssumption ==
  /\ SeededChart \in [Codes -> Account] /\ WellFormed(SeededChart)
  /\ \A code \in SeededCodes : SeededChart[code] # NoAccount
  /\ \A kind \in Kinds : {DebitAccount(kind), CreditAccount(kind)} \subseteq SeededCodes

Entry == [status : {"NONE", "PENDING_APPROVAL", "POSTED"}, kind : Kinds \cup {"", "ADJUSTMENT"},
          debit : Codes \cup {""}, credit : Codes \cup {""}, amount : Nat,
          createdBy : Users \cup {None}, approvedBy : Users \cup {None}]

Calls == [next : {"idle", "updateAccount", "approveJournal"}, by : Users \cup {None},
          entry : EntryIds \cup {None}, update : AccountUpdates \cup {NoUpdate}]

TypeOK ==
  /\ chart \in [Codes -> Account]
  /\ entries \in [EntryIds -> Entry]
  /\ call \in [Workers -> Calls]
  /\ report \in [kind : DOMAIN QueriesOf, answers : {report.answers}, quiet : BOOLEAN]
  /\ DOMAIN report.answers \subseteq QueriesOf[report.kind]

(* An adjustment counts only after the decision of someone other than its    *)
(* maker, whichever approvals of it overlap.                                 *)
AdjustmentsChecked ==
  \A e \in EntryIds :
    entries[e].kind = "ADJUSTMENT" /\ entries[e].status = "POSTED"
      => entries[e].approvedBy \notin {None, entries[e].createdBy}

(* An edit in flight names an account that exists and a group of its type,    *)
(* an approval an entry that some other user made.                            *)
CallWellFormed(c) ==
  /\ c.next = "updateAccount" =>
       /\ Exists(c.update.code)
       /\ c.update.group \in {"KEEP"} \cup GroupsOf[chart[c.update.code].type]
  /\ c.next = "approveJournal" =>
       /\ c.entry \in EntryIds /\ entries[c.entry].status # "NONE"
       /\ c.by \in Users \ {entries[c.entry].createdBy}

(* The type invariant, with the shape of the chart and of what is in flight: *)
(* however creations, edits, postings and approvals overlap.                 *)
BooksInv ==
  /\ TypeOK
  /\ WellFormed(chart)
  /\ AdjustmentsChecked
  /\ \A w \in Workers : CallWellFormed(call[w])

(* The trial balance balances although its two queries see different moments:*)
(* every journal is balanced, and no account in use can be missing.          *)
TrialBalanceBalances == Complete("trialBalance") => TrialBalanced

(* What is true of the ledger, for the statements to be compared with.       *)
PostedNetDebit(codes) ==
  Amount({e \in EntryIds : entries[e].status = "POSTED" /\ entries[e].debit \in codes})
    - Amount({e \in EntryIds : entries[e].status = "POSTED" /\ entries[e].credit \in codes})

Shown(types) ==
  {c \in Codes : chart[c].type \in types /\ chart[c].status = "ACTIVE" /\ Children(c) = {}}

(* A statement drawn up while nothing commits says what the ledger says of   *)
(* the accounts it shows: all of them, each once, and no draft.  So what a   *)
(* balance sheet is out of balance by is exactly the result of the period,   *)
(* which no posting carries to the reserves, and the accounts no statement   *)
(* shows; and the two queries a cash flow statement compares agree.          *)
QuietStatementsAgree ==
  report.quiet =>
    /\ Complete("balanceSheet") =>
         TotalAssets - TotalEquityAndLiabilities
           = -PostedNetDebit(Codes \ Shown({"ASSET", "LIABILITY", "EQUITY"}))
    /\ Complete("profitAndLoss") =>
         ProfitForThePeriod = -PostedNetDebit(Shown({"INCOME", "EXPENSE"}))
    /\ Complete("cashFlow") => NetIncreaseInCash = ActualCashBalance
=============================================================================
