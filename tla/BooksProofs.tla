---------------------------- MODULE BooksProofs -----------------------------
(***************************************************************************)
(* Proofs about the chart of accounts and the journals, for any number of  *)
(* requests, any accounts created and edited and any journals posted:      *)
(* BooksInv is inductive, and the statements drawn up meanwhile add up.    *)
(* The last part is about repayment schedules, for any principal, rate,    *)
(* tenure and date.                                                        *)
(***************************************************************************)
EXTENDS Books, ScheduleChecks, FiniteSetTheorems, TLAPS

LEMMA IdleIsACall == Idle \in Calls /\ CallWellFormed(Idle)
  BY DEF Idle, Calls, CallWellFormed

LEMMA GroupsOfTypes == \A t \in AccountTypes : GroupsOf[t] \subseteq Groups
  BY DEF Groups

LEMMA NoAccountIsTyped == NoAccount \in Account
  BY DEF NoAccount, Account

LEMMA InitInv == Init => BooksInv
<1> SUFFICES ASSUME Init PROVE BooksInv
  OBVIOUS
<1>1. chart \in [Codes -> Account] /\ WellFormed(chart)
  BY SeedAssumption DEF Init
<1>2. NoEntry \in Entry
  BY DEF NoEntry, Entry
<1>3. /\ "none" \in DOMAIN QueriesOf
      /\ DOMAIN report.answers = {}
  BY DEF Init, QueriesOf
<1>4. report \in [kind : DOMAIN QueriesOf, answers : {report.answers}, quiet : BOOLEAN]
  BY <1>3 DEF Init
<1>5. TypeOK
  BY <1>1, <1>2, <1>3, <1>4, IdleIsACall DEF Init, TypeOK
<1>6. AdjustmentsChecked
  BY DEF Init, AdjustmentsChecked, NoEntry
<1>7. \A w \in Workers : CallWellFormed(call[w])
  BY IdleIsACall DEF Init
<1> QED
  BY <1>1, <1>5, <1>6, <1>7 DEF BooksInv
-----------------------------------------------------------------------------
(* Whether a report is still the picture of one moment does not matter to    *)
(* its type.                                                                 *)
LEMMA DisturbedTyped ==
  ASSUME TypeOK, Disturbed
  PROVE  /\ report' \in [kind : DOMAIN QueriesOf, answers : {report'.answers}, quiet : BOOLEAN]
         /\ DOMAIN report'.answers \subseteq QueriesOf[report'.kind]
  BY DEF TypeOK, Disturbed

(* Steps that only move a request on.                                        *)
LEMMA CallMoves ==
  ASSUME BooksInv, NEW w \in Workers, NEW c \in Calls, CallWellFormed(c),
         call' = [call EXCEPT ![w] = c], UNCHANGED <<chart, entries, report>>
  PROVE  BooksInv'
<1>1. TypeOK'
  BY DEF BooksInv, TypeOK
<1>2. WellFormed(chart)' /\ AdjustmentsChecked'
  BY DEF BooksInv, WellFormed, AdjustmentsChecked
<1>3. ASSUME NEW x \in Workers PROVE CallWellFormed(call[x])'
  <2>1. call'[x] = IF x = w THEN c ELSE call[x]
    BY DEF BooksInv, TypeOK
  <2>2. CallWellFormed(call[x])
    BY DEF BooksInv
  <2> QED
    BY <2>1, <2>2 DEF CallWellFormed, Exists
<1> QED
  BY <1>1, <1>2, <1>3 DEF BooksInv

LEMMA StartUpdateKeepsInv ==
  ASSUME BooksInv, NEW w \in Workers, NEW dto \in AccountUpdates, StartUpdate(w, dto)
  PROVE  BooksInv'
<1> DEFINE c == [Idle EXCEPT !.next = "updateAccount", !.update = dto]
<1>1. c \in Calls
  BY DEF Calls, Idle
<1>2. CallWellFormed(c)
  BY DEF CallWellFormed, StartUpdate, ValidGroup, Idle
<1> QED
  BY <1>1, <1>2, CallMoves DEF StartUpdate, Begin

LEMMA StartApproveKeepsInv ==
  ASSUME BooksInv, NEW w \in Workers, NEW u \in Users, NEW e \in EntryIds,
         StartApproveJournal(w, u, e)
  PROVE  BooksInv'
<1> DEFINE c == [Idle EXCEPT !.next = "approveJournal", !.by = u, !.entry = e]
<1>1. c \in Calls
  BY DEF Calls, Idle
<1>2. CallWellFormed(c)
  BY DEF CallWellFormed, StartApproveJournal, MayApproveJournal, Idle
<1> QED
  BY <1>1, <1>2, CallMoves DEF StartApproveJournal, Begin

LEMMA AbortKeepsInv ==
  ASSUME BooksInv, NEW w \in Workers, Abort(w)
  PROVE  BooksInv'
  BY IdleIsACall, CallMoves DEF Abort, End
-----------------------------------------------------------------------------
(* Edits.  What a commit of the chart must keep for the requests in flight   *)
(* to stay right: the accounts there are, and their types.                   *)
LEMMA ChartKeepsCalls ==
  ASSUME BooksInv, UNCHANGED entries,
         \A x \in Workers : call'[x] \in {Idle, call[x]},
         \A c \in Codes : chart[c] # NoAccount =>
           chart'[c] # NoAccount /\ chart'[c].type = chart[c].type
  PROVE  \A x \in Workers : CallWellFormed(call[x])'
<1> SUFFICES ASSUME NEW x \in Workers PROVE CallWellFormed(call[x])'
  OBVIOUS
<1>1. CASE call'[x] = Idle
  BY <1>1 DEF CallWellFormed, Idle
<1>2. CASE call'[x] = call[x]
  <2>1. CallWellFormed(call[x])
    BY DEF BooksInv
  <2> QED
    BY <1>2, <2>1 DEF CallWellFormed, Exists
<1> QED
  BY <1>1, <1>2

(* A new account finds its parent, which stays and keeps its type.           *)
LEMMA CreateKeepsInv ==
  ASSUME BooksInv, NEW w \in Workers, NEW dto \in NewAccounts, CreateAccount(w, dto)
  PROVE  BooksInv'
<1> DEFINE row == [status |-> "ACTIVE", type |-> dto.type, parent |-> dto.parent,
                   group |-> dto.group]
<1>1. dto.code \in Codes /\ dto.type \in AccountTypes
  BY BooksAssumption DEF Codes, BooksAssumption
<1>2. PICK c \in Codes : c = dto.code
  BY <1>1
<1>3. /\ chart[c] = NoAccount
      /\ chart' = [chart EXCEPT ![c] = row]
      /\ dto.parent # "" => /\ dto.parent \in Codes /\ chart[dto.parent] # NoAccount
                            /\ chart[dto.parent].type = dto.type
      /\ dto.group \in GroupsOf[dto.type]
      /\ Disturbed /\ UNCHANGED <<entries, call>>
  BY <1>2 DEF CreateAccount, Exists, ValidGroup
<1>4. row \in Account /\ row # NoAccount
  BY <1>1, <1>3, GroupsOfTypes DEF Account, NoAccount, AccountTypes
<1>5. /\ row.type = dto.type /\ row.group = dto.group /\ row.parent = dto.parent
  OBVIOUS
<1> HIDE DEF row
<1>6. /\ chart' \in [Codes -> Account]
      /\ chart'[c] = row
      /\ \A d \in Codes \ {c} : chart'[d] = chart[d]
  BY <1>3, <1>4 DEF BooksInv, TypeOK
<1>7. TypeOK'
  BY <1>3, <1>6, DisturbedTyped DEF BooksInv, TypeOK
<1>8. WellFormed(chart')
  <2> SUFFICES ASSUME NEW d \in Codes, chart'[d] # NoAccount
               PROVE  /\ chart'[d].type \in AccountTypes
                      /\ chart'[d].group \in GroupsOf[chart'[d].type]
                      /\ chart'[d].parent # "" =>
                           /\ chart'[chart'[d].parent] # NoAccount
                           /\ chart'[chart'[d].parent].type = chart'[d].type
    BY DEF WellFormed
  <2>1. CASE d = c
    BY <1>1, <1>3, <1>5, <1>6, <2>1
  <2>2. CASE d # c
    <3>1. /\ chart[d] # NoAccount /\ chart'[d] = chart[d]
          /\ chart[d].parent \in Codes \cup {""}
      BY <1>6, <2>2 DEF BooksInv, TypeOK, Account
    <3>2. /\ chart[d].type \in AccountTypes
          /\ chart[d].group \in GroupsOf[chart[d].type]
          /\ chart[d].parent # "" => /\ chart[chart[d].parent] # NoAccount
                                     /\ chart[chart[d].parent].type = chart[d].type
      BY <3>1 DEF BooksInv, WellFormed
    <3>3. chart[d].parent # "" => chart[d].parent # c
      BY <1>3, <3>2
    <3> QED
      BY <1>6, <3>1, <3>2, <3>3
  <2> QED
    BY <2>1, <2>2
<1>9. AdjustmentsChecked'
  BY <1>3 DEF BooksInv, AdjustmentsChecked
<1>10. \A x \in Workers : CallWellFormed(call[x])'
  BY <1>3, <1>6, ChartKeepsCalls
<1> QED
  BY <1>7, <1>8, <1>9, <1>10 DEF BooksInv

(* An update writes a group of the account's type, checked on an earlier read*)
(* but of a type that never changes.                                         *)
LEMMA UpdateKeepsInv ==
  ASSUME BooksInv, NEW w \in Workers, UpdateAccount(w)
  PROVE  BooksInv'
<1> DEFINE dto == call[w].update
           row == [chart[dto.code] EXCEPT
                     !.status = IF dto.status = "KEEP" THEN @ ELSE dto.status,
                     !.group = IF dto.group = "KEEP" THEN @ ELSE dto.group]
<1>1. /\ call[w] \in Calls /\ call[w].next = "updateAccount"
      /\ dto.code \in Codes /\ chart[dto.code] # NoAccount
      /\ dto.group \in {"KEEP"} \cup GroupsOf[chart[dto.code].type]
  BY DEF UpdateAccount, BooksInv, TypeOK, CallWellFormed, Exists
<1>2. PICK c \in Codes : c = dto.code
  BY <1>1
<1>3. /\ chart[c] \in Account /\ chart[c].type \in AccountTypes
      /\ chart[c].group \in GroupsOf[chart[c].type]
  BY <1>1, <1>2 DEF BooksInv, TypeOK, WellFormed
<1>4. dto.status \in {"ACTIVE", "INACTIVE", "KEEP"}
  <2>1. dto \in AccountUpdates \cup {NoUpdate}
    BY <1>1 DEF Calls
  <2>2. CASE dto \in AccountUpdates
    BY <2>2, BooksAssumption DEF BooksAssumption
  <2>3. NoUpdate.status = "KEEP"
    BY DEF NoUpdate
  <2> QED
    BY <2>1, <2>2, <2>3
<1>5. /\ chart' = [chart EXCEPT ![c] = row]
      /\ call' = [call EXCEPT ![w] = Idle]
      /\ Disturbed /\ UNCHANGED entries
  BY <1>2 DEF UpdateAccount, End, BooksInv, TypeOK
<1>6. /\ row \in Account
      /\ row.type = chart[c].type /\ row.parent = chart[c].parent
      /\ row.group \in GroupsOf[chart[c].type]
  <2>1. chart[c].group \in Groups /\ (dto.group # "KEEP" => dto.group \in Groups)
    BY <1>1, <1>2, <1>3, GroupsOfTypes
  <2> QED
    BY <1>1, <1>2, <1>3, <1>4, <2>1 DEF Account
<1> HIDE DEF row
<1>7. /\ chart' \in [Codes -> Account]
      /\ chart'[c] = row
      /\ \A d \in Codes \ {c} : chart'[d] = chart[d]
  BY <1>5, <1>6 DEF BooksInv, TypeOK
<1>8. /\ \A d \in Codes : /\ chart'[d].type = chart[d].type
                          /\ chart'[d].parent = chart[d].parent
                          /\ chart[d] # NoAccount => chart'[d] # NoAccount
                          /\ chart'[d] # NoAccount => chart[d] # NoAccount
  <2>1. row # NoAccount
    <3>1. NoAccount.type = "" /\ "" \notin AccountTypes
      BY DEF NoAccount, AccountTypes
    <3> QED
      BY <1>3, <1>6, <3>1
  <2> QED
    BY <1>1, <1>2, <1>6, <1>7, <2>1
<1>9. TypeOK'
  BY <1>5, <1>7, DisturbedTyped, IdleIsACall DEF BooksInv, TypeOK
<1>10. WellFormed(chart')
  <2> SUFFICES ASSUME NEW d \in Codes, chart'[d] # NoAccount
               PROVE  /\ chart'[d].type \in AccountTypes
                      /\ chart'[d].group \in GroupsOf[chart'[d].type]
                      /\ chart'[d].parent # "" =>
                           /\ chart'[chart'[d].parent] # NoAccount
                           /\ chart'[chart'[d].parent].type = chart'[d].type
    BY DEF WellFormed
  <2>1. /\ chart[d] # NoAccount
        /\ chart[d].parent \in Codes \cup {""}
    BY <1>8 DEF BooksInv, TypeOK, Account
  <2>2. /\ chart[d].type \in AccountTypes
        /\ chart[d].group \in GroupsOf[chart[d].type]
        /\ chart[d].parent # "" => /\ chart[chart[d].parent] # NoAccount
                                   /\ chart[chart[d].parent].type = chart[d].type
    BY <2>1 DEF BooksInv, WellFormed
  <2>3. chart'[d].group \in GroupsOf[chart'[d].type]
    BY <1>6, <1>7, <2>2
  <2> QED
    BY <1>8, <2>1, <2>2, <2>3
<1>11. AdjustmentsChecked'
  BY <1>5 DEF BooksInv, AdjustmentsChecked
<1>12. \A x \in Workers : call'[x] \in {Idle, call[x]}
  BY <1>5 DEF BooksInv, TypeOK
<1>13. \A x \in Workers : CallWellFormed(call[x])'
  BY <1>5, <1>8, <1>12, ChartKeepsCalls
<1> QED
  BY <1>9, <1>10, <1>11, <1>13 DEF BooksInv
-----------------------------------------------------------------------------
(* Journals.  An entry that is inserted takes a row nobody's approval names; *)
(* a posting is not an adjustment and an adjustment is not posted.           *)
LEMMA InsertKeepsInv ==
  ASSUME BooksInv, NEW e \in EntryIds, NEW u \in Users, NEW kind \in Kinds \cup {"ADJUSTMENT"},
         NEW debit, NEW credit, NEW amount \in Nat, NEW status \in {"PENDING_APPROVAL", "POSTED"},
         kind = "ADJUSTMENT" => status # "POSTED",
         Insert(e, u, kind, debit, credit, amount, status), UNCHANGED <<chart, call>>
  PROVE  BooksInv'
<1> DEFINE row == [status |-> status, kind |-> kind, debit |-> debit, credit |-> credit,
                   amount |-> amount, createdBy |-> u, approvedBy |-> None]
<1>1. /\ entries[e].status = "NONE" /\ entries' = [entries EXCEPT ![e] = row]
      /\ debit \in Codes /\ credit \in Codes /\ Disturbed
  <2>1. NoEntry.status = "NONE"
    BY DEF NoEntry
  <2>2. Exists(debit) /\ Exists(credit)
    BY DEF Insert, Resolves
  <2> QED
    BY <2>1, <2>2 DEF Insert, Exists
<1>2. row \in Entry
  BY <1>1 DEF Entry
<1>3. row.kind = "ADJUSTMENT" => row.status # "POSTED"
  OBVIOUS
<1> HIDE DEF row
<1>4. \A x \in EntryIds : entries'[x] = IF x = e THEN row ELSE entries[x]
  BY <1>1 DEF BooksInv, TypeOK
<1>5. TypeOK'
  BY <1>1, <1>2, DisturbedTyped DEF BooksInv, TypeOK
<1>6. WellFormed(chart)'
  BY DEF BooksInv, WellFormed
<1>7. AdjustmentsChecked'
  BY <1>3, <1>4 DEF BooksInv, AdjustmentsChecked
<1>8. ASSUME NEW w \in Workers PROVE CallWellFormed(call[w])'
  <2>1. CallWellFormed(call[w])
    BY DEF BooksInv
  <2> QED
    BY <1>1, <1>4, <2>1 DEF CallWellFormed, Exists
<1> QED
  BY <1>5, <1>6, <1>7, <1>8 DEF BooksInv

LEMMA PostKeepsInv ==
  ASSUME BooksInv, NEW w \in Workers, NEW e \in EntryIds, NEW u \in Users, NEW k \in Kinds,
         NEW a \in Amounts, PostJournal(w, e, u, k, a)
  PROVE  BooksInv'
<1>1. k # "ADJUSTMENT" /\ a \in Nat
  BY BooksAssumption DEF BooksAssumption
<1> QED
  BY <1>1, InsertKeepsInv DEF PostJournal

LEMMA DraftKeepsInv ==
  ASSUME BooksInv, NEW w \in Workers, NEW e \in EntryIds, NEW u \in Users,
         NEW accounts \in Adjustments, NEW a \in Amounts, DraftJournal(w, e, u, accounts, a)
  PROVE  BooksInv'
<1>1. a \in Nat
  BY BooksAssumption DEF BooksAssumption
<1> QED
  BY <1>1, InsertKeepsInv DEF DraftJournal

(* The decision is written by someone other than the maker, who is never     *)
(* overwritten, even when another approval was first.                        *)
LEMMA ApproveKeepsInv ==
  ASSUME BooksInv, NEW w \in Workers, ApproveJournal(w)
  PROVE  BooksInv'
<1> DEFINE e == call[w].entry
           u == call[w].by
           row == [entries[e] EXCEPT !.status = "POSTED", !.approvedBy = u]
<1>1. /\ e \in EntryIds /\ entries[e] \in Entry /\ entries[e].status # "NONE"
      /\ u \in Users /\ u # entries[e].createdBy
  BY DEF ApproveJournal, BooksInv, TypeOK, CallWellFormed
<1>2. /\ entries' = [entries EXCEPT ![e] = row]
      /\ call' = [call EXCEPT ![w] = Idle]
      /\ Disturbed /\ UNCHANGED chart
  BY DEF ApproveJournal, End, BooksInv, TypeOK
<1>3. /\ row \in Entry
      /\ row.status = "POSTED" /\ row.approvedBy = u
      /\ row.createdBy = entries[e].createdBy
  BY <1>1 DEF Entry
<1>4. u # None
  BY <1>1, BooksAssumption DEF BooksAssumption
<1> HIDE DEF row
<1>5. \A x \in EntryIds : entries'[x] = IF x = e THEN row ELSE entries[x]
  BY <1>2 DEF BooksInv, TypeOK
<1>6. TypeOK'
  BY <1>1, <1>2, <1>3, DisturbedTyped, IdleIsACall DEF BooksInv, TypeOK
<1>7. WellFormed(chart)'
  BY <1>2 DEF BooksInv, WellFormed
<1>8. AdjustmentsChecked'
  BY <1>1, <1>3, <1>4, <1>5 DEF BooksInv, AdjustmentsChecked
<1>9. ASSUME NEW x \in Workers PROVE CallWellFormed(call[x])'
  <2>1. call'[x] = IF x = w THEN Idle ELSE call[x]
    BY <1>2 DEF BooksInv, TypeOK
  <2>2. CallWellFormed(call[x])
    BY DEF BooksInv
  <2>3. CASE x = w
    BY <2>1, <2>3 DEF CallWellFormed, Idle
  <2>4. CASE x # w
    BY <1>2, <1>3, <1>5, <2>1, <2>2, <2>4 DEF CallWellFormed, Exists
  <2> QED
    BY <2>3, <2>4
<1> QED
  BY <1>6, <1>7, <1>8, <1>9 DEF BooksInv
-----------------------------------------------------------------------------
(* Statements only read.                                                     *)
LEMMA ReportKeepsInv ==
  ASSUME BooksInv, UNCHANGED <<chart, entries, call>>,
         report' \in [kind : DOMAIN QueriesOf, answers : {report'.answers}, quiet : BOOLEAN],
         DOMAIN report'.answers \subseteq QueriesOf[report'.kind]
  PROVE  BooksInv'
<1>1. TypeOK'
  BY DEF BooksInv, TypeOK
<1>2. WellFormed(chart)' /\ AdjustmentsChecked'
  BY DEF BooksInv, WellFormed, AdjustmentsChecked
<1>3. \A w \in Workers : CallWellFormed(call[w])'
  BY DEF BooksInv, CallWellFormed, Exists
<1> QED
  BY <1>1, <1>2, <1>3 DEF BooksInv

LEMMA ReportingKeepsInv ==
  ASSUME BooksInv, Reporting
  PROVE  BooksInv'
<1>1. ASSUME NEW kind \in DOMAIN QueriesOf, StartReport(kind) PROVE BooksInv'
  BY <1>1, ReportKeepsInv DEF StartReport
<1>2. ASSUME NEW q \in QueriesOf[report.kind], AnswerQuery(q) PROVE BooksInv'
  <2> DEFINE answers == [p \in DOMAIN report.answers \cup {q} |->
                           IF p = q THEN Answer(q) ELSE report.answers[p]]
  <2>1. report' = [report EXCEPT !.answers = answers]
    BY <1>2 DEF AnswerQuery
  <2>2. DOMAIN answers \subseteq QueriesOf[report.kind]
    BY DEF BooksInv, TypeOK
  <2> HIDE DEF answers
  <2>3. /\ report'.answers = answers /\ report'.kind = report.kind
        /\ report' \in [kind : DOMAIN QueriesOf, answers : {answers}, quiet : BOOLEAN]
    BY <2>1 DEF BooksInv, TypeOK
  <2> QED
    BY <1>2, <2>2, <2>3, ReportKeepsInv DEF AnswerQuery
<1> QED
  BY <1>1, <1>2 DEF Reporting

LEMMA StepInv == BooksInv /\ [Next]_vars => BooksInv'
<1> SUFFICES ASSUME BooksInv, [Next]_vars PROVE BooksInv'
  OBVIOUS
<1>1. CASE UNCHANGED vars
  BY <1>1, ReportKeepsInv DEF vars, BooksInv, TypeOK
<1>2. CASE Reporting
  BY <1>2, ReportingKeepsInv
<1>3. ASSUME NEW w \in Workers, Editing(w) PROVE BooksInv'
  BY <1>3, CreateKeepsInv, StartUpdateKeepsInv, UpdateKeepsInv DEF Editing
<1>4. ASSUME NEW w \in Workers, Journaling(w) PROVE BooksInv'
  BY <1>4, PostKeepsInv, DraftKeepsInv, StartApproveKeepsInv, ApproveKeepsInv DEF Journaling
<1>5. ASSUME NEW w \in Workers, Abort(w) PROVE BooksInv'
  BY <1>5, AbortKeepsInv
<1> QED
  BY <1>1, <1>2, <1>3, <1>4, <1>5 DEF Next

(* However account creations, edits, postings, drafts and approvals overlap: *)
(* a sub-ledger is of its parent's type, an account is shown in a section of *)
(* its own type's statement, and an adjustment counts only after the decision*)
(* of someone other than its maker (accounts.service.ts, journal.service.ts).*)
THEOREM InvHolds == Spec => []BooksInv
<1>1. Init => BooksInv
  BY InitInv
<1>2. BooksInv /\ [Next]_vars => BooksInv'
  BY StepInv
<1> QED
  BY <1>1, <1>2, PTL DEF Spec
-----------------------------------------------------------------------------
(* The laws of sums, from StoreProofs: they hold of every store, an empty    *)
(* one for instance.                                                         *)
Laws == INSTANCE StoreProofs WITH
          Investors <- {}, DepositIds <- {}, WithdrawalIds <- {}, InvestmentIds <- {},
          RepaymentIds <- {}, MaxPeriods <- 0, PaymentReferences <- {}, Opportunities <- {},
          investorStatus <- <<>>, walletTxn <- <<>>, journal <- <<>>

LEMMA SameSets ==
  /\ \A S : Laws!IsFiniteSet(S) <=> IsFiniteSet(S)
  /\ \A S : Laws!Cardinality(S) = Cardinality(S)
  /\ \A S, T : Laws!Bijection(S, T) = Bijection(S, T)
<1>1. \A S : Laws!IsFiniteSet(S) <=> IsFiniteSet(S)
  BY Zenon DEF IsFiniteSet, Laws!IsFiniteSet
<1>2. \A S : Laws!Cardinality(S) = Cardinality(S)
  BY Zenon DEF Cardinality, Laws!Cardinality
<1>3. \A S, T : Laws!Bijection(S, T) = Bijection(S, T)
  BY DEF Bijection, Injection, Surjection, IsInjective, Laws!Bijection, Laws!Injection,
         Laws!Surjection, Laws!IsInjective
<1> QED
  BY <1>1, <1>2, <1>3

LEMMA SameTotals == ASSUME NEW f PROVE Laws!Total(f) = Total(f)
  BY SameSets DEF Total, Units, Laws!Total, Laws!Units

LEMMA LawsHold == Laws!StoreAssumption /\ Laws!FiniteAssumption
<1>1. Laws!DocumentIds = {}
  BY DEF Laws!DocumentIds
<1>2. IsFiniteSet({})
  BY FS_EmptySet
<1> QED
  BY <1>1, <1>2, SameSets, BooksAssumption DEF BooksAssumption, Laws!StoreAssumption, Laws!FiniteAssumption
-----------------------------------------------------------------------------
(* What sumMoney returns of differences is the difference of the sums.       *)
LEMMA SumOfDifferences ==
  ASSUME NEW D, IsFiniteSet(D), NEW d \in [D -> Nat], NEW c \in [D -> Nat], NEW f,
         f = [x \in D |-> d[x] - c[x]]
  PROVE  /\ SumMoney(f) = Total(d) - Total(c)
         /\ Total(d) \in Nat /\ Total(c) \in Nat
<1> DEFINE up   == [x \in D |-> IF d[x] > c[x] THEN d[x] - c[x] ELSE 0]
           down == [x \in D |-> IF d[x] > c[x] THEN 0 ELSE c[x] - d[x]]
           both == [x \in D |-> d[x] + down[x]]
           less == [x \in D |-> 0 - f[x]]
<1>1. /\ DOMAIN up = D /\ DOMAIN down = D /\ DOMAIN both = D /\ DOMAIN less = D /\ DOMAIN f = D
      /\ \A x \in D : /\ up[x] \in Nat /\ down[x] \in Nat /\ both[x] \in Nat
                       /\ both[x] = d[x] + down[x] /\ both[x] = c[x] + up[x]
                       /\ 1 .. f[x] = 1 .. up[x] /\ 1 .. less[x] = 1 .. down[x]
  OBVIOUS
<1>2. SumMoney(f) = Total(f) - Total(less)
  BY <1>1 DEF SumMoney
<1> HIDE DEF up, down, both, less
<1>3. Total(f) = Total(up) /\ Total(less) = Total(down)
  <2>1. /\ \A x \in D : {x} \X (1 .. f[x]) = {x} \X (1 .. up[x])
        /\ \A x \in D : {x} \X (1 .. less[x]) = {x} \X (1 .. down[x])
    BY <1>1
  <2>2. Units(f) = Units(up) /\ Units(less) = Units(down)
    BY <1>1, <2>1 DEF Units
  <2> QED
    BY <2>2 DEF Total
<1>4. Total(both) = Total(d) + Total(down)
  BY <1>1, Laws!TotalOfSums, LawsHold, SameSets, SameTotals
<1>5. Total(both) = Total(c) + Total(up)
  BY <1>1, Laws!TotalOfSums, LawsHold, SameSets, SameTotals
<1>6. Total(d) \in Nat /\ Total(c) \in Nat /\ Total(up) \in Nat /\ Total(down) \in Nat
  BY <1>1, Laws!TotalNat, LawsHold, SameSets, SameTotals
<1> QED
  BY <1>2, <1>3, <1>4, <1>5, <1>6

(* The amounts of the posted entries that debit, or credit, one of some      *)
(* accounts, and the net of them.                                            *)
Debited(S)  == Amount({e \in ReportedEntries : entries[e].debit \in S})
Credited(S) == Amount({e \in ReportedEntries : entries[e].credit \in S})
Net(S)      == Debited(S) - Credited(S)

LEMMA AmountsTyped == ASSUME TypeOK PROVE \A e \in EntryIds : entries[e].amount \in Nat
<1>1. entries \in [EntryIds -> Entry]
  BY DEF TypeOK
<1>2. \A row \in Entry : row.amount \in Nat
  BY DEF Entry
<1> QED
  BY <1>1, <1>2

LEMMA AmountNat == ASSUME TypeOK, NEW E \in SUBSET EntryIds PROVE IsFiniteSet(E) /\ Amount(E) \in Nat
<1>1. IsFiniteSet(E)
  BY FiniteAssumption, FS_Subset DEF FiniteAssumption
<1>2. \A e \in E : entries[e].amount \in Nat
  BY AmountsTyped
<1> DEFINE f == [e \in E |-> entries[e].amount]
<1>3. Total(f) \in Nat
  BY <1>1, <1>2, Laws!TotalNat, LawsHold, SameSets, SameTotals
<1> QED
  BY <1>1, <1>3 DEF Amount

(* The columns of some accounts add up to the amounts posted to them.        *)
LEMMA ColumnsAddUp ==
  ASSUME TypeOK, NEW S \in SUBSET Codes, NEW d, d = [c \in S |-> Debits(c)],
         NEW r, r = [c \in S |-> Credits(c)]
  PROVE  /\ Total(d) = Debited(S) /\ Total(r) = Credited(S)
         /\ d \in [S -> Nat] /\ r \in [S -> Nat] /\ IsFiniteSet(S)
<1>1. IsFiniteSet(S)
  BY FiniteAssumption, FS_Subset DEF FiniteAssumption
<1>2. d \in [S -> Nat] /\ r \in [S -> Nat]
  BY AmountNat DEF Debits, Credits, ReportedEntries
<1>3. Total(d) = Debited(S)
  <2> DEFINE E == {e \in ReportedEntries : entries[e].debit \in S}
             f == [e \in E |-> entries[e].amount]
             k == [e \in E |-> entries[e].debit]
  <2>1. E \in SUBSET EntryIds
    BY DEF ReportedEntries
  <2>2. IsFiniteSet(DOMAIN f) /\ \A e \in DOMAIN f : f[e] \in Nat
    BY <2>1, AmountNat, AmountsTyped
  <2>3. \A e \in DOMAIN f : k[e] \in DOMAIN d
    OBVIOUS
  <2>4. ASSUME NEW c \in S PROVE d[c] = Total([e \in {z \in DOMAIN f : k[z] = c} |-> f[e]])
    <3>1. {z \in DOMAIN f : k[z] = c} = {e \in ReportedEntries : entries[e].debit = c}
      OBVIOUS
    <3>2. [e \in {z \in DOMAIN f : k[z] = c} |-> f[e]]
            = [e \in {e \in ReportedEntries : entries[e].debit = c} |-> entries[e].amount]
      BY <3>1
    <3> QED
      BY <3>2 DEF Debits, Amount
  <2>5. DOMAIN d = S
    OBVIOUS
  <2>6. Total(f) = Debited(S)
    BY DEF Debited, Amount
  <2> HIDE DEF f, k, E
  <2> QED
    BY <1>1, <2>2, <2>3, <2>4, <2>5, <2>6, Laws!TotalOfParts, LawsHold, SameSets, SameTotals
<1>4. Total(r) = Credited(S)
  <2> DEFINE E == {e \in ReportedEntries : entries[e].credit \in S}
             f == [e \in E |-> entries[e].amount]
             k == [e \in E |-> entries[e].credit]
  <2>1. E \in SUBSET EntryIds
    BY DEF ReportedEntries
  <2>2. IsFiniteSet(DOMAIN f) /\ \A e \in DOMAIN f : f[e] \in Nat
    BY <2>1, AmountNat, AmountsTyped
  <2>3. \A e \in DOMAIN f : k[e] \in DOMAIN r
    OBVIOUS
  <2>4. ASSUME NEW c \in S PROVE r[c] = Total([e \in {z \in DOMAIN f : k[z] = c} |-> f[e]])
    <3>1. {z \in DOMAIN f : k[z] = c} = {e \in ReportedEntries : entries[e].credit = c}
      OBVIOUS
    <3>2. [e \in {z \in DOMAIN f : k[z] = c} |-> f[e]]
            = [e \in {e \in ReportedEntries : entries[e].credit = c} |-> entries[e].amount]
      BY <3>1
    <3> QED
      BY <3>2 DEF Credits, Amount
  <2>5. DOMAIN r = S
    OBVIOUS
  <2>6. Total(f) = Credited(S)
    BY DEF Credited, Amount
  <2> HIDE DEF f, k, E
  <2> QED
    BY <1>1, <2>2, <2>3, <2>4, <2>5, <2>6, Laws!TotalOfParts, LawsHold, SameSets, SameTotals
<1> QED
  BY <1>1, <1>2, <1>3, <1>4

(* Every entry debits one account and credits one.                           *)
LEMMA NetOfParts ==
  ASSUME TypeOK, NEW S, NEW T, S \cap T = {}
  PROVE  Net(S \cup T) = Net(S) + Net(T) /\ Net(S) \in Int /\ Net(T) \in Int
<1> DEFINE D(X) == {e \in ReportedEntries : entries[e].debit \in X}
           C(X) == {e \in ReportedEntries : entries[e].credit \in X}
           amounts(E) == [e \in E |-> entries[e].amount]
<1>1. \A X : D(X) \in SUBSET EntryIds /\ C(X) \in SUBSET EntryIds
  BY DEF ReportedEntries
<1>2. D(S \cup T) = D(S) \cup D(T) /\ D(S) \cap D(T) = {}
  OBVIOUS
<1>3. C(S \cup T) = C(S) \cup C(T) /\ C(S) \cap C(T) = {}
  OBVIOUS
<1>4. \A X : /\ Debited(X) = Total(amounts(D(X))) /\ Credited(X) = Total(amounts(C(X)))
             /\ Debited(X) \in Nat /\ Credited(X) \in Nat
  BY <1>1, AmountNat DEF Debited, Credited, Amount
<1>5. ASSUME NEW E \in SUBSET EntryIds, NEW F \in SUBSET EntryIds, E \cap F = {}
      PROVE  Total(amounts(E \cup F)) = Total(amounts(E)) + Total(amounts(F))
  <2> DEFINE f == amounts(E \cup F)
             g == amounts(E)
             h == amounts(F)
  <2>1. /\ DOMAIN f = DOMAIN g \cup DOMAIN h /\ DOMAIN g \cap DOMAIN h = {}
        /\ \A e \in DOMAIN f : f[e] \in Nat
        /\ \A e \in DOMAIN g : g[e] = f[e]
        /\ \A e \in DOMAIN h : h[e] = f[e]
    BY <1>5, AmountsTyped
  <2>2. IsFiniteSet(DOMAIN f)
    BY AmountNat
  <2> HIDE DEF f, g, h
  <2>3. Total(f) = Total(g) + Total(h)
    BY <2>1, <2>2, Laws!TotalSplits, LawsHold, SameSets, SameTotals
  <2> QED
    BY <2>3 DEF f, g, h
<1> HIDE DEF D, C, amounts
<1>6. Debited(S \cup T) = Debited(S) + Debited(T)
  BY <1>1, <1>2, <1>4, <1>5
<1>7. Credited(S \cup T) = Credited(S) + Credited(T)
  BY <1>1, <1>3, <1>4, <1>5
<1> QED
  BY <1>4, <1>6, <1>7 DEF Net

LEMMA PostedNetIsNet == \A S : PostedNetDebit(S) = Net(S)
<1>1. \A S : /\ {e \in EntryIds : entries[e].status = "POSTED" /\ entries[e].debit \in S}
                  = {e \in ReportedEntries : entries[e].debit \in S}
             /\ {e \in EntryIds : entries[e].status = "POSTED" /\ entries[e].credit \in S}
                  = {e \in ReportedEntries : entries[e].credit \in S}
  BY DEF ReportedEntries, Reported
<1> QED
  BY <1>1 DEF PostedNetDebit, Net, Debited, Credited
-----------------------------------------------------------------------------
(* What a step does to the statement being drawn up.                         *)
LEMMA StepShape ==
  ASSUME [Next]_vars
  PROVE  \/ UNCHANGED <<chart, entries, report>>
         \/ Disturbed
         \/ UNCHANGED <<chart, entries>> /\ \E kind : StartReport(kind)
         \/ UNCHANGED <<chart, entries>> /\ \E q \in QueriesOf[report.kind] : AnswerQuery(q)
<1> DEFINE Goal == \/ UNCHANGED <<chart, entries, report>>
                   \/ Disturbed
                   \/ UNCHANGED <<chart, entries>> /\ \E kind : StartReport(kind)
                   \/ UNCHANGED <<chart, entries>> /\ \E q \in QueriesOf[report.kind] : AnswerQuery(q)
<1>1. ASSUME UNCHANGED vars PROVE Goal
  BY <1>1 DEF vars
<1>2. ASSUME Reporting PROVE Goal
  BY <1>2 DEF Reporting, StartReport, AnswerQuery
<1>3. ASSUME NEW w \in Workers, Editing(w) PROVE Goal
  BY <1>3 DEF Editing, CreateAccount, StartUpdate, UpdateAccount
<1>4. ASSUME NEW w \in Workers, Journaling(w) PROVE Goal
  BY <1>4 DEF Journaling, PostJournal, DraftJournal, Insert, StartApproveJournal, ApproveJournal
<1>5. ASSUME NEW w \in Workers, Abort(w) PROVE Goal
  BY <1>5 DEF Abort
<1> HIDE DEF Goal
<1>6. Goal
  BY <1>1, <1>2, <1>3, <1>4, <1>5 DEF Next
<1> QED
  BY <1>6 DEF Goal

(* An account, once created, is there for good.                              *)
LEMMA AccountsStay ==
  ASSUME BooksInv, [Next]_vars, NEW c \in Codes, chart[c] # NoAccount
  PROVE  chart'[c] # NoAccount
<1>1. chart[c].type \in AccountTypes /\ chart \in [Codes -> Account]
  BY DEF BooksInv, TypeOK, WellFormed
<1>2. "" \notin AccountTypes /\ NoAccount.type = "" /\ NoAccount.status = "NONE"
  BY DEF AccountTypes, NoAccount
<1>3. ASSUME UNCHANGED chart PROVE chart'[c] # NoAccount
  BY <1>3
<1>4. ASSUME NEW w \in Workers, NEW dto \in NewAccounts, CreateAccount(w, dto)
      PROVE  chart'[c] # NoAccount
  <2> DEFINE row == [status |-> "ACTIVE", type |-> dto.type, parent |-> dto.parent,
                     group |-> dto.group]
  <2>1. row.status = "ACTIVE"
    OBVIOUS
  <2> HIDE DEF row
  <2>2. chart' = [chart EXCEPT ![dto.code] = row]
    BY <1>4 DEF CreateAccount, row
  <2> QED
    BY <1>1, <1>2, <2>1, <2>2
<1>5. ASSUME NEW w \in Workers, UpdateAccount(w) PROVE chart'[c] # NoAccount
  <2>1. chart'[c].type = chart[c].type
    BY <1>1, <1>5 DEF UpdateAccount, Account
  <2> QED
    BY <1>1, <1>2, <2>1
<1>6. ASSUME Reporting PROVE chart'[c] # NoAccount
  BY <1>3, <1>6 DEF Reporting, StartReport, AnswerQuery
<1>7. ASSUME NEW w \in Workers, Editing(w) PROVE chart'[c] # NoAccount
  BY <1>3, <1>4, <1>5, <1>7 DEF Editing, StartUpdate
<1>8. ASSUME NEW w \in Workers, Journaling(w) \/ Abort(w) PROVE chart'[c] # NoAccount
  BY <1>3, <1>8
     DEF Journaling, PostJournal, DraftJournal, StartApproveJournal, ApproveJournal, Abort
<1>9. ASSUME UNCHANGED vars PROVE chart'[c] # NoAccount
  BY <1>3, <1>9 DEF vars
<1> QED
  BY <1>6, <1>7, <1>8, <1>9 DEF Next
-----------------------------------------------------------------------------
(* The trial balance.  Journals name seeded accounts alone, which no list of *)
(* the accounts can miss, however long ago it was read.                      *)
SeededStay == \A code \in SeededCodes : chart[code] # NoAccount

PostedToSeeded ==
  \A e \in EntryIds :
    entries[e].status # "NONE" => {entries[e].debit, entries[e].credit} \subseteq SeededCodes

ListsAll(rows) ==
  /\ \A row \in rows : row[1] \in Codes
  /\ \A row, other \in rows : row[1] = other[1] => row = other
  /\ \A code \in SeededCodes : \E row \in rows : row[1] = code

Balanced(sums) ==
  /\ DOMAIN sums \subseteq SeededCodes
  /\ \A c \in DOMAIN sums : sums[c].debit \in Nat /\ sums[c].credit \in Nat
  /\ Total([c \in DOMAIN sums |-> sums[c].debit]) = Total([c \in DOMAIN sums |-> sums[c].credit])

TrialInv ==
  /\ BooksInv
  /\ SeededStay
  /\ PostedToSeeded
  /\ <<"list", "ALL">> \in DOMAIN report.answers => ListsAll(Listed("ALL"))
  /\ <<"sum", "ALL">> \in DOMAIN report.answers => Balanced(Summed("ALL"))

LEMMA EntriesSeeded ==
  ASSUME BooksInv, PostedToSeeded, [Next]_vars
  PROVE  PostedToSeeded'
<1>1. entries \in [EntryIds -> Entry]
  BY DEF BooksInv, TypeOK
<1>2. ASSUME UNCHANGED entries PROVE PostedToSeeded'
  BY <1>2 DEF PostedToSeeded
<1>3. ASSUME NEW e \in EntryIds, NEW u, NEW kind, NEW amount, NEW status,
             NEW debit \in SeededCodes, NEW credit \in SeededCodes,
             Insert(e, u, kind, debit, credit, amount, status)
      PROVE  PostedToSeeded'
  <2> DEFINE row == [status |-> status, kind |-> kind, debit |-> debit, credit |-> credit,
                     amount |-> amount, createdBy |-> u, approvedBy |-> None]
  <2>1. row.debit = debit /\ row.credit = credit
    OBVIOUS
  <2> HIDE DEF row
  <2>2. entries' = [entries EXCEPT ![e] = row]
    BY <1>3 DEF Insert, row
  <2> QED
    BY <1>1, <2>1, <2>2 DEF PostedToSeeded
<1>4. ASSUME NEW w \in Workers, NEW e \in EntryIds, NEW u \in Users, NEW k \in Kinds, NEW a \in Amounts,
             PostJournal(w, e, u, k, a)
      PROVE  PostedToSeeded'
  <2>1. DebitAccount(k) \in SeededCodes /\ CreditAccount(k) \in SeededCodes
    BY SeedAssumption DEF SeedAssumption
  <2> QED
    BY <1>3, <1>4, <2>1 DEF PostJournal
<1>5. ASSUME NEW w \in Workers, NEW e \in EntryIds, NEW u \in Users, NEW accounts \in Adjustments,
             NEW a \in Amounts, DraftJournal(w, e, u, accounts, a)
      PROVE  PostedToSeeded'
  <2>1. accounts[1] \in SeededCodes /\ accounts[2] \in SeededCodes
    BY BooksAssumption DEF BooksAssumption
  <2> QED
    BY <1>3, <1>5, <2>1 DEF DraftJournal
<1>6. ASSUME NEW w \in Workers, ApproveJournal(w) PROVE PostedToSeeded'
  <2> DEFINE e == call[w].entry
             row == [entries[e] EXCEPT !.status = "POSTED", !.approvedBy = call[w].by]
  <2>1. e \in EntryIds /\ entries[e].status # "NONE"
    BY <1>6 DEF ApproveJournal, BooksInv, CallWellFormed
  <2>2. entries' = [entries EXCEPT ![e] = row]
    BY <1>1, <1>6 DEF ApproveJournal
  <2>3. row.debit = entries[e].debit /\ row.credit = entries[e].credit
    BY <1>1, <2>1 DEF Entry
  <2> HIDE DEF row, e
  <2> QED
    BY <1>1, <2>1, <2>2, <2>3 DEF PostedToSeeded
<1>7. ASSUME NEW w \in Workers, Journaling(w) PROVE PostedToSeeded'
  BY <1>2, <1>4, <1>5, <1>6, <1>7 DEF Journaling, StartApproveJournal
<1>8. ASSUME Reporting \/ UNCHANGED vars PROVE PostedToSeeded'
  BY <1>2, <1>8 DEF Reporting, StartReport, AnswerQuery, vars
<1>9. ASSUME NEW w \in Workers, Editing(w) \/ Abort(w) PROVE PostedToSeeded'
  BY <1>2, <1>9 DEF Editing, CreateAccount, StartUpdate, UpdateAccount, Abort
<1> QED
  BY <1>7, <1>8, <1>9 DEF Next

LEMMA TrialInit == Init => TrialInv
<1> SUFFICES ASSUME Init PROVE TrialInv
  OBVIOUS
<1>1. BooksInv
  BY InitInv
<1>2. SeededStay
  BY SeedAssumption DEF SeedAssumption, Init, SeededStay
<1>3. PostedToSeeded
  BY DEF Init, PostedToSeeded, NoEntry
<1>4. DOMAIN report.answers = {}
  BY DEF Init
<1> QED
  BY <1>1, <1>2, <1>3, <1>4 DEF TrialInv

(* The rows of a list, and a list of all accounts: each once.                *)
InList(scope) == {c \in Codes : InScope(scope, c)}
Rows(S)       == {<<c, chart[c].group>> : c \in S}

LEMMA Answers ==
  /\ \A scope : Answer(<<"list", scope>>) = Rows(InList(scope))
  /\ Answer(<<"sum", "ALL">>) = Sums(Codes)
  /\ \A scope : scope # "ALL" =>
       Answer(<<"sum", scope>>) = Sums({row[1] : row \in report.answers[<<"list", scope>>]})
<1>1. \A scope : <<"list", scope>>[1] = "list" /\ <<"sum", scope>>[1] = "sum"
                 /\ <<"list", scope>>[2] = scope /\ <<"sum", scope>>[2] = scope
  OBVIOUS
<1>2. \A scope : Answer(<<"list", scope>>) = Rows(InList(scope))
  BY <1>1 DEF Answer, Rows, InList
<1>3. Answer(<<"sum", "ALL">>) = Sums(Codes)
  BY <1>1 DEF Answer
<1>4. ASSUME NEW scope, scope # "ALL"
      PROVE  Answer(<<"sum", scope>>) = Sums({row[1] : row \in report.answers[<<"list", scope>>]})
  <2>1. <<"sum", scope>> # <<"sum", "ALL">>
    BY <1>4
  <2> QED
    BY <1>1, <2>1 DEF Answer
<1> QED
  BY <1>2, <1>3, <1>4

LEMMA RowsOfCodes ==
  ASSUME NEW S
  PROVE  /\ \A row \in Rows(S) : row[1] \in S /\ row[2] = chart[row[1]].group
                                 /\ row = <<row[1], chart[row[1]].group>>
         /\ \A c \in S : <<c, chart[c].group>> \in Rows(S)
         /\ {row[1] : row \in Rows(S)} = S
<1>1. ASSUME NEW row \in Rows(S)
      PROVE  /\ row[1] \in S /\ row[2] = chart[row[1]].group
             /\ row = <<row[1], chart[row[1]].group>>
  <2>1. PICK c \in S : row = <<c, chart[c].group>>
    BY DEF Rows
  <2> QED
    BY <2>1
<1>2. \A c \in S : <<c, chart[c].group>> \in Rows(S) /\ <<c, chart[c].group>>[1] = c
  BY DEF Rows
<1> QED
  BY <1>1, <1>2

LEMMA ListAnswer ==
  ASSUME SeededStay, NEW rows, rows = Answer(<<"list", "ALL">>)
  PROVE  ListsAll(rows)
<1>1. rows = Rows(InList("ALL"))
  BY Answers
<1>2. \A code \in SeededCodes : code \in InList("ALL")
  BY DEF SeededStay, Codes, Exists, InList, InScope, AccountTypes
<1>3. InList("ALL") \subseteq Codes
  BY DEF InList
<1>4. \A row \in rows : row[1] \in Codes
  BY <1>1, <1>3, RowsOfCodes
<1>5. ASSUME NEW row \in rows, NEW other \in rows, row[1] = other[1] PROVE row = other
  BY <1>1, <1>5, RowsOfCodes
<1>6. ASSUME NEW code \in SeededCodes PROVE \E row \in rows : row[1] = code
  <2>1. <<code, chart[code].group>> \in rows
    BY <1>1, <1>2, RowsOfCodes
  <2> QED
    BY <2>1
<1> QED
  BY <1>4, <1>5, <1>6 DEF ListsAll

(* The sums are those of one moment, at which debits and credits are equal.  *)
LEMMA SumAnswer ==
  ASSUME TypeOK, PostedToSeeded, NEW sums, sums = Answer(<<"sum", "ALL">>)
  PROVE  Balanced(sums)
<1> DEFINE S == Codes \cap Touched
           d == [c \in S |-> Debits(c)]
           r == [c \in S |-> Credits(c)]
<1>1. sums = [c \in S |-> [debit |-> Debits(c), credit |-> Credits(c)]]
  BY Answers DEF Sums
<1>2. \A e \in ReportedEntries : {entries[e].debit, entries[e].credit} \subseteq SeededCodes
  BY DEF ReportedEntries, Reported, PostedToSeeded
<1>3. S \subseteq SeededCodes
  BY <1>2 DEF Touched
<1>4. \A e \in ReportedEntries : entries[e].debit \in S /\ entries[e].credit \in S
  BY <1>2 DEF Touched, Codes
<1>5. {e \in ReportedEntries : entries[e].debit \in S}
        = {e \in ReportedEntries : entries[e].credit \in S}
  BY <1>4
<1>6. Debited(S) = Credited(S)
  BY <1>5 DEF Debited, Credited
<1> HIDE DEF S
<1>7. S \in SUBSET Codes
  BY <1>3 DEF Codes
<1>8. Total(d) = Total(r) /\ d \in [S -> Nat] /\ r \in [S -> Nat]
  BY <1>6, <1>7, ColumnsAddUp
<1>9. /\ DOMAIN sums = S
      /\ \A c \in S : sums[c].debit = d[c] /\ sums[c].credit = r[c]
  BY <1>1
<1>10. [c \in DOMAIN sums |-> sums[c].debit] = d /\ [c \in DOMAIN sums |-> sums[c].credit] = r
  BY <1>9
<1> HIDE DEF d, r
<1> QED
  BY <1>3, <1>8, <1>9, <1>10 DEF Balanced

(* A sum over rows that have each key once is a sum over the keys.           *)
LEMMA KeyedTotal ==
  ASSUME NEW rows, NEW a, IsFiniteSet(DOMAIN a), \A c \in DOMAIN a : a[c] \in Nat,
         \A row \in rows : row[1] \in DOMAIN a,
         \A row, other \in rows : row[1] = other[1] => row = other,
         \A c \in DOMAIN a : \E row \in rows : row[1] = c,
         NEW g, DOMAIN g = rows, \A row \in rows : g[row] = a[row[1]]
  PROVE  Total(g) = Total(a)
<1> DEFINE b == [c \in DOMAIN a |-> CHOOSE row \in rows : row[1] = c]
<1>1. \A c \in DOMAIN a : b[c] \in rows /\ b[c][1] = c
  OBVIOUS
<1>2. b \in [DOMAIN a -> rows]
  BY <1>1
<1> HIDE DEF b
<1>3. \A row \in rows : row[1] \in DOMAIN a /\ b[row[1]] = row
  BY <1>1
<1>4. b \in Bijection(DOMAIN a, DOMAIN g)
  BY <1>1, <1>2, <1>3 DEF Bijection, Injection, Surjection, IsInjective
<1>5. \A c \in DOMAIN a : g[b[c]] = a[c]
  BY <1>1
<1> QED
  BY <1>4, <1>5, Laws!SameTotal, LawsHold, SameSets, SameTotals

LEMMA TrialAddsUp ==
  ASSUME TrialInv, <<"list", "ALL">> \in DOMAIN report.answers, <<"sum", "ALL">> \in DOMAIN report.answers
  PROVE  TrialBalanced
<1> DEFINE rows == Listed("ALL")
           sums == Summed("ALL")
           S == {row[1] : row \in rows}
<1>1. ListsAll(rows) /\ Balanced(sums)
  BY DEF TrialInv
<1>2. IsFiniteSet(S) /\ DOMAIN sums \subseteq S
  <2>1. S \in SUBSET Codes
    BY <1>1 DEF ListsAll
  <2>2. DOMAIN sums \subseteq S
    BY <1>1 DEF ListsAll, Balanced
  <2> QED
    BY <2>1, <2>2, FiniteAssumption, FS_Subset DEF FiniteAssumption
<1>3. ASSUME NEW p, DOMAIN p = DOMAIN sums, \A c \in DOMAIN sums : p[c] \in Nat,
             NEW g, g = [row \in rows |-> IF row[1] \in DOMAIN sums THEN p[row[1]] ELSE 0]
      PROVE  Total(g) = Total(p)
  <2> DEFINE a == [c \in S |-> IF c \in DOMAIN sums THEN p[c] ELSE 0]
  <2>1. /\ DOMAIN a = S /\ \A c \in S : a[c] \in Nat
        /\ \A c \in DOMAIN sums : a[c] = p[c]
        /\ \A c \in S \ DOMAIN sums : a[c] = 0
    BY <1>2, <1>3
  <2>2. DOMAIN g = rows /\ \A row \in rows : row[1] \in S /\ g[row] = a[row[1]]
    BY <1>3
  <2>3. \A row, other \in rows : row[1] = other[1] => row = other
    BY <1>1 DEF ListsAll
  <2>4. \A c \in S : \E row \in rows : row[1] = c
    OBVIOUS
  <2> HIDE DEF a, S, rows, sums
  <2>5. Total(g) = Total(a)
    BY <1>2, <2>1, <2>2, <2>3, <2>4, KeyedTotal
  <2>6. Total(a) = Total(p)
    BY <1>2, <1>3, <2>1, Laws!TotalDropsZeros, LawsHold, SameTotals
  <2> QED
    BY <2>5, <2>6
<1> DEFINE d == [c \in DOMAIN sums |-> sums[c].debit]
           r == [c \in DOMAIN sums |-> sums[c].credit]
<1>4. /\ DOMAIN d = DOMAIN sums /\ \A c \in DOMAIN sums : d[c] \in Nat /\ d[c] = sums[c].debit
      /\ DOMAIN r = DOMAIN sums /\ \A c \in DOMAIN sums : r[c] \in Nat /\ r[c] = sums[c].credit
      /\ Total(d) = Total(r)
  BY <1>1 DEF Balanced
<1> HIDE DEF d, r
<1>5. /\ [row \in rows |-> DebitOf("ALL", row[1])]
           = [row \in rows |-> IF row[1] \in DOMAIN sums THEN d[row[1]] ELSE 0]
      /\ [row \in rows |-> CreditOf("ALL", row[1])]
           = [row \in rows |-> IF row[1] \in DOMAIN sums THEN r[row[1]] ELSE 0]
  BY <1>4 DEF DebitOf, CreditOf
<1>6. /\ Total([row \in rows |-> DebitOf("ALL", row[1])]) = Total(d)
      /\ Total([row \in rows |-> CreditOf("ALL", row[1])]) = Total(r)
  BY <1>3, <1>4, <1>5
<1> QED
  BY <1>4, <1>6 DEF TrialBalanced

(* What a step that is not an answer leaves of the answers there are.        *)
LEMMA AnswersStay ==
  ASSUME TypeOK, [Next]_vars
  PROVE  \/ report'.answers = report.answers
         \/ DOMAIN report'.answers = {}
         \/ \E q \in QueriesOf[report.kind] :
              /\ DOMAIN report'.answers = DOMAIN report.answers \cup {q}
              /\ \A p \in DOMAIN report.answers \ {q} : report'.answers[p] = report.answers[p]
              /\ report'.answers[q] = Answer(q)
<1> DEFINE Goal ==
         \/ report'.answers = report.answers
         \/ DOMAIN report'.answers = {}
         \/ \E q \in QueriesOf[report.kind] :
              /\ DOMAIN report'.answers = DOMAIN report.answers \cup {q}
              /\ \A p \in DOMAIN report.answers \ {q} : report'.answers[p] = report.answers[p]
              /\ report'.answers[q] = Answer(q)
<1>1. report \in [kind : DOMAIN QueriesOf, answers : {report.answers}, quiet : BOOLEAN]
  BY DEF TypeOK
<1>2. ASSUME UNCHANGED report PROVE Goal
  BY <1>2
<1>3. ASSUME Disturbed PROVE Goal
  BY <1>1, <1>3 DEF Disturbed
<1>4. ASSUME NEW kind, StartReport(kind) PROVE Goal
  BY <1>4 DEF StartReport
<1>5. ASSUME NEW q \in QueriesOf[report.kind], AnswerQuery(q) PROVE Goal
  <2> DEFINE answers == [p \in DOMAIN report.answers \cup {q} |->
                           IF p = q THEN Answer(q) ELSE report.answers[p]]
  <2>1. /\ DOMAIN answers = DOMAIN report.answers \cup {q}
        /\ \A p \in DOMAIN report.answers \ {q} : answers[p] = report.answers[p]
        /\ answers[q] = Answer(q)
    OBVIOUS
  <2>2. report' = [report EXCEPT !.answers = answers]
    BY <1>5 DEF AnswerQuery
  <2> HIDE DEF answers
  <2>3. report'.answers = answers
    BY <1>1, <2>2
  <2> QED
    BY <2>1, <2>3
<1> HIDE DEF Goal
<1>6. Goal
  BY <1>2, <1>3, <1>4, <1>5, StepShape
<1> QED
  BY <1>6 DEF Goal

LEMMA TrialStep == TrialInv /\ [Next]_vars => TrialInv'
<1> SUFFICES ASSUME TrialInv, [Next]_vars PROVE TrialInv'
  OBVIOUS
<1>1. BooksInv' /\ TypeOK
  BY StepInv DEF TrialInv, BooksInv
<1>2. SeededStay'
  BY AccountsStay DEF TrialInv, SeededStay, Codes
<1>3. PostedToSeeded'
  BY EntriesSeeded DEF TrialInv
<1>4. ASSUME <<"list", "ALL">> \in DOMAIN report'.answers PROVE ListsAll(report'.answers[<<"list", "ALL">>])
  BY <1>1, <1>4, AnswersStay, ListAnswer DEF TrialInv, Listed
<1>5. ASSUME <<"sum", "ALL">> \in DOMAIN report'.answers PROVE Balanced(report'.answers[<<"sum", "ALL">>])
  BY <1>1, <1>5, AnswersStay, SumAnswer DEF TrialInv, Summed
<1> QED
  BY <1>1, <1>2, <1>3, <1>4, <1>5 DEF TrialInv, Listed, Summed, ListsAll, Balanced

(* The trial balance balances, though it is made of two reads of which the   *)
(* one lists the accounts and the other sums the journals, and accounts are  *)
(* created and journals posted in between (trialBalance, one Promise.all).   *)
THEOREM TrialHolds == Spec => []TrialBalanceBalances
<1>1. TrialInv => TrialBalanceBalances
  <2> SUFFICES ASSUME TrialInv, Complete("trialBalance") PROVE TrialBalanced
    BY DEF TrialBalanceBalances
  <2>1. {<<"list", "ALL">>, <<"sum", "ALL">>} \subseteq DOMAIN report.answers
    BY DEF Complete, QueriesOf
  <2> QED
    BY <2>1, TrialAddsUp
<1> QED
  BY <1>1, TrialInit, TrialStep, PTL DEF Spec
-----------------------------------------------------------------------------
(* The statements.  While nothing is committed, every answer there is is     *)
(* what it would be now.                                                     *)
AnswerNow(q) ==
  IF q[1] = "list" THEN Rows(InList(q[2]))
                   ELSE Sums(IF q[2] = "ALL" THEN Codes ELSE InList(q[2]))

QuietInv ==
  /\ BooksInv
  /\ report.quiet => \A q \in DOMAIN report.answers : report.answers[q] = AnswerNow(q)

LEMMA QueryShape ==
  ASSUME NEW kind \in DOMAIN QueriesOf, NEW q \in QueriesOf[kind]
  PROVE  q = <<"list", q[2]>> \/ q = <<"sum", q[2]>>
  BY DEF QueriesOf

LEMMA FreshAnswer ==
  ASSUME QuietInv, report.quiet, NEW q \in QueriesOf[report.kind],
         Awaits(q) \subseteq DOMAIN report.answers
  PROVE  Answer(q) = AnswerNow(q)
<1>1. report.kind \in DOMAIN QueriesOf
  BY DEF QuietInv, BooksInv, TypeOK
<1>2. CASE q = <<"list", q[2]>>
  BY <1>2, Answers DEF AnswerNow
<1>3. CASE q = <<"sum", q[2]>> /\ q[2] = "ALL"
  BY <1>3, Answers DEF AnswerNow
<1>4. CASE q = <<"sum", q[2]>> /\ q[2] # "ALL"
  <2> DEFINE l == <<"list", q[2]>>
  <2>1. l \in DOMAIN report.answers
    BY <1>4 DEF Awaits
  <2>2. report.answers[l] = Rows(InList(q[2]))
    BY <2>1 DEF QuietInv, AnswerNow
  <2>3. Answer(q) = Sums({row[1] : row \in report.answers[l]})
    BY <1>4, Answers
  <2>4. {row[1] : row \in Rows(InList(q[2]))} = InList(q[2])
    BY RowsOfCodes
  <2>5. q[1] = "sum"
    BY <1>4
  <2>6. AnswerNow(q) = Sums(InList(q[2]))
    BY <1>4, <2>5 DEF AnswerNow
  <2> QED
    BY <2>2, <2>3, <2>4, <2>6
<1> QED
  BY <1>1, <1>2, <1>3, <1>4, QueryShape

LEMMA QuietStepKeeps == QuietInv /\ [Next]_vars => QuietInv'
<1> SUFFICES ASSUME QuietInv, [Next]_vars PROVE QuietInv'
  OBVIOUS
<1> DEFINE Fresh == report'.quiet =>
                      \A q \in DOMAIN report'.answers : report'.answers[q] = AnswerNow(q)'
<1>1. BooksInv'
  BY StepInv DEF QuietInv
<1>2. report \in [kind : DOMAIN QueriesOf, answers : {report.answers}, quiet : BOOLEAN]
  BY DEF QuietInv, BooksInv, TypeOK
<1>3. UNCHANGED <<chart, entries>> => \A q : AnswerNow(q)' = AnswerNow(q)
  BY DEF AnswerNow, Rows, InList, InScope, Exists, Children, Sums, Touched, Debits, Credits, Amount,
         ReportedEntries, Reported
<1>4. ASSUME UNCHANGED <<chart, entries, report>> PROVE Fresh
  BY <1>3, <1>4 DEF QuietInv
<1>5. ASSUME Disturbed PROVE Fresh
  BY <1>2, <1>5 DEF Disturbed
<1>6. ASSUME NEW kind, StartReport(kind) PROVE Fresh
  BY <1>6 DEF StartReport
<1>7. ASSUME NEW q \in QueriesOf[report.kind], AnswerQuery(q), UNCHANGED <<chart, entries>> PROVE Fresh
  <2> DEFINE answers == [p \in DOMAIN report.answers \cup {q} |->
                           IF p = q THEN Answer(q) ELSE report.answers[p]]
  <2>1. report' = [report EXCEPT !.answers = answers] /\ Awaits(q) \subseteq DOMAIN report.answers
    BY <1>7 DEF AnswerQuery
  <2>2. /\ DOMAIN answers = DOMAIN report.answers \cup {q}
        /\ \A p \in DOMAIN report.answers \ {q} : answers[p] = report.answers[p]
        /\ answers[q] = Answer(q)
    OBVIOUS
  <2> HIDE DEF answers
  <2>3. report'.answers = answers /\ report'.quiet = report.quiet
    BY <1>2, <2>1
  <2>4. report.quiet => \A p \in DOMAIN answers : answers[p] = AnswerNow(p)
    BY <2>1, <2>2, FreshAnswer DEF QuietInv
  <2> QED
    BY <1>3, <1>7, <2>3, <2>4
<1> HIDE DEF Fresh
<1>8. Fresh
  BY <1>4, <1>5, <1>6, <1>7, StepShape
<1> QED
  BY <1>1, <1>8 DEF QuietInv, Fresh

LEMMA Untouched == ASSUME NEW c, c \notin Touched PROVE Debits(c) = 0 /\ Credits(c) = 0
<1>1. /\ {e \in ReportedEntries : entries[e].debit = c} = {}
      /\ {e \in ReportedEntries : entries[e].credit = c} = {}
  BY DEF Touched
<1>2. Amount({}) = 0
  BY Laws!TotalOfNothing, LawsHold, SameTotals DEF Amount
<1> QED
  BY <1>1, <1>2 DEF Debits, Credits

(* A section of a statement is the net of the accounts it shows.             *)
LEMMA SectionAddsUp ==
  ASSUME QuietInv, report.quiet, NEW scope, scope # "ALL",
         <<"list", scope>> \in DOMAIN report.answers, <<"sum", scope>> \in DOMAIN report.answers,
         NEW G, NEW S, S = {c \in InList(scope) : chart[c].group \in G}
  PROVE  SectionTotal(scope, G) = IF scope \in DebitNormal THEN Net(S) ELSE -Net(S)
<1> DEFINE R == {row \in Listed(scope) : row[2] \in G}
           d == [c \in S |-> Debits(c)]
           r == [c \in S |-> Credits(c)]
           left == [row \in R |-> Debits(row[1])]
           right == [row \in R |-> Credits(row[1])]
           f == [row \in R |-> Balance(scope, row[1])]
<1>1. Listed(scope) = Rows(InList(scope)) /\ Summed(scope) = Sums(InList(scope))
  BY DEF QuietInv, AnswerNow, Listed, Summed
<1>2. TypeOK /\ S \in SUBSET Codes
  BY DEF QuietInv, BooksInv, InList
<1>3. /\ Total(d) = Debited(S) /\ Total(r) = Credited(S)
      /\ d \in [S -> Nat] /\ r \in [S -> Nat] /\ IsFiniteSet(S)
  BY <1>2, ColumnsAddUp
<1>4. \A c \in InList(scope) : DebitOf(scope, c) = Debits(c) /\ CreditOf(scope, c) = Credits(c)
  BY <1>1, Untouched DEF DebitOf, CreditOf, Sums
<1>5. /\ \A row \in R : row[1] \in S /\ row = <<row[1], chart[row[1]].group>>
      /\ \A c \in S : <<c, chart[c].group>> \in R
  BY <1>1, RowsOfCodes
<1>6. R = {<<c, chart[c].group>> : c \in S}
  BY <1>5
<1>7. IsFiniteSet(R)
  <2> DEFINE s == [c \in S |-> <<c, chart[c].group>>]
  <2>1. s \in Surjection(S, R)
    BY <1>6 DEF Surjection
  <2> HIDE DEF s, R
  <2> QED
    BY ONLY <1>3, <2>1, FS_Surjection
<1>8. S \subseteq InList(scope)
  OBVIOUS
<1>9. /\ DOMAIN left = R /\ DOMAIN right = R
      /\ \A row \in R : left[row] = d[row[1]] /\ right[row] = r[row[1]]
      /\ left \in [R -> Nat] /\ right \in [R -> Nat]
  BY <1>3, <1>5
<1>10. /\ \A row, other \in R : row[1] = other[1] => row = other
       /\ \A c \in S : \E row \in R : row[1] = c
  BY <1>5
<1>11. f = [row \in R |-> IF scope \in DebitNormal THEN left[row] - right[row] ELSE right[row] - left[row]]
  <2>1. \A row \in R : Balance(scope, row[1])
          = IF scope \in DebitNormal THEN left[row] - right[row] ELSE right[row] - left[row]
    <3> SUFFICES ASSUME NEW row \in R
                 PROVE  Balance(scope, row[1])
                          = IF scope \in DebitNormal THEN left[row] - right[row] ELSE right[row] - left[row]
      OBVIOUS
    <3>1. left[row] = DebitOf(scope, row[1]) /\ right[row] = CreditOf(scope, row[1])
      BY <1>4, <1>5, <1>8
    <3>2. left[row] \in Nat /\ right[row] \in Nat
      BY <1>9
    <3> HIDE DEF left, right
    <3> QED
      BY <3>1, <3>2 DEF Balance, NetDebit
  <2> QED
    BY <2>1
<1>12. SectionTotal(scope, G) = SumMoney(f)
  BY DEF SectionTotal
<1>13. DOMAIN d = S /\ DOMAIN r = S
  OBVIOUS
<1> HIDE DEF R, d, r, left, right, f
<1>14. Total(left) = Total(d) /\ Total(right) = Total(r)
  <2>1. ASSUME NEW a, a \in [S -> Nat], NEW g, DOMAIN g = R, \A row \in R : g[row] = a[row[1]]
        PROVE  Total(g) = Total(a)
    <3>1. /\ IsFiniteSet(DOMAIN a) /\ \A c \in DOMAIN a : a[c] \in Nat
          /\ \A row \in R : row[1] \in DOMAIN a
          /\ \A c \in DOMAIN a : \E row \in R : row[1] = c
      BY <1>3, <1>5, <1>10, <2>1
    <3>2. DOMAIN g = R /\ \A row \in R : g[row] = a[row[1]]
      BY <2>1
    <3> QED
      BY ONLY <1>10, <3>1, <3>2, KeyedTotal
  <2> QED
    BY <1>3, <1>9, <2>1
<1>15. CASE scope \in DebitNormal
  <2>1. f = [row \in R |-> left[row] - right[row]]
    BY <1>11, <1>15
  <2>2. SumMoney(f) = Total(left) - Total(right)
    BY <1>7, <1>9, <2>1, SumOfDifferences
  <2> QED
    BY <1>3, <1>12, <1>14, <1>15, <2>2 DEF Net
<1>16. CASE scope \notin DebitNormal
  <2>1. f = [row \in R |-> right[row] - left[row]]
    BY <1>11, <1>16
  <2>2. SumMoney(f) = Total(right) - Total(left) /\ Total(left) \in Nat /\ Total(right) \in Nat
    BY <1>7, <1>9, <2>1, SumOfDifferences
  <2> QED
    BY <1>3, <1>12, <1>14, <1>16, <2>2 DEF Net
<1> QED
  BY <1>15, <1>16

(* The sections of a statement divide the groups of a type among them.       *)
LEMMA Sections ==
  /\ GroupsOf["ASSET"] = NonCurrentAssets \cup CurrentAssets
  /\ NonCurrentAssets \cap CurrentAssets = {}
  /\ GroupsOf["LIABILITY"] = NonCurrentLiabilities \cup CurrentLiabilities
  /\ NonCurrentLiabilities \cap CurrentLiabilities = {}
  /\ GroupsOf["EQUITY"] = ShareholdersFunds \cup ShareApplicationMoney
  /\ ShareholdersFunds \cap ShareApplicationMoney = {}
  /\ GroupsOf["INCOME"] = Revenue
  /\ GroupsOf["EXPENSE"] = Expenses \cup Tax
  /\ Expenses \cap Tax = {}
<1>1. /\ GroupsOf["ASSET"] = NonCurrentAssets \cup CurrentAssets
      /\ NonCurrentAssets \cap CurrentAssets = {}
  BY DEF GroupsOf, NonCurrentAssets, CurrentAssets
<1>2. /\ GroupsOf["LIABILITY"] = NonCurrentLiabilities \cup CurrentLiabilities
      /\ NonCurrentLiabilities \cap CurrentLiabilities = {}
  BY DEF GroupsOf, NonCurrentLiabilities, CurrentLiabilities
<1>3. /\ GroupsOf["EQUITY"] = ShareholdersFunds \cup ShareApplicationMoney
      /\ ShareholdersFunds \cap ShareApplicationMoney = {}
  BY DEF GroupsOf, ShareholdersFunds, ShareApplicationMoney
<1>4. /\ GroupsOf["INCOME"] = Revenue /\ GroupsOf["EXPENSE"] = Expenses \cup Tax
      /\ Expenses \cap Tax = {}
  BY DEF GroupsOf, Revenue, Expenses, Tax
<1> QED
  BY <1>1, <1>2, <1>3, <1>4

(* Only assets are classified as cash.                                       *)
LEMMA CashIsAnAsset ==
  /\ \A t \in AccountTypes : "CASH_AND_CASH_EQUIVALENTS" \in GroupsOf[t] => t = "ASSET"
  /\ "CASH_AND_CASH_EQUIVALENTS" \in Groups
  BY DEF GroupsOf, AccountTypes, Groups

In(scope, G) == {c \in InList(scope) : chart[c].group \in G}

LEMMA TypeIsItsSections ==
  ASSUME BooksInv, NEW t \in AccountTypes, NEW G, NEW H, GroupsOf[t] = G \cup H, G \cap H = {}
  PROVE  Net(InList(t)) = Net(In(t, G)) + Net(In(t, H)) /\ Net(In(t, G)) \in Int /\ Net(In(t, H)) \in Int
<1>1. \A c \in InList(t) : chart[c].group \in GroupsOf[t]
  BY DEF InList, InScope, Exists, BooksInv, WellFormed
<1>2. InList(t) = In(t, G) \cup In(t, H) /\ In(t, G) \cap In(t, H) = {}
  BY <1>1 DEF In
<1> QED
  BY <1>2, NetOfParts DEF BooksInv

LEMMA ListsAreDisjoint ==
  ASSUME NEW s \in AccountTypes, NEW t \in AccountTypes, s # t
  PROVE  InList(s) \cap InList(t) = {}
  BY DEF InList, InScope

LEMMA ShownIsListed ==
  ASSUME NEW types \in SUBSET AccountTypes
  PROVE  Shown(types) = UNION {InList(t) : t \in types}
<1>1. \A c \in Codes : chart[c].status = "ACTIVE" => Exists(c)
  <2>1. NoAccount.status = "NONE"
    BY DEF NoAccount
  <2> QED
    BY <2>1 DEF Exists
<1>2. \A t \in types : InList(t) = {c \in Codes : /\ chart[c].type = t /\ chart[c].status = "ACTIVE"
                                              /\ Children(c) = {}}
  BY <1>1 DEF InList, InScope, AccountTypes
<1> QED
  BY <1>2 DEF Shown

LEMMA NothingIsMissing == ASSUME TypeOK, PostedToSeeded PROVE Net(Codes) = 0
<1>1. \A e \in ReportedEntries : entries[e].debit \in Codes /\ entries[e].credit \in Codes
  BY DEF ReportedEntries, Reported, PostedToSeeded, Codes
<1>2. {e \in ReportedEntries : entries[e].debit \in Codes}
        = {e \in ReportedEntries : entries[e].credit \in Codes}
  BY <1>1
<1>3. Debited(Codes) = Credited(Codes) /\ Debited(Codes) \in Nat
  BY <1>2, AmountNat DEF Debited, Credited, ReportedEntries
<1> QED
  BY <1>3 DEF Net

LEMMA BalanceSheetAddsUp ==
  ASSUME QuietInv, PostedToSeeded, report.quiet, Complete("balanceSheet")
  PROVE  TotalAssets - TotalEquityAndLiabilities
           = -PostedNetDebit(Codes \ Shown({"ASSET", "LIABILITY", "EQUITY"}))
<1> DEFINE A == InList("ASSET")
           L == InList("LIABILITY")
           Q == InList("EQUITY")
           S == Shown({"ASSET", "LIABILITY", "EQUITY"})
<1>1. BooksInv /\ TypeOK
  BY DEF QuietInv, BooksInv
<1>2. \A t \in {"ASSET", "LIABILITY", "EQUITY"} : /\ <<"list", t>> \in DOMAIN report.answers
                                              /\ <<"sum", t>> \in DOMAIN report.answers
  BY DEF Complete, QueriesOf
<1>3. \A G : /\ SectionTotal("ASSET", G) = Net(In("ASSET", G))
             /\ SectionTotal("LIABILITY", G) = -Net(In("LIABILITY", G))
             /\ SectionTotal("EQUITY", G) = -Net(In("EQUITY", G))
  BY <1>2, SectionAddsUp DEF In, DebitNormal
<1>4. TotalAssets = Net(A) /\ Net(A) \in Int
  <2>1. /\ Net(A) = Net(In("ASSET", NonCurrentAssets)) + Net(In("ASSET", CurrentAssets))
        /\ Net(In("ASSET", NonCurrentAssets)) \in Int /\ Net(In("ASSET", CurrentAssets)) \in Int
    BY <1>1, Sections, TypeIsItsSections DEF AccountTypes
  <2> QED
    BY <1>3, <2>1 DEF TotalAssets
<1>5. TotalEquityAndLiabilities = -Net(Q) - Net(L) /\ Net(Q) \in Int /\ Net(L) \in Int
  <2>1. /\ Net(Q) = Net(In("EQUITY", ShareholdersFunds)) + Net(In("EQUITY", ShareApplicationMoney))
        /\ Net(In("EQUITY", ShareholdersFunds)) \in Int /\ Net(In("EQUITY", ShareApplicationMoney)) \in Int
    BY <1>1, Sections, TypeIsItsSections DEF AccountTypes
  <2>2. /\ Net(L) = Net(In("LIABILITY", NonCurrentLiabilities)) + Net(In("LIABILITY", CurrentLiabilities))
        /\ Net(In("LIABILITY", NonCurrentLiabilities)) \in Int
        /\ Net(In("LIABILITY", CurrentLiabilities)) \in Int
    BY <1>1, Sections, TypeIsItsSections DEF AccountTypes
  <2> QED
    BY <1>3, <2>1, <2>2 DEF TotalEquityAndLiabilities
<1>6. S = (A \cup L) \cup Q
  BY ShownIsListed DEF AccountTypes
<1>7. A \cap L = {} /\ (A \cup L) \cap Q = {}
  BY ListsAreDisjoint DEF AccountTypes
<1>8. S \subseteq Codes
  BY DEF Shown
<1> HIDE DEF A, L, Q, S
<1>9. Net(A \cup L) = Net(A) + Net(L) /\ Net(S) = Net(A \cup L) + Net(Q)
  BY <1>1, <1>6, <1>7, NetOfParts
<1>10. Net(Codes) = Net(S) + Net(Codes \ S) /\ Net(Codes \ S) \in Int
  <2>1. S \cup (Codes \ S) = Codes /\ S \cap (Codes \ S) = {}
    BY <1>8
  <2> QED
    BY <1>1, <2>1, NetOfParts
<1>11. Net(Codes) = 0
  BY <1>1, NothingIsMissing
<1> QED
  BY <1>4, <1>5, <1>9, <1>10, <1>11, PostedNetIsNet DEF S

LEMMA ProfitAddsUp ==
  ASSUME QuietInv, report.quiet, Complete("profitAndLoss")
  PROVE  ProfitForThePeriod = -PostedNetDebit(Shown({"INCOME", "EXPENSE"}))
<1>1. BooksInv /\ TypeOK
  BY DEF QuietInv, BooksInv
<1>2. \A t \in {"INCOME", "EXPENSE"} : /\ <<"list", t>> \in DOMAIN report.answers
                                   /\ <<"sum", t>> \in DOMAIN report.answers
  BY DEF Complete, QueriesOf
<1>3. \A G : /\ SectionTotal("INCOME", G) = -Net(In("INCOME", G))
             /\ SectionTotal("EXPENSE", G) = Net(In("EXPENSE", G))
  BY <1>2, SectionAddsUp DEF In, DebitNormal
<1>4. /\ Net(InList("EXPENSE")) = Net(In("EXPENSE", Expenses)) + Net(In("EXPENSE", Tax))
      /\ Net(In("EXPENSE", Expenses)) \in Int /\ Net(In("EXPENSE", Tax)) \in Int
  BY <1>1, Sections, TypeIsItsSections DEF AccountTypes
<1>5. In("INCOME", Revenue) = InList("INCOME")
  BY <1>1, Sections DEF In, InList, InScope, Exists, BooksInv, WellFormed, AccountTypes
<1>6. InList("INCOME") \cap InList("EXPENSE") = {}
  BY ListsAreDisjoint DEF AccountTypes
<1>7. Shown({"INCOME", "EXPENSE"}) = InList("INCOME") \cup InList("EXPENSE")
  BY ShownIsListed DEF AccountTypes
<1>8. /\ Net(InList("INCOME") \cup InList("EXPENSE")) = Net(InList("INCOME")) + Net(InList("EXPENSE"))
      /\ Net(InList("INCOME")) \in Int
  BY <1>1, <1>6, NetOfParts
<1>9. PostedNetDebit(Shown({"INCOME", "EXPENSE"})) = Net(InList("INCOME")) + Net(InList("EXPENSE"))
  BY <1>7, <1>8, PostedNetIsNet
<1>10. ProfitForThePeriod
         = (-Net(InList("INCOME")) - Net(In("EXPENSE", Expenses))) - Net(In("EXPENSE", Tax))
  BY <1>3, <1>5 DEF ProfitForThePeriod
<1> HIDE DEF In, InList
<1> QED
  BY <1>4, <1>8, <1>9, <1>10

LEMMA CashFlowAgrees ==
  ASSUME QuietInv, report.quiet, Complete("cashFlow")
  PROVE  NetIncreaseInCash = ActualCashBalance
<1>1. \A t \in {"CASH", "ASSET"} : /\ <<"list", t>> \in DOMAIN report.answers
                               /\ <<"sum", t>> \in DOMAIN report.answers
  BY DEF Complete, QueriesOf
<1>2. \A t \in {"CASH", "ASSET"} : \A G : SectionTotal(t, G) = Net(In(t, G))
  BY <1>1, SectionAddsUp DEF In, DebitNormal
<1>3. In("CASH", Groups) = In("ASSET", {"CASH_AND_CASH_EQUIVALENTS"})
  <2>1. "CASH" \notin AccountTypes /\ "ASSET" \in AccountTypes
    BY DEF AccountTypes
  <2>2. \A c \in Codes : Exists(c) /\ chart[c].group = "CASH_AND_CASH_EQUIVALENTS" => chart[c].type = "ASSET"
    BY CashIsAnAsset DEF QuietInv, BooksInv, WellFormed, Exists
  <2> QED
    BY <2>1, <2>2, CashIsAnAsset DEF In, InList, InScope
<1> QED
  BY <1>2, <1>3 DEF NetIncreaseInCash, ActualCashBalance

(* A statement drawn up while nothing is committed says what the ledger says *)
(* of the accounts it shows: balance sheet, profit and loss and cash flow    *)
(* add up, section by section, to the journals posted (leafAccountBalances-  *)
(* ByType and groupByScheduleIII in financial-reports.service.ts).           *)
THEOREM QuietStatementsHold == Spec => []QuietStatementsAgree
<1>1. Init => QuietInv
  BY InitInv DEF Init, QuietInv
<1>2. TrialInv /\ QuietInv => QuietStatementsAgree
  BY BalanceSheetAddsUp, ProfitAddsUp, CashFlowAgrees DEF QuietStatementsAgree, TrialInv
<1> QED
  BY <1>1, <1>2, QuietStepKeeps, TrialInit, TrialStep, PTL DEF Spec
-----------------------------------------------------------------------------
(* The repayment schedules, which the books are posted from: the generator    *)
(* keeps what it promises for every principal, rate, tenure and date.         *)
Plans == [type : PlanTypes, tenure : Nat \ {0}, percent : Int]

(* What the inputs of the generator are.                                     *)
InputsFit == principal \in Nat /\ plan \in Plans /\ date \in [month : Nat, day : Nat]

LEMMA InputsStay == Generation => []InputsFit
<1>1. AnyInputs => InputsFit
  BY ScheduleAssumption DEF AnyInputs, InputsFit, Plans, ScheduleAssumption
<1>2. InputsFit /\ [SameInputs]_inputs => InputsFit'
  BY DEF InputsFit, SameInputs, inputs
<1> QED
  BY <1>1, <1>2, PTL DEF Generation

LEMMA Periods ==
  ASSUME NEW p \in Plans, NEW n, n = PeriodCount(p)
  PROVE  /\ n \in Nat \ {0}
         /\ p.type = "BULLET" => n = 1
         /\ p.type # "BULLET" => /\ PeriodMonths(p) \in {1, 3}
                                 /\ n * PeriodMonths(p) >= p.tenure
                                 /\ (n - 1) * PeriodMonths(p) < p.tenure
<1>1. CASE p.type = "BULLET"
  BY <1>1 DEF PeriodCount
<1>2. CASE p.type = "MONTHLY"
  BY <1>2 DEF PeriodCount, PeriodMonths, Plans
<1>3. CASE p.type = "QUARTERLY"
  BY <1>3 DEF PeriodCount, PeriodMonths, Plans
<1> QED
  BY <1>1, <1>2, <1>3 DEF Plans, PlanTypes
-----------------------------------------------------------------------------
(* The sum of n amounts of which all but the last are the same.              *)
Positive(a) == IF a > 0 THEN a ELSE 0

LEMMA TotalOfRows ==
  ASSUME NEW n \in Nat \ {0}, NEW a \in Int, NEW b \in Int
  PROVE  Total([k \in 1 .. n |-> IF k < n THEN a ELSE b]) = (n - 1) * Positive(a) + Positive(b)
<1> DEFINE f == [k \in 1 .. n |-> IF k < n THEN a ELSE b]
           A == (1 .. n - 1) \X (1 .. a)
           B == {n} \X (1 .. b)
<1>1. Units(f) = A \cup B
  <2>1. ASSUME NEW u \in Units(f) PROVE u \in A \cup B
    <3>1. PICK k \in 1 .. n : u \in {k} \X (1 .. f[k])
      BY <2>1 DEF Units
    <3> QED
      BY <3>1
  <2>2. ASSUME NEW u \in A PROVE u \in Units(f)
    <3>1. u[1] \in DOMAIN f /\ u \in {u[1]} \X (1 .. f[u[1]])
      OBVIOUS
    <3> QED
      BY <3>1 DEF Units
  <2>3. ASSUME NEW u \in B PROVE u \in Units(f)
    <3>1. n \in DOMAIN f /\ u \in {n} \X (1 .. f[n])
      OBVIOUS
    <3> QED
      BY <3>1 DEF Units
  <2> QED
    BY <2>1, <2>2, <2>3
<1>2. A \cap B = {}
  OBVIOUS
<1>3. /\ IsFiniteSet(1 .. n - 1) /\ Cardinality(1 .. n - 1) = n - 1
      /\ IsFiniteSet(1 .. a) /\ Cardinality(1 .. a) = Positive(a)
      /\ IsFiniteSet(1 .. b) /\ Cardinality(1 .. b) = Positive(b)
      /\ IsFiniteSet({n}) /\ Cardinality({n}) = 1
  <2>1. \A x \in Int : /\ IsFiniteSet(1 .. x)
                       /\ Cardinality(1 .. x) = IF 1 > x THEN 0 ELSE x - 1 + 1
    BY FS_Interval
  <2>2. n - 1 \in Int /\ n - 1 >= 0
    OBVIOUS
  <2>3. IsFiniteSet({n}) /\ Cardinality({n}) = 1
    BY FS_Singleton
  <2>4. \A x \in Int : (IF 1 > x THEN 0 ELSE x - 1 + 1) = Positive(x)
    BY DEF Positive
  <2>5. Positive(n - 1) = n - 1
    BY <2>2 DEF Positive
  <2> QED
    BY <2>1, <2>2, <2>3, <2>4, <2>5
<1>4. /\ IsFiniteSet(A) /\ Cardinality(A) = (n - 1) * Positive(a)
      /\ IsFiniteSet(B) /\ Cardinality(B) = 1 * Positive(b)
  <2>1. \A S, T : IsFiniteSet(S) /\ IsFiniteSet(T) =>
           /\ IsFiniteSet(S \X T)
           /\ Cardinality(S \X T) = Cardinality(S) * Cardinality(T)
    BY FS_Product
  <2>2. /\ IsFiniteSet(A) /\ Cardinality(A) = Cardinality(1 .. n - 1) * Cardinality(1 .. a)
        /\ IsFiniteSet(B) /\ Cardinality(B) = Cardinality({n}) * Cardinality(1 .. b)
    BY <1>3, <2>1
  <2> HIDE DEF A, B
  <2> QED
    BY <1>3, <2>2
<1> HIDE DEF A, B, f
<1>5. Cardinality(A \cup B) = Cardinality(A) + Cardinality(B) - Cardinality(A \cap B)
  BY <1>4, FS_Union
<1>6. Cardinality(A \cap B) = 0
  BY <1>2, FS_EmptySet
<1>7. Total(f) = Cardinality(A) + Cardinality(B) - 0
  BY <1>1, <1>5, <1>6 DEF Total
<1> QED
  BY <1>4, <1>7 DEF f, Positive

(* A rounded amount is half a paisa from the exact one at most.              *)
LEMMA PaiseClose ==
  ASSUME NEW m \in Int
  PROVE  /\ InPaise(m) \in Int /\ (m >= 0 => InPaise(m) \in Nat)
         /\ 10000000 * InPaise(m) - m <= 5000000
         /\ -5000000 <= 10000000 * InPaise(m) - m
  BY DEF InPaise, RoundedQuotient, RoiUnit

(* The principal falls due exactly once, whole, with the last row           *)
(* (repayment-schedule.generator.ts).                                        *)
THEOREM PrincipalOnce == Generation => []PrincipalDueOnce
<1>1. InputsFit => PrincipalDueOnce
  <2> SUFFICES ASSUME InputsFit PROVE PrincipalDueOnce
    OBVIOUS
  <2> DEFINE n == PeriodCount(plan)
             b == InPaise(RoiUnit * principal)
  <2>1. n \in Nat \ {0}
    BY Periods DEF InputsFit
  <2>2. RoiUnit * principal \in Nat
    BY DEF InputsFit, RoiUnit
  <2>3. b \in Nat /\ InPaise(RoiUnit * 0) = 0
    <3>1. RoiUnit * 0 = 0
      BY DEF RoiUnit
    <3>2. InPaise(0) = 0
      BY DEF InPaise, RoundedQuotient, RoiUnit
    <3> HIDE DEF n
    <3> QED
      BY <2>2, <3>1, <3>2, PaiseClose
  <2>4. [k \in DOMAIN GeneratedRows |-> GeneratedRows[k].principalDue] = [k \in 1 .. n |-> IF k < n THEN 0 ELSE b]
    BY <2>3 DEF GeneratedRows, Generate, StoredRow, PrincipalOfRow
  <2> HIDE DEF n, b
  <2>5. Total([k \in 1 .. n |-> IF k < n THEN 0 ELSE b]) = (n - 1) * Positive(0) + Positive(b)
    BY <2>1, <2>3, TotalOfRows
  <2>6. Positive(0) = 0 /\ Positive(b) = b /\ (n - 1) * 0 = 0
    BY <2>1, <2>3 DEF Positive
  <2> QED
    <3>1. (n - 1) * Positive(0) + Positive(b) = b
      BY <2>3, <2>6
    <3>2. Total([k \in DOMAIN GeneratedRows |-> GeneratedRows[k].principalDue]) = b
      BY <2>4, <2>5, <3>1
    <3> QED
      BY <3>2 DEF PrincipalDueOnce, b
<1> QED
  BY <1>1, InputsStay, PTL

(* The bound in numbers: j rows of a paise each, rounded from R tenths of a  *)
(* paisa, the last one of b, rounded from what those leave of T, and w the   *)
(* whole rounded at once.                                                    *)
LEMMA DriftOfRounding ==
  ASSUME NEW j \in Nat, NEW a \in Int, NEW R \in Int, NEW b \in Int, NEW T \in Int, NEW w \in Int,
         10000000 * a - 1000000 * R <= 5000000, -5000000 <= 10000000 * a - 1000000 * R,
         10000000 * b - (T - 1000000 * (R * j)) <= 5000000,
         -5000000 <= 10000000 * b - (T - 1000000 * (R * j)),
         10000000 * w - T <= 5000000, -5000000 <= 10000000 * w - T
  PROVE  2 * (j * a + b - w) <= j + 2 /\ -(j + 2) <= 2 * (j * a + b - w)
<1> DEFINE X == j * a
           Y == R * j
           e == 10 * a - R
<1>1. e \in Int /\ e <= 5 /\ -5 <= e
  OBVIOUS
<1>2. X \in Int /\ Y \in Int
  OBVIOUS
<1>3. 10 * X - Y = j * e
  OBVIOUS
<1>4. j * e <= j * 5 /\ j * (-5) <= j * e
  <2> HIDE DEF e
  <2> QED
    BY <1>1
<1>5. 10 * X - Y <= 5 * j /\ -(5 * j) <= 10 * X - Y
  <2>1. j * 5 = 5 * j /\ j * (-5) = -(5 * j)
    OBVIOUS
  <2> HIDE DEF X, Y, e
  <2> QED
    BY <1>3, <1>4, <2>1
<1>6. /\ 10000000 * b - (T - 1000000 * Y) <= 5000000
      /\ -5000000 <= 10000000 * b - (T - 1000000 * Y)
  OBVIOUS
<1> HIDE DEF X, Y, e
<1>7. 2 * (X + b - w) <= j + 2 /\ -(j + 2) <= 2 * (X + b - w)
  BY ONLY j \in Nat, b \in Int, T \in Int, w \in Int, <1>2, <1>5, <1>6,
          10000000 * w - T <= 5000000, -5000000 <= 10000000 * w - T
<1> QED
  BY <1>7 DEF X

(* Rounding the rows to paise moves the whole ROI by half a paisa per row at *)
(* most, and one more for the whole, whatever the rate, though the last row  *)
(* may take back what the ones before it gave too much                       *)
(* (repayment-schedule.generator.ts, schema.prisma).                         *)
THEOREM RoiDrift == Generation => []RoiDriftBounded
<1>1. InputsFit => RoiDriftBounded
  <2> SUFFICES ASSUME InputsFit PROVE RoiDriftBounded
    OBVIOUS
  <2> DEFINE n == PeriodCount(plan)
             R == RoiPerPeriod(principal, plan)
             T == TotalRoi(principal, plan)
             last == T - RoiUnit * R * (n - 1)
             a == InPaise(RoiUnit * R)
             b == InPaise(last)
             w == InPaise(T)
  <2>1. n \in Nat \ {0}
    BY Periods DEF InputsFit
  <2>2. T \in Int /\ R \in Int
    <3>1. T \in Int
      BY DEF InputsFit, Plans, TotalRoi
    <3>2. RoiUnit * n \in Nat \ {0}
      <4> HIDE DEF n
      <4> QED
        BY <2>1 DEF RoiUnit
    <3>3. \A m \in Int, d \in Nat \ {0} : RoundedQuotient(m, d) \in Int
      BY DEF RoundedQuotient
    <3> QED
      BY <3>1, <3>2, <3>3 DEF RoiPerPeriod
  <2>3. /\ [k \in DOMAIN GeneratedRows |-> GeneratedRows[k].roiDue] = [k \in 1 .. n |-> IF k < n THEN a ELSE b]
        /\ [k \in DOMAIN GeneratedRows |-> 0 - GeneratedRows[k].roiDue]
             = [k \in 1 .. n |-> IF k < n THEN 0 - a ELSE 0 - b]
    BY DEF GeneratedRows, Generate, StoredRow, RoiOfRow
  <2> HIDE DEF n, R, T
  <2>4. RoiUnit * R = 1000000 * R /\ last = T - 1000000 * (R * (n - 1))
        /\ RoiUnit * R \in Int /\ last \in Int
    <3>1. R * (n - 1) \in Int /\ RoiUnit * R * (n - 1) = 1000000 * (R * (n - 1))
      BY <2>1, <2>2 DEF RoiUnit
    <3> DEFINE Y == R * (n - 1)
    <3>2. Y \in Int /\ last = T - 1000000 * Y
      BY <3>1
    <3> HIDE DEF Y, last
    <3> QED
      BY <2>2, <3>2 DEF RoiUnit, Y
  <2> HIDE DEF last
  <2>5. /\ a \in Int /\ b \in Int /\ w \in Int
        /\ 10000000 * a - 1000000 * R <= 5000000 /\ -5000000 <= 10000000 * a - 1000000 * R
        /\ 10000000 * b - last <= 5000000 /\ -5000000 <= 10000000 * b - last
        /\ 10000000 * w - T <= 5000000 /\ -5000000 <= 10000000 * w - T
    <3>1. \A m \in Int : /\ InPaise(m) \in Int
                         /\ 10000000 * InPaise(m) - m <= 5000000
                         /\ -5000000 <= 10000000 * InPaise(m) - m
      BY PaiseClose
    <3> QED
      BY <2>2, <2>4, <3>1
  <2> HIDE DEF a, b, w
  <2>6. StoredRoi = (n - 1) * a + b
    <3>1. /\ Total([k \in 1 .. n |-> IF k < n THEN a ELSE b]) = (n - 1) * Positive(a) + Positive(b)
          /\ Total([k \in 1 .. n |-> IF k < n THEN 0 - a ELSE 0 - b])
               = (n - 1) * Positive(0 - a) + Positive(0 - b)
      <4>1. \A x, y \in Int : Total([k \in 1 .. n |-> IF k < n THEN x ELSE y])
                                = (n - 1) * Positive(x) + Positive(y)
        BY <2>1, TotalOfRows
      <4>2. 0 - a \in Int /\ 0 - b \in Int
        BY <2>5
      <4> QED
        BY <2>5, <4>1, <4>2
    <3> DEFINE p == Positive(a)
               m == Positive(0 - a)
               j == n - 1
    <3>2. /\ p \in Int /\ m \in Int /\ p - m = a /\ j \in Int
          /\ Positive(b) \in Int /\ Positive(0 - b) \in Int /\ Positive(b) - Positive(0 - b) = b
      BY <2>1, <2>5 DEF Positive
    <3> HIDE DEF p, m, j
    <3>3. j * p - j * m = j * a
      <4>1. j * (p - m) = j * p - j * m
        BY <3>2
      <4> QED
        BY <3>2, <4>1
    <3>4. j * p \in Int /\ j * m \in Int /\ j * a \in Int
      BY <2>5, <3>2
    <3>5. StoredRoi = (j * p + Positive(b)) - (j * m + Positive(0 - b))
      BY <2>3, <3>1 DEF StoredRoi, p, m, j
    <3>6. StoredRoi = j * a + b
      <4> DEFINE x == j * p
                 y == j * m
                 z == j * a
      <4> HIDE DEF x, y, z
      <4>1. x \in Int /\ y \in Int /\ z \in Int /\ x - y = z
            /\ StoredRoi = (x + Positive(b)) - (y + Positive(0 - b))
        BY <3>3, <3>4, <3>5 DEF x, y, z
      <4>2. StoredRoi = z + b
        BY <2>5, <3>2, <4>1
      <4> QED
        BY <4>2 DEF z
    <3> QED
      BY <3>6 DEF j
  <2>7. /\ 2 * ((n - 1) * a + b - w) <= (n - 1) + 2
        /\ -((n - 1) + 2) <= 2 * ((n - 1) * a + b - w)
    <3>1. n - 1 \in Nat
      BY <2>1
    <3>2. /\ 10000000 * b - (T - 1000000 * (R * (n - 1))) <= 5000000
          /\ -5000000 <= 10000000 * b - (T - 1000000 * (R * (n - 1)))
      BY <2>4, <2>5
    <3> QED
      BY <2>2, <2>5, <3>1, <3>2, DriftOfRounding
  <2>8. (n - 1) + 2 = n + 1 /\ n = PeriodCount(plan) /\ WholeRoi = w
    BY <2>1 DEF n, w, T, WholeRoi
  <2> QED
    <3> DEFINE drift == StoredRoi - WholeRoi
    <3>1. 2 * drift <= PeriodCount(plan) + 1 /\ -(PeriodCount(plan) + 1) <= 2 * drift
      <4> DEFINE z == (n - 1) * a
      <4>1. z \in Int
        BY <2>1, <2>5
      <4> HIDE DEF z
      <4>2. /\ drift = z + b - w
            /\ PeriodCount(plan) + 1 = (n - 1) + 2
        <5>1. PeriodCount(plan) + 1 = n + 1
          BY <2>8
        <5>2. StoredRoi = z + b /\ WholeRoi = w
          BY <2>6, <2>8 DEF z
        <5> QED
          BY <2>1, <2>5, <2>8, <4>1, <5>1, <5>2
      <4>3. 2 * (z + b - w) <= (n - 1) + 2 /\ -((n - 1) + 2) <= 2 * (z + b - w)
        BY <2>7 DEF z
      <4> HIDE DEF drift
      <4> QED
        BY <4>2, <4>3
    <3> QED
      BY <3>1 DEF RoiDriftBounded
<1> QED
  BY <1>1, InputsStay, PTL
-----------------------------------------------------------------------------
(* More months are more days.                                                *)
LEMMA DaysGrow ==
  ASSUME NEW x \in Nat, NEW y \in Nat, x < y
  PROVE  DaysBefore(x) \in Nat /\ DaysBefore(y) \in Nat /\ DaysBefore(x) < DaysBefore(y)
<1> DEFINE f == [k \in 0 .. x - 1 |-> MonthLength(k)]
           g == [k \in 0 .. y - 1 |-> MonthLength(k)]
           All == (0 .. y - 1) \X (1 .. 31)
<1>1. \A k \in Nat : MonthLength(k) \in 28 .. 31
  BY DEF MonthLength
<1>2. Units(g) \subseteq All
  <2> SUFFICES ASSUME NEW u \in Units(g) PROVE u \in All
    OBVIOUS
  <2>1. PICK k \in 0 .. y - 1 : u \in {k} \X (1 .. MonthLength(k))
    BY DEF Units
  <2> QED
    <3>1. MonthLength(k) \in 28 .. 31
      BY <1>1
    <3>2. PICK d \in 1 .. MonthLength(k) : u = <<k, d>>
      BY <2>1
    <3>3. k \in 0 .. y - 1 /\ d \in 1 .. 31
      BY <3>1
    <3> QED
      BY <3>2, <3>3
<1>3. Units(f) \subseteq Units(g)
  BY DEF Units
<1>4. <<x, 1>> \in Units(g) /\ <<x, 1>> \notin Units(f)
  <2>1. x \in DOMAIN g /\ <<x, 1>> \in {x} \X (1 .. g[x])
    BY <1>1
  <2>2. \A u \in Units(f) : u[1] # x
    BY DEF Units
  <2> QED
    BY <2>1, <2>2 DEF Units
<1>5. IsFiniteSet(All)
  <2>1. IsFiniteSet(0 .. y - 1) /\ IsFiniteSet(1 .. 31)
    <3>1. \A a, b \in Int : IsFiniteSet(a .. b)
      BY FS_Interval
    <3>2. 0 \in Int /\ y - 1 \in Int /\ 1 \in Int /\ 31 \in Int
      OBVIOUS
    <3> QED
      BY ONLY <3>1, <3>2
  <2> QED
    BY <2>1, FS_Product
<1> HIDE DEF f, g, All
<1>6. IsFiniteSet(Units(g))
  BY <1>2, <1>5, FS_Subset
<1>7. /\ IsFiniteSet(Units(f)) /\ Cardinality(Units(f)) <= Cardinality(Units(g))
      /\ Cardinality(Units(f)) = Cardinality(Units(g)) => Units(g) = Units(f)
  BY <1>3, <1>6, FS_Subset
<1>8. Cardinality(Units(f)) \in Nat /\ Cardinality(Units(g)) \in Nat
  BY <1>6, <1>7, FS_CardinalityType
<1>9. DaysBefore(x) = Cardinality(Units(f)) /\ DaysBefore(y) = Cardinality(Units(g))
  BY DEF DaysBefore, Total, f, g
<1> QED
  BY <1>4, <1>7, <1>8, <1>9

(* Rows fall due one after another, after the investment, the last of them   *)
(* at the end of the tenure, whatever the day of the month, the leap years   *)
(* and an uneven last quarter (addMonths of repayment-schedule.generator.ts). *)
THEOREM RowsFallDueInOrder == Generation => []DueDatesIncrease
<1>1. InputsFit => DueDatesIncrease
  <2> SUFFICES ASSUME InputsFit PROVE DueDatesIncrease
    OBVIOUS
  <2> DEFINE n == PeriodCount(plan)
             elapsed(k) == IF k = 0 THEN 0 ELSE MonthsElapsed(plan, k)
             due == [k \in 0 .. n |-> IF k = 0 THEN AddMonths(date, 0) ELSE DueDate(date, plan, k)]
  <2>1. /\ date.month \in Nat /\ date.day \in Nat /\ plan \in Plans
        /\ plan.tenure \in Nat \ {0}
    BY DEF InputsFit, Plans
  <2>2. /\ n \in Nat \ {0}
        /\ plan.type = "BULLET" => n = 1
        /\ plan.type # "BULLET" => /\ PeriodMonths(plan) \in {1, 3}
                                   /\ n * PeriodMonths(plan) >= plan.tenure
                                   /\ (n - 1) * PeriodMonths(plan) < plan.tenure
    BY <2>1, Periods
  <2>3. \A k \in 0 .. n : due[k] = DaysBefore(date.month + elapsed(k)) + date.day
    BY DEF DueDate, AddMonths
  <2> HIDE DEF n, due
  <2>4. ASSUME NEW k \in 1 .. n
        PROVE  elapsed(k - 1) \in Nat /\ elapsed(k) \in Nat /\ elapsed(k - 1) < elapsed(k)
    <3>1. CASE plan.type = "BULLET"
      BY <2>1, <2>2, <2>4, <3>1 DEF MonthsElapsed
    <3>2. CASE plan.type # "BULLET" /\ PeriodMonths(plan) = 1
      BY <2>1, <2>2, <2>4, <3>2 DEF MonthsElapsed
    <3>3. CASE plan.type # "BULLET" /\ PeriodMonths(plan) = 3
      BY <2>1, <2>2, <2>4, <3>3 DEF MonthsElapsed
    <3> QED
      BY <2>2, <3>1, <3>2, <3>3
  <2>5. elapsed(n) = plan.tenure
    <3>1. CASE plan.type = "BULLET"
      BY <2>1, <2>2, <3>1 DEF MonthsElapsed
    <3>2. CASE plan.type # "BULLET" /\ PeriodMonths(plan) = 1
      BY <2>1, <2>2, <3>2 DEF MonthsElapsed
    <3>3. CASE plan.type # "BULLET" /\ PeriodMonths(plan) = 3
      BY <2>1, <2>2, <3>3 DEF MonthsElapsed
    <3> QED
      BY <2>2, <3>1, <3>2, <3>3
  <2> HIDE DEF elapsed
  <2>6. ASSUME NEW k \in 1 .. n PROVE due[k - 1] < due[k]
    <3>1. k \in 0 .. n /\ k - 1 \in 0 .. n
      BY <2>2
    <3> DEFINE x == date.month + elapsed(k - 1)
               y == date.month + elapsed(k)
    <3>2. x \in Nat /\ y \in Nat /\ x < y
      BY <2>1, <2>4
    <3> HIDE DEF x, y
    <3>3. DaysBefore(x) \in Nat /\ DaysBefore(y) \in Nat /\ DaysBefore(x) < DaysBefore(y)
      BY <3>2, DaysGrow
    <3>4. due[k - 1] = DaysBefore(x) + date.day /\ due[k] = DaysBefore(y) + date.day
      BY <2>3, <3>1 DEF x, y
    <3> QED
      BY <2>1, <3>3, <3>4
  <2>7. due[n] = AddMonths(date, plan.tenure)
    BY <2>2, <2>3, <2>5 DEF AddMonths
  <2> QED
    BY <2>6, <2>7 DEF DueDatesIncrease, GeneratedRows, Generate, n, due
<1> QED
  BY <1>1, InputsStay, PTL
=============================================================================
