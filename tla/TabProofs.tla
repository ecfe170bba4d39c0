----------------------------- MODULE TabProofs -----------------------------
(***************************************************************************)
(* What a user of the web front end sees and is asked for: for any tokens,  *)
(* in whatever order the answers arrive.                                   *)
(***************************************************************************)
EXTENDS Tab, SequenceTheorems, TLAPS

-----------------------------------------------------------------------------
(* The tables of the client, the API and the pages, looked up.               *)
LEMMA CallGroups ==
  /\ \A f \in DOMAIN InvestorCalls  : Reached(f) = InvestorCalls[f]
  /\ \A f \in DOMAIN CatalogueCalls : Reached(f) = CatalogueCalls[f]
  /\ \A f \in DOMAIN MoneyCalls     : Reached(f) = MoneyCalls[f]
  /\ \A f \in DOMAIN ReportCalls    : Reached(f) = ReportCalls[f]
  /\ \A f \in DOMAIN AdminCalls     : Reached(f) = AdminCalls[f]
<1>1. \A f \in DOMAIN InvestorCalls : Reached(f) = InvestorCalls[f]
  BY DEF Reached, Calls, InvestorCalls, CatalogueCalls, MoneyCalls, ReportCalls, AdminCalls
<1>2. \A f \in DOMAIN CatalogueCalls : Reached(f) = CatalogueCalls[f]
  BY DEF Reached, Calls, InvestorCalls, CatalogueCalls, MoneyCalls, ReportCalls, AdminCalls
<1>3. \A f \in DOMAIN MoneyCalls : Reached(f) = MoneyCalls[f]
  BY DEF Reached, Calls, InvestorCalls, CatalogueCalls, MoneyCalls, ReportCalls, AdminCalls
<1>4. \A f \in DOMAIN ReportCalls : Reached(f) = ReportCalls[f]
  BY DEF Reached, Calls, InvestorCalls, CatalogueCalls, MoneyCalls, ReportCalls, AdminCalls
<1>5. \A f \in DOMAIN AdminCalls : Reached(f) = AdminCalls[f]
  BY DEF Reached, Calls, InvestorCalls, CatalogueCalls, MoneyCalls, ReportCalls, AdminCalls
<1> QED
  BY <1>1, <1>2, <1>3, <1>4, <1>5

LEMMA HookGroups ==
  /\ \A h \in DOMAIN InvestorHooks : Hooks[h] = InvestorHooks[h]
  /\ \A h \in DOMAIN AdminHooks    : Hooks[h] = AdminHooks[h]
  /\ \A h \in DOMAIN ReportHooks   : Hooks[h] = ReportHooks[h]
  /\ Hooks["useReconciliationItems"] = ReconciliationItemsHook["useReconciliationItems"]
  BY DEF Hooks, InvestorHooks, AdminHooks, ReportHooks, ReconciliationItemsHook

LEMMA HookCalls ==
  /\ Hooks["useMyInvestor"].call = "getMyInvestor"
  /\ Hooks["useInvestor"].call = "getInvestor"
  /\ Hooks["useWalletPosition"].call = "getWalletPosition"
  /\ Hooks["useWalletTransactions"].call = "getWalletTransactions"
  /\ Hooks["useOpportunities"].call = "listOpportunities"
  /\ Hooks["useOpportunity"].call = "getOpportunity"
  /\ Hooks["useInvestments"].call = "listInvestments"
  /\ Hooks["useInvestment"].call = "getInvestment"
  /\ Hooks["useWithdrawals"].call = "listWithdrawals"
  /\ Hooks["useDeposits"].call = "listDeposits"
  /\ Hooks["useRepayments"].call = "listRepayments"
  /\ Hooks["useInvestorsDirectory"].call = "listInvestors"
  /\ Hooks["useReconciliations"].call = "listReconciliations"
  /\ Hooks["useProducts"].call = "listProducts"
  /\ Hooks["useCompanies"].call = "listCompanies"
  /\ Hooks["useAccounts"].call = "listAccounts"
  /\ Hooks["useRoles"].call = "listRoles"
  /\ Hooks["useStaffUsers"].call = "listStaffUsers"
  /\ Hooks["useManagementReport"].call = "getManagementReport"
  /\ Hooks["useTrialBalance"].call = "getTrialBalance"
  /\ Hooks["useGeneralLedger"].call = "getGeneralLedger"
  /\ Hooks["useProfitAndLoss"].call = "getProfitAndLoss"
  /\ Hooks["useBalanceSheet"].call = "getBalanceSheet"
  /\ Hooks["useCashBook"].call = "getCashBook"
  /\ Hooks["useCashFlowStatement"].call = "getCashFlowStatement"
  /\ Hooks["useInvestorLiabilities"].call = "getInvestorLiabilities"
  /\ Hooks["useInvestorRoiReport"].call = "getInvestorRoiReport"
  /\ Hooks["useInvestmentReceivables"].call = "getInvestmentReceivables"
  /\ Hooks["useInvestorStatement"].call = "getInvestorStatement"
  /\ Hooks["useRoiStatement"].call = "getRoiStatement"
  /\ Hooks["useRepaymentStatement"].call = "getRepaymentStatement"
  /\ Hooks["useReconciliationItems"].call = "getReconciliationItems"
  BY HookGroups DEF InvestorHooks, AdminHooks, ReportHooks, ReconciliationItemsHook, Query

LEMMA ReadCalls ==
  /\ Reached("getMyInvestor") = InvestorRoutes.findMe
  /\ Reached("getInvestor") = InvestorRoutes.findOne
  /\ Reached("getWalletPosition") = WalletRoutes.getPosition
  /\ Reached("getWalletTransactions") = WalletRoutes.getTransactions
  /\ Reached("listOpportunities") = OpportunityRoutes.findAll
  /\ Reached("getOpportunity") = OpportunityRoutes.findOne
  /\ Reached("listInvestments") = InvestmentRoutes.findAll
  /\ Reached("getInvestment") = InvestmentRoutes.findOne
  /\ Reached("listWithdrawals") = WithdrawalRoutes.findAll
  /\ Reached("listDeposits") = DepositRoutes.findAll
  /\ Reached("listRepayments") = RepaymentRoutes.findAll
  /\ Reached("listInvestors") = InvestorRoutes.findAll
  /\ Reached("listReconciliations") = ReconciliationRoutes.findAll
  /\ Reached("listProducts") = ProductRoutes.findAll
  /\ Reached("listCompanies") = CompanyRoutes.findAll
  /\ Reached("listAccounts") = AccountRoutes.findAll
  /\ Reached("listRoles") = RoleRoutes.findAll
  /\ Reached("listStaffUsers") = UserRoutes.findAll
  /\ Reached("getManagementReport") = SummaryRoutes.management
  /\ Reached("getTrialBalance") = StatementRoutes.trialBalance
  /\ Reached("getGeneralLedger") = StatementRoutes.generalLedger
  /\ Reached("getProfitAndLoss") = StatementRoutes.profitAndLoss
  /\ Reached("getBalanceSheet") = StatementRoutes.balanceSheet
  /\ Reached("getCashBook") = StatementRoutes.cashBook
  /\ Reached("getCashFlowStatement") = StatementRoutes.cashFlowStatement
  /\ Reached("getInvestorLiabilities") = StatementRoutes.investorLiabilities
  /\ Reached("getInvestorRoiReport") = StatementRoutes.investorRoi
  /\ Reached("getInvestmentReceivables") = StatementRoutes.investmentReceivables
  /\ Reached("getInvestorStatement") = InvestorReportRoutes.statement
  /\ Reached("getRoiStatement") = InvestorReportRoutes.roiStatement
  /\ Reached("getRepaymentStatement") = InvestorReportRoutes.repaymentStatement
  /\ Reached("getReconciliationItems") = ReconciliationRoutes.findItems
  BY CallGroups DEF InvestorCalls, CatalogueCalls, MoneyCalls, ReportCalls, AdminCalls

LEMMA WriteCalls ==
  /\ Reached("invest") = InvestmentRoutes.invest
  /\ Reached("approveInvestor") = InvestorRoutes.approve
  /\ Reached("changePassword") = AuthRoutes.changePassword
  /\ Reached("createOpportunity") = OpportunityRoutes.create
  /\ Reached("createProduct") = ProductRoutes.create
  /\ Reached("createCompany") = CompanyRoutes.create
  /\ Reached("accrueRoi") = RepaymentRoutes.accrueRoi
  /\ Reached("recordRepayment") = RepaymentRoutes.recordRepayment
  /\ Reached("disburseRepayments") = RepaymentRoutes.disburse
  /\ Reached("requestDeposit") = DepositRoutes.request
  /\ Reached("approveDeposit") = DepositRoutes.approve
  /\ Reached("rejectDeposit") = DepositRoutes.reject
  /\ Reached("requestWithdrawal") = WithdrawalRoutes.request
  /\ Reached("approveWithdrawal") = WithdrawalRoutes.approve
  /\ Reached("completeWithdrawal") = WithdrawalRoutes.complete
  /\ Reached("rejectWithdrawal") = WithdrawalRoutes.reject
  /\ Reached("runReconciliation") = ReconciliationRoutes.run
  /\ Reached("markInvestmentDefaulted") = InvestmentRoutes.markDefaulted
  /\ Reached("createAccount") = AccountRoutes.create
  /\ Reached("updateAccount") = AccountRoutes.update
  /\ Reached("createRole") = RoleRoutes.create
  /\ Reached("updateRole") = RoleRoutes.update
  /\ Reached("updateRolePermissions") = RoleRoutes.updatePermissions
  /\ Reached("deleteRole") = RoleRoutes.remove
  /\ Reached("createStaffUser") = UserRoutes.create
  /\ Reached("updateStaffUser") = UserRoutes.update
  /\ Reached("deleteStaffUser") = UserRoutes.remove
  BY CallGroups DEF InvestorCalls, CatalogueCalls, MoneyCalls, ReportCalls, AdminCalls

LEMMA GroupDomains ==
  /\ DOMAIN InvestorPages =
       {"/dashboard", "/opportunities", "/opportunities/id",
        "/portfolio", "/portfolio/id", "/transactions", "/deposits",
        "/withdrawals", "/statements"}
  /\ DOMAIN StatementPages =
       {"/statements#wallet", "/statements#roi",
        "/statements#investment", "/statements#repayment",
        "/statements#withdrawal"}
  /\ DOMAIN ReportPages =
       {"/admin/reports", "/admin/reports/trial-balance",
        "/admin/reports/profit-and-loss",
        "/admin/reports/balance-sheet", "/admin/reports/cash-flow",
        "/admin/reports/cash-book",
        "/admin/reports/investor-liabilities",
        "/admin/reports/investor-roi",
        "/admin/reports/investment-receivables",
        "/admin/reports/general-ledger", "/admin/reports/management"}
  /\ DOMAIN CataloguePages =
       {"/admin/catalogue", "/admin/catalogue#products",
        "/admin/catalogue#companies"}
  /\ DOMAIN AdminPages =
       {"/admin/dashboard", "/admin/investors", "/admin/investors/id",
        "/admin/deposits", "/admin/withdrawals", "/admin/repayments",
        "/admin/reconciliation", "/admin/finance", "/admin/platform"}
  BY DEF InvestorPages, StatementPages, ReportPages, CataloguePages, AdminPages

LEMMA AllViews ==
  DOMAIN AllPages = DOMAIN InvestorPages \cup DOMAIN StatementPages \cup DOMAIN ReportPages
                      \cup DOMAIN CataloguePages \cup DOMAIN AdminPages \cup {AccountPage}
  BY DEF AllPages, InvestorViews, AdminViews

LEMMA PageGroups ==
  /\ \A p \in DOMAIN InvestorPages : AllPages[p] = InvestorPages[p]
  /\ \A p \in DOMAIN StatementPages : AllPages[p] = StatementPages[p]
  /\ \A p \in DOMAIN ReportPages : AllPages[p] = ReportPages[p]
  /\ \A p \in DOMAIN CataloguePages : AllPages[p] = CataloguePages[p]
  /\ \A p \in DOMAIN AdminPages : AllPages[p] = AdminPages[p]
  /\ AllPages[AccountPage] = Page({}, Nothing, ChangePasswordForm)
  BY GroupDomains DEF AllPages, InvestorViews, AdminViews, AccountPage

LEMMA InvestorPagesAre ==
  /\ AllPages["/dashboard"] = Page(Investors, Nothing, DashboardContent)
  /\ AllPages["/opportunities"] = Page(Investors, Nothing, OpportunitiesContent)
  /\ AllPages["/opportunities/id"] = Page(Investors, Nothing, OpportunityDetail)
  /\ AllPages["/portfolio"] = Page(Investors, Nothing, PortfolioContent)
  /\ AllPages["/portfolio/id"] = Page(Investors, Nothing, InvestmentDetail)
  /\ AllPages["/transactions"] = Page(Investors, Nothing, TransactionsContent)
  /\ AllPages["/deposits"] = Page(Investors, Nothing, DepositsContent)
  /\ AllPages["/withdrawals"] = Page(Investors, Nothing, WithdrawalsContent)
  /\ AllPages["/statements"] = Page(Investors, Nothing, StatementsContent("investor"))
  BY GroupDomains, PageGroups DEF InvestorPages

LEMMA StatementPagesAre ==
  /\ AllPages["/statements#wallet"] = Page(Investors, Nothing, StatementsContent("wallet"))
  /\ AllPages["/statements#roi"] = Page(Investors, Nothing, StatementsContent("roi"))
  /\ AllPages["/statements#investment"] =
       Page(Investors, Nothing,
         StatementsContent("investment"))
  /\ AllPages["/statements#repayment"] = Page(Investors, Nothing, StatementsContent("repayment"))
  /\ AllPages["/statements#withdrawal"] =
       Page(Investors, Nothing,
         StatementsContent("withdrawal"))
  BY GroupDomains, PageGroups DEF StatementPages

LEMMA ReportPagesAre ==
  /\ AllPages["/admin/reports"] = Page(Finance, "REPORTS:VIEW", {})
  /\ AllPages["/admin/reports/trial-balance"] =
       Page(Finance, "REPORTS:VIEW",
         View({"useTrialBalance"}))
  /\ AllPages["/admin/reports/profit-and-loss"] =
       Page(Finance, "REPORTS:VIEW",
         View({"useProfitAndLoss"}))
  /\ AllPages["/admin/reports/balance-sheet"] =
       Page(Finance, "REPORTS:VIEW",
         View({"useBalanceSheet"}))
  /\ AllPages["/admin/reports/cash-flow"] =
       Page(Finance, "REPORTS:VIEW",
         View({"useCashFlowStatement"}))
  /\ AllPages["/admin/reports/cash-book"] = Page(Finance, "REPORTS:VIEW", View({"useCashBook"}))
  /\ AllPages["/admin/reports/investor-liabilities"] =
       Page(Finance, "REPORTS:VIEW",
         View({"useInvestorLiabilities"}))
  /\ AllPages["/admin/reports/investor-roi"] =
       Page(Finance, "REPORTS:VIEW",
         View({"useInvestorRoiReport"}))
  /\ AllPages["/admin/reports/investment-receivables"] =
       Page(Finance, "REPORTS:VIEW",
         View({"useInvestmentReceivables"}))
  /\ AllPages["/admin/reports/general-ledger"] =
       Page(Finance, "REPORTS:VIEW",
         View({"useAccounts", "useGeneralLedger"}))
  /\ AllPages["/admin/reports/management"] =
       Page(Finance, "REPORTS:VIEW", ManagementReport
         \cup MarkDefaultedForm)
  BY GroupDomains, PageGroups DEF ReportPages

LEMMA CataloguePagesAre ==
  /\ AllPages["/admin/catalogue"] = Page(Management, Nothing, OpportunitiesTab)
  /\ AllPages["/admin/catalogue#products"] = Page(Management, Nothing, ProductsTab)
  /\ AllPages["/admin/catalogue#companies"] = Page(Management, Nothing, CompaniesTab)
  BY GroupDomains, PageGroups DEF CataloguePages

LEMMA AdminPagesAre ==
  /\ AllPages["/admin/dashboard"] = Page(Finance, Nothing, AdminDashboard)
  /\ AllPages["/admin/investors"] = Page(Directory, "INVESTORS:VIEW", InvestorsDirectory)
  /\ AllPages["/admin/investors/id"] = Page(Directory, "INVESTORS:VIEW", InvestorDetail)
  /\ AllPages["/admin/deposits"] = Page(Finance, "DEPOSITS:VIEW", DepositsQueue)
  /\ AllPages["/admin/withdrawals"] =
       Page({"APPROVER"} \cup Finance, "WITHDRAWALS:VIEW",
         WithdrawalsQueue)
  /\ AllPages["/admin/repayments"] =
       Page(Finance, "REPAYMENTS:VIEW", RecordRepaymentForm
         \cup DisbursementQueue)
  /\ AllPages["/admin/reconciliation"] =
       Page(Finance, "RECONCILIATION:VIEW",
         ReconciliationContent)
  /\ AllPages["/admin/finance"] =
       Page(Finance, Nothing, ChartOfAccountsTable \cup
         CreateGlAccountForm \cup CreateSubLedgerForm \cup
         AccountRow)
  /\ AllPages["/admin/platform"] =
       Page({"ADMIN", "SUPER_ADMIN"}, Nothing, CategoriesTable
         \cup CreateCategoryForm \cup CategoryRow \cup
         StaffDirectory \cup CreateStaffUserForm \cup StaffRow)
  BY GroupDomains, PageGroups DEF AdminPages

-----------------------------------------------------------------------------
(* The keys react-query compares: a list of keys begins another.             *)
LEMMA PrefixOf ==
  ASSUME NEW S, NEW s \in Seq(S), NEW t \in Seq(S), Len(s) > 0, Len(s) <= Len(t),
         \A i \in 1 .. Len(s) : s[i] = t[i]
  PROVE  IsPrefix(s, t)
<1> DEFINE u == SubSeq(s, 1, Len(s))
           v == SubSeq(t, 1, Len(s))
           n == Len(s)
<1>1. /\ n \in Nat /\ Len(t) \in Nat /\ n > 0 /\ n <= Len(t)
      /\ 1 \in 1 .. n + 1 /\ n \in 0 .. n /\ 1 \in 1 .. Len(t) + 1 /\ n \in 0 .. Len(t)
  OBVIOUS
<1>2. u \in Seq(S) /\ Len(u) = n /\ \A i \in 1 .. n : u[i] = s[i]
  <2>1. /\ u \in Seq(S)
        /\ Len(u) = IF 1 <= n THEN n - 1 + 1 ELSE 0
        /\ \A i \in 1 .. n - 1 + 1 : u[i] = s[1 + i - 1]
    BY <1>1, SubSeqProperties
  <2> HIDE DEF u
  <2> QED
    BY <1>1, <2>1
<1>3. v \in Seq(S) /\ Len(v) = n /\ \A i \in 1 .. n : v[i] = t[i]
  <2>1. /\ v \in Seq(S)
        /\ Len(v) = IF 1 <= n THEN n - 1 + 1 ELSE 0
        /\ \A i \in 1 .. n - 1 + 1 : v[i] = t[1 + i - 1]
    BY <1>1, SubSeqProperties
  <2> HIDE DEF v
  <2> QED
    BY <1>1, <2>1
<1> HIDE DEF u, v
<1>4. u = v
  BY <1>2, <1>3, SeqEqual
<1> QED
  BY <1>1, <1>4 DEF IsPrefix, u, v

LEMMA Keys ==
  ASSUME NEW S, NEW a \in S, NEW b \in S, NEW c \in S
  PROVE  IsPrefix(<<a>>, <<a>>) /\ IsPrefix(<<a>>, <<a, b>>) /\ IsPrefix(<<a>>, <<a, b, c>>)
         /\ IsPrefix(<<a, b>>, <<a, b>>)
<1> DEFINE k1 == <<a>>
           k2 == <<a, b>>
           k3 == <<a, b, c>>
<1>1. /\ k1 \in Seq(S) /\ Len(k1) = 1 /\ k1[1] = a
  OBVIOUS
<1>2. /\ k2 \in Seq(S) /\ Len(k2) = 2 /\ k2[1] = a /\ k2[2] = b
  OBVIOUS
<1>3. /\ k3 \in Seq(S) /\ Len(k3) = 3 /\ k3[1] = a /\ k3[2] = b
  OBVIOUS
<1> SUFFICES IsPrefix(k1, k1) /\ IsPrefix(k1, k2) /\ IsPrefix(k1, k3) /\ IsPrefix(k2, k2)
  OBVIOUS
<1> HIDE DEF k1, k2, k3
<1>4. \A i \in 1 .. Len(k1) : i = 1
  BY <1>1
<1>5. IsPrefix(k1, k1)
  <2>1. Len(k1) > 0 /\ Len(k1) <= Len(k1) /\ \A i \in 1 .. Len(k1) : k1[i] = k1[i]
    BY <1>1
  <2> QED
    BY <1>1, <2>1, PrefixOf
<1>6. IsPrefix(k1, k2)
  BY <1>1, <1>2, <1>4, PrefixOf
<1>7. IsPrefix(k1, k3)
  <2>1. Len(k1) > 0 /\ Len(k1) <= Len(k3) /\ \A i \in 1 .. Len(k1) : k1[i] = k3[i]
    BY <1>1, <1>3, <1>4
  <2> QED
    BY <1>1, <1>3, <2>1, PrefixOf
<1>8. IsPrefix(k2, k2)
  <2>1. Len(k2) > 0 /\ Len(k2) <= Len(k2) /\ \A i \in 1 .. Len(k2) : k2[i] = k2[i]
    BY <1>2
  <2> QED
    BY <1>2, <2>1, PrefixOf
<1> QED
  BY <1>5, <1>6, <1>7, <1>8

LEMMA HookKeys ==
  /\ Hooks["useInvestor"].key = <<"investors", "id">>
  /\ Hooks["useWalletPosition"].key = <<"wallet", "position", "id">>
  /\ Hooks["useOpportunities"].key = <<"opportunities">>
  /\ Hooks["useInvestments"].key = <<"investments", "id">>
  /\ Hooks["useWithdrawals"].key = <<"withdrawals", "filters">>
  /\ Hooks["useDeposits"].key = <<"deposits", "filters">>
  /\ Hooks["useRepayments"].key = <<"repayments", "filters">>
  /\ Hooks["useReconciliations"].key = <<"reconciliation">>
  /\ Hooks["useReconciliationItems"].key = <<"reconciliation", "id", "items">>
  /\ Hooks["useProducts"].key = <<"products">>
  /\ Hooks["useCompanies"].key = <<"companies">>
  /\ Hooks["useAccounts"].key = <<"accounts">>
  /\ Hooks["useRoles"].key = <<"roles">>
  /\ Hooks["useStaffUsers"].key = <<"users", "staff">>
  /\ Hooks["useManagementReport"].key = <<"reports", "management">>
  BY HookGroups DEF InvestorHooks, AdminHooks, ReconciliationItemsHook, Query

\* The key under which a page asks each of these again.
LEMMA KeysBegin ==
  /\ IsPrefix(<<"investors">>, Hooks["useInvestor"].key)
  /\ IsPrefix(<<"wallet">>, Hooks["useWalletPosition"].key)
  /\ IsPrefix(<<"opportunities">>, Hooks["useOpportunities"].key)
  /\ IsPrefix(<<"investments">>, Hooks["useInvestments"].key)
  /\ IsPrefix(<<"withdrawals">>, Hooks["useWithdrawals"].key)
  /\ IsPrefix(<<"deposits">>, Hooks["useDeposits"].key)
  /\ IsPrefix(<<"repayments">>, Hooks["useRepayments"].key)
  /\ IsPrefix(<<"reconciliation">>, Hooks["useReconciliations"].key)
  /\ IsPrefix(<<"reconciliation">>, Hooks["useReconciliationItems"].key)
  /\ IsPrefix(<<"products">>, Hooks["useProducts"].key)
  /\ IsPrefix(<<"companies">>, Hooks["useCompanies"].key)
  /\ IsPrefix(<<"accounts">>, Hooks["useAccounts"].key)
  /\ IsPrefix(<<"roles">>, Hooks["useRoles"].key)
  /\ IsPrefix(<<"users", "staff">>, Hooks["useStaffUsers"].key)
  /\ IsPrefix(<<"reports", "management">>, Hooks["useManagementReport"].key)
<1>1. ASSUME NEW a, NEW b, NEW c
      PROVE  IsPrefix(<<a>>, <<a>>) /\ IsPrefix(<<a>>, <<a, b>>)
             /\ IsPrefix(<<a>>, <<a, b, c>>) /\ IsPrefix(<<a, b>>, <<a, b>>)
  <2> DEFINE S == {a, b, c}
  <2>1. a \in S /\ b \in S /\ c \in S
    OBVIOUS
  <2> HIDE DEF S
  <2> QED
    BY <2>1, Keys
<1>2. /\ IsPrefix(<<"investors">>, Hooks["useInvestor"].key)
      /\ IsPrefix(<<"investments">>, Hooks["useInvestments"].key)
      /\ IsPrefix(<<"withdrawals">>, Hooks["useWithdrawals"].key)
      /\ IsPrefix(<<"deposits">>, Hooks["useDeposits"].key)
      /\ IsPrefix(<<"repayments">>, Hooks["useRepayments"].key)
  BY <1>1, HookKeys
<1>3. /\ IsPrefix(<<"opportunities">>, Hooks["useOpportunities"].key)
      /\ IsPrefix(<<"reconciliation">>, Hooks["useReconciliations"].key)
      /\ IsPrefix(<<"products">>, Hooks["useProducts"].key)
      /\ IsPrefix(<<"companies">>, Hooks["useCompanies"].key)
      /\ IsPrefix(<<"accounts">>, Hooks["useAccounts"].key)
      /\ IsPrefix(<<"roles">>, Hooks["useRoles"].key)
  BY <1>1, HookKeys
<1>4. /\ IsPrefix(<<"wallet">>, Hooks["useWalletPosition"].key)
      /\ IsPrefix(<<"reconciliation">>, Hooks["useReconciliationItems"].key)
  BY <1>1, HookKeys
<1>5. /\ IsPrefix(<<"users", "staff">>, Hooks["useStaffUsers"].key)
      /\ IsPrefix(<<"reports", "management">>, Hooks["useManagementReport"].key)
  BY <1>1, HookKeys
<1> QED
  BY <1>2, <1>3, <1>4, <1>5

LEMMA WhatIsRead ==
  /\ Reads("useMyInvestor") = {"investors"} /\ Reads("useInvestor") = {"investors"}
  /\ Reads("useWalletPosition") = {"transactions", "investments", "schedules"}
  /\ Reads("useOpportunities") = {"opportunities"}
  /\ Reads("useInvestments") = {"investments", "schedules", "opportunities"}
  /\ Reads("useWithdrawals") = {"withdrawals", "investors"}
  /\ Reads("useDeposits") = {"deposits", "investors"}
  /\ Reads("useRepayments") = {"repayments", "investments", "investors"}
  /\ Reads("useProducts") = {"products"} /\ Reads("useCompanies") = {"companies"}
  /\ Reads("useAccounts") = {"accounts"} /\ Reads("useRoles") = {"roles"}
  /\ Reads("useStaffUsers") = {"users", "holders"}
  /\ Reads("useInvestorStatement") = {"transactions"}
  BY HookCalls, ReadCalls DEF Reads, InvestorRoutes, WalletRoutes, OpportunityRoutes,
     ProductRoutes, CompanyRoutes, InvestmentRoutes, RepaymentRoutes, DepositRoutes,
     WithdrawalRoutes, AccountRoutes, RoleRoutes, UserRoutes, InvestorReportRoutes,
     AnyToken, Read, Route

LEMMA WhatIsWritten ==
  /\ Reached("approveInvestor").writes = {"investors"}
  /\ Reached("createOpportunity").writes = {"opportunities"}
  /\ Reached("createProduct").writes = {"products"}
  /\ Reached("createCompany").writes = {"companies"}
  /\ Reached("accrueRoi").writes = {"schedules", "journal"}
  /\ Reached("recordRepayment").writes = {"repayments", "schedules", "investments", "journal"}
  /\ Reached("disburseRepayments").writes = {"repayments", "transactions", "journal"}
  /\ Reached("requestDeposit").writes = {"deposits"}
  /\ Reached("requestWithdrawal").writes = {"withdrawals", "transactions"}
  /\ Reached("createRole").writes = {"roles"} /\ Reached("deleteRole").writes = {"roles"}
  /\ Reached("updateRole").writes = {"roles", "holders"}
  /\ Reached("updateRolePermissions").writes = {"roles"}
  /\ Reached("createStaffUser").writes = {"users"}
  /\ Reached("updateStaffUser").writes = {"users"}
  /\ Reached("deleteStaffUser").writes = {"users"}
  BY WriteCalls DEF InvestorRoutes, OpportunityRoutes, ProductRoutes, CompanyRoutes,
     RepaymentRoutes, DepositRoutes, WithdrawalRoutes, RoleRoutes, UserRoutes, Write, Route
-----------------------------------------------------------------------------
\* What a page may mount and offer, to any token; the views one of which a tab
\* shows in place of another without a move.
Queries(p) == UNION {x.queries : x \in AllPages[p].panels}
Offers(p)  == UNION {x.offers : x \in AllPages[p].panels}
Beside(p)  == {p} \cup UNION {tabs \in Tabs : p \in tabs}

\* What a write still to be served changes, the query does not read, but for the
\* names of categories, or the write has it asked again.
RefreshedBy(w, h) ==
  \/ \A i \in DOMAIN w.calls : Reads(h) \cap Reached(w.calls[i]).writes \subseteq {"holders"}
  \/ Under(w.keys, h)

LEMMA PanelsAre ==
  /\ AllPages["/deposits"].panels = DepositsContent
  /\ AllPages["/withdrawals"].panels = WithdrawalsContent
  /\ AllPages["/opportunities/id"].panels = OpportunityDetail
  /\ AllPages["/admin/deposits"].panels = DepositsQueue
  /\ AllPages["/admin/withdrawals"].panels = WithdrawalsQueue
  /\ AllPages["/admin/repayments"].panels = RecordRepaymentForm \cup DisbursementQueue
  /\ AllPages["/admin/reconciliation"].panels = ReconciliationContent
  /\ AllPages["/admin/investors/id"].panels = InvestorDetail
  /\ AllPages["/admin/finance"].panels =
       ChartOfAccountsTable \cup CreateGlAccountForm \cup CreateSubLedgerForm
          \cup AccountRow
  /\ AllPages["/admin/reports/management"].panels = ManagementReport \cup MarkDefaultedForm
  /\ AllPages["/admin/platform"].panels =
       CategoriesTable \cup CreateCategoryForm \cup CategoryRow
          \cup StaffDirectory \cup CreateStaffUserForm \cup StaffRow
  /\ AllPages["/admin/catalogue"].panels = OpportunitiesTab
  /\ AllPages["/admin/catalogue#products"].panels = ProductsTab
  /\ AllPages["/admin/catalogue#companies"].panels = CompaniesTab
  /\ AllPages["/account/change-password"].panels = ChangePasswordForm
  BY InvestorPagesAre, ReportPagesAre, CataloguePagesAre, AdminPagesAre, PageGroups
     DEF Page, AccountPage

LEMMA InvestorQueries ==
  /\ Queries("/deposits") = {"useMyInvestor", "useWalletPosition", "useDeposits"}
  /\ Queries("/withdrawals") = {"useMyInvestor", "useWalletPosition", "useWithdrawals"}
  /\ Queries("/opportunities/id") = {"useOpportunity", "useMyInvestor", "useWalletPosition"}
  BY PanelsAre
     DEF Queries, DepositsContent, WithdrawalsContent, OpportunityDetail, Panel, View

LEMMA QueueQueries ==
  /\ Queries("/admin/deposits") = {"useDeposits"}
  /\ Queries("/admin/withdrawals") = {"useWithdrawals"}
  /\ Queries("/admin/repayments") = {"useInvestments", "useRepayments"}
  /\ Queries("/admin/reconciliation") = {"useReconciliations", "useReconciliationItems"}
  BY PanelsAre
     DEF Queries, DepositsQueue, WithdrawalsQueue, RecordRepaymentForm,
         DisbursementQueue, ReconciliationContent, Panel, View

LEMMA StaffQueries ==
  /\ Queries("/admin/investors/id") = {"useInvestor", "useWalletPosition", "useInvestorStatement"}
  /\ Queries("/admin/finance") = {"useAccounts"}
  /\ Queries("/admin/reports/management") = {"useManagementReport", "useInvestments"}
  /\ Queries("/admin/platform") = {"useRoles", "useStaffUsers"}
  BY PanelsAre
     DEF Queries, InvestorDetail, StatementTab, ChartOfAccountsTable,
         CreateGlAccountForm, CreateSubLedgerForm, AccountRow, ManagementReport,
         MarkDefaultedForm, CategoriesTable, CreateCategoryForm, CategoryRow,
         StaffDirectory, CreateStaffUserForm, StaffRow, Panel, View

LEMMA OtherQueries ==
  /\ Queries("/admin/catalogue") = {"useOpportunities", "useProducts", "useCompanies"}
  /\ Queries("/admin/catalogue#products") = {"useProducts"}
  /\ Queries("/admin/catalogue#companies") = {"useCompanies"}
  /\ Queries("/account/change-password") = {}
  BY PanelsAre
     DEF Queries, OpportunitiesTab, ProductsTab, CompaniesTab, ChangePasswordForm, Panel,
         View

LEMMA InvestorOffers ==
  /\ Offers("/deposits") =
       {Mutation(<<"requestDeposit">>, {<<"deposits">>})}
  /\ Offers("/withdrawals") =
       {Mutation(<<"requestWithdrawal">>, {<<"withdrawals">>, <<"wallet">>})}
  /\ Offers("/opportunities/id") =
       {Mutation(<<"invest">>, {<<"wallet">>, <<"investments">>})}
  BY PanelsAre
     DEF Offers, DepositsContent, WithdrawalsContent, OpportunityDetail, Panel, View

LEMMA QueueOffers ==
  /\ Offers("/admin/deposits") =
       {Mutation(<<"approveDeposit">>, {<<"deposits">>, <<"wallet">>, <<"reports">>}),
        Mutation(<<"rejectDeposit">>, {<<"deposits">>, <<"wallet">>, <<"reports">>})}
  /\ Offers("/admin/withdrawals") =
       {Mutation(<<"approveWithdrawal">>, {<<"withdrawals">>, <<"wallet">>, <<"reports">>}),
        Mutation(<<"completeWithdrawal">>, {<<"withdrawals">>, <<"wallet">>, <<"reports">>}),
        Mutation(<<"rejectWithdrawal">>, {<<"withdrawals">>, <<"wallet">>, <<"reports">>})}
  /\ Offers("/admin/repayments") =
       {Mutation(<<"accrueRoi">>, {<<"investments">>}),
        Mutation(<<"recordRepayment">>, {<<"repayments">>, <<"investments">>}),
        Mutation(<<"disburseRepayments">>, {<<"repayments">>, <<"wallet">>, <<"reports">>})}
  /\ Offers("/admin/reconciliation") =
       {Mutation(<<"runReconciliation">>, {<<"reconciliation">>})}
  BY PanelsAre
     DEF Offers, DepositsQueue, WithdrawalsQueue, RecordRepaymentForm, DisbursementQueue,
         ReconciliationContent, Panel, View

LEMMA StaffOffers ==
  /\ Offers("/admin/investors/id") =
       {Mutation(<<"approveInvestor">>, {<<"investors">>})}
  /\ Offers("/admin/finance") =
       {Mutation(<<"createAccount">>, {<<"accounts">>}),
        Mutation(<<"updateAccount">>, {<<"accounts">>})}
  /\ Offers("/admin/reports/management") =
       {Mutation(<<"markInvestmentDefaulted">>, {<<"reports", "management">>, <<"investments">>})}
  BY PanelsAre
     DEF Offers, InvestorDetail, StatementTab, ChartOfAccountsTable, CreateGlAccountForm,
         CreateSubLedgerForm, AccountRow, ManagementReport, MarkDefaultedForm, Panel,
         View

LEMMA PlatformOffers ==
  /\ Offers("/admin/platform") =
       {Mutation(<<"createRole">>, {<<"roles">>}),
        Mutation(<<"deleteRole">>, {<<"roles">>}),
        Mutation(<<"updateRole", "updateRolePermissions">>, {<<"roles">>}),
        Mutation(<<"createStaffUser">>, {<<"users", "staff">>}),
        Mutation(<<"updateStaffUser">>, {<<"users", "staff">>}),
        Mutation(<<"deleteStaffUser">>, {<<"users", "staff">>})}
  BY PanelsAre
     DEF Offers, CategoriesTable, CreateCategoryForm, CategoryRow, StaffDirectory,
         CreateStaffUserForm, StaffRow, Panel, View

LEMMA OtherOffers ==
  /\ Offers("/admin/catalogue") =
       {Mutation(<<"createOpportunity">>, {<<"opportunities">>})}
  /\ Offers("/admin/catalogue#products") =
       {Mutation(<<"createProduct">>, {<<"products">>})}
  /\ Offers("/admin/catalogue#companies") =
       {Mutation(<<"createCompany">>, {<<"companies">>})}
  /\ Offers("/account/change-password") =
       {Mutation(<<"changePassword">>, {})}
  BY PanelsAre
     DEF Offers, OpportunitiesTab, ProductsTab, CompaniesTab, ChangePasswordForm, Panel,
         View

Offering ==
  {"/deposits", "/withdrawals", "/opportunities/id", "/admin/deposits", "/admin/withdrawals",
   "/admin/repayments", "/admin/reconciliation", "/admin/investors/id", "/admin/finance",
   "/admin/reports/management", "/admin/platform", "/account/change-password"} \cup DOMAIN CataloguePages

LEMMA OnlyViewed == \A p \in DOMAIN AllPages \ Offering : Offers(p) = {}
<1>1. ASSUME NEW p, NEW Q, AllPages[p].panels = View(Q) PROVE Offers(p) = {}
  BY <1>1 DEF Offers, View, Panel
<1>2. \A p \in DOMAIN InvestorPages \ Offering : Offers(p) = {}
  <2>1. \A p \in DOMAIN InvestorPages \ Offering : \E Q : AllPages[p].panels = View(Q)
    BY GroupDomains, InvestorPagesAre
       DEF Offering, Page, DashboardContent, OpportunitiesContent, PortfolioContent,
           InvestmentDetail, TransactionsContent, StatementsContent
  <2> QED
    BY <1>1, <2>1
<1>3. \A p \in DOMAIN StatementPages : Offers(p) = {}
  <2>1. \A p \in DOMAIN StatementPages : \E Q : AllPages[p].panels = View(Q)
    BY GroupDomains, StatementPagesAre DEF Page, StatementsContent
  <2> QED
    BY <1>1, <2>1
<1>4. \A p \in DOMAIN ReportPages \ Offering : Offers(p) = {}
  <2>1. Offers("/admin/reports") = {}
    BY ReportPagesAre DEF Offers, Page
  <2>2. \A p \in DOMAIN ReportPages \ (Offering \cup {"/admin/reports"}) :
          \E Q : AllPages[p].panels = View(Q)
    BY GroupDomains, ReportPagesAre DEF Offering, Page
  <2> QED
    BY <1>1, <2>1, <2>2
<1>5. \A p \in DOMAIN AdminPages \ Offering : Offers(p) = {}
  <2>1. \A p \in DOMAIN AdminPages \ Offering : \E Q : AllPages[p].panels = View(Q)
    BY GroupDomains, AdminPagesAre DEF Offering, Page, AdminDashboard, InvestorsDirectory
  <2> QED
    BY <1>1, <2>1
<1> QED
  BY <1>2, <1>3, <1>4, <1>5, AllViews DEF Offering, AccountPage
(* What a page's write leaves as the page read it.                           *)
LEMMA Untouched ==
  LET untouched(h, f) == Reads(h) \cap Reached(f).writes \subseteq {"holders"} IN
  /\ untouched("useMyInvestor", "requestDeposit")
  /\ untouched("useWalletPosition", "requestDeposit")
  /\ untouched("useMyInvestor", "requestWithdrawal")
  /\ untouched("useRepayments", "accrueRoi")
  /\ untouched("useInvestments", "disburseRepayments")
  /\ untouched("useWalletPosition", "approveInvestor")
  /\ untouched("useInvestorStatement", "approveInvestor")
  /\ untouched("useStaffUsers", "createRole")
  /\ untouched("useStaffUsers", "deleteRole")
  /\ untouched("useStaffUsers", "updateRole")
  /\ untouched("useStaffUsers", "updateRolePermissions")
  /\ untouched("useRoles", "createStaffUser")
  /\ untouched("useRoles", "updateStaffUser")
  /\ untouched("useRoles", "deleteStaffUser")
  /\ untouched("useProducts", "createOpportunity")
  /\ untouched("useCompanies", "createOpportunity")
  /\ untouched("useOpportunities", "createProduct")
  /\ untouched("useCompanies", "createProduct")
  /\ untouched("useOpportunities", "createCompany")
  /\ untouched("useProducts", "createCompany")
  BY WhatIsRead, WhatIsWritten

LEMMA AskedAgain ==
  ASSUME NEW keys
  PROVE  /\ <<"investors">> \in keys => Under(keys, "useInvestor")
         /\ <<"wallet">> \in keys => Under(keys, "useWalletPosition")
         /\ <<"opportunities">> \in keys => Under(keys, "useOpportunities")
         /\ <<"investments">> \in keys => Under(keys, "useInvestments")
         /\ <<"withdrawals">> \in keys => Under(keys, "useWithdrawals")
         /\ <<"deposits">> \in keys => Under(keys, "useDeposits")
         /\ <<"repayments">> \in keys => Under(keys, "useRepayments")
         /\ <<"reconciliation">> \in keys => Under(keys, "useReconciliations")
         /\ <<"reconciliation">> \in keys => Under(keys, "useReconciliationItems")
         /\ <<"products">> \in keys => Under(keys, "useProducts")
         /\ <<"companies">> \in keys => Under(keys, "useCompanies")
         /\ <<"accounts">> \in keys => Under(keys, "useAccounts")
         /\ <<"roles">> \in keys => Under(keys, "useRoles")
         /\ <<"users", "staff">> \in keys => Under(keys, "useStaffUsers")
         /\ <<"reports", "management">> \in keys => Under(keys, "useManagementReport")
  BY KeysBegin DEF Under

LEMMA NamesOfWrites ==
  {"requestDeposit", "requestWithdrawal", "invest", "approveDeposit", "rejectDeposit",
   "approveWithdrawal", "completeWithdrawal", "rejectWithdrawal", "accrueRoi", "recordRepayment",
   "disburseRepayments", "runReconciliation", "approveInvestor", "createAccount",
   "updateAccount", "markInvestmentDefaulted", "createRole", "deleteRole", "updateRole",
   "updateRolePermissions", "createStaffUser", "updateStaffUser", "deleteStaffUser",
   "createOpportunity", "createProduct", "createCompany", "changePassword"} \subseteq DOMAIN Calls
  BY DEF Calls, InvestorCalls, CatalogueCalls, MoneyCalls, ReportCalls, AdminCalls

Callable(m) == m.calls \in Seq(DOMAIN Calls) /\ Len(m.calls) > 0

LEMMA CallOne ==
  ASSUME NEW f \in DOMAIN Calls, NEW keys
  PROVE  Callable(Mutation(<<f>>, keys))
<1>1. <<f>> \in Seq(DOMAIN Calls) /\ Len(<<f>>) = 1
  OBVIOUS
<1> QED
  BY <1>1 DEF Mutation, Callable

LEMMA CallTwo ==
  ASSUME NEW f \in DOMAIN Calls, NEW g \in DOMAIN Calls, NEW keys
  PROVE  Callable(Mutation(<<f, g>>, keys))
<1>1. <<f, g>> \in Seq(DOMAIN Calls) /\ Len(<<f, g>>) = 2
  OBVIOUS
<1> QED
  BY <1>1 DEF Mutation, Callable

LEMMA WritesHaveCalls == \A p \in DOMAIN AllPages : \A m \in Offers(p) : Callable(m)
<1>1. \A m \in Offers("/deposits") : Callable(m)
  BY CallOne, InvestorOffers, NamesOfWrites
<1>2. \A m \in Offers("/withdrawals") : Callable(m)
  BY CallOne, InvestorOffers, NamesOfWrites
<1>3. \A m \in Offers("/opportunities/id") : Callable(m)
  BY CallOne, InvestorOffers, NamesOfWrites
<1>4. \A m \in Offers("/admin/deposits") : Callable(m)
  BY CallOne, QueueOffers, NamesOfWrites
<1>5. \A m \in Offers("/admin/withdrawals") : Callable(m)
  BY CallOne, QueueOffers, NamesOfWrites
<1>6. \A m \in Offers("/admin/repayments") : Callable(m)
  BY CallOne, QueueOffers, NamesOfWrites
<1>7. \A m \in Offers("/admin/reconciliation") : Callable(m)
  BY CallOne, QueueOffers, NamesOfWrites
<1>8. \A m \in Offers("/admin/investors/id") : Callable(m)
  BY CallOne, StaffOffers, NamesOfWrites
<1>9. \A m \in Offers("/admin/finance") : Callable(m)
  BY CallOne, StaffOffers, NamesOfWrites
<1>10. \A m \in Offers("/admin/reports/management") : Callable(m)
  BY CallOne, StaffOffers, NamesOfWrites
<1>11. \A m \in Offers("/admin/platform") : Callable(m)
  BY CallOne, PlatformOffers, NamesOfWrites, CallTwo
<1>12. \A m \in Offers("/admin/catalogue") : Callable(m)
  BY CallOne, OtherOffers, NamesOfWrites
<1>13. \A m \in Offers("/admin/catalogue#products") : Callable(m)
  BY CallOne, OtherOffers, NamesOfWrites
<1>14. \A m \in Offers("/admin/catalogue#companies") : Callable(m)
  BY CallOne, OtherOffers, NamesOfWrites
<1>15. \A m \in Offers("/account/change-password") : Callable(m)
  BY CallOne, OtherOffers, NamesOfWrites
<1> QED
  BY <1>1, <1>2, <1>3, <1>4, <1>5, <1>6, <1>7, <1>8, <1>9, <1>10, <1>11,
     <1>12, <1>13, <1>14, <1>15, OnlyViewed, GroupDomains DEF Offering

LEMMA OneCall ==
  ASSUME NEW h, NEW keys, NEW f,
         Under(keys, h) \/ Reads(h) \cap Reached(f).writes \subseteq {"holders"}
  PROVE  RefreshedBy(Mutation(<<f>>, keys), h)
<1>1. \A i \in DOMAIN <<f>> : <<f>>[i] = f
  OBVIOUS
<1>2. Mutation(<<f>>, keys).calls = <<f>> /\ Mutation(<<f>>, keys).keys = keys
  BY DEF Mutation
<1> QED
  BY <1>1, <1>2 DEF RefreshedBy

LEMMA TwoCalls ==
  ASSUME NEW h, NEW keys, NEW f, NEW g,
         \/ Under(keys, h)
         \/ /\ Reads(h) \cap Reached(f).writes \subseteq {"holders"}
            /\ Reads(h) \cap Reached(g).writes \subseteq {"holders"}
  PROVE  RefreshedBy(Mutation(<<f, g>>, keys), h)
<1>1. \A i \in DOMAIN <<f, g>> : <<f, g>>[i] = f \/ <<f, g>>[i] = g
  OBVIOUS
<1>2. Mutation(<<f, g>>, keys).calls = <<f, g>> /\ Mutation(<<f, g>>, keys).keys = keys
  BY DEF Mutation
<1> QED
  BY <1>1, <1>2 DEF RefreshedBy

LEMMA PagesRefresh ==
  \A p \in DOMAIN AllPages : \A q \in Beside(p) : \A m \in Offers(p), h \in Queries(q) :
    m.calls = <<"invest">> \/ RefreshedBy(m, h)
<1>1. \A m \in Offers("/deposits"), h \in Queries("/deposits") : RefreshedBy(m, h)
  <2>1. \A h \in {"useMyInvestor", "useWalletPosition", "useDeposits"} :
         RefreshedBy(Mutation(<<"requestDeposit">>, {<<"deposits">>}), h)
    BY AskedAgain, Untouched, OneCall
  <2> QED
    BY <2>1, InvestorQueries, InvestorOffers
<1>2. \A m \in Offers("/withdrawals"), h \in Queries("/withdrawals") : RefreshedBy(m, h)
  <2>1. \A h \in {"useMyInvestor", "useWalletPosition", "useWithdrawals"} :
         RefreshedBy(Mutation(<<"requestWithdrawal">>, {<<"withdrawals">>, <<"wallet">>}), h)
    BY AskedAgain, Untouched, OneCall
  <2> QED
    BY <2>1, InvestorQueries, InvestorOffers
<1>3. \A m \in Offers("/admin/deposits"), h \in Queries("/admin/deposits") : RefreshedBy(m, h)
  <2>1. \A h \in {"useDeposits"} :
         RefreshedBy(Mutation(<<"approveDeposit">>, {<<"deposits">>, <<"wallet">>, <<"reports">>}), h)
    BY AskedAgain, OneCall
  <2>2. \A h \in {"useDeposits"} :
         RefreshedBy(Mutation(<<"rejectDeposit">>, {<<"deposits">>, <<"wallet">>, <<"reports">>}), h)
    BY AskedAgain, OneCall
  <2> QED
    BY <2>1, <2>2, QueueQueries, QueueOffers
<1>4. \A m \in Offers("/admin/withdrawals"), h \in Queries("/admin/withdrawals") : RefreshedBy(m, h)
  <2>1. \A h \in {"useWithdrawals"} :
         RefreshedBy(Mutation(<<"approveWithdrawal">>, {<<"withdrawals">>, <<"wallet">>, <<"reports">>}), h)
    BY AskedAgain, OneCall
  <2>2. \A h \in {"useWithdrawals"} :
         RefreshedBy(Mutation(<<"completeWithdrawal">>, {<<"withdrawals">>, <<"wallet">>, <<"reports">>}), h)
    BY AskedAgain, OneCall
  <2>3. \A h \in {"useWithdrawals"} :
         RefreshedBy(Mutation(<<"rejectWithdrawal">>, {<<"withdrawals">>, <<"wallet">>, <<"reports">>}), h)
    BY AskedAgain, OneCall
  <2> QED
    BY <2>1, <2>2, <2>3, QueueQueries, QueueOffers
<1>5. \A m \in Offers("/admin/repayments"), h \in Queries("/admin/repayments") : RefreshedBy(m, h)
  <2>1. \A h \in {"useInvestments", "useRepayments"} :
         RefreshedBy(Mutation(<<"accrueRoi">>, {<<"investments">>}), h)
    BY AskedAgain, Untouched, OneCall
  <2>2. \A h \in {"useInvestments", "useRepayments"} :
         RefreshedBy(Mutation(<<"recordRepayment">>, {<<"repayments">>, <<"investments">>}), h)
    BY AskedAgain, OneCall
  <2>3. \A h \in {"useInvestments", "useRepayments"} :
         RefreshedBy(Mutation(<<"disburseRepayments">>, {<<"repayments">>, <<"wallet">>, <<"reports">>}), h)
    BY AskedAgain, Untouched, OneCall
  <2> QED
    BY <2>1, <2>2, <2>3, QueueQueries, QueueOffers
<1>6. \A m \in Offers("/admin/reconciliation"), h \in Queries("/admin/reconciliation") : RefreshedBy(m, h)
  <2>1. \A h \in {"useReconciliations", "useReconciliationItems"} :
         RefreshedBy(Mutation(<<"runReconciliation">>, {<<"reconciliation">>}), h)
    BY AskedAgain, OneCall
  <2> QED
    BY <2>1, QueueQueries, QueueOffers
<1>7. \A m \in Offers("/admin/investors/id"), h \in Queries("/admin/investors/id") : RefreshedBy(m, h)
  <2>1. \A h \in {"useInvestor", "useWalletPosition", "useInvestorStatement"} :
         RefreshedBy(Mutation(<<"approveInvestor">>, {<<"investors">>}), h)
    BY AskedAgain, Untouched, OneCall
  <2> QED
    BY <2>1, StaffQueries, StaffOffers
<1>8. \A m \in Offers("/admin/finance"), h \in Queries("/admin/finance") : RefreshedBy(m, h)
  <2>1. \A h \in {"useAccounts"} :
         RefreshedBy(Mutation(<<"createAccount">>, {<<"accounts">>}), h)
    BY AskedAgain, OneCall
  <2>2. \A h \in {"useAccounts"} :
         RefreshedBy(Mutation(<<"updateAccount">>, {<<"accounts">>}), h)
    BY AskedAgain, OneCall
  <2> QED
    BY <2>1, <2>2, StaffQueries, StaffOffers
<1>9. \A m \in Offers("/admin/reports/management"), h \in Queries("/admin/reports/management") :
        RefreshedBy(m, h)
  <2>1. \A h \in {"useManagementReport", "useInvestments"} :
         RefreshedBy(Mutation(<<"markInvestmentDefaulted">>,
                              {<<"reports", "management">>, <<"investments">>}), h)
    BY AskedAgain, OneCall
  <2> QED
    BY <2>1, StaffQueries, StaffOffers
<1>10. \A m \in Offers("/admin/platform"), h \in Queries("/admin/platform") : RefreshedBy(m, h)
  <2>1. \A h \in {"useRoles", "useStaffUsers"} :
         RefreshedBy(Mutation(<<"createRole">>, {<<"roles">>}), h)
    BY AskedAgain, Untouched, OneCall
  <2>2. \A h \in {"useRoles", "useStaffUsers"} :
         RefreshedBy(Mutation(<<"deleteRole">>, {<<"roles">>}), h)
    BY AskedAgain, Untouched, OneCall
  <2>3. \A h \in {"useRoles", "useStaffUsers"} :
         RefreshedBy(Mutation(<<"updateRole", "updateRolePermissions">>, {<<"roles">>}), h)
    BY AskedAgain, Untouched, TwoCalls
  <2>4. \A h \in {"useRoles", "useStaffUsers"} :
         RefreshedBy(Mutation(<<"createStaffUser">>, {<<"users", "staff">>}), h)
    BY AskedAgain, Untouched, OneCall
  <2>5. \A h \in {"useRoles", "useStaffUsers"} :
         RefreshedBy(Mutation(<<"updateStaffUser">>, {<<"users", "staff">>}), h)
    BY AskedAgain, Untouched, OneCall
  <2>6. \A h \in {"useRoles", "useStaffUsers"} :
         RefreshedBy(Mutation(<<"deleteStaffUser">>, {<<"users", "staff">>}), h)
    BY AskedAgain, Untouched, OneCall
  <2> QED
    BY <2>1, <2>2, <2>3, <2>4, <2>5, <2>6, StaffQueries, PlatformOffers
<1>11. \A m \in Offers("/admin/catalogue"), h \in {"useOpportunities", "useProducts", "useCompanies"} :
         RefreshedBy(m, h)
  <2>1. \A h \in {"useOpportunities", "useProducts", "useCompanies"} :
         RefreshedBy(Mutation(<<"createOpportunity">>, {<<"opportunities">>}), h)
    BY AskedAgain, Untouched, OneCall
  <2> QED
    BY <2>1, OtherQueries, OtherOffers
<1>12. \A m \in Offers("/admin/catalogue#products"), h \in {"useOpportunities", "useProducts", "useCompanies"} :
         RefreshedBy(m, h)
  <2>1. \A h \in {"useOpportunities", "useProducts", "useCompanies"} :
         RefreshedBy(Mutation(<<"createProduct">>, {<<"products">>}), h)
    BY AskedAgain, Untouched, OneCall
  <2> QED
    BY <2>1, OtherQueries, OtherOffers
<1>13. \A m \in Offers("/admin/catalogue#companies"), h \in {"useOpportunities", "useProducts", "useCompanies"} :
         RefreshedBy(m, h)
  <2>1. \A h \in {"useOpportunities", "useProducts", "useCompanies"} :
         RefreshedBy(Mutation(<<"createCompany">>, {<<"companies">>}), h)
    BY AskedAgain, Untouched, OneCall
  <2> QED
    BY <2>1, OtherQueries, OtherOffers
<1>14. \A m \in Offers("/account/change-password"), h \in Queries("/account/change-password") :
         RefreshedBy(m, h)
  BY OtherQueries
<1> DEFINE Good(p, q) == \A m \in Offers(p), h \in Queries(q) : m.calls = <<"invest">> \/ RefreshedBy(m, h)
<1>20. Good("/opportunities/id", "/opportunities/id")
  BY InvestorOffers DEF Mutation
<1>21. ASSUME NEW p \in Offering \ DOMAIN CataloguePages PROVE Good(p, p)
  BY <1>1, <1>2, <1>3, <1>4, <1>5, <1>6, <1>7, <1>8, <1>9, <1>10, <1>14, <1>20, GroupDomains DEF Offering
<1>22. ASSUME NEW p \in DOMAIN CataloguePages, NEW q \in DOMAIN CataloguePages PROVE Good(p, q)
  <2>1. Queries(q) \subseteq {"useOpportunities", "useProducts", "useCompanies"}
    BY OtherQueries, GroupDomains
  <2> QED
    BY <1>11, <1>12, <1>13, <2>1, GroupDomains
<1>23. ASSUME NEW p \in DOMAIN AllPages \ Offering, NEW q PROVE Good(p, q)
  BY OnlyViewed
<1>24. ASSUME NEW p \in Offering \ DOMAIN CataloguePages PROVE Beside(p) = {p}
  BY GroupDomains DEF Beside, Tabs, Offering
<1>25. ASSUME NEW p \in DOMAIN CataloguePages PROVE Beside(p) = DOMAIN CataloguePages
  BY GroupDomains DEF Beside, Tabs
<1> HIDE DEF Good
<1>26. ASSUME NEW p \in DOMAIN AllPages, NEW q \in Beside(p) PROVE Good(p, q)
  BY <1>21, <1>22, <1>23, <1>24, <1>25
<1> QED
  BY <1>26 DEF Good

Holders == Tokens \cup {SignedOut, Claims(Investors, {})}

IsEntry(e) ==
  /\ DOMAIN e = {"data", "fetch", "missed", "seen"}
  /\ e.fetch \in {"no", "sent", "answered", "denied", "refused"}

IsWrite(w) ==
  /\ DOMAIN w = {"calls", "keys", "to", "state", "old"}
  /\ w.state \in {"none", "sent", "done", "left"}
  /\ w.to \in {None, "/portfolio"}
  /\ w.calls \in Seq(DOMAIN Calls)

\* What is asked is what the page mounts for the user it let in.
MountedFits ==
  DOMAIN asked # {} =>
    /\ page \in DOMAIN AllPages \ Unguarded /\ session # SignedOut /\ LetsIn(page, session)
    /\ DOMAIN asked \subseteq Mounted(page, session)

WriteFits ==
  write.state = "sent" =>
    /\ page \in DOMAIN AllPages /\ write.calls # <<>>
    /\ write.to # None \/ \A q \in Beside(page) : \A h \in Queries(q) : RefreshedBy(write, h)

\* What is shown, or arrives next, was read before a write of this view.
Stale(e) ==
  \/ e.fetch = "no" /\ e.data = "some" /\ ~(e.missed \subseteq {"holders"})
  \/ e.fetch = "answered" /\ ~(e.seen \subseteq {"holders"})

\* The tab is not at rest, and will ask again or leave the page first.
WillRefresh(h) ==
  \/ reloading
  \/ timer # None
  \/ write.state \in {"sent", "done"} /\ (write.to # None \/ Under(write.keys, h))

Shape ==
  /\ page \in Paths /\ timer \in Paths \cup {None}
  /\ session \in Holders /\ stored \in Holders
  /\ IsWrite(write) /\ \A h \in DOMAIN asked : IsEntry(asked[h])

StaleFits == \A h \in DOMAIN asked : Stale(asked[h]) => WillRefresh(h)

TabInv == Shape /\ MountedFits /\ WriteFits /\ StaleFits
-----------------------------------------------------------------------------
LEMMA Marks ==
  /\ None # "/portfolio" /\ "/portfolio" \in Paths /\ Unguarded \subseteq Paths
  /\ DOMAIN AllPages \subseteq Paths /\ Paths = Unguarded \cup DOMAIN AllPages
  /\ \A claims : Landing(claims) \in Paths
  /\ None \notin Paths
<1>1. "/portfolio" \in DOMAIN AllPages /\ "/dashboard" \in DOMAIN AllPages
  BY DEF AllPages, InvestorViews, InvestorPages
<1>2. "/admin/dashboard" \in DOMAIN AllPages
  BY DEF AllPages, AdminViews, AdminPages
<1> QED
  BY <1>1, <1>2, TabAssumption DEF Paths, Landing, TabAssumption

LEMMA MountsQueries ==
  \A p, claims : /\ Mounted(p, claims) \subseteq Queries(p)
                 /\ Offered(p, claims) \subseteq Offers(p)
  BY DEF Mounted, Offered, Panels, Queries, Offers

(* What a page opens with is fresh.                                          *)
LEMMA OpensFresh ==
  ASSUME NEW p \in Paths, NEW claims
  PROVE  /\ \A h \in DOMAIN Opening(p, claims) :
              Opening(p, claims)[h] = Fresh
         /\ DOMAIN Opening(p, claims) # {} =>
              /\ p \in DOMAIN AllPages \ Unguarded /\ claims # SignedOut /\ LetsIn(p, claims)
              /\ DOMAIN Opening(p, claims) = Mounted(p, claims)
<1>1. DOMAIN << >> = {}
  OBVIOUS
<1> QED
  BY <1>1, Marks DEF Opening

LEMMA FreshFits == IsEntry(Fresh) /\ ~Stale(Fresh)
  BY DEF IsEntry, Fresh, Stale

LEMMA NoWriteFits == IsWrite(NoWrite) /\ NoWrite.state = "none"
  BY DEF NoWrite, IsWrite

LEMMA LeftFits ==
  ASSUME NEW old \in BOOLEAN, IsWrite(write)
  PROVE  IsWrite(Left(old)) /\ Left(old).state \in {"none", "left"}
<1>1. IsWrite(NoWrite) /\ NoWrite.state = "none"
  BY NoWriteFits
<1>2. CASE write = NoWrite
  BY <1>1, <1>2 DEF Left
<1>3. CASE write # NoWrite
  BY <1>1, <1>3 DEF Left, IsWrite, NoWrite
<1> QED
  BY <1>2, <1>3

-----------------------------------------------------------------------------
(* What opens a page, whichever way, leaves nothing of the page before it.   *)
LEMMA OpeningKeeps ==
  ASSUME NEW p \in Paths, NEW claims, page' = p, session' = claims, asked' = Opening(p, claims)
  PROVE  /\ MountedFits' /\ StaleFits' /\ \A h \in DOMAIN asked' : IsEntry(asked'[h])
<1>1. MountedFits'
  BY OpensFresh DEF MountedFits
<1>2. \A h \in DOMAIN asked' : asked'[h] = Fresh
  BY OpensFresh
<1> QED
  BY <1>1, <1>2, FreshFits DEF StaleFits

LEMMA MountKeeps ==
  ASSUME TabInv, NEW p \in Paths, Mount(p, session), UNCHANGED <<session, stored>>,
         timer' \in Paths \cup {None}
  PROVE  TabInv'
<1>1. /\ MountedFits' /\ StaleFits' /\ \A h \in DOMAIN asked' : IsEntry(asked'[h])
  BY OpeningKeeps DEF Mount
<1>2. IsWrite(write)' /\ write'.state # "sent"
  BY LeftFits DEF Mount, TabInv, Shape
<1> QED
  BY <1>1, <1>2 DEF TabInv, Shape, WriteFits, Mount

LEMMA LoadKeeps ==
  ASSUME TabInv, NEW p \in Paths, LoadPage(p)
  PROVE  TabInv'
<1>1. /\ MountedFits' /\ StaleFits' /\ \A h \in DOMAIN asked' : IsEntry(asked'[h])
  BY OpeningKeeps DEF LoadPage
<1>2. IsWrite(write)' /\ write'.state # "sent"
  BY DEF LoadPage, IsWrite, NoWrite
<1> QED
  BY <1>1, <1>2 DEF TabInv, Shape, WriteFits, LoadPage

LEMMA EnterKeeps ==
  ASSUME TabInv, page \in AuthRoutePages, NEW claims \in Holders, NEW to \in Paths, Enter(claims, to)
  PROVE  TabInv'
<1>1. DOMAIN asked = {} /\ asked' = asked
  BY DEF TabInv, MountedFits, Enter, Unguarded
<1>2. IsWrite(write)' /\ write'.state # "sent"
  BY LeftFits DEF Enter, TabInv, Shape
<1> QED
  BY <1>1, <1>2 DEF TabInv, Shape, WriteFits, StaleFits, MountedFits, Enter

LEMMA SessionKeeps ==
  ASSUME TabInv, Session
  PROVE  TabInv'
<1>1. ASSUME NEW claims \in Tokens, SignIn(claims) PROVE TabInv'
  BY <1>1, EnterKeeps, Marks DEF SignIn, AuthRoutePages, Holders
<1>2. CASE Register
  <2>1. "/dashboard" \in Paths /\ Claims(Investors, {}) \in Holders
    BY DEF Holders, Paths, AllPages, InvestorViews, InvestorPages
  <2> QED
    BY <1>2, <2>1, EnterKeeps DEF Register, AuthRoutePages
<1>3. CASE LogOut
  <2>1. DOMAIN asked' = {} /\ IsWrite(write)' /\ write'.state # "sent"
    <3>1. DOMAIN << >> = {}
      OBVIOUS
    <3>2. asked' = << >> /\ write' = Left(TRUE)
      BY <1>3 DEF LogOut
    <3> QED
      BY <3>1, <3>2, LeftFits DEF TabInv, Shape
  <2>2. "/login" \in Paths
    BY Marks DEF Unguarded, AuthRoutePages
  <2> QED
    BY <1>3, <2>1, <2>2 DEF TabInv, Shape, WriteFits, StaleFits, MountedFits, LogOut, Holders
<1>4. CASE Expire
  BY <1>4 DEF TabInv, Shape, WriteFits, StaleFits, WillRefresh, MountedFits, Expire
<1>5. CASE Reload
  BY <1>5, LoadKeeps, Marks DEF Reload, Unguarded, AuthRoutePages
<1> QED
  BY <1>1, <1>2, <1>3, <1>4, <1>5 DEF Session

-----------------------------------------------------------------------------
LEMMA TargetsExist ==
  /\ \A p \in DOMAIN AllPages : Shell(p) \cup Links(p) \subseteq DOMAIN AllPages
  /\ Shell("/") \subseteq DOMAIN AllPages
<1>1. \A p : Shell(p) \subseteq DOMAIN AllPages
  BY AllViews, GroupDomains DEF Shell
<1>2. ASSUME NEW p PROVE Links(p) \subseteq DOMAIN AllPages
  BY AllViews, GroupDomains DEF Links, ToInvestor
<1> QED
  BY <1>1, <1>2
LEMMA TabsFit ==
  \A tabs \in Tabs : \A p, q \in tabs :
    /\ p \in DOMAIN AllPages \ Unguarded /\ Beside(q) = Beside(p) /\ q \in Beside(p)
    /\ \A claims : LetsIn(p, claims) <=> LetsIn(q, claims)
<1> DEFINE C == DOMAIN CataloguePages
           S == {"/statements"} \cup DOMAIN StatementPages
<1>1. /\ \A v \in C : Beside(v) = C
      /\ \A v \in S : Beside(v) = S
  <2>1. \A v \in C : v \notin S
    BY GroupDomains
  <2>2. Tabs = {C, S}
    BY DEF Tabs
  <2> HIDE DEF C, S
  <2> QED
    BY <2>1, <2>2 DEF Beside
<1>2. /\ \A p \in C : AllPages[p].roles = Management /\ AllPages[p].permission = Nothing
      /\ \A p \in S : AllPages[p].roles = Investors /\ AllPages[p].permission = Nothing
  BY GroupDomains, CataloguePagesAre, StatementPagesAre, InvestorPagesAre DEF Page
<1>3. C \subseteq DOMAIN AllPages \ Unguarded /\ S \subseteq DOMAIN AllPages \ Unguarded
  BY GroupDomains, AllViews DEF Unguarded, AuthRoutePages
<1>4. Tabs = {C, S}
  BY DEF Tabs
<1> HIDE DEF C, S
<1> SUFFICES ASSUME NEW tabs \in Tabs, NEW p \in tabs, NEW q \in tabs
             PROVE  /\ p \in DOMAIN AllPages \ Unguarded /\ Beside(q) = Beside(p) /\ q \in Beside(p)
                    /\ \A claims : LetsIn(p, claims) <=> LetsIn(q, claims)
  OBVIOUS
<1>5. AllPages[p].roles = AllPages[q].roles /\ AllPages[p].permission = AllPages[q].permission
  BY <1>2, <1>4
<1>6. p \in DOMAIN AllPages \ Unguarded /\ Beside(q) = Beside(p) /\ q \in Beside(p)
  <2>1. tabs = C \/ tabs = S
    BY <1>4
  <2>2. p \in DOMAIN AllPages \ Unguarded
    BY <1>3, <2>1
  <2>3. ASSUME NEW v \in tabs PROVE Beside(v) = tabs
    <3>1. CASE tabs = C
      BY <1>1, <3>1
    <3>2. CASE tabs = S
      BY <1>1, <3>2
    <3> QED
      BY <2>1, <3>1, <3>2
  <2> QED
    BY <2>2, <2>3
<1> QED
  BY <1>5, <1>6 DEF LetsIn, Admits

LEMMA SwitchTabKeeps ==
  ASSUME TabInv, SwitchTab
  PROVE  TabInv'
<1>1. PICK tabs \in Tabs : \E p \in tabs \ {page} :
       /\ page \in tabs /\ page' = p
       /\ asked' = [h \in Mounted(p, session) |-> IF h \in DOMAIN asked THEN asked[h] ELSE Fresh]
  BY DEF SwitchTab
<1>2. PICK p \in tabs \ {page} :
       /\ page \in tabs /\ page' = p
       /\ asked' = [h \in Mounted(p, session) |-> IF h \in DOMAIN asked THEN asked[h] ELSE Fresh]
  BY <1>1
<1>3. /\ p \in DOMAIN AllPages \ Unguarded /\ Beside(p) = Beside(page)
      /\ LetsIn(p, session) /\ session # SignedOut
  BY <1>2, TabsFit DEF SwitchTab
<1>4. UNCHANGED <<session, stored, write, timer, reloading>>
  BY DEF SwitchTab
<1>5. Shape'
  BY <1>2, <1>3, <1>4, Marks, FreshFits DEF TabInv, Shape
<1>6. MountedFits'
  BY <1>2, <1>3, <1>4 DEF MountedFits
<1>7. WriteFits'
  BY <1>2, <1>3, <1>4 DEF TabInv, WriteFits
<1>8. StaleFits'
  BY <1>2, <1>4, FreshFits DEF TabInv, StaleFits, WillRefresh
<1> QED
  BY <1>5, <1>6, <1>7, <1>8 DEF TabInv

LEMMA MovingKeeps ==
  ASSUME TabInv, Moving
  PROVE  TabInv'
<1> USE DEF Shape
<1>1. CASE Redirect
  <2>1. "/login" \in Paths /\ "/" \in Paths
    BY Marks DEF Unguarded, AuthRoutePages
  <2> QED
    BY <1>1, <2>1, MountKeeps DEF Redirect, TabInv
<1>2. CASE LeaveHome
  BY <1>2, MountKeeps, Marks DEF LeaveHome, TabInv
<1>3. CASE Push
  BY <1>3, MountKeeps DEF Push, TabInv
<1>4. CASE Follow
  <2>1. PICK p \in Shell(page) \cup
              (IF page # "/" /\ LetsIn(page, session) THEN Links(page) ELSE {}) :
          p # page /\ Mount(p, session)
    BY <1>4 DEF Follow
  <2>2. page \in DOMAIN AllPages \/ page = "/"
    BY <1>4, Marks DEF Follow, TabInv, Unguarded
  <2>3. p \in Paths
    BY <2>1, <2>2, TargetsExist, Marks
  <2> QED
    BY <1>4, <2>1, <2>3, MountKeeps DEF Follow, TabInv
<1>5. CASE ToRegister
  <2>1. "/register" \in Paths
    BY Marks DEF Unguarded, AuthRoutePages
  <2> QED
    BY <1>5, <2>1, MountKeeps DEF ToRegister, TabInv
<1>6. CASE SwitchTab
  BY <1>6, SwitchTabKeeps
<1>7. ASSUME NEW p \in Paths, Load(p) PROVE TabInv'
  BY <1>7, LoadKeeps DEF Load
<1> QED
  BY <1>1, <1>2, <1>3, <1>4, <1>5, <1>6, <1>7 DEF Moving
-----------------------------------------------------------------------------
(* One query moves on.                                                       *)
LEMMA EntryKeeps ==
  ASSUME TabInv, NEW h \in DOMAIN asked, NEW entry, asked' = [asked EXCEPT ![h] = entry],
         IsEntry(entry), Stale(entry) => Stale(asked[h]),
         UNCHANGED <<page, session, timer, write>>, stored' \in Holders, reloading => reloading'
  PROVE  TabInv'
<1>1. DOMAIN asked' = DOMAIN asked
      /\ \A k \in DOMAIN asked : asked'[k] = IF k = h THEN entry ELSE asked[k]
  OBVIOUS
<1>2. Shape'
  BY <1>1 DEF TabInv, Shape
<1>3. MountedFits' /\ WriteFits'
  BY <1>1 DEF TabInv, MountedFits, WriteFits
<1>4. StaleFits'
  BY <1>1 DEF TabInv, StaleFits, WillRefresh
<1> QED
  BY <1>2, <1>3, <1>4 DEF TabInv

LEMMA RefusalKeeps ==
  ASSUME TabInv, SessionEnds
  PROVE  /\ page' = page /\ session' = session /\ timer' = timer
         /\ stored' \in Holders /\ (reloading => reloading')
         /\ reloading' \/ DOMAIN asked = {}
  BY DEF SessionEnds, TabInv, MountedFits, Holders, Unguarded, AuthRoutePages

LEMMA AskingKeeps ==
  ASSUME TabInv, Asking
  PROVE  TabInv'
<1> USE DEF IsEntry, Stale
<1>1. \A h \in DOMAIN asked : IsEntry(asked[h])
  BY DEF TabInv, Shape
<1>2. stored \in Holders
  BY DEF TabInv, Shape
<1>3. ASSUME NEW h \in DOMAIN asked, Serve(h) PROVE TabInv'
  <2> DEFINE entry == [asked[h] EXCEPT !.seen = {},
                             !.fetch = IF ~live THEN "refused"
                                       ELSE IF Admits(Reached(Hooks[h].call), session)
                                       THEN "answered" ELSE "denied"]
  <2>1. IsEntry(entry) /\ ~Stale(entry)
    BY <1>1
  <2>2. asked' = [asked EXCEPT ![h] = entry]
        /\ UNCHANGED <<page, session, stored, write, timer, reloading>>
    BY <1>3 DEF Serve, Ask
  <2> HIDE DEF entry
  <2> QED
    BY <1>2, <2>1, <2>2, EntryKeeps
<1>4. ASSUME NEW h \in DOMAIN asked, Receive(h) PROVE TabInv'
  <2> DEFINE entry == [data |-> "some", fetch |-> "no", missed |-> asked[h].seen, seen |-> {}]
  <2>1. IsEntry(entry) /\ (Stale(entry) => Stale(asked[h]))
    BY <1>1, <1>4 DEF Receive
  <2>2. asked' = [asked EXCEPT ![h] = entry]
        /\ UNCHANGED <<page, session, stored, write, timer, reloading>>
    BY <1>4 DEF Receive, Ask
  <2> HIDE DEF entry
  <2> QED
    BY <1>2, <2>1, <2>2, EntryKeeps
<1>5. ASSUME NEW h \in DOMAIN asked, Fail(h) PROVE TabInv'
  <2> DEFINE entry == [asked[h] EXCEPT !.data = "none", !.fetch = "no", !.missed = {}]
  <2>1. IsEntry(entry) /\ ~Stale(entry)
    BY <1>1
  <2>2. asked' = [asked EXCEPT ![h] = entry]
        /\ UNCHANGED <<page, session, stored, write, timer, reloading>>
    BY <1>5 DEF Fail, Ask
  <2> HIDE DEF entry
  <2> QED
    BY <1>2, <2>1, <2>2, EntryKeeps
<1>6. ASSUME NEW h \in DOMAIN asked, Refused(h) PROVE TabInv'
  <2> DEFINE entry == [asked[h] EXCEPT !.data = "none", !.fetch = "no", !.missed = {}]
  <2>1. IsEntry(entry) /\ ~Stale(entry)
    BY <1>1
  <2>2. asked' = [asked EXCEPT ![h] = entry] /\ write' = write
    BY <1>1, <1>6 DEF Refused
  <2>3. UNCHANGED <<page, session, timer>> /\ stored' \in Holders /\ (reloading => reloading')
    BY <1>6, RefusalKeeps DEF Refused
  <2> HIDE DEF entry
  <2> QED
    BY <2>1, <2>2, <2>3, EntryKeeps
<1>7. CASE LateAnswer \/ LateRefusal
  <2>1. UNCHANGED <<asked, write>>
    BY <1>7 DEF LateAnswer, LateRefusal
  <2>2. UNCHANGED <<page, session, timer>> /\ stored' \in Holders /\ (reloading => reloading')
    BY <1>2, <1>7, RefusalKeeps DEF LateAnswer, LateRefusal
  <2> QED
    BY <2>1, <2>2 DEF TabInv, Shape, MountedFits, WriteFits, StaleFits, WillRefresh
<1> QED
  BY <1>3, <1>4, <1>5, <1>6, <1>7 DEF Asking
-----------------------------------------------------------------------------
LEMMA SubmitKeeps ==
  ASSUME TabInv, Submit
  PROVE  TabInv'
<1>1. PICK m \in Offered(page, session) :
         write' = [calls |-> m.calls, keys |-> m.keys, state |-> "sent", old |-> FALSE,
                   to |-> IF m.calls = <<"invest">> THEN "/portfolio" ELSE None]
  BY DEF Submit
<1>2. /\ page \in DOMAIN AllPages /\ m \in Offers(page)
      /\ UNCHANGED <<page, session, stored, asked, timer, reloading>> /\ write.state = "none"
  BY Marks, MountsQueries DEF Submit, TabInv, Shape, NoWrite
<1>3. m.calls \in Seq(DOMAIN Calls) /\ Len(m.calls) > 0
  BY <1>2, WritesHaveCalls DEF Callable
<1>4. IsWrite(write') /\ write'.state = "sent" /\ write'.calls = m.calls /\ write'.keys = m.keys
      /\ (m.calls = <<"invest">> => write'.to # None)
  BY <1>1, <1>3, Marks DEF IsWrite
<1>5. WriteFits'
  <2>1. write'.calls # << >>
    BY <1>3, <1>4
  <2>2. ASSUME NEW q \in Beside(page), NEW h \in Queries(q), m.calls # <<"invest">>
        PROVE  RefreshedBy(write', h)
    BY <1>2, <1>4, <2>2, PagesRefresh DEF RefreshedBy
  <2> QED
    BY <1>2, <1>4, <2>1, <2>2 DEF WriteFits
<1>6. StaleFits'
  BY <1>2 DEF TabInv, StaleFits, WillRefresh
<1> QED
  BY <1>2, <1>4, <1>5, <1>6 DEF TabInv, Shape, MountedFits

LEMMA TailOfCalls ==
  ASSUME NEW S, NEW c \in Seq(S), c # << >>
  PROVE  /\ Len(c) \in Nat \ {0} /\ DOMAIN c = 1 .. Len(c) /\ Head(c) = c[1]
         /\ Tail(c) \in Seq(S) /\ DOMAIN Tail(c) = 1 .. Len(c) - 1
         /\ \A i \in DOMAIN Tail(c) : Tail(c)[i] = c[i + 1]
         /\ Len(c) # 1 => Tail(c) # << >>
<1>1. Len(c) \in Nat \ {0} /\ DOMAIN c = 1 .. Len(c) /\ Head(c) = c[1]
  OBVIOUS
<1>2. Tail(c) \in Seq(S) /\ Len(Tail(c)) = Len(c) - 1
  OBVIOUS
<1>3. DOMAIN Tail(c) = 1 .. Len(c) - 1
  BY <1>2
<1>4. \A i \in 1 .. Len(c) - 1 : Tail(c)[i] = c[i + 1]
  BY <1>1
<1>5. Len(c) # 1 => Tail(c) # << >>
  <2> DEFINE t == Tail(c)
  <2>1. Len(<< >>) = 0
    OBVIOUS
  <2>2. Len(t) = Len(c) - 1
    BY <1>2
  <2> HIDE DEF t
  <2>3. t = << >> => Len(t) = 0
    BY <2>1
  <2>4. Len(c) # 1 => Len(t) # 0
    BY <1>1, <2>2
  <2> QED
    BY <2>3, <2>4 DEF t
<1> QED
  BY <1>1, <1>2, <1>3, <1>4, <1>5

LEMMA ServeWriteKeeps ==
  ASSUME TabInv, ServeWrite
  PROVE  TabInv'
<1> DEFINE tables(h) == Reads(h) \cap Reached(Head(write.calls)).writes
<1>1. /\ write.state = "sent" /\ IsWrite(write) /\ page \in DOMAIN AllPages /\ write.calls # << >>
      /\ write.to # None \/ \A q \in Beside(page) : \A h \in Queries(q) : RefreshedBy(write, h)
      /\ UNCHANGED <<page, session, stored, timer, reloading>>
      /\ asked' = [h \in DOMAIN asked |-> Misses(asked[h], tables(h))]
  BY DEF ServeWrite, TabInv, Shape, WriteFits
<1>2. /\ IsWrite(write') /\ write'.calls = Tail(write.calls) /\ write'.keys = write.keys
      /\ write'.to = write.to /\ write'.state \in {"sent", "done"}
      /\ write'.state = "sent" => Len(write.calls) # 1
  <2>1. write' = [write EXCEPT !.calls = Tail(write.calls),
                               !.state = IF Len(write.calls) = 1 THEN "done" ELSE "sent"]
    BY DEF ServeWrite
  <2>2. Tail(write.calls) \in Seq(DOMAIN Calls)
    BY <1>1 DEF IsWrite
  <2> QED
    BY <1>1, <2>1, <2>2 DEF IsWrite
<1>3. /\ Len(write.calls) \in Nat \ {0} /\ DOMAIN write.calls = 1 .. Len(write.calls)
      /\ Head(write.calls) = write.calls[1]
      /\ DOMAIN Tail(write.calls) = 1 .. Len(write.calls) - 1
      /\ \A i \in DOMAIN Tail(write.calls) : Tail(write.calls)[i] = write.calls[i + 1]
      /\ Len(write.calls) # 1 => Tail(write.calls) # << >>
  BY <1>1, TailOfCalls DEF IsWrite
<1>4. ASSUME NEW h, RefreshedBy(write, h) PROVE RefreshedBy(write', h)
  <2>1. CASE Under(write.keys, h)
    BY <1>2, <2>1 DEF RefreshedBy
  <2>2. CASE \A i \in DOMAIN write.calls :
               Reads(h) \cap Reached(write.calls[i]).writes \subseteq {"holders"}
    <3>1. \A i \in DOMAIN write'.calls : i + 1 \in DOMAIN write.calls
                                         /\ write'.calls[i] = write.calls[i + 1]
      BY <1>2, <1>3
    <3> QED
      BY <2>2, <3>1 DEF RefreshedBy
  <2> QED
    BY <1>4, <2>1, <2>2 DEF RefreshedBy
<1>5. WriteFits'
  BY <1>1, <1>2, <1>3, <1>4 DEF WriteFits
<1>6. ASSUME NEW h \in DOMAIN asked PROVE IsEntry(asked'[h]) /\ (Stale(asked'[h]) => WillRefresh(h)')
  <2>1. IsEntry(asked[h]) /\ asked'[h] = Misses(asked[h], tables(h))
    BY <1>1 DEF TabInv, Shape
  <2>2. page \in Beside(page) /\ h \in Queries(page)
    BY MountsQueries DEF Beside, TabInv, MountedFits
  <2>3. CASE tables(h) \subseteq {"holders"}
    <3>1. IsEntry(asked'[h]) /\ (Stale(asked'[h]) => Stale(asked[h]))
      <4> HIDE DEF tables
      <4> QED
        BY <2>1, <2>3 DEF IsEntry, Stale, Misses
    <3>2. Stale(asked[h]) => WillRefresh(h)
      BY DEF TabInv, StaleFits
    <3> QED
      BY <1>1, <1>2, <3>1, <3>2 DEF WillRefresh
  <2>4. CASE ~(tables(h) \subseteq {"holders"})
    <3>1. IsEntry(asked'[h])
      <4> HIDE DEF tables
      <4> QED
        BY <2>1 DEF IsEntry, Misses
    <3>2. RefreshedBy(write, h) => Under(write.keys, h)
      BY <1>3, <2>4 DEF RefreshedBy
    <3>3. write.to # None \/ Under(write.keys, h)
      BY <1>1, <2>2, <3>2
    <3> QED
      BY <1>2, <3>1, <3>3 DEF WillRefresh
  <2> QED
    BY <2>3, <2>4
<1>7. DOMAIN asked' = DOMAIN asked
  BY <1>1
<1> QED
  BY <1>1, <1>2, <1>5, <1>6, <1>7 DEF TabInv, Shape, MountedFits, StaleFits

LEMMA AskAgainKeeps ==
  ASSUME TabInv, NEW hooks, AskAgain(hooks), write.state \in {"done", "left"},
         write.state = "done" => hooks = {h \in DOMAIN asked : Under(write.keys, h)}
  PROVE  TabInv'
<1>1. /\ UNCHANGED <<page, session, stored, reloading>> /\ write' = NoWrite
      /\ timer' = IF write.to = None THEN timer ELSE write.to
      /\ asked' = [h \in DOMAIN asked |->
                 IF h \in hooks THEN [asked[h] EXCEPT !.fetch = "sent", !.seen = {}] ELSE asked[h]]
  BY DEF AskAgain
<1>2. IsWrite(write') /\ write'.state = "none"
  BY <1>1, NoWriteFits
<1>3. timer' \in Paths \cup {None}
  BY <1>1, Marks DEF TabInv, Shape, IsWrite
<1>4. ASSUME NEW h \in DOMAIN asked PROVE IsEntry(asked'[h]) /\ (Stale(asked'[h]) => WillRefresh(h)')
  <2>1. IsEntry(asked[h])
    BY DEF TabInv, Shape
  <2>2. CASE h \in hooks
    BY <1>1, <2>1, <2>2 DEF IsEntry, Stale
  <2>3. CASE h \notin hooks
    <3>1. Stale(asked[h]) => WillRefresh(h)
      BY DEF TabInv, StaleFits
    <3>2. WillRefresh(h) => reloading' \/ timer' # None
      BY <1>1, <2>3 DEF WillRefresh
    <3> QED
      BY <1>1, <2>1, <2>3, <3>1, <3>2 DEF WillRefresh
  <2> QED
    BY <2>2, <2>3
<1>5. DOMAIN asked' = DOMAIN asked
  BY <1>1
<1> QED
  BY <1>1, <1>2, <1>3, <1>4, <1>5 DEF TabInv, Shape, MountedFits, WriteFits, StaleFits

LEMMA WritingKeeps ==
  ASSUME TabInv, Writing
  PROVE  TabInv'
<1>1. IsWrite(NoWrite) /\ NoWrite.state = "none"
  BY NoWriteFits
<1>2. CASE RefuseWrite
  <2>1. write' = NoWrite /\ asked' = asked
    BY <1>2 DEF RefuseWrite
  <2>2. /\ UNCHANGED <<page, session, timer>> /\ stored' \in Holders
        /\ reloading' \/ DOMAIN asked = {}
    BY <1>2, RefusalKeeps DEF RefuseWrite
  <2> QED
    BY <1>1, <2>1, <2>2 DEF TabInv, Shape, MountedFits, WriteFits, StaleFits, WillRefresh
<1>3. CASE FailWrite
  <2>1. /\ write' = NoWrite /\ UNCHANGED <<page, session, stored, timer, reloading>>
        /\ asked' = [h \in DOMAIN asked |->
                 [asked[h] EXCEPT !.data = IF asked[h].missed = {} THEN asked[h].data ELSE "none",
                                  !.missed = {}, !.seen = {}]]
    BY <1>3 DEF FailWrite
  <2>2. ASSUME NEW h \in DOMAIN asked PROVE IsEntry(asked'[h]) /\ ~Stale(asked'[h])
    <3>1. IsEntry(asked[h])
      BY DEF TabInv, Shape
    <3> QED
      BY <2>1, <3>1 DEF IsEntry, Stale
  <2>3. DOMAIN asked' = DOMAIN asked
    BY <2>1
  <2> QED
    BY <1>1, <2>1, <2>2, <2>3 DEF TabInv, Shape, MountedFits, WriteFits, StaleFits
<1>4. CASE WriteDone
  BY <1>4, AskAgainKeeps DEF WriteDone
<1>5. CASE LeftWriteDone
  <2>1. PICK hooks \in SUBSET DOMAIN asked : AskAgain(hooks)
    BY <1>5 DEF LeftWriteDone
  <2> QED
    BY <1>5, <2>1, AskAgainKeeps DEF LeftWriteDone
<1>6. CASE LeftWriteFails
  <2>1. /\ write' = NoWrite /\ write.state = "left"
        /\ UNCHANGED <<page, session, stored, asked, timer, reloading>>
    BY <1>6 DEF LeftWriteFails
  <2> QED
    BY <1>1, <2>1 DEF TabInv, Shape, MountedFits, WriteFits, StaleFits, WillRefresh
<1> QED
  BY <1>2, <1>3, <1>4, <1>5, <1>6, SubmitKeeps, ServeWriteKeeps DEF Writing
-----------------------------------------------------------------------------
LEMMA TabInvHolds == Spec => []TabInv
<1>1. Init => TabInv
  <2> SUFFICES ASSUME Init PROVE TabInv
    OBVIOUS
  <2>1. DOMAIN asked = {}
    <3>1. DOMAIN << >> = {}
      OBVIOUS
    <3> QED
      BY <3>1 DEF Init
  <2>2. IsWrite(write) /\ write.state = "none"
    BY DEF Init, IsWrite, NoWrite
  <2>3. "/login" \in Paths /\ SignedOut \in Holders
    BY Marks DEF Unguarded, AuthRoutePages, Holders
  <2> QED
    BY <2>1, <2>2, <2>3 DEF Init, TabInv, Shape, MountedFits, WriteFits, StaleFits
<1>2. TabInv /\ [Next]_vars => TabInv'
  <2> SUFFICES ASSUME TabInv, [Next]_vars PROVE TabInv'
    OBVIOUS
  <2>1. CASE Next
    BY <2>1, SessionKeeps, MovingKeeps, AskingKeeps, WritingKeeps DEF Next
  <2>2. CASE UNCHANGED vars
    BY <2>2 DEF vars, TabInv, Shape, MountedFits, WriteFits, StaleFits, WillRefresh
  <2> QED
    BY <2>1, <2>2
<1> QED
  BY <1>1, <1>2, PTL DEF Spec

(* A user who stays on a page sees what he did there, whatever order the     *)
(* reads, his write and the answers take (react-query as the pages use it).  *)
THEOREM WritesAreShown == Spec => []OwnWritesShown
<1>1. TabInv => OwnWritesShown
  <2> SUFFICES ASSUME TabInv, AtRest, NEW h \in DOMAIN asked, asked[h].data = "some"
               PROVE  asked[h].missed \subseteq {"holders"}
    BY DEF OwnWritesShown
  <2>1. ~WillRefresh(h) /\ asked[h].fetch = "no"
    BY DEF AtRest, AnyFlying, Flying, WillRefresh, NoWrite
  <2> QED
    BY <2>1 DEF TabInv, StaleFits, Stale
<1> QED
  BY <1>1, TabInvHolds, PTL
-----------------------------------------------------------------------------
(* What the pages ask, and what the API asks of them.                        *)
Rule(h) == Reached(Hooks[h].call)

\* Whoever holds one of the roles held holds one of those asked.
Suits(held, asking) == asking = {} \/ (held # {} /\ held \subseteq asking)

\* Who is granted the reports or the investors holds a role of those pages as well:
\* the pages these two permissions open ask more than the permissions grant (the
\* accounts, the investments, a wallet).  Seeded categories are granted nothing by
\* permission, so only an edited or a custom one may not be suitable.
Suitable(c) ==
  /\ "REPORTS:VIEW" \in c.permissions => c.roles \cap Finance # {}
  /\ "INVESTORS:VIEW" \in c.permissions => c.roles \cap Directory # {}

\* The pages whose permission alone will do.
Alone(p) == AllPages[p].permission \notin {Nothing, "REPORTS:VIEW", "INVESTORS:VIEW"}

PanelSuits(p, x) ==
  LET shown == IF x.roles = {} THEN AllPages[p].roles ELSE x.roles
      alone == x.roles = {} /\ Alone(p) IN
  /\ \A h \in x.queries :
       \/ p = "/admin/investors/id" /\ h = StatementTab["investor"]
       \/ /\ Suits(shown, Rule(h).roles)
          /\ alone => Rule(h).permission = AllPages[p].permission
  /\ \A m \in x.offers :
       ~alone /\ \A i \in DOMAIN m.calls : Suits(shown, Reached(m.calls[i]).roles)

LEMMA HookRoutes ==
  /\ Rule("useMyInvestor") = InvestorRoutes.findMe
  /\ Rule("useInvestor") = InvestorRoutes.findOne
  /\ Rule("useWalletPosition") = WalletRoutes.getPosition
  /\ Rule("useWalletTransactions") = WalletRoutes.getTransactions
  /\ Rule("useOpportunities") = OpportunityRoutes.findAll
  /\ Rule("useOpportunity") = OpportunityRoutes.findOne
  /\ Rule("useInvestments") = InvestmentRoutes.findAll
  /\ Rule("useInvestment") = InvestmentRoutes.findOne
  /\ Rule("useWithdrawals") = WithdrawalRoutes.findAll
  /\ Rule("useDeposits") = DepositRoutes.findAll
  /\ Rule("useRepayments") = RepaymentRoutes.findAll
  /\ Rule("useInvestorsDirectory") = InvestorRoutes.findAll
  /\ Rule("useReconciliations") = ReconciliationRoutes.findAll
  /\ Rule("useProducts") = ProductRoutes.findAll
  /\ Rule("useCompanies") = CompanyRoutes.findAll
  /\ Rule("useAccounts") = AccountRoutes.findAll
  /\ Rule("useRoles") = RoleRoutes.findAll
  /\ Rule("useStaffUsers") = UserRoutes.findAll
  /\ Rule("useManagementReport") = SummaryRoutes.management
  /\ Rule("useTrialBalance") = StatementRoutes.trialBalance
  /\ Rule("useGeneralLedger") = StatementRoutes.generalLedger
  /\ Rule("useProfitAndLoss") = StatementRoutes.profitAndLoss
  /\ Rule("useBalanceSheet") = StatementRoutes.balanceSheet
  /\ Rule("useCashBook") = StatementRoutes.cashBook
  /\ Rule("useCashFlowStatement") = StatementRoutes.cashFlowStatement
  /\ Rule("useInvestorLiabilities") = StatementRoutes.investorLiabilities
  /\ Rule("useInvestorRoiReport") = StatementRoutes.investorRoi
  /\ Rule("useInvestmentReceivables") = StatementRoutes.investmentReceivables
  /\ Rule("useInvestorStatement") = InvestorReportRoutes.statement
  /\ Rule("useRoiStatement") = InvestorReportRoutes.roiStatement
  /\ Rule("useRepaymentStatement") = InvestorReportRoutes.repaymentStatement
  /\ Rule("useReconciliationItems") = ReconciliationRoutes.findItems
  BY HookCalls, ReadCalls DEF Rule

LEMMA RouteRules ==
  /\ InvestorRoutes.findMe.roles = {}
  /\ InvestorRoutes.findOne.roles = {}
  /\ WalletRoutes.getPosition.roles = {"INVESTOR"} \cup AnyWallet
  /\ WalletRoutes.getTransactions.roles = {"INVESTOR"} \cup AnyWallet
  /\ OpportunityRoutes.findAll.roles = {}
  /\ OpportunityRoutes.findOne.roles = {}
  /\ InvestmentRoutes.findAll.roles = {"INVESTOR", "FINANCE_OFFICER"} \cup Management
  /\ InvestmentRoutes.findOne.roles = {"INVESTOR", "FINANCE_OFFICER"} \cup Management
  /\ WithdrawalRoutes.findAll.roles = {"INVESTOR", "APPROVER"} \cup Finance
  /\ DepositRoutes.findAll.roles = {"INVESTOR"} \cup Finance
  /\ RepaymentRoutes.findAll.roles = Finance
  /\ InvestorRoutes.findAll.roles = Finance \cup {"COMPLIANCE_OFFICER", "INVESTMENT_MANAGER"}
  /\ ReconciliationRoutes.findAll.roles = Finance
  /\ ProductRoutes.findAll.roles = {}
  /\ CompanyRoutes.findAll.roles = {}
  /\ AccountRoutes.findAll.roles = Finance
  /\ RoleRoutes.findAll.roles = {"ADMIN", "SUPER_ADMIN"}
  /\ UserRoutes.findAll.roles = {"ADMIN", "SUPER_ADMIN"}
  /\ SummaryRoutes.management.roles = Finance
  /\ StatementRoutes.trialBalance.roles = Finance
  /\ StatementRoutes.generalLedger.roles = Finance
  /\ StatementRoutes.profitAndLoss.roles = Finance
  /\ StatementRoutes.balanceSheet.roles = Finance
  /\ StatementRoutes.cashBook.roles = Finance
  /\ StatementRoutes.cashFlowStatement.roles = Finance
  /\ StatementRoutes.investorLiabilities.roles = Finance
  /\ StatementRoutes.investorRoi.roles = Finance
  /\ StatementRoutes.investmentReceivables.roles = Finance
  /\ InvestorReportRoutes.statement.roles = {"INVESTOR"} \cup Finance
  /\ InvestorReportRoutes.roiStatement.roles = {"INVESTOR"} \cup Finance
  /\ InvestorReportRoutes.repaymentStatement.roles = {"INVESTOR"} \cup Finance
  /\ ReconciliationRoutes.findItems.roles = Finance
  /\ DepositRoutes.findAll.permission = "DEPOSITS:VIEW"
  /\ WithdrawalRoutes.findAll.permission = "WITHDRAWALS:VIEW"
  /\ RepaymentRoutes.findAll.permission = "REPAYMENTS:VIEW"
  /\ ReconciliationRoutes.findAll.permission = "RECONCILIATION:VIEW"
  /\ ReconciliationRoutes.findItems.permission = "RECONCILIATION:VIEW"
  BY DEF InvestorRoutes, WalletRoutes, OpportunityRoutes, ProductRoutes, CompanyRoutes, InvestmentRoutes,
     RepaymentRoutes, DepositRoutes, WithdrawalRoutes, ReconciliationRoutes, SummaryRoutes,
     StatementRoutes, InvestorReportRoutes, AccountRoutes, RoleRoutes, UserRoutes, AuthRoutes,
     AnyToken, Read, Route, Nothing

LEMMA ReadersSuit ==
  /\ \A h \in {"useMyInvestor", "useWalletPosition", "useWalletTransactions",
                "useOpportunities", "useOpportunity", "useInvestments", "useInvestment",
                "useDeposits", "useWithdrawals", "useInvestorStatement", "useRoiStatement",
                "useRepaymentStatement"} :
           Suits(Investors, Rule(h).roles)
  /\ \A h \in {"useManagementReport", "useInvestorsDirectory", "useDeposits",
                "useInvestments", "useRepayments", "useReconciliations",
                "useReconciliationItems", "useAccounts", "useTrialBalance", "useGeneralLedger",
                "useProfitAndLoss", "useBalanceSheet", "useCashBook", "useCashFlowStatement",
                "useInvestorLiabilities", "useInvestorRoiReport", "useInvestmentReceivables"} :
           Suits(Finance, Rule(h).roles)
  /\ \A h \in {"useWithdrawals"} :
           Suits({"APPROVER"} \cup Finance, Rule(h).roles)
  /\ \A h \in {"useInvestorsDirectory", "useInvestor", "useWalletPosition"} :
           Suits(Directory, Rule(h).roles)
  /\ \A h \in {"useOpportunities", "useProducts", "useCompanies"} :
           Suits(Management, Rule(h).roles)
  /\ \A h \in {"useRoles", "useStaffUsers"} :
           Suits({"ADMIN", "SUPER_ADMIN"}, Rule(h).roles)
  BY HookRoutes, RouteRules DEF Suits, Investors, Directory, Finance, Management, AnyWallet

LEMMA PermissionsSuit ==
  /\ Rule("useDeposits").permission = "DEPOSITS:VIEW"
  /\ Rule("useWithdrawals").permission = "WITHDRAWALS:VIEW"
  /\ Rule("useRepayments").permission = "REPAYMENTS:VIEW"
  /\ Rule("useReconciliations").permission = "RECONCILIATION:VIEW"
  /\ Rule("useReconciliationItems").permission = "RECONCILIATION:VIEW"
  BY HookRoutes, RouteRules

LEMMA WritersSuit ==
  /\ \A f \in {"requestDeposit", "requestWithdrawal", "invest"} : Suits(Investors, Reached(f).roles)
  /\ \A f \in {"approveInvestor"} : Suits({"ADMIN", "SUPER_ADMIN", "COMPLIANCE_OFFICER"}, Reached(f).roles)
  /\ \A f \in {"approveDeposit", "rejectDeposit", "completeWithdrawal", "accrueRoi",
                "recordRepayment", "disburseRepayments", "runReconciliation",
                "markInvestmentDefaulted", "createAccount", "updateAccount"} :
                Suits(Finance, Reached(f).roles)
  /\ \A f \in {"approveWithdrawal"} : Suits({"APPROVER", "ADMIN", "SUPER_ADMIN"}, Reached(f).roles)
  /\ \A f \in {"rejectWithdrawal"} : Suits({"APPROVER"} \cup Finance, Reached(f).roles)
  /\ \A f \in {"createOpportunity", "createProduct", "createCompany"} : Suits(Management, Reached(f).roles)
  /\ \A f \in {"createRole", "updateRole", "updateRolePermissions", "deleteRole"} :
       Suits({"SUPER_ADMIN"}, Reached(f).roles)
  /\ \A f \in {"createStaffUser", "updateStaffUser", "deleteStaffUser"} :
       Suits({"ADMIN", "SUPER_ADMIN"}, Reached(f).roles)
  /\ \A f \in {"changePassword"} : Suits({}, Reached(f).roles)
  BY WriteCalls DEF Suits, Investors, Finance, Management, InvestorRoutes, AuthRoutes,
     OpportunityRoutes, ProductRoutes, CompanyRoutes, InvestmentRoutes, RepaymentRoutes,
     DepositRoutes, WithdrawalRoutes, ReconciliationRoutes, AccountRoutes, RoleRoutes,
     UserRoutes, Write, Route

CallsSuit(held, m) == \A i \in DOMAIN m.calls : Suits(held, Reached(m.calls[i]).roles)

LEMMA OneSuits ==
  ASSUME NEW held, NEW f, NEW keys, Suits(held, Reached(f).roles)
  PROVE  CallsSuit(held, Mutation(<<f>>, keys))
<1>1. \A i \in DOMAIN <<f>> : <<f>>[i] = f
  OBVIOUS
<1> QED
  BY <1>1 DEF CallsSuit, Mutation

LEMMA TwoSuit ==
  ASSUME NEW held, NEW f, NEW g, NEW keys, Suits(held, Reached(f).roles), Suits(held, Reached(g).roles)
  PROVE  CallsSuit(held, Mutation(<<f, g>>, keys))
<1>1. \A i \in DOMAIN <<f, g>> : <<f, g>>[i] = f \/ <<f, g>>[i] = g
  OBVIOUS
<1> QED
  BY <1>1 DEF CallsSuit, Mutation

\* A panel everyone let in is shown, and one whose buttons ask for roles.
LEMMA OpenPanel ==
  ASSUME NEW p, NEW Q, NEW O, ~Alone(p) \/ O = {},
         \A h \in Q : Suits(AllPages[p].roles, Rule(h).roles),
         Alone(p) => \A h \in Q : Rule(h).permission = AllPages[p].permission,
         \A m \in O : CallsSuit(AllPages[p].roles, m)
  PROVE  PanelSuits(p, Panel({}, Q, O))
  BY DEF PanelSuits, CallsSuit, Panel

LEMMA GatedPanel ==
  ASSUME NEW p, NEW R, NEW Q, NEW O, R # {},
         \A h \in Q : Suits(R, Rule(h).roles), \A m \in O : CallsSuit(R, m)
  PROVE  PanelSuits(p, Panel(R, Q, O))
  BY DEF PanelSuits, CallsSuit, Panel

LEMMA PageRoles ==
  /\ \A p \in DOMAIN InvestorPages \cup DOMAIN StatementPages :
       AllPages[p].roles = Investors /\ AllPages[p].permission = Nothing
  /\ \A p \in DOMAIN ReportPages :
       AllPages[p].roles = Finance /\ AllPages[p].permission = "REPORTS:VIEW"
  /\ \A p \in DOMAIN CataloguePages :
       AllPages[p].roles = Management /\ AllPages[p].permission = Nothing
  /\ \A p \in {"/admin/dashboard", "/admin/finance"} :
       AllPages[p].roles = Finance /\ AllPages[p].permission = Nothing
  /\ \A p \in {"/admin/investors", "/admin/investors/id"} :
       AllPages[p].roles = Directory /\ AllPages[p].permission = "INVESTORS:VIEW"
  /\ AllPages["/admin/deposits"].roles = Finance
  /\ AllPages["/admin/deposits"].permission = "DEPOSITS:VIEW"
  /\ AllPages["/admin/withdrawals"].roles = {"APPROVER"} \cup Finance
  /\ AllPages["/admin/withdrawals"].permission = "WITHDRAWALS:VIEW"
  /\ AllPages["/admin/repayments"].roles = Finance
  /\ AllPages["/admin/repayments"].permission = "REPAYMENTS:VIEW"
  /\ AllPages["/admin/reconciliation"].roles = Finance
  /\ AllPages["/admin/reconciliation"].permission = "RECONCILIATION:VIEW"
  /\ AllPages["/admin/platform"].roles = {"ADMIN", "SUPER_ADMIN"}
  /\ AllPages["/admin/platform"].permission = Nothing
  /\ AllPages[AccountPage].roles = {} /\ AllPages[AccountPage].permission = Nothing
<1>1. /\ \A p \in DOMAIN InvestorPages \cup DOMAIN StatementPages :
           AllPages[p].roles = Investors /\ AllPages[p].permission = Nothing
      /\ \A p \in DOMAIN CataloguePages :
           AllPages[p].roles = Management /\ AllPages[p].permission = Nothing
  BY GroupDomains, InvestorPagesAre, StatementPagesAre, CataloguePagesAre DEF Page
<1>2. \A p \in DOMAIN ReportPages :
        AllPages[p].roles = Finance /\ AllPages[p].permission = "REPORTS:VIEW"
  BY GroupDomains, ReportPagesAre DEF Page
<1> QED
  BY <1>1, <1>2, AdminPagesAre, PageGroups DEF Page

PageSuits(p) == \A x \in AllPages[p].panels : PanelSuits(p, x)

LEMMA ViewsSuit ==
  ASSUME NEW p, NEW Q, AllPages[p].panels = View(Q),
         \A h \in Q : Suits(AllPages[p].roles, Rule(h).roles), ~Alone(p)
  PROVE  PageSuits(p)
<1>1. PanelSuits(p, Panel({}, Q, {}))
  BY OpenPanel
<1> QED
  BY <1>1 DEF PageSuits, View

LEMMA InvestorPagesSuit ==
  \A p \in DOMAIN InvestorPages \cup DOMAIN StatementPages : PageSuits(p)
<1> DEFINE mine == {"useMyInvestor", "useWalletPosition", "useWalletTransactions",
                    "useOpportunities", "useOpportunity", "useInvestments", "useInvestment",
                    "useDeposits", "useWithdrawals", "useInvestorStatement", "useRoiStatement",
                    "useRepaymentStatement"}
<1>1. \A p \in DOMAIN InvestorPages \cup DOMAIN StatementPages :
        AllPages[p].roles = Investors /\ ~Alone(p)
  BY PageRoles DEF Alone
<1>2. \A h \in mine : Suits(Investors, Rule(h).roles)
  BY ReadersSuit
<1>3. \A p \in DOMAIN InvestorPages \ Offering : \E Q : AllPages[p].panels = View(Q) /\ Q \subseteq mine
  BY GroupDomains, InvestorPagesAre
     DEF Offering, Page, DashboardContent, OpportunitiesContent, PortfolioContent,
         InvestmentDetail, TransactionsContent, StatementsContent, StatementTab
<1>4. \A p \in DOMAIN StatementPages : \E Q : AllPages[p].panels = View(Q) /\ Q \subseteq mine
  BY GroupDomains, StatementPagesAre DEF Page, StatementsContent, StatementTab
<1> HIDE DEF mine
<1>5. \A p \in DOMAIN InvestorPages \ Offering : PageSuits(p)
  BY <1>1, <1>2, <1>3, ViewsSuit
<1>6. \A p \in DOMAIN StatementPages : PageSuits(p)
  BY <1>1, <1>2, <1>4, ViewsSuit
<1>7. /\ \A keys : CallsSuit(Investors, Mutation(<<"requestDeposit">>, keys))
      /\ \A keys : CallsSuit(Investors, Mutation(<<"requestWithdrawal">>, keys))
      /\ \A keys : CallsSuit(Investors, Mutation(<<"invest">>, keys))
  BY WritersSuit, OneSuits
<1>8. PageSuits("/deposits")
  <2>1. AllPages["/deposits"].roles = Investors /\ ~Alone("/deposits")
    BY <1>1, GroupDomains
  <2>2. PanelSuits("/deposits", Panel({}, {"useMyInvestor", "useWalletPosition", "useDeposits"},
                                     {Mutation(<<"requestDeposit">>, {<<"deposits">>})}))
    BY <2>1, <1>2, <1>7, OpenPanel DEF mine
  <2> QED
    BY <2>2, PanelsAre DEF PageSuits, DepositsContent
<1>9. PageSuits("/withdrawals")
  <2>1. AllPages["/withdrawals"].roles = Investors /\ ~Alone("/withdrawals")
    BY <1>1, GroupDomains
  <2>2. PanelSuits("/withdrawals",
          Panel({}, {"useMyInvestor", "useWalletPosition", "useWithdrawals"},
                {Mutation(<<"requestWithdrawal">>, {<<"withdrawals">>, <<"wallet">>})}))
    BY <2>1, <1>2, <1>7, OpenPanel DEF mine
  <2> QED
    BY <2>2, PanelsAre DEF PageSuits, WithdrawalsContent
<1>10. PageSuits("/opportunities/id")
  <2>1. AllPages["/opportunities/id"].roles = Investors /\ ~Alone("/opportunities/id")
    BY <1>1, GroupDomains
  <2>2. PanelSuits("/opportunities/id",
          Panel({}, {"useOpportunity", "useMyInvestor", "useWalletPosition"},
                {Mutation(<<"invest">>, {<<"wallet">>, <<"investments">>})}))
    BY <2>1, <1>2, <1>7, OpenPanel DEF mine
  <2> QED
    BY <2>2, PanelsAre DEF PageSuits, OpportunityDetail
<1> QED
  BY <1>5, <1>6, <1>8, <1>9, <1>10, GroupDomains DEF Offering

LEMMA ReportPagesSuit == \A p \in DOMAIN ReportPages : PageSuits(p)
<1> DEFINE theirs == {"useManagementReport", "useInvestments", "useAccounts", "useTrialBalance",
                      "useGeneralLedger", "useProfitAndLoss", "useBalanceSheet", "useCashBook",
                      "useCashFlowStatement", "useInvestorLiabilities", "useInvestorRoiReport",
                      "useInvestmentReceivables"}
<1>1. \A p \in DOMAIN ReportPages : AllPages[p].roles = Finance /\ ~Alone(p)
  BY PageRoles DEF Alone
<1>2. \A h \in theirs : Suits(Finance, Rule(h).roles)
  BY ReadersSuit
<1>3. \A p \in DOMAIN ReportPages \ (Offering \cup {"/admin/reports"}) :
        \E Q : AllPages[p].panels = View(Q) /\ Q \subseteq theirs
  BY GroupDomains, ReportPagesAre DEF Offering, Page
<1> HIDE DEF theirs
<1>4. \A p \in DOMAIN ReportPages \ (Offering \cup {"/admin/reports"}) : PageSuits(p)
  BY <1>1, <1>2, <1>3, ViewsSuit
<1>5. PageSuits("/admin/reports")
  BY ReportPagesAre DEF PageSuits, Page
<1>6. PageSuits("/admin/reports/management")
  <2> DEFINE p == "/admin/reports/management"
  <2>1. AllPages[p].roles = Finance /\ ~Alone(p)
    BY <1>1, GroupDomains
  <2>2. \A keys : CallsSuit(Finance, Mutation(<<"markInvestmentDefaulted">>, keys))
    BY WritersSuit, OneSuits
  <2>3. PanelSuits(p, Panel({}, {"useManagementReport"}, {}))
    BY <2>1, <1>2, OpenPanel DEF theirs
  <2>4. PanelSuits(p, Panel({}, {"useInvestments"}, {Mutation(<<"markInvestmentDefaulted">>,
                                {<<"reports", "management">>, <<"investments">>})}))
    BY <2>1, <2>2, <1>2, OpenPanel DEF theirs
  <2> QED
    BY <2>3, <2>4, PanelsAre DEF PageSuits, ManagementReport, MarkDefaultedForm, View
<1> QED
  BY <1>4, <1>5, <1>6, GroupDomains DEF Offering

LEMMA CataloguePagesSuit == \A p \in DOMAIN CataloguePages : PageSuits(p)
<1>1. \A p \in DOMAIN CataloguePages : AllPages[p].roles = Management /\ ~Alone(p)
  BY PageRoles DEF Alone
<1>2. /\ \A keys : CallsSuit(Management, Mutation(<<"createOpportunity">>, keys))
      /\ \A keys : CallsSuit(Management, Mutation(<<"createProduct">>, keys))
      /\ \A keys : CallsSuit(Management, Mutation(<<"createCompany">>, keys))
  BY WritersSuit, OneSuits
<1>3. ASSUME NEW p \in DOMAIN CataloguePages, NEW Q, NEW O,
             Q \subseteq {"useOpportunities", "useProducts", "useCompanies"},
             \A m \in O : CallsSuit(Management, m), AllPages[p].panels = {Panel({}, Q, O)}
      PROVE  PageSuits(p)
  <2>1. \A h \in Q : Suits(Management, Rule(h).roles)
    BY <1>3, ReadersSuit
  <2>2. PanelSuits(p, Panel({}, Q, O))
    <3>1. AllPages[p].roles = Management /\ ~Alone(p)
      BY <1>1
    <3> QED
      BY <1>3, <2>1, <3>1, OpenPanel
  <2> QED
    BY <1>3, <2>2 DEF PageSuits
<1>4. PageSuits("/admin/catalogue")
  BY <1>2, <1>3, PanelsAre, GroupDomains DEF OpportunitiesTab
<1>5. PageSuits("/admin/catalogue#products")
  BY <1>2, <1>3, PanelsAre, GroupDomains DEF ProductsTab
<1>6. PageSuits("/admin/catalogue#companies")
  BY <1>2, <1>3, PanelsAre, GroupDomains DEF CompaniesTab
<1> QED
  BY <1>4, <1>5, <1>6, GroupDomains

LEMMA QueuesSuit ==
  \A p \in {"/admin/deposits", "/admin/withdrawals", "/admin/repayments",
            "/admin/reconciliation"} : PageSuits(p)
<1> DEFINE finances(f) == \A keys : CallsSuit(Finance, Mutation(<<f>>, keys))
<1>1. /\ finances("approveDeposit") /\ finances("rejectDeposit")
      /\ finances("completeWithdrawal") /\ finances("accrueRoi")
      /\ finances("recordRepayment") /\ finances("disburseRepayments")
      /\ finances("runReconciliation")
  BY WritersSuit, OneSuits
<1>2. Finance # {}
  BY DEF Finance
<1>3. PageSuits("/admin/deposits")
  <2> DEFINE p == "/admin/deposits"
             keys == {<<"deposits">>, <<"wallet">>, <<"reports">>}
  <2>1. PanelSuits(p, Panel({}, {"useDeposits"}, {}))
    BY PageRoles, ReadersSuit, PermissionsSuit, OpenPanel
  <2>2. PanelSuits(p, Panel(Finance, {}, {Mutation(<<"approveDeposit">>, keys),
                                          Mutation(<<"rejectDeposit">>, keys)}))
    BY <1>1, <1>2, GatedPanel
  <2> QED
    BY <2>1, <2>2, PanelsAre DEF PageSuits, DepositsQueue, View
<1>4. PageSuits("/admin/withdrawals")
  <2> DEFINE p == "/admin/withdrawals"
             keys == {<<"withdrawals">>, <<"wallet">>, <<"reports">>}
  <2>1. PanelSuits(p, Panel({}, {"useWithdrawals"}, {}))
    BY PageRoles, ReadersSuit, PermissionsSuit, OpenPanel
  <2>2. PanelSuits(p, Panel({"APPROVER", "ADMIN", "SUPER_ADMIN"}, {},
                            {Mutation(<<"approveWithdrawal">>, keys)}))
    <3>1. CallsSuit({"APPROVER", "ADMIN", "SUPER_ADMIN"}, Mutation(<<"approveWithdrawal">>, keys))
      BY WritersSuit, OneSuits
    <3> QED
      BY <3>1, GatedPanel
  <2>3. PanelSuits(p, Panel(Finance, {}, {Mutation(<<"completeWithdrawal">>, keys)}))
    BY <1>1, <1>2, GatedPanel
  <2>4. PanelSuits(p, Panel({"APPROVER"} \cup Finance, {},
                            {Mutation(<<"rejectWithdrawal">>, keys)}))
    <3>1. CallsSuit({"APPROVER"} \cup Finance, Mutation(<<"rejectWithdrawal">>, keys))
      BY WritersSuit, OneSuits
    <3> QED
      BY <3>1, GatedPanel
  <2> QED
    BY <2>1, <2>2, <2>3, <2>4, PanelsAre DEF PageSuits, WithdrawalsQueue, View
<1>5. PageSuits("/admin/repayments")
  <2> DEFINE p == "/admin/repayments"
  <2>1. PanelSuits(p, Panel({}, {"useRepayments"}, {}))
    BY PageRoles, ReadersSuit, PermissionsSuit, OpenPanel
  <2>2. PanelSuits(p, Panel(Finance, {}, {Mutation(<<"disburseRepayments">>,
                                          {<<"repayments">>, <<"wallet">>, <<"reports">>})}))
    BY <1>1, <1>2, GatedPanel
  <2>3. PanelSuits(p, Panel(Finance, {"useInvestments"},
          {Mutation(<<"accrueRoi">>, {<<"investments">>}),
           Mutation(<<"recordRepayment">>, {<<"repayments">>, <<"investments">>})}))
    <3>1. Suits(Finance, Rule("useInvestments").roles)
      BY ReadersSuit
    <3> QED
      BY <1>1, <1>2, <3>1, GatedPanel
  <2> QED
    BY <2>1, <2>2, <2>3, PanelsAre DEF PageSuits, RecordRepaymentForm, DisbursementQueue, View
<1>6. PageSuits("/admin/reconciliation")
  <2> DEFINE p == "/admin/reconciliation"
  <2>1. PanelSuits(p, Panel({}, {"useReconciliations", "useReconciliationItems"}, {}))
    BY PageRoles, ReadersSuit, PermissionsSuit, OpenPanel
  <2>2. PanelSuits(p, Panel(Finance, {}, {Mutation(<<"runReconciliation">>,
                                                   {<<"reconciliation">>})}))
    BY <1>1, <1>2, GatedPanel
  <2> QED
    BY <2>1, <2>2, PanelsAre DEF PageSuits, ReconciliationContent, View
<1> QED
  BY <1>3, <1>4, <1>5, <1>6

LEMMA AdminPagesSuit ==
  \A p \in {"/admin/dashboard", "/admin/investors", "/admin/investors/id", "/admin/finance",
            "/admin/platform", "/account/change-password"} : PageSuits(p)
<1> DEFINE may(held, f) == \A keys : CallsSuit(held, Mutation(<<f>>, keys))
<1>1. \A p \in {"/admin/dashboard", "/admin/investors", "/admin/investors/id", "/admin/finance",
                "/admin/platform", "/account/change-password"} : ~Alone(p)
  BY PageRoles DEF Alone, AccountPage
<1>2. PageSuits("/admin/dashboard")
  <2>1. AllPages["/admin/dashboard"].panels = View({"useManagementReport", "useInvestorsDirectory"})
    BY AdminPagesAre DEF Page, AdminDashboard
  <2> QED
    BY <1>1, <2>1, PageRoles, ReadersSuit, ViewsSuit
<1>3. PageSuits("/admin/investors")
  <2>1. AllPages["/admin/investors"].panels = View({"useInvestorsDirectory"})
    BY AdminPagesAre DEF Page, InvestorsDirectory
  <2> QED
    BY <1>1, <2>1, PageRoles, ReadersSuit, ViewsSuit
<1>4. PageSuits("/admin/investors/id")
  <2> DEFINE p == "/admin/investors/id"
             officers == {"ADMIN", "SUPER_ADMIN", "COMPLIANCE_OFFICER"}
  <2>1. PanelSuits(p, Panel({}, {"useInvestor", "useWalletPosition", StatementTab["investor"]}, {}))
    <3>1. \A h \in {"useInvestor", "useWalletPosition"} :
            Suits(AllPages[p].roles, Rule(h).roles)
      BY PageRoles, ReadersSuit
    <3> QED
      BY <1>1, <3>1 DEF PanelSuits, Panel
  <2>2. PanelSuits(p, Panel(officers, {}, {Mutation(<<"approveInvestor">>, {<<"investors">>})}))
    <3>1. may(officers, "approveInvestor")
      BY WritersSuit, OneSuits
    <3> QED
      BY <3>1, GatedPanel
  <2> QED
    BY <2>1, <2>2, PanelsAre DEF PageSuits, InvestorDetail, View
<1>5. PageSuits("/admin/finance")
  <2> DEFINE p == "/admin/finance"
  <2>1. may(Finance, "createAccount") /\ may(Finance, "updateAccount")
    BY WritersSuit, OneSuits
  <2>2. AllPages[p].roles = Finance /\ Suits(Finance, Rule("useAccounts").roles)
    BY PageRoles, ReadersSuit
  <2>3. /\ PanelSuits(p, Panel({}, {"useAccounts"}, {}))
        /\ PanelSuits(p, Panel({}, {}, {Mutation(<<"createAccount">>, {<<"accounts">>})}))
        /\ PanelSuits(p, Panel({}, {}, {Mutation(<<"updateAccount">>, {<<"accounts">>})}))
    BY <1>1, <2>1, <2>2, OpenPanel
  <2> QED
    BY <2>3, PanelsAre
       DEF PageSuits, ChartOfAccountsTable, CreateGlAccountForm, CreateSubLedgerForm, AccountRow, View
<1>6. PageSuits("/admin/platform")
  <2> DEFINE p == "/admin/platform"
             admins == {"ADMIN", "SUPER_ADMIN"}
             supers == {"SUPER_ADMIN"}
             staff == {<<"users", "staff">>}
             roles == {<<"roles">>}
  <2>1. /\ may(supers, "createRole") /\ may(supers, "deleteRole")
        /\ may(admins, "createStaffUser") /\ may(admins, "updateStaffUser")
        /\ may(admins, "deleteStaffUser")
    BY WritersSuit, OneSuits
  <2>2. CallsSuit(supers, Mutation(<<"updateRole", "updateRolePermissions">>, roles))
    BY WritersSuit, TwoSuit
  <2>3. /\ AllPages[p].roles = admins /\ supers # {}
        /\ Suits(admins, Rule("useRoles").roles) /\ Suits(admins, Rule("useStaffUsers").roles)
    BY PageRoles, ReadersSuit
  <2>4. /\ PanelSuits(p, Panel({}, {"useRoles"}, {}))
        /\ PanelSuits(p, Panel({}, {"useStaffUsers"}, {}))
    BY <1>1, <2>3, OpenPanel
  <2>5. /\ PanelSuits(p, Panel({}, {}, {Mutation(<<"createStaffUser">>, staff)}))
        /\ PanelSuits(p, Panel({}, {}, {Mutation(<<"updateStaffUser">>, staff),
                                        Mutation(<<"deleteStaffUser">>, staff)}))
    BY <1>1, <2>1, <2>3, OpenPanel
  <2>6. /\ PanelSuits(p, Panel(supers, {}, {Mutation(<<"createRole">>, roles)}))
        /\ PanelSuits(p, Panel(supers, {},
             {Mutation(<<"updateRole", "updateRolePermissions">>, roles),
              Mutation(<<"deleteRole">>, roles)}))
    BY <2>1, <2>2, <2>3, GatedPanel
  <2> QED
    BY <2>4, <2>5, <2>6, PanelsAre
       DEF PageSuits, CategoriesTable, CreateCategoryForm, CategoryRow, StaffDirectory,
           CreateStaffUserForm, StaffRow, View
<1>7. PageSuits("/account/change-password")
  <2> DEFINE p == "/account/change-password"
  <2>1. AllPages[p].roles = {} /\ may({}, "changePassword")
    BY PageRoles, WritersSuit, OneSuits DEF AccountPage
  <2>2. PanelSuits(p, Panel({}, {}, {Mutation(<<"changePassword">>, {})}))
    BY <1>1, <2>1, OpenPanel
  <2> QED
    BY <2>2, PanelsAre DEF PageSuits, ChangePasswordForm
<1> QED
  BY <1>2, <1>3, <1>4, <1>5, <1>6, <1>7

LEMMA PagesSuit == \A p \in DOMAIN AllPages : PageSuits(p)
  BY InvestorPagesSuit, ReportPagesSuit, CataloguePagesSuit, QueuesSuit, AdminPagesSuit,
     AllViews, GroupDomains DEF AccountPage

\* A page mounts and offers to whoever it lets in only what the API grants him.
LEMMA PagesGranted ==
  ASSUME NEW p \in DOMAIN AllPages, NEW c, Suitable(c), LetsIn(p, c)
  PROVE  /\ \A h \in Mounted(p, c) :
              Admits(Rule(h), c) \/ (p = "/admin/investors/id" /\ h = StatementTab["investor"])
         /\ \A m \in Offered(p, c) : \A i \in DOMAIN m.calls : Admits(Reached(m.calls[i]), c)
<1> DEFINE R == AllPages[p].roles
           P == AllPages[p].permission
<1>1. ASSUME NEW held, NEW rule, Suits(held, rule.roles), held = {} \/ held \cap c.roles # {}
      PROVE  Admits(rule, c)
  BY <1>1 DEF Suits, Admits
<1>2. /\ P = "REPORTS:VIEW" => R = Finance
      /\ P = "INVESTORS:VIEW" => R = Directory
  BY PageRoles, AllViews, GroupDomains DEF Nothing
<1>3. R = {} \/ R \cap c.roles # {} \/ (Alone(p) /\ P # Nothing /\ P \in c.permissions)
  BY <1>2 DEF LetsIn, Admits, Suitable, Alone
<1>4. ASSUME NEW x \in Panels(p, c)
      PROVE  /\ \A h \in x.queries :
                  Admits(Rule(h), c) \/ (p = "/admin/investors/id" /\ h = StatementTab["investor"])
             /\ \A m \in x.offers : \A i \in DOMAIN m.calls : Admits(Reached(m.calls[i]), c)
  <2>1. PanelSuits(p, x) /\ (x.roles = {} \/ x.roles \cap c.roles # {})
    BY PagesSuit DEF PageSuits, Panels
  <2>2. CASE x.roles # {}
    BY <1>1, <2>1, <2>2 DEF PanelSuits
  <2>3. CASE x.roles = {} /\ (R = {} \/ R \cap c.roles # {})
    BY <1>1, <2>1, <2>3 DEF PanelSuits
  <2>4. CASE x.roles = {} /\ Alone(p) /\ P # Nothing /\ P \in c.permissions
    BY <2>1, <2>4 DEF PanelSuits, Admits
  <2> QED
    BY <1>3, <2>1, <2>2, <2>3, <2>4
<1> QED
  BY <1>4 DEF Mounted, Offered
-----------------------------------------------------------------------------
LEMMA OpensGranted ==
  ASSUME NEW p \in Paths, NEW claims, asked' = Opening(p, claims) \/ DOMAIN asked' = {},
         write'.state # "sent"
  PROVE  OnlyWhatIsGranted'
<1>1. \A h \in DOMAIN asked' : asked'[h] = Fresh
  BY OpensFresh
<1> QED
  BY <1>1 DEF OnlyWhatIsGranted, Fresh

\* A step that moves no query to a refusal and leaves the session alone.
LEMMA NothingDenied ==
  ASSUME OnlyWhatIsGranted, UNCHANGED <<page, session>>, DOMAIN asked' = DOMAIN asked,
         \A h \in DOMAIN asked : asked'[h].fetch = "denied" => asked[h].fetch = "denied",
         write' = write \/ write'.state # "sent"
  PROVE  OnlyWhatIsGranted'
  BY DEF OnlyWhatIsGranted

LEMMA HoldersSuit ==
  ASSUME \A c \in Tokens : Suitable(c), TabInv, session # SignedOut
  PROVE  Suitable(session)
  BY DEF TabInv, Shape, Holders, Suitable, Claims

LEMMA SessionGrants ==
  ASSUME TabInv, OnlyWhatIsGranted, Session
  PROVE  OnlyWhatIsGranted'
<1>1. IsWrite(write)
  BY DEF TabInv, Shape
<1>2. ASSUME NEW claims, NEW to, page \in AuthRoutePages, Enter(claims, to)
      PROVE  OnlyWhatIsGranted'
  <2>1. DOMAIN asked' = {}
    BY <1>2 DEF TabInv, MountedFits, Enter, Unguarded
  <2>2. write'.state # "sent"
    BY <1>1, <1>2, LeftFits DEF Enter
  <2> QED
    BY <2>1, <2>2 DEF OnlyWhatIsGranted
<1>3. CASE \E claims \in Tokens : SignIn(claims)
  BY <1>2, <1>3 DEF SignIn, AuthRoutePages
<1>4. CASE Register
  BY <1>2, <1>4 DEF Register, AuthRoutePages
<1>5. CASE LogOut
  <2>1. DOMAIN asked' = {}
    <3>1. DOMAIN << >> = {}
      OBVIOUS
    <3> QED
      BY <1>5, <3>1 DEF LogOut
  <2>2. write'.state # "sent"
    BY <1>1, <1>5, LeftFits DEF LogOut
  <2> QED
    BY <2>1, <2>2 DEF OnlyWhatIsGranted
<1>6. CASE Expire
  BY <1>6, NothingDenied DEF Expire
<1>7. CASE Reload
  <2>1. "/login" \in Paths
    BY Marks DEF Unguarded, AuthRoutePages
  <2> QED
    BY <1>7, <2>1, NoWriteFits, OpensGranted DEF Reload, LoadPage
<1> QED
  BY <1>3, <1>4, <1>5, <1>6, <1>7 DEF Session

LEMMA MovingGrants ==
  ASSUME TabInv, OnlyWhatIsGranted, Moving, page' \in Paths
  PROVE  OnlyWhatIsGranted'
<1>1. ASSUME NEW p, Mount(p, session) PROVE OnlyWhatIsGranted'
  <2>1. write'.state # "sent"
    BY <1>1, LeftFits DEF Mount, TabInv, Shape
  <2> QED
    BY <1>1, <2>1, OpensGranted DEF Mount
<1>2. ASSUME NEW p \in Paths, Load(p) PROVE OnlyWhatIsGranted'
  BY <1>2, NoWriteFits, OpensGranted DEF Load, LoadPage
<1>3. CASE SwitchTab
  <2>1. PICK tabs \in Tabs : \E p \in tabs \ {page} :
         /\ page \in tabs /\ page' = p
         /\ asked' = [h \in Mounted(p, session) |-> IF h \in DOMAIN asked THEN asked[h] ELSE Fresh]
    BY <1>3 DEF SwitchTab
  <2>2. page # "/admin/investors/id"
    BY <2>1, GroupDomains DEF Tabs
  <2>3. \A h \in DOMAIN asked : asked[h].fetch # "denied"
    BY <2>2 DEF OnlyWhatIsGranted
  <2>4. \A h \in DOMAIN asked' : asked'[h].fetch # "denied"
    BY <2>1, <2>3 DEF Fresh
  <2> QED
    BY <1>3, <2>4 DEF SwitchTab, OnlyWhatIsGranted
<1> QED
  BY <1>1, <1>2, <1>3 DEF Moving, Redirect, LeaveHome, Push, Follow, ToRegister

LEMMA AskingGrants ==
  ASSUME \A c \in Tokens : Suitable(c), TabInv, OnlyWhatIsGranted, Asking
  PROVE  OnlyWhatIsGranted'
<1>1. \A h \in DOMAIN asked : IsEntry(asked[h])
  BY DEF TabInv, Shape
<1>2. ASSUME NEW h \in DOMAIN asked, Serve(h) PROVE OnlyWhatIsGranted'
  <2>1. /\ DOMAIN asked' = DOMAIN asked /\ UNCHANGED <<page, session, write>>
        /\ \A k \in DOMAIN asked : k # h => asked'[k] = asked[k]
    BY <1>2 DEF Serve, Ask
  <2>2. asked'[h].fetch = "denied" => ~Admits(Rule(h), session)
    BY <1>1, <1>2 DEF Serve, Ask, Rule, IsEntry
  <2>3. page \in DOMAIN AllPages /\ LetsIn(page, session) /\ h \in Mounted(page, session)
        /\ Suitable(session)
    BY HoldersSuit DEF TabInv, MountedFits
  <2>4. asked'[h].fetch = "denied" => page = "/admin/investors/id" /\ h = StatementTab["investor"]
    BY <2>2, <2>3, PagesGranted
  <2> QED
    BY <2>1, <2>4 DEF OnlyWhatIsGranted
<1>3. ASSUME NEW h \in DOMAIN asked, Receive(h) \/ Fail(h) \/ Refused(h) PROVE OnlyWhatIsGranted'
  <2>1. /\ DOMAIN asked' = DOMAIN asked /\ UNCHANGED <<page, session, write>>
        /\ \A k \in DOMAIN asked : k # h => asked'[k] = asked[k]
    BY <1>3 DEF Receive, Fail, Refused, Ask, SessionEnds
  <2>2. asked'[h].fetch # "denied"
    <3>1. CASE Receive(h)
      BY <3>1 DEF Receive, Ask
    <3>2. CASE Fail(h)
      BY <1>1, <3>2 DEF Fail, Ask, IsEntry
    <3>3. CASE Refused(h)
      BY <1>1, <3>3 DEF Refused, IsEntry
    <3> QED
      BY <1>3, <3>1, <3>2, <3>3
  <2> QED
    BY <2>1, <2>2, NothingDenied
<1>4. CASE LateAnswer \/ LateRefusal
  BY <1>4, NothingDenied DEF LateAnswer, LateRefusal, SessionEnds
<1> QED
  BY <1>2, <1>3, <1>4 DEF Asking

LEMMA WritingGrants ==
  ASSUME \A c \in Tokens : Suitable(c), TabInv, OnlyWhatIsGranted, Writing
  PROVE  OnlyWhatIsGranted'
<1>1. /\ \A h \in DOMAIN asked : IsEntry(asked[h])
      /\ IsWrite(write) /\ NoWrite.state # "sent"
  BY NoWriteFits DEF TabInv, Shape
<1>2. CASE Submit
  <2>1. PICK m \in Offered(page, session) :
          write' = [calls |-> m.calls, keys |-> m.keys, state |-> "sent", old |-> FALSE,
                    to |-> IF m.calls = <<"invest">> THEN "/portfolio" ELSE None]
    BY <1>2 DEF Submit
  <2>2. page \in DOMAIN AllPages /\ LetsIn(page, session) /\ Suitable(session)
    BY <1>2, Marks, HoldersSuit DEF Submit, TabInv, Shape
  <2>3. \A i \in DOMAIN m.calls : Admits(Reached(m.calls[i]), session)
    BY <2>2, PagesGranted
  <2>4. write'.calls = m.calls
    BY <2>1
  <2> QED
    BY <1>2, <2>3, <2>4 DEF Submit, OnlyWhatIsGranted
<1>3. CASE ServeWrite
  <2>1. /\ write.state = "sent" /\ UNCHANGED <<page, session>> /\ DOMAIN asked' = DOMAIN asked
        /\ write.calls # << >> /\ write.calls \in Seq(DOMAIN Calls)
    BY <1>1, <1>3 DEF ServeWrite, TabInv, WriteFits, IsWrite
  <2>2. write'.calls = Tail(write.calls)
    BY <1>1, <1>3 DEF ServeWrite, IsWrite
  <2>3. \A i \in DOMAIN Tail(write.calls) : i + 1 \in DOMAIN write.calls
                                            /\ Tail(write.calls)[i] = write.calls[i + 1]
    BY <2>1, TailOfCalls
  <2>4. ASSUME NEW h \in DOMAIN asked PROVE asked'[h].fetch = asked[h].fetch
    <3> DEFINE tables == Reads(h) \cap Reached(Head(write.calls)).writes
    <3>1. asked'[h] = Misses(asked[h], tables)
      BY <1>3 DEF ServeWrite
    <3> HIDE DEF tables
    <3> QED
      BY <1>1, <3>1 DEF Misses, IsEntry
  <2> QED
    BY <2>1, <2>2, <2>3, <2>4 DEF OnlyWhatIsGranted
<1>4. CASE RefuseWrite
  BY <1>1, <1>4, NothingDenied DEF RefuseWrite, SessionEnds
<1>5. CASE FailWrite
  <2>1. ASSUME NEW h \in DOMAIN asked PROVE asked'[h].fetch = asked[h].fetch
    BY <1>1, <1>5 DEF FailWrite, IsEntry
  <2>2. DOMAIN asked' = DOMAIN asked /\ UNCHANGED <<page, session>> /\ write' = NoWrite
    BY <1>5 DEF FailWrite
  <2> QED
    BY <1>1, <2>1, <2>2, NothingDenied
<1>6. ASSUME NEW hooks, AskAgain(hooks) PROVE OnlyWhatIsGranted'
  <2>1. ASSUME NEW h \in DOMAIN asked
        PROVE  asked'[h].fetch = "denied" => asked[h].fetch = "denied"
    BY <1>1, <1>6 DEF AskAgain, IsEntry
  <2>2. DOMAIN asked' = DOMAIN asked /\ UNCHANGED <<page, session>> /\ write' = NoWrite
    BY <1>6 DEF AskAgain
  <2> QED
    BY <1>1, <2>1, <2>2, NothingDenied
<1>7. CASE LeftWriteFails
  BY <1>1, <1>7, NothingDenied DEF LeftWriteFails
<1> QED
  BY <1>2, <1>3, <1>4, <1>5, <1>6, <1>7 DEF Writing, WriteDone, LeftWriteDone

(* Whatever users sign in, but for those let into reports or among investors *)
(* by a permission alone: no button of a page they are let into answers 403,  *)
(* and no view of it stays on "Loading...", but the statements of an         *)
(* investor's page (require-role.tsx, RolesGuard).                           *)
THEOREM PagesAskWhatIsGranted ==
  ASSUME \A c \in Tokens : Suitable(c)
  PROVE  Spec => []OnlyWhatIsGranted
<1>1. Init => OnlyWhatIsGranted
  <2>1. DOMAIN << >> = {}
    OBVIOUS
  <2> QED
    BY <2>1, NoWriteFits DEF Init, OnlyWhatIsGranted
<1>2. TabInv /\ TabInv' /\ OnlyWhatIsGranted /\ [Next]_vars => OnlyWhatIsGranted'
  <2> SUFFICES ASSUME TabInv, TabInv', OnlyWhatIsGranted, [Next]_vars
               PROVE  OnlyWhatIsGranted'
    OBVIOUS
  <2>1. page' \in Paths
    BY DEF TabInv, Shape
  <2>2. CASE Next
    BY <2>1, <2>2, SessionGrants, MovingGrants, AskingGrants, WritingGrants DEF Next
  <2>3. CASE UNCHANGED vars
    BY <2>3 DEF vars, OnlyWhatIsGranted
  <2> QED
    BY <2>2, <2>3
<1> QED
  BY <1>1, <1>2, TabInvHolds, PTL DEF Spec
=============================================================================
