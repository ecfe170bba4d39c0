------------------------------- MODULE Pages -------------------------------
(***************************************************************************)
(* The pages of the web front end: the queries each one mounts (the hooks  *)
(* of web/lib/hooks.ts, with their cache keys), the writes it offers and   *)
(* the keys it invalidates once such a write succeeds, the tokens its      *)
(* RequireRole lets in, and the links that leave it.  An id in a key or a  *)
(* path stands for any id; a tab of a page is a view "/page#tab".          *)
(***************************************************************************)
EXTENDS Access

\* The hooks: the key of the query and the function of the client it calls.
Query(key, call) == [key |-> key, call |-> call]
InvestorHooks ==
  [useMyInvestor |-> Query(<<"investors", "me">>, "getMyInvestor"),
   useInvestor |-> Query(<<"investors", "id">>, "getInvestor"),
   useWalletPosition |-> Query(<<"wallet", "position", "id">>, "getWalletPosition"),
   useWalletTransactions |-> Query(<<"wallet", "transactions", "id">>, "getWalletTransactions"),
   useOpportunities |-> Query(<<"opportunities">>, "listOpportunities"),
   useOpportunity |-> Query(<<"opportunities", "id">>, "getOpportunity"),
   useInvestments |-> Query(<<"investments", "id">>, "listInvestments"),
   useInvestment |-> Query(<<"investments", "detail", "id">>, "getInvestment"),
   useWithdrawals |-> Query(<<"withdrawals", "filters">>, "listWithdrawals"),
   useDeposits |-> Query(<<"deposits", "filters">>, "listDeposits"),
   useRepayments |-> Query(<<"repayments", "filters">>, "listRepayments"),
   useInvestorsDirectory |-> Query(<<"investors", "all">>, "listInvestors")]
AdminHooks ==
  [useReconciliations |-> Query(<<"reconciliation">>, "listReconciliations"),
   useProducts |-> Query(<<"products">>, "listProducts"),
   useCompanies |-> Query(<<"companies">>, "listCompanies"),
   useAccounts |-> Query(<<"accounts">>, "listAccounts"),
   useRoles |-> Query(<<"roles">>, "listRoles"),
   useStaffUsers |-> Query(<<"users", "staff">>, "listStaffUsers"),
   useManagementReport |-> Query(<<"reports", "management">>, "getManagementReport")]
ReportHooks ==
  [useTrialBalance |-> Query(<<"reports", "trial-balance">>, "getTrialBalance"),
   useGeneralLedger |-> Query(<<"reports", "general-ledger", "id">>, "getGeneralLedger"),
   useProfitAndLoss |-> Query(<<"reports", "profit-and-loss">>, "getProfitAndLoss"),
   useBalanceSheet |-> Query(<<"reports", "balance-sheet">>, "getBalanceSheet"),
   useCashBook |-> Query(<<"reports", "cash-book">>, "getCashBook"),
   useCashFlowStatement |-> Query(<<"reports", "cash-flow">>, "getCashFlowStatement"),
   useInvestorLiabilities |-> Query(<<"reports", "investor-liabilities">>, "getInvestorLiabilities"),
   useInvestorRoiReport |-> Query(<<"reports", "investor-roi">>, "getInvestorRoiReport"),
   useInvestmentReceivables |->
     Query(<<"reports", "investment-receivables">>, "getInvestmentReceivables"),
   useInvestorStatement |-> Query(<<"reports", "investor-statement", "id">>, "getInvestorStatement"),
   useRoiStatement |-> Query(<<"reports", "roi-statement", "id">>, "getRoiStatement"),
   useRepaymentStatement |->
     Query(<<"reports", "repayment-statement", "id">>, "getRepaymentStatement")]
ReconciliationItemsHook ==
  [useReconciliationItems |-> Query(<<"reconciliation", "id", "items">>, "getReconciliationItems")]
Hooks ==
  [hook \in DOMAIN InvestorHooks \cup DOMAIN AdminHooks \cup DOMAIN ReportHooks
              \cup DOMAIN ReconciliationItemsHook |->
     CASE hook \in DOMAIN InvestorHooks -> InvestorHooks[hook]
       [] hook \in DOMAIN AdminHooks    -> AdminHooks[hook]
       [] hook \in DOMAIN ReportHooks   -> ReportHooks[hook]
       [] hook \in DOMAIN ReconciliationItemsHook -> ReconciliationItemsHook[hook]]

----------------------------------------------------------------------------
(* Panels: the components a page is built of.  A panel (or, of a component *)
(* that hides its buttons behind hasRole, the buttons) is shown to holders *)
(* of one of `roles`, to everyone if it names none.                        *)
Mutation(calls, keys)         == [calls |-> calls, keys |-> keys]
Panel(roles, queries, offers) == [roles |-> roles, queries |-> queries, offers |-> offers]
View(queries)                 == {Panel({}, queries, {})}

\* The investor's own pages.
DashboardContent    == View({"useMyInvestor", "useWalletPosition", "useWalletTransactions"})
OpportunitiesContent == View({"useOpportunities"})
PortfolioContent    == View({"useMyInvestor", "useInvestments"})
InvestmentDetail    == View({"useInvestment"})
TransactionsContent == View({"useMyInvestor", "useWalletTransactions"})
DepositsContent ==
  {Panel({}, {"useMyInvestor", "useWalletPosition", "useDeposits"},
         {Mutation(<<"requestDeposit">>, {<<"deposits">>})})}
\* Mutant: the page forgets the wallet's position.
WithdrawalsContentWithoutWallet ==
  {Panel({}, {"useMyInvestor", "useWalletPosition", "useWithdrawals"},
         {Mutation(<<"requestWithdrawal">>, {<<"withdrawals">>})})}
WithdrawalsContent ==
  {Panel({}, {"useMyInvestor", "useWalletPosition", "useWithdrawals"},
         {Mutation(<<"requestWithdrawal">>, {<<"withdrawals">>, <<"wallet">>})})}
OpportunityDetail ==
  {Panel({}, {"useOpportunity", "useMyInvestor", "useWalletPosition"},
         {Mutation(<<"invest">>, {<<"wallet">>, <<"investments">>})})}

\* The six statements, one tab at a time.
StatementTab ==
  [investor |-> "useInvestorStatement", wallet |-> "useWalletTransactions",
   investment |-> "useInvestments", roi |-> "useRoiStatement",
   repayment |-> "useRepaymentStatement", withdrawal |-> "useWithdrawals"]
StatementsContent(tab) == View({"useMyInvestor", StatementTab[tab]})

\* The staff pages.
\* The investor's page opens on the first statement tab; the others are those of
\* StatementsContent.
InvestorDetail ==
  View({"useInvestor", "useWalletPosition", StatementTab["investor"]})
    \cup {Panel({"ADMIN", "SUPER_ADMIN", "COMPLIANCE_OFFICER"}, {},
                {Mutation(<<"approveInvestor">>, {<<"investors">>})})}
InvestorsDirectory == View({"useInvestorsDirectory"})
AdminDashboard     == View({"useManagementReport", "useInvestorsDirectory"})
DepositsQueue ==
  LET keys == {<<"deposits">>, <<"wallet">>, <<"reports">>} IN
  View({"useDeposits"})
    \cup {Panel(Finance, {}, {Mutation(<<"approveDeposit">>, keys), Mutation(<<"rejectDeposit">>, keys)})}
\* Mutant: one gate for all three buttons.
WithdrawalsQueueOneGate ==
  LET keys == {<<"withdrawals">>, <<"wallet">>, <<"reports">>} IN
  {Panel({"APPROVER"} \cup Finance, {"useWithdrawals"},
         {Mutation(<<call>>, keys) : call \in {"approveWithdrawal", "completeWithdrawal",
                                             "rejectWithdrawal"}})}
WithdrawalsQueue ==
  LET keys == {<<"withdrawals">>, <<"wallet">>, <<"reports">>} IN
  View({"useWithdrawals"})
    \cup {Panel({"APPROVER", "ADMIN", "SUPER_ADMIN"}, {}, {Mutation(<<"approveWithdrawal">>, keys)}),
          Panel(Finance, {}, {Mutation(<<"completeWithdrawal">>, keys)}),
          Panel({"APPROVER"} \cup Finance, {}, {Mutation(<<"rejectWithdrawal">>, keys)})}
RecordRepaymentForm ==
  {Panel(Finance, {"useInvestments"},
         {Mutation(<<"accrueRoi">>, {<<"investments">>}),
          Mutation(<<"recordRepayment">>, {<<"repayments">>, <<"investments">>})})}
DisbursementQueue ==
  View({"useRepayments"})
    \cup {Panel(Finance, {}, {Mutation(<<"disburseRepayments">>,
                                       {<<"repayments">>, <<"wallet">>, <<"reports">>})})}
ReconciliationContent ==
  View({"useReconciliations", "useReconciliationItems"})
    \cup {Panel(Finance, {}, {Mutation(<<"runReconciliation">>, {<<"reconciliation">>})})}
ManagementReport == View({"useManagementReport"})
MarkDefaultedForm ==
  {Panel({}, {"useInvestments"},
         {Mutation(<<"markInvestmentDefaulted">>, {<<"reports", "management">>, <<"investments">>})})}
CompaniesTab ==
  {Panel({}, {"useCompanies"}, {Mutation(<<"createCompany">>, {<<"companies">>})})}
ProductsTab ==
  {Panel({}, {"useProducts"}, {Mutation(<<"createProduct">>, {<<"products">>})})}
OpportunitiesTab ==
  {Panel({}, {"useOpportunities", "useProducts", "useCompanies"},
         {Mutation(<<"createOpportunity">>, {<<"opportunities">>})})}
ChartOfAccountsTable == View({"useAccounts"})
CreateGlAccountForm  == {Panel({}, {}, {Mutation(<<"createAccount">>, {<<"accounts">>})})}
CreateSubLedgerForm  == {Panel({}, {}, {Mutation(<<"createAccount">>, {<<"accounts">>})})}
AccountRow           == {Panel({}, {}, {Mutation(<<"updateAccount">>, {<<"accounts">>})})}
CategoriesTable      == View({"useRoles"})
CreateCategoryForm   == {Panel({"SUPER_ADMIN"}, {}, {Mutation(<<"createRole">>, {<<"roles">>})})}
CategoryRow ==
  {Panel({"SUPER_ADMIN"}, {}, {Mutation(<<"updateRole", "updateRolePermissions">>, {<<"roles">>}),
                               Mutation(<<"deleteRole">>, {<<"roles">>})})}
StaffDirectory       == View({"useStaffUsers"})
CreateStaffUserForm  == {Panel({}, {}, {Mutation(<<"createStaffUser">>, {<<"users", "staff">>})})}
StaffRow ==
  {Panel({}, {}, {Mutation(<<"updateStaffUser">>, {<<"users", "staff">>}),
                  Mutation(<<"deleteStaffUser">>, {<<"users", "staff">>})})}
ChangePasswordForm   == {Panel({}, {}, {Mutation(<<"changePassword">>, {})})}

----------------------------------------------------------------------------
(* The pages: what RequireRole asks, and what is then mounted.             *)
Page(roles, permission, panels) ==
  [roles |-> roles, permission |-> permission, panels |-> panels]
Investors == {"INVESTOR"}
Directory == Finance \cup {"INVESTMENT_MANAGER", "COMPLIANCE_OFFICER"}
InvestorPages ==
  [page \in {"/dashboard", "/opportunities", "/opportunities/id", "/portfolio", "/portfolio/id",
             "/transactions", "/deposits", "/withdrawals", "/statements"} |->
     Page(Investors, Nothing,
       CASE page = "/dashboard"         -> DashboardContent
         [] page = "/opportunities"     -> OpportunitiesContent
         [] page = "/opportunities/id"  -> OpportunityDetail
         [] page = "/portfolio"         -> PortfolioContent
         [] page = "/portfolio/id"      -> InvestmentDetail
         [] page = "/transactions"      -> TransactionsContent
         [] page = "/deposits"          -> DepositsContent
         [] page = "/withdrawals"       -> WithdrawalsContent
         [] page = "/statements"        -> StatementsContent("investor"))]
StatementPages ==
  [view \in {"/statements#wallet", "/statements#investment", "/statements#roi",
             "/statements#repayment", "/statements#withdrawal"} |->
     Page(Investors, Nothing, StatementsContent(
       CASE view = "/statements#wallet"     -> "wallet"
         [] view = "/statements#roi"        -> "roi"
         [] view = "/statements#investment" -> "investment"
         [] view = "/statements#repayment"  -> "repayment"
         [] view = "/statements#withdrawal" -> "withdrawal"))]
ReportPages ==
  [page \in {"/admin/reports", "/admin/reports/trial-balance", "/admin/reports/profit-and-loss",
             "/admin/reports/balance-sheet", "/admin/reports/cash-flow", "/admin/reports/cash-book",
             "/admin/reports/investor-liabilities", "/admin/reports/investor-roi",
             "/admin/reports/investment-receivables", "/admin/reports/general-ledger",
             "/admin/reports/management"} |->
     Page(Finance, "REPORTS:VIEW",
       CASE page = "/admin/reports"                        -> {}
         [] page = "/admin/reports/trial-balance"          -> View({"useTrialBalance"})
         [] page = "/admin/reports/profit-and-loss"        -> View({"useProfitAndLoss"})
         [] page = "/admin/reports/balance-sheet"          -> View({"useBalanceSheet"})
         [] page = "/admin/reports/cash-flow"              -> View({"useCashFlowStatement"})
         [] page = "/admin/reports/cash-book"              -> View({"useCashBook"})
         [] page = "/admin/reports/investor-liabilities"   -> View({"useInvestorLiabilities"})
         [] page = "/admin/reports/investor-roi"           -> View({"useInvestorRoiReport"})
         [] page = "/admin/reports/investment-receivables" -> View({"useInvestmentReceivables"})
         [] page = "/admin/reports/general-ledger" -> View({"useAccounts", "useGeneralLedger"})
         [] page = "/admin/reports/management" -> ManagementReport \cup MarkDefaultedForm)]
CataloguePages ==
  [page \in {"/admin/catalogue", "/admin/catalogue#products", "/admin/catalogue#companies"} |->
     Page(Management, Nothing,
       CASE page = "/admin/catalogue"           -> OpportunitiesTab
         [] page = "/admin/catalogue#products"  -> ProductsTab
         [] page = "/admin/catalogue#companies" -> CompaniesTab)]
AdminPages ==
  [page \in {"/admin/dashboard", "/admin/investors", "/admin/investors/id", "/admin/deposits",
             "/admin/withdrawals", "/admin/repayments", "/admin/reconciliation", "/admin/finance",
             "/admin/platform"} |->
     CASE page = "/admin/dashboard"    -> Page(Finance, Nothing, AdminDashboard)
       [] page = "/admin/investors"    -> Page(Directory, "INVESTORS:VIEW", InvestorsDirectory)
       [] page = "/admin/investors/id" -> Page(Directory, "INVESTORS:VIEW", InvestorDetail)
       [] page = "/admin/deposits"     -> Page(Finance, "DEPOSITS:VIEW", DepositsQueue)
       [] page = "/admin/withdrawals"  ->
            Page({"APPROVER"} \cup Finance, "WITHDRAWALS:VIEW", WithdrawalsQueue)
       [] page = "/admin/repayments"   ->
            Page(Finance, "REPAYMENTS:VIEW", RecordRepaymentForm \cup DisbursementQueue)
       [] page = "/admin/reconciliation" ->
            Page(Finance, "RECONCILIATION:VIEW", ReconciliationContent)
       [] page = "/admin/finance"      -> Page(Finance, Nothing,
            ChartOfAccountsTable \cup CreateGlAccountForm \cup CreateSubLedgerForm \cup AccountRow)
       [] page = "/admin/platform"     -> Page({"ADMIN", "SUPER_ADMIN"}, Nothing,
            CategoriesTable \cup CreateCategoryForm \cup CategoryRow
              \cup StaffDirectory \cup CreateStaffUserForm \cup StaffRow)]
AccountPage == "/account/change-password"
InvestorViews == DOMAIN InvestorPages \cup DOMAIN StatementPages
AdminViews    == DOMAIN ReportPages \cup DOMAIN CataloguePages \cup DOMAIN AdminPages
AllPages ==
  [page \in InvestorViews \cup AdminViews \cup {AccountPage} |->
     CASE page \in DOMAIN InvestorPages  -> InvestorPages[page]
       [] page \in DOMAIN StatementPages -> StatementPages[page]
       [] page \in DOMAIN ReportPages    -> ReportPages[page]
       [] page \in DOMAIN CataloguePages -> CataloguePages[page]
       [] page \in DOMAIN AdminPages     -> AdminPages[page]
       [] page = AccountPage -> Page({}, Nothing, ChangePasswordForm)]

\* The tabs of one page: moving between them keeps what both of them mount.
Tabs == {DOMAIN CataloguePages, {"/statements"} \cup DOMAIN StatementPages}

\* The links of the shell: the section's own, and the account page.
Shell(page) ==
  {AccountPage} \cup
  IF page \in AdminViews
  THEN {"/admin/dashboard", "/admin/investors", "/admin/deposits", "/admin/withdrawals",
        "/admin/repayments", "/admin/reconciliation", "/admin/reports", "/admin/finance",
        "/admin/catalogue", "/admin/platform"}
  ELSE {"/dashboard", "/opportunities", "/portfolio", "/transactions", "/deposits",
        "/withdrawals", "/statements"}

\* The links a page itself carries.
ToInvestor == {"/admin/investors", "/admin/reports/investor-roi", "/admin/reports/cash-book",
               "/admin/reports/management", "/admin/reports/investment-receivables",
               "/admin/reports/general-ledger", "/admin/reports/investor-liabilities",
               "/admin/dashboard"}
Links(page) ==
  CASE page = "/opportunities" -> {"/opportunities/id"}
    [] page = "/portfolio" -> {"/portfolio/id"}
    [] page = "/admin/reports" -> (DOMAIN ReportPages \ {page}) \cup {"/admin/investors"}
    [] page = "/admin/reports/trial-balance" -> {"/admin/reports/general-ledger"}
    [] page \in {"/admin/reports/profit-and-loss", "/admin/reports/balance-sheet"} ->
         {"/admin/reports/general-ledger"}
    [] page = "/admin/dashboard" ->
         {"/admin/investors/id", "/admin/reports/management", "/admin/reports/investor-liabilities",
          "/admin/reports/investment-receivables", "/admin/reports/investor-roi",
          "/admin/reports/cash-book"}
    [] page \in ToInvestor \ {"/admin/dashboard"} -> {"/admin/investors/id"}
    [] OTHER -> {}

\* RequireRole: signed in, and one of the roles or the permission.
LetsIn(page, claims) == Admits(AllPages[page], claims)

\* What a page shows to the holder of a token.
Panels(page, claims) ==
  {p \in AllPages[page].panels : p.roles = {} \/ p.roles \cap claims.roles # {}}
Mounted(page, claims) == UNION {p.queries : p \in Panels(page, claims)}
Offered(page, claims) == UNION {p.offers : p \in Panels(page, claims)}
Reads(hook)           == Reached(Hooks[hook].call).reads
=============================================================================
