------------------------------- MODULE Access -------------------------------
(***************************************************************************)
(* The routes of the API: what each asks of the caller's token (@Roles and *)
(* @RequirePermission of the controllers, RolesGuard), the tables its      *)
(* handler reads for the answer and those it writes, and the routes the    *)
(* functions of web/lib/api-client.ts call.  A route is named after the    *)
(* method that handles it; query strings and bodies are left out, and so   *)
(* are the audit log, which no route reads, and the joined rows no route   *)
(* ever changes.                                                           *)
(***************************************************************************)
EXTENDS Naturals, Sequences

Finance    == {"FINANCE_OFFICER", "ADMIN", "SUPER_ADMIN"}
Management == {"INVESTMENT_MANAGER", "ADMIN", "SUPER_ADMIN"}
AnyWallet  == {"ADMIN", "SUPER_ADMIN", "FINANCE_OFFICER", "COMPLIANCE_OFFICER",
               "INVESTMENT_MANAGER", "APPROVER"}

Nothing == ""                                  \* no @RequirePermission
Route(roles, permission, reads, writes) ==
  [roles |-> roles, permission |-> permission, reads |-> reads, writes |-> writes]
Read(roles, permission, tables)  == Route(roles, permission, tables, {})
Write(roles, tables)             == Route(roles, Nothing, {}, tables)
AnyToken(tables)                 == Read({}, Nothing, tables)

----------------------------------------------------------------------------
(* The routes, controller by controller.                                   *)
InvestorRoutes ==
  [findMe |-> AnyToken({"investors"}),
   findAll |-> Read(Finance \cup {"COMPLIANCE_OFFICER", "INVESTMENT_MANAGER"},
                    "INVESTORS:VIEW", {"investors"}),
   findOne |-> AnyToken({"investors"}),
   approve |-> Write({"ADMIN", "SUPER_ADMIN", "COMPLIANCE_OFFICER"}, {"investors"})]
(* The controller also answers 403 to an investor who asks for the wallet of *)
(* another (assertCanAccess); a page asks for no wallet but its own user's   *)
(* unless its role is staff, so that check refuses none of the calls below.  *)
WalletRoutes ==
  [getPosition |-> Read({"INVESTOR"} \cup AnyWallet, Nothing,
                        {"transactions", "investments", "schedules"}),
   getTransactions |-> Read({"INVESTOR"} \cup AnyWallet, Nothing, {"transactions"})]
OpportunityRoutes ==
  [findAll |-> AnyToken({"opportunities"}), findOne |-> AnyToken({"opportunities"}),
   create |-> Write(Management, {"opportunities"})]
ProductRoutes ==
  [findAll |-> AnyToken({"products"}), create |-> Write(Management, {"products"})]
CompanyRoutes ==
  [findAll |-> AnyToken({"companies"}), create |-> Write(Management, {"companies"})]
InvestmentRoutes ==
  LET listed == Read({"INVESTOR", "FINANCE_OFFICER"} \cup Management, "INVESTMENTS:VIEW",
                     {"investments", "schedules", "opportunities"}) IN
  [findAll |-> listed, findOne |-> listed,
   invest |-> Write({"INVESTOR"} \cup Management,
                    {"investments", "schedules", "opportunities", "transactions", "journal"}),
   markDefaulted |-> Write(Finance, {"investments"})]
RepaymentRoutes ==
  [accrueRoi |-> Write(Finance, {"schedules", "journal"}),
   recordRepayment |-> Write(Finance, {"repayments", "schedules", "investments", "journal"}),
   findAll |-> Read(Finance, "REPAYMENTS:VIEW", {"repayments", "investments", "investors"}),
   disburse |-> Write(Finance, {"repayments", "transactions", "journal"})]
DepositRoutes ==
  [request |-> Write({"INVESTOR", "ADMIN"}, {"deposits"}),
   approve |-> Write(Finance, {"deposits", "transactions", "journal"}),
   reject |-> Write(Finance, {"deposits"}),
   findAll |-> Read({"INVESTOR"} \cup Finance, "DEPOSITS:VIEW", {"deposits", "investors"})]
WithdrawalRoutes ==
  [request |-> Write({"INVESTOR", "ADMIN"}, {"withdrawals", "transactions"}),
   approve |-> Write({"APPROVER", "ADMIN", "SUPER_ADMIN"}, {"withdrawals"}),
   complete |-> Write(Finance, {"withdrawals", "transactions", "journal"}),
   reject |-> Write({"APPROVER"} \cup Finance, {"withdrawals", "transactions"}),
   findAll |-> Read({"INVESTOR", "APPROVER"} \cup Finance, "WITHDRAWALS:VIEW",
                    {"withdrawals", "investors"})]
ReconciliationRoutes ==
  LET reports == Read(Finance, "RECONCILIATION:VIEW", {"reconciliations"}) IN
  [run |-> Write(Finance, {"reconciliations"}), findAll |-> reports, findItems |-> reports]
SummaryRoutes ==
  [summary |-> Read(Finance, "REPORTS:VIEW",
                    {"investors", "transactions", "investments", "withdrawals"}),
   management |-> Read(Finance, "REPORTS:VIEW",
                       {"investors", "transactions", "investments", "withdrawals", "journal"})]
StatementRoutes ==
  LET books == Read(Finance, "REPORTS:VIEW", {"accounts", "journal"}) IN
  [trialBalance |-> books, generalLedger |-> books, profitAndLoss |-> books,
   balanceSheet |-> books, cashFlowStatement |-> books, cashBook |-> books,
   investorLiabilities |-> books, investorRoi |-> books, investmentReceivables |-> books]
InvestorReportRoutes ==
  LET own(tables) == Read({"INVESTOR"} \cup Finance, "REPORTS:VIEW", tables) IN
  [statement |-> own({"transactions"}), roiStatement |-> own({"schedules", "repayments"}),
   repaymentStatement |-> own({"repayments"})]
AccountRoutes ==
  [findAll |-> Read(Finance, Nothing, {"accounts"}),
   create |-> Write(Finance, {"accounts"}), update |-> Write(Finance, {"accounts"})]
\* "holders": the categories as the staff directory shows them beside their holders.
RoleRoutes ==
  [findAll |-> Read({"ADMIN", "SUPER_ADMIN"}, Nothing, {"roles"}),
   create |-> Write({"SUPER_ADMIN"}, {"roles"}),
   update |-> Write({"SUPER_ADMIN"}, {"roles", "holders"}),
   updatePermissions |-> Write({"SUPER_ADMIN"}, {"roles"}),
   remove |-> Write({"SUPER_ADMIN"}, {"roles"})]
UserRoutes ==
  [findAll |-> Read({"ADMIN", "SUPER_ADMIN"}, Nothing, {"users", "holders"}),
   create |-> Write({"ADMIN", "SUPER_ADMIN"}, {"users"}),
   update |-> Write({"ADMIN", "SUPER_ADMIN"}, {"users"}),
   remove |-> Write({"ADMIN", "SUPER_ADMIN"}, {"users"})]
AuthRoutes == [changePassword |-> Route({}, Nothing, {}, {"users"})]

\* A token carries the roles and permissions its holder had at sign-in.
Claims(roles, permissions) == [roles |-> roles, permissions |-> permissions]

\* RolesGuard.canActivate, behind JwtAuthGuard: no roles asked, one of them
\* held, or the permission of the route granted.
Admits(rule, claims) ==
  \/ rule.roles = {}
  \/ rule.roles \cap claims.roles # {}
  \/ rule.permission # Nothing /\ rule.permission \in claims.permissions

----------------------------------------------------------------------------
(* web/lib/api-client.ts: the route each of its functions reaches.         *)
InvestorCalls ==
  [getMyInvestor |-> InvestorRoutes.findMe, getInvestor |-> InvestorRoutes.findOne,
   listInvestors |-> InvestorRoutes.findAll, approveInvestor |-> InvestorRoutes.approve,
   getWalletPosition |-> WalletRoutes.getPosition,
   getWalletTransactions |-> WalletRoutes.getTransactions,
   changePassword |-> AuthRoutes.changePassword]
CatalogueCalls ==
  [listOpportunities |-> OpportunityRoutes.findAll, getOpportunity |-> OpportunityRoutes.findOne,
   createOpportunity |-> OpportunityRoutes.create,
   listProducts |-> ProductRoutes.findAll, createProduct |-> ProductRoutes.create,
   listCompanies |-> CompanyRoutes.findAll, createCompany |-> CompanyRoutes.create]
MoneyCalls ==
  [invest |-> InvestmentRoutes.invest, listInvestments |-> InvestmentRoutes.findAll,
   getInvestment |-> InvestmentRoutes.findOne,
   accrueRoi |-> RepaymentRoutes.accrueRoi, recordRepayment |-> RepaymentRoutes.recordRepayment,
   listRepayments |-> RepaymentRoutes.findAll, disburseRepayments |-> RepaymentRoutes.disburse,
   requestDeposit |-> DepositRoutes.request, listDeposits |-> DepositRoutes.findAll,
   approveDeposit |-> DepositRoutes.approve, rejectDeposit |-> DepositRoutes.reject,
   requestWithdrawal |-> WithdrawalRoutes.request, listWithdrawals |-> WithdrawalRoutes.findAll,
   approveWithdrawal |-> WithdrawalRoutes.approve, completeWithdrawal |-> WithdrawalRoutes.complete,
   rejectWithdrawal |-> WithdrawalRoutes.reject]
ReportCalls ==
  [runReconciliation |-> ReconciliationRoutes.run,
   listReconciliations |-> ReconciliationRoutes.findAll,
   getReconciliationItems |-> ReconciliationRoutes.findItems,
   getReportsSummary |-> SummaryRoutes.summary, getManagementReport |-> SummaryRoutes.management,
   getTrialBalance |-> StatementRoutes.trialBalance,
   getGeneralLedger |-> StatementRoutes.generalLedger,
   getProfitAndLoss |-> StatementRoutes.profitAndLoss,
   getBalanceSheet |-> StatementRoutes.balanceSheet,
   getCashFlowStatement |-> StatementRoutes.cashFlowStatement,
   getCashBook |-> StatementRoutes.cashBook,
   getInvestorLiabilities |-> StatementRoutes.investorLiabilities,
   getInvestorRoiReport |-> StatementRoutes.investorRoi,
   getInvestmentReceivables |-> StatementRoutes.investmentReceivables,
   getInvestorStatement |-> InvestorReportRoutes.statement,
   getRoiStatement |-> InvestorReportRoutes.roiStatement,
   getRepaymentStatement |-> InvestorReportRoutes.repaymentStatement]
AdminCalls ==
  [markInvestmentDefaulted |-> InvestmentRoutes.markDefaulted,
   listAccounts |-> AccountRoutes.findAll, createAccount |-> AccountRoutes.create,
   updateAccount |-> AccountRoutes.update,
   listRoles |-> RoleRoutes.findAll, createRole |-> RoleRoutes.create,
   updateRole |-> RoleRoutes.update, updateRolePermissions |-> RoleRoutes.updatePermissions,
   deleteRole |-> RoleRoutes.remove,
   listStaffUsers |-> UserRoutes.findAll, createStaffUser |-> UserRoutes.create,
   updateStaffUser |-> UserRoutes.update, deleteStaffUser |-> UserRoutes.remove]

Calls ==
  [call \in DOMAIN InvestorCalls \cup DOMAIN CatalogueCalls \cup DOMAIN MoneyCalls
             \cup DOMAIN ReportCalls \cup DOMAIN AdminCalls |->
     CASE call \in DOMAIN InvestorCalls  -> InvestorCalls[call]
       [] call \in DOMAIN CatalogueCalls -> CatalogueCalls[call]
       [] call \in DOMAIN MoneyCalls     -> MoneyCalls[call]
       [] call \in DOMAIN ReportCalls    -> ReportCalls[call]
       [] call \in DOMAIN AdminCalls     -> AdminCalls[call]]
Reached(call) == Calls[call]
=============================================================================
