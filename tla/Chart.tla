-------------------------------- MODULE Chart --------------------------------
(***************************************************************************)
(* The chart of accounts the seed script creates, and what Schedule III    *)
(* says of it: the groups an account of each type may be classified under, *)
(* and the groups each section of a financial statement shows.             *)
(***************************************************************************)
EXTENDS Integers, Sequences, FiniteSets, SequencesExt

AccountTypes == {"ASSET", "LIABILITY", "EQUITY", "INCOME", "EXPENSE"}

ShareholdersFunds     == {"SHARE_CAPITAL", "RESERVES_AND_SURPLUS"}
ShareApplicationMoney == {"SHARE_APPLICATION_MONEY"}

NonCurrentLiabilities ==
  {"LONG_TERM_BORROWINGS", "DEFERRED_TAX_LIABILITIES", "OTHER_LONG_TERM_LIABILITIES",
   "LONG_TERM_PROVISIONS"}

CurrentLiabilities ==
  {"SHORT_TERM_BORROWINGS", "TRADE_PAYABLES", "OTHER_CURRENT_LIABILITIES",
   "SHORT_TERM_PROVISIONS"}

NonCurrentAssets ==
  {"TANGIBLE_ASSETS", "INTANGIBLE_ASSETS", "CAPITAL_WORK_IN_PROGRESS",
   "INTANGIBLE_ASSETS_UNDER_DEVELOPMENT", "NON_CURRENT_INVESTMENTS", "DEFERRED_TAX_ASSETS",
   "LONG_TERM_LOANS_AND_ADVANCES", "OTHER_NON_CURRENT_ASSETS"}

CurrentAssets ==
  {"CURRENT_INVESTMENTS", "INVENTORIES", "TRADE_RECEIVABLES", "CASH_AND_CASH_EQUIVALENTS",
   "SHORT_TERM_LOANS_AND_ADVANCES", "OTHER_CURRENT_ASSETS"}

Revenue == {"REVENUE_FROM_OPERATIONS", "OTHER_INCOME"}

Expenses ==
  {"COST_OF_MATERIALS_CONSUMED", "PURCHASES_OF_STOCK_IN_TRADE", "CHANGES_IN_INVENTORIES",
   "EMPLOYEE_BENEFIT_EXPENSE", "FINANCE_COSTS", "DEPRECIATION_AND_AMORTIZATION_EXPENSE",
   "OTHER_EXPENSES"}

Tax == {"CURRENT_TAX_EXPENSE", "DEFERRED_TAX_EXPENSE"}

(* SCHEDULE_III_GROUPS_BY_ACCOUNT_TYPE.                                      *)
GroupsOf ==
  [EQUITY    |-> {"SHARE_CAPITAL", "RESERVES_AND_SURPLUS", "SHARE_APPLICATION_MONEY"},
   LIABILITY |-> {"LONG_TERM_BORROWINGS", "DEFERRED_TAX_LIABILITIES",
                  "OTHER_LONG_TERM_LIABILITIES", "LONG_TERM_PROVISIONS",
                  "SHORT_TERM_BORROWINGS", "TRADE_PAYABLES", "OTHER_CURRENT_LIABILITIES",
                  "SHORT_TERM_PROVISIONS"},
   ASSET     |-> {"TANGIBLE_ASSETS", "INTANGIBLE_ASSETS", "CAPITAL_WORK_IN_PROGRESS",
                  "INTANGIBLE_ASSETS_UNDER_DEVELOPMENT", "NON_CURRENT_INVESTMENTS",
                  "DEFERRED_TAX_ASSETS", "LONG_TERM_LOANS_AND_ADVANCES",
                  "OTHER_NON_CURRENT_ASSETS", "CURRENT_INVESTMENTS", "INVENTORIES",
                  "TRADE_RECEIVABLES", "CASH_AND_CASH_EQUIVALENTS",
                  "SHORT_TERM_LOANS_AND_ADVANCES", "OTHER_CURRENT_ASSETS"},
   INCOME    |-> {"REVENUE_FROM_OPERATIONS", "OTHER_INCOME"},
   EXPENSE   |-> {"COST_OF_MATERIALS_CONSUMED", "PURCHASES_OF_STOCK_IN_TRADE",
                  "CHANGES_IN_INVENTORIES", "EMPLOYEE_BENEFIT_EXPENSE", "FINANCE_COSTS",
                  "DEPRECIATION_AND_AMORTIZATION_EXPENSE", "OTHER_EXPENSES",
                  "CURRENT_TAX_EXPENSE", "DEFERRED_TAX_EXPENSE"}]

Groups == UNION {GroupsOf[t] : t \in AccountTypes}
-----------------------------------------------------------------------------
(* CHART_OF_ACCOUNTS, in the order it is seeded: <<code, group>> for the     *)
(* accounts of a type, the first of them the head the others belong to, but  *)
(* for the fixed assets, which have a head of their own.                     *)
SeedSections ==
  <<[type |-> "ASSET", rows |->
     << <<"1000", "OTHER_CURRENT_ASSETS">>, <<"1010", "CASH_AND_CASH_EQUIVALENTS">>,
        <<"1020", "OTHER_CURRENT_ASSETS">>, <<"1030", "OTHER_CURRENT_ASSETS">>,
        <<"1040", "OTHER_CURRENT_ASSETS">>, <<"1050", "OTHER_NON_CURRENT_ASSETS">>,
        <<"1051", "TANGIBLE_ASSETS">>, <<"1052", "INTANGIBLE_ASSETS">>,
        <<"1053", "CAPITAL_WORK_IN_PROGRESS">>,
        <<"1054", "INTANGIBLE_ASSETS_UNDER_DEVELOPMENT">>,
        <<"1060", "NON_CURRENT_INVESTMENTS">>, <<"1070", "DEFERRED_TAX_ASSETS">>,
        <<"1080", "LONG_TERM_LOANS_AND_ADVANCES">>, <<"1090", "OTHER_NON_CURRENT_ASSETS">>,
        <<"1100", "CURRENT_INVESTMENTS">>, <<"1110", "INVENTORIES">>,
        <<"1120", "TRADE_RECEIVABLES">>, <<"1130", "SHORT_TERM_LOANS_AND_ADVANCES">> >>],
    [type |-> "LIABILITY", rows |->
     << <<"2000", "OTHER_CURRENT_LIABILITIES">>, <<"2010", "OTHER_CURRENT_LIABILITIES">>,
        <<"2020", "OTHER_CURRENT_LIABILITIES">>, <<"2030", "OTHER_CURRENT_LIABILITIES">>,
        <<"2040", "OTHER_CURRENT_LIABILITIES">>, <<"2050", "LONG_TERM_BORROWINGS">>,
        <<"2060", "DEFERRED_TAX_LIABILITIES">>, <<"2070", "OTHER_LONG_TERM_LIABILITIES">>,
        <<"2080", "LONG_TERM_PROVISIONS">>, <<"2090", "SHORT_TERM_BORROWINGS">>,
        <<"2100", "TRADE_PAYABLES">>, <<"2110", "SHORT_TERM_PROVISIONS">> >>],
    [type |-> "EQUITY", rows |->
     << <<"3000", "RESERVES_AND_SURPLUS">>, <<"3010", "SHARE_CAPITAL">>,
        <<"3020", "RESERVES_AND_SURPLUS">>, <<"3030", "SHARE_APPLICATION_MONEY">> >>],
    [type |-> "INCOME", rows |->
     << <<"4000", "OTHER_INCOME">>, <<"4010", "REVENUE_FROM_OPERATIONS">>,
        <<"4020", "REVENUE_FROM_OPERATIONS">>, <<"4030", "REVENUE_FROM_OPERATIONS">> >>],
    [type |-> "EXPENSE", rows |->
     << <<"5000", "OTHER_EXPENSES">>, <<"5010", "OTHER_EXPENSES">>,
        <<"5020", "OTHER_EXPENSES">>, <<"5030", "OTHER_EXPENSES">>,
        <<"5040", "COST_OF_MATERIALS_CONSUMED">>, <<"5050", "PURCHASES_OF_STOCK_IN_TRADE">>,
        <<"5060", "CHANGES_IN_INVENTORIES">>, <<"5070", "EMPLOYEE_BENEFIT_EXPENSE">>,
        <<"5080", "DEPRECIATION_AND_AMORTIZATION_EXPENSE">>,
        <<"5090", "CURRENT_TAX_EXPENSE">>, <<"5100", "DEFERRED_TAX_EXPENSE">> >>]>>

FixedAssets == {"1051", "1052", "1053", "1054"}

SeedRows(section) ==
  LET head == section.rows[1][1]
      parent(code) == CASE code = head -> "" [] code \in FixedAssets -> "1050" [] OTHER -> head
  IN  [n \in DOMAIN section.rows |->
         [code |-> section.rows[n][1], parent |-> parent(section.rows[n][1]),
          type |-> section.type, group |-> section.rows[n][2]]]

SeedOrder == FlattenSeq([n \in DOMAIN SeedSections |-> SeedRows(SeedSections[n])])

SeededCodes == {SeedOrder[n].code : n \in DOMAIN SeedOrder}
=============================================================================
