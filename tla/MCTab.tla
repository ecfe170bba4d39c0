------------------------------- MODULE MCTab -------------------------------
(* An investor, and staff of several categories, one of them a custom one   *)
(* that holds permissions only.                                            *)
EXTENDS Tab

MCTokens == {Claims({"INVESTOR"}, {}), Claims({"SUPER_ADMIN"}, {}),
             Claims({"APPROVER"}, {}), Claims({"COMPLIANCE_OFFICER"}, {}),
             Claims({"AUDIT"}, {"DEPOSITS:VIEW", "WITHDRAWALS:VIEW"})}
=============================================================================
