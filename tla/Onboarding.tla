----------------------------- MODULE Onboarding -----------------------------
(***************************************************************************)
(* InvestorsService: an investor registers, pending activation, and an     *)
(* admin activates it; only then may it transact.                          *)
(***************************************************************************)
EXTENDS Store

VARIABLE activationAudits   \* APPROVE_INVESTOR rows of audit_logs, per investor

-----------------------------------------------------------------------------
(* register and registerBusiness: the user, the investor and its wallet     *)
(* appear in one transaction; a second one under the same e-mail is refused.*)
RegisterInvestor(i) ==
  /\ investorStatus[i] = "NONE"
  /\ investorStatus' = [investorStatus EXCEPT ![i] = "PENDING_ACTIVATION"]
  /\ UNCHANGED <<walletTxn, journal, call, activationAudits>>

(* approve: a read, an update and an audit row, each committed on its own.  *)
StartActivate(w, i) ==
  /\ investorStatus[i] = "PENDING_ACTIVATION"
  /\ Begin(w, [Idle EXCEPT !.next = "activate", !.investor = i])
  /\ UNCHANGED <<investorStatus, walletTxn, journal, activationAudits>>

Activate(w) ==
  /\ call[w].next = "activate"
  /\ investorStatus' = [investorStatus EXCEPT ![call[w].investor] = "ACTIVE"]
  /\ Go(w, "auditActivation", 0)
  /\ UNCHANGED <<walletTxn, journal, activationAudits>>

AuditActivation(w) ==
  /\ call[w].next = "auditActivation"
  /\ activationAudits' = [activationAudits EXCEPT ![call[w].investor] = @ + 1]
  /\ End(w)
  /\ UNCHANGED <<investorStatus, walletTxn, journal>>
-----------------------------------------------------------------------------
(* The steps of an activation already being served.                         *)
OnboardingStep(w) == Activate(w) \/ AuditActivation(w)

OnboardingNext(w) ==
  \/ \E i \in Investors : RegisterInvestor(i) \/ StartActivate(w, i)
  \/ OnboardingStep(w)

OnboardingTablesInit ==
  /\ investorStatus = [i \in Investors |-> "NONE"]
  /\ activationAudits = [i \in Investors |-> 0]
=============================================================================
