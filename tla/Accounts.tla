------------------------------- MODULE Accounts -------------------------------
(***************************************************************************)
(* The books and what is reported of them: a behaviour is one of Ledger    *)
(* (this module extends it), with its statuses and its stock, one of       *)
(* Reports, with its dates, or one of DailyRows.                           *)
(***************************************************************************)
EXTENDS Ledger

CONSTANTS Debtors, Creditors, FiledIds, ReceiptIds, Itemised, MaxFiled,  \* of Reports: its parties and rows
          DueDays, OpeningBalance, ForecastDays, TrendDays, ActivityDays, AgeStep,
          FollowUpAfter, CallAfter, UrgentDays, ListCap,
          LastFiledDay,  \* of Reports
          LastDay,  \* of DailyRows
          MaxCash   \* of DailyRows

VARIABLES filed, receipts, today,
          cash, rows, delivered, day, late,
          part    \* the module that moves

Report == INSTANCE Reports
  WITH Dealers <- Debtors, Suppliers <- Creditors, InvoiceIds <- FiledIds, PaymentIds <- ReceiptIds,
       MaxTotal <- MaxFiled, LastDay <- LastFiledDay, invoices <- filed, payments <- receipts

Daily == INSTANCE DailyRows WITH today <- day

ASSUME FiguresAreFigures == Report!FiguresAssumption
ASSUME DaysAreDays == Daily!BoundsAssumption

Parts == {"ledger", "reports", "daily"}

reportVars == <<filed, receipts, today>>
dailyVars == <<cash, rows, delivered, day, late>>
allVars == <<vars, reportVars, dailyVars, part>>

AccountsInit == Init /\ Report!Init /\ Daily!Init /\ part \in Parts

AccountsNext == \/ part = "ledger" /\ Next /\ UNCHANGED <<reportVars, dailyVars, part>>
                \/ part = "reports" /\ Report!Next /\ UNCHANGED <<vars, dailyVars, part>>
                \/ part = "daily" /\ Daily!Next /\ UNCHANGED <<vars, reportVars, part>>

AccountsSpec == AccountsInit /\ [][AccountsNext]_allVars

-----------------------------------------------------------------------------
(* Types of the variables of all three. *)
AllTypesOK == TypeOK /\ Report!TypeOK /\ Daily!TypeOK /\ part \in Parts

(* Every report of a balance says the same (services/reports,              *)
(* services/company_export, services/party_outstanding), but those of a    *)
(* period for rows dated after it, and so do the ways in which the code    *)
(* adds up the ledger's own rows.                                          *)
BalancesAgree == /\ OutstandingFiguresAgree
                 /\ part = "reports" => Report!BalancesAgree

(* Every report of cash and of sales says the same of the same days, but   *)
(* the sales register for orders whose total was corrected.                *)
FlowsAgree == part = "reports" => Report!FlowsAgree

(* The forecast misses no shortage, and is exact while the till is not     *)
(* overdrawn; the briefing's lists name every dealer who is late enough    *)
(* once (services/snapshot, services/recommendations).                     *)
WarningsCover == part = "reports" => Report!WarningsCover

(* A month counts every day once (services/daily_snapshot).                *)
MonthCountsEveryDay == Daily!MonthCountsEveryDay

=============================================================================
