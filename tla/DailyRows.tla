------------------------------ MODULE DailyRows ------------------------------
(***************************************************************************)
(* The row of figures the evening brief finalizes for a day, and the       *)
(* month's totals on the dashboard, which add the rows up and take today   *)
(* live as long as it has none (services/daily_snapshot).  The row is      *)
(* written again by a retry until its brief is sent; the books go on       *)
(* moving, and entries may be dated back.  One figure stands for all.      *)
(***************************************************************************)
EXTENDS Integers, Functions

CONSTANTS LastDay, MaxCash  \* bounds: days of the month, a day's movement either way

BoundsAssumption == LastDay \in Nat \ {0} /\ MaxCash \in Nat

VARIABLES cash,   \* day -> net movement of the payments dated on it
          rows,   \* day -> the figure of its DailyBusinessSnapshot
          delivered, \* days whose brief was sent; they are not finalized again
          today,
          late    \* history: days whose row is missing or older than the books

vars == <<cash, rows, delivered, today, late>>

Days == 1 .. LastDay

Init == /\ cash = [d \in Days |-> 0]
        /\ rows = [d \in {} |-> 0]
        /\ delivered = {}
        /\ today = 1
        /\ late = {}

(* A payment is recorded, corrected or removed. *)
Record(d, amount) ==
  /\ d <= today
  /\ amount \in {-1, 1} /\ cash[d] + amount \in -MaxCash .. MaxCash
  /\ cash' = [cash EXCEPT ![d] = @ + amount]
  /\ late' = IF d \in DOMAIN rows THEN late \cup {d} ELSE late
  /\ UNCHANGED <<rows, delivered, today>>

(* A mutant of FinalizeDailySnapshot: a day has one row, the first. *)
FinalizeOnce == [d \in DOMAIN rows \cup {today} |-> IF d \in DOMAIN rows THEN rows[d] ELSE cash[d]]

(* Computed afresh; the row that is there is replaced. *)
FinalizeDailySnapshot == [d \in DOMAIN rows \cup {today} |-> IF d = today THEN cash[d] ELSE rows[d]]

(* The scheduler or the administrator; the row stays though the send fails. *)
SendEveningBrief(sent) ==
  /\ today \notin delivered
  /\ rows' = FinalizeDailySnapshot
  /\ delivered' = IF sent THEN delivered \cup {today} ELSE delivered
  /\ late' = late \ {today}
  /\ UNCHANGED <<cash, today>>

(* A day may pass without a row: no brief was due, or it failed. *)
NextDay ==
  /\ today < LastDay
  /\ today' = today + 1
  /\ late' = IF today \in DOMAIN rows THEN late ELSE late \cup {today}
  /\ UNCHANGED <<cash, rows, delivered>>

Next == \/ \E d \in Days, amount \in {-1, 1} : Record(d, amount)
        \/ \E sent \in BOOLEAN : SendEveningBrief(sent)
        \/ NextDay

Spec == Init /\ [][Next]_vars

(* Finalized rows, and today live as long as it has none. *)
MonthToDateTotals ==
  SumFunctionOnSet(rows, DOMAIN rows) + (IF today \in DOMAIN rows THEN 0 ELSE cash[today])

(* The export's sheet: every row there is, and their sum. *)
DailySummarySheet == [lines |-> DOMAIN rows, total |-> SumFunctionOnSet(rows, DOMAIN rows)]

-----------------------------------------------------------------------------
(* Types of the variables. *)
TypeOK == /\ cash \in [Days -> -MaxCash .. MaxCash]
          /\ DOMAIN rows \subseteq 1 .. today /\ late \subseteq 1 .. today
          /\ delivered \subseteq DOMAIN rows
          /\ today \in Days

(* However often a day was finalized and whatever moved before: as long as *)
(* every past day has a row and no row is older than its day's books, the  *)
(* month's total counts every payment of the month once, and so does the   *)
(* export once the day has its row.                                        *)
MonthCountsEveryDay ==
  late = {} => /\ MonthToDateTotals = SumFunctionOnSet(cash, Days)
               /\ today \in DailySummarySheet.lines => DailySummarySheet.total = MonthToDateTotals

=============================================================================
