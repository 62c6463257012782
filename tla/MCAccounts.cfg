SPECIFICATION AccountsSpec
CHECK_DEADLOCK FALSE
CONSTANTS
    Dealers    = {d1, d2}
    Suppliers  = {s1}
    InvoiceIds <- MCInvoiceIds
    PaymentIds = {q1, q2, q3}
    Sessions   = {t1}
    Idle       = Idle
    MaxTotal   = 2
    MaxDate    = 2
    MaxStock   = 1
    Debtors    = {c1, c2}
    Creditors  = {supplier}
    FiledIds   = {1, 2}
    ReceiptIds = {r1, r2}
    Itemised   = {1}
    MaxFiled   = 2
    DueDays    = {0, 2}
    OpeningBalance = 1
    ForecastDays   = 1
    TrendDays      = 1
    ActivityDays   = 1
    AgeStep        = 1
    FollowUpAfter  = 1
    CallAfter      = 1
    UrgentDays     = 0
    ListCap        = 1
    LastFiledDay = 2
    LastDay    = 3
    MaxCash    = 1
    d1 = d1
    d2 = d2
    q1 = q1
    q2 = q2
    q3 = q3
    c1 = c1
    c2 = c2
    r1 = r1
    r2 = r2
SYMMETRY Alike
INVARIANTS
    AllTypesOK
    BalancesAgree
    FlowsAgree
    WarningsCover
    
PROPERTIES
    ImplementsBooks
    SpreadPaysOldestFirst
    StockFollowsOrders
