SPECIFICATION Spec
CONSTANTS
    Dealers    = {d1}
    Suppliers  = {}
    InvoiceIds <- MCInvoiceIds
    PaymentIds = {q1, q2, q3}
    Sessions   = {t1, t2}
    Idle       = Idle
    MaxTotal   = 2
    MaxDate    = 1
    MaxStock   = 1
INVARIANT
    CancelledHasNoPayment
