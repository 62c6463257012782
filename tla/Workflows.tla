----------------------------- MODULE Workflows -----------------------------
(***************************************************************************)
(* The guided workflows of app/services/workflows as flow charts.          *)
(*                                                                         *)
(* A workflow is a handler that reads workflow_scratch["step"], accepts or *)
(* rejects the founder's text, and then moves to another step, ends the    *)
(* workflow, or ends it by creating a PendingOperation that asks for a     *)
(* YES.  What the texts say is abstracted: a step is the set of outcomes   *)
(* its branch can have, besides asking the same question again (every      *)
(* branch can) and "cancel"/"stop" (every handler checks it first).        *)
(* Conversation takes the charts through its constants.                    *)
(***************************************************************************)
EXTENDS TLC

\* Outcomes that are not steps: the workflow is over ("end"), or it is over
\* and a confirmation row has been created ("confirm").
Ends == {"end", "confirm"}

\* _proceed_after_direction: no open invoice, one, or several.
AfterDirection == {"end", "awaiting_amount", "awaiting_invoice_selection"}

\* Who paid or was paid, and for which invoice.
PaymentParty ==
    [awaiting_party             |-> AfterDirection
                                      \cup {"awaiting_disambiguation", "awaiting_new_party_type"},
     awaiting_disambiguation    |-> AfterDirection,
     awaiting_invoice_selection |-> {"awaiting_amount"},
     awaiting_new_party_type    |-> {"awaiting_new_party_confirm"},
     awaiting_new_party_confirm |-> {"end"}]

\* How much, how and when.
PaymentFigures ==
    [awaiting_amount |-> {"awaiting_method"},
     awaiting_method |-> {"awaiting_date"},
     awaiting_date   |-> {"confirm"}]

RecordPayment == PaymentParty @@ PaymentFigures

\* An order: the dealer, then product, rates, price and quantity of each item.
OrderDealer ==
    [awaiting_dealer             |-> {"awaiting_product", "awaiting_new_dealer_confirm"},
     awaiting_new_dealer_confirm |-> {"end", "awaiting_new_dealer_phone"},
     awaiting_new_dealer_phone   |-> {"awaiting_product"}]

OrderProduct ==
    [awaiting_product                   |-> {"confirm", "awaiting_quantity", "awaiting_price",
                                             "awaiting_existing_product_gst_rate",
                                             "awaiting_new_product_confirm"},
     awaiting_new_product_confirm       |-> {"awaiting_product", "awaiting_price",
                                             "awaiting_new_product_gst_rate"},
     awaiting_new_product_gst_rate      |-> {"awaiting_price"},
     awaiting_existing_product_gst_rate |-> {"awaiting_existing_product_gst_save"},
     awaiting_existing_product_gst_save |-> {"awaiting_quantity", "awaiting_price"}]

OrderFigures ==
    [awaiting_price    |-> {"awaiting_quantity"},
     awaiting_quantity |-> {"awaiting_product"}]

CreateOrder == OrderDealer @@ OrderProduct @@ OrderFigures

AddProduct ==
    [awaiting_mode           |-> {"end", "awaiting_bulk", "awaiting_name"},
     awaiting_bulk           |-> {"end"},
     awaiting_name           |-> {"end", "awaiting_quantity"},
     awaiting_quantity       |-> {"awaiting_unit"},
     awaiting_unit           |-> {"awaiting_price"},
     awaiting_price          |-> {"awaiting_purchase_price"},
     awaiting_purchase_price |-> {"awaiting_gst_rate", "awaiting_name"},
     awaiting_gst_rate       |-> {"awaiting_name"}]

DeleteProduct ==
    [awaiting_name           |-> {"awaiting_disambiguation", "awaiting_confirm"},
     awaiting_disambiguation |-> {"end", "awaiting_confirm"},
     awaiting_confirm        |-> {"end"}]

UpdateProduct ==
    [awaiting_field          |-> {"awaiting_name"},
     awaiting_name           |-> {"awaiting_disambiguation", "awaiting_value"},
     awaiting_disambiguation |-> {"end", "awaiting_value"},
     awaiting_value          |-> {"end"}]

UpdateGst ==
    [awaiting_scope          |-> {"awaiting_rate", "awaiting_disambiguation"},
     awaiting_disambiguation |-> {"end", "awaiting_rate"},
     awaiting_rate           |-> {"confirm"}]

AddDealer ==
    [awaiting_mode   |-> {"end", "awaiting_bulk", "awaiting_name"},
     awaiting_bulk   |-> {"end"},
     awaiting_name   |-> {"end", "awaiting_phone"},
     awaiting_phone  |-> {"awaiting_credit"},
     awaiting_credit |-> {"awaiting_name"}]

\* A handler of its own, of the same shape.
AddSupplier == AddDealer

\* edit_dealer and edit_supplier share one handler.
EditPartyWhich ==
    [awaiting_field          |-> {"awaiting_name"},
     awaiting_name           |-> {"awaiting_disambiguation", "awaiting_value"},
     awaiting_disambiguation |-> {"end", "awaiting_value"}]

EditPartyValue ==
    [awaiting_value  |-> {"end", "awaiting_reason"},
     awaiting_reason |-> {"end"}]

EditParty == EditPartyWhich @@ EditPartyValue

\* void_payment and void_order ask only for an optional reason; their scratch
\* has no "step" key, which the model names.
VoidLatest == [awaiting_reason |-> {"confirm"}]

EditInvoice ==
    [awaiting_number |-> {"end", "awaiting_field"},
     awaiting_field  |-> {"end", "awaiting_value"},
     awaiting_value  |-> {"end", "awaiting_reason"},
     awaiting_reason |-> {"confirm"}]

EditPayment ==
    [awaiting_party_name |-> {"end", "awaiting_pick"},
     awaiting_pick       |-> {"end", "awaiting_field"},
     awaiting_field      |-> {"end", "awaiting_value"},
     awaiting_value      |-> {"awaiting_reason"},
     awaiting_reason     |-> {"confirm"}]

StockTake ==
    [awaiting_line           |-> {"end", "awaiting_reason", "awaiting_disambiguation",
                                  "awaiting_value"},
     awaiting_disambiguation |-> {"end", "awaiting_value"},
     awaiting_value          |-> {"end", "awaiting_line"},
     awaiting_reason         |-> {"awaiting_confirm"},
     awaiting_confirm        |-> {"end"}]

BroadcastDealers ==
    [awaiting_segment      |-> {"end", "awaiting_dealer_names", "awaiting_message"},
     awaiting_dealer_names |-> {"end", "awaiting_message"},
     awaiting_message      |-> {"confirm"}]

----------------------------------------------------------------------------
\* _WORKFLOW_HANDLERS without confirm_supplier_payment, whose handler
\* Conversation models in full.
Handlers ==
    [record_payment    |-> RecordPayment,  create_order     |-> CreateOrder,
     add_product       |-> AddProduct,     delete_product   |-> DeleteProduct,
     update_product    |-> UpdateProduct,  update_gst       |-> UpdateGst,
     add_dealer        |-> AddDealer,      add_supplier     |-> AddSupplier,
     void_payment      |-> VoidLatest,     void_order       |-> VoidLatest,
     edit_invoice      |-> EditInvoice,    edit_payment     |-> EditPayment,
     edit_dealer       |-> EditParty,      edit_supplier    |-> EditParty,
     stock_take        |-> StockTake,      broadcast_dealers |-> BroadcastDealers]

\* _WORKFLOW_START_TRIGGERS, one phrase per starter: the aliases of a starter
\* behave alike.  The void workflows are not here: they are instant commands.
StartTriggers ==
    [record_payment |-> [flow |-> "record_payment", step |-> "awaiting_party"],
     create_order   |-> [flow |-> "create_order", step |-> "awaiting_dealer"],
     add_product    |-> [flow |-> "add_product", step |-> "awaiting_mode"],
     delete_product |-> [flow |-> "delete_product", step |-> "awaiting_name"],
     update_product |-> [flow |-> "update_product", step |-> "awaiting_field"],
     update_stock   |-> [flow |-> "update_product", step |-> "awaiting_name"],
     update_gst     |-> [flow |-> "update_gst", step |-> "awaiting_scope"],
     add_dealer     |-> [flow |-> "add_dealer", step |-> "awaiting_mode"],
     add_supplier   |-> [flow |-> "add_supplier", step |-> "awaiting_mode"],
     edit_invoice   |-> [flow |-> "edit_invoice", step |-> "awaiting_number"],
     edit_payment   |-> [flow |-> "edit_payment", step |-> "awaiting_party_name"],
     edit_dealer    |-> [flow |-> "edit_dealer", step |-> "awaiting_field"],
     edit_supplier  |-> [flow |-> "edit_supplier", step |-> "awaiting_field"],
     stock_take     |-> [flow |-> "stock_take", step |-> "awaiting_line"],
     broadcast      |-> [flow |-> "broadcast_dealers", step |-> "awaiting_segment"]]

\* The two workflows that gather a list before they go on: an order item is
\* appended when its quantity is given, an adjustment when its value is.
Gathers(flow, step) == \/ flow = "create_order" /\ step = "awaiting_quantity"
                       \/ flow = "stock_take" /\ step = "awaiting_value"

\* "done" asks for at least one product in an order, and ends a stock take
\* that has nothing to apply.
Permitted(flow, step, outcome, gathered) ==
    CASE flow = "create_order" /\ step = "awaiting_product" /\ outcome = "confirm" -> gathered
      [] flow = "stock_take" /\ step = "awaiting_line" /\ outcome = "end" -> ~gathered
      [] flow = "stock_take" /\ step = "awaiting_line" /\ outcome = "awaiting_reason" -> gathered
      [] OTHER -> TRUE

AllSteps == UNION {DOMAIN Handlers[flow] : flow \in DOMAIN Handlers}

\* The outcomes of every step of the workflows in flows; a step no branch of
\* the handler knows has none.
ChartOf(flows) ==
    [flow \in flows |-> [step \in AllSteps |-> [gathered \in BOOLEAN |->
        IF step \in DOMAIN Handlers[flow]
        THEN {o \in Handlers[flow][step] : Permitted(flow, step, o, gathered)}
        ELSE {}]]]

GatheringOf(flows) == {fs \in flows \X AllSteps : Gathers(fs[1], fs[2])}
=============================================================================
