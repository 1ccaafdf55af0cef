------------------------------ MODULE MCScreens ------------------------------
(***************************************************************************)
(* Three screens of the browser, of which a behaviour has one: a document  *)
(* that others write, a list whose first two rows have one date and that   *)
(* has at least two from the start, and the form an order is entered in.   *)
(***************************************************************************)
EXTENDS DocumentReading, Listing, OrderForm, TLC

VARIABLE onScreen

MCOrderDate == <<1, 1, 2>>
MCTotal == <<1, 2, 4>>

Row(table, co, status, isDefault, currency) ==
  [table |-> table, company |-> co, status |-> status, isDefault |-> isDefault,
   currency |-> currency]

\* Two companies; the first also has an archived customer, and the second's product
\* is priced in another currency than its own.
MCMaster ==
  [ca |-> Row("customers", 1, "active", FALSE, ""),
   cx |-> Row("customers", 1, "archived", FALSE, ""),
   wa |-> Row("warehouses", 1, "active", TRUE, ""),
   pa |-> Row("products", 1, "active", FALSE, "USD"),
   cb |-> Row("customers", 2, "active", FALSE, ""),
   wb |-> Row("warehouses", 2, "active", TRUE, ""),
   pb |-> Row("products", 2, "active", FALSE, "EUR")]
MCBaseCurrency == <<"USD", "USD">>
MCFirstOrder ==
  [company |-> 1, version |-> 1, visit |-> 0, customer |-> "ca", warehouse |-> "wa",
   lines |-> <<[product |-> "pa", quantity |-> 2, discount |-> 2]>>]

ScreensInit ==
  /\ ReadingInit /\ ListInit /\ FormInit
  /\ \/ /\ onScreen = "document" /\ list = "salesOrders" /\ salesOrders = <<>>
     \/ /\ onScreen = "list" /\ kind = "order" /\ Cardinality(DOMAIN salesOrders) >= 2
     \/ /\ onScreen = "form" /\ kind = "order" /\ list = "salesOrders" /\ salesOrders = <<>>

ScreensNext ==
  /\ \/ onScreen = "document" /\ ReadingNext /\ UNCHANGED <<listVars, formVars>>
     \/ onScreen = "list" /\ ListNext /\ UNCHANGED <<readingVars, formVars>>
     \/ onScreen = "form" /\ FormNext /\ UNCHANGED <<readingVars, listVars>>
  /\ UNCHANGED onScreen

ScreensSpec == ScreensInit /\ [][ScreensNext]_<<readingVars, listVars, formVars, onScreen>>
=============================================================================
