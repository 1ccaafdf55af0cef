---------------------------- MODULE ListScreens ----------------------------
(***************************************************************************)
(* The list screens: the columns each offers to sort by and how it is      *)
(* sorted at first, and the columns the service behind it knows.  The      *)
(* sales orders are the API's; the others are fixtures of the browser.     *)
(***************************************************************************)

Screen(sortable, sortBy, sortDir) ==
  [sortable |-> sortable, sortBy |-> sortBy, sortDir |-> sortDir]

SalesOrdersPage ==
  Screen({"docNumber", "orderDate", "customer", "total", "status"}, "orderDate", "desc")
DeliveriesPage == Screen({"docNumber", "shippedDate"}, "shippedDate", "desc")
GoodsReceiptsPage == Screen({"docNumber", "receivedDate"}, "receivedDate", "desc")
PurchaseOrdersPage ==
  Screen({"docNumber", "orderDate", "supplier", "total", "status"}, "orderDate", "desc")
InvoicesPage ==
  Screen({"docNumber", "party", "invoiceDate", "dueDate", "total", "balanceDue", "status"},
         "invoiceDate", "desc")
BillsPage == Screen({"docNumber", "dueDate", "balanceDue", "status"}, "invoiceDate", "desc")
PaymentsPage == Screen({"docNumber", "paymentDate", "amount"}, "paymentDate", "desc")
JournalEntriesPage == Screen({"docNumber", "entryDate", "amount"}, "entryDate", "desc")
ProductsPage ==
  Screen({"sku", "name", "available", "onHand", "salesPrice", "stockValue"}, "sku", "asc")
StockOnHandPage == Screen({"product", "onHand", "available", "valuation"}, "product", "asc")
StockMovementsPage == Screen({"occurredAt", "product", "quantity"}, "occurredAt", "desc")
CustomersPage == Screen({"code", "name", "balance", "creditLimit"}, "name", "asc")
SuppliersPage == Screen({"code", "name", "leadTimeDays", "balance"}, "name", "asc")
AuditLogPage == Screen({}, "occurredAt", "desc")

\* The columns that the services sort by.
listSalesOrders == {"docNumber", "orderDate", "customer", "total", "status"}
listDeliveries == {"docNumber", "shippedDate"}
listReceipts == {"docNumber", "receivedDate"}
listPurchaseOrders == {"docNumber", "orderDate", "supplier", "total", "status"}
listCustomerInvoices ==
  {"docNumber", "invoiceDate", "dueDate", "total", "balanceDue", "party"}
listSupplierBills == {"docNumber", "invoiceDate", "dueDate", "total", "balanceDue"}
listPayments == {"docNumber", "paymentDate", "amount"}
listJournalEntries == {"docNumber", "entryDate", "amount"}
listProducts == {"sku", "name", "available", "onHand", "salesPrice", "stockValue"}
listStockLevels == {"product", "onHand", "available", "valuation"}
listMovements == {"occurredAt", "quantity", "product"}
listCustomers == {"code", "name", "balance", "creditLimit"}
listSuppliers == {"code", "name", "balance", "leadTimeDays"}
listAuditEvents == {"occurredAt"}

Entry(screen, sorts) == [screen |-> screen, sorts |-> sorts]

ListScreens ==
  [salesOrders |-> Entry(SalesOrdersPage, listSalesOrders),
   deliveries |-> Entry(DeliveriesPage, listDeliveries),
   receipts |-> Entry(GoodsReceiptsPage, listReceipts),
   purchaseOrders |-> Entry(PurchaseOrdersPage, listPurchaseOrders),
   invoices |-> Entry(InvoicesPage, listCustomerInvoices),
   bills |-> Entry(BillsPage, listSupplierBills),
   payments |-> Entry(PaymentsPage, listPayments),
   journal |-> Entry(JournalEntriesPage, listJournalEntries),
   products |-> Entry(ProductsPage, listProducts),
   stock |-> Entry(StockOnHandPage, listStockLevels),
   movements |-> Entry(StockMovementsPage, listMovements),
   customers |-> Entry(CustomersPage, listCustomers),
   suppliers |-> Entry(SuppliersPage, listSuppliers),
   audit |-> Entry(AuditLogPage, listAuditEvents)]

\* Columns that a screen offers and its service does not know: a header that does
\* nothing.
Unserved(list) == ListScreens[list].screen.sortable \ ListScreens[list].sorts
=============================================================================
