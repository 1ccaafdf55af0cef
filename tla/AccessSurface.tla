---------------------------- MODULE AccessSurface ----------------------------
(***************************************************************************)
(* Which permissions there are, which of them the default roles hold, what *)
(* each route of the API asks for, and what the browser offers to whom.    *)
(*                                                                         *)
(* The same facts are written down in many places: a catalogue and role    *)
(* templates in the API, a declaration on every handler, a guard on every  *)
(* screen, navigation items and buttons that are drawn for some and links  *)
(* that are drawn for everybody, a second copy of the roles for the        *)
(* permission matrix.  Only the screens that are served by the API make    *)
(* requests; the others show fixtures, and of their links only those of    *)
(* the dashboard are followed here.                                        *)
(***************************************************************************)
EXTENDS Naturals

-----------------------------------------------------------------------------
(* The catalogue and the templates *)

PERMISSIONS ==
  {"sales:view", "sales:create", "sales:confirm", "sales:cancel",
   "purchasing:view", "purchasing:create", "purchasing:approve",
   "inventory:view", "inventory:move", "inventory:adjust",
   "customers:view", "customers:edit", "suppliers:view", "suppliers:edit",
   "invoices:view", "invoices:create", "invoices:post",
   "payments:view", "payments:register",
   "accounting:view", "accounting:post", "accounting:close_period",
   "reports:view", "reports:financial",
   "admin:users", "admin:settings", "audit:view"}

\* The permissions of a role, given those that set the sales role apart.
Roles(salesPermissions) ==
  [administrator |-> PERMISSIONS,
   manager |-> PERMISSIONS \
     {"inventory:move", "invoices:create", "invoices:post", "payments:register",
      "accounting:post", "accounting:close_period", "admin:users", "admin:settings"},
   sales |-> salesPermissions,
   purchasing |->
     {"purchasing:view", "purchasing:create", "suppliers:view", "suppliers:edit",
      "inventory:view", "reports:view"},
   warehouse |->
     {"inventory:view", "inventory:move", "inventory:adjust", "sales:view",
      "purchasing:view"},
   accountant |->
     {"invoices:view", "invoices:create", "invoices:post", "payments:view",
      "payments:register", "accounting:view", "accounting:post",
      "accounting:close_period", "customers:view", "suppliers:view", "sales:view",
      "purchasing:view", "inventory:view", "reports:view", "reports:financial",
      "audit:view"}]

SalesRole ==
  {"sales:view", "sales:create", "sales:confirm", "customers:view", "customers:edit",
   "inventory:view", "invoices:view", "reports:view"}

\* Wrong: the stock is none of a salesperson's business.
WithoutInventory == Roles(SalesRole \ {"inventory:view"})

\* What provisioning gives the roles of a company.
TemplatePermissions == Roles(SalesRole)

\* The browser's copy, for the permission matrix.
MatrixPermissions == Roles(SalesRole)

-----------------------------------------------------------------------------
(* The API *)

\* What the handlers of the requests that screens make declare.
Declared ==
  [listOrders |-> "sales:view", getOrder |-> "sales:view",
   createOrder |-> "sales:create", updateOrder |-> "sales:create",
   confirmOrder |-> "sales:confirm", cancelOrder |-> "sales:cancel",
   createFromOrder |-> "invoices:create", getInvoice |-> "invoices:view",
   postInvoice |-> "invoices:post",
   listCustomers |-> "customers:view", listProducts |-> "inventory:view",
   listWarehouses |-> "inventory:view"]

-----------------------------------------------------------------------------
(* The browser *)

NoPermission == "none"

can(P, permission) == permission \in P \cup {NoPermission}

\* NAV_SECTIONS: the item of a screen and what it is drawn for.
NavItems ==
  {<<"/", NoPermission>>,
   <<"/sales/orders", "sales:view">>, <<"/sales/customers", "customers:view">>,
   <<"/sales/invoices", "invoices:view">>, <<"/sales/deliveries", "sales:view">>,
   <<"/purchasing/orders", "purchasing:view">>, <<"/purchasing/suppliers", "suppliers:view">>,
   <<"/purchasing/bills", "invoices:view">>, <<"/purchasing/receipts", "purchasing:view">>,
   <<"/inventory/products", "inventory:view">>, <<"/inventory/stock", "inventory:view">>,
   <<"/inventory/movements", "inventory:view">>, <<"/inventory/warehouses", "inventory:view">>,
   <<"/finance/payments", "payments:view">>, <<"/accounting/accounts", "accounting:view">>,
   <<"/accounting/journal", "accounting:view">>,
   <<"/accounting/trial-balance", "reports:financial">>,
   <<"/admin/users", "admin:users">>, <<"/admin/audit", "audit:view">>}

\* What the router guards a screen with.
Guard(path) ==
  CASE path = "/" -> NoPermission
    [] path \in {"/sales/orders", "/sales/orders/:id", "/sales/deliveries"} -> "sales:view"
    [] path \in {"/sales/orders/new", "/sales/orders/:id/edit"} -> "sales:create"
    [] path \in {"/sales/customers", "/sales/customers/:id"} -> "customers:view"
    [] path \in {"/sales/invoices", "/sales/invoices/:id", "/purchasing/bills",
                 "/purchasing/bills/:id"} -> "invoices:view"
    [] path \in {"/purchasing/orders", "/purchasing/orders/:id", "/purchasing/receipts"} ->
         "purchasing:view"
    [] path = "/purchasing/suppliers" -> "suppliers:view"
    [] path \in {"/inventory/products", "/inventory/products/:id", "/inventory/stock",
                 "/inventory/movements", "/inventory/warehouses"} -> "inventory:view"
    [] path \in {"/finance/payments", "/finance/payments/:id"} -> "payments:view"
    [] path \in {"/accounting/accounts", "/accounting/journal"} -> "accounting:view"
    [] path = "/accounting/trial-balance" -> "reports:financial"
    [] path = "/admin/users" -> "admin:users"
    [] path = "/admin/audit" -> "audit:view"

\* The requests without which a screen is an error.  The history, the journal
\* and the filter of the list are panels that say what they cannot show.
Requires(path) ==
  CASE path = "/sales/orders" -> {"listOrders"}
    [] path = "/sales/orders/new" -> {"listCustomers", "listProducts", "listWarehouses"}
    [] path = "/sales/orders/:id" -> {"getOrder"}
    [] path = "/sales/orders/:id/edit" ->
         {"getOrder", "listCustomers", "listProducts", "listWarehouses"}
    [] path = "/sales/invoices/:id" -> {"getInvoice"}
    [] OTHER -> {}

\* The buttons of a screen: what each is drawn for, what it asks of the API and
\* the screen it leads to.
Button(permission, requests, to) ==
  [permission |-> permission, requests |-> requests, to |-> to]

\* showFinancials: the cards of the dashboard that are drawn for either of two
\* permissions, and what they link to.
FinancialCards ==
  {Button(permission, {}, to) :
     permission \in {"reports:financial", "accounting:view"},
     to \in {"/sales/invoices", "/purchasing/bills", "/purchasing/orders",
            "/accounting/accounts"}}

Buttons(path) ==
  CASE path = "/" -> FinancialCards
    [] path = "/sales/orders" -> {Button("sales:create", {}, "/sales/orders/new")}
    [] path = "/sales/orders/new" ->
         {Button(NoPermission, {"createOrder"}, "/sales/orders/:id")}
    [] path = "/sales/orders/:id" ->
         {Button("sales:create", {}, "/sales/orders/:id/edit"),
          Button("sales:confirm", {"confirmOrder"}, path),
          Button("sales:cancel", {"cancelOrder"}, path),
          Button("invoices:create", {"createFromOrder"}, "/sales/invoices/:id")}
    [] path = "/sales/orders/:id/edit" ->
         {Button(NoPermission, {"updateOrder"}, "/sales/orders/:id")}
    [] path = "/sales/invoices/:id" -> {Button("invoices:post", {"postInvoice"}, path)}
    [] OTHER -> {}

\* The links of a screen, which are drawn for whoever sees it, wherever they lead:
\* the activity log in the header of every screen, the work lists of the dashboard,
\* and from a document to the documents and the master data it names.
Links(path) ==
  {"/admin/audit"} \cup
  CASE path = "/" ->
         {"/sales/orders", "/sales/orders/:id", "/sales/invoices/:id", "/sales/customers/:id",
          "/purchasing/orders", "/purchasing/orders/:id", "/purchasing/bills/:id",
          "/inventory/stock", "/finance/payments/:id"}
    [] path = "/sales/orders" -> {"/sales/orders/:id"}
    [] path = "/sales/orders/new" -> {"/sales/orders"}
    [] path = "/sales/orders/:id" ->
         {"/sales/orders", "/sales/customers/:id", "/inventory/products/:id"}
    [] path = "/sales/orders/:id/edit" -> {"/sales/orders", "/sales/orders/:id"}
    [] path = "/sales/invoices/:id" -> {"/sales/orders", "/sales/orders/:id"}
    [] OTHER -> {}

\* The navigation of somebody who holds P.
Sidebar(P) == {item[1] : item \in {i \in NavItems : can(P, i[2])}}

\* Protected: a screen opens, or is a notice in its place that asks for nothing.
Opens(P, path) == can(P, Guard(path))

Drawn(P, path) == {b \in Buttons(path) : can(P, b.permission)}

\* What a screen that opened was drawn for P to go to.
Offered(P, path) == {b.to : b \in Drawn(P, path)}

\* The screens that open for somebody who holds P within four clicks, which is more
\* than the screens served by the API are deep.
Reachable(P) ==
  LET Opened(paths) == {path \in paths : Opens(P, path)}
      within[n \in 0 .. 4] ==
        IF n = 0 THEN Opened(Sidebar(P))
        ELSE within[n - 1] \cup
               UNION {Opened(Offered(P, path) \cup Links(path)) : path \in within[n - 1]}
  IN  within[4]

\* A screen that opened loads, and none of the buttons it draws is refused or leads
\* to a screen that does not open.
Works(P, path) ==
  /\ \A r \in Requires(path) \cup UNION {b.requests : b \in Drawn(P, path)} : Declared[r] \in P
  /\ \A to \in Offered(P, path) : Opens(P, to)

\* So it is wherever somebody can get to, over links to screens that open too, and
\* what is drawn in the navigation opens.
OfferedWorks(P) ==
  /\ \A path \in Sidebar(P) : Opens(P, path)
  /\ \A path \in Reachable(P) : Works(P, path)

\* The roles whose holders can do what they are offered.
WorkingRoles == {role \in DOMAIN TemplatePermissions : OfferedWorks(TemplatePermissions[role])}
=============================================================================
