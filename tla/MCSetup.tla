------------------------------- MODULE MCSetup -------------------------------
(***************************************************************************)
(* A release, a branch that lacks the second migration, a dry run where    *)
(* the second was edited; two companies, the first with a further member.  *)
(***************************************************************************)
EXTENDS Setup, TLC

CONSTANTS new, branch, look, s1, s2, nobody

MCFilesOf ==
  LET dir(V, changed) ==
        [v \in Version |-> IF v \notin V THEN Absent ELSE IF v \in changed THEN "b" ELSE "a"]
  IN  [r \in Runner |->
         CASE r = new -> dir({1, 2, 3}, {})
           [] r = branch -> dir({1, 3}, {})
           [] r = look -> dir({1, 2}, {2})]
MCMadeBy ==
  [t \in {"tenants", "users", "companies", "memberships", "roles", "membership_roles"} |-> 1]
  @@ [t \in {"document_number_sequences", "products", "warehouses", "stock_movements"} |-> 2]
  @@ [t \in {"accounts", "company_posting_accounts"} |-> 3]
MCCompanyTenant == ("east" :> "t1") @@ ("trading" :> "t2")
MCAdministrator == ("east" :> "admin") @@ ("trading" :> "admin")
MCMembers == ("east" :> <<<<"clerk", "sales">>>>) @@ ("trading" :> <<>>)
MCProducts == ("east" :> <<"p">>) @@ ("trading" :> <<>>)
MCPostingAccounts == ("revenue" :> "4000")
MCTenants == <<"t1", "t2">>
MCUsers == <<"admin", "clerk">>
MCCompanies == <<"east", "trading">>
MCTemplates ==
  <<"administrator", "manager", "sales", "purchasing", "warehouse", "accountant">>
MCChart == <<"4000">>
MCPurposes == <<"revenue">>
MCSequences == <<"sales_order">>
=============================================================================
