--------------------------- MODULE MCCompanyAccess ---------------------------
(***************************************************************************)
(* Two tenants with a company each.  Ann administers the first, where Bob  *)
(* is an auditor; Bob administers the second, where nobody is an auditor.  *)
(***************************************************************************)
EXTENDS CompanyAccess, TLC

CONSTANTS t1, t2, c1, c2, ann, bob, r1, r2

MCTenantOf == (c1 :> t1) @@ (c2 :> t2)
MCMembership == {<<ann, c1>>, <<bob, c1>>, <<bob, c2>>}
MCMemberUser == [m \in MCMembership |-> m[1]]
MCMemberCompany == [m \in MCMembership |-> m[2]]
MCRole == {c1, c2} \X {"administrator", "auditor"}
MCRoleCompany == [k \in MCRole |-> k[1]]
MCKeyOf == [k \in MCRole |-> k[2]]
MCGrants == [k \in MCRole |->
  IF k[2] = "auditor" THEN {"audit:view"} ELSE {"admin:users"}]
MCSession == {"a", "b"}
MCSessionUser == ("a" :> ann) @@ ("b" :> bob)
MCFounding == {
  [membership |-> <<ann, c1>>, role |-> <<c1, "administrator">>, company |-> c1],
  [membership |-> <<bob, c1>>, role |-> <<c1, "auditor">>, company |-> c1],
  [membership |-> <<bob, c2>>, role |-> <<c2, "administrator">>, company |-> c2]}
MCAsk(kind, session, permission, company, member, key) ==
  [kind |-> kind, session |-> session, permission |-> permission, company |-> company,
   membership |-> member, key |-> key]
MCAsked ==
  {MCAsk("work", "b", "audit:view", c1, <<bob, c1>>, "auditor"),
   MCAsk("switch", "b", "audit:view", c2, <<bob, c1>>, "auditor"),
   MCAsk("assign", "a", "admin:users", c1, <<bob, c1>>, "administrator"),
   MCAsk("assign", "b", "admin:users", c2, <<bob, c2>>, "auditor"),
   MCAsk("remove", "b", "admin:users", c1, <<ann, c1>>, "administrator")}
Symmetry == Permutations(Request)
=============================================================================
