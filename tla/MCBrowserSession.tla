-------------------------- MODULE MCBrowserSession --------------------------
(* One person of two companies, another of one, and one order.             *)
EXTENDS BrowserSession

CONSTANTS t1, t2, ann, bob, c1, c2

MCCompanies == (ann :> {c1, c2}) @@ (bob :> {c1})
=============================================================================
