---------------------------- MODULE MCDashboard ----------------------------
(* Dashboard for TLC: a sign-up that sends an address and a card number to an *)
(* LLM, and shows the address in its response; an older version left a row,   *)
(* of the sign-up or of a call, with either direction it used.                *)
EXTENDS Dashboard

Row(asset, outcome, service, endpoint, direction) ==
  [asset |-> asset, outcome |-> outcome, service |-> service, endpoint |-> endpoint,
   direction |-> direction, rid |-> 1]

MCCalls ==
  {<<Row("email", "expected", NoLink, "/signup", "inbound")>>,
   <<Row("email", "expected", NoLink, "/signup", "outbound")>>,
   <<Row("email", "suspicious", "llm", "/chat", "egress"),
     Row("card", "prohibited", "llm", "/chat", "egress")>>}

MCOldRows ==
  {<<Row("email", "expected", NoLink, "/signup", "inbound")>>,
   <<Row("email", "acceptable", "llm", "/chat", "outbound")>>,
   <<Row("card", "suspicious", "llm", "/chat", "wiregraph_egress")>>}
=============================================================================
