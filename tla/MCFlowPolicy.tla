---------------------------- MODULE MCFlowPolicy ----------------------------
(* FlowPolicy on two assets, one host under one suffix, one endpoint with  *)
(* one prefix, and a rule of every rank of the precedence list.            *)
EXTENDS FlowPolicy

Rule(p, d, s) == [asset |-> "email", prefix |-> p, domain |-> d, suffix |-> s]

MCAssets      == {"email", "ssn"}
MCEndpoints   == {"/pay"}
MCHosts       == {"api.corp"}
MCHasPrefix   == {<<"/pay", "/p">>}
MCUnderSuffix == {<<"api.corp", "corp">>}
MCCategories  == {"payments", "llm", "unknown", "internal"}
MCAcceptLists == {{}, {"ssn"}, {"*"}}
MCRules == {Rule("/p", "api.corp", ""), Rule("", "api.corp", "corp"),
            Rule("", "", "corp"), Rule("/p", "", ""), Rule("", "", "")}
=============================================================================
