------------------------- MODULE MCProviderDelivery -------------------------
(* A small instance of ProviderDelivery for TLC: an order of two items of one  *)
(* plan, whatever their providers are.                                      *)
EXTENDS ProviderDelivery

CONSTANTS o1, plan

MCOrderOf == [i \in Items |-> o1]
MCOne == [i \in Items |-> 1]
MCMixes == {<<"esimaccess", "esimaccess">>, <<"airalo", "gadgetkorea">>}
MCMadeFor == [e \in Esims |-> e - 10]
MCPlanOf == [i \in Items |-> plan]
=============================================================================
