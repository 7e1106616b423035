-------------------------- MODULE MCDeliveryOutbox --------------------------
(***************************************************************************)
(* Instances of DeliveryOutbox for TLC: one message per platform.          *)
(***************************************************************************)
EXTENDS DeliveryOutboxRefinement

CONSTANTS hello, bye, telegram, slack

MCMessages == {hello, bye}
MCProviders == {telegram, slack}
MCProvider == [m \in MCMessages |-> IF m = hello THEN telegram ELSE slack]

=============================================================================
