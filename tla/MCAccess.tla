------------------------------ MODULE MCAccess ------------------------------
(* What an account is and remembers: the two learning stores, the sign-in of
   the GPT, the TikTok connection, and the Stripe customer.  The four share no
   table, so a behaviour is one of one part, chosen at the start. *)
EXTENDS AccountLearning, OAuthBridge, ProviderConnections, Checkout

VARIABLE part

MCOps == [c1 |-> {"save_context", "save", "invalid"},
          c2 |-> {"update_profile", "save", "feedback", "delete"},
          c3 |-> {"get_profile", "get_context"}]
MCPayloads == {{}, {"style"}, {"url"}}
MCSiteOf == [v1 |-> "a", v2 |-> "a", v3 |-> "b", v4 |-> "b"]
MCGrants == [v1 |-> {"approve"}, v2 |-> {"exchange"}, v3 |-> {"exchange", "refresh"},
             v4 |-> {"refresh", "bearer"}]
MCDoes == [u1 |-> {"connect", "disconnect"}, u2 |-> {"callback"},
           u3 |-> {"callback", "list"}]
MCQueue == <<"b1", "b2", "b3">>
MCWants == [b1 |-> {"premium"}, b2 |-> {"premium", "pack"}, b3 |-> {"premium", "portal"}]

Init ==
  /\ part \in {"learning", "bridge", "provider", "checkout"}
  /\ LearnInit /\ BridgeInit /\ ProviderInit /\ CheckoutInit
  /\ part # "learning" => Has(context) /\ Has(profile)   \* one initial state
  /\ part # "provider" => configured

Next ==
  /\ UNCHANGED part
  /\ \/ part = "learning" /\ LearnNext /\ UNCHANGED <<bridgeVars, providerVars, checkoutVars>>
     \/ part = "bridge" /\ BridgeNext /\ UNCHANGED <<learningVars, providerVars, checkoutVars>>
     \/ part = "provider" /\ ProviderNext /\ UNCHANGED <<learningVars, bridgeVars, checkoutVars>>
     \/ part = "checkout" /\ CheckoutNext /\ UNCHANGED <<learningVars, bridgeVars, providerVars>>

Spec == Init /\ [][Next]_<<part, learningVars, bridgeVars, providerVars, checkoutVars>>

\* Every variable has its type, whichever part runs.
TypeOK == LearnTypeOK /\ BridgeTypeOK /\ ProviderTypeOK /\ CheckoutTypeOK
=============================================================================
