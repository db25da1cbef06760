------------------------------ MODULE MCDelivery ------------------------------
(* An agent and its machine: small instances of Webhook, AgentReads and     *)
(* AgentKeys. A behaviour exercises one of them, its focus, and leaves the  *)
(* others as they start.                                                    *)
EXTENDS Webhook, AgentReads, AgentKeys

VARIABLE focus

(* Out of focus, a component starts in one of the states it may start in.   *)
DeliveryInit ==
    /\ focus \in {"webhook", "reads", "keys"}
    /\ WebhookInit /\ ReadsInit /\ (focus = "reads" \/ ~redis) /\ KeysInit

DeliveryNext ==
    /\ UNCHANGED focus
    /\ \/ /\ focus = "webhook" /\ WebhookNext
          /\ UNCHANGED <<readVars, keyVars>>
       \/ /\ focus = "reads" /\ ReadsNext
          /\ UNCHANGED <<hookVars, keyVars>>
       \/ /\ focus = "keys" /\ KeysNext
          /\ UNCHANGED <<hookVars, readVars>>

(* The fairness of each part, where it is in focus.                         *)
DeliveryFair ==
    /\ \A e \in Events :
           WF_hookVars(focus = "webhook"
                       /\ (ResolveUrl(e) \/ SendOnce(e) \/ TimesOut(e) \/ Resume(e)))
    /\ \A e \in LogIds : /\ WF_readVars(focus = "reads" /\ (CommitId(e) \/ VoidId(e)))
                         /\ WF_readVars(focus = "reads" /\ PublishId(e))
    /\ \A p \in Pollers :
           /\ WF_readVars(focus = "reads" /\ AskEvents(p))
           /\ SF_readVars(focus = "reads" /\ AnswerEvents(p))
           /\ SF_readVars(focus = "reads" /\ FindNothing(p))
           /\ SF_readVars(focus = "reads" /\ BeginWait(p))
           /\ SF_readVars(focus = "reads" /\ (WakeUp(p) \/ WaitTimesOut(p)))
    /\ WF_readVars(focus = "reads" /\ WatchGoesLive)

deliveryVars == <<hookVars, readVars, keyVars, focus>>

DeliverySpec == DeliveryInit /\ [][DeliveryNext]_deliveryVars /\ DeliveryFair
=============================================================================
