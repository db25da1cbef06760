----------------------------- MODULE MCLifecycle -----------------------------
(* The rows of the relay and how they end: small instances of Panes and of *)
(* Retention. A behaviour exercises one of the two, its focus, and leaves  *)
(* the other as it starts.                                                 *)
EXTENDS Panes, Retention, TLC

VARIABLE focus

lifecycleVars == <<vars, retentionVars, focus>>

CONSTANTS a1, a2, h1, k1    \* Panes: two agents of one human, a context key

TwoOfOneHuman == (a1 :> h1) @@ (a2 :> h1)

(* Either nothing has happened yet, or a1 has created pane 1, with a key.  *)
Started ==
    /\ panes = 1 :> [agent |-> a1, human |-> h1, key |-> k1, version |-> 1,
                     open |-> TRUE, lapsed |-> FALSE, trashed |-> FALSE,
                     aged |-> FALSE, agents |-> {a1}]
    /\ issued = 1 /\ latest = 1
    /\ job \in [Requests -> {[step |-> "new", agent |-> a, pane |-> NoPane,
                              key |-> NoKey, version |-> 1] : a \in Agents}]
    /\ ledger = {}
    /\ ttlIds = {} /\ hardIds = {} /\ hardStep = "idle"
    /\ answered = {<<a1, 1>>}
    /\ tokens = [x \in Agents \X PaneId |-> IF x = <<a1, 1>> THEN 1 ELSE 0]

CONSTANTS p1, f1, t1, g1, g2    \* Retention: a row of each kind, two agents

KindOfRow == (p1 :> "pane") @@ (f1 :> "attachment") @@ (t1 :> "template")
                 @@ (g1 :> "agent") @@ (g2 :> "agent")
References == {<<p1, t1>>, <<p1, g2>>, <<t1, g1>>, <<f1, g2>>}
Cascades == {<<f1, p1>>}

(* Out of focus, a component starts in one of the states it may start in.  *)
LifecycleInit ==
    /\ focus \in {"panes", "retention"}
    /\ PanesInit \/ (focus = "panes" /\ Started)
    /\ focus = "panes" \/ \A r \in Requests : job[r].agent = a1
    /\ RetentionInit

LifecycleNext ==
    /\ UNCHANGED focus
    /\ \/ focus = "panes" /\ PanesNext /\ UNCHANGED retentionVars
       \/ focus = "retention" /\ RetentionNext /\ UNCHANGED vars

(* PanesFair and RetentionFair, where they are in focus.                   *)
LifecycleFair ==
    /\ \A p \in PaneId : /\ WF_vars(focus = "panes" /\ Lapse(p))
                         /\ WF_vars(focus = "panes" /\ Age(p))
    /\ WF_vars(focus = "panes" /\ TtlRead) /\ WF_vars(focus = "panes" /\ TtlWrite)
    /\ WF_vars(focus = "panes" /\ HardTick) /\ WF_vars(focus = "panes" /\ HardRead)
    /\ SF_vars(focus = "panes" /\ HardAudit) /\ SF_vars(focus = "panes" /\ HardDelete)
    /\ WF_retentionVars(focus = "retention" /\ Pass)

LifecycleSpec == LifecycleInit /\ [][LifecycleNext]_lifecycleVars /\ LifecycleFair

(* Rows end: a pane whose time has come is closed, trashed and in the end  *)
(* erased, and what is due and free of references is reclaimed.            *)
RowsEnd == PanesEnd /\ DueIsReclaimed
=============================================================================
