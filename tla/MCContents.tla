----------------------------- MODULE MCContents -----------------------------
(* What a pane holds and may hold, and what an agent reads of it: small    *)
(* instances of EventLog, Attachments, CapabilityTokens, Participants,     *)
(* SchemaGate, Query and Listings. A behaviour exercises one of them, its  *)
(* focus, and leaves the others as they start.                             *)
EXTENDS EventLog, Attachments, CapabilityTokens, Participants, SchemaGate, Query,
        Listings, TLC

VARIABLE focus

CONSTANTS owner,            \* Participants: the reserved label h_owner
          a1, a2, h1, p1, p2, t1, v1, v2,   \* Query: agents, the human of one,
          x1, x2, e1, m1, n1                \* panes, a template; rows, a name

(* One download on each of two replicas, which bear the same names.        *)
HostOfDownload == [d \in Downloads |-> d]

(* Every entry is for the owner's slot.                                    *)
OwnerSlot == [e \in Entries |-> owner]

(* Query: two panes of one template, each with a record, one with an event, *)
(* and a record of the template; the versions disagree of two collections.  *)
Makers == (p1 :> a1) @@ (p2 :> a2)
OneTemplate == [p \in QPanes |-> t1]
TwoVersions == t1 :> {v1, v2}
RowTables == (x1 :> "records") @@ (x2 :> "records") @@ (e1 :> "events")
                 @@ (m1 :> "template_records")
RowHomes == (x1 :> p1) @@ (x2 :> p2) @@ (e1 :> p1) @@ (m1 :> t1)
OneName == [i \in RowIds |-> n1]
Declarations ==
    LET of(d, type) == <<<<d, n1>>, "c", type>>
    IN  (v1 :> {of("collection", "text"), of("template", "text")})
        @@ (v2 :> {of("collection", "json"), of("template", "json"), of("event", "text")})

Reading(views) == [valid |-> TRUE, all |-> FALSE, reads |-> views]
Queries ==
    {Reading({<<"", "panes">>, <<"", "records">>}), Reading({<<"", n1>>}),
     Reading({<<"tpl_", n1>>, <<"", "events">>}),
     [valid |-> TRUE, all |-> TRUE, reads |-> {}],
     [valid |-> FALSE, all |-> FALSE, reads |-> {}]}

(* The pane of an agent that is claimed, and of one that is not yet.        *)
TwoPanes ==
    /\ ownerAt = (a1 :> h1) @@ (a2 :> Unowned)
    /\ paneAt = (p1 :> [life |-> "live", human |-> h1, version |-> v1])
                 @@ (p2 :> [life |-> "live", human |-> Unowned, version |-> v1])
    /\ rowAt = (x1 :> "x") @@ (x2 :> NoFact) @@ (e1 :> "x") @@ (m1 :> "x")
    /\ caller = [agent |-> a1, human |-> h1]
    /\ stmt = CHOOSE s \in Queries : ~s.valid

(* Listings: rows of three moments.                                         *)
FiveRows == {<<1, 1>>, <<1, 2>>, <<2, 1>>, <<2, 2>>, <<3, 1>>}

(* SchemaGate: numbers, and objects of them; a template whose second        *)
(* version is its first again, takes less, or has dropped its input_schema  *)
(* and declares another property and a collection; payloads that one of     *)
(* these takes.                                                             *)
NumberOrObject == [a \in Atoms |-> IF a = "o" THEN "object" ELSE "number"]
Size == [a \in Atoms |-> IF a = "1" THEN 1 ELSE 0]
Anything ==
    [bool |-> "", types |-> Unset, enum |-> Unset, const |-> Unset, lo |-> Unset,
     hi |-> Unset, pattern |-> Unset, combined |-> {}, other |-> {}]
AtLeast(n) == [Anything EXCEPT !.types = {"number"}, !.lo = n]
Object(required, props) ==
    [own |-> [Anything EXCEPT !.types = {"object"}], required |-> required,
     props |-> props @@ [f \in Fields |-> Unset], extra |-> Unset, items |-> Unset]
MayHold(node) == [declared |-> TRUE, actors |-> {"agent"}, node |-> node]
Omits == [declared |-> FALSE, actors |-> {}, node |-> Object({}, << >>)]
Early(node) ==
    [event |-> MayHold(node), record |-> Omits,
     input |-> MayHold(Object({"f"}, "f" :> AtLeast(1)))]
PartsOf ==
    ("first" :> Early(Object({}, "f" :> AtLeast(2))))
    @@ ("wider" :> Early(Object({}, "f" :> AtLeast(1))))
    @@ ("more" :> [event |-> MayHold(Object({}, ("f" :> AtLeast(2)) @@ ("g" :> AtLeast(2)))),
                   input |-> Omits,
                   record |-> MayHold(Object({"f"}, "f" :> AtLeast(1)))])
NoPatterns == [w \in Patterns |-> {}]
OneField(f) == [self |-> "o", fields |-> (f :> "1") @@ [g \in Fields |-> Unset], elements |-> {}]
SomeData == {OneField(f) : f \in Fields}
Versioned == doc = <<"wider", "wider">> /\ newest = 1 /\ SchemaInit

(* Requests are interchangeable, and so are the downloads together with     *)
(* their replicas; they bear the same names in all components, so that one  *)
(* set of permutations serves them.                                         *)
Symmetry == Permutations(Writers)

(* Out of focus, a component starts in one of the states it may start in.  *)
ContentsInit ==
    /\ focus \in {"log", "attachments", "tokens", "participants", "schemas", "query",
                 "lists"}
    /\ LogInit /\ AttachmentsInit /\ TokensInit /\ Init
    /\ Versioned
    /\ TwoPanes /\ QueryInit
    /\ ListInit /\ (focus = "lists" \/ (listed = {} /\ list = "panes"))

ContentsNext ==
    /\ UNCHANGED focus
    /\ \/ /\ focus = "log" /\ LogNext
          /\ UNCHANGED <<attachmentVars, tokensVars, vars, gateVars, queryVars, listVars>>
       \/ /\ focus = "attachments" /\ AttachmentsNext
          /\ UNCHANGED <<logVars, tokensVars, vars, gateVars, queryVars, listVars>>
       \/ /\ focus = "tokens" /\ TokensNext
          /\ UNCHANGED <<logVars, attachmentVars, vars, gateVars, queryVars, listVars>>
       \/ /\ focus = "participants" /\ Next
          /\ UNCHANGED <<logVars, attachmentVars, tokensVars, gateVars, queryVars, listVars>>
       \/ /\ focus = "schemas" /\ SchemaNext
          /\ UNCHANGED <<logVars, attachmentVars, tokensVars, vars, queryVars, listVars>>
       \/ /\ focus = "query" /\ QueryNext
          /\ UNCHANGED <<logVars, attachmentVars, tokensVars, vars, gateVars, listVars>>
       \/ /\ focus = "lists" /\ ListNext
          /\ UNCHANGED <<logVars, attachmentVars, tokensVars, vars, gateVars, queryVars>>

contentsVars ==
    <<logVars, attachmentVars, tokensVars, vars, gateVars, queryVars, listVars, focus>>

ContentsSpec == ContentsInit /\ [][ContentsNext]_contentsVars
=============================================================================
