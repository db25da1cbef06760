------------------------------ MODULE SchemaGate ------------------------------
(* The contracts of a pane: what the version of the template it is pinned   *)
(* to lets into its events, its input_data and its records                  *)
(* (relay/src/core/validation.ts, the validators of core/records.ts), and   *)
(* the gate an upgrade of the pane passes (core/schema-compat.ts, PATCH and *)
(* POST upgrade of http/routes/panes.ts). A write and an upgrade each read  *)
(* the pane first and finish later. One pane, of a template without a slug, *)
(* with one event type and one collection.                                  *)
EXTENDS Naturals, FiniteSets

CONSTANTS
    Atoms, JsonTypes, JsonType, \* scalars and wholes, their types,
    SizeOf,                    \* the number, the length or the count
    Patterns, Meeting,         \* patterns, formats and other keywords: who meets them
    Fields,                    \* names of properties
    Unset,                     \* a keyword that is not there
    Docs,                      \* the schemas of a version
    PartOf,                    \* of a document and a part: what it declares
    Fit,                       \* within the limits, and valid
    Data,                      \* payloads: [self, fields, elements]
    SchemaCalls,
    CacheMax,                  \* capacity of a cache
    LastVersion, MaxStored     \* bounds: versions, rows

Parts == {"event", "input", "record"}
Principals == {"agent", "page"}
Versions == 1..LastVersion

(* The keywords of a schema that speak of the value itself; a boolean one   *)
(* has none. lo and hi stand for the eight bounds, pattern for format too,  *)
(* combined for anyOf, oneOf, allOf, not and $ref, other for what the gate  *)
(* does not look at (multipleOf, uniqueItems, patternProperties).           *)
Leaves ==
    [bool : {"", "true", "false"}, types : {Unset} \cup SUBSET JsonTypes,
     enum : {Unset} \cup SUBSET Atoms, const : {Unset} \cup Atoms,
     lo : {Unset} \cup Nat, hi : {Unset} \cup Nat, pattern : {Unset} \cup Patterns,
     combined : SUBSET Patterns, other : SUBSET Patterns]

(* Of an object and of an array; extra is additionalProperties. The         *)
(* properties and the elements of a node are leaves: what the code does at  *)
(* a depth it does at the next one.                                         *)
Nodes ==
    [own : Leaves, required : SUBSET Fields,
     props : [Fields -> {Unset} \cup Leaves],
     extra : {Unset} \cup Leaves, items : {Unset} \cup Leaves]

PartEntries == [declared : BOOLEAN, actors : SUBSET Principals, node : Nodes]
Payloads ==
    [self : Atoms, fields : [Fields -> {Unset} \cup Atoms], elements : SUBSET Atoms]

ASSUME SchemaAssumption ==
    /\ JsonType \in [Atoms -> JsonTypes] /\ SizeOf \in [Atoms -> Nat]
    /\ Meeting \in [Patterns -> SUBSET Atoms]
    /\ Fit \subseteq Docs
    /\ PartOf \in [Docs -> [Parts -> PartEntries]]
    /\ \A d \in Docs, k \in Parts : PartOf[d][k].node.own.bool = ""
    /\ Data \subseteq Payloads
    /\ CacheMax \in Nat \ {0} /\ LastVersion \in Nat \ {0} /\ MaxStored \in Nat

-----------------------------------------------------------------------------
(* What a value must be (Ajv).                                              *)
LeafAccepts(s, a) ==
    IF s.bool # "" THEN s.bool = "true"
    ELSE /\ s.types # Unset => JsonType[a] \in s.types
         /\ s.enum # Unset => a \in s.enum
         /\ s.const # Unset => a = s.const
         /\ s.lo # Unset => SizeOf[a] >= s.lo
         /\ s.hi # Unset => SizeOf[a] <= s.hi
         /\ s.pattern # Unset => a \in Meeting[s.pattern]
         /\ \A w \in s.combined \cup s.other : a \in Meeting[w]

Bears(x) == {f \in Fields : x.fields[f] # Unset}
Declares(n) == {f \in Fields : n.props[f] # Unset}

Accepts(n, x) ==
    /\ LeafAccepts(n.own, x.self)
    /\ JsonType[x.self] = "object" => n.required \subseteq Bears(x)
    /\ \A f \in Bears(x) :
           IF f \in Declares(n) THEN LeafAccepts(n.props[f], x.fields[f])
           ELSE n.extra # Unset => LeafAccepts(n.extra, x.fields[f])
    /\ n.items # Unset => \A a \in x.elements : LeafAccepts(n.items, a)

-----------------------------------------------------------------------------
(* diffBound: a bound is new, or tighter.                                   *)
(* Seeded bug: the two directions are taken for one. *)
MinimumBreaksLower(o, n) == n.lo # Unset /\ (o.lo = Unset \/ n.lo < o.lo)
MinimumBreaks(o, n) == n.lo # Unset /\ (o.lo = Unset \/ n.lo > o.lo)
MaximumBreaks(o, n) == n.hi # Unset /\ (o.hi = Unset \/ n.hi < o.hi)

(* compareJsonSchema: any constraint is, or a side uses a combinator.       *)
LeafBreaks(o, n) ==
    \/ o.combined \cup n.combined # {}
    \/ n.types # Unset /\ (o.types = Unset \/ ~(o.types \subseteq n.types))
    \/ n.enum # Unset /\ (o.enum = Unset \/ ~(o.enum \subseteq n.enum))
    \/ n.const # Unset /\ o.const # n.const
    \/ MinimumBreaks(o, n) \/ MaximumBreaks(o, n)
    \/ n.pattern # Unset /\ o.pattern # n.pattern

(* asObject: not a boolean, not absent.                                     *)
IsObject(s) == s # Unset /\ s.bool = ""

(* additionalProperties is not there, or true.                              *)
TakesExtra(n) == n.extra = Unset \/ n.extra.bool = "true"
NoExtra(n) == n.extra # Unset /\ n.extra.bool = "false"

NodeBreaks(o, n) ==
    \/ LeafBreaks(o.own, n.own)
    \/ ~(n.required \subseteq o.required)
    \/ \E f \in Declares(o) \cap Declares(n) :
           /\ IsObject(o.props[f]) /\ IsObject(n.props[f])
           /\ LeafBreaks(o.props[f], n.props[f])
    \/ TakesExtra(o) /\ ~TakesExtra(n)
    \/ IsObject(n.items) /\ (IsObject(o.items) => LeafBreaks(o.items, n.items))

(* compareEventSchema, compareInputSchema, compareRecordSchema: who may     *)
(* write a record is not compared.                                          *)
PartBreaks(k, o, n) ==
    IF k = "input" THEN n.declared /\ (~o.declared \/ NodeBreaks(o.node, n.node))
    ELSE o.declared /\ \/ ~n.declared \/ NodeBreaks(o.node, n.node)
                       \/ k = "event" /\ ~(o.actors \subseteq n.actors)

(* comparePaneSchemas, of the parts an upgrade hands it.                    *)
DocBreaks(o, n) == \E k \in Parts : PartBreaks(k, PartOf[o][k], PartOf[n][k])

(* What none of these looks at: a boolean schema that takes less, a keyword *)
(* that is not compared;                                                    *)
LeafBlind(o, n) ==
    \/ n.bool = "false" /\ o.bool # "false"
    \/ n.bool = "" /\ (o.bool = "true" \/ (o.bool = "" /\ ~(n.other \subseteq o.other)))

(* a property that is no longer, or newly, declared, while the schema of    *)
(* what is not declared says something of it; that schema, when there was   *)
(* one; and items: false.                                                   *)
NodeBlind(o, n) ==
    \/ LeafBlind(o.own, n.own)
    \/ \E f \in Declares(o) \cap Declares(n) : LeafBlind(o.props[f], n.props[f])
    \/ ~(Declares(o) \subseteq Declares(n)) /\ ~TakesExtra(n)
    \/ ~(Declares(n) \subseteq Declares(o)) /\ ~NoExtra(o)
    \/ ~TakesExtra(o) /\ ~NoExtra(o) /\ ~TakesExtra(n) /\ n.extra # o.extra
    \/ n.items # Unset /\ IF o.items = Unset THEN n.items.bool = "false"
                          ELSE LeafBlind(o.items, n.items)

DocBlind(o, n) ==
    \E k \in Parts : /\ PartOf[o][k].declared /\ PartOf[n][k].declared
                     /\ NodeBlind(PartOf[o][k].node, PartOf[n][k].node)

-----------------------------------------------------------------------------
SchemaRows == [part : Parts, actor : Principals, data : Data, version : Versions]

VARIABLES
    doc, newest,          \* the template's versions: their schemas, which never change
    pin,                  \* the version of the pane
    kept,                 \* its events, its input_data, its records, each with the
                          \* version it was validated by (an event bears it)
    cached,               \* per part: compiled validators, [key, doc]
    scall,                \* the requests
    trusted               \* history: every upgrade was strict, from the version it had
                          \* compared, and had nothing in it the gate does not look at

gateVars == <<doc, newest, pin, kept, cached, scall, trusted>>

IdleCall == [stage |-> "idle"]

(* The pane was just created.                                               *)
SchemaInit ==
    /\ doc \in [Versions -> Docs] /\ newest \in Versions /\ pin \in 1..newest
    /\ kept = {}
    /\ cached = [k \in Parts |-> {}]
    /\ scall = [r \in SchemaCalls |-> IdleCall]
    /\ trusted = TRUE

AtStage(r, s) == scall[r].stage = s
GoesOn(r, next) == scall' = [scall EXCEPT ![r] = next]

(* A write reads the pane and its version.                                  *)
ReadPane(r) ==
    /\ AtStage(r, "idle") /\ GoesOn(r, [stage |-> "write", seen |-> pin])
    /\ UNCHANGED <<doc, newest, pin, kept, cached, trusted>>

(* An event type or a collection must be declared, and for the author;      *)
(* input_data is the agent's, and without an input_schema all is taken.     *)
MayWrite(k, d, a) ==
    IF k = "input" THEN a = "agent"
    ELSE PartOf[d][k].declared /\ a \in PartOf[d][k].actors
Fits(k, d, x) ==
    (k = "input" /\ ~PartOf[d][k].declared) \/ Accepts(PartOf[d][k].node, x)

(* The pane's id goes without saying.                                       *)
Key(v) == v

(* getCompilers and getCompiler: what is cached under the key, or else the  *)
(* version compiled, and one entry is evicted when there are too many (the  *)
(* least recently used; which one that is, is left open). input_data is     *)
(* compiled every time.                                                     *)
Compiled(k, v) ==
    LET hit == {e \in cached[k] : e.key = Key(v)} IN
    IF k = "input" THEN {[doc |-> doc[v], cache |-> cached[k]]}
    ELSE IF hit # {} THEN {[doc |-> e.doc, cache |-> cached[k]] : e \in hit}
    ELSE LET more == cached[k] \cup {[key |-> Key(v), doc |-> doc[v]]}
         IN  IF Cardinality(more) <= CacheMax THEN {[doc |-> doc[v], cache |-> more]}
             ELSE {[doc |-> doc[v], cache |-> more \ {e}] : e \in cached[k]}

Validated(k, a, x, v) == [part |-> k, actor |-> a, data |-> x, version |-> v]

(* validateEvent, validateInputData, validateRecord.                        *)
ValidateData(r, k, a, x) ==
    LET v == scall[r].seen IN
    /\ AtStage(r, "write")
    /\ IF MayWrite(k, doc[v], a)
       THEN \E c \in Compiled(k, v) :
                /\ cached' = [cached EXCEPT ![k] = c.cache]
                /\ GoesOn(r, IF Fits(k, c.doc, x)
                             THEN [stage |-> "store", row |-> Validated(k, a, x, v)]
                             ELSE IdleCall)
       ELSE GoesOn(r, IdleCall) /\ UNCHANGED cached
    /\ UNCHANGED <<doc, newest, pin, kept, trusted>>

(* An event is appended; input_data is replaced; a record is added, or      *)
(* takes the place of one.                                                  *)
Superseded(y) ==
    LET same == {z \in kept : z.part = y.part}
    IN  CASE y.part = "event" -> {{}}
          [] y.part = "input" -> {same}
          [] y.part = "record" -> {{}} \cup {{z} : z \in same}

StoreRow(r) ==
    LET y == scall[r].row IN
    /\ AtStage(r, "store") /\ GoesOn(r, IdleCall)
    /\ \E old \in Superseded(y) : kept' = (kept \ old) \cup {y}
    /\ Cardinality(kept') <= MaxStored
    /\ UNCHANGED <<doc, newest, pin, cached, trusted>>

-----------------------------------------------------------------------------
(* validateVersionContent; then the version and latestVersion, in one       *)
(* transaction.                                                             *)
PublishSchema(d) ==
    /\ d \in Fit /\ newest < LastVersion
    /\ newest' = newest + 1 /\ doc' = [doc EXCEPT ![newest + 1] = d]
    /\ UNCHANGED <<pin, kept, cached, scall, trusted>>

(* An upgrade reads the pane, its version and latestVersion.                *)
ReadForUpgrade(r) ==
    /\ AtStage(r, "idle")
    /\ GoesOn(r, [stage |-> "upgrade", seen |-> pin, head |-> newest])
    /\ UNCHANGED <<doc, newest, pin, kept, cached, trusted>>

(* To a version there is: nothing to do, refused, or on to the re-pin.      *)
GateVersion(r, t, compat) ==
    LET v == scall[r].seen IN
    /\ AtStage(r, "upgrade") /\ t \in 1..newest
    /\ GoesOn(r, IF t = v \/ (DocBreaks(doc[v], doc[t]) /\ compat = "strict")
                 THEN IdleCall
                 ELSE [stage |-> "repin", seen |-> v, target |-> t, compat |-> compat])
    /\ UNCHANGED <<doc, newest, pin, kept, cached, trusted>>

(* Inline, to a document in the request.                                    *)
GateInline(r, d, compat) ==
    LET v == scall[r].seen IN
    /\ AtStage(r, "upgrade") /\ d \in Fit /\ scall[r].head < LastVersion
    /\ GoesOn(r, IF DocBreaks(doc[v], d) /\ compat = "strict" THEN IdleCall
                 ELSE [stage |-> "append", seen |-> v, target |-> scall[r].head + 1,
                       given |-> d, compat |-> compat])
    /\ UNCHANGED <<doc, newest, pin, kept, cached, trusted>>

Trusted(c, d) ==
    trusted /\ c.compat = "strict" /\ c.seen = pin /\ ~DocBlind(doc[c.seen], d)

(* An UPDATE that does not look at the version again.                       *)
Repin(r) ==
    LET c == scall[r] IN
    /\ AtStage(r, "repin") /\ GoesOn(r, IdleCall)
    /\ pin' = c.target
    /\ trusted' = Trusted(c, doc[c.target])
    /\ UNCHANGED <<doc, newest, kept, cached>>

(* The version, latestVersion and the pin in one transaction; a number that *)
(* was taken meanwhile is a P2002.                                          *)
AppendInline(r) ==
    LET c == scall[r] IN
    /\ AtStage(r, "append") /\ GoesOn(r, IdleCall)
    /\ IF c.target > newest
       THEN /\ newest' = c.target /\ doc' = [doc EXCEPT ![c.target] = c.given]
            /\ pin' = c.target
            /\ trusted' = Trusted(c, c.given)
       ELSE UNCHANGED <<doc, newest, pin, trusted>>
    /\ UNCHANGED <<kept, cached>>

-----------------------------------------------------------------------------
(* invalidateSchemaCache, by the sweeper: the events' validators only.      *)
InvalidateSchemas ==
    /\ cached' = [cached EXCEPT !["event"] = {}]
    /\ UNCHANGED <<doc, newest, pin, kept, scall, trusted>>

(* The process restarts: caches and requests are gone.                      *)
RelayRestarts ==
    /\ cached' = [k \in Parts |-> {}]
    /\ scall' = [r \in SchemaCalls |-> IdleCall]
    /\ UNCHANGED <<doc, newest, pin, kept, trusted>>

SchemaNext ==
    \/ \E r \in SchemaCalls, k \in Parts, a \in Principals, x \in Data :
           ValidateData(r, k, a, x)
    \/ \E r \in SchemaCalls : ReadPane(r) \/ StoreRow(r) \/ ReadForUpgrade(r)
                                  \/ Repin(r) \/ AppendInline(r)
    \/ \E r \in SchemaCalls, compat \in {"strict", "force"} :
           \/ \E t \in Versions : GateVersion(r, t, compat)
           \/ \E d \in Docs : GateInline(r, d, compat)
    \/ \E d \in Docs : PublishSchema(d)
    \/ InvalidateSchemas \/ RelayRestarts

SchemaSpec == SchemaInit /\ [][SchemaNext]_gateVars

-----------------------------------------------------------------------------
(* A stored row satisfies a document: its part is declared, an event's for  *)
(* its author too, and its data fits.                                       *)
Satisfies(d, y) ==
    /\ y.part = "event" => MayWrite("event", d, y.actor)
    /\ y.part = "record" => PartOf[d]["record"].declared
    /\ Fits(y.part, d, y.data)

(* The version a row bears is the one whose schema it satisfies, though     *)
(* validators are cached and the pin moves.                                 *)
StampIsTrue == \A y \in kept : Satisfies(doc[y.version], y)

(* What the gate is for: all that was ever let in satisfies the version the *)
(* pane is at now, unless an upgrade was forced, met another, or had        *)
(* something in it that the gate does not look at.                          *)
StillAccepted == trusted => \A y \in kept : Satisfies(doc[pin], y)

CachesBounded == \A k \in Parts : Cardinality(cached[k]) <= CacheMax

(* The contracts of a pane hold of what it has stored, through races of     *)
(* writes with upgrades, evictions and restarts.                            *)
SchemasAreSound == StampIsTrue /\ StillAccepted /\ CachesBounded
=============================================================================
