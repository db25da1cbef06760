-------------------------------- MODULE Query --------------------------------
(* POST /v1/query, SQL over what the calling agent owns (relay/src/query,   *)
(* http/routes/query.ts): the caller's panes are resolved to ids, five      *)
(* tables are read from the live database by separate statements, outside   *)
(* any transaction, while panes are created, claimed, trashed, deleted,     *)
(* upgraded and written to; views are built over the copy, and the caller's *)
(* statement runs on it against a timer. One query is modelled: it writes   *)
(* nothing, so that queries cannot meet.                                    *)
EXTENDS Naturals, FiniteSets

CONSTANTS
    QAgents, QHumans, Unowned,
    QPanes, NoScope,          \* panes; no pane_id in the request
    MadeBy,                   \* the agent that creates a pane
    QTemplates, OnTemplate,   \* the template of a pane,
    VersionsOf,               \* and its versions
    RowIds, TableOf, HomeOf,  \* a row below a pane or a template: its table, and that
    NameOf,                   \* its collection or event type
    Vals, NoFact,             \* its contents; not there
    Names, Cols, Types,       \* collections and event types, columns, SQL types
    DeclaredIn,               \* per version: <<declared, column, type>>
    Statements,               \* [valid, all, reads]
    ScopeCap, RowCap, OutputCap,
    MaxEdits                  \* bound: changes of the database

PaneTables == {"panes", "records", "events"}
TemplateTables == {"templates", "template_records"}
Tables == PaneTables \cup TemplateTables

(* What a version declares: a collection, a template collection or an event *)
(* type. A name's slug is the name: dashes and dots become underscores, so  *)
(* that a collection and an event type may bear one name.                   *)
Declared == {"collection", "template", "event"} \X Names

(* viewNameForCollection, slugifyEventType, and the tpl_ prefix.            *)
ViewOf(d) == <<IF d[1] = "template" THEN "tpl_" ELSE "", d[2]>>

(* The views that are always there: panes, records, events, templates and   *)
(* template_records.                                                        *)
Generic(t) == <<"", t>>
ViewNames == {"", "tpl_"} \X (Names \cup Tables)

QVersions == UNION {VersionsOf[t] : t \in QTemplates}
PaneRows == [life : {"unborn", "live", "trashed", "gone"},
             human : QHumans \cup {Unowned}, version : QVersions]
PaneFacts == {"panes"} \X QPanes \X PaneRows
RowFacts == {f \in Tables \X RowIds \X Vals : f[1] = TableOf[f[2]]}
Facts == PaneFacts \cup RowFacts
Callers == [agent : QAgents, human : QHumans \cup {Unowned}]

ASSUME QueryAssumption ==
    /\ Unowned \notin QHumans /\ NoScope \notin QPanes /\ NoFact \notin Vals
    /\ MadeBy \in [QPanes -> QAgents]
    /\ OnTemplate \in [QPanes -> QTemplates]
    /\ DOMAIN VersionsOf = QTemplates
    /\ TableOf \in [RowIds -> Tables \ {"panes"}]
    /\ DOMAIN HomeOf = RowIds
    /\ \A i \in RowIds : HomeOf[i] \in IF TableOf[i] \in PaneTables THEN QPanes ELSE QTemplates
    /\ NameOf \in [RowIds -> Names]
    /\ DeclaredIn \in [QVersions -> SUBSET (Declared \X Cols \X Types)]
    /\ Statements \subseteq [valid : BOOLEAN, all : BOOLEAN, reads : SUBSET ViewNames]
    /\ ScopeCap \in Nat /\ RowCap \in Nat /\ OutputCap \in Nat /\ MaxEdits \in Nat

VARIABLES
    paneAt, rowAt, ownerAt,   \* the database: panes, rows, the humans of the agents
    edits,
    step, caller, stmt, only, \* the query, what it was asked
    scope, pending, loaded,   \* the ids, the tables not read yet, what was read
    built,                    \* the declared views that were created
    conn, body,               \* its in-memory database and the statement in it
    answer,
    everFacts, heldFacts,     \* history: what was in the database at some moment
    everPanes, heldPanes      \* of the query, or throughout; the caller's panes

dataVars == <<paneAt, rowAt, ownerAt, edits>>
askVars == <<caller, stmt, only>>
readVars == <<scope, pending, loaded>>
sandbox == <<built, conn, body>>
traceVars == <<everFacts, heldFacts, everPanes, heldPanes>>
queryVars == <<dataVars, step, askVars, readVars, sandbox, answer, traceVars>>

-----------------------------------------------------------------------------
Here(ps) == {p \in QPanes : ps[p].life \in {"live", "trashed"}}

FactsIn(ps, rs) ==
    {<<"panes", p, ps[p]>> : p \in Here(ps)}
        \cup {<<TableOf[i], i, rs[i]>> : i \in {j \in RowIds : rs[j] # NoFact}}

(* resolveScope's predicate, pane_id included: a claimed agent sees all its *)
(* human's panes, another its own that no human owns; not the trashed ones. *)
VisibleTo(c, ps) ==
    {p \in QPanes :
        /\ ps[p].life = "live"
        /\ IF c.human # Unowned THEN ps[p].human = c.human
           ELSE MadeBy[p] = c.agent /\ ps[p].human = Unowned}

AskedFor(c, o, ps) == {p \in VisibleTo(c, ps) : o \in {NoScope, p}}

(* findMany with take.                                                      *)
Take(S, n) ==
    {T \in SUBSET S : IF Cardinality(S) > n THEN Cardinality(T) = n ELSE T = S}

(* The pane or the template a fact is of, and whether that is one of a set  *)
(* of panes or of their templates.                                          *)
Home(f) == IF f[1] = "panes" THEN f[2] ELSE HomeOf[f[2]]
BelongsTo(f, ps) ==
    Home(f) \in IF f[1] \in PaneTables THEN ps ELSE {OnTemplate[p] : p \in ps}

QueryInit ==
    /\ ownerAt \in [QAgents -> QHumans \cup {Unowned}]
    /\ paneAt \in [QPanes -> PaneRows]
    /\ \A p \in QPanes : /\ paneAt[p].human \in {Unowned, ownerAt[MadeBy[p]]}
                         /\ paneAt[p].version \in VersionsOf[OnTemplate[p]]
    /\ rowAt \in [RowIds -> Vals \cup {NoFact}]
    /\ \A i \in RowIds : rowAt[i] # NoFact /\ TableOf[i] \in PaneTables => HomeOf[i] \in Here(paneAt)
    /\ edits = 0
    /\ step = "idle" /\ caller \in Callers /\ stmt \in Statements /\ only = NoScope
    /\ scope = {} /\ pending = {} /\ loaded = {}
    /\ built = {} /\ conn = "none" /\ body = "none"
    /\ answer = [code |-> "none", rows |-> {}, truncated |-> FALSE]
    /\ everFacts = {} /\ heldFacts = {} /\ everPanes = {} /\ heldPanes = {}

-----------------------------------------------------------------------------
(* The database, changed by everything else.                                *)
Edited ==
    /\ edits < MaxEdits /\ edits' = edits + 1
    /\ everFacts' = everFacts \cup FactsIn(paneAt', rowAt')
    /\ heldFacts' = heldFacts \cap FactsIn(paneAt', rowAt')
    /\ everPanes' = everPanes \cup AskedFor(caller, only, paneAt')
    /\ heldPanes' = heldPanes \cap AskedFor(caller, only, paneAt')
    /\ UNCHANGED <<step, askVars, readVars, sandbox, answer>>

SetPane(p, r) ==
    /\ paneAt' = [paneAt EXCEPT ![p] = r]
    /\ UNCHANGED <<rowAt, ownerAt>>
    /\ Edited

CreatePane(p, v) ==
    /\ paneAt[p].life = "unborn" /\ v \in VersionsOf[OnTemplate[p]]
    /\ SetPane(p, [life |-> "live", human |-> ownerAt[MadeBy[p]], version |-> v])

MoveVersion(p, v) ==
    /\ p \in Here(paneAt) /\ v \in VersionsOf[OnTemplate[p]]
    /\ SetPane(p, [paneAt[p] EXCEPT !.version = v])

TrashPane(p) ==
    /\ paneAt[p].life = "live"
    /\ SetPane(p, [paneAt[p] EXCEPT !.life = "trashed"])

RestorePane(p) ==
    /\ paneAt[p].life = "trashed"
    /\ SetPane(p, [paneAt[p] EXCEPT !.life = "live"])

(* The rows below it go with it.                                            *)
DeletePane(p) ==
    /\ paneAt[p].life = "trashed"
    /\ paneAt' = [paneAt EXCEPT ![p].life = "gone"]
    /\ rowAt' = [i \in RowIds |-> IF TableOf[i] \in PaneTables /\ HomeOf[i] = p
                               THEN NoFact ELSE rowAt[i]]
    /\ UNCHANGED ownerAt
    /\ Edited

(* A claim: which of the agent's unowned panes move is Claims' matter.      *)
ClaimAgent(a, h, moved) ==
    /\ ownerAt[a] = Unowned
    /\ \A p \in moved : MadeBy[p] = a /\ paneAt[p].human = Unowned
    /\ ownerAt' = [ownerAt EXCEPT ![a] = h]
    /\ paneAt' = [p \in QPanes |-> IF p \in moved THEN [paneAt[p] EXCEPT !.human = h]
                                   ELSE paneAt[p]]
    /\ UNCHANGED rowAt
    /\ Edited

(* A record is written, or its tombstone; an event is appended; a template  *)
(* is renamed.                                                              *)
WriteRow(i, v) ==
    /\ TableOf[i] \in PaneTables => HomeOf[i] \in Here(paneAt)
    /\ TableOf[i] = "events" => rowAt[i] = NoFact
    /\ rowAt' = [rowAt EXCEPT ![i] = v]
    /\ UNCHANGED <<paneAt, ownerAt>>
    /\ Edited

DataStep ==
    \/ \E p \in QPanes, v \in QVersions : CreatePane(p, v) \/ MoveVersion(p, v)
    \/ \E p \in QPanes : TrashPane(p) \/ RestorePane(p) \/ DeletePane(p)
    \/ \E a \in QAgents, h \in QHumans, moved \in SUBSET QPanes : ClaimAgent(a, h, moved)
    \/ \E i \in RowIds, v \in Vals : WriteRow(i, v)

-----------------------------------------------------------------------------
(* The answer ends the query; runQuery's finally closes the connection.     *)
Answer(code, rows, truncated) ==
    /\ step' = "answered"
    /\ answer' = [code |-> code, rows |-> rows, truncated |-> truncated]

(* requireAgent reads the agent with its human; then the body and the       *)
(* statement are validated.                                                 *)
Ask(a, st, o) ==
    /\ step = "idle"
    /\ caller' = [agent |-> a, human |-> ownerAt[a]]
    /\ stmt' = st /\ only' = o
    /\ IF st.valid THEN step' = "scope" /\ UNCHANGED answer
                   ELSE Answer("invalid_request", {}, FALSE)
    /\ everFacts' = FactsIn(paneAt, rowAt) /\ heldFacts' = FactsIn(paneAt, rowAt)
    /\ everPanes' = AskedFor(caller', o, paneAt) /\ heldPanes' = AskedFor(caller', o, paneAt)
    /\ UNCHANGED <<dataVars, readVars, sandbox>>

(* Seeded bug: pane_id names any pane. *)
ReachableById(c, o, ps) ==
    IF o # NoScope THEN {{p \in QPanes : p = o /\ ps[p].life = "live"}}
                   ELSE Take(VisibleTo(c, ps), ScopeCap)

(* findFirst with pane_id, else findMany with the limit.                    *)
Reachable(c, o, ps) ==
    IF o # NoScope THEN {AskedFor(c, o, ps)} ELSE Take(VisibleTo(c, ps), ScopeCap)

(* Without a pane nothing is read.                                          *)
ResolveScope ==
    /\ step = "scope"
    /\ \E ids \in Reachable(caller, only, paneAt) :
           /\ scope' = ids
           /\ pending' = IF ids = {} THEN {} ELSE PaneTables
    /\ step' = "panes"
    /\ UNCHANGED <<dataVars, askVars, loaded, sandbox, answer, traceVars>>

LoadedPanes == {f \in loaded : f[1] = "panes"}
LoadedTemplates == {OnTemplate[f[2]] : f \in LoadedPanes}

Below(t) == IF t \in PaneTables THEN scope ELSE LoadedTemplates

(* What the statement for a table returns: the panes, trashed since or not, *)
(* and the template heads without a limit, the others one over their cap.   *)
Returned(t) ==
    LET found == {f \in FactsIn(paneAt, rowAt) : f[1] = t /\ Home(f) \in Below(t)}
    IN  IF t \in {"panes", "templates"} THEN {found} ELSE Take(found, RowCap + 1)

LoadTable(t) ==
    /\ t \in pending
    /\ \E rows \in Returned(t) : loaded' = loaded \cup rows
    /\ pending' = pending \ {t}
    /\ UNCHANGED <<dataVars, step, askVars, scope, sandbox, answer, traceVars>>

(* All three are in: the templates of the panes that were read are next.    *)
LoadTemplates ==
    /\ step = "panes" /\ pending = {}
    /\ step' = "templates"
    /\ pending' = IF LoadedPanes = {} THEN {} ELSE TemplateTables
    /\ UNCHANGED <<dataVars, askVars, scope, loaded, sandbox, answer, traceVars>>

(* A statement of the live database fails.                                  *)
ReadFails ==
    /\ step = "scope" \/ pending # {}
    /\ Answer("internal", {}, FALSE) /\ pending' = {}
    /\ UNCHANGED <<dataVars, askVars, scope, loaded, sandbox, traceVars>>

-----------------------------------------------------------------------------
LoadedAll == step = "templates" /\ pending = {}

TooLarge ==
    \E t \in {"records", "events", "template_records"} :
        Cardinality({f \in loaded : f[1] = t}) > RowCap

RefuseScope ==
    /\ LoadedAll /\ TooLarge
    /\ Answer("scope_too_large", {}, FALSE)
    /\ UNCHANGED <<dataVars, askVars, readVars, sandbox, traceVars>>

(* buildSchemaFingerprint: of one column of one name two versions disagree. *)
LoadedVersions == {f[3].version : f \in LoadedPanes}
Conflicting(d) ==
    \E v, w \in LoadedVersions, c \in Cols, t, u \in Types :
        t # u /\ <<d, c, t>> \in DeclaredIn[v] /\ <<d, c, u>> \in DeclaredIn[w]

(* A conflict is fatal when the statement touches the view that has its     *)
(* name: of a template collection that is not its view.                     *)
Fatal == \E d \in Declared : Conflicting(d) /\ (stmt.all \/ <<"", d[2]>> \in stmt.reads)

(* The views the statement touches, all of them for SHOW, DESCRIBE and      *)
(* EXPLAIN and when it cannot be parsed.                                    *)
ToBuild ==
    {d \in Declared : /\ stmt.all \/ ViewOf(d) \in stmt.reads
                      /\ \E v \in LoadedVersions : \E x \in DeclaredIn[v] : x[1] = d}

(* CREATE VIEW fails on a name that is taken.                               *)
NameTaken ==
    \E d \in ToBuild : \/ \E t \in Tables : ViewOf(d) = Generic(t)
                       \/ \E e \in ToBuild : e # d /\ ViewOf(e) = ViewOf(d)

RefuseViews ==
    /\ LoadedAll /\ ~TooLarge /\ (Fatal \/ NameTaken)
    /\ Answer(IF Fatal THEN "view_conflict" ELSE "internal", {}, FALSE)
    /\ conn' = "closed"
    /\ UNCHANGED <<dataVars, askVars, readVars, built, body, traceVars>>

BuildViews ==
    /\ LoadedAll /\ ~TooLarge /\ ~Fatal /\ ~NameTaken
    /\ built' = ToBuild /\ conn' = "open" /\ body' = "running" /\ step' = "execute"
    /\ UNCHANGED <<dataVars, askVars, readVars, answer, traceVars>>

-----------------------------------------------------------------------------
SourceOf(d) == CASE d[1] = "collection" -> "records"
                 [] d[1] = "template" -> "template_records"
                 [] d[1] = "event" -> "events"

(* A row is behind a view the statement reads.                              *)
Selected(f) ==
    \/ Generic(f[1]) \in stmt.reads
    \/ \E d \in built : /\ ViewOf(d) \in stmt.reads
                        /\ f[1] = SourceOf(d) /\ NameOf[f[2]] = d[2]

ViewExists(x) == (\E t \in Tables : x = Generic(t)) \/ (\E d \in built : x = ViewOf(d))

(* The body wins the race. What SELECT * over the views it reads returns,   *)
(* cut at the cap; introspection returns no rows of the data.               *)
Complete ==
    LET result == IF stmt.all THEN {} ELSE {f \in loaded : Selected(f)} IN
    /\ step = "execute" /\ \A x \in stmt.reads : ViewExists(x)
    /\ \E rows \in Take(result, OutputCap) :
           Answer("ok", rows, Cardinality(result) > OutputCap)
    /\ conn' = "closed" /\ body' = "over"
    /\ UNCHANGED <<dataVars, askVars, readVars, built, traceVars>>

(* A view that is not there, a cast of a value that does not fit.           *)
Fails ==
    /\ step = "execute"
    /\ Answer("query_error", {}, FALSE)
    /\ conn' = "closed" /\ body' = "over"
    /\ UNCHANGED <<dataVars, askVars, readVars, built, traceVars>>

(* The timer wins, and interrupts the body, which may still be running.     *)
TimesOut ==
    /\ step = "execute"
    /\ Answer("query_timeout", {}, FALSE)
    /\ conn' = "closed"
    /\ UNCHANGED <<dataVars, askVars, readVars, built, body, traceVars>>

(* Whatever it ends with is swallowed.                                      *)
LateBody ==
    /\ step = "answered" /\ body = "running"
    /\ body' = "over"
    /\ UNCHANGED <<dataVars, step, askVars, readVars, built, conn, answer, traceVars>>

QueryStep ==
    \/ \E a \in QAgents, st \in Statements, o \in QPanes \cup {NoScope} : Ask(a, st, o)
    \/ ResolveScope \/ (\E t \in Tables : LoadTable(t)) \/ LoadTemplates \/ ReadFails
    \/ RefuseScope \/ RefuseViews \/ BuildViews
    \/ Complete \/ Fails \/ TimesOut \/ LateBody

QueryNext == DataStep \/ QueryStep

QuerySpec == QueryInit /\ [][QueryNext]_queryVars

-----------------------------------------------------------------------------
(* An answer shows rows of panes that were the caller's at some moment of   *)
(* the query, or of their templates, and no other.                          *)
ShowsOwnOnly == \A f \in answer.rows : BelongsTo(f, everPanes)

(* Each row was in the database, as it is shown, at some moment.            *)
ShowsFactsOnly == answer.rows \subseteq everFacts

(* What was there throughout, below a pane that was the caller's            *)
(* throughout, is shown: unless the answer says that it was cut, or the     *)
(* caller has as many panes as the limit, of which it is not told.          *)
ShowsAllThatStayed ==
    answer.code = "ok" /\ ~answer.truncated /\ ~stmt.all
    /\ (only # NoScope \/ Cardinality(scope) < ScopeCap) =>
        \A f \in heldFacts : Selected(f) /\ BelongsTo(f, heldPanes) => f \in answer.rows

(* The columns of a pane's view have one type in all versions it was built  *)
(* from.                                                                    *)
ViewsAgree == \A d \in built : d[1] # "template" => ~Conflicting(d)

(* No answer leaves a database behind.                                      *)
SandboxClosed == step = "answered" => conn # "open"

(* POST /v1/query: an answer is of the caller's own data, true, and         *)
(* complete, though it was read piece by piece while the data changed; a    *)
(* view it was computed from merges no two types; the throwaway database is *)
(* closed however the query ends.                                           *)
QueryIsSound ==
    ShowsOwnOnly /\ ShowsFactsOnly /\ ShowsAllThatStayed /\ ViewsAgree /\ SandboxClosed
=============================================================================
