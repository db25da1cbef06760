-------------------------- MODULE TemplateCatalog --------------------------
(* One template, its versions and its installs                             *)
(* (packages/relay/src/http/routes/templates.ts and                        *)
(* template-marketplace.ts, trash.ts for its trash).                       *)
(*                                                                         *)
(* Every handler reads rows, decides, and writes by id later; publishing a *)
(* version also walks the installs that follow the template, one UPDATE    *)
(* after the other. Only the unique indexes on (template, version) and on  *)
(* (human, template) and the foreign key of panes tie the steps together.  *)
(***************************************************************************)
EXTENDS Naturals, FiniteSets

CONSTANTS
    Calls,        \* requests, each runs one handler
    Installers,   \* humans
    Incompatible, \* pairs <<from, to>> that comparePaneSchemas rejects
    MaxVersions,  \* MAX_VERSIONS_PER_ARTIFACT
    MaxLaunches       \* bound of the model: panes ever created

ASSUME CatalogAssumption ==
    /\ Installers # {}
    /\ MaxVersions \in Nat \ {0} /\ MaxLaunches \in Nat
    /\ Incompatible \subseteq (1 .. MaxVersions) \X (1 .. MaxVersions)

Numbers == 1 .. MaxVersions
Policies == {"pin", "follow"}

VARIABLES
    template,     \* "live", "trashed" or "gone"
    published,    \* publishedAt is set
    lastVersion,  \* Template.latestVersion; the versions are 1 .. lastVersion
    installs,     \* HumanTemplateInstall rows, by human
    installCount, \* Template.installCount
    uses,         \* panes that reference a version, trashed ones included
    created,      \* panes created so far
    call,         \* where each request stands and what it has read
    appended,     \* history: version numbers answered to a publisher
    solo          \* history: no other request has written since this one began

catalogVars == <<template, published, lastVersion, installs, installCount,
                 uses, created, call, appended, solo>>
head == <<template, published>>
panesOf == <<uses, created>>

Install == [version : Numbers, follow : BOOLEAN, active : BOOLEAN, blocked : BOOLEAN]
Stages == {"new", "append", "scan", "advance", "lookup", "create", "reset", "count",
           "policy", "move", "unblock", "leave", "uncount", "launch", "delete", "done"}
NoInstalls == [h \in {} |-> h]
Idle == [stage |-> "new", human |-> CHOOSE h \in Installers : TRUE, version |-> 1,
         follow |-> FALSE, todo |-> {}]

CallRow == [stage : Stages, human : Installers, version : Numbers, follow : BOOLEAN,
            todo : SUBSET (Installers \X Numbers)]

CatalogTypeOK ==
    /\ template \in {"live", "trashed", "gone"} /\ published \in BOOLEAN
    /\ lastVersion \in Numbers
    /\ DOMAIN installs \subseteq Installers
    /\ \A h \in DOMAIN installs : installs[h] \in Install
    /\ installCount \in Nat /\ uses \in Nat /\ created \in 0 .. MaxLaunches
    /\ call \in [Calls -> CallRow]
    /\ appended \in [Numbers -> Nat]
    /\ solo \in [Calls -> BOOLEAN]

CatalogInit ==
    /\ template = "live" /\ published = FALSE /\ lastVersion = 1
    /\ installs = NoInstalls /\ installCount = 0
    /\ uses = 0 /\ created = 0
    /\ call = [c \in Calls |-> Idle]
    /\ appended = [n \in Numbers |-> 0]
    /\ solo = [c \in Calls |-> TRUE]

-----------------------------------------------------------------------------
StandsAt(c, stage) == call[c].stage = stage
Step(c, stage) == call' = [call EXCEPT ![c].stage = stage]
Here == template # "gone"
HasRow(h) == h \in DOMAIN installs
ActiveInstall(h) == HasRow(h) /\ installs[h].active
PutInstall(h, row) ==
    installs' = [g \in DOMAIN installs \cup {h} |-> IF g = h THEN row ELSE installs[g]]
Breaks(from, to) == <<from, to>> \in Incompatible

(* A write: the other requests in flight are no longer alone.              *)
CatalogWrites(c) == solo' = [d \in Calls |-> solo[d] /\ (d = c \/ call[d].stage \in {"new", "done"})]

(* A request begins: it is alone if no other one is in flight.             *)
Start(c, job) ==
    /\ StandsAt(c, "new")
    /\ call' = [call EXCEPT ![c] = job]
    /\ solo' = [solo EXCEPT ![c] = \A d \in Calls \ {c} : call[d].stage \in {"new", "done"}]
    /\ UNCHANGED <<head, lastVersion, installs, installCount, panesOf, appended>>

-----------------------------------------------------------------------------
(* POST /v1/templates/:id/versions.                                        *)
LoadTemplate(c) ==
    /\ template = "live" /\ lastVersion < MaxVersions
    /\ Start(c, [Idle EXCEPT !.stage = "append", !.version = lastVersion + 1])

(* Seeded bug: no unique index on (template_id, version).                  *)
FreeAlways(n) == TRUE
Free(n) == lastVersion < n

(* One transaction: the version and latestVersion. A number that another   *)
(* publisher has taken is a P2002, which nothing catches.                  *)
AppendVersion(c) ==
    LET n == call[c].version IN
    /\ StandsAt(c, "append")
    /\ IF Here /\ Free(n)
       THEN /\ lastVersion' = n
            /\ appended' = [appended EXCEPT ![n] = @ + 1]
            /\ Step(c, "scan") /\ CatalogWrites(c)
       ELSE Step(c, "done") /\ UNCHANGED <<lastVersion, appended, solo>>
    /\ UNCHANGED <<head, installs, installCount, panesOf>>

(* advanceFollowInstalls: the installs to look at, then one by one.        *)
ScanFollowers(c) ==
    /\ StandsAt(c, "scan")
    /\ LET found == {h \in DOMAIN installs : /\ installs[h].active /\ installs[h].follow
                                             /\ installs[h].version # call[c].version}
       IN call' = [call EXCEPT ![c].stage = IF found = {} THEN "done" ELSE "advance",
                               ![c].todo = {<<h, installs[h].version>> : h \in found}]
    /\ UNCHANGED <<head, lastVersion, installs, installCount, panesOf, appended, solo>>

(* Seeded bug: the gate compares with the version before the new one.      *)
GatePrevious(from, to) == to > 1 /\ Breaks(to - 1, to)
Gate(from, to) == Breaks(from, to)

AdvanceOne(c) ==
    /\ StandsAt(c, "advance")
    /\ \E x \in call[c].todo :
           /\ IF HasRow(x[1])
              THEN PutInstall(x[1], IF Gate(x[2], call[c].version)
                                    THEN [installs[x[1]] EXCEPT !.blocked = TRUE]
                                    ELSE [installs[x[1]] EXCEPT !.version = call[c].version,
                                                                !.blocked = FALSE])
              ELSE UNCHANGED installs
           /\ call' = [call EXCEPT ![c].todo = IF HasRow(x[1]) THEN @ \ {x} ELSE {},
                                   ![c].stage = IF HasRow(x[1]) /\ call[c].todo # {x}
                                                THEN "advance" ELSE "done"]
    /\ CatalogWrites(c)
    /\ UNCHANGED <<head, lastVersion, installCount, panesOf, appended>>

(* The process dies in the walk; the version stays published.              *)
AdvanceDies(c) ==
    /\ StandsAt(c, "advance") /\ Step(c, "done")
    /\ solo' = [solo EXCEPT ![c] = FALSE]
    /\ UNCHANGED <<head, lastVersion, installs, installCount, panesOf, appended>>

Publisher(c) == LoadTemplate(c) \/ AppendVersion(c) \/ ScanFollowers(c)
                    \/ AdvanceOne(c) \/ AdvanceDies(c)

-----------------------------------------------------------------------------
(* POST /v1/templates/:id/install: the template, the row, the write. That  *)
(* the template is in the trash is not looked at.                          *)
LoadForInstall(c) ==
    /\ Here /\ published
    /\ \E h \in Installers, f \in BOOLEAN :
           Start(c, [Idle EXCEPT !.stage = "lookup", !.human = h, !.follow = f,
                                 !.version = lastVersion])

LookUpInstall(c) ==
    /\ StandsAt(c, "lookup")
    /\ Step(c, IF HasRow(call[c].human) THEN "reset" ELSE "create")
    /\ UNCHANGED <<head, lastVersion, installs, installCount, panesOf, appended, solo>>

Fresh(c) == [version |-> call[c].version, follow |-> call[c].follow,
             active |-> TRUE, blocked |-> FALSE]

(* Seeded bug: the loser of two first installs counts as well.             *)
CreateInstallCounted(c) ==
    /\ StandsAt(c, "create")
    /\ IF Here
       THEN PutInstall(call[c].human, Fresh(c)) /\ Step(c, "count") /\ CatalogWrites(c)
       ELSE Step(c, "done") /\ UNCHANGED <<installs, solo>>
    /\ UNCHANGED <<head, lastVersion, installCount, panesOf, appended>>

(* The first install counts; the loser of a race on the index does not.    *)
CreateInstall(c) ==
    /\ StandsAt(c, "create")
    /\ IF Here
       THEN /\ PutInstall(call[c].human, Fresh(c))
            /\ Step(c, IF HasRow(call[c].human) THEN "done" ELSE "count")
            /\ CatalogWrites(c)
       ELSE Step(c, "done") /\ UNCHANGED <<installs, solo>>
    /\ UNCHANGED <<head, lastVersion, installCount, panesOf, appended>>

ResetInstall(c) ==
    /\ StandsAt(c, "reset") /\ Step(c, "done")
    /\ IF HasRow(call[c].human)
       THEN PutInstall(call[c].human, Fresh(c)) /\ CatalogWrites(c)
       ELSE UNCHANGED <<installs, solo>>
    /\ UNCHANGED <<head, lastVersion, installCount, panesOf, appended>>

CountInstall(c) ==
    /\ StandsAt(c, "count") /\ Step(c, "done")
    /\ installCount' = IF Here THEN installCount + 1 ELSE installCount
    /\ CatalogWrites(c)
    /\ UNCHANGED <<head, lastVersion, installs, panesOf, appended>>

(* POST /:id/uninstall: not one transaction, and not conditional.          *)
LoadForUninstall(c) ==
    \E h \in Installers : ActiveInstall(h) /\ Start(c, [Idle EXCEPT !.stage = "leave", !.human = h])

LeaveInstall(c) ==
    /\ StandsAt(c, "leave")
    /\ IF HasRow(call[c].human)
       THEN /\ PutInstall(call[c].human, [installs[call[c].human] EXCEPT !.active = FALSE])
            /\ Step(c, "uncount") /\ CatalogWrites(c)
       ELSE Step(c, "done") /\ UNCHANGED <<installs, solo>>
    /\ UNCHANGED <<head, lastVersion, installCount, panesOf, appended>>

(* Seeded bug: the count has no floor.                                     *)
UncountInstallBelowZero(c) ==
    /\ StandsAt(c, "uncount") /\ Step(c, "done")
    /\ installCount' = installCount - 1
    /\ CatalogWrites(c)
    /\ UNCHANGED <<head, lastVersion, installs, panesOf, appended>>

UncountInstall(c) ==
    /\ StandsAt(c, "uncount") /\ Step(c, "done")
    /\ installCount' = IF installCount > 0 THEN installCount - 1 ELSE 0
    /\ CatalogWrites(c)
    /\ UNCHANGED <<head, lastVersion, installs, panesOf, appended>>

(* PATCH /:id/install.                                                     *)
LoadForPolicy(c) ==
    \E h \in Installers, f \in BOOLEAN :
        ActiveInstall(h) /\ Start(c, [Idle EXCEPT !.stage = "policy", !.human = h, !.follow = f])

SetPolicy(c) ==
    /\ StandsAt(c, "policy") /\ Step(c, "done")
    /\ IF HasRow(call[c].human)
       THEN PutInstall(call[c].human,
                       [installs[call[c].human] EXCEPT !.follow = call[c].follow])
       ELSE UNCHANGED installs
    /\ CatalogWrites(c)
    /\ UNCHANGED <<head, lastVersion, installCount, panesOf, appended>>

(* POST /:id/upgrade: any existing version; a strict one passes the gate,  *)
(* "force" does not. To ask for the installed version clears the block.    *)
LoadForUpgrade(c) ==
    \E h \in Installers, n \in 1 .. lastVersion :
        /\ ActiveInstall(h) /\ (n = installs[h].version => installs[h].blocked)
        /\ Start(c, [Idle EXCEPT
                        !.stage = IF n = installs[h].version THEN "unblock" ELSE "move",
                        !.human = h, !.version = n])

UnblockInstall(c) ==
    /\ StandsAt(c, "unblock") /\ Step(c, "done")
    /\ IF HasRow(call[c].human)
       THEN PutInstall(call[c].human, [installs[call[c].human] EXCEPT !.blocked = FALSE])
       ELSE UNCHANGED installs
    /\ CatalogWrites(c)
    /\ UNCHANGED <<head, lastVersion, installCount, panesOf, appended>>

MoveInstall(c) ==
    /\ StandsAt(c, "move") /\ Step(c, "done")
    /\ IF HasRow(call[c].human)
       THEN PutInstall(call[c].human, [installs[call[c].human] EXCEPT
                           !.version = call[c].version, !.blocked = FALSE])
       ELSE UNCHANGED installs
    /\ CatalogWrites(c)
    /\ UNCHANGED <<head, lastVersion, installCount, panesOf, appended>>

Installer(c) ==
    \/ LoadForInstall(c) \/ LookUpInstall(c) \/ CreateInstall(c) \/ ResetInstall(c)
    \/ CountInstall(c) \/ LoadForUninstall(c) \/ LeaveInstall(c) \/ UncountInstall(c)
    \/ LoadForPolicy(c) \/ SetPolicy(c) \/ LoadForUpgrade(c) \/ UnblockInstall(c)
    \/ MoveInstall(c)

-----------------------------------------------------------------------------
(* POST /:id/launch: the installed version, or the owner's latest one.     *)
LoadForLaunch(c) ==
    /\ template = "live"
    /\ \E n \in {installs[h].version : h \in {g \in DOMAIN installs : ActiveInstall(g)}}
                    \cup {lastVersion} :
           Start(c, [Idle EXCEPT !.stage = "launch", !.version = n])

(* Seeded bug: panes do not hold on to their version.                      *)
ReferencesHoldNever == TRUE
ReferencesHold == uses = 0

LaunchPane(c) ==
    /\ StandsAt(c, "launch") /\ Step(c, "done")
    /\ IF Here /\ created < MaxLaunches
       THEN uses' = uses + 1 /\ created' = created + 1 /\ CatalogWrites(c)
       ELSE UNCHANGED <<panesOf, solo>>
    /\ UNCHANGED <<head, lastVersion, installs, installCount, appended>>

PanePurged ==
    /\ uses > 0 /\ uses' = uses - 1
    /\ UNCHANGED <<head, lastVersion, installs, installCount, created, call, appended, solo>>

(* DELETE /v1/templates/:id counts the panes, then deletes; DELETE         *)
(* /v1/trash/templates/:id counts the live ones. The database refuses      *)
(* while any pane references a version. Installs go with the row.          *)
LoadForDelete(c) ==
    /\ (template = "live" /\ uses = 0) \/ template = "trashed"
    /\ Start(c, [Idle EXCEPT !.stage = "delete"])

DeleteTemplate(c) ==
    /\ StandsAt(c, "delete") /\ Step(c, "done")
    /\ IF Here /\ ReferencesHold
       THEN template' = "gone" /\ installs' = NoInstalls /\ CatalogWrites(c)
       ELSE UNCHANGED <<template, installs, solo>>
    /\ UNCHANGED <<published, lastVersion, installCount, panesOf, appended>>

(* Handlers whose write does not depend on what was read: publish and      *)
(* unpublish, and the move to the trash and back.                          *)
Publish ==
    /\ Here
    /\ published' \in BOOLEAN /\ published' # published
    /\ UNCHANGED <<template, lastVersion, installs, installCount, panesOf, call, appended, solo>>

TrashTemplate ==
    /\ template = "live" /\ template' = "trashed"
    /\ UNCHANGED <<published, lastVersion, installs, installCount, panesOf, call, appended, solo>>

RestoreTemplate ==
    /\ template = "trashed" /\ template' = "live"
    /\ UNCHANGED <<published, lastVersion, installs, installCount, panesOf, call, appended, solo>>

Owner(c) == LoadForLaunch(c) \/ LaunchPane(c) \/ LoadForDelete(c) \/ DeleteTemplate(c)

CatalogNext ==
    \/ \E c \in Calls : Publisher(c) \/ Installer(c) \/ Owner(c)
    \/ PanePurged \/ Publish \/ TrashTemplate \/ RestoreTemplate

CatalogSpec == CatalogInit /\ [][CatalogNext]_catalogVars

-----------------------------------------------------------------------------
(* Two agents of one owner that publish at once are never both answered    *)
(* with one version number.                                                *)
NumbersAreUnique == \A n \in Numbers : appended[n] <= 1

(* Racing first installs, re-installs and uninstalls of one human never    *)
(* push installCount above the number of rows there ever were.             *)
CountBelowInstalls == template # "gone" => installCount <= Cardinality(DOMAIN installs)

(* A pane's version is there as long as the pane is: neither the deletion  *)
(* that counted no panes before a launch nor a purge takes it away.        *)
PanesKeepTemplate == uses > 0 => Here

(* A publisher with which nobody interfered never carries a follower over  *)
(* a break, and leaves every active follower at the new version, or blocked *)
(* because the new version breaks its own: also one that an earlier,       *)
(* aborted walk has left behind ("we'll heal installs on the next publish").*)
Settled(i, n) == i.version = n \/ (i.blocked /\ Breaks(i.version, n))

FollowersAreAdvanced ==
    [][\A c \in Calls : call[c].stage \in {"scan", "advance"} /\ call'[c] # call[c] /\ solo'[c] =>
           \A h \in DOMAIN installs :
               /\ installs[h].version # call[c].version /\ installs'[h].version = call[c].version
                      => ~Breaks(installs[h].version, call[c].version)
               /\ call'[c].stage = "done" /\ installs[h].active /\ installs[h].follow
                      => Settled(installs'[h], call[c].version)]_catalogVars

(* Does not hold: an install that is uninstalled and installed again is    *)
(* counted down but not up again.                                          *)
CountIsExact ==
    (template # "gone" /\ \A c \in Calls : call[c].stage \in {"new", "done"}) =>
        installCount = Cardinality({h \in DOMAIN installs : installs[h].active})

(* Does not hold: two publishers' walks interleave, or a walk meets an     *)
(* upgrade, and the later UPDATE moves an install back.                    *)
WalkNeverMovesBack ==
    [][\A c \in Calls, h \in Installers :
           call[c].stage = "advance" /\ call'[c] # call[c] /\ HasRow(h) /\ h \in DOMAIN installs'
               => installs'[h].version >= installs[h].version]_catalogVars

(* Numbers, counters and references of a template, and its followers.      *)
CatalogIsSound ==
    /\ [](CatalogTypeOK /\ NumbersAreUnique /\ CountBelowInstalls /\ PanesKeepTemplate)
    /\ FollowersAreAdvanced
=============================================================================
