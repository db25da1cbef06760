------------------------------- MODULE MCEnds -------------------------------
(* Both ends of the system. In storage: small instances of Attachments,     *)
(* with caps that admit, evict, refuse and are overdrawn, and of Records on *)
(* Postgres, with a polling client. In the browser: PushNotify, OwnerHome,  *)
(* and PageOpen. A behaviour exercises one of them, its focus (some are     *)
(* split), and leaves the others as they start.                             *)
EXTENDS Attachments, Records, PushNotify, OwnerHome, PageOpen, TLC

VARIABLE focus

CONSTANTS h1, k2, g2    \* an owner; PushNotify: a click; OwnerHome: the pane
                        \* a launch creates

(* Requests bear the names of writers, so that one set of permutations      *)
(* serves both.                                                             *)
Symmetry == Permutations(Writers) \cup Permutations(Readers)

(* Out of focus, a component starts in one of the states it may start in.   *)
EndsInit ==
    /\ focus \in {"attachments", "uploads", "records", "switch", "announce",
                  "nav", "list", "agents", "open"}
    /\ AttachmentsInit /\ Init /\ HomeInit
    /\ PushInit /\ (focus \in {"switch", "announce"} \/ session = h1)
    /\ OpenInit
    /\ focus = "open" \/ (doorway.mode = "link" /\ link.bound = NoOne)

(* Two rows of one byte that every handler meets, of which at most the first*)
(* is the pane's, or three that are only uploaded, the n-th of n bytes.     *)
AttachmentStep ==
    /\ focus \in {"attachments", "uploads"} /\ AttachmentsNext
    /\ \/ /\ focus = "attachments" /\ row'[MaxBlobs] = NoRow
          /\ row'[2].scope = "agent" /\ \A r \in Requests : job'[r].size <= 1
       \/ /\ focus = "uploads" /\ UNCHANGED <<paneGone, sweeping>>
          /\ \A b \in Blobs : row'[b].size \in {0, b} /\ told'[b] \notin {"asked", "removed"}
          /\ \A r \in Requests : at'[r] # "fetch"

(* Two clicks at a time while one pane is announced, or one with them all.  *)
PushStep ==
    /\ focus \in {"switch", "announce"} /\ PushNext
    /\ \/ focus = "switch" /\ created' <= 1
       \/ focus = "announce" /\ click'[k2] = NoClick

(* The lists have one pane and no launches, and the owner goes from one view *)
(* to the pane and back, when no tags are edited.                           *)
OnePaneListed ==
    /\ NavNext \/ ListNext \/ \E r \in Sends : IsLost(r) \/ ShowFailure(r)
    /\ view' \in {"home", "pane"} /\ mounted' # g2 /\ scroll' = 0 /\ Len(entries') <= 2
    /\ \A p \in HomePanes : p = g2 \/ Len(entries') = 2 => editor'[p] = "closed"
    /\ \A r \in Sends : sending'[r].on \notin {g2, "tile", "sheet"}

HomeStep ==
    \/ focus = "nav" /\ NavNext
    \/ focus = "list" /\ OnePaneListed
    \/ /\ focus = "agents"
       /\ AgentsNext \/ ReloadHome \/ \E r \in Sends : IsLost(r) \/ ShowFailure(r)

EndsNext ==
    /\ UNCHANGED focus
    /\ \/ /\ AttachmentStep
          /\ UNCHANGED <<vars, pushVars, homeVars, openVars>>
       \/ /\ focus = "records" /\ Next
          /\ UNCHANGED <<attachmentVars, pushVars, homeVars, openVars>>
       \/ /\ PushStep
          /\ UNCHANGED <<attachmentVars, vars, homeVars, openVars>>
       \/ /\ HomeStep
          /\ UNCHANGED <<attachmentVars, vars, pushVars, openVars>>
       \/ /\ focus = "open" /\ OpenNext
          /\ UNCHANGED <<attachmentVars, vars, pushVars, homeVars>>

endsVars == <<attachmentVars, vars, pushVars, homeVars, openVars, focus>>

EndsSpec == EndsInit /\ [][EndsNext]_endsVars
=============================================================================
