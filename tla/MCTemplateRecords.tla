-------------------------- MODULE MCTemplateRecords --------------------------
(* Small instances of TemplateRecords, which is Records with the sessions   *)
(* of derived panes.                                                        *)
EXTENDS TemplateRecords, TLC

(* A bound of the instance: a session of which SessionExact says nothing    *)
(* any more, since it lacks a row and was away from a removal, ends the     *)
(* behaviour.                                                               *)
Followed == lost \cap stale = {}

Symmetry == Permutations(Writers) \cup Permutations(Sessions)
=============================================================================
