---- MODULE MCNodeForms ----
(* Both pages with a few choices and one edited field on the way of a node. *)
EXTENDS NodeForms
====
