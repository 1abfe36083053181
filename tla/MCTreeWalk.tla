----------------------------- MODULE MCTreeWalk -----------------------------
(***************************************************************************)
(* TLC instance of TreeWalk: a window of seven elements on four levels,    *)
(*                                                                         *)
(*        w  -- toolbar -- save -- icon                                    *)
(*           -- edit                                                       *)
(*           -- list -- item                                               *)
(*                                                                         *)
(* with a childless element in the middle of a level, so that it may be at *)
(* the depth limit, be lost, or be lost with a sibling behind it, and two  *)
(* elements of one level of which only the first has a child.              *)
(***************************************************************************)
EXTENDS TreeWalk

CONSTANTS w, toolbar, edit, list, save, item, icon, invoke, value, scroll

MCElements == {w, toolbar, edit, list, save, item, icon}
MCChildren ==
  [e \in MCElements |-> CASE e = w       -> <<toolbar, edit, list>>
                          [] e = toolbar -> <<save>>
                          [] e = list    -> <<item>>
                          [] e = save    -> <<icon>>
                          [] OTHER       -> <<>>]
MCParent ==
  [e \in MCElements |-> CASE e = save -> toolbar
                          [] e = item -> list
                          [] e = icon -> save
                          [] OTHER    -> w]
MCDepth ==
  [e \in MCElements |-> CASE e = w              -> 0
                          [] e \in {save, item} -> 2
                          [] e = icon           -> 3
                          [] OTHER              -> 1]
MCPatterns == {invoke, value, scroll}
MCSupports ==
  [e \in MCElements |-> CASE e = save -> {invoke}
                          [] e = edit -> {value}
                          [] OTHER    -> {}]
=============================================================================
