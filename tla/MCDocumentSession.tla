-------------------------- MODULE MCDocumentSession --------------------------
(* A page that can hold a typeset paper of two pages, a picture and a       *)
(* widget, and a blank page.                                               *)
EXTENDS DocumentSession

CONSTANTS paper, picture, counter, first, other

MCPage == [b \in Block |-> first]
MCKind == [b \in Block |->
  CASE b = paper -> "latex" [] b = picture -> "asset" [] OTHER -> "widget"]
MCParts == [b \in Block |->
  CASE b = paper -> {1, 2} [] b = picture -> {1} [] OTHER -> {}]
=============================================================================
