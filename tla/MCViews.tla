------------------------------ MODULE MCViews ------------------------------
(* The instances of the live graph, with what is read off its journal. *)
EXTENDS MCLiveGraph, JournalViews
=============================================================================
