-------------------------------- MODULE MCTabs --------------------------------
(* A page by itself, with a server that has no files at first: what a mark   *)
(* in the side bar says when a book is typed into while it is saved.         *)
EXTENDS Tabs

NoFiles == <<>>
=============================================================================
