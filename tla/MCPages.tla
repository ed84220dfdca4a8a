------------------------------ MODULE MCPages -------------------------------
(* Model checking of Kernels with fair scheduling: with clients that make   *)
(* any request, and with a page: one that opens a single book, while things *)
(* go wrong, or one that opens several.                                     *)
EXTENDS Pages

CONSTANT First    \* the book of a page that is loaded

LiveInit ==
  /\ Init
  /\ \/ PageStarts(First, "closed", 0) /\ loaded \in BOOLEAN
     \/ PageStarts(First, "not yet", MaxTroubles) /\ loaded = TRUE

(* Kernels are interchangeable, and so are windows, and each kernel is      *)
(* created once: one of them is the first, and one window is its own.       *)
FirstKernel == CHOOSE k \in Kernels : TRUE
FirstWindow == CHOOSE w \in Windows : TRUE

InOrder ==
  /\ kern'[FirstKernel] = Unborn => kern' = kern
  /\ known'[FirstKernel] \in {FirstWindow, Nobody}

LiveNext ==
  \/ ~loaded /\ Next /\ InOrder /\ UNCHANGED pageVars
  \/ loaded /\ PageNext

LivelySpec ==
  LiveInit /\ [][LiveNext]_<<vars, pageVars>> /\ Fairness /\ PageFairness

(* Whatever order answers and events came in, and whatever broke: once      *)
(* nothing breaks any more, the books and the kernels of a page agree.      *)
Settles == loaded => <>[]Settled
=============================================================================
