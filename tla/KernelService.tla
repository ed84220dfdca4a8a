--------------------------- MODULE KernelService ----------------------------
(***************************************************************************)
(* What the kernels of notebooks promise their clients.  A kernel serves   *)
(* from when it is started until it is gone; its number may then be given  *)
(* to another.  While it serves, it takes requests and finishes them one   *)
(* by one, in the order they came in: each with its own result, or with an *)
(* empty response when its process died.  Those it has not finished when   *)
(* it goes are closed at that moment.  A request that no kernel takes is   *)
(* closed, or evaluated elsewhere.  What has become of a request does not  *)
(* change.                                                                 *)
(***************************************************************************)
EXTENDS Naturals, Sequences, Functions

CONSTANTS
  Kernels,    \* the numbers of the kernels
  Requests,   \* the requests clients may make, each once
  Nobody      \* no request

VARIABLES
  life,    \* what has become of a kernel: "unborn", "serving", "gone"
  line,    \* the requests it has taken and not finished, in order
  fate,    \* what has become of a request
  result   \* the request whose result a client was sent

vars == <<life, line, fate, result>>

Init ==
  /\ life = [k \in Kernels |-> "unborn"]
  /\ line = [k \in Kernels |-> <<>>]
  /\ fate = [r \in Requests |-> "new"]
  /\ result = [r \in Requests |-> Nobody]

Start(k) ==
  /\ life[k] \in {"unborn", "gone"}
  /\ life' = [life EXCEPT ![k] = "serving"]
  /\ UNCHANGED <<line, fate, result>>

Take(r, k) ==
  /\ fate[r] = "new" /\ life[k] = "serving"
  /\ fate' = [fate EXCEPT ![r] = "waiting"]
  /\ line' = [line EXCEPT ![k] = Append(@, r)]
  /\ UNCHANGED <<life, result>>

Refuse(r) ==
  /\ fate[r] = "new"
  /\ \E how \in {"closed", "server"} : fate' = [fate EXCEPT ![r] = how]
  /\ UNCHANGED <<life, line, result>>

(* The kernel is gone, with the rest of its line; or it serves on.          *)
GoesOn(k, rest, fates) ==
  /\ line' = [line EXCEPT ![k] = rest]
  /\ fate' = fates
  /\ UNCHANGED life

Goes(k, rest, fates) ==
  /\ life' = [life EXCEPT ![k] = "gone"]
  /\ line' = [line EXCEPT ![k] = <<>>]
  /\ fate' = [r \in Requests |-> IF r \in Range(rest) THEN "closed" ELSE fates[r]]

Finish(k) ==
  /\ line[k] # <<>>
  /\ LET front == Head(line[k])
     IN \E how \in {"answered", "empty"} :
          /\ LET fates == [fate EXCEPT ![front] = how]
             IN GoesOn(k, Tail(line[k]), fates) \/ Goes(k, Tail(line[k]), fates)
          /\ result' = IF how = "answered" THEN [result EXCEPT ![front] = front] ELSE result

End(k) ==
  /\ life[k] = "serving"
  /\ Goes(k, line[k], fate)
  /\ UNCHANGED result

Next ==
  \/ \E k \in Kernels : Start(k) \/ Finish(k) \/ End(k)
  \/ \E r \in Requests, k \in Kernels : Take(r, k)
  \/ \E r \in Requests : Refuse(r)

Spec == Init /\ [][Next]_vars
=============================================================================
