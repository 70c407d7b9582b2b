---------------------------- MODULE FileDelivery ----------------------------
(***************************************************************************)
(* What the upload path promises whoever uploads: a file appears on the    *)
(* agent chunk by chunk, in the order of the source, without gaps and      *)
(* without anybody else's bytes, and the uploader is told "ok" only when   *)
(* the whole source is there, after which the file is not written again.   *)
(***************************************************************************)
EXTENDS Naturals, Sequences

CONSTANTS Uploads, MaxSize

VARIABLES
  size,    \* upload -> chunks of its source
  stored,  \* upload -> the chunks of its file on the agent
  told     \* upload -> what the uploader was told

vars == <<size, stored, told>>

Init ==
  /\ size = [u \in Uploads |-> 0]
  /\ stored = [u \in Uploads |-> <<>>]
  /\ told = [u \in Uploads |-> "no"]

Begin(u) ==
  /\ told[u] = "no" /\ stored[u] = <<>>
  /\ \E n \in 0 .. MaxSize : size' = [size EXCEPT ![u] = n]
  /\ UNCHANGED <<stored, told>>

Grow(u) ==
  /\ told[u] # "ok" /\ Len(stored[u]) < size[u]
  /\ stored' = [stored EXCEPT ![u] = Append(@, Len(@) + 1)]
  /\ UNCHANGED <<size, told>>

Tell(u) ==
  /\ told[u] = "no"
  /\ \/ Len(stored[u]) = size[u] /\ told' = [told EXCEPT ![u] = "ok"]
     \/ told' = [told EXCEPT ![u] = "error"]
  /\ UNCHANGED <<size, stored>>

Next == \E u \in Uploads : Begin(u) \/ Grow(u) \/ Tell(u)

Spec == Init /\ [][Next]_vars
=============================================================================
