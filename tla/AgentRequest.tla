---------------------------- MODULE AgentRequest ----------------------------
(***************************************************************************)
(* What the hub promises of a request it makes of an agent on behalf of a  *)
(* client, and nothing of how: the agent carries it out at most once, and  *)
(* the client hears what the agent did, or that the request was not sent,  *)
(* or that nobody knows.  In the last case it may still be carried out,    *)
(* late.                                                                   *)
(***************************************************************************)
CONSTANT Ids

VARIABLES
  effect,   \* request -> "no", or how the agent's work on it ended
  verdict   \* request -> "none", "pending", or what the client was told

requestVars == <<effect, verdict>>

RequestInit ==
  /\ effect = [i \in Ids |-> "no"]
  /\ verdict = [i \in Ids |-> "none"]

Ask(i) ==
  /\ verdict[i] = "none"
  /\ verdict' = [verdict EXCEPT ![i] = "pending"]
  /\ UNCHANGED effect

Refuse(i) ==
  /\ verdict[i] = "pending" /\ effect[i] = "no"
  /\ verdict' = [verdict EXCEPT ![i] = "refused"]
  /\ UNCHANGED effect

Execute(i) ==
  /\ effect[i] = "no" /\ verdict[i] \in {"pending", "unknown"}
  /\ \E r \in {"ok", "error"} : effect' = [effect EXCEPT ![i] = r]
  /\ UNCHANGED verdict

Answer(i) ==
  /\ verdict[i] = "pending" /\ effect[i] # "no"
  /\ verdict' = [verdict EXCEPT ![i] = effect[i]]
  /\ UNCHANGED effect

GiveUp(i) ==
  /\ verdict[i] = "pending"
  /\ verdict' = [verdict EXCEPT ![i] = "unknown"]
  /\ UNCHANGED effect

RequestNext ==
  \E i \in Ids : Ask(i) \/ Refuse(i) \/ Execute(i) \/ Answer(i) \/ GiveUp(i)

RequestSpec == RequestInit /\ [][RequestNext]_requestVars
=============================================================================
