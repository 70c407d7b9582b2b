---------------------------- MODULE SessionLease ----------------------------
(***************************************************************************)
(* What the hub promises about a workspace in use, and nothing of how: a   *)
(* session holds the lease on its workspace from the moment it is asked    *)
(* for.  A newer session takes the lease away and the older one never gets *)
(* it back; the lease is given up exactly when its holder ends.            *)
(***************************************************************************)
EXTENDS Naturals

CONSTANTS Keys, Sids, NoSid, NoKey

VARIABLES
  phase,   \* session -> "unused", "opening", "open" or "ended"
  leaseOn, \* session -> the key it was opened for
  holder   \* key -> the session that holds it

leaseVars == <<phase, leaseOn, holder>>

LeaseInit ==
  /\ phase = [s \in Sids |-> "unused"]
  /\ leaseOn = [s \in Sids |-> NoKey]
  /\ holder = [k \in Keys |-> NoSid]

\* OpenSession: a session never seen before takes the lease of k
Claim(s, k) ==
  /\ phase[s] = "unused"
  /\ phase' = [phase EXCEPT ![s] = "opening"]
  /\ leaseOn' = [leaseOn EXCEPT ![s] = k]
  /\ holder' = [holder EXCEPT ![k] = s]

\* The agent opened the PTY: the lease, kept or already lost, does not move
Opened(s) ==
  /\ phase[s] = "opening"
  /\ phase' = [phase EXCEPT ![s] = "open"]
  /\ UNCHANGED <<leaseOn, holder>>

\* The session ends, for whatever reason, and gives up the lease if it is its
Ended(s) ==
  /\ phase[s] \in {"opening", "open"}
  /\ phase' = [phase EXCEPT ![s] = "ended"]
  /\ holder' = [k \in Keys |-> IF holder[k] = s THEN NoSid ELSE holder[k]]
  /\ UNCHANGED leaseOn

LeaseNext ==
  \E s \in Sids : Opened(s) \/ Ended(s) \/ (\E k \in Keys : Claim(s, k))

LeaseSpec == LeaseInit /\ [][LeaseNext]_leaseVars
=============================================================================
