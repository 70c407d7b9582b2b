-------------------------- MODULE Accounts_proofs --------------------------
(* Proofs about Accounts: type correctness, that revocations stand, that   *)
(* counters match the rows of acceptances, that limits hold and failures   *)
(* leave nothing.                                                          *)
EXTENDS Accounts, FiniteSetTheorems, TLAPS

USE BoundsAssumption

-----------------------------------------------------------------------------
(* Types *)

\* A database of an earlier release is typed.
LEMMA TypeInit == Init => TypeOK
<1> SUFFICES ASSUME Init PROVE TypeOK
  OBVIOUS
<1>1. [token |-> 1, disabled |-> FALSE, mode |-> "strict"] \in Row
  BY DEF Row, Modes
<1>2. accounts \in [Names -> Row \cup {None}]
  BY <1>1 DEF Init
<1>3. acl \subseteq Names \X Agents /\ sessions \subseteq Names \X Agents
  BY DEF Init
<1>4. /\ invite \in [Invites -> InviteRow \cup {None}]
      /\ unused \subseteq Invites /\ \A i \in unused : invite[i] = None
      /\ limit \in [Invites -> Nat]
  BY DEF Init
<1>5. accept \in [Acceptors -> Handler \cup {Idle}] /\ admin \in Request \cup {Idle}
  BY DEF Init
<1>6. nextId \in 1 .. MaxId + 1 /\ mishaps \in 0 .. MaxMishaps
      /\ asked \in 0 .. MaxRequests
  BY DEF Init
<1>7. /\ seeded \in BOOLEAN /\ phase \in {"down", "lock", "seed", "mark", "up"}
      /\ accepted \subseteq Invites \X Names
      /\ revoked \subseteq Names \X Agents /\ overlapped \subseteq Invites
      /\ stuck \subseteq Acceptors
  BY DEF Init
<1> QED BY <1>2, <1>3, <1>4, <1>5, <1>6, <1>7 DEF TypeOK

\* A handler that moves on, and one that just made an account, keep their type.
LEMMA MoveType ==
  ASSUME TypeOK, NEW h \in Acceptors, accept[h] # Idle,
         NEW at \in {"free", "made", "moded", "granted", "refused", "ok", "failed"},
         Move(h, at)
  PROVE  accept' \in [Acceptors -> Handler \cup {Idle}]
<1>1. accept[h] \in Handler
  BY DEF TypeOK
<1>2. [accept[h] EXCEPT !.at = at] \in Handler
  BY <1>1 DEF Handler
<1>3. accept' = [accept EXCEPT ![h] = [accept[h] EXCEPT !.at = at]]
  BY <1>1 DEF Move, TypeOK
<1> QED BY <1>2, <1>3 DEF TypeOK

\* A handler under way holds an invite, a name and the row it read.
LEMMA HandlerType ==
  ASSUME TypeOK, NEW h \in Acceptors, accept[h].at # "idle"
  PROVE  /\ accept[h] \in Handler
         /\ accept[h].invite \in Invites
         /\ accept[h].name \in Names
         /\ accept[h].row \in InviteRow
         /\ accept[h].row.agents \subseteq Agents
         /\ accept[h].row.mode \in Modes
         /\ accept[h].token \in Nat
BY DEF TypeOK, Handler, Idle, InviteRow

\* What the statements on table accounts make of it
LEMMA InsertType ==
  ASSUME TypeOK, NEW n \in Names, InsertAccount(n)
  PROVE  accounts' \in [Names -> Row \cup {None}] /\ nextId' \in 1 .. MaxId + 1
<1>1. NewRow(nextId) \in Row
  BY DEF TypeOK, InsertAccount, NewRow, Row, Modes
<1> QED BY <1>1 DEF TypeOK, InsertAccount

\* An account that goes takes its grants with it.
LEMMA DeleteType ==
  ASSUME TypeOK, NEW n \in Names, DeleteAccount(n)
  PROVE  accounts' \in [Names -> Row \cup {None}] /\ acl' \subseteq Names \X Agents
BY DEF TypeOK, DeleteAccount

\* The rows of known accounts, and what an update of one leaves
LEMMA UpdateType ==
  ASSUME TypeOK, NEW n \in Names, Known(n)
  PROVE  /\ accounts[n] \in Row
         /\ accounts[n].disabled \in BOOLEAN
         /\ \A b \in BOOLEAN :
              [accounts EXCEPT ![n].disabled = b] \in [Names -> Row \cup {None}]
         /\ \A m \in Modes :
              [accounts EXCEPT ![n].mode = m] \in [Names -> Row \cup {None}]
         /\ \A t \in 1 .. MaxId :
              [accounts EXCEPT ![n].token = t] \in [Names -> Row \cup {None}]
<1>1. accounts[n] \in Row
  BY DEF TypeOK, Known
<1>2. /\ \A b \in BOOLEAN : [accounts[n] EXCEPT !.disabled = b] \in Row
      /\ \A m \in Modes : [accounts[n] EXCEPT !.mode = m] \in Row
      /\ \A t \in 1 .. MaxId : [accounts[n] EXCEPT !.token = t] \in Row
  BY <1>1 DEF Row
<1>3. accounts[n].disabled \in BOOLEAN
  BY <1>1 DEF Row
<1> QED BY <1>1, <1>2, <1>3 DEF TypeOK

\* An acceptance that is recorded, and an invite that is edited, stay invites.
LEMMA RecordType ==
  ASSUME TypeOK, NEW i \in Invites, NEW n \in Names, invite[i] # None,
         Record(i, n)
  PROVE  /\ accepted' \subseteq Invites \X Names
         /\ invite' \in [Invites -> InviteRow \cup {None}]
         /\ \A j \in unused : invite'[j] = None
<1>1. invite[i] \in InviteRow /\ i \notin unused
  BY DEF TypeOK
<1>2. [invite[i] EXCEPT !.used = @ + 1] \in InviteRow
  BY <1>1 DEF InviteRow
<1> QED BY <1>1, <1>2 DEF Record, TypeOK

LEMMA PatchType ==
  ASSUME TypeOK, NEW i \in Invites, invite[i] # None,
         UpdateActive(i) \/ UpdateMaxUses(i) \/ UpdateAgents(i) \/ UpdateInviteMode(i)
  PROVE  /\ invite' \in [Invites -> InviteRow \cup {None}]
         /\ \A j \in unused : invite'[j] = None
         /\ limit' \in [Invites -> Nat]
         /\ \A j \in Invites \ {i} : invite'[j] = invite[j] /\ limit'[j] = limit[j]
         /\ invite'[i].used = invite[i].used
<1>1. invite[i] \in InviteRow /\ i \notin unused
  BY DEF TypeOK
<1>2. PICK r \in InviteRow : /\ invite' = [invite EXCEPT ![i] = r]
                             /\ r.used = invite[i].used
  <2>1. CASE UpdateActive(i)
    <3>1. [invite[i] EXCEPT !.active = ~@] \in InviteRow
      BY <1>1 DEF InviteRow
    <3> QED BY <1>1, <2>1, <3>1 DEF UpdateActive, TypeOK, InviteRow
  <2>2. CASE UpdateMaxUses(i)
    <3>1. PICK max \in 0 .. 1 :
            invite' = [invite EXCEPT ![i] = [invite[i] EXCEPT !.max_uses = max]]
      BY <2>2 DEF UpdateMaxUses, TypeOK
    <3>2. /\ [invite[i] EXCEPT !.max_uses = max] \in InviteRow
          /\ [invite[i] EXCEPT !.max_uses = max].used = invite[i].used
      BY <1>1 DEF InviteRow
    <3> QED BY <3>1, <3>2
  <2>3. CASE UpdateAgents(i)
    <3>1. PICK gs \in SUBSET Agents :
            invite' = [invite EXCEPT ![i] = [invite[i] EXCEPT !.agents = gs]]
      BY <2>3 DEF UpdateAgents, TypeOK
    <3>2. /\ [invite[i] EXCEPT !.agents = gs] \in InviteRow
          /\ [invite[i] EXCEPT !.agents = gs].used = invite[i].used
      BY <1>1 DEF InviteRow
    <3> QED BY <3>1, <3>2
  <2>4. CASE UpdateInviteMode(i)
    <3>1. PICK m \in Choices :
            invite' = [invite EXCEPT ![i] = [invite[i] EXCEPT !.mode = m]]
      BY <2>4 DEF UpdateInviteMode, TypeOK
    <3>2. /\ [invite[i] EXCEPT !.mode = m] \in InviteRow
          /\ [invite[i] EXCEPT !.mode = m].used = invite[i].used
      BY <1>1 DEF InviteRow, Modes
    <3> QED BY <3>1, <3>2
  <2> QED BY <2>1, <2>2, <2>3, <2>4
<1>3. limit' \in [Invites -> Nat] /\ \A j \in Invites \ {i} : limit'[j] = limit[j]
  BY DEF UpdateActive, UpdateMaxUses, UpdateAgents, UpdateInviteMode, TypeOK
<1> QED BY <1>1, <1>2, <1>3 DEF TypeOK

\* Every step keeps the types of the tables and of the handlers.
LEMMA TypeStep == TypeOK /\ [Next]_vars => TypeOK'
<1> SUFFICES ASSUME TypeOK, [Next]_vars PROVE TypeOK'
  OBVIOUS
<1> USE DEF dbVars, inviteVars, boundVars, ghostVars
<1>1. CASE UNCHANGED vars
  BY <1>1 DEF TypeOK, vars
<1>2. CASE Start \/ LockSeed \/ SeedAcl \/ MarkSeeded
  BY <1>2 DEF TypeOK, Start, LockSeed, SeedAcl, MarkSeeded
<1>3. CASE Stop
  BY <1>3 DEF TypeOK, Stop
<1>4. ASSUME NEW h \in Acceptors, NEW i \in Invites, NEW n \in Names,
             ReadInvite(h, i, n)
      PROVE  TypeOK'
  <2>1. invite[i] \in InviteRow
    BY <1>4 DEF ReadInvite, TypeOK
  <2>2. [at |-> "free", invite |-> i, name |-> n, row |-> invite[i],
         token |-> 0] \in Handler
    BY <2>1 DEF Handler
  <2>3. accept' \in [Acceptors -> Handler \cup {Idle}]
    BY <1>4, <2>2 DEF ReadInvite, TypeOK
  <2>4. overlapped' \subseteq Invites /\ stuck' \subseteq Acceptors
    BY <1>4 DEF ReadInvite, TypeOK
  <2> QED BY <1>4, <2>3, <2>4 DEF ReadInvite, TypeOK
<1>5. ASSUME NEW h \in Acceptors, MakeAccount(h) PROVE TypeOK'
  <2>1. accept[h] \in Handler /\ accept[h].name \in Names /\ accept[h] # Idle
    BY <1>5, HandlerType DEF MakeAccount, Idle
  <2>2. CASE InsertAccount(accept[h].name) /\ UNCHANGED mishaps
             /\ accept' = [accept EXCEPT ![h].at = "made", ![h].token = nextId]
    <3>1. [accept[h] EXCEPT !.at = "made", !.token = nextId] \in Handler
      <4>1. nextId \in Nat
        BY DEF TypeOK
      <4> QED BY <2>1, <4>1 DEF Handler
    <3>2. accept' = [accept EXCEPT ![h] =
                       [accept[h] EXCEPT !.at = "made", !.token = nextId]]
      BY <2>1, <2>2 DEF TypeOK
    <3>3. accept' \in [Acceptors -> Handler \cup {Idle}]
      BY <3>1, <3>2 DEF TypeOK
    <3>4. accounts' \in [Names -> Row \cup {None}] /\ nextId' \in 1 .. MaxId + 1
      BY <2>1, <2>2, InsertType
    <3> QED BY <1>5, <2>2, <3>3, <3>4 DEF MakeAccount, TypeOK
  <2>3. CASE Move(h, "failed") /\ UNCHANGED <<accounts, nextId>>
    <3>1. accept' \in [Acceptors -> Handler \cup {Idle}]
      BY <2>1, <2>3, MoveType
    <3>2. mishaps' \in 0 .. MaxMishaps
      BY <1>5 DEF MakeAccount, TypeOK
    <3> QED BY <1>5, <2>3, <3>1, <3>2 DEF MakeAccount, TypeOK
  <2> QED BY <1>5, <2>2, <2>3 DEF MakeAccount
<1>6. ASSUME NEW h \in Acceptors, SetInviteMode(h) PROVE TypeOK'
  <2>1. accept[h].name \in Names /\ accept[h] # Idle /\ accept[h].row.mode \in Modes
    BY <1>6, HandlerType DEF SetInviteMode, Idle
  <2>2. accept' \in [Acceptors -> Handler \cup {Idle}]
    BY <1>6, <2>1, MoveType DEF SetInviteMode
  <2>3. accounts' \in [Names -> Row \cup {None}]
    BY <1>6, <2>1, UpdateType DEF SetInviteMode, TypeOK
  <2>4. mishaps' \in 0 .. MaxMishaps
    BY <1>6 DEF SetInviteMode, TypeOK
  <2> QED BY <1>6, <2>2, <2>3, <2>4 DEF SetInviteMode, TypeOK
<1>7. ASSUME NEW h \in Acceptors, GrantInvite(h) PROVE TypeOK'
  <2>1. /\ accept[h].name \in Names /\ accept[h] # Idle
        /\ accept[h].row.agents \subseteq Agents
    BY <1>7, HandlerType DEF GrantInvite, Idle
  <2>2. accept' \in [Acceptors -> Handler \cup {Idle}]
    BY <1>7, <2>1, MoveType DEF GrantInvite
  <2>3. acl' \subseteq Names \X Agents
    BY <1>7, <2>1 DEF GrantInvite, ReplaceAcl, TypeOK
  <2>4. mishaps' \in 0 .. MaxMishaps /\ revoked' \subseteq Names \X Agents
    BY <1>7 DEF GrantInvite, Fault, TypeOK
  <2> QED BY <1>7, <2>2, <2>3, <2>4 DEF GrantInvite, TypeOK
<1>20. ASSUME NEW h \in Acceptors, RollBack(h) PROVE TypeOK'
  <2>1. accept[h].name \in Names /\ accept[h] # Idle
    BY <1>20, HandlerType DEF RollBack, Idle
  <2>2. accept' \in [Acceptors -> Handler \cup {Idle}]
    BY <1>20, <2>1, MoveType DEF RollBack
  <2>3. /\ accounts' \in [Names -> Row \cup {None}]
        /\ acl' \subseteq Names \X Agents
    <3>1. CASE UNCHANGED <<accounts, acl>>
      BY <3>1 DEF TypeOK
    <3>2. CASE DeleteAccount(accept[h].name)
      BY <2>1, <3>2, DeleteType
    <3> QED BY <1>20, <3>1, <3>2 DEF RollBack
  <2>4. mishaps' \in 0 .. MaxMishaps /\ stuck' \subseteq Acceptors
    BY <1>20 DEF RollBack, Fault, TypeOK
  <2> QED BY <1>20, <2>2, <2>3, <2>4 DEF RollBack, TypeOK
<1>8. ASSUME NEW h \in Acceptors, CountUse(h) PROVE TypeOK'
  <2>1. accept[h].name \in Names /\ accept[h].invite \in Invites /\ accept[h] # Idle
    BY <1>8, HandlerType DEF CountUse, Idle
  <2>2. accept' \in [Acceptors -> Handler \cup {Idle}]
    BY <1>8, <2>1, MoveType DEF CountUse
  <2>3. /\ accepted' \subseteq Invites \X Names
        /\ invite' \in [Invites -> InviteRow \cup {None}]
        /\ \A i \in unused : invite'[i] = None
    <3>1. CASE UNCHANGED <<accepted, invite>>
      BY <3>1 DEF TypeOK
    <3>2. CASE /\ invite[accept[h].invite] # None
               /\ Record(accept[h].invite, accept[h].name)
               /\ ~UNCHANGED <<accepted, invite>>
      BY <2>1, <3>2, RecordType
    <3> QED BY <1>8, <3>1, <3>2 DEF CountUse
  <2>4. mishaps' \in 0 .. MaxMishaps
    BY <1>8 DEF CountUse, Fault, TypeOK
  <2> QED BY <1>8, <2>2, <2>3, <2>4 DEF CountUse, TypeOK
<1>9. CASE Begin
  <2>1. PICK n \in Names :
          \/ BeginAdmin("create", n, None)
          \/ Known(n) /\ BeginAdmin("toggle", n, ~accounts[n].disabled)
          \/ \E gs \in SUBSET Agents : BeginAdmin("allow", n, gs)
    BY <1>9 DEF Begin
  <2>2. admin' \in Request
    <3>1. CASE BeginAdmin("create", n, None)
      BY <3>1 DEF BeginAdmin, Request
    <3>2. CASE Known(n) /\ BeginAdmin("toggle", n, ~accounts[n].disabled)
      BY <3>2, UpdateType DEF BeginAdmin, Request
    <3>3. CASE \E gs \in SUBSET Agents : BeginAdmin("allow", n, gs)
      BY <3>3 DEF BeginAdmin, Request
    <3> QED BY <2>1, <3>1, <3>2, <3>3
  <2> QED BY <2>1, <2>2 DEF BeginAdmin, Serving, TypeOK
<1>10. CASE AdminCreate \/ AdminToggle \/ AdminAllow
  <2>1. admin \in Request
    BY <1>10 DEF AdminCreate, AdminToggle, AdminAllow, TypeOK, Idle
  <2>2. /\ admin.name \in Names
        /\ admin.at = "toggle" => admin.arg \in BOOLEAN
        /\ admin.at = "allow" => admin.arg \subseteq Agents
    BY <2>1 DEF Request
  <2>3. CASE AdminCreate
    BY <2>2, <2>3, InsertType DEF AdminCreate, TypeOK
  <2>4. CASE AdminToggle
    BY <2>2, <2>4, UpdateType DEF AdminToggle, TypeOK
  <2>5. CASE AdminAllow
    BY <2>2, <2>5 DEF AdminAllow, Regrant, ReplaceAcl, TypeOK
  <2> QED BY <1>10, <2>3, <2>4, <2>5
<1>11. CASE AllowAccounts
  BY <1>11 DEF AllowAccounts, Serving, Regrant, ReplaceAcl, TypeOK
<1>12. CASE DeleteAgent
  BY <1>12 DEF DeleteAgent, Serving, Regrant, ReplaceAcl, TypeOK
<1>13. CASE Rotate
  <2>1. PICK n \in Names : Known(n) /\ UpdateToken(n) /\ nextId <= MaxId
    BY <1>13 DEF Rotate
  <2>2. accounts' \in [Names -> Row \cup {None}]
    BY <2>1, UpdateType DEF UpdateToken, TypeOK
  <2>3. nextId' \in 1 .. MaxId + 1 /\ asked' \in 0 .. MaxRequests
    BY <1>13 DEF Rotate, Serving, TypeOK
  <2> QED BY <1>13, <2>2, <2>3 DEF Rotate, Serving, TypeOK
<1>14. CASE SetMode
  <2>1. PICK n \in Names, m \in Choices : Known(n) /\ UpdateMode(n, m)
    BY <1>14 DEF SetMode
  <2>2. m \in Modes
    BY DEF Modes
  <2>3. accounts' \in [Names -> Row \cup {None}]
    BY <2>1, <2>2, UpdateType DEF UpdateMode
  <2> QED BY <1>14, <2>3 DEF SetMode, Serving, TypeOK
<1>15. CASE Delete
  <2>1. PICK n \in Names : /\ DeleteAccount(n)
                           /\ revoked' = revoked \cup ({n} \X Granted(n))
    BY <1>15 DEF Delete
  <2>2. /\ accounts' \in [Names -> Row \cup {None}]
        /\ acl' \subseteq Names \X Agents
    BY <2>1, DeleteType
  <2>3. revoked' \subseteq Names \X Agents
    BY <2>1 DEF Granted, TypeOK
  <2> QED BY <1>15, <2>2, <2>3 DEF Delete, Serving, TypeOK
<1>16. CASE CreateInvite
  <2>1. PICK i \in unused, gs \in SUBSET Agents, m \in Choices, max \in 0 .. 1 :
          /\ InsertInvite(i, gs, m, max)
          /\ unused' = unused \ {i}
          /\ limit' = [limit EXCEPT ![i] = max]
    BY <1>16 DEF CreateInvite
  <2>2. [active |-> TRUE, max_uses |-> max, used |-> 0, agents |-> gs,
         mode |-> m] \in InviteRow
    BY <2>1 DEF InviteRow, Modes
  <2>3. /\ invite' \in [Invites -> InviteRow \cup {None}]
        /\ unused' \subseteq Invites /\ \A j \in unused' : invite'[j] = None
        /\ limit' \in [Invites -> Nat]
    BY <2>1, <2>2 DEF InsertInvite, TypeOK
  <2> QED BY <1>16, <2>3 DEF CreateInvite, Serving, TypeOK
<1>17. CASE PatchInvite
  <2>1. PICK i \in Invites :
          /\ invite[i] # None
          /\ UpdateActive(i) \/ UpdateMaxUses(i) \/ UpdateAgents(i) \/ UpdateInviteMode(i)
    BY <1>17 DEF PatchInvite
  <2>2. /\ invite' \in [Invites -> InviteRow \cup {None}]
        /\ \A j \in unused : invite'[j] = None
        /\ limit' \in [Invites -> Nat]
    BY <2>1, PatchType
  <2> QED BY <1>17, <2>2 DEF PatchInvite, Serving, TypeOK
<1>18. CASE DeleteInvite
  BY <1>18 DEF DeleteInvite, Serving, TypeOK
<1>19. CASE OpenSession
  BY <1>19 DEF OpenSession, TypeOK
<1> QED
  BY <1>1, <1>2, <1>3, <1>4, <1>5, <1>6, <1>7, <1>8, <1>9, <1>10, <1>11,
     <1>12, <1>13, <1>14, <1>15, <1>16, <1>17, <1>18, <1>19, <1>20 DEF Next

\* No start, handler or request leaves the types of the tables.
THEOREM TypeCorrect == Spec => []TypeOK
<1>1. Init => TypeOK
  BY TypeInit
<1>2. TypeOK /\ [Next]_vars => TypeOK'
  BY TypeStep
<1> QED BY <1>1, <1>2, PTL DEF Spec

-----------------------------------------------------------------------------
(* Revocations *)

\* Before any grant is revoked, a start has been through, and has left its mark.
MarkInv == phase = "up" \/ revoked # {} => seeded
RevokeInv == MarkInv /\ RevocationStands

\* The rows an administrator replaces stay apart from what is revoked.
LEMMA RegrantStands ==
  ASSUME RevokeInv, Up, UNCHANGED phase, NEW old, NEW new, Regrant(old, new)
  PROVE  RevokeInv'
BY DEF RevokeInv, MarkInv, RevocationStands, Regrant, ReplaceAcl, Up

\* No step grants what is revoked without taking it off the revoked, and only
\* a start that is the first seeds.
LEMMA RevokeStep == RevokeInv /\ [Next]_vars => RevokeInv'
<1> SUFFICES ASSUME RevokeInv, [Next]_vars PROVE RevokeInv'
  OBVIOUS
<1> USE DEF dbVars, inviteVars, boundVars, ghostVars, RevokeInv, MarkInv,
            RevocationStands
<1>1. CASE UNCHANGED <<acl, revoked, seeded>> /\ (phase' = "up" => phase = "up")
  BY <1>1
<1>2. CASE UNCHANGED vars
  BY <1>2 DEF vars
<1>3. CASE Start \/ LockSeed \/ SeedAcl \/ MarkSeeded \/ Stop
  BY <1>3 DEF Start, LockSeed, SeedAcl, MarkSeeded, Stop
<1>4. ASSUME NEW h \in Acceptors,
             \/ \E i \in Invites, n \in Names : ReadInvite(h, i, n)
             \/ MakeAccount(h) \/ SetInviteMode(h) \/ CountUse(h)
      PROVE  RevokeInv'
  BY <1>1, <1>4 DEF ReadInvite, MakeAccount, SetInviteMode, CountUse
<1>5. ASSUME NEW h \in Acceptors, GrantInvite(h) PROVE RevokeInv'
  <2>1. \/ acl' \subseteq acl /\ revoked' = revoked
        \/ \E new : acl' \subseteq acl \cup new /\ revoked' = revoked \ new
    BY <1>5 DEF GrantInvite, ReplaceAcl
  <2>2. UNCHANGED <<phase, seeded>>
    BY <1>5 DEF GrantInvite
  <2> QED BY <2>1, <2>2
<1>12. ASSUME NEW h \in Acceptors, RollBack(h) PROVE RevokeInv'
  <2>1. acl' \subseteq acl /\ UNCHANGED <<revoked, phase, seeded>>
    BY <1>12 DEF RollBack, DeleteAccount
  <2> QED BY <2>1
<1>6. CASE Begin \/ AdminCreate \/ AdminToggle
  BY <1>1, <1>6 DEF Begin, BeginAdmin, AdminCreate, AdminToggle
<1>7. CASE AdminAllow
  BY <1>7, RegrantStands DEF AdminAllow, Regrant
<1>8. CASE AllowAccounts \/ DeleteAgent
  BY <1>8, RegrantStands DEF AllowAccounts, DeleteAgent, Serving, Regrant
<1>9. CASE Rotate \/ SetMode
  BY <1>1, <1>9 DEF Rotate, SetMode
<1>10. CASE Delete
  BY <1>10 DEF Delete, DeleteAccount, Granted, Serving, Up
<1>11. CASE CreateInvite \/ PatchInvite \/ DeleteInvite \/ OpenSession
  BY <1>1, <1>11 DEF CreateInvite, PatchInvite, DeleteInvite, OpenSession
<1> QED
  BY <1>2, <1>3, <1>4, <1>5, <1>6, <1>7, <1>8, <1>9, <1>10, <1>11, <1>12 DEF Next

\* What an administrator has revoked stays revoked through every start of the
\* hub, wherever the starts before it were cut off.
THEOREM RevocationsStand == Spec => []RevocationStands
<1>1. Init => RevokeInv
  BY DEF Init, RevokeInv, MarkInv, RevocationStands
<1>2. RevokeInv /\ [Next]_vars => RevokeInv'
  BY RevokeStep
<1>3. RevokeInv => RevocationStands
  BY DEF RevokeInv
<1> QED BY <1>1, <1>2, <1>3, PTL DEF Spec

-----------------------------------------------------------------------------
(* Counters *)

Busy(h) == accept[h].at \in {"free", "made", "moded", "granted", "refused"}
Rows(i) == {r \in accepted : r[1] = i}

\* An invite that no request has created yet has no acceptance and no handler.
AuditInv ==
  /\ IsFiniteSet(accepted)
  /\ \A r \in accepted : r[1] \notin unused
  /\ \A h \in Acceptors : Busy(h) => accept[h].invite \notin unused
  /\ CounterMatchesAudit

\* Counter and rows change together.
LEMMA RecordCounts ==
  ASSUME TypeOK, AuditInv, NEW i \in Invites, NEW n \in Names, invite[i] # None,
         i \notin unused, Record(i, n)
  PROVE  /\ IsFiniteSet(accepted')
         /\ \A r \in accepted' : r[1] \notin unused
         /\ CounterMatchesAudit'
<1>1. CASE UNCHANGED <<accepted, invite>>
  BY <1>1 DEF AuditInv, CounterMatchesAudit
<1>2. CASE /\ <<i, n>> \notin accepted
           /\ accepted' = accepted \cup {<<i, n>>}
           /\ invite' = [invite EXCEPT ![i].used = @ + 1]
  <2>1. IsFiniteSet(accepted') /\ \A r \in accepted' : r[1] \notin unused
    BY <1>2, FS_AddElement DEF AuditInv
  <2>2. Rows(i)' = Rows(i) \cup {<<i, n>>} /\ <<i, n>> \notin Rows(i)
    BY <1>2 DEF Rows
  <2>3. IsFiniteSet(Rows(i))
    BY FS_Subset DEF AuditInv, Rows
  <2>4. Cardinality(Rows(i)') = Cardinality(Rows(i)) + 1
    BY <2>2, <2>3, FS_AddElement
  <2>5. invite[i] \in InviteRow
    BY DEF TypeOK
  <2>6. invite'[i].used = invite[i].used + 1
    BY <1>2, <2>5 DEF TypeOK, InviteRow
  <2>7. \A j \in Invites \ {i} : Rows(j)' = Rows(j) /\ invite'[j] = invite[j]
    BY <1>2 DEF Rows, TypeOK
  <2>8. \A j \in Invites : invite[j] # None => invite[j].used = Cardinality(Rows(j))
    BY DEF AuditInv, CounterMatchesAudit, Rows
  <2>9. \A j \in Invites : invite'[j] # None => invite'[j].used = Cardinality(Rows(j)')
    BY <2>4, <2>6, <2>7, <2>8
  <2> QED BY <2>1, <2>9 DEF CounterMatchesAudit, Rows
<1> QED BY <1>1, <1>2 DEF Record

\* Every step moves a counter and its rows together, or neither.
LEMMA AuditStep == TypeOK /\ AuditInv /\ [Next]_vars => AuditInv'
<1> SUFFICES ASSUME TypeOK, AuditInv, [Next]_vars PROVE AuditInv'
  OBVIOUS
<1> USE DEF dbVars, inviteVars, boundVars, ghostVars
<1>1. CASE /\ UNCHANGED <<accepted, unused>>
           /\ \A i \in Invites : invite'[i] # None =>
                invite[i] # None /\ invite'[i].used = invite[i].used
           /\ \A h \in Acceptors : Busy(h)' =>
                Busy(h) /\ accept'[h].invite = accept[h].invite
  BY <1>1 DEF AuditInv, CounterMatchesAudit
<1>2. CASE UNCHANGED inviteVars /\ accept' = accept
  BY <1>1, <1>2 DEF Busy
<1>3. CASE UNCHANGED vars
  BY <1>2, <1>3 DEF vars
<1>4. CASE Start \/ LockSeed \/ SeedAcl \/ MarkSeeded \/ OpenSession
  BY <1>2, <1>4 DEF Start, LockSeed, SeedAcl, MarkSeeded, OpenSession
<1>5. CASE Stop
  <2>1. \A h \in Acceptors : ~Busy(h)'
    BY <1>5 DEF Stop, Busy, Idle
  <2> QED BY <1>1, <1>5, <2>1 DEF Stop
<1>6. ASSUME NEW h \in Acceptors, NEW i \in Invites, NEW n \in Names,
             ReadInvite(h, i, n)
      PROVE  AuditInv'
  <2>1. i \notin unused
    BY <1>6 DEF ReadInvite, TypeOK
  <2>2. \A o \in Acceptors : Busy(o)' =>
          \/ accept'[o].invite = i
          \/ Busy(o) /\ accept'[o].invite = accept[o].invite
    BY <1>6 DEF ReadInvite, Busy, TypeOK
  <2> QED BY <1>6, <2>1, <2>2 DEF ReadInvite, AuditInv, CounterMatchesAudit
<1>7. ASSUME NEW h \in Acceptors,
             MakeAccount(h) \/ SetInviteMode(h) \/ GrantInvite(h) \/ RollBack(h)
      PROVE  AuditInv'
  <2>1. Busy(h) /\ accept[h] \in Handler
    BY <1>7, HandlerType DEF MakeAccount, SetInviteMode, GrantInvite, RollBack, Busy
  <2>2. /\ \A o \in Acceptors \ {h} : accept'[o] = accept[o]
        /\ accept'[h].invite = accept[h].invite
    BY <1>7, <2>1 DEF MakeAccount, SetInviteMode, GrantInvite, RollBack, Move, TypeOK,
       Handler
  <2>3. UNCHANGED inviteVars
    BY <1>7 DEF MakeAccount, SetInviteMode, GrantInvite, RollBack
  <2> QED BY <1>1, <2>1, <2>2, <2>3 DEF Busy
<1>8. ASSUME NEW h \in Acceptors, CountUse(h) PROVE AuditInv'
  <2>1. /\ Busy(h) /\ accept[h] \in Handler
        /\ accept[h].invite \in Invites /\ accept[h].name \in Names
    BY <1>8, HandlerType DEF CountUse, Busy
  <2>2. /\ \A o \in Acceptors \ {h} : accept'[o] = accept[o]
        /\ ~Busy(h)'
    BY <1>8, <2>1 DEF CountUse, Move, TypeOK, Handler, Busy
  <2>3. UNCHANGED unused
    BY <1>8 DEF CountUse
  <2>4. \A o \in Acceptors : Busy(o)' => accept'[o].invite \notin unused'
    BY <2>2, <2>3 DEF Busy, AuditInv
  <2>5. CASE UNCHANGED <<accepted, invite>>
    BY <2>3, <2>4, <2>5 DEF AuditInv, CounterMatchesAudit
  <2>6. CASE /\ invite[accept[h].invite] # None
             /\ Record(accept[h].invite, accept[h].name)
    <3>1. accept[h].invite \notin unused
      BY <2>1 DEF AuditInv
    <3> QED BY <2>1, <2>3, <2>4, <2>6, <3>1, RecordCounts DEF AuditInv
  <2> QED BY <1>8, <2>5, <2>6 DEF CountUse
<1>9. CASE Begin \/ AdminCreate \/ AdminToggle \/ AdminAllow \/ AllowAccounts
           \/ DeleteAgent \/ Rotate \/ SetMode \/ Delete
  BY <1>2, <1>9 DEF Begin, BeginAdmin, AdminCreate, AdminToggle, AdminAllow,
     AllowAccounts, DeleteAgent, Regrant, Rotate, SetMode, Delete
<1>10. CASE CreateInvite
  <2>1. PICK i \in unused, gs \in SUBSET Agents, m \in Choices, max \in 0 .. 1 :
          InsertInvite(i, gs, m, max) /\ unused' = unused \ {i}
    BY <1>10 DEF CreateInvite
  <2>2. UNCHANGED <<accepted, accept>>
    BY <1>10 DEF CreateInvite
  <2>3. invite'[i].used = 0 /\ \A j \in Invites \ {i} : invite'[j] = invite[j]
    BY <2>1 DEF InsertInvite, TypeOK
  <2>4. Rows(i) = {}
    BY <2>1 DEF AuditInv, Rows
  <2>5. Cardinality(Rows(i)) = 0
    BY <2>4, FS_EmptySet
  <2>6. \A j \in Invites : invite'[j] # None =>
          invite'[j].used = Cardinality(Rows(j))
    <3>1. \A j \in Invites : invite[j] # None =>
            invite[j].used = Cardinality(Rows(j))
      BY DEF AuditInv, CounterMatchesAudit, Rows
    <3> QED BY <2>3, <2>5, <3>1
  <2>7. \A j \in Invites : Rows(j)' = Rows(j)
    BY <2>2 DEF Rows
  <2>8. CounterMatchesAudit'
    BY <2>6, <2>7 DEF CounterMatchesAudit, Rows
  <2> QED BY <2>1, <2>2, <2>8 DEF AuditInv, Busy
<1>11. CASE PatchInvite
  <2>1. PICK i \in Invites :
          /\ invite[i] # None
          /\ UpdateActive(i) \/ UpdateMaxUses(i) \/ UpdateAgents(i) \/ UpdateInviteMode(i)
    BY <1>11 DEF PatchInvite
  <2>2. UNCHANGED <<accepted, unused, accept>>
    BY <1>11 DEF PatchInvite
  <2> QED BY <1>1, <2>1, <2>2, PatchType DEF Busy
<1>12. CASE DeleteInvite
  <2>1. UNCHANGED <<accepted, unused, accept>>
    BY <1>12 DEF DeleteInvite
  <2>2. \A i \in Invites : invite'[i] # None => invite'[i] = invite[i]
    BY <1>12 DEF DeleteInvite, TypeOK
  <2> QED BY <1>1, <2>1, <2>2 DEF Busy
<1> QED
  BY <1>3, <1>4, <1>5, <1>6, <1>7, <1>8, <1>9, <1>10, <1>11, <1>12 DEF Next

\* However acceptances fail, repeat and interleave, the counter of an invite is
\* the number of its rows.
THEOREM CountersMatch == Spec => []CounterMatchesAudit
<1>1. Init => TypeOK /\ AuditInv
  <2>1. Init => AuditInv
    BY FS_EmptySet DEF Init, AuditInv, CounterMatchesAudit, Busy, Idle
  <2> QED BY <2>1, TypeInit
<1>2. TypeOK /\ AuditInv /\ [Next]_vars => (TypeOK /\ AuditInv)'
  BY TypeStep, AuditStep
<1>3. AuditInv => CounterMatchesAudit
  BY DEF AuditInv
<1> QED BY <1>1, <1>2, <1>3, PTL DEF Spec

-----------------------------------------------------------------------------
(* Failures *)

\* Tokens are fresh, and that of a handler is found at most under its name.
OwnInv ==
  /\ \A n \in Names : Known(n) => accounts[n].token \in 1 .. nextId - 1
  /\ \A h \in Acceptors : accept[h].at # "idle" => accept[h].token < nextId
  /\ \A h \in Acceptors : accept[h].at = "free" => accept[h].token = 0
  /\ \A h \in Acceptors, n \in Names :
       Busy(h) /\ Known(n) /\ accounts[n].token = accept[h].token
         => n = accept[h].name
  /\ FailureLeavesNothing

\* What every statement on table accounts keeps
TokensKept ==
  /\ nextId' \in Nat /\ nextId <= nextId'
  /\ \A n \in Names : Known(n)' =>
       \/ Known(n) /\ accounts'[n].token = accounts[n].token
       \/ accounts'[n].token = nextId /\ nextId' = nextId + 1

\* Handlers that stay where they are, and one that goes on, whatever else the
\* step does.
LEMMA OwnKept ==
  ASSUME TypeOK, OwnInv, TokensKept, UNCHANGED stuck,
         \A h \in Acceptors :
           \/ accept'[h] = accept[h] \/ accept'[h].at = "idle"
           \/ /\ Busy(h) /\ accept'[h].at \in {"moded", "granted", "refused", "ok"}
              /\ accept'[h].token = accept[h].token
              /\ accept'[h].name = accept[h].name
  PROVE  OwnInv'
<1>1. nextId \in Nat
  BY DEF TypeOK
<1>2. \A n \in Names : Known(n)' => accounts'[n].token \in 1 .. nextId' - 1
  BY <1>1 DEF OwnInv, TokensKept, TypeOK
<1>3. \A h \in Acceptors : accept[h].at # "idle" => accept[h].token \in Nat
  BY HandlerType
<1>4. \A h \in Acceptors : accept'[h].at # "idle" => accept'[h].token < nextId'
  BY <1>1, <1>3 DEF OwnInv, TokensKept, Busy
<1>5. \A h \in Acceptors : accept'[h].at = "free" => accept'[h].token = 0
  BY DEF OwnInv
<1>6. \A h \in Acceptors, n \in Names :
        accept[h].at # "idle" /\ Known(n)' /\ accounts'[n].token = accept[h].token
          => Known(n) /\ accounts[n].token = accept[h].token
  BY <1>1, <1>3 DEF OwnInv, TokensKept
<1>7. \A h \in Acceptors, n \in Names :
        Busy(h)' /\ Known(n)' /\ accounts'[n].token = accept'[h].token
          => n = accept'[h].name
  BY <1>6 DEF OwnInv, Busy
<1>8. FailureLeavesNothing'
  BY <1>6 DEF OwnInv, FailureLeavesNothing, Known
<1> QED BY <1>2, <1>4, <1>5, <1>7, <1>8 DEF OwnInv

\* No statement on accounts gives out a token a second time.
LEMMA StatementsKeep ==
  ASSUME TypeOK, OwnInv, NEW n \in Names
  PROVE  /\ InsertAccount(n) => TokensKept
         /\ DeleteAccount(n) /\ UNCHANGED nextId => TokensKept
         /\ UpdateToken(n) /\ nextId' = nextId + 1 => TokensKept
         /\ \A m \in Modes : UpdateMode(n, m) /\ Known(n) /\ UNCHANGED nextId
              => TokensKept
         /\ \A b \in BOOLEAN :
              accounts' = [accounts EXCEPT ![n].disabled = b] /\ Known(n)
                /\ UNCHANGED nextId => TokensKept
<1>1. nextId \in Nat
  BY DEF TypeOK
<1>2. InsertAccount(n) => TokensKept
  BY <1>1 DEF InsertAccount, NewRow, TokensKept, Known, TypeOK
<1>3. DeleteAccount(n) /\ UNCHANGED nextId => TokensKept
  BY <1>1 DEF DeleteAccount, TokensKept, Known, TypeOK
<1>4. UpdateToken(n) /\ nextId' = nextId + 1 => TokensKept
  BY <1>1 DEF UpdateToken, TokensKept, Known, TypeOK, Row
<1>5. Known(n) => accounts[n] \in Row
  BY DEF TypeOK, Known
<1>6. ASSUME NEW m \in Modes, UpdateMode(n, m), Known(n), UNCHANGED nextId
      PROVE  TokensKept
  BY <1>1, <1>5, <1>6 DEF UpdateMode, TokensKept, Known, TypeOK, Row
<1>7. ASSUME NEW b \in BOOLEAN, Known(n), UNCHANGED nextId,
             accounts' = [accounts EXCEPT ![n].disabled = b]
      PROVE  TokensKept
  BY <1>1, <1>5, <1>7 DEF TokensKept, Known, TypeOK, Row
<1> QED BY <1>2, <1>3, <1>4, <1>6, <1>7

\* Every step leaves a handler the account its token names, or none.
LEMMA OwnStep == TypeOK /\ OwnInv /\ [Next]_vars => OwnInv'
<1> SUFFICES ASSUME TypeOK, OwnInv, [Next]_vars PROVE OwnInv'
  OBVIOUS
<1> USE DEF dbVars, inviteVars, boundVars, ghostVars
<1>0. nextId \in Nat
  BY DEF TypeOK
<1>1. CASE UNCHANGED <<accounts, nextId, accept, stuck>>
  BY <1>0, <1>1, OwnKept DEF TokensKept, Known
<1>2. CASE UNCHANGED vars
  BY <1>1, <1>2 DEF vars
<1>3. CASE Start \/ LockSeed \/ SeedAcl \/ MarkSeeded \/ OpenSession
  BY <1>1, <1>3 DEF Start, LockSeed, SeedAcl, MarkSeeded, OpenSession
<1>4. CASE Stop
  BY <1>0, <1>4, OwnKept DEF Stop, Idle, TokensKept, Known
<1>5. ASSUME NEW h \in Acceptors, NEW i \in Invites, NEW n \in Names,
             ReadInvite(h, i, n)
      PROVE  OwnInv'
  <2>1. /\ accept'[h].at = "free" /\ accept'[h].token = 0
        /\ \A o \in Acceptors \ {h} : accept'[o] = accept[o]
        /\ UNCHANGED <<accounts, nextId>> /\ stuck \ {h} \subseteq stuck'
    BY <1>5 DEF ReadInvite, TypeOK
  <2>2. nextId > 0
    BY DEF TypeOK
  <2> QED BY <2>1, <2>2 DEF OwnInv, FailureLeavesNothing, Busy, Known
<1>6. ASSUME NEW h \in Acceptors, MakeAccount(h) PROVE OwnInv'
  <2>1. /\ accept[h] \in Handler /\ accept[h].name \in Names
        /\ accept[h].token = 0 /\ UNCHANGED stuck
    BY <1>6, HandlerType DEF MakeAccount, OwnInv
  <2>2. CASE /\ InsertAccount(accept[h].name)
             /\ accept' = [accept EXCEPT ![h].at = "made", ![h].token = nextId]
    <3>1. /\ accept'[h].at = "made" /\ accept'[h].token = nextId
          /\ accept'[h].name = accept[h].name
          /\ \A o \in Acceptors \ {h} : accept'[o] = accept[o]
      BY <2>1, <2>2 DEF TypeOK, Handler
    <3>2. /\ nextId' = nextId + 1 /\ accounts'[accept[h].name].token = nextId
          /\ \A n \in Names \ {accept[h].name} : accounts'[n] = accounts[n]
      BY <2>1, <2>2 DEF InsertAccount, NewRow, TypeOK
    <3>3. \A n \in Names : Known(n)' => accounts'[n].token \in 1 .. nextId' - 1
      BY <1>0, <3>2 DEF OwnInv, Known, TypeOK
    <3>4. \A o \in Acceptors : accept[o].at # "idle" =>
            accept[o].token \in Nat /\ accept[o].token < nextId
      BY HandlerType DEF OwnInv
    <3>5. \A o \in Acceptors : accept'[o].at # "idle" => accept'[o].token < nextId'
      BY <1>0, <3>1, <3>2, <3>4
    <3>6. \A o \in Acceptors : accept'[o].at = "free" => accept'[o].token = 0
      BY <3>1 DEF OwnInv
    <3>7. \A o \in Acceptors, n \in Names :
            Busy(o)' /\ Known(n)' /\ accounts'[n].token = accept'[o].token
              => n = accept'[o].name
      <4> SUFFICES ASSUME NEW o \in Acceptors, NEW n \in Names, Busy(o)',
                          Known(n)', accounts'[n].token = accept'[o].token
                   PROVE  n = accept'[o].name
        OBVIOUS
      <4>1. CASE o = h
        BY <1>0, <3>1, <3>2, <4>1 DEF OwnInv, Known
      <4>2. CASE o # h
        BY <1>0, <3>1, <3>2, <3>4, <4>2 DEF OwnInv, Known, Busy
      <4> QED BY <4>1, <4>2
    <3>8. FailureLeavesNothing'
      <4> SUFFICES ASSUME NEW o \in Acceptors \ stuck', accept'[o].at = "failed",
                          NEW n \in Names, Known(n)'
                   PROVE  accounts'[n].token # accept'[o].token
        BY DEF FailureLeavesNothing
      <4>1. /\ o # h /\ accept'[o] = accept[o] /\ o \notin stuck
            /\ accept[o].at = "failed"
        BY <2>1, <3>1
      <4>2. CASE n = accept[h].name
        BY <1>0, <3>2, <3>4, <4>1, <4>2
      <4>3. CASE n # accept[h].name
        BY <3>2, <4>1, <4>3 DEF OwnInv, FailureLeavesNothing, Known
      <4> QED BY <4>2, <4>3
    <3> QED BY <3>3, <3>5, <3>6, <3>7, <3>8 DEF OwnInv
  <2>3. CASE Move(h, "failed") /\ UNCHANGED <<accounts, nextId>>
    <3>1. /\ accept'[h].at = "failed" /\ accept'[h].token = 0
          /\ \A o \in Acceptors \ {h} : accept'[o] = accept[o]
      BY <2>1, <2>3 DEF Move, TypeOK, Handler
    <3>2. nextId > 0
      BY DEF TypeOK
    <3>3. \A n \in Names : Known(n)' =>
            Known(n) /\ accounts'[n] = accounts[n] /\ accounts[n].token > 0
      BY <2>3 DEF OwnInv, Known, TypeOK
    <3>4. FailureLeavesNothing'
      BY <2>1, <3>1, <3>3 DEF OwnInv, FailureLeavesNothing
    <3> QED BY <2>3, <3>1, <3>2, <3>3, <3>4 DEF OwnInv, Busy
  <2> QED BY <1>6, <2>2, <2>3 DEF MakeAccount
<1>7. ASSUME NEW h \in Acceptors, SetInviteMode(h) \/ CountUse(h) PROVE OwnInv'
  <2>1. Busy(h) /\ accept[h] \in Handler
        /\ accept[h].name \in Names /\ accept[h].row.mode \in Modes
    BY <1>7, HandlerType DEF SetInviteMode, CountUse, Busy
  <2>2. /\ accept'[h].at \in {"moded", "ok"} /\ accept'[h].token = accept[h].token
        /\ accept'[h].name = accept[h].name
        /\ \A o \in Acceptors \ {h} : accept'[o] = accept[o]
    BY <1>7, <2>1 DEF SetInviteMode, CountUse, Move, TypeOK, Handler
  <2>3. TokensKept
    <3>1. CASE UNCHANGED <<accounts, nextId>>
      BY <1>0, <3>1 DEF TokensKept, Known
    <3> QED BY <1>7, <2>1, <3>1, StatementsKeep
            DEF SetInviteMode, CountUse, UpdateMode
  <2>4. UNCHANGED stuck
    BY <1>7 DEF SetInviteMode, CountUse
  <2> QED BY <2>1, <2>2, <2>3, <2>4, OwnKept
<1>8. ASSUME NEW h \in Acceptors, GrantInvite(h) PROVE OwnInv'
  <2>1. Busy(h) /\ accept[h] \in Handler /\ accept[h].name \in Names
    BY <1>8, HandlerType DEF GrantInvite, Busy
  <2>2. UNCHANGED <<accounts, nextId, stuck>>
    BY <1>8 DEF GrantInvite
  <2>3. /\ accept'[h].at \in {"granted", "refused"}
        /\ accept'[h].token = accept[h].token /\ accept'[h].name = accept[h].name
        /\ \A o \in Acceptors \ {h} : accept'[o] = accept[o]
    BY <1>8, <2>1 DEF GrantInvite, Move, TypeOK, Handler
  <2>4. TokensKept
    BY <1>0, <2>2 DEF TokensKept, Known
  <2> QED BY <2>1, <2>2, <2>3, <2>4, OwnKept
<1>11. ASSUME NEW h \in Acceptors, RollBack(h) PROVE OwnInv'
  <2>1. Busy(h) /\ accept[h] \in Handler /\ accept[h].name \in Names
    BY <1>11, HandlerType DEF RollBack, Busy
  <2>2. /\ UNCHANGED nextId
        /\ accept'[h].at = "failed" /\ accept'[h].token = accept[h].token
        /\ \A o \in Acceptors \ {h} : accept'[o] = accept[o]
    BY <1>11, <2>1 DEF RollBack, Move, TypeOK, Handler
  <2>3. /\ stuck \subseteq stuck'
        /\ \A n \in Names \ {accept[h].name} : accounts'[n] = accounts[n]
        /\ \/ accounts'[accept[h].name] = None
           \/ h \in stuck' /\ UNCHANGED accounts
    BY <1>11, <2>1 DEF RollBack, DeleteAccount, Known, TypeOK
  <2>4. \A n \in Names : Known(n)' =>
          /\ Known(n) /\ accounts'[n] = accounts[n]
          /\ h \notin stuck' => n # accept[h].name
    BY <2>3 DEF Known
  <2>5. FailureLeavesNothing'
    <3> SUFFICES ASSUME NEW o \in Acceptors \ stuck', accept'[o].at = "failed",
                        NEW n \in Names, Known(n)'
                 PROVE  accounts'[n].token # accept'[o].token
      BY DEF FailureLeavesNothing
    <3>1. CASE o = h
      BY <2>1, <2>2, <2>4, <3>1 DEF OwnInv
    <3>2. CASE o # h
      BY <2>2, <2>3, <2>4, <3>2 DEF OwnInv, FailureLeavesNothing
    <3> QED BY <3>1, <3>2
  <2> QED BY <2>1, <2>2, <2>4, <2>5 DEF OwnInv, Busy
<1>9. CASE Begin \/ AdminAllow \/ AllowAccounts \/ DeleteAgent \/ CreateInvite
           \/ PatchInvite \/ DeleteInvite
  BY <1>1, <1>9 DEF Begin, BeginAdmin, Serving, AdminAllow, AllowAccounts,
     DeleteAgent, Regrant, CreateInvite, PatchInvite, DeleteInvite
<1>10. CASE AdminCreate \/ AdminToggle \/ Rotate \/ SetMode \/ Delete
  <2>1. UNCHANGED <<accept, stuck>>
    BY <1>10 DEF AdminCreate, AdminToggle, Rotate, SetMode, Delete
  <2>2. CASE UNCHANGED <<accounts, nextId>>
    BY <1>1, <2>1, <2>2
  <2>3. CASE AdminCreate \/ AdminToggle
    <3>1. admin \in Request
      BY <2>3 DEF AdminCreate, AdminToggle, TypeOK, Idle
    <3>2. admin.name \in Names /\ (admin.at = "toggle" => admin.arg \in BOOLEAN)
      BY <3>1 DEF Request
    <3>3. TokensKept \/ UNCHANGED <<accounts, nextId>>
      BY <2>3, <3>2, StatementsKeep DEF AdminCreate, AdminToggle
    <3> QED BY <2>1, <2>2, <3>3, OwnKept
  <2>4. CASE Rotate
    BY <2>1, <2>4, StatementsKeep, OwnKept DEF Rotate
  <2>5. CASE SetMode
    <3>1. PICK n \in Names, m \in Choices :
            Known(n) /\ UpdateMode(n, m) /\ UNCHANGED nextId
      BY <2>5 DEF SetMode
    <3>2. m \in Modes
      BY DEF Modes
    <3> QED BY <2>1, <3>1, <3>2, StatementsKeep, OwnKept
  <2>6. CASE Delete
    BY <2>1, <2>6, StatementsKeep, OwnKept DEF Delete
  <2> QED BY <1>10, <2>3, <2>4, <2>5, <2>6
<1> QED
  BY <1>2, <1>3, <1>4, <1>5, <1>6, <1>7, <1>8, <1>9, <1>10, <1>11 DEF Next

\* An acceptance that fails after it made its account leaves no account with
\* its token, whatever other requests made of the name.
THEOREM FailuresLeaveNothing == Spec => []FailureLeavesNothing
<1>1. Init => TypeOK /\ OwnInv
  <2>1. ASSUME Init PROVE OwnInv
    <3>1. \A n \in Names : Known(n) => accounts[n].token = 1
      BY <2>1 DEF Init, Known
    <3> QED BY <2>1, <3>1 DEF Init, OwnInv, FailureLeavesNothing, Busy, Idle
  <2> QED BY <2>1, TypeInit
<1>2. TypeOK /\ OwnInv /\ [Next]_vars => (TypeOK /\ OwnInv)'
  BY TypeStep, OwnStep
<1>3. OwnInv => FailureLeavesNothing
  BY DEF OwnInv
<1> QED BY <1>1, <1>2, <1>3, PTL DEF Spec

-----------------------------------------------------------------------------
(* Limits *)

\* The limit set now is none, or within the largest there has been; while a
\* handler alone is about to count a use, there is one left.
LimitOK(i) == invite[i] # None /\ limit[i] > 0 =>
  invite[i].max_uses \in 1 .. limit[i]
LimitInv ==
  /\ \A i \in Invites : LimitOK(i)
  /\ \A i \in Invites \ overlapped, g \in Acceptors, h \in Acceptors :
       Busy(g) /\ Busy(h) /\ accept[g].invite = i /\ accept[h].invite = i
         => g = h
  /\ \A i \in Invites \ overlapped, h \in Acceptors :
       Busy(h) /\ accept[h].invite = i /\ invite[i] # None /\ limit[i] > 0
         => invite[i].used < limit[i]
  /\ LimitUnlessOverlapped

\* Steps that count no use and begin no acceptance
LEMMA LimitKept ==
  ASSUME TypeOK, LimitInv, UNCHANGED overlapped,
         \A h \in Acceptors :
           Busy(h)' => Busy(h) /\ accept'[h].invite = accept[h].invite,
         \A i \in Invites :
           \/ UNCHANGED <<invite, limit>>
           \/ /\ invite'[i] = invite[i] \/ invite'[i] = None
              /\ limit'[i] = limit[i]
           \/ /\ invite[i] # None /\ invite'[i].used = invite[i].used
              /\ LimitOK(i)' /\ limit'[i] \in Nat
              /\ limit'[i] > 0 => limit[i] > 0 /\ limit'[i] >= limit[i]
  PROVE  LimitInv'
<1>1. \A i \in Invites : limit[i] \in Nat
  BY DEF TypeOK
<1>2. \A i \in Invites : LimitOK(i)'
  BY DEF LimitInv, LimitOK
<1>3. \A i \in Invites : invite'[i] # None /\ limit'[i] > 0 =>
        /\ invite[i] # None /\ limit[i] > 0
        /\ invite'[i].used = invite[i].used /\ limit'[i] >= limit[i]
        /\ invite[i].used \in Nat /\ limit'[i] \in Nat
  BY <1>1 DEF TypeOK, InviteRow
<1>4. \A i \in Invites \ overlapped', g \in Acceptors, h \in Acceptors :
        Busy(g)' /\ Busy(h)' /\ accept'[g].invite = i /\ accept'[h].invite = i
          => g = h
  BY DEF LimitInv
<1>5. \A i \in Invites \ overlapped', h \in Acceptors :
        Busy(h)' /\ accept'[h].invite = i /\ invite'[i] # None /\ limit'[i] > 0
          => invite'[i].used < limit'[i]
  BY <1>1, <1>3 DEF LimitInv
<1>6. LimitUnlessOverlapped'
  BY <1>1, <1>3 DEF LimitInv, LimitUnlessOverlapped
<1> QED BY <1>2, <1>4, <1>5, <1>6 DEF LimitInv

\* An administrator who sets a limit keeps it within the largest.
LEMMA PatchLimit ==
  ASSUME TypeOK, LimitInv, NEW i \in Invites, invite[i] # None,
         UpdateActive(i) \/ UpdateMaxUses(i) \/ UpdateAgents(i) \/ UpdateInviteMode(i)
  PROVE  /\ LimitOK(i)' /\ limit'[i] \in Nat
         /\ limit'[i] > 0 => limit[i] > 0 /\ limit'[i] >= limit[i]
<1>1. invite[i] \in InviteRow /\ limit[i] \in Nat
  BY DEF TypeOK
<1>2. CASE UpdateMaxUses(i)
  <2>1. PICK max \in 0 .. 1 :
          /\ invite' = [invite EXCEPT ![i].max_uses = max]
          /\ limit' = [limit EXCEPT ![i] = IF max = 0 \/ @ = 0 THEN 0
                                           ELSE IF max > @ THEN max ELSE @]
    BY <1>2 DEF UpdateMaxUses
  <2>2. invite'[i].max_uses = max
    BY <1>1, <2>1 DEF TypeOK, InviteRow
  <2>3. limit'[i] = IF max = 0 \/ limit[i] = 0 THEN 0
                    ELSE IF max > limit[i] THEN max ELSE limit[i]
    BY <2>1 DEF TypeOK
  <2> QED BY <1>1, <2>2, <2>3 DEF LimitOK
<1>3. CASE UpdateActive(i) \/ UpdateAgents(i) \/ UpdateInviteMode(i)
  <2>1. invite'[i].max_uses = invite[i].max_uses
    BY <1>1, <1>3 DEF UpdateActive, UpdateAgents, UpdateInviteMode, TypeOK,
       InviteRow
  <2>2. UNCHANGED limit
    BY <1>3 DEF UpdateActive, UpdateAgents, UpdateInviteMode
  <2> QED BY <1>1, <2>1, <2>2 DEF LimitInv, LimitOK
<1> QED BY <1>2, <1>3

\* Every step counts a use within the limit, unless acceptances overlap.
LEMMA LimitStep == TypeOK /\ AuditInv /\ LimitInv /\ [Next]_vars => LimitInv'
<1> SUFFICES ASSUME TypeOK, AuditInv, LimitInv, [Next]_vars PROVE LimitInv'
  OBVIOUS
<1> USE DEF dbVars, inviteVars, boundVars, ghostVars
<1>1. CASE UNCHANGED <<invite, limit, overlapped, accept>>
  BY <1>1, LimitKept DEF Busy
<1>2. CASE UNCHANGED vars
  BY <1>1, <1>2 DEF vars
<1>3. CASE Start \/ LockSeed \/ SeedAcl \/ MarkSeeded \/ OpenSession
  BY <1>1, <1>3 DEF Start, LockSeed, SeedAcl, MarkSeeded, OpenSession
<1>4. CASE Stop
  <2>1. \A h \in Acceptors : ~Busy(h)'
    BY <1>4 DEF Stop, Busy, Idle
  <2> QED BY <1>4, <2>1, LimitKept DEF Stop
<1>5. ASSUME NEW h \in Acceptors, NEW i \in Invites, NEW n \in Names,
             ReadInvite(h, i, n)
      PROVE  LimitInv'
  <2>1. /\ UNCHANGED <<invite, limit>> /\ overlapped \subseteq overlapped'
        /\ accept'[h].invite = i
        /\ \A o \in Acceptors \ {h} : accept'[o] = accept[o]
    BY <1>5 DEF ReadInvite, TypeOK
  <2>2. i \notin overlapped' =>
          \A o \in Acceptors \ {h} : Busy(o) => accept[o].invite # i
    BY <1>5 DEF ReadInvite, Busy
  <2>3. invite[i] # None /\ ~Exhausted(invite[i]) /\ invite[i] \in InviteRow
        /\ limit[i] \in Nat
    BY <1>5 DEF ReadInvite, TypeOK
  <2>4. limit[i] > 0 => invite[i].used < limit[i]
    BY <2>3 DEF LimitInv, LimitOK, Exhausted, InviteRow
  <2>5. \A j \in Invites : LimitOK(j)'
    BY <2>1 DEF LimitInv, LimitOK
  <2>6. \A j \in Invites \ overlapped', g \in Acceptors, o \in Acceptors :
          Busy(g)' /\ Busy(o)' /\ accept'[g].invite = j /\ accept'[o].invite = j
            => g = o
    BY <2>1, <2>2 DEF LimitInv, Busy
  <2>7. \A j \in Invites \ overlapped', o \in Acceptors :
          Busy(o)' /\ accept'[o].invite = j /\ invite'[j] # None /\ limit'[j] > 0
            => invite'[j].used < limit'[j]
    BY <2>1, <2>4 DEF LimitInv, Busy
  <2>8. LimitUnlessOverlapped'
    BY <2>1 DEF LimitInv, LimitUnlessOverlapped
  <2> QED BY <2>5, <2>6, <2>7, <2>8 DEF LimitInv
<1>6. ASSUME NEW h \in Acceptors,
             MakeAccount(h) \/ SetInviteMode(h) \/ GrantInvite(h) \/ RollBack(h)
      PROVE  LimitInv'
  <2>1. Busy(h) /\ accept[h] \in Handler
    BY <1>6, HandlerType DEF MakeAccount, SetInviteMode, GrantInvite, RollBack, Busy
  <2>2. /\ \A o \in Acceptors \ {h} : accept'[o] = accept[o]
        /\ accept'[h].invite = accept[h].invite
    BY <1>6, <2>1 DEF MakeAccount, SetInviteMode, GrantInvite, RollBack, Move, TypeOK,
       Handler
  <2>3. UNCHANGED <<invite, limit, overlapped>>
    BY <1>6 DEF MakeAccount, SetInviteMode, GrantInvite, RollBack
  <2> QED BY <2>1, <2>2, <2>3, LimitKept DEF Busy
<1>7. ASSUME NEW h \in Acceptors, CountUse(h) PROVE LimitInv'
  <2>1. Busy(h) /\ accept[h] \in Handler /\ accept[h].invite \in Invites
    BY <1>7, HandlerType DEF CountUse, Busy
  <2>2. /\ \A o \in Acceptors \ {h} : accept'[o] = accept[o]
        /\ ~Busy(h)'
    BY <1>7, <2>1 DEF CountUse, Move, TypeOK, Handler, Busy
  <2>3. UNCHANGED <<limit, overlapped>>
    BY <1>7 DEF CountUse
  <2>4. CASE UNCHANGED invite
    BY <2>2, <2>3, <2>4, LimitKept DEF Busy
  <2>5. CASE /\ invite[accept[h].invite] # None
             /\ invite' = [invite EXCEPT ![accept[h].invite].used = @ + 1]
    <3> DEFINE i == accept[h].invite
    <3>1. invite[i] \in InviteRow /\ limit[i] \in Nat
      BY <2>1, <2>5 DEF TypeOK
    <3>2. /\ invite'[i].used = invite[i].used + 1
          /\ invite'[i].max_uses = invite[i].max_uses
          /\ \A j \in Invites \ {i} : invite'[j] = invite[j]
      BY <2>1, <2>5, <3>1 DEF TypeOK, InviteRow
    <3>3. i \notin overlapped => \A o \in Acceptors \ {h} :
            Busy(o) => accept[o].invite # i
      BY <2>1 DEF LimitInv
    <3>4. i \notin overlapped /\ limit[i] > 0 => invite[i].used < limit[i]
      BY <2>1, <2>5 DEF LimitInv
    <3>5. \A j \in Invites : LimitOK(j)'
      BY <2>3, <2>5, <3>2 DEF LimitInv, LimitOK
    <3>6. \A j \in Invites \ overlapped', g \in Acceptors, o \in Acceptors :
            Busy(g)' /\ Busy(o)' /\ accept'[g].invite = j /\ accept'[o].invite = j
              => g = o
      BY <2>2, <2>3 DEF LimitInv, Busy
    <3>7. \A j \in Invites \ overlapped', o \in Acceptors :
            Busy(o)' /\ accept'[o].invite = j /\ invite'[j] # None /\ limit'[j] > 0
              => invite'[j].used < limit'[j]
      BY <2>2, <2>3, <3>2, <3>3 DEF LimitInv, Busy
    <3>8. LimitUnlessOverlapped'
      <4> SUFFICES ASSUME NEW j \in Invites, invite'[j] # None, limit'[j] > 0,
                          j \notin overlapped'
                   PROVE  invite'[j].used <= limit'[j]
        BY DEF LimitUnlessOverlapped
      <4>1. CASE j = i
        BY <2>3, <3>1, <3>2, <3>4, <4>1 DEF InviteRow
      <4>2. CASE j # i
        BY <2>3, <3>2, <4>2 DEF LimitInv, LimitUnlessOverlapped
      <4> QED BY <4>1, <4>2
    <3> QED BY <3>5, <3>6, <3>7, <3>8 DEF LimitInv
  <2> QED BY <1>7, <2>4, <2>5 DEF CountUse, Record
<1>8. CASE Begin \/ AdminCreate \/ AdminToggle \/ AdminAllow \/ AllowAccounts
           \/ DeleteAgent \/ Rotate \/ SetMode \/ Delete
  BY <1>1, <1>8 DEF Begin, BeginAdmin, AdminCreate, AdminToggle, AdminAllow,
     AllowAccounts, DeleteAgent, Regrant, Rotate, SetMode, Delete
<1>9. CASE CreateInvite
  <2>1. PICK i \in unused, gs \in SUBSET Agents, m \in Choices, max \in 0 .. 1 :
          /\ InsertInvite(i, gs, m, max)
          /\ limit' = [limit EXCEPT ![i] = max]
    BY <1>9 DEF CreateInvite
  <2>2. UNCHANGED <<accept, overlapped>>
    BY <1>9 DEF CreateInvite
  <2>3. /\ i \in Invites /\ limit'[i] = max
        /\ invite'[i].used = 0 /\ invite'[i].max_uses = max
        /\ \A j \in Invites \ {i} : invite'[j] = invite[j] /\ limit'[j] = limit[j]
    BY <2>1 DEF InsertInvite, TypeOK
  <2>4. \A h \in Acceptors : Busy(h) => accept[h].invite # i
    BY DEF AuditInv
  <2>5. \A j \in Invites : LimitOK(j)'
    BY <2>3 DEF LimitInv, LimitOK
  <2>6. \A j \in Invites \ overlapped', h \in Acceptors :
          Busy(h)' /\ accept'[h].invite = j /\ invite'[j] # None /\ limit'[j] > 0
            => invite'[j].used < limit'[j]
    BY <2>2, <2>3, <2>4 DEF LimitInv, Busy
  <2>7. LimitUnlessOverlapped'
    BY <2>2, <2>3 DEF LimitInv, LimitUnlessOverlapped
  <2>8. \A j \in Invites \ overlapped', g \in Acceptors, o \in Acceptors :
          Busy(g)' /\ Busy(o)' /\ accept'[g].invite = j /\ accept'[o].invite = j
            => g = o
    BY <2>2 DEF LimitInv, Busy
  <2> QED BY <2>5, <2>6, <2>7, <2>8 DEF LimitInv
<1>10. CASE PatchInvite
  <2>1. PICK i \in Invites :
          /\ invite[i] # None
          /\ UpdateActive(i) \/ UpdateMaxUses(i) \/ UpdateAgents(i) \/ UpdateInviteMode(i)
    BY <1>10 DEF PatchInvite
  <2>2. UNCHANGED <<accept, overlapped>>
    BY <1>10 DEF PatchInvite
  <2>3. /\ invite'[i].used = invite[i].used
        /\ \A j \in Invites \ {i} : invite'[j] = invite[j] /\ limit'[j] = limit[j]
    BY <2>1, PatchType
  <2>4. /\ LimitOK(i)' /\ limit'[i] \in Nat
        /\ limit'[i] > 0 => limit[i] > 0 /\ limit'[i] >= limit[i]
    BY <2>1, PatchLimit
  <2> QED BY <2>1, <2>2, <2>3, <2>4, LimitKept DEF Busy
<1>11. CASE DeleteInvite
  <2>1. UNCHANGED <<accept, overlapped, limit>>
    BY <1>11 DEF DeleteInvite
  <2>2. \A i \in Invites : invite'[i] = None \/ invite'[i] = invite[i]
    BY <1>11 DEF DeleteInvite, TypeOK
  <2> QED BY <2>1, <2>2, LimitKept DEF Busy
<1> QED
  BY <1>2, <1>3, <1>4, <1>5, <1>6, <1>7, <1>8, <1>9, <1>10, <1>11 DEF Next

\* An invite is used no more often than its limit ever allowed, unless two
\* acceptances of it overlap.
THEOREM LimitsHold == Spec => []LimitUnlessOverlapped
<1>1. Init => TypeOK /\ AuditInv /\ LimitInv
  <2>1. Init => LimitInv
    BY DEF Init, LimitInv, LimitOK, LimitUnlessOverlapped, Busy, Idle
  <2>2. Init => AuditInv
    BY FS_EmptySet DEF Init, AuditInv, CounterMatchesAudit, Busy, Idle
  <2> QED BY <2>1, <2>2, TypeInit
<1>2. TypeOK /\ AuditInv /\ LimitInv /\ [Next]_vars
        => (TypeOK /\ AuditInv /\ LimitInv)'
  BY TypeStep, AuditStep, LimitStep
<1>3. LimitInv => LimitUnlessOverlapped
  BY DEF LimitInv
<1> QED BY <1>1, <1>2, <1>3, PTL DEF Spec
=============================================================================
