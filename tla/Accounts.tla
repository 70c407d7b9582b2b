------------------------------ MODULE Accounts ------------------------------
(***************************************************************************)
(* Accounts of the hub, their access lists and invites, as the handlers of *)
(* the admin API (hub/admin/api.rs) and of the web application             *)
(* (hub/app/api.rs) change them in the hub's database (hub/db.rs), each    *)
(* statement or transaction a step, and what a start of the hub makes of   *)
(* the rows it finds.                                                      *)
(*                                                                         *)
(* A token is a number: generate_token makes one no other has, and it      *)
(* stands for its hash too.                                                *)
(***************************************************************************)
EXTENDS Naturals, FiniteSets

CONSTANTS
  Names,      \* account names
  Agents,     \* agent names
  Invites,    \* ids of invites
  Acceptors,  \* requests to accept an invite that may run at the same time
  Choices,    \* bound: sandbox modes chosen for an invite or an account
  None,
  MaxId,      \* bound: tokens made in a behaviour
  MaxMishaps, \* bound: statements the database refuses, and stops of the hub
  MaxRequests \* bound: requests of the administrator

ASSUME BoundsAssumption ==
  /\ MaxId \in Nat \ {0} /\ MaxMishaps \in Nat
  /\ MaxRequests \in Nat
  /\ Choices \subseteq {"strict", "permissive", "off"}
  /\ None \notin Names /\ None \notin Invites

VARIABLES
  accounts,   \* table accounts: name -> row, or None
  acl,        \* table account_allowed_agents
  sessions,   \* the <<account, agent>> of rows in table sessions
  seeded,     \* db_meta has the row seeded_acl_v0_9
  invite,     \* table invite_links: id -> row, or None
  unused,     \* ids no invite has had
  accepted,   \* table invite_acceptances
  admin,      \* the request of the administrator being handled
  accept,     \* acceptor -> where its handler of invite_accept stands
  phase,      \* "down", the statement run_migrations is at, or "up"
  nextId, mishaps, asked,
  \* history
  revoked,    \* grants an administrator took back and nobody gave again
  limit,      \* invite -> the largest limit it has had; 0 is none
  overlapped, \* invites accepted by two handlers at the same time
  stuck       \* acceptors whose roll-back the database refused as well

inviteVars == <<invite, unused, accepted>>
dbVars    == <<accounts, acl, sessions, seeded, inviteVars>>
boundVars == <<nextId, mishaps, asked>>
ghostVars == <<revoked, limit, overlapped, stuck>>
vars == <<dbVars, admin, accept, phase, boundVars, ghostVars>>

Modes == {"strict", "permissive", "off"}
Row == [token : 1 .. MaxId, disabled : BOOLEAN, mode : Modes]
InviteRow == [active : BOOLEAN, max_uses : Nat, used : Nat,
              agents : SUBSET Agents, mode : Modes]
Request == [at : {"create"}, name : Names, arg : {None}]
             \cup [at : {"toggle"}, name : Names, arg : BOOLEAN]
             \cup [at : {"allow"}, name : Names, arg : SUBSET Agents]
Handler == [at : {"free", "made", "moded", "granted", "refused", "ok",
                   "failed"},
            invite : Invites, name : Names, row : InviteRow, token : Nat]
Idle == [at |-> "idle"]

TypeOK ==
  /\ accounts \in [Names -> Row \cup {None}]
  /\ acl \subseteq Names \X Agents /\ sessions \subseteq Names \X Agents
  /\ seeded \in BOOLEAN
  /\ invite \in [Invites -> InviteRow \cup {None}]
  /\ unused \subseteq Invites /\ \A i \in unused : invite[i] = None
  /\ accepted \subseteq Invites \X Names
  /\ admin \in Request \cup {Idle}
  /\ accept \in [Acceptors -> Handler \cup {Idle}]
  /\ phase \in {"down", "lock", "seed", "mark", "up"}
  /\ nextId \in 1 .. MaxId + 1 /\ mishaps \in 0 .. MaxMishaps
  /\ asked \in 0 .. MaxRequests
  /\ revoked \subseteq Names \X Agents /\ limit \in [Invites -> Nat]
  /\ overlapped \subseteq Invites /\ stuck \subseteq Acceptors

\* A new database, or one of an earlier release: its accounts, the agents they
\* have used, the access list if that release had one.
Init ==
  /\ \E old \in {{}} \cup {{n} : n \in Names} :
       /\ accounts = [n \in Names |-> IF n \in old
            THEN [token |-> 1, disabled |-> FALSE, mode |-> "strict"]
            ELSE None]
       /\ sessions \in SUBSET (old \X Agents)
       /\ acl \in SUBSET (old \X Agents)
  /\ nextId = 2
  /\ seeded = FALSE
  /\ invite = [i \in Invites |-> None] /\ unused = Invites /\ accepted = {}
  /\ admin = Idle /\ accept = [h \in Acceptors |-> Idle]
  /\ phase = "down" /\ mishaps = 0 /\ asked = 0
  /\ revoked = {} /\ limit = [i \in Invites |-> 0]
  /\ overlapped = {} /\ stuck = {}

-----------------------------------------------------------------------------
(* A start of the hub: run_migrations, statement by statement               *)

Start ==
  /\ phase = "down" /\ phase' = "lock"
  /\ UNCHANGED <<dbVars, admin, accept, boundVars, ghostVars>>

\* An access list that has rows has been seeded or edited before
LockSeed ==
  /\ phase = "lock" /\ phase' = "seed"
  /\ seeded' = (seeded \/ acl # {})
  /\ UNCHANGED <<accounts, acl, sessions, inviteVars,
                 admin, accept, boundVars, ghostVars>>

\* The first start grants what the accounts have been using
SeedAcl ==
  /\ phase = "seed" /\ phase' = "mark"
  /\ acl' = IF seeded THEN acl
            ELSE acl \cup {s \in sessions : accounts[s[1]] # None}
  /\ UNCHANGED <<accounts, sessions, seeded, inviteVars,
                 admin, accept, boundVars, ghostVars>>

\* A bug the properties must catch: a start that seeded nothing is not the last
MarkIfSeeded ==
  /\ phase = "mark" /\ phase' = "up"
  /\ seeded' = (seeded \/ acl # {})
  /\ UNCHANGED <<accounts, acl, sessions, inviteVars,
                 admin, accept, boundVars, ghostVars>>
\* ... once
MarkSeeded ==
  /\ phase = "mark" /\ phase' = "up"
  /\ seeded' = TRUE
  /\ UNCHANGED <<accounts, acl, sessions, inviteVars,
                 admin, accept, boundVars, ghostVars>>

\* The hub stops at any point: requests are gone
Stop ==
  /\ phase # "down" /\ phase' = "down"
  /\ mishaps < MaxMishaps /\ mishaps' = mishaps + 1
  /\ admin' = Idle /\ accept' = [h \in Acceptors |-> Idle]
  /\ UNCHANGED <<dbVars, nextId, asked, ghostVars>>

-----------------------------------------------------------------------------
(* Statements on the database, for every handler                           *)

Known(n) == accounts[n] # None
Granted(n) == {g \in Agents : <<n, g>> \in acl}

NewRow(token) == [token |-> token, disabled |-> FALSE, mode |-> "strict"]

\* insert_account; the name is the key of the table
InsertAccount(n) ==
  /\ nextId <= MaxId
  /\ accounts' = [accounts EXCEPT ![n] = NewRow(nextId)]
  /\ nextId' = nextId + 1

\* delete_account: rows of the access list and the account, one transaction
DeleteAccount(n) ==
  /\ accounts' = [accounts EXCEPT ![n] = None]
  /\ acl' = {r \in acl : r[1] # n}

\* set_allowed_agents, set_allowed_accounts_for_agent: one transaction
ReplaceAcl(old, new) == acl' = (acl \ old) \cup new

\* A statement fails for a reason of the database
Fault == mishaps < MaxMishaps /\ mishaps' = mishaps + 1

-----------------------------------------------------------------------------
(* invite_accept                                                           *)

Up == phase = "up"
Move(h, at) == accept' = [accept EXCEPT ![h].at = at]

\* A bug the properties must catch: the last use is not counted
ExhaustedLate(row) == row.max_uses > 0 /\ row.used > row.max_uses
Exhausted(row) == row.max_uses > 0 /\ row.used >= row.max_uses

\* The invite is read once, and the request judged by what was read; so is
\* the name, which the insert will look for again
ReadInvite(h, i, n) ==
  /\ Up /\ accept[h].at \in {"idle", "ok", "failed"}
  /\ invite[i] # None /\ invite[i].active /\ ~Exhausted(invite[i])
  /\ ~Known(n)
  /\ accept' = [accept EXCEPT ![h] =
       [at |-> "free", invite |-> i, name |-> n, row |-> invite[i],
        token |-> 0]]
  /\ overlapped' = IF \E o \in Acceptors \ {h} :
                        accept[o].at \notin {"idle", "ok", "failed"} /\ accept[o].invite = i
                   THEN overlapped \cup {i} ELSE overlapped
  /\ stuck' = stuck \ {h}
  /\ UNCHANGED <<dbVars, admin, phase, boundVars, revoked, limit>>

\* insert_account: refused when another request took the name meanwhile
MakeAccount(h) ==
  LET n == accept[h].name IN
  /\ Up /\ accept[h].at = "free"
  /\ \/ /\ ~Known(n)
        /\ InsertAccount(n)
        /\ accept' = [accept EXCEPT ![h].at = "made", ![h].token = nextId]
        /\ UNCHANGED mishaps
     \/ /\ Known(n) \/ mishaps < MaxMishaps
        /\ mishaps' = IF Known(n) THEN mishaps ELSE mishaps + 1
        /\ Move(h, "failed")
        /\ UNCHANGED <<accounts, nextId>>
  /\ UNCHANGED <<acl, sessions, seeded, inviteVars,
                 admin, phase, asked, ghostVars>>

\* set_account_sandbox_mode: a failure is logged, the default mode stays
SetInviteMode(h) ==
  LET n == accept[h].name IN
  /\ Up /\ accept[h].at = "made"
  /\ \/ /\ Known(n)
        /\ accounts' = [accounts EXCEPT ![n].mode = accept[h].row.mode]
        /\ Move(h, "moded")
        /\ UNCHANGED mishaps
     \/ /\ ~Known(n) \/ mishaps < MaxMishaps
        /\ mishaps' = IF Known(n) THEN mishaps + 1 ELSE mishaps
        /\ Move(h, "moded")
        /\ UNCHANGED accounts
  /\ UNCHANGED <<acl, sessions, seeded, inviteVars,
                 admin, phase, nextId, asked, ghostVars>>

\* set_allowed_agents, when the invite names agents
GrantInvite(h) ==
  LET n == accept[h].name
      new == {n} \X accept[h].row.agents
  IN
  /\ Up /\ accept[h].at = "moded"
  /\ \/ /\ new = {} /\ Move(h, "granted")
        /\ UNCHANGED <<acl, mishaps, revoked>>
     \/ /\ new # {}
        /\ ReplaceAcl({n} \X Agents, new)
        /\ revoked' = revoked \ new
        /\ Move(h, "granted")
        /\ UNCHANGED mishaps
     \/ /\ new # {} /\ Fault
        /\ Move(h, "refused")
        /\ UNCHANGED <<acl, revoked>>
  /\ UNCHANGED <<accounts, sessions, seeded, inviteVars,
                 admin, phase, nextId, asked, limit, overlapped, stuck>>

\* A bug the properties must catch: only the grants are rolled back
RollBackAcl(h) ==
  /\ Up /\ accept[h].at = "refused" /\ Move(h, "failed")
  /\ acl' = {r \in acl : r[1] # accept[h].name}
  /\ UNCHANGED <<accounts, sessions, seeded, inviteVars,
                 admin, phase, boundVars, ghostVars>>
\* delete_account, by name, once the grant was refused. The answer is an error
\* whatever became of it: the account stays when the database refuses this too.
RollBack(h) ==
  LET n == accept[h].name IN
  /\ Up /\ accept[h].at = "refused" /\ Move(h, "failed")
  /\ \/ /\ IF Known(n) THEN DeleteAccount(n) ELSE UNCHANGED <<accounts, acl>>
        /\ UNCHANGED <<mishaps, stuck>>
     \/ /\ Fault /\ stuck' = stuck \cup {h}
        /\ UNCHANGED <<accounts, acl>>
  /\ UNCHANGED <<sessions, seeded, inviteVars,
                 admin, phase, nextId, asked, revoked, limit, overlapped>>

\* A bug the properties must catch: the use is counted though its row is not
\* new
CountAnyway(i, n) ==
  /\ accepted' = accepted \cup {<<i, n>>}
  /\ invite' = [invite EXCEPT ![i].used = @ + 1]
\* record_invite_acceptance: one transaction that the key of
\* invite_acceptances or a deleted invite undoes
Record(i, n) ==
  IF <<i, n>> \in accepted THEN UNCHANGED <<accepted, invite>>
  ELSE /\ accepted' = accepted \cup {<<i, n>>}
       /\ invite' = [invite EXCEPT ![i].used = @ + 1]

\* The user gets the token whether or not the use was recorded
CountUse(h) ==
  LET i == accept[h].invite
      n == accept[h].name
  IN
  /\ Up /\ accept[h].at = "granted" /\ Move(h, "ok")
  /\ \/ /\ IF invite[i] = None THEN UNCHANGED <<accepted, invite>> ELSE Record(i, n)
        /\ UNCHANGED mishaps
     \/ Fault /\ UNCHANGED <<accepted, invite>>
  /\ UNCHANGED <<accounts, acl, sessions, seeded, unused,
                 admin, phase, nextId, asked, ghostVars>>

-----------------------------------------------------------------------------
(* The administrator: one request at a time                                *)

Serving == /\ Up /\ admin = Idle
           /\ asked < MaxRequests /\ asked' = asked + 1

\* accounts_create and account_allowed_agents_set look for the account,
\* accounts_toggle at its row, and write in a later statement
BeginAdmin(op, n, arg) ==
  /\ Serving
  /\ (op = "create") # Known(n)
  /\ admin' = [at |-> op, name |-> n, arg |-> arg]
  /\ UNCHANGED <<dbVars, accept, phase, nextId, mishaps, ghostVars>>

Begin ==
  \E n \in Names :
    \/ BeginAdmin("create", n, None)
    \/ Known(n) /\ BeginAdmin("toggle", n, ~accounts[n].disabled)
    \/ \E gs \in SUBSET Agents : BeginAdmin("allow", n, gs)

\* accounts_create: the insert fails when an invite was accepted meanwhile
AdminCreate ==
  /\ Up /\ admin.at = "create" /\ admin' = Idle
  /\ IF Known(admin.name) THEN UNCHANGED <<accounts, nextId>>
     ELSE InsertAccount(admin.name)
  /\ UNCHANGED <<acl, sessions, seeded, inviteVars,
                 accept, phase, mishaps, asked, ghostVars>>

\* set_account_disabled with what was read
AdminToggle ==
  LET n == admin.name IN
  /\ Up /\ admin.at = "toggle" /\ admin' = Idle
  /\ accounts' = IF Known(n) THEN [accounts EXCEPT ![n].disabled = admin.arg]
                 ELSE accounts
  /\ UNCHANGED <<acl, sessions, seeded, inviteVars,
                 accept, phase, boundVars, ghostVars>>

\* The rows an administrator replaces: what is not among the new is revoked
Regrant(old, new) ==
  /\ ReplaceAcl(old, new)
  /\ revoked' = (revoked \cup ((acl \cap old) \ new)) \ new
  /\ UNCHANGED <<accounts, sessions, seeded, inviteVars,
                 accept, phase, nextId, mishaps, limit, overlapped, stuck>>

\* set_allowed_agents, whether or not the account is still there
AdminAllow ==
  /\ Up /\ admin.at = "allow" /\ admin' = Idle /\ UNCHANGED asked
  /\ Regrant({admin.name} \X Agents, {admin.name} \X admin.arg)

\* agent_allowed_accounts_set: the names need not be those of accounts
AllowAccounts ==
  \E g \in Agents, ns \in SUBSET Names \ {{}} :
    /\ Serving /\ UNCHANGED admin
    /\ Regrant(Names \X {g}, ns \X {g})

\* agent_delete, of an agent that is not connected: delete_agent_acl
DeleteAgent ==
  \E g \in Agents :
    /\ Serving /\ UNCHANGED admin
    /\ Regrant(Names \X {g}, {})

\* update_account_token, set_account_sandbox_mode, set_account_disabled
UpdateToken(n) == accounts' = [accounts EXCEPT ![n].token = nextId]
UpdateMode(n, m) == accounts' = [accounts EXCEPT ![n].mode = m]

Rotate ==
  \E n \in Names :
    /\ Serving /\ Known(n) /\ nextId <= MaxId
    /\ UpdateToken(n) /\ nextId' = nextId + 1
    /\ UNCHANGED <<acl, sessions, seeded, inviteVars,
                     admin, accept, phase, mishaps, ghostVars>>

SetMode ==
  \E n \in Names, m \in Choices :
    /\ Serving /\ Known(n)
    /\ UpdateMode(n, m)
    /\ UNCHANGED <<acl, sessions, seeded, inviteVars,
                   admin, accept, phase, nextId, mishaps, ghostVars>>

\* accounts_delete: cookies, workspaces and sessions of the account stay
Delete ==
  \E n \in Names :
    /\ Serving /\ Known(n)
    /\ DeleteAccount(n)
    /\ revoked' = revoked \cup ({n} \X Granted(n))
    /\ UNCHANGED <<sessions, seeded, inviteVars, admin, accept, phase,
                   nextId, mishaps, limit, overlapped, stuck>>

\* insert_invite
InsertInvite(i, gs, m, max) ==
  invite' = [invite EXCEPT ![i] =
    [active |-> TRUE, max_uses |-> max, used |-> 0, agents |-> gs, mode |-> m]]

\* invites_create: the id and the token of an invite are no other's
CreateInvite ==
  \E i \in unused, gs \in SUBSET Agents, m \in Choices, max \in 0 .. 1 :
    /\ Serving
    /\ InsertInvite(i, gs, m, max)
    /\ unused' = unused \ {i}
    /\ limit' = [limit EXCEPT ![i] = max]
    /\ UNCHANGED <<accounts, acl, sessions, seeded, accepted, admin,
                   accept, phase, nextId, mishaps, revoked, overlapped, stuck>>

\* update_invite_active, update_invite_max_uses, update_invite_allowed_agents,
\* update_invite_sandbox_mode
UpdateActive(i) == invite' = [invite EXCEPT ![i].active = ~@] /\ UNCHANGED limit
UpdateMaxUses(i) ==
  \E max \in 0 .. 1 :
    /\ invite' = [invite EXCEPT ![i].max_uses = max]
    /\ limit' = [limit EXCEPT ![i] = IF max = 0 \/ @ = 0 THEN 0
                                     ELSE IF max > @ THEN max ELSE @]
UpdateAgents(i) ==
  \E gs \in SUBSET Agents : invite' = [invite EXCEPT ![i].agents = gs] /\ UNCHANGED limit
UpdateInviteMode(i) ==
  \E m \in Choices : invite' = [invite EXCEPT ![i].mode = m] /\ UNCHANGED limit

\* invites_patch: each field a request carries is a statement of its own
PatchInvite ==
  \E i \in Invites :
    /\ Serving /\ invite[i] # None
    /\ UpdateActive(i) \/ UpdateMaxUses(i) \/ UpdateAgents(i) \/ UpdateInviteMode(i)
    /\ UNCHANGED <<accounts, acl, sessions, seeded, unused, accepted, admin,
                   accept, phase, nextId, mishaps, revoked, overlapped, stuck>>

\* delete_invite: the acceptances stay
DeleteInvite ==
  \E i \in Invites :
    /\ Serving /\ invite[i] # None
    /\ invite' = [invite EXCEPT ![i] = None]
    /\ UNCHANGED <<accounts, acl, sessions, seeded, unused, accepted, admin,
                   accept, phase, nextId, mishaps, ghostVars>>

-----------------------------------------------------------------------------
(* Users                                                                   *)

\* A session on an agent the account may use leaves a row in table sessions
OpenSession ==
  \E r \in acl :
    /\ Up
    /\ sessions' = sessions \cup {r}
    /\ UNCHANGED <<accounts, acl, seeded, inviteVars,
                   admin, accept, phase, boundVars, ghostVars>>

Next ==
  \/ Start \/ LockSeed \/ SeedAcl \/ MarkSeeded \/ Stop
  \/ \E h \in Acceptors :
       \/ \E i \in Invites, n \in Names : ReadInvite(h, i, n)
       \/ MakeAccount(h) \/ SetInviteMode(h)
       \/ GrantInvite(h) \/ RollBack(h) \/ CountUse(h)
  \/ Begin \/ AdminCreate \/ AdminToggle \/ AdminAllow \/ AllowAccounts
  \/ DeleteAgent \/ Rotate \/ SetMode \/ Delete
  \/ CreateInvite \/ PatchInvite \/ DeleteInvite
  \/ OpenSession

Spec == Init /\ [][Next]_vars

-----------------------------------------------------------------------------
(* Properties                                                              *)

\* The counter of an invite and the rows of its acceptances agree, whatever
\* of an acceptance failed or was repeated ("so the counter and the audit row
\* never disagree", db.rs:1974).
CounterMatchesAudit ==
  \A i \in Invites : invite[i] # None =>
    invite[i].used = Cardinality({r \in accepted : r[1] = i})

\* An invite is used no more often than its limit ever allowed, unless two
\* acceptances ran at the same time: the check and the count are two steps
\* (app/api.rs:1206, db.rs:1977).
LimitUnlessOverlapped ==
  \A i \in Invites :
    (invite[i] # None /\ limit[i] > 0 /\ i \notin overlapped) =>
      invite[i].used <= limit[i]

\* A request to accept that answered with an error has left no account of its
\* own behind (the roll-back of app/api.rs:1301); whoever took the name since
\* keeps it. The one exception is a roll-back the database refused as well: its
\* result is ignored (app/api.rs:1302), and the account stays with a token
\* nobody was given.
FailureLeavesNothing ==
  \A h \in Acceptors \ stuck : accept[h].at = "failed" =>
    \A n \in Names : Known(n) => accounts[n].token # accept[h].token

\* What an administrator has revoked stays revoked: no start of the hub grants
\* it again from the sessions it finds ("so [...] we don't undelete anything
\* on the next start", db.rs:394).
RevocationStands == acl \cap revoked = {}

=============================================================================
