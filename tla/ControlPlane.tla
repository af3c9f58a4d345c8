---------------------------- MODULE ControlPlane ----------------------------
(* The control plane's stored configuration: servers and their owners, the  *)
(* group registry, users, tokens, and whether /api enforces a credential    *)
(* (api/users.py, api/tokens.py, api/groups.py, api/servers.py,             *)
(* groups/registry.py, auth/principal.py, auth/policy.py,                   *)
(* auth/control_plane.py, db/repo.py).                                      *)
(*                                                                          *)
(* A request resolves its caller at entry, waits for config_write_lock,     *)
(* judges the caller again on committed state, and then commits one or two  *)
(* transactions. "plan" is what it still has to commit: the successive      *)
(* contents of the database, computed when it took the lock. A crash drops  *)
(* the rest of a plan. The settings write is the one write that does not    *)
(* take the lock: it commits between any two steps of a holder.             *)
(*                                                                          *)
(* A wildcard group lists no id, as an empty one does, so both are a group  *)
(* that lists nothing. MCPE_ADMIN_TOKEN is unset: with it the guards about  *)
(* the last admin login are lifted.                                         *)
EXTENDS FiniteSets, Sequences, Integers

CONSTANTS
    Servers,    \* server ids
    Groups,     \* group names
    Users,      \* user ids
    Tokens,     \* token row ids
    Requests,   \* handlers in flight
    Nobody,     \* a NULL user_id or owner_id
    Gone,       \* no such row
    MaxTokens   \* bound: a request mints a token only below this many

VARIABLES
    db,         \* the committed rows
    enforced,   \* enforcement_enabled on the committed settings
    up,         \* the process serves
    req,        \* each handler's caller, as resolved at entry
    plan        \* what the handler holding the lock still has to commit

vars == <<db, enforced, up, req, plan>>

ASSUME Atoms ==
    /\ Nobody \notin Users
    /\ Gone \notin Users \cup {Nobody}
    /\ Nobody \notin Tokens

Roles == {"admin", "member", "gone"}
Control == <<"control", Nobody>>
Scopes == {Control, <<"all", Nobody>>} \cup ({"group"} \X Groups) \cup ({"server"} \X Servers)
TokenRow == [scope : Scopes, user : Users \cup {Nobody}]
Free == [scope |-> <<"none", Nobody>>, user |-> Nobody]

Dbs == [owner : [Servers -> Users \cup {Nobody, Gone}],
        groups : SUBSET Groups,
        listed : [Groups -> SUBSET Servers],
        role : [Users -> Roles],
        tok : [Tokens -> TokenRow \cup {Free}]]

Idle == [local |-> FALSE, tok |-> Nobody]
Callers == [local : BOOLEAN, tok : Tokens \cup {Nobody}]
NoPlan == [todo |-> <<>>, guarded |-> FALSE, admin |-> FALSE]

Exists(d, s) == d.owner[s] # Gone

(* A control token that resolves to a principal, and to an admin.           *)
Login(d, t) ==
    /\ d.tok[t].scope = Control
    /\ d.tok[t].user # Nobody => d.role[d.tok[t].user] # "gone"
IsAdmin(d, t) ==
    /\ d.tok[t].scope = Control
    /\ d.tok[t].user # Nobody => d.role[d.tok[t].user] = "admin"
AdminLogin(d) == \E t \in Tokens : IsAdmin(d, t)
AdminLoginWithout(d, u) == \E t \in Tokens : IsAdmin(d, t) /\ d.tok[t].user # u

(* refresh: the caller's authority on committed state.                      *)
Fresh(r) == IF req[r].local THEN ~enforced
            ELSE req[r].tok # Nobody /\ Login(db, req[r].tok)
FreshAdmin(r) == Fresh(r) /\ (~req[r].local => IsAdmin(db, req[r].tok))
UserOf(r) == IF req[r].local THEN Nobody ELSE db.tok[req[r].tok].user

(* can_view_server, on the refreshed caller.                                *)
Sees(r, s) ==
    /\ Exists(db, s)
    /\ Fresh(r)
    /\ ~FreshAdmin(r) => db.owner[s] = UserOf(r)

(* Rows are identified by random ids: one is used again in this model only  *)
(* when nothing remembers it.                                               *)
NewToken(t) == db.tok[t] = Free /\ \A r \in Requests : req[r].tok # t
NewServer(s) == ~Exists(db, s) /\ \A t \in Tokens : db.tok[t].scope # <<"server", s>>
NewUser(u) == db.role[u] = "gone"
Used == {t \in Tokens : db.tok[t] # Free}

-----------------------------------------------------------------------------
(* What each write makes of the database.                                   *)

Put(d, t, scope, user) == [d EXCEPT !.tok[t] = [scope |-> scope, user |-> user]]
Revoke(d, stale) ==
    [d EXCEPT !.tok = [t \in Tokens |-> IF t \in stale THEN Free ELSE d.tok[t]]]

(* _overprivileged_token_ids: what a member could not have minted.          *)
Overprivileged(d, u) ==
    {t \in Tokens : /\ d.tok[t].user = u
                    /\ d.tok[t] # Free
                    /\ d.tok[t].scope # Control
                    /\ ~ \E s \in Servers : /\ d.tok[t].scope = <<"server", s>>
                                            /\ d.owner[s] = u}

ForgetUser(d, u) ==
    [Revoke(d, {t \in Tokens : d.tok[t].user = u}) EXCEPT !.role[u] = "gone"]

Prune(d, s) == [d EXCEPT !.listed = [g \in Groups |-> d.listed[g] \ {s}]]

WithGroup(d, g, members) ==
    [d EXCEPT !.groups = @ \cup {g}, !.listed[g] = members]
WithoutGroup(d, g) == [d EXCEPT !.groups = @ \ {g}, !.listed[g] = {}]
GroupTokens(d, g) == {t \in Tokens : d.tok[t].scope = <<"group", g>>}

(* The former owner's tokens for a server that changes hands.               *)
FormerOwners(d, s, u) ==
    IF d.owner[s] \in {Nobody, u} THEN {}
    ELSE {t \in Tokens : d.tok[t] = [scope |-> <<"server", s>>, user |-> d.owner[s]]}
-----------------------------------------------------------------------------

Init ==
    /\ db = [owner |-> [s \in Servers |-> Gone],
             groups |-> {},
             listed |-> [g \in Groups |-> {}],
             role |-> [u \in Users |-> "gone"],
             tok |-> [t \in Tokens |-> Free]]
    /\ enforced = FALSE
    /\ up = FALSE
    /\ req = [r \in Requests |-> Idle]
    /\ plan = [r \in Requests |-> NoPlan]

(* resolve: with enforcement off every request is the local operator's,     *)
(* whatever token it carries; with it on the token must be a login.         *)
Enter(r) ==
    /\ up
    /\ req[r] = Idle
    /\ \E t \in Tokens \cup {Nobody} :
         /\ enforced => t # Nobody
         /\ t # Nobody => Login(db, t)
         /\ req' = [req EXCEPT ![r] = [local |-> ~enforced, tok |-> t]]
    /\ UNCHANGED <<db, enforced, up, plan>>

(* The request is refused, or only reads.                                   *)
Leave(r) ==
    /\ req[r] # Idle
    /\ plan[r] = NoPlan
    /\ req' = [req EXCEPT ![r] = Idle]
    /\ UNCHANGED <<db, enforced, up, plan>>

LockFree == \A r \in Requests : plan[r] = NoPlan

\* Mutant: the caller is not judged again.
TakesUnjudged(r) == req[r] # Idle /\ LockFree
(* The request takes the lock, is judged again, and decides its commits.    *)
Takes(r) == req[r] # Idle /\ LockFree /\ Fresh(r)
Plans(r, todo, guarded, admin) ==
    /\ plan' = [plan EXCEPT ![r] =
                  [todo |-> todo, guarded |-> guarded, admin |-> admin]]
    /\ UNCHANGED <<db, enforced, up, req>>

(* POST /users *)
CreateUser(r) ==
    /\ Takes(r) /\ FreshAdmin(r)
    /\ \E u \in Users, role \in {"admin", "member"} :
         /\ NewUser(u)
         /\ Plans(r, <<[db EXCEPT !.role[u] = role]>>, FALSE, TRUE)

(* POST /users/{id}/credentials *)
MintCredential(r) ==
    /\ Takes(r) /\ FreshAdmin(r)
    /\ Cardinality(Used) < MaxTokens
    /\ \E u \in Users, t \in Tokens :
         /\ db.role[u] # "gone"
         /\ NewToken(t)
         /\ Plans(r, <<Put(db, t, Control, u)>>, FALSE, TRUE)

Promote(r) ==
    /\ Takes(r) /\ FreshAdmin(r)
    /\ \E u \in Users :
         /\ db.role[u] = "member"
         /\ Plans(r, <<[db EXCEPT !.role[u] = "admin"]>>, FALSE, TRUE)

\* Mutant: the role is saved first, the tokens are revoked after.
DemoteThenRevokes(r) ==
    /\ Takes(r) /\ FreshAdmin(r)
    /\ \E u \in Users :
         /\ db.role[u] = "admin"
         /\ AdminLoginWithout(db, u)
         /\ LET saved == [db EXCEPT !.role[u] = "member"]
            IN Plans(r, <<saved, Revoke(saved, Overprivileged(saved, u))>>, FALSE, TRUE)

(* PATCH /users/{id} to member: revoke what a member could not mint, then   *)
(* save the role.                                                           *)
Demote(r) ==
    /\ Takes(r) /\ FreshAdmin(r)
    /\ \E u \in Users :
         /\ db.role[u] = "admin"
         /\ AdminLoginWithout(db, u)
         /\ LET revoked == Revoke(db, Overprivileged(db, u))
            IN Plans(r, <<revoked, [revoked EXCEPT !.role[u] = "member"]>>, FALSE, TRUE)

DeleteUser(r) ==
    /\ Takes(r) /\ FreshAdmin(r)
    /\ \E u \in Users :
         /\ db.role[u] # "gone"
         /\ db.role[u] = "admin" => AdminLoginWithout(db, u)
         /\ \A s \in Servers : db.owner[s] # u
         /\ Plans(r, <<ForgetUser(db, u)>>, FALSE, TRUE)

(* POST /tokens, with token_scope_error for a member.                       *)
CreateToken(r) ==
    /\ Takes(r)
    /\ Cardinality(Used) < MaxTokens
    /\ \E t \in Tokens, scope \in Scopes :
         /\ NewToken(t)
         /\ \A s \in Servers : scope = <<"server", s>> => Sees(r, s)
         /\ \A g \in Groups : scope = <<"group", g>> => g \in db.groups
         /\ ~FreshAdmin(r) => scope \in {"server"} \X Servers
         /\ Plans(r, <<Put(db, t, scope, UserOf(r))>>, FALSE, FALSE)

(* DELETE /tokens/{id}: the last-login guard runs in the transaction.       *)
DeleteToken(r) ==
    /\ Takes(r)
    /\ \E t \in Tokens :
         /\ db.tok[t] # Free
         /\ ~FreshAdmin(r) => db.tok[t].user = UserOf(r)
         /\ Plans(r, <<Revoke(db, {t})>>, db.tok[t].scope = Control, FALSE)

WithServer(d, s, owner) == [d EXCEPT !.owner[s] = owner]

(* POST /servers: the caller owns the new row.                              *)
CreateServer(r) ==
    /\ Takes(r)
    /\ \E s \in Servers :
         /\ NewServer(s)
         /\ Plans(r, <<WithServer(db, s, UserOf(r))>>, FALSE, FALSE)

(* POST /servers/{id}/clone: the source must still be seen under the lock,  *)
(* and the copy is the caller's whoever owns the source.                    *)
CloneServer(r) ==
    /\ Takes(r)
    /\ \E source, s \in Servers :
         /\ Sees(r, source)
         /\ NewServer(s)
         /\ Plans(r, <<WithServer(db, s, UserOf(r))>>, FALSE, FALSE)

(* POST /servers/import commits one row after the other: two stand for any  *)
(* number, and the same one twice for a single one.                         *)
ImportServers(r) ==
    /\ Takes(r)
    /\ \E s, t \in Servers :
         /\ NewServer(s) /\ NewServer(t)
         /\ LET first == WithServer(db, s, UserOf(r))
            IN Plans(r, <<first, WithServer(first, t, UserOf(r))>>, FALSE, FALSE)

(* PATCH /servers/{id} with owner_id: revoke, then set_owner.               *)
SetOwner(r) ==
    /\ Takes(r) /\ FreshAdmin(r)
    /\ \E s \in Servers, u \in Users \cup {Nobody} :
         /\ Sees(r, s)
         /\ u # Nobody => db.role[u] # "gone"
         /\ LET revoked == Revoke(db, FormerOwners(db, s, u))
            IN Plans(r, <<revoked, [revoked EXCEPT !.owner[s] = u]>>, FALSE, TRUE)

\* Mutant: the row is deleted first, and pruned from the groups after.
DeleteServerThenPrunes(r) ==
    /\ Takes(r)
    /\ \E s \in Servers :
         /\ Sees(r, s)
         /\ LET deleted == [db EXCEPT !.owner[s] = Gone]
            IN Plans(r, <<deleted, Prune(deleted, s)>>, FALSE, FALSE)

(* _prune_then_delete *)
DeleteServer(r) ==
    /\ Takes(r)
    /\ \E s \in Servers :
         /\ Sees(r, s)
         /\ LET pruned == Prune(db, s)
            IN Plans(r, <<pruned, [pruned EXCEPT !.owner[s] = Gone]>>, FALSE, FALSE)

(* PUT /groups/{name}: every listed id must be registered.                  *)
UpsertGroup(r) ==
    /\ Takes(r) /\ FreshAdmin(r)
    /\ \E g \in Groups, members \in SUBSET Servers :
         /\ \A s \in members : Exists(db, s)
         /\ Plans(r, <<WithGroup(db, g, members)>>, FALSE, TRUE)

(* _delete_group_and_tokens *)
DeleteGroup(r) ==
    /\ Takes(r) /\ FreshAdmin(r)
    /\ \E g \in db.groups :
         LET revoked == Revoke(db, GroupTokens(db, g))
         IN Plans(r, <<revoked, WithoutGroup(revoked, g)>>, FALSE, TRUE)

\* Mutant: any token may be revoked.
RefusedNever(r) == FALSE
(* One commit of the lock's holder; with the last one the request returns.  *)
(* delete_token rolls back instead when no admin login would remain.        *)
Refused(r) == plan[r].guarded /\ enforced /\ ~AdminLogin(Head(plan[r].todo))
Commit(r) ==
    /\ plan[r] # NoPlan
    /\ db' = IF Refused(r) THEN db ELSE Head(plan[r].todo)
    /\ IF Refused(r) \/ Len(plan[r].todo) = 1
       THEN /\ plan' = [plan EXCEPT ![r] = NoPlan]
            /\ req' = [req EXCEPT ![r] = Idle]
       ELSE /\ plan' = [plan EXCEPT ![r].todo = Tail(@)]
            /\ UNCHANGED req
    /\ UNCHANGED <<enforced, up>>

(* PATCH /settings on what decides enforcement: one transaction, under      *)
(* SQLite's write lock and not config_write_lock.                           *)
Presents(r) == req[r].tok # Nobody /\ IsAdmin(db, req[r].tok)
SettingsWrite(r) ==
    /\ req[r] # Idle
    /\ plan[r] = NoPlan
    /\ \E on \in BOOLEAN :
         /\ on => Presents(r)
         /\ IF req[r].local THEN enforced => Presents(r) ELSE FreshAdmin(r)
         /\ enforced' = on
    /\ req' = [req EXCEPT ![r] = Idle]
    /\ UNCHANGED <<db, up, plan>>

Crash ==
    /\ up
    /\ up' = FALSE
    /\ req' = [r \in Requests |-> Idle]
    /\ plan' = [r \in Requests |-> NoPlan]
    /\ UNCHANGED <<db, enforced>>

GroupsResolve(d) == \A g \in Groups : \A s \in d.listed[g] : Exists(d, s)

(* Boot: validate_at_startup refuses a registry that names a missing        *)
(* server; the environment decides with the settings whether a token is     *)
(* demanded; ensure_control_token.                                          *)
Boot ==
    /\ ~up
    /\ GroupsResolve(db)
    /\ up' = TRUE
    /\ enforced' \in BOOLEAN
    /\ IF enforced' /\ ~AdminLogin(db)
       THEN \E t \in Tokens : db.tok[t] = Free /\ db' = Put(db, t, Control, Nobody)
       ELSE UNCHANGED db
    /\ UNCHANGED <<req, plan>>

Next ==
    \/ Crash \/ Boot
    \/ \E r \in Requests :
         \/ Enter(r) \/ Leave(r) \/ Commit(r) \/ SettingsWrite(r)
         \/ CreateUser(r) \/ MintCredential(r) \/ Promote(r) \/ Demote(r) \/ DeleteUser(r)
         \/ CreateToken(r) \/ DeleteToken(r)
         \/ CreateServer(r) \/ CloneServer(r) \/ ImportServers(r)
         \/ SetOwner(r) \/ DeleteServer(r)
         \/ UpsertGroup(r) \/ DeleteGroup(r)

Spec == Init /\ [][Next]_vars
-----------------------------------------------------------------------------

Plan == [todo : Seq(Dbs), guarded : BOOLEAN, admin : BOOLEAN]

(* Every variable has its type.                                             *)
TypeOK ==
    /\ db \in Dbs
    /\ enforced \in BOOLEAN
    /\ up \in BOOLEAN
    /\ req \in [Requests -> Callers]
    /\ plan \in [Requests -> Plan]

(* The registry is one the next boot accepts, whichever of a request's      *)
(* commits the process died after (validate_at_startup, prune_server,       *)
(* write_group).                                                            *)
BootAccepts == GroupsResolve(db)

(* No server is owned by a user that does not exist: deletion of a user     *)
(* and reassignment to it exclude each other (delete_user, set_owner).      *)
OwnersExist(d) == \A s \in Servers : d.owner[s] \in Users => d.role[d.owner[s]] # "gone"
NoOrphanServer == OwnersExist(db)

(* While a token is demanded, somebody can still log in as an admin, across *)
(* demotions, deletions, revocations and enforcement being turned on.       *)
NotLockedOut == up /\ enforced => AdminLogin(db)

(* A member's data tokens are for servers they own, or that are gone; also  *)
(* between the two commits of a demotion or of a transfer.                  *)
MemberScopes(d) ==
    \A t \in Tokens :
      LET row == d.tok[t]
      IN row # Free /\ row.user \in Users /\ row.scope # Control /\ d.role[row.user] # "admin"
           => \E s \in Servers : /\ row.scope = <<"server", s>>
                                 /\ d.owner[s] \in {row.user, Gone}
MembersHoldTheirOwn == MemberScopes(db)

(* A group's tokens do not outlive it: a group created later under the name *)
(* finds none (_delete_group_and_tokens).                                   *)
GroupScopes(d) == \A t \in Tokens, g \in Groups : d.tok[t].scope = <<"group", g>> => g \in d.groups
NoTokenForMissingGroup == GroupScopes(db)

(* No row refers to one that is gone, whichever of two commits was the     *)
(* last: groups to servers, servers to users, tokens to groups.            *)
NoDangling == TypeOK /\ BootAccepts /\ NoOrphanServer /\ NoTokenForMissingGroup

(* Nobody commits with an authority that was revoked while the request      *)
(* waited: until its last commit the holder's token stands, and an          *)
(* administrator's operation is still an administrator's.                   *)
HolderStillMay ==
    \A r \in Requests :
      plan[r] # NoPlan /\ ~req[r].local
        => IF plan[r].admin THEN IsAdmin(db, req[r].tok) ELSE Login(db, req[r].tok)
=============================================================================
