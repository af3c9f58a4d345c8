------------------------- MODULE ControlPlaneProofs -------------------------
(* Proofs about ControlPlane. Every write computes, from a database that is *)
(* in order, databases that are in order (the lemmas of the first part), so *)
(* a plan is a sequence of such databases and whatever prefix of it is      *)
(* committed leaves one. What a plan does to the logins is stated beside.   *)
(* The second half is about ServerConfig, what such a write stores of one   *)
(* server: each write stores a row normalisation leaves as it is, bearing   *)
(* the hash of what runs, and keeps no secret for another program.          *)
EXTENDS ControlPlane, ServerConfig, TLAPS

(* A database in order: each conjunct is the operator of an invariant.      *)
InOrder(d) ==
    /\ GroupsResolve(d)
    /\ OwnersExist(d)
    /\ MemberScopes(d)
    /\ GroupScopes(d)
GoodDbs == {d \in Dbs : InOrder(d)}

(* Nobody who could log in before is kept out after.                        *)
KeepsLogins(c, d) ==
    \A t \in Tokens : (Login(c, t) => Login(d, t)) /\ (IsAdmin(c, t) => IsAdmin(d, t))
KeepsAdmin(c, d) == AdminLogin(c) => AdminLogin(d)

-----------------------------------------------------------------------------
(* The writes.                                                              *)

(* A new token row leaves the database in order when its scope is one its   *)
(* owner may hold.                                                          *)
LEMMA PutGood ==
  ASSUME NEW d \in GoodDbs, NEW t \in Tokens, NEW scope \in Scopes,
         NEW user \in Users \cup {Nobody}, d.tok[t] = Free,
         \A g \in Groups : scope = <<"group", g>> => g \in d.groups,
         \/ scope = Control
         \/ user = Nobody
         \/ d.role[user] = "admin"
         \/ \E s \in Servers : scope = <<"server", s>> /\ d.owner[s] = user
  PROVE  /\ Put(d, t, scope, user) \in GoodDbs
         /\ KeepsLogins(d, Put(d, t, scope, user))
<1> DEFINE e == Put(d, t, scope, user)
           held == [scope |-> scope, user |-> user]
<1>1. d \in Dbs /\ InOrder(d)
  BY DEF GoodDbs
<1>2. held \in TokenRow /\ held.scope = scope /\ held.user = user
  BY DEF TokenRow
<1>3. /\ e.owner = d.owner /\ e.groups = d.groups /\ e.listed = d.listed /\ e.role = d.role
      /\ e.tok = [d.tok EXCEPT ![t] = held]
  BY <1>1 DEF Put, Dbs
<1>4. e \in Dbs
  BY <1>1, <1>2, <1>3 DEF Put, Dbs
<1>5. \A u \in Tokens : e.tok[u] = IF u = t THEN held ELSE d.tok[u]
  BY <1>1, <1>3 DEF Dbs
<1>6. GroupsResolve(e) /\ OwnersExist(e)
  BY <1>1, <1>3 DEF InOrder, GroupsResolve, OwnersExist, Exists
<1>7. GroupScopes(e)
  BY <1>1, <1>2, <1>3, <1>5 DEF InOrder, GroupScopes
<1>8. MemberScopes(e)
  <2> SUFFICES ASSUME NEW u \in Tokens, e.tok[u] # Free, e.tok[u].user \in Users,
                      e.tok[u].scope # Control, e.role[e.tok[u].user] # "admin"
               PROVE  \E s \in Servers : /\ e.tok[u].scope = <<"server", s>>
                                         /\ e.owner[s] \in {e.tok[u].user, Gone}
    BY DEF MemberScopes
  <2>1. CASE u = t
    BY <2>1, <1>2, <1>3, <1>5, Atoms
  <2>2. CASE u # t
    BY <2>2, <1>1, <1>3, <1>5 DEF InOrder, MemberScopes
  <2> QED BY <2>1, <2>2
<1>9. KeepsLogins(d, e)
  <2>1. ~Login(d, t) /\ ~IsAdmin(d, t)
    <3>1. d.tok[t].scope # Control
      BY DEF Free, Control
    <3> QED BY <3>1 DEF Login, IsAdmin
  <2> QED BY <2>1, <1>3, <1>5 DEF KeepsLogins, Login, IsAdmin
<1> QED BY <1>4, <1>6, <1>7, <1>8, <1>9 DEF GoodDbs, InOrder

(* A new server row, owned by nobody or by a user that exists, with no      *)
(* token for its id.                                                        *)
LEMMA NewServerGood ==
  ASSUME NEW d \in GoodDbs, NEW s \in Servers, NEW u \in Users \cup {Nobody},
         u \in Users => d.role[u] # "gone",
         \A t \in Tokens : d.tok[t].scope # <<"server", s>>
  PROVE  /\ [d EXCEPT !.owner[s] = u] \in GoodDbs
         /\ KeepsLogins(d, [d EXCEPT !.owner[s] = u])
<1> DEFINE e == [d EXCEPT !.owner[s] = u]
<1>1. d \in Dbs /\ InOrder(d)
  BY DEF GoodDbs
<1>2. /\ e.groups = d.groups /\ e.listed = d.listed /\ e.role = d.role /\ e.tok = d.tok
      /\ e.owner = [d.owner EXCEPT ![s] = u]
  BY <1>1 DEF Dbs
<1>3. e \in Dbs
  BY <1>1, <1>2 DEF Dbs
<1>4. \A x \in Servers : e.owner[x] = IF x = s THEN u ELSE d.owner[x]
  BY <1>1, <1>2 DEF Dbs
<1>5. u # Gone
  BY Atoms
<1>6. GroupsResolve(e) /\ GroupScopes(e)
  BY <1>1, <1>2, <1>4, <1>5 DEF InOrder, GroupsResolve, GroupScopes, Exists, Dbs
<1>7. OwnersExist(e)
  BY <1>1, <1>2, <1>4 DEF InOrder, OwnersExist
<1>8. MemberScopes(e)
  BY <1>1, <1>2, <1>4 DEF InOrder, MemberScopes
<1>9. KeepsLogins(d, e)
  BY <1>2 DEF KeepsLogins, Login, IsAdmin
<1> QED BY <1>3, <1>6, <1>7, <1>8, <1>9 DEF GoodDbs, InOrder

(* A set of tokens is revoked.                                              *)
LEMMA RevokeGood ==
  ASSUME NEW d \in GoodDbs, NEW stale
  PROVE  /\ Revoke(d, stale) \in GoodDbs
         /\ \A t \in Tokens : Revoke(d, stale).tok[t] = IF t \in stale THEN Free ELSE d.tok[t]
         /\ Revoke(d, stale).owner = d.owner /\ Revoke(d, stale).groups = d.groups
         /\ Revoke(d, stale).listed = d.listed /\ Revoke(d, stale).role = d.role
         /\ (\A t \in Tokens \cap stale : d.tok[t].scope # Control)
              => KeepsLogins(d, Revoke(d, stale))
<1> DEFINE e == Revoke(d, stale)
<1>1. d \in Dbs /\ InOrder(d)
  BY DEF GoodDbs
<1>2. /\ e.owner = d.owner /\ e.groups = d.groups /\ e.listed = d.listed /\ e.role = d.role
      /\ e.tok = [t \in Tokens |-> IF t \in stale THEN Free ELSE d.tok[t]]
  BY <1>1 DEF Revoke, Dbs
<1>3. \A t \in Tokens : e.tok[t] = IF t \in stale THEN Free ELSE d.tok[t]
  BY <1>2
<1>4. e \in Dbs
  <2>1. e.tok \in [Tokens -> TokenRow \cup {Free}]
    BY <1>1, <1>2 DEF Dbs
  <2> QED BY <1>1, <1>2, <2>1 DEF Dbs, Revoke
<1>5. GroupsResolve(e) /\ OwnersExist(e)
  BY <1>1, <1>2 DEF InOrder, GroupsResolve, OwnersExist, Exists
<1>6. GroupScopes(e)
  BY <1>1, <1>2, <1>3 DEF InOrder, GroupScopes, Free
<1>7. MemberScopes(e)
  BY <1>1, <1>2, <1>3 DEF InOrder, MemberScopes
<1>8. (\A t \in Tokens \cap stale : d.tok[t].scope # Control) => KeepsLogins(d, e)
  BY <1>2, <1>3 DEF KeepsLogins, Login, IsAdmin
<1> QED BY <1>2, <1>3, <1>4, <1>5, <1>6, <1>7, <1>8 DEF GoodDbs, InOrder

(* A role is set: a new user, a promotion, or a demotion of a user whose    *)
(* data tokens are a member's.                                              *)
LEMMA RoleGood ==
  ASSUME NEW d \in GoodDbs, NEW u \in Users, NEW role \in {"admin", "member"},
         \/ d.role[u] # "admin"
         \/ Overprivileged(d, u) = {}
  PROVE  /\ [d EXCEPT !.role[u] = role] \in GoodDbs
         /\ d.role[u] # "admin" => KeepsLogins(d, [d EXCEPT !.role[u] = role])
         /\ AdminLoginWithout(d, u) => AdminLogin([d EXCEPT !.role[u] = role])
<1> DEFINE e == [d EXCEPT !.role[u] = role]
<1>1. d \in Dbs /\ InOrder(d)
  BY DEF GoodDbs
<1>2. /\ e.owner = d.owner /\ e.groups = d.groups /\ e.listed = d.listed /\ e.tok = d.tok
      /\ e.role = [d.role EXCEPT ![u] = role]
  BY <1>1 DEF Dbs
<1>3. \A x \in Users : e.role[x] = IF x = u THEN role ELSE d.role[x]
  BY <1>1, <1>2 DEF Dbs
<1>4. e \in Dbs
  BY <1>1, <1>2 DEF Dbs, Roles
<1>5. GroupsResolve(e) /\ GroupScopes(e) /\ OwnersExist(e)
  BY <1>1, <1>2, <1>3 DEF InOrder, GroupsResolve, GroupScopes, OwnersExist, Exists
<1>6. MemberScopes(e)
  <2> SUFFICES ASSUME NEW t \in Tokens, d.tok[t] # Free, d.tok[t].user \in Users,
                      d.tok[t].scope # Control, e.role[d.tok[t].user] # "admin"
               PROVE  \E s \in Servers : /\ d.tok[t].scope = <<"server", s>>
                                         /\ d.owner[s] \in {d.tok[t].user, Gone}
    BY <1>2 DEF MemberScopes
  <2>1. CASE d.role[d.tok[t].user] # "admin"
    BY <2>1, <1>1 DEF InOrder, MemberScopes
  <2>2. CASE d.role[d.tok[t].user] = "admin"
    <3>1. d.tok[t].user = u
      BY <2>2, <1>3
    <3>2. t \notin Overprivileged(d, u)
      BY <2>2, <3>1
    <3> QED BY <3>1, <3>2 DEF Overprivileged
  <2> QED BY <2>1, <2>2
<1>7. d.role[u] # "admin" => KeepsLogins(d, e)
  BY <1>1, <1>2, <1>3 DEF KeepsLogins, Login, IsAdmin, Dbs, TokenRow, Free
<1>8. AdminLoginWithout(d, u) => AdminLogin(e)
  BY <1>1, <1>2, <1>3 DEF AdminLoginWithout, AdminLogin, IsAdmin, Dbs, TokenRow, Free
<1> QED BY <1>4, <1>5, <1>6, <1>7, <1>8 DEF GoodDbs, InOrder

(* A user who owns nothing goes with their tokens.                          *)
LEMMA ForgetUserGood ==
  ASSUME NEW d \in GoodDbs, NEW u \in Users, \A s \in Servers : d.owner[s] # u
  PROVE  /\ ForgetUser(d, u) \in GoodDbs
         /\ (d.role[u] # "admin" \/ AdminLoginWithout(d, u))
              => KeepsAdmin(d, ForgetUser(d, u))
<1> DEFINE stale == {t \in Tokens : d.tok[t].user = u}
           r == Revoke(d, stale)
           e == ForgetUser(d, u)
<1>1. r \in GoodDbs /\ r \in Dbs /\ InOrder(r)
  BY RevokeGood DEF GoodDbs
<1>2. \A t \in Tokens : r.tok[t] = IF d.tok[t].user = u THEN Free ELSE d.tok[t]
  BY RevokeGood
<1>3. r.owner = d.owner /\ r.role = d.role
  BY RevokeGood
<1>4. e = [r EXCEPT !.role[u] = "gone"]
  BY DEF ForgetUser
<1> HIDE DEF r, e
<1>5. /\ e.owner = r.owner /\ e.groups = r.groups /\ e.listed = r.listed /\ e.tok = r.tok
      /\ e.role = [r.role EXCEPT ![u] = "gone"]
  BY <1>1, <1>4 DEF Dbs
<1>6. e \in Dbs
  BY <1>1, <1>4, <1>5 DEF Dbs, Roles
<1>7. \A x \in Users : e.role[x] = IF x = u THEN "gone" ELSE r.role[x]
  BY <1>1, <1>5 DEF Dbs
<1>8. GroupsResolve(e) /\ GroupScopes(e) /\ OwnersExist(e)
  BY <1>1, <1>3, <1>5, <1>7 DEF InOrder, GroupsResolve, GroupScopes, OwnersExist, Exists
<1>9. \A t \in Tokens : r.tok[t].user # u
  BY <1>2, Atoms DEF Free
<1>10. MemberScopes(e)
  BY <1>1, <1>5, <1>7, <1>9 DEF InOrder, MemberScopes
<1>11. ASSUME d.role[u] # "admin" \/ AdminLoginWithout(d, u), AdminLogin(d)
       PROVE  AdminLogin(e)
  <2>1. PICK t \in Tokens : IsAdmin(d, t) /\ d.tok[t].user # u
    BY <1>11, Atoms DEF AdminLogin, AdminLoginWithout, IsAdmin
  <2>2. r.tok[t] = d.tok[t]
    BY <2>1, <1>2
  <2>3. d.tok[t].user # Nobody => d.tok[t].user \in Users
    BY <2>1 DEF GoodDbs, Dbs, TokenRow, Free
  <2>4. IsAdmin(e, t)
    BY <2>1, <2>2, <2>3, <1>3, <1>5, <1>7 DEF IsAdmin
  <2> QED BY <2>4 DEF AdminLogin
<1> QED BY <1>6, <1>8, <1>10, <1>11 DEF GoodDbs, InOrder, KeepsAdmin, e

(* Nothing lists a pruned server any more.                                  *)
LEMMA PruneGood ==
  ASSUME NEW d \in GoodDbs, NEW s \in Servers
  PROVE  /\ Prune(d, s) \in GoodDbs
         /\ \A g \in Groups : s \notin Prune(d, s).listed[g]
         /\ KeepsLogins(d, Prune(d, s))
<1> DEFINE e == Prune(d, s)
<1>1. d \in Dbs /\ InOrder(d)
  BY DEF GoodDbs
<1>2. /\ e.owner = d.owner /\ e.groups = d.groups /\ e.role = d.role /\ e.tok = d.tok
      /\ e.listed = [g \in Groups |-> d.listed[g] \ {s}]
  BY <1>1 DEF Prune, Dbs
<1>3. e.listed \in [Groups -> SUBSET Servers]
  BY <1>1, <1>2 DEF Dbs
<1>4. e \in Dbs
  BY <1>1, <1>2, <1>3 DEF Dbs, Prune
<1>5. GroupsResolve(e) /\ GroupScopes(e) /\ OwnersExist(e) /\ MemberScopes(e)
  BY <1>1, <1>2 DEF InOrder, GroupsResolve, GroupScopes, OwnersExist, MemberScopes, Exists
<1> QED BY <1>2, <1>4, <1>5 DEF GoodDbs, InOrder, KeepsLogins, Login, IsAdmin

(* A server that nothing lists changes hands or goes. The tokens of its     *)
(* former owner for it are gone before it changes hands.                    *)
LEMMA OwnerGood ==
  ASSUME NEW d \in GoodDbs, NEW s \in Servers, NEW u \in Users \cup {Nobody, Gone},
         u \in Users => d.role[u] # "gone",
         u = Gone => \A g \in Groups : s \notin d.listed[g],
         \/ u = Gone
         \/ /\ Exists(d, s)
            /\ \/ d.owner[s] = u
               \/ \A t \in Tokens : d.tok[t].user \in Users /\ d.tok[t].scope = <<"server", s>>
                                    => d.tok[t].user # d.owner[s]
  PROVE  /\ [d EXCEPT !.owner[s] = u] \in GoodDbs
         /\ KeepsLogins(d, [d EXCEPT !.owner[s] = u])
<1> DEFINE e == [d EXCEPT !.owner[s] = u]
<1>1. d \in Dbs /\ InOrder(d)
  BY DEF GoodDbs
<1>2. /\ e.groups = d.groups /\ e.listed = d.listed /\ e.role = d.role /\ e.tok = d.tok
      /\ e.owner = [d.owner EXCEPT ![s] = u]
  BY <1>1 DEF Dbs
<1>3. e \in Dbs
  BY <1>1, <1>2 DEF Dbs
<1>4. \A x \in Servers : e.owner[x] = IF x = s THEN u ELSE d.owner[x]
  BY <1>1, <1>2 DEF Dbs
<1>5. GroupScopes(e)
  BY <1>1, <1>2 DEF InOrder, GroupScopes
<1>6. GroupsResolve(e)
  <2> SUFFICES ASSUME NEW g \in Groups, NEW x \in d.listed[g] PROVE e.owner[x] # Gone
    BY <1>2 DEF GroupsResolve, Exists
  <2>1. x \in Servers /\ d.owner[x] # Gone
    BY <1>1 DEF InOrder, GroupsResolve, Exists, Dbs
  <2> QED BY <2>1, <1>4
<1>7. OwnersExist(e)
  BY <1>1, <1>2, <1>4 DEF InOrder, OwnersExist
<1>8. MemberScopes(e)
  <2> SUFFICES ASSUME NEW t \in Tokens, d.tok[t] # Free, d.tok[t].user \in Users,
                      d.tok[t].scope # Control, d.role[d.tok[t].user] # "admin"
               PROVE  \E x \in Servers : /\ d.tok[t].scope = <<"server", x>>
                                         /\ e.owner[x] \in {d.tok[t].user, Gone}
    BY <1>2 DEF MemberScopes
  <2>1. PICK x \in Servers : /\ d.tok[t].scope = <<"server", x>>
                             /\ d.owner[x] \in {d.tok[t].user, Gone}
    BY <1>1 DEF InOrder, MemberScopes
  <2>2. CASE x # s
    BY <2>1, <2>2, <1>4
  <2>3. CASE x = s
    BY <2>1, <2>3, <1>4 DEF Exists
  <2> QED BY <2>2, <2>3
<1>9. KeepsLogins(d, e)
  BY <1>2 DEF KeepsLogins, Login, IsAdmin
<1> QED BY <1>3, <1>5, <1>6, <1>7, <1>8, <1>9 DEF GoodDbs, InOrder

(* A group is written with registered servers only.                         *)
LEMMA WithGroupGood ==
  ASSUME NEW d \in GoodDbs, NEW g \in Groups, NEW members \in SUBSET Servers,
         \A s \in members : Exists(d, s)
  PROVE  /\ WithGroup(d, g, members) \in GoodDbs
         /\ KeepsLogins(d, WithGroup(d, g, members))
<1> DEFINE e == WithGroup(d, g, members)
<1>1. d \in Dbs /\ InOrder(d)
  BY DEF GoodDbs
<1>2. /\ e.owner = d.owner /\ e.groups = d.groups \cup {g} /\ e.role = d.role
      /\ e.tok = d.tok /\ e.listed = [d.listed EXCEPT ![g] = members]
  BY <1>1 DEF WithGroup, Dbs
<1>3. e \in Dbs
  BY <1>1, <1>2 DEF Dbs, WithGroup
<1>4. \A x \in Groups : e.listed[x] = IF x = g THEN members ELSE d.listed[x]
  BY <1>1, <1>2 DEF Dbs
<1>5. GroupsResolve(e)
  BY <1>1, <1>2, <1>4 DEF InOrder, GroupsResolve, Exists
<1>6. GroupScopes(e) /\ OwnersExist(e) /\ MemberScopes(e)
  BY <1>1, <1>2 DEF InOrder, GroupScopes, OwnersExist, MemberScopes
<1> QED BY <1>2, <1>3, <1>5, <1>6 DEF GoodDbs, InOrder, KeepsLogins, Login, IsAdmin

(* A group without tokens is removed.                                       *)
LEMMA WithoutGroupGood ==
  ASSUME NEW d \in GoodDbs, NEW g \in Groups, GroupTokens(d, g) = {}
  PROVE  /\ WithoutGroup(d, g) \in GoodDbs
         /\ KeepsLogins(d, WithoutGroup(d, g))
<1> DEFINE e == WithoutGroup(d, g)
<1>1. d \in Dbs /\ InOrder(d)
  BY DEF GoodDbs
<1>2. /\ e.owner = d.owner /\ e.groups = d.groups \ {g} /\ e.role = d.role
      /\ e.tok = d.tok /\ e.listed = [d.listed EXCEPT ![g] = {}]
  BY <1>1 DEF WithoutGroup, Dbs
<1>3. e \in Dbs
  BY <1>1, <1>2 DEF Dbs, WithoutGroup
<1>4. \A x \in Groups : e.listed[x] = IF x = g THEN {} ELSE d.listed[x]
  BY <1>1, <1>2 DEF Dbs
<1>5. GroupsResolve(e)
  BY <1>1, <1>2, <1>4 DEF InOrder, GroupsResolve, Exists
<1>6. OwnersExist(e) /\ MemberScopes(e)
  BY <1>1, <1>2 DEF InOrder, OwnersExist, MemberScopes
<1>7. GroupScopes(e)
  <2> SUFFICES ASSUME NEW t \in Tokens, NEW x \in Groups, d.tok[t].scope = <<"group", x>>
               PROVE  x \in d.groups /\ x # g
    BY <1>2 DEF GroupScopes
  <2>1. x \in d.groups
    BY <1>1 DEF InOrder, GroupScopes
  <2>2. x # g
    BY DEF GroupTokens
  <2> QED BY <2>1, <2>2
<1> QED BY <1>2, <1>3, <1>5, <1>6, <1>7 DEF GoodDbs, InOrder, KeepsLogins, Login, IsAdmin

(* Whoever could log in still can, so an admin still can.                   *)
LEMMA LoginsKeepAdmin ==
  ASSUME NEW c, NEW d, KeepsLogins(c, d)
  PROVE  KeepsAdmin(c, d)
BY DEF KeepsLogins, KeepsAdmin, AdminLogin

-----------------------------------------------------------------------------
(* The plans. One whose first commit is not its last keeps every login      *)
(* until the last; one that may cost the last admin login is guarded.       *)
PlanGood(p, d) ==
    /\ p \in [todo : Seq(GoodDbs), guarded : BOOLEAN, admin : BOOLEAN]
    /\ Len(p.todo) \in {1, 2}
    /\ ~p.guarded => KeepsAdmin(d, p.todo[1])
    /\ Len(p.todo) = 2 => /\ ~p.guarded
                          /\ KeepsLogins(d, p.todo[1])
                          /\ KeepsAdmin(p.todo[1], p.todo[2])

(* A process that is down plans nothing.                                    *)
DownIsQuiet == ~up => \A r \in Requests : req[r] = Idle

(* The inductive invariant.                                                 *)
IInv ==
    /\ db \in GoodDbs
    /\ enforced \in BOOLEAN
    /\ up \in BOOLEAN
    /\ req \in [Requests -> Callers]
    /\ plan \in [Requests -> Plan]
    /\ \A r \in Requests : plan[r] # NoPlan => PlanGood(plan[r], db) /\ req[r] # Idle
    /\ \A r, q \in Requests : plan[r] # NoPlan /\ plan[q] # NoPlan => r = q
    /\ NotLockedOut
    /\ HolderStillMay
    /\ DownIsQuiet

(* A plan of one commit.                                                    *)
LEMMA OneCommit ==
  ASSUME NEW d, NEW e \in GoodDbs, NEW guarded \in BOOLEAN, NEW admin \in BOOLEAN,
         guarded \/ KeepsAdmin(d, e)
  PROVE  PlanGood([todo |-> <<e>>, guarded |-> guarded, admin |-> admin], d)
<1>1. <<e>> \in Seq(GoodDbs) /\ Len(<<e>>) = 1 /\ <<e>>[1] = e
  OBVIOUS
<1> QED BY <1>1 DEF PlanGood

(* A plan of two commits, the first of which costs no login.                *)
LEMMA TwoCommits ==
  ASSUME NEW d, NEW e \in GoodDbs, NEW f \in GoodDbs, NEW admin \in BOOLEAN,
         KeepsLogins(d, e), KeepsAdmin(e, f)
  PROVE  PlanGood([todo |-> <<e, f>>, guarded |-> FALSE, admin |-> admin], d)
<1>1. <<e, f>> \in Seq(GoodDbs) /\ Len(<<e, f>>) = 2 /\ <<e, f>>[1] = e /\ <<e, f>>[2] = f
  OBVIOUS
<1> QED BY <1>1, LoginsKeepAdmin DEF PlanGood

(* A request takes the lock with a good plan.                               *)
LEMMA PlanStep ==
  ASSUME IInv, NEW r \in Requests, Takes(r),
         NEW todo, NEW guarded \in BOOLEAN, NEW admin \in BOOLEAN,
         PlanGood([todo |-> todo, guarded |-> guarded, admin |-> admin], db),
         admin => FreshAdmin(r),
         Plans(r, todo, guarded, admin)
  PROVE  IInv'
<1> DEFINE p == [todo |-> todo, guarded |-> guarded, admin |-> admin]
<1>1. /\ db' = db /\ enforced' = enforced /\ up' = up /\ req' = req
      /\ plan' = [plan EXCEPT ![r] = p]
  BY DEF Plans
<1>2. p \in Plan
  <2>1. todo \in Seq(GoodDbs)
    BY DEF PlanGood
  <2>2. GoodDbs \subseteq Dbs
    BY DEF GoodDbs
  <2>3. todo \in Seq(Dbs)
    BY <2>1, <2>2
  <2> QED BY <2>3 DEF Plan
<1>3. plan' \in [Requests -> Plan] /\ \A q \in Requests : plan'[q] = IF q = r THEN p ELSE plan[q]
  BY <1>1, <1>2 DEF IInv
<1>4. \A q \in Requests : plan[q] = NoPlan
  BY DEF Takes, LockFree
<1>5. \A q \in Requests : plan'[q] # NoPlan => q = r
  BY <1>3, <1>4
<1>6. req[r] # Idle /\ Fresh(r)
  BY DEF Takes
<1>7. HolderStillMay'
  <2> SUFFICES ASSUME ~req[r].local
               PROVE  IF p.admin THEN IsAdmin(db, req[r].tok) ELSE Login(db, req[r].tok)
    BY <1>1, <1>3, <1>5 DEF HolderStillMay, IsAdmin, Login
  <2> QED BY <1>6 DEF Fresh, FreshAdmin
<1>8. NotLockedOut'
  BY <1>1 DEF IInv, NotLockedOut, AdminLogin, IsAdmin
<1>9. \A q \in Requests : plan'[q] # NoPlan => PlanGood(plan'[q], db') /\ req'[q] # Idle
  BY <1>1, <1>3, <1>5, <1>6
<1>10. DownIsQuiet'
  BY <1>1 DEF IInv, DownIsQuiet
<1> QED BY <1>1, <1>3, <1>5, <1>7, <1>8, <1>9, <1>10 DEF IInv

-----------------------------------------------------------------------------
(* The steps.                                                               *)

(* What the caller is, under the lock.                                      *)
LEMMA CallerFacts ==
  ASSUME IInv, NEW r \in Requests, Fresh(r)
  PROVE  /\ UserOf(r) \in Users \cup {Nobody}
         /\ UserOf(r) \in Users => db.role[UserOf(r)] # "gone"
         /\ ~FreshAdmin(r) => UserOf(r) \in Users
         /\ FreshAdmin(r) /\ UserOf(r) \in Users => db.role[UserOf(r)] = "admin"
<1>1. CASE req[r].local
  BY <1>1, Atoms DEF UserOf, FreshAdmin
<1>2. CASE ~req[r].local
  <2>1. req[r].tok \in Tokens
    BY <1>2 DEF IInv, Callers, Fresh
  <2>2. db.tok[req[r].tok].user \in Users \cup {Nobody}
    BY <2>1 DEF IInv, GoodDbs, Dbs, TokenRow, Free
  <2>3. Login(db, req[r].tok) /\ UserOf(r) = db.tok[req[r].tok].user
    BY <1>2 DEF Fresh, UserOf
  <2>4. FreshAdmin(r) <=> IsAdmin(db, req[r].tok)
    BY <1>2 DEF FreshAdmin
  <2> QED BY <2>2, <2>3, <2>4, Atoms DEF Login, IsAdmin
<1>3. req[r].local \in BOOLEAN
  BY DEF IInv, Callers
<1> QED BY <1>1, <1>2, <1>3

(* Users: create, credential, promotion, demotion, deletion.                *)
LEMMA UserSteps ==
  ASSUME IInv, NEW r \in Requests,
         CreateUser(r) \/ MintCredential(r) \/ Promote(r) \/ Demote(r) \/ DeleteUser(r)
  PROVE  IInv'
<1>0. db \in GoodDbs
  BY DEF IInv
<1>1. CASE CreateUser(r)
  <2>1. PICK u \in Users, role \in {"admin", "member"} :
          NewUser(u) /\ Plans(r, <<[db EXCEPT !.role[u] = role]>>, FALSE, TRUE)
    BY <1>1 DEF CreateUser
  <2>2. /\ [db EXCEPT !.role[u] = role] \in GoodDbs
        /\ KeepsAdmin(db, [db EXCEPT !.role[u] = role])
    BY <1>0, <2>1, RoleGood, LoginsKeepAdmin DEF NewUser
  <2>3. PlanGood([todo |-> <<[db EXCEPT !.role[u] = role]>>, guarded |-> FALSE, admin |-> TRUE], db)
    BY <2>2, OneCommit
  <2> QED BY <1>1, <2>1, <2>3, PlanStep DEF CreateUser
<1>2. CASE MintCredential(r)
  <2>1. PICK u \in Users, t \in Tokens :
          NewToken(t) /\ Plans(r, <<Put(db, t, Control, u)>>, FALSE, TRUE)
    BY <1>2 DEF MintCredential
  <2>2. /\ Control \in Scopes
        /\ \A g \in Groups : Control # <<"group", g>>
    BY DEF Control, Scopes
  <2>3. Put(db, t, Control, u) \in GoodDbs /\ KeepsAdmin(db, Put(db, t, Control, u))
    BY <1>0, <2>1, <2>2, PutGood, LoginsKeepAdmin DEF NewToken
  <2>4. PlanGood([todo |-> <<Put(db, t, Control, u)>>, guarded |-> FALSE, admin |-> TRUE], db)
    BY <2>3, OneCommit
  <2> QED BY <1>2, <2>1, <2>4, PlanStep DEF MintCredential
<1>3. CASE Promote(r)
  <2>1. PICK u \in Users :
          db.role[u] = "member" /\ Plans(r, <<[db EXCEPT !.role[u] = "admin"]>>, FALSE, TRUE)
    BY <1>3 DEF Promote
  <2>2. /\ [db EXCEPT !.role[u] = "admin"] \in GoodDbs
        /\ KeepsAdmin(db, [db EXCEPT !.role[u] = "admin"])
    BY <1>0, <2>1, RoleGood, LoginsKeepAdmin
  <2>3. PlanGood([todo |-> <<[db EXCEPT !.role[u] = "admin"]>>, guarded |-> FALSE, admin |-> TRUE], db)
    BY <2>2, OneCommit
  <2> QED BY <1>3, <2>1, <2>3, PlanStep DEF Promote
<1>4. CASE Demote(r)
  <2>1. PICK u \in Users :
          /\ db.role[u] = "admin"
          /\ AdminLoginWithout(db, u)
          /\ LET revoked == Revoke(db, Overprivileged(db, u))
             IN Plans(r, <<revoked, [revoked EXCEPT !.role[u] = "member"]>>, FALSE, TRUE)
    BY <1>4 DEF Demote
  <2> DEFINE e == Revoke(db, Overprivileged(db, u))
             f == [e EXCEPT !.role[u] = "member"]
  <2>2. \A t \in Tokens \cap Overprivileged(db, u) : db.tok[t].scope # Control
    BY DEF Overprivileged
  <2>3. /\ e \in GoodDbs /\ KeepsLogins(db, e)
        /\ e.owner = db.owner
        /\ \A t \in Tokens : e.tok[t] = IF t \in Overprivileged(db, u) THEN Free ELSE db.tok[t]
    BY <1>0, <2>2, RevokeGood
  <2>4. Overprivileged(e, u) = {}
    BY <2>3 DEF Overprivileged
  <2>5. AdminLoginWithout(e, u)
    <3>1. PICK t \in Tokens : IsAdmin(db, t) /\ db.tok[t].user # u
      BY <2>1 DEF AdminLoginWithout
    <3>2. e.tok[t] = db.tok[t] /\ IsAdmin(e, t)
      BY <3>1, <2>2, <2>3 DEF KeepsLogins, IsAdmin
    <3> QED BY <3>1, <3>2 DEF AdminLoginWithout
  <2> HIDE DEF e
  <2>6. f \in GoodDbs /\ AdminLogin(f)
    BY <2>3, <2>4, <2>5, RoleGood
  <2>7. PlanGood([todo |-> <<e, f>>, guarded |-> FALSE, admin |-> TRUE], db)
    BY <2>3, <2>6, TwoCommits DEF KeepsAdmin
  <2>8. Plans(r, <<e, f>>, FALSE, TRUE)
    BY <2>1 DEF e
  <2>9. Takes(r) /\ FreshAdmin(r)
    BY <1>4 DEF Demote
  <2> HIDE DEF f
  <2> QED BY <2>7, <2>8, <2>9, PlanStep
<1>5. CASE DeleteUser(r)
  <2>1. PICK u \in Users :
          /\ db.role[u] = "admin" => AdminLoginWithout(db, u)
          /\ \A s \in Servers : db.owner[s] # u
          /\ Plans(r, <<ForgetUser(db, u)>>, FALSE, TRUE)
    BY <1>5 DEF DeleteUser
  <2>2. ForgetUser(db, u) \in GoodDbs /\ KeepsAdmin(db, ForgetUser(db, u))
    BY <1>0, <2>1, ForgetUserGood
  <2>3. PlanGood([todo |-> <<ForgetUser(db, u)>>, guarded |-> FALSE, admin |-> TRUE], db)
    BY <2>2, OneCommit
  <2> QED BY <1>5, <2>1, <2>3, PlanStep DEF DeleteUser
<1> QED BY <1>1, <1>2, <1>3, <1>4, <1>5

(* Tokens: mint and revoke.                                                 *)
LEMMA TokenSteps ==
  ASSUME IInv, NEW r \in Requests, CreateToken(r) \/ DeleteToken(r)
  PROVE  IInv'
<1>0. db \in GoodDbs
  BY DEF IInv
<1>1. CASE CreateToken(r)
  <2>1. PICK t \in Tokens, scope \in Scopes :
          /\ NewToken(t)
          /\ \A s \in Servers : scope = <<"server", s>> => Sees(r, s)
          /\ \A g \in Groups : scope = <<"group", g>> => g \in db.groups
          /\ ~FreshAdmin(r) => scope \in {"server"} \X Servers
          /\ Plans(r, <<Put(db, t, scope, UserOf(r))>>, FALSE, FALSE)
    BY <1>1 DEF CreateToken
  <2>2. Takes(r) /\ Fresh(r)
    BY <1>1 DEF CreateToken, Takes
  <2>3. \/ UserOf(r) = Nobody
        \/ db.role[UserOf(r)] = "admin"
        \/ \E s \in Servers : scope = <<"server", s>> /\ db.owner[s] = UserOf(r)
    <3>1. CASE FreshAdmin(r)
      BY <3>1, <2>2, CallerFacts
    <3>2. CASE ~FreshAdmin(r)
      <4>1. PICK s \in Servers : scope = <<"server", s>>
        BY <3>2, <2>1
      <4> QED BY <4>1, <3>2, <2>1 DEF Sees
    <3> QED BY <3>1, <3>2
  <2>4. UserOf(r) \in Users \cup {Nobody}
    BY <2>2, CallerFacts
  <2>5. Put(db, t, scope, UserOf(r)) \in GoodDbs /\ KeepsAdmin(db, Put(db, t, scope, UserOf(r)))
    BY <1>0, <2>1, <2>3, <2>4, PutGood, LoginsKeepAdmin DEF NewToken
  <2>6. PlanGood([todo |-> <<Put(db, t, scope, UserOf(r))>>, guarded |-> FALSE, admin |-> FALSE], db)
    BY <2>5, OneCommit
  <2> QED BY <2>1, <2>2, <2>6, PlanStep
<1>2. CASE DeleteToken(r)
  <2>1. PICK t \in Tokens : Plans(r, <<Revoke(db, {t})>>, db.tok[t].scope = Control, FALSE)
    BY <1>2 DEF DeleteToken
  <2>2. Takes(r)
    BY <1>2 DEF DeleteToken
  <2> DEFINE guarded == db.tok[t].scope = Control
  <2>3. Revoke(db, {t}) \in GoodDbs /\ (guarded \/ KeepsAdmin(db, Revoke(db, {t})))
    BY <1>0, RevokeGood, LoginsKeepAdmin
  <2>4. guarded \in BOOLEAN
    OBVIOUS
  <2>5. Plans(r, <<Revoke(db, {t})>>, guarded, FALSE)
    BY <2>1
  <2> HIDE DEF guarded
  <2>6. PlanGood([todo |-> <<Revoke(db, {t})>>, guarded |-> guarded, admin |-> FALSE], db)
    BY <2>3, <2>4, OneCommit
  <2> QED BY <2>2, <2>4, <2>5, <2>6, PlanStep
<1> QED BY <1>1, <1>2

(* A new row of the caller's: created, cloned or imported.                  *)
LEMMA CallersServerGood ==
  ASSUME IInv, NEW r \in Requests, Takes(r), NEW d \in GoodDbs, d.role = db.role,
         NEW s \in Servers, \A t \in Tokens : d.tok[t].scope # <<"server", s>>
  PROVE  /\ WithServer(d, s, UserOf(r)) \in GoodDbs
         /\ KeepsLogins(d, WithServer(d, s, UserOf(r)))
         /\ KeepsAdmin(d, WithServer(d, s, UserOf(r)))
<1>1. UserOf(r) \in Users \cup {Nobody} /\ (UserOf(r) \in Users => d.role[UserOf(r)] # "gone")
  BY CallerFacts DEF Takes
<1>2. [d EXCEPT !.owner[s] = UserOf(r)] \in GoodDbs /\ KeepsLogins(d, [d EXCEPT !.owner[s] = UserOf(r)])
  BY <1>1, NewServerGood
<1> QED BY <1>2, LoginsKeepAdmin DEF WithServer

LEMMA NewServerSteps ==
  ASSUME IInv, NEW r \in Requests, CreateServer(r) \/ CloneServer(r) \/ ImportServers(r)
  PROVE  IInv'
<1>0. db \in GoodDbs
  BY DEF IInv
<1>1. Takes(r) /\ Fresh(r)
  BY DEF CreateServer, CloneServer, ImportServers, Takes
<1>2. CASE CreateServer(r) \/ CloneServer(r)
  <2>1. PICK s \in Servers :
          NewServer(s) /\ Plans(r, <<WithServer(db, s, UserOf(r))>>, FALSE, FALSE)
    BY <1>2 DEF CreateServer, CloneServer
  <2> DEFINE e == WithServer(db, s, UserOf(r))
  <2>2. e \in GoodDbs /\ KeepsAdmin(db, e)
    BY <1>0, <1>1, <2>1, CallersServerGood DEF NewServer
  <2> HIDE DEF e
  <2>3. PlanGood([todo |-> <<e>>, guarded |-> FALSE, admin |-> FALSE], db)
    BY <2>2, OneCommit
  <2> QED BY <1>1, <2>1, <2>3, PlanStep DEF e
<1>3. CASE ImportServers(r)
  <2>1. PICK s \in Servers, t \in Servers :
          /\ NewServer(s) /\ NewServer(t)
          /\ LET first == WithServer(db, s, UserOf(r))
             IN Plans(r, <<first, WithServer(first, t, UserOf(r))>>, FALSE, FALSE)
    BY <1>3 DEF ImportServers
  <2> DEFINE e == WithServer(db, s, UserOf(r))
             f == WithServer(e, t, UserOf(r))
  <2>2. e \in GoodDbs /\ KeepsLogins(db, e) /\ KeepsAdmin(db, e)
    BY <1>0, <1>1, <2>1, CallersServerGood DEF NewServer
  <2>3. e.role = db.role /\ e.tok = db.tok
    BY <1>0 DEF WithServer, GoodDbs, Dbs
  <2> HIDE DEF e
  <2>4. f \in GoodDbs /\ KeepsAdmin(e, f)
    BY <1>1, <2>1, <2>2, <2>3, CallersServerGood DEF NewServer
  <2> HIDE DEF f
  <2>5. PlanGood([todo |-> <<e, f>>, guarded |-> FALSE, admin |-> FALSE], db)
    BY <2>2, <2>4, TwoCommits
  <2> QED BY <1>1, <2>1, <2>5, PlanStep DEF e, f
<1> QED BY <1>2, <1>3

(* Servers: change hands, delete.                                           *)
LEMMA ServerSteps ==
  ASSUME IInv, NEW r \in Requests, SetOwner(r) \/ DeleteServer(r)
  PROVE  IInv'
<1>0. db \in GoodDbs
  BY DEF IInv
<1>2. CASE SetOwner(r)
  <2>1. PICK s \in Servers, u \in Users \cup {Nobody} :
          /\ Sees(r, s)
          /\ u # Nobody => db.role[u] # "gone"
          /\ LET revoked == Revoke(db, FormerOwners(db, s, u))
             IN Plans(r, <<revoked, [revoked EXCEPT !.owner[s] = u]>>, FALSE, TRUE)
    BY <1>2 DEF SetOwner
  <2> DEFINE stale == FormerOwners(db, s, u)
             e == Revoke(db, stale)
             f == [e EXCEPT !.owner[s] = u]
  <2>2. \A t \in Tokens \cap stale : db.tok[t].scope # Control
    BY DEF FormerOwners, Control
  <2>3. /\ e \in GoodDbs /\ KeepsLogins(db, e)
        /\ e.owner = db.owner /\ e.role = db.role
        /\ \A t \in Tokens : e.tok[t] = IF t \in stale THEN Free ELSE db.tok[t]
    BY <1>0, <2>2, RevokeGood
  <2>4. Exists(e, s)
    BY <2>1, <2>3 DEF Sees, Exists
  <2>5. \/ e.owner[s] = u
        \/ \A t \in Tokens : e.tok[t].user \in Users /\ e.tok[t].scope = <<"server", s>>
                             => e.tok[t].user # e.owner[s]
    <3>1. SUFFICES ASSUME e.owner[s] # u, NEW t \in Tokens, e.tok[t].user \in Users,
                          e.tok[t].scope = <<"server", s>>, e.tok[t].user = e.owner[s]
                   PROVE  FALSE
      OBVIOUS
    <3>2. t \notin stale /\ e.tok[t] = db.tok[t]
      BY <3>1, <2>3 DEF Free
    <3>3. db.tok[t] \in TokenRow
      BY <3>1, <3>2, <1>0 DEF GoodDbs, Dbs, Free
    <3>4. db.tok[t] = [scope |-> <<"server", s>>, user |-> db.owner[s]]
      BY <3>1, <3>2, <3>3, <2>3 DEF TokenRow
    <3> QED BY <3>1, <3>2, <3>4, <2>3, Atoms DEF FormerOwners
  <2> HIDE DEF e
  <2>6. f \in GoodDbs /\ KeepsLogins(e, f)
    <3>1. u # Gone /\ (u \in Users => e.role[u] # "gone")
      BY <2>1, <2>3, Atoms
    <3> QED BY <2>3, <2>4, <2>5, <3>1, OwnerGood
  <2> HIDE DEF f
  <2>7. PlanGood([todo |-> <<e, f>>, guarded |-> FALSE, admin |-> TRUE], db)
    BY <2>3, <2>6, TwoCommits, LoginsKeepAdmin
  <2>8. Plans(r, <<e, f>>, FALSE, TRUE)
    BY <2>1 DEF e, f
  <2>9. Takes(r) /\ FreshAdmin(r)
    BY <1>2 DEF SetOwner
  <2> QED BY <2>7, <2>8, <2>9, PlanStep
<1>3. CASE DeleteServer(r)
  <2>1. PICK s \in Servers :
          /\ Sees(r, s)
          /\ LET pruned == Prune(db, s)
             IN Plans(r, <<pruned, [pruned EXCEPT !.owner[s] = Gone]>>, FALSE, FALSE)
    BY <1>3 DEF DeleteServer
  <2> DEFINE e == Prune(db, s)
             f == [e EXCEPT !.owner[s] = Gone]
  <2>2. /\ e \in GoodDbs /\ KeepsLogins(db, e)
        /\ \A g \in Groups : s \notin e.listed[g]
    BY <1>0, PruneGood
  <2> HIDE DEF e
  <2>3. f \in GoodDbs /\ KeepsLogins(e, f)
    BY <2>2, OwnerGood, Atoms
  <2> HIDE DEF f
  <2>4. PlanGood([todo |-> <<e, f>>, guarded |-> FALSE, admin |-> FALSE], db)
    BY <2>2, <2>3, TwoCommits, LoginsKeepAdmin
  <2>5. Plans(r, <<e, f>>, FALSE, FALSE)
    BY <2>1 DEF e, f
  <2>6. Takes(r)
    BY <1>3 DEF DeleteServer
  <2> QED BY <2>4, <2>5, <2>6, PlanStep
<1> QED BY <1>2, <1>3

(* Groups: write and delete.                                                *)
LEMMA GroupSteps ==
  ASSUME IInv, NEW r \in Requests, UpsertGroup(r) \/ DeleteGroup(r)
  PROVE  IInv'
<1>0. db \in GoodDbs
  BY DEF IInv
<1>1. CASE UpsertGroup(r)
  <2>1. PICK g \in Groups, members \in SUBSET Servers :
          /\ \A s \in members : Exists(db, s)
          /\ Plans(r, <<WithGroup(db, g, members)>>, FALSE, TRUE)
    BY <1>1 DEF UpsertGroup
  <2>2. /\ WithGroup(db, g, members) \in GoodDbs
        /\ KeepsAdmin(db, WithGroup(db, g, members))
    BY <1>0, <2>1, WithGroupGood, LoginsKeepAdmin
  <2>3. PlanGood([todo |-> <<WithGroup(db, g, members)>>, guarded |-> FALSE, admin |-> TRUE], db)
    BY <2>2, OneCommit
  <2> QED BY <1>1, <2>1, <2>3, PlanStep DEF UpsertGroup
<1>2. CASE DeleteGroup(r)
  <2>1. PICK g \in db.groups :
          LET revoked == Revoke(db, GroupTokens(db, g))
          IN Plans(r, <<revoked, WithoutGroup(revoked, g)>>, FALSE, TRUE)
    BY <1>2 DEF DeleteGroup
  <2>2. g \in Groups
    BY <1>0, <2>1 DEF GoodDbs, Dbs
  <2> DEFINE e == Revoke(db, GroupTokens(db, g))
             f == WithoutGroup(e, g)
  <2>3. \A t \in Tokens \cap GroupTokens(db, g) : db.tok[t].scope # Control
    BY DEF GroupTokens, Control
  <2>4. /\ e \in GoodDbs /\ KeepsLogins(db, e)
        /\ \A t \in Tokens : e.tok[t] = IF t \in GroupTokens(db, g) THEN Free ELSE db.tok[t]
    BY <1>0, <2>3, RevokeGood
  <2> HIDE DEF e
  <2>5. GroupTokens(e, g) = {}
    <3> SUFFICES ASSUME NEW t \in Tokens, e.tok[t].scope = <<"group", g>> PROVE FALSE
      BY DEF GroupTokens
    <3>1. Free.scope # <<"group", g>>
      BY DEF Free
    <3>2. t \notin GroupTokens(db, g)
      BY <2>4, <3>1
    <3> QED BY <2>4, <3>2 DEF GroupTokens
  <2>6. f \in GoodDbs /\ KeepsLogins(e, f)
    BY <2>2, <2>4, <2>5, WithoutGroupGood
  <2> HIDE DEF f
  <2>7. PlanGood([todo |-> <<e, f>>, guarded |-> FALSE, admin |-> TRUE], db)
    BY <2>4, <2>6, TwoCommits, LoginsKeepAdmin
  <2>8. Plans(r, <<e, f>>, FALSE, TRUE)
    BY <2>1 DEF e, f
  <2>9. Takes(r) /\ FreshAdmin(r)
    BY <1>2 DEF DeleteGroup
  <2> QED BY <2>7, <2>8, <2>9, PlanStep
<1> QED BY <1>1, <1>2

(* A commit of the lock's holder.                                           *)
LEMMA CommitStep ==
  ASSUME IInv, NEW r \in Requests, Commit(r)
  PROVE  IInv'
<1> DEFINE p == plan[r]
<1>1. p # NoPlan /\ PlanGood(p, db) /\ req[r] # Idle
  BY DEF IInv, Commit
<1>2. \A q \in Requests : q # r => plan[q] = NoPlan
  BY <1>1 DEF IInv
<1>3. p.todo \in Seq(GoodDbs) /\ Len(p.todo) \in {1, 2} /\ Head(p.todo) = p.todo[1]
  BY <1>1 DEF PlanGood
<1>4. p.todo[1] \in GoodDbs
  BY <1>3
<1>5. enforced' = enforced /\ up' = up /\ up = TRUE /\ DownIsQuiet'
  BY <1>1 DEF Commit, IInv, DownIsQuiet
<1>6. NoPlan \in Plan
  <2>1. <<>> \in Seq(Dbs)
    OBVIOUS
  <2> QED BY <2>1 DEF NoPlan, Plan
<1>7. CASE Refused(r) \/ Len(p.todo) = 1
  <2>1. /\ plan' = [plan EXCEPT ![r] = NoPlan]
        /\ req' = [req EXCEPT ![r] = Idle]
        /\ db' = IF Refused(r) THEN db ELSE p.todo[1]
    BY <1>3, <1>7 DEF Commit
  <2>2. \A q \in Requests : plan'[q] = NoPlan
    BY <1>2, <2>1 DEF IInv
  <2>3. plan' \in [Requests -> Plan]
    BY <1>6, <2>1 DEF IInv
  <2>4. Idle \in Callers
    BY DEF Idle, Callers
  <2>5. req' \in [Requests -> Callers]
    BY <2>1, <2>4 DEF IInv
  <2>6. db' \in GoodDbs
    BY <1>4, <2>1 DEF IInv
  <2>7. NotLockedOut'
    <3>1. CASE Refused(r)
      BY <3>1, <2>1, <1>5 DEF IInv, NotLockedOut, AdminLogin, IsAdmin
    <3>2. CASE ~Refused(r)
      <4>1. db' = p.todo[1]
        BY <3>2, <2>1
      <4>2. enforced => (p.guarded => AdminLogin(p.todo[1]))
        BY <3>2, <1>3 DEF Refused
      <4>3. up /\ enforced => AdminLogin(p.todo[1])
        BY <4>2, <1>1 DEF PlanGood, KeepsAdmin, IInv, NotLockedOut
      <4> QED BY <4>1, <4>3, <1>5 DEF NotLockedOut, AdminLogin, IsAdmin
    <3> QED BY <3>1, <3>2
  <2>8. HolderStillMay'
    BY <2>2 DEF HolderStillMay
  <2> QED BY <1>5, <2>2, <2>3, <2>5, <2>6, <2>7, <2>8 DEF IInv
<1>8. CASE ~(Refused(r) \/ Len(p.todo) = 1)
  <2>1. /\ plan' = [plan EXCEPT ![r].todo = Tail(@)]
        /\ req' = req
        /\ db' = p.todo[1]
    BY <1>3, <1>8 DEF Commit
  <2>2. Len(p.todo) = 2 /\ ~p.guarded /\ KeepsLogins(db, p.todo[1]) /\ KeepsAdmin(p.todo[1], p.todo[2])
    BY <1>1, <1>3, <1>8 DEF PlanGood
  <2> DEFINE left == Tail(p.todo)
             rest == [todo |-> left, guarded |-> p.guarded, admin |-> p.admin]
  <2>3. p \in Plan
    BY DEF IInv
  <2>4. left \in Seq(GoodDbs) /\ Len(left) = 1 /\ left[1] = p.todo[2]
    BY <1>3, <2>2
  <2>5. \A q \in Requests : plan'[q] = IF q = r THEN rest ELSE plan[q]
    <3>1. plan' = [plan EXCEPT ![r] = [p EXCEPT !.todo = left]]
      BY <2>1
    <3> HIDE DEF left
    <3>2. [p EXCEPT !.todo = left] = rest
      BY <2>3 DEF Plan
    <3> QED BY <3>1, <3>2 DEF IInv
  <2> HIDE DEF left
  <2>6. GoodDbs \subseteq Dbs
    BY DEF GoodDbs
  <2>7. PlanGood(rest, p.todo[1])
    BY <2>2, <2>3, <2>4 DEF Plan, PlanGood
  <2>8. rest \in Plan
    <3>1. left \in Seq(Dbs)
      BY <2>4, <2>6
    <3> QED BY <2>3, <3>1 DEF Plan
  <2> HIDE DEF rest
  <2>9. plan' \in [Requests -> Plan]
    <3>1. plan' = [plan EXCEPT ![r] = rest]
      BY <2>1, <2>5 DEF IInv
    <3> QED BY <3>1, <2>8 DEF IInv
  <2>10. \A q \in Requests : plan'[q] # NoPlan => q = r
    BY <1>2, <2>5
  <2>11. \A q \in Requests : plan'[q] # NoPlan => PlanGood(plan'[q], db') /\ req'[q] # Idle
    BY <2>1, <2>5, <2>7, <2>10, <1>1
  <2>12. NotLockedOut'
    <3>1. KeepsAdmin(db, p.todo[1])
      BY <2>2, LoginsKeepAdmin
    <3> QED BY <3>1, <2>1, <1>5 DEF IInv, NotLockedOut, KeepsAdmin, AdminLogin, IsAdmin
  <2>13. HolderStillMay'
    <3>1. SUFFICES ASSUME ~req[r].local
                   PROVE  IF p.admin THEN IsAdmin(p.todo[1], req[r].tok) ELSE Login(p.todo[1], req[r].tok)
      <4>1. rest.admin = p.admin
        BY DEF rest
      <4> QED BY <4>1, <2>1, <2>5, <2>10 DEF HolderStillMay, IsAdmin, Login
    <3>2. IF p.admin THEN IsAdmin(db, req[r].tok) ELSE Login(db, req[r].tok)
      BY <3>1, <1>1 DEF IInv, HolderStillMay
    <3>3. req[r].tok \in Tokens
      BY <3>1, <1>1 DEF IInv, Callers, Idle
    <3> QED BY <3>2, <3>3, <2>2 DEF KeepsLogins
  <2> QED BY <1>4, <1>5, <2>1, <2>9, <2>10, <2>11, <2>12, <2>13 DEF IInv
<1> QED BY <1>7, <1>8

(* The steps of a request that commits nothing under the lock.              *)
LEMMA RequestSteps ==
  ASSUME IInv, NEW r \in Requests, Enter(r) \/ Leave(r) \/ SettingsWrite(r)
  PROVE  IInv'
<1>1. db' = db /\ up' = up /\ plan' = plan /\ plan[r] = NoPlan
  BY DEF Enter, Leave, SettingsWrite, IInv
<1>2. PICK c \in Callers : req' = [req EXCEPT ![r] = c]
  <2>1. Idle \in Callers
    BY DEF Idle, Callers
  <2> QED BY <2>1 DEF Enter, Leave, SettingsWrite, Callers, IInv
<1>3. req' \in [Requests -> Callers] /\ \A q \in Requests : q # r => req'[q] = req[q]
  BY <1>2 DEF IInv
<1>4. enforced' \in BOOLEAN /\ NotLockedOut'
  <2>1. CASE SettingsWrite(r)
    <3>1. PICK on \in BOOLEAN : enforced' = on /\ (on => Presents(r))
      BY <2>1 DEF SettingsWrite
    <3>2. on => AdminLogin(db)
      BY <3>1, Atoms DEF Presents, AdminLogin, IInv, Callers
    <3> QED BY <3>1, <3>2, <1>1 DEF NotLockedOut, AdminLogin, IsAdmin
  <2>2. CASE Enter(r) \/ Leave(r)
    BY <2>2, <1>1 DEF Enter, Leave, IInv, NotLockedOut, AdminLogin, IsAdmin
  <2> QED BY <2>1, <2>2
<1>5. HolderStillMay'
  BY <1>1, <1>3 DEF IInv, HolderStillMay, IsAdmin, Login
<1>6. \A q \in Requests : plan'[q] # NoPlan => PlanGood(plan'[q], db') /\ req'[q] # Idle
  BY <1>1, <1>3 DEF IInv
<1>7. DownIsQuiet'
  BY <1>1, <1>2 DEF IInv, DownIsQuiet, Enter, Leave, SettingsWrite
<1> QED BY <1>1, <1>3, <1>4, <1>5, <1>6, <1>7 DEF IInv

(* A crash, and a boot.                                                     *)
LEMMA SystemSteps ==
  ASSUME IInv, Crash \/ Boot
  PROVE  IInv'
<1>1. CASE Crash
  <2>1. /\ db' = db /\ enforced' = enforced /\ up' = FALSE
        /\ req' = [r \in Requests |-> Idle] /\ plan' = [r \in Requests |-> NoPlan]
    BY <1>1 DEF Crash
  <2>2. Idle \in Callers
    BY DEF Idle, Callers
  <2>3. NoPlan \in Plan
    <3>1. <<>> \in Seq(Dbs)
      OBVIOUS
    <3> QED BY <3>1 DEF NoPlan, Plan
  <2>4. req' \in [Requests -> Callers] /\ plan' \in [Requests -> Plan]
    BY <2>1, <2>2, <2>3
  <2>5. NotLockedOut' /\ HolderStillMay' /\ DownIsQuiet'
    BY <2>1 DEF NotLockedOut, HolderStillMay, DownIsQuiet
  <2>6. \A r \in Requests : plan'[r] = NoPlan
    BY <2>1
  <2> QED BY <2>1, <2>4, <2>5, <2>6 DEF IInv
<1>2. CASE Boot
  <2>1. up' = TRUE /\ enforced' \in BOOLEAN /\ req' = req /\ plan' = plan
    BY <1>2 DEF Boot
  <2>2. db' \in GoodDbs /\ KeepsLogins(db, db') /\ (enforced' => AdminLogin(db'))
    <3>1. CASE enforced' /\ ~AdminLogin(db)
      <4>1. PICK t \in Tokens : db.tok[t] = Free /\ db' = Put(db, t, Control, Nobody)
        BY <1>2, <3>1 DEF Boot
      <4>2. Control \in Scopes /\ \A g \in Groups : Control # <<"group", g>>
        BY DEF Control, Scopes
      <4>3. db' \in GoodDbs /\ KeepsLogins(db, db')
        BY <4>1, <4>2, PutGood DEF IInv
      <4>4. db'.tok[t] = [scope |-> Control, user |-> Nobody]
        BY <4>1 DEF Put, IInv, GoodDbs, Dbs
      <4>5. AdminLogin(db')
        BY <4>4 DEF AdminLogin, IsAdmin
      <4> QED BY <4>3, <4>5
    <3>2. CASE ~(enforced' /\ ~AdminLogin(db))
      BY <1>2, <3>2 DEF Boot, IInv, KeepsLogins, AdminLogin, IsAdmin
    <3> QED BY <3>1, <3>2
  <2>3. \A r \in Requests : plan'[r] = NoPlan
    BY <1>2, <2>1 DEF IInv, Boot, DownIsQuiet
  <2>4. NotLockedOut' /\ HolderStillMay' /\ DownIsQuiet'
    <3>1. enforced' => AdminLogin(db)'
      BY <2>2 DEF AdminLogin, IsAdmin
    <3> QED BY <3>1, <2>1, <2>3 DEF NotLockedOut, HolderStillMay, DownIsQuiet
  <2> QED BY <2>1, <2>2, <2>3, <2>4 DEF IInv
<1> QED BY <1>1, <1>2

-----------------------------------------------------------------------------

(* An empty database is in order.                                           *)
LEMMA InitIInv == Init => IInv
<1> SUFFICES ASSUME Init PROVE IInv
  OBVIOUS
<1>1. /\ db.owner = [s \in Servers |-> Gone] /\ db.groups = {}
      /\ db.listed = [g \in Groups |-> {}] /\ db.role = [u \in Users |-> "gone"]
      /\ db.tok = [t \in Tokens |-> Free]
  BY DEF Init
<1>2. db \in Dbs
  <2>1. /\ db.owner \in [Servers -> Users \cup {Nobody, Gone}] /\ db.groups \in SUBSET Groups
        /\ db.listed \in [Groups -> SUBSET Servers] /\ db.role \in [Users -> Roles]
        /\ db.tok \in [Tokens -> TokenRow \cup {Free}]
    BY <1>1 DEF Roles
  <2> QED BY <2>1 DEF Dbs, Init
<1>3. GroupsResolve(db) /\ MemberScopes(db)
  BY <1>1 DEF GroupsResolve, MemberScopes
<1>4. OwnersExist(db)
  BY <1>1, Atoms DEF OwnersExist
<1>5. GroupScopes(db)
  BY <1>1 DEF GroupScopes, Free
<1>6. req \in [Requests -> Callers] /\ plan \in [Requests -> Plan]
  <2>1. Idle \in Callers
    BY DEF Idle, Callers
  <2>2. NoPlan \in Plan
    <3>1. <<>> \in Seq(Dbs)
      OBVIOUS
    <3> QED BY <3>1 DEF NoPlan, Plan
  <2> QED BY <2>1, <2>2 DEF Init
<1>7. \A r \in Requests : plan[r] = NoPlan /\ req[r] = Idle
  BY DEF Init
<1>8. NotLockedOut /\ HolderStillMay /\ DownIsQuiet
  BY <1>7 DEF Init, NotLockedOut, HolderStillMay, DownIsQuiet
<1>9. db \in GoodDbs
  BY <1>2, <1>3, <1>4, <1>5 DEF GoodDbs, InOrder
<1> QED BY <1>6, <1>7, <1>8, <1>9 DEF IInv, Init

(* Every step keeps the inductive invariant.                                *)
LEMMA NextIInv == IInv /\ [Next]_vars => IInv'
<1> SUFFICES ASSUME IInv, [Next]_vars PROVE IInv'
  OBVIOUS
<1>1. CASE Crash \/ Boot
  BY <1>1, SystemSteps
<1>2. ASSUME NEW r \in Requests,
             \/ Enter(r) \/ Leave(r) \/ Commit(r) \/ SettingsWrite(r)
             \/ CreateUser(r) \/ MintCredential(r) \/ Promote(r) \/ Demote(r) \/ DeleteUser(r)
             \/ CreateToken(r) \/ DeleteToken(r)
             \/ CreateServer(r) \/ CloneServer(r) \/ ImportServers(r)
             \/ SetOwner(r) \/ DeleteServer(r)
             \/ UpsertGroup(r) \/ DeleteGroup(r)
      PROVE  IInv'
  BY <1>2, RequestSteps, CommitStep, UserSteps, TokenSteps, NewServerSteps, ServerSteps, GroupSteps
<1>3. CASE UNCHANGED vars
  <2>1. db' = db /\ enforced' = enforced /\ up' = up /\ req' = req /\ plan' = plan
    BY <1>3 DEF vars
  <2> QED BY <2>1 DEF IInv, NotLockedOut, HolderStillMay, DownIsQuiet, AdminLogin, IsAdmin, Login
<1> QED BY <1>1, <1>2, <1>3 DEF Next

(* The inductive invariant holds in every reachable state.                  *)
THEOREM Invariant == Spec => []IInv
BY InitIInv, NextIInv, PTL DEF Spec

(* Every variable keeps its type.                                           *)
THEOREM TypeCorrect == Spec => []TypeOK
<1>1. IInv => TypeOK
  BY DEF IInv, TypeOK, GoodDbs
<1> QED BY <1>1, Invariant, PTL

(* The registry is one the next boot accepts, after any commit of any       *)
(* operation (prune_server, write_group, validate_at_startup).              *)
THEOREM RegistryBoots == Spec => []BootAccepts
<1>1. IInv => BootAccepts
  BY DEF IInv, GoodDbs, InOrder, BootAccepts
<1> QED BY <1>1, Invariant, PTL

(* Every owner of a server is a user that exists (delete_user, set_owner).  *)
THEOREM OwnersStay == Spec => []NoOrphanServer
<1>1. IInv => NoOrphanServer
  BY DEF IInv, GoodDbs, InOrder, NoOrphanServer
<1> QED BY <1>1, Invariant, PTL

(* An admin can log in whenever a token is demanded (the last-admin and     *)
(* last-control guards, would_lock_out, ensure_control_token).              *)
THEOREM AdminRemains == Spec => []NotLockedOut
<1>1. IInv => NotLockedOut
  BY DEF IInv
<1> QED BY <1>1, Invariant, PTL

(* A member holds no data token a member could not mint (demotion,          *)
(* transfer, mint).                                                         *)
THEOREM MembersStayMembers == Spec => []MembersHoldTheirOwn
<1>1. IInv => MembersHoldTheirOwn
  BY DEF IInv, GoodDbs, InOrder, MembersHoldTheirOwn
<1> QED BY <1>1, Invariant, PTL

(* A group's tokens go with it (_delete_group_and_tokens, create_token).    *)
THEOREM GroupTokensGo == Spec => []NoTokenForMissingGroup
<1>1. IInv => NoTokenForMissingGroup
  BY DEF IInv, GoodDbs, InOrder, NoTokenForMissingGroup
<1> QED BY <1>1, Invariant, PTL

(* The holder of the lock keeps the authority it was judged by until its    *)
(* last commit (refresh, admin_now under config_write_lock).                *)
THEOREM HolderKeepsAuthority == Spec => []HolderStillMay
<1>1. IInv => HolderStillMay
  BY DEF IInv
<1> QED BY <1>1, Invariant, PTL

(* No row refers to one that is gone: the conjunction of the facts above.   *)
THEOREM NothingDangles == Spec => []NoDangling
<1>1. TypeOK /\ BootAccepts /\ NoOrphanServer /\ NoTokenForMissingGroup => NoDangling
  BY DEF NoDangling
<1> QED BY <1>1, TypeCorrect, RegistryBoots, OwnersStay, GroupTokensGo, PTL

-----------------------------------------------------------------------------
(* ServerConfig: what is stored, and what runs of it, for any requests.    *)

\* The fields of a row, each a function of its name.
Shaped(r) ==
    /\ r = [f \in DOMAIN Blank |-> r[f]]
    /\ r.env = [k \in Keys |-> r.env[k]]
    /\ \A f \in Switches : r[f] \in BOOLEAN

StoredValue(v) == v = Absent \/ v = Plain(Text(v)) \/ v = Sealed(Text(v))
Holds(r) == Shaped(r) /\ \A k \in Keys : StoredValue(r.env[k])

\* What normalisation leaves alone.
NormalForm(r) ==
    /\ r.runner \in Local => r.line \notin Launchers
    /\ r.runner = "docker" => r.line \notin {"cli", "nested"}
    /\ r.line = "rawurl" => r.runner \notin Headers
    /\ r.oauth => r.runner = "remote"
    /\ r.runargs => r.runner = "docker"
    /\ r.pin => r.runner = "uvx"
    /\ r.cwd => r.runner \in Local
    /\ r.doc => r.runner = "openapi"

Sound(r) == NormalForm(r) /\ Fits(r) /\ EnvFits(r)

\* An old row the boot conversion passes over.
Unread(r) ==
    /\ r.line = "badcli" /\ r.runner \in Local \cup {"docker"}
    /\ \A k \in Keys : ~IsSealed(r.env[k])

RowInv ==
    /\ Stored => Holds(row) /\ (Sound(row) \/ Unread(row) \/ (~booted /\ row \in Legacy))
    /\ Stored => hash = HashOf(row) \/ (~booted /\ hash = Never)

\* A bridge was launched from some row, and the hash it bears is that row's.
Launched(b) == \E r : b.hash = HashOf(r) /\ b.payload = Payload(r)
BridgeInv == bridge # NoBridge => booted /\ Launched(bridge)

\* The kinds of value, each apart from the others.
LEMMA Values ==
    /\ ~IsSealed(Absent) /\ ~IsSealed(Hidden) /\ Absent # Hidden /\ Text(Absent) = ""
    /\ \A v : /\ ~IsSealed(Plain(v)) /\ Plain(v) # Absent /\ Plain(v) # Hidden /\ Text(Plain(v)) = v
              /\ IsSealed(Sealed(v)) /\ Sealed(v) # Absent /\ Sealed(v) # Hidden
              /\ Text(Sealed(v)) = v
BY DEF IsSealed, Absent, Hidden, Text, Plain, Sealed

LEMMA FieldNames ==
    /\ DOMAIN Blank = {"name", "runner", "line", "cwd", "setup", "repo", "post", "check", "doc",
                       "runargs", "pin", "oauth", "serial", "attach", "env", "enabled"}
    /\ Keys = {"Host", "K", "PATH"}
BY DEF Blank, Keys

\* A row is what its fields are.
LEMMA SameRow ==
    ASSUME NEW r, NEW s, Shaped(r), Shaped(s), \A f \in DOMAIN Blank \ {"env"} : r[f] = s[f],
           \A k \in Keys : r.env[k] = s.env[k]
    PROVE  r = s
<1>1. r.env = s.env  BY Zenon DEF Shaped
<1>2. \A f \in DOMAIN Blank : r[f] = s[f]  BY <1>1
<1>3. QED  BY <1>2, Zenon DEF Shaped

LEMMA BlankHolds == Holds(Blank)
<1>1. Blank = [f \in DOMAIN Blank |-> Blank[f]]  BY DEF Blank
<1>3. Blank.env = [k \in Keys |-> Blank.env[k]]  BY DEF Blank
<1>6. /\ Blank.cwd = FALSE /\ Blank.repo = FALSE /\ Blank.doc = FALSE /\ Blank.runargs = FALSE
      /\ Blank.pin = FALSE /\ Blank.oauth = FALSE /\ Blank.serial = FALSE /\ Blank.attach = FALSE
      /\ Blank.enabled = FALSE
  BY DEF Blank
<1>4. \A f \in Switches : Blank[f] \in BOOLEAN  BY <1>6 DEF Switches
<1>2. \A k \in Keys : Blank.env[k] = Absent  BY DEF Blank
<1>5. QED  BY <1>1, <1>2, <1>3, <1>4 DEF Holds, StoredValue, Shaped

\* What the request leaves alone is as it was.
LEMMA MergedShaped ==
    ASSUME NEW r, Shaped(r), NEW sent,
           \A f \in Switches \cap DOMAIN sent : sent[f] \in BOOLEAN,
           "env" \in DOMAIN sent => sent.env = [k \in Keys |-> sent.env[k]]
    PROVE  LET m == Merged(r, sent)
           IN  /\ Shaped(m)
               /\ \A f \in DOMAIN Blank : m[f] = IF f \in DOMAIN sent THEN sent[f] ELSE r[f]
<1> DEFINE m == Merged(r, sent)
<1>1. DOMAIN r = DOMAIN Blank  BY Zenon DEF Shaped
<1>2. m = [f \in DOMAIN Blank |-> IF f \in DOMAIN sent THEN sent[f] ELSE r[f]]
  BY <1>1 DEF Merged
<1>3. \A f \in DOMAIN Blank : m[f] = IF f \in DOMAIN sent THEN sent[f] ELSE r[f]
  BY <1>2
<1>4. "env" \in DOMAIN Blank /\ Switches \subseteq DOMAIN Blank  BY FieldNames DEF Switches
<1>5. m = [f \in DOMAIN Blank |-> m[f]]  BY <1>2, <1>3, Zenon
<1>6. m.env = [k \in Keys |-> m.env[k]]
  <2>1. CASE "env" \in DOMAIN sent  BY <2>1, <1>3, <1>4
  <2>2. CASE "env" \notin DOMAIN sent  BY <2>2, <1>3, <1>4 DEF Shaped
  <2>3. QED  BY <2>1, <2>2
<1>7. \A f \in Switches : m[f] \in BOOLEAN  BY <1>3, <1>4 DEF Shaped
<1>8. QED  BY <1>3, <1>5, <1>6, <1>7 DEF Shaped

\* Another field replaced.
LEMMA ShapeKept ==
    ASSUME NEW r, Shaped(r), NEW s, DOMAIN s = DOMAIN Blank, s = [g \in DOMAIN Blank |-> s[g]],
           s.env = r.env, \A g \in Switches : s[g] \in BOOLEAN
    PROVE  Shaped(s)
BY Zenon DEF Shaped

LEMMA EnvReplaced ==
    ASSUME NEW r, Shaped(r), NEW e, e = [k \in Keys |-> e[k]]
    PROVE  LET s == [r EXCEPT !.env = e]
           IN  /\ Shaped(s) /\ s.env = e
               /\ \A g \in DOMAIN Blank \ {"env"} : s[g] = r[g]
<1> DEFINE s == [r EXCEPT !.env = e]
<1>1. DOMAIN r = DOMAIN Blank  BY Zenon DEF Shaped
<1>2. s = [g \in DOMAIN Blank |-> IF g = "env" THEN e ELSE r[g]]  BY <1>1
<1>3. "env" \in DOMAIN Blank /\ Switches \subseteq DOMAIN Blank \ {"env"}  BY FieldNames DEF Switches
<1>4. s.env = e /\ \A g \in DOMAIN Blank \ {"env"} : s[g] = r[g]  BY <1>2, <1>3
<1>5. s = [g \in DOMAIN Blank |-> s[g]]  BY <1>2, <1>4, Zenon
<1>6. \A g \in Switches : s[g] \in BOOLEAN  BY <1>3, <1>4 DEF Shaped
<1>7. QED  BY <1>4, <1>5, <1>6 DEF Shaped

\* The line an image and its arguments are read from.
ImageLine(l) ==
    IF l \in {"cli", "bare"} THEN "image" ELSE IF l = "nested" THEN "bare" ELSE l

LEMMA LineReplaced ==
    ASSUME NEW r, Shaped(r), NEW l, NEW s, s = [r EXCEPT !.line = l]
    PROVE  /\ Shaped(s) /\ s.line = l /\ s.env = r.env
           /\ \A g \in DOMAIN Blank \ {"line"} : s[g] = r[g]
<1>1. "line" \in DOMAIN Blank /\ "env" \in DOMAIN Blank /\ "line" \notin Switches
      /\ Switches \subseteq DOMAIN Blank
  BY FieldNames DEF Switches
<1>2. DOMAIN r = DOMAIN Blank  BY Zenon DEF Shaped
<1>3. /\ DOMAIN s = DOMAIN Blank /\ s = [g \in DOMAIN Blank |-> s[g]] /\ s.line = l
      /\ \A g \in DOMAIN Blank : g # "line" => s[g] = r[g]
  BY <1>1, <1>2
<1>4. s.env = r.env /\ \A g \in Switches : s[g] \in BOOLEAN  BY <1>1, <1>3 DEF Shaped
<1>5. Shaped(s)  BY <1>3, <1>4, ShapeKept
<1>6. QED  BY <1>3, <1>4, <1>5

\* The pasted docker run, its image and its env.
LEMMA ImageFields ==
    ASSUME NEW r, Shaped(r)
    PROVE  LET s == ImageOf(r)
           IN  /\ Shaped(s)
               /\ s.line = ImageLine(r.line)
               /\ \A g \in DOMAIN Blank \ {"env", "line"} : s[g] = r[g]
               /\ s.env = IF r.line # "cli" THEN r.env
                          ELSE [r.env EXCEPT !["K"] = IF @ = Absent THEN Plain("b") ELSE @]
<1> DEFINE e == [r.env EXCEPT !["K"] = IF @ = Absent THEN Plain("b") ELSE @]
           l == [r EXCEPT !.line = "image"]
<1>1. CASE r.line \notin {"cli", "bare", "nested"}
  <2>1. ImageOf(r) = r  BY <1>1 DEF ImageOf
  <2>2. QED  BY <1>1, <2>1 DEF ImageLine
<1>2. CASE r.line = "cli"
  <2>1. "line" \in DOMAIN Blank /\ "env" \in DOMAIN Blank  BY FieldNames
  <2>0. l = [r EXCEPT !.line = "image"]  OBVIOUS
  <2>2. /\ Shaped(l) /\ l.line = "image" /\ l.env = r.env
        /\ \A g \in DOMAIN Blank \ {"line"} : l[g] = r[g]
    <3> HIDE DEF l
    <3>1. QED  BY <2>0, LineReplaced
  <2>5. ImageOf(r) = [l EXCEPT !.env = e]  BY <1>2, <2>2 DEF ImageOf
  <2> HIDE DEF l
  <2>7. e = [k \in Keys |-> e[k]]  BY DEF Shaped
  <2> HIDE DEF e
  <2>8. LET s == [l EXCEPT !.env = e]
        IN  Shaped(s) /\ s.env = e /\ \A g \in DOMAIN Blank \ {"env"} : s[g] = l[g]
    BY <2>2, <2>7, EnvReplaced
  <2>9. QED  BY <1>2, <2>1, <2>2, <2>5, <2>8 DEF e, ImageLine
<1>3. CASE r.line = "bare"
  <2>1. ImageOf(r) = l  BY <1>3 DEF ImageOf
  <2>2. l = [r EXCEPT !.line = "image"]  OBVIOUS
  <2> HIDE DEF l
  <2>3. /\ Shaped(l) /\ l.line = "image" /\ l.env = r.env
        /\ \A g \in DOMAIN Blank \ {"line"} : l[g] = r[g]
    BY <2>2, LineReplaced
  <2>4. QED  BY <1>3, <2>1, <2>3 DEF ImageLine
<1>4. CASE r.line = "nested"
  <2> DEFINE b == [r EXCEPT !.line = "bare"]
  <2>1. ImageOf(r) = b  BY <1>4 DEF ImageOf
  <2>2. b = [r EXCEPT !.line = "bare"]  OBVIOUS
  <2> HIDE DEF b
  <2>3. /\ Shaped(b) /\ b.line = "bare" /\ b.env = r.env
        /\ \A g \in DOMAIN Blank \ {"line"} : b[g] = r[g]
    BY <2>2, LineReplaced
  <2>4. QED  BY <1>4, <2>1, <2>3 DEF ImageLine
<1>5. QED  BY <1>1, <1>2, <1>3, <1>4

LEMMA SwitchFields ==
    ASSUME NEW r, Shaped(r)
    PROVE  LET s == FilesOf(PinOf(RunArgsOf(OauthOf(r))))
           IN  /\ Shaped(s)
               /\ s.oauth = (r.oauth /\ r.runner = "remote")
               /\ s.runargs = (r.runargs /\ r.runner = "docker")
               /\ s.pin = (r.pin /\ r.runner = "uvx") /\ s.cwd = (r.cwd /\ r.runner \in Local)
               /\ s.doc = (r.doc /\ r.runner = "openapi")
               /\ \A g \in DOMAIN Blank \ {"oauth", "runargs", "pin", "cwd", "doc"} : s[g] = r[g]
<1> DEFINE Cleared == {"oauth", "runargs", "pin", "cwd", "doc"}
<1>1. /\ DOMAIN r = DOMAIN Blank /\ Cleared \subseteq DOMAIN Blank \ {"env", "runner"}
      /\ "runner" \in DOMAIN Blank /\ "env" \in DOMAIN Blank /\ Switches \subseteq DOMAIN Blank
  BY FieldNames, Zenon DEF Shaped, Switches
<1> DEFINE o == OauthOf(r)
<1>2. /\ DOMAIN o = DOMAIN Blank /\ o.oauth = (r.oauth /\ r.runner = "remote")
      /\ \A g \in DOMAIN Blank : g # "oauth" => o[g] = r[g]
  BY <1>1, FieldNames DEF OauthOf
<1> DEFINE a == RunArgsOf(o)
<1>3. /\ DOMAIN a = DOMAIN Blank /\ a.runargs = (o.runargs /\ o.runner = "docker")
      /\ \A g \in DOMAIN Blank : g # "runargs" => a[g] = o[g]
  <2> HIDE DEF o
  <2>1. QED  BY <1>2, FieldNames DEF RunArgsOf
<1> DEFINE p == PinOf(a)
<1>4. /\ DOMAIN p = DOMAIN Blank /\ p.pin = (a.pin /\ a.runner = "uvx")
      /\ \A g \in DOMAIN Blank : g # "pin" => p[g] = a[g]
  <2> HIDE DEF a
  <2>1. QED  BY <1>3, FieldNames DEF PinOf
<1> DEFINE c == [p EXCEPT !.cwd = p.cwd /\ p.runner \in Local]
           s == FilesOf(p)
<1>5. /\ DOMAIN s = DOMAIN Blank /\ s.cwd = (p.cwd /\ p.runner \in Local)
      /\ s.doc = (p.doc /\ p.runner = "openapi")
      /\ \A g \in DOMAIN Blank : g \notin {"cwd", "doc"} => s[g] = p[g]
  <2> HIDE DEF p
  <2>1. QED  BY <1>4, FieldNames DEF FilesOf
<1>6. s = [g \in DOMAIN Blank |-> s[g]]
  <2> HIDE DEF p
  <2>1. c.doc = p.doc  BY <1>4, FieldNames
  <2>2. s = [c EXCEPT !.doc = p.doc /\ p.runner = "openapi"]  BY <2>1 DEF FilesOf
  <2> HIDE DEF c, s
  <2>3. s = [g \in DOMAIN s |-> s[g]]  BY <2>2
  <2>4. QED  BY <1>5, <2>3
<1> HIDE DEF o, a, p, s
<1>7. o.runner = r.runner /\ a.runner = r.runner /\ p.runner = r.runner
  BY <1>1, <1>2, <1>3, <1>4
<1>8. /\ o.runargs = r.runargs /\ a.pin = r.pin /\ p.cwd = r.cwd /\ p.doc = r.doc
      /\ s.pin = p.pin /\ s.runargs = a.runargs /\ s.oauth = o.oauth
  BY <1>1, <1>2, <1>3, <1>4, <1>5
<1>9. \A g \in DOMAIN Blank \ Cleared : s[g] = r[g]  BY <1>2, <1>3, <1>4, <1>5
<1>10. /\ s.oauth = (r.oauth /\ r.runner = "remote") /\ s.runargs = (r.runargs /\ r.runner = "docker")
       /\ s.pin = (r.pin /\ r.runner = "uvx") /\ s.cwd = (r.cwd /\ r.runner \in Local)
       /\ s.doc = (r.doc /\ r.runner = "openapi")
  BY <1>2, <1>3, <1>4, <1>5, <1>7, <1>8
<1>11. s.env = r.env  BY <1>1, <1>9
<1>12. \A g \in Switches : s[g] \in BOOLEAN
  <2>1. \A g \in Switches \ Cleared : s[g] \in BOOLEAN  BY <1>1, <1>9 DEF Shaped
  <2>2. \A g \in Cleared : s[g] \in BOOLEAN  BY <1>10
  <2>3. QED  BY <2>1, <2>2
<1>13. Shaped(s)  BY <1>5, <1>6, <1>11, <1>12, ShapeKept
<1>14. QED  BY <1>9, <1>10, <1>13 DEF o, a, p, s

LEMMA ReclassifiedFields ==
    ASSUME NEW r, Shaped(r)
    PROVE  LET s == Reclassified(r)
           IN  /\ Shaped(s)
               /\ s.runner = IF r.runner \in Local /\ r.line \in Launchers THEN "docker" ELSE r.runner
               /\ \A g \in DOMAIN Blank \ {"runner"} : s[g] = r[g]
<1> DEFINE s == [r EXCEPT !.runner = "docker"]
<1>1. DOMAIN r = DOMAIN Blank  BY Zenon DEF Shaped
<1>2. /\ DOMAIN s = DOMAIN Blank /\ s = [g \in DOMAIN Blank |-> s[g]] /\ s.runner = "docker"
      /\ \A g \in DOMAIN Blank \ {"runner"} : s[g] = r[g]
  BY <1>1, FieldNames
<1> HIDE DEF s
<1>3. s.env = r.env /\ \A g \in Switches : s[g] \in BOOLEAN
  BY <1>2, FieldNames DEF Shaped, Switches
<1>4. Shaped(s)  BY <1>2, <1>3, ShapeKept
<1>5. QED  BY <1>2, <1>4 DEF Reclassified, s

LEMMA UrlFields ==
    ASSUME NEW r, Shaped(r)
    PROVE  LET s == UrlOf(r)
           IN  /\ Shaped(s)
               /\ s.line = IF r.runner \in Headers /\ r.line = "rawurl" THEN "url" ELSE r.line
               /\ \A g \in DOMAIN Blank \ {"line"} : s[g] = r[g]
<1> DEFINE s == [r EXCEPT !.line = "url"]
<1>1. DOMAIN r = DOMAIN Blank  BY Zenon DEF Shaped
<1>2. /\ DOMAIN s = DOMAIN Blank /\ s = [g \in DOMAIN Blank |-> s[g]] /\ s.line = "url"
      /\ \A g \in DOMAIN Blank \ {"line"} : s[g] = r[g]
  BY <1>1, FieldNames
<1> HIDE DEF s
<1>3. s.env = r.env /\ \A g \in Switches : s[g] \in BOOLEAN
  BY <1>2, FieldNames DEF Shaped, Switches
<1>4. Shaped(s)  BY <1>2, <1>3, ShapeKept
<1>5. QED  BY <1>2, <1>4 DEF UrlOf, s

\* Normalisation arrives at its normal form, and leaves it as it is but for a docker row
\* that is itself a docker run line.
LEMMA NormalFields ==
    ASSUME NEW r, Shaped(r)
    PROVE  /\ Shaped(Normal(r)) /\ NormalForm(Normal(r))
           /\ Normal(r).enabled = r.enabled
           /\ r.line = "badcli" /\ r.runner \in Local \cup {"docker"}
                 => Normal(r).runner = "docker" /\ Normal(r).line = "badcli"
           /\ NormalForm(r) =>
                 /\ Normal(r).line = IF ReadAgain(r) THEN "image" ELSE r.line
                 /\ \A g \in DOMAIN Blank \ {"line"} : Normal(r)[g] = r[g]
<1> DEFINE q == Reclassified(r)
           i == IF q.runner = "docker" THEN ImageOf(q) ELSE q
           u == UrlOf(i)
           n == FilesOf(PinOf(RunArgsOf(OauthOf(u))))
<1>1. n = Normal(r)  BY DEF Normal
<1>2. /\ Shaped(q)
      /\ q.runner = IF r.runner \in Local /\ r.line \in Launchers THEN "docker" ELSE r.runner
      /\ \A g \in DOMAIN Blank \ {"runner"} : q[g] = r[g]
  BY ReclassifiedFields
<1> HIDE DEF q
<1>3. /\ Shaped(i)
      /\ i.line = IF q.runner = "docker" THEN ImageLine(q.line) ELSE q.line
      /\ \A g \in DOMAIN Blank \ {"env", "line"} : i[g] = q[g]
      /\ (q.runner = "docker" /\ q.line = "cli") \/ i.env = q.env
  BY <1>2, ImageFields
<1> HIDE DEF i
<1>4. /\ Shaped(u)
      /\ u.line = IF i.runner \in Headers /\ i.line = "rawurl" THEN "url" ELSE i.line
      /\ \A g \in DOMAIN Blank \ {"line"} : u[g] = i[g]
  BY <1>3, UrlFields
<1> HIDE DEF u
<1>5. /\ Shaped(n)
      /\ n.oauth = (u.oauth /\ u.runner = "remote") /\ n.runargs = (u.runargs /\ u.runner = "docker")
      /\ n.pin = (u.pin /\ u.runner = "uvx") /\ n.cwd = (u.cwd /\ u.runner \in Local)
      /\ n.doc = (u.doc /\ u.runner = "openapi")
      /\ \A g \in DOMAIN Blank \ {"oauth", "runargs", "pin", "cwd", "doc"} : n[g] = u[g]
  BY <1>4, SwitchFields
<1> HIDE DEF n
<1>6. /\ n.runner = q.runner /\ u.runner = q.runner /\ i.runner = q.runner /\ n.line = u.line
      /\ q.line = r.line /\ n.env = u.env /\ u.env = i.env /\ q.env = r.env
      /\ n.enabled = r.enabled
  BY <1>2, <1>3, <1>4, <1>5, FieldNames
<1>7. NormalForm(n)
  <2>1. n.runner \in Local => n.line \notin Launchers
    BY <1>2, <1>3, <1>4, <1>6 DEF Local, Headers, Launchers
  <2>2. n.runner = "docker" => n.line \notin {"cli", "nested"}
    BY <1>3, <1>4, <1>6 DEF ImageLine, Headers
  <2>3. n.line = "rawurl" => n.runner \notin Headers
    BY <1>4, <1>6
  <2>4. QED  BY <2>1, <2>2, <2>3, <1>5, <1>6 DEF NormalForm
<1>8. ASSUME r.line = "badcli", r.runner \in Local \cup {"docker"}
      PROVE  n.runner = "docker" /\ n.line = "badcli"
  BY <1>2, <1>3, <1>4, <1>6, <1>8 DEF ImageLine, Launchers
<1>9. ASSUME NormalForm(r)
      PROVE  /\ n.line = IF ReadAgain(r) THEN "image" ELSE r.line
             /\ \A g \in DOMAIN Blank \ {"line"} : n[g] = r[g]
  <2>1. q.runner = r.runner /\ n.env = r.env
    BY <1>2, <1>3, <1>6, <1>9 DEF NormalForm
  <2>2. i.line = IF ReadAgain(r) THEN "image" ELSE r.line
    BY <2>1, <1>3, <1>6, <1>9 DEF NormalForm, ImageLine, ReadAgain
  <2>3. n.line = i.line
    BY <2>1, <2>2, <1>4, <1>6, <1>9 DEF NormalForm, ReadAgain
  <2>4. \A g \in DOMAIN Blank \ {"line"} : u[g] = r[g]
    BY <2>1, <1>2, <1>3, <1>4, <1>6
  <2>5. /\ n.oauth = r.oauth /\ n.runargs = r.runargs /\ n.pin = r.pin /\ n.cwd = r.cwd /\ n.doc = r.doc
    <3>1. /\ r.oauth \in BOOLEAN /\ r.runargs \in BOOLEAN /\ r.pin \in BOOLEAN /\ r.cwd \in BOOLEAN
          /\ r.doc \in BOOLEAN
      BY DEF Shaped, Switches
    <3>2. /\ u.oauth = r.oauth /\ u.runargs = r.runargs /\ u.pin = r.pin /\ u.cwd = r.cwd /\ u.doc = r.doc
          /\ u.runner = r.runner
      BY <2>4, FieldNames
    <3>3. QED  BY <3>1, <3>2, <1>5, <1>9 DEF NormalForm
  <2>6. \A g \in DOMAIN Blank \ {"line"} : n[g] = r[g]  BY <2>4, <2>5, <1>5
  <2>7. QED  BY <2>2, <2>3, <2>6
<1>10. QED  BY <1>1, <1>5, <1>6, <1>7, <1>8, <1>9

\* What a row must satisfy does not depend on its env but for the variables of the docker
\* CLI, nor on whether it is enabled or what it is called.
LEMMA EnvIsApart ==
    ASSUME NEW r, NEW s, \A f \in DOMAIN Blank \ {"name", "env", "enabled"} : r[f] = s[f]
    PROVE  /\ Fits(r) = Fits(s) /\ HostDocker(r) = HostDocker(s) /\ NormalForm(r) = NormalForm(s)
           /\ Target(r) = Target(s) /\ RunsCode(r) = RunsCode(s)
           /\ (r.env["PATH"] = Absent => s.env["PATH"] = Absent) => (EnvFits(r) => EnvFits(s))
<1>1. /\ r.runner = s.runner /\ r.line = s.line /\ r.cwd = s.cwd /\ r.setup = s.setup /\ r.repo = s.repo
      /\ r.post = s.post /\ r.check = s.check /\ r.doc = s.doc /\ r.runargs = s.runargs /\ r.pin = s.pin
      /\ r.oauth = s.oauth /\ r.serial = s.serial /\ r.attach = s.attach
  BY FieldNames
<1>2. Fits(r) = Fits(s)
  BY <1>1 DEF Fits, UrlFits, DocumentFits, ImageFits, Readable, ScriptsFit, CheckFits, PinFits,
     StderrFits
<1>3. HostDocker(r) = HostDocker(s) /\ NormalForm(r) = NormalForm(s)  BY <1>1 DEF HostDocker, NormalForm
<1>4. Target(r) = Target(s) /\ RunsCode(r) = RunsCode(s)  BY <1>1 DEF Target, RunsCode
<1>5. (r.env["PATH"] = Absent => s.env["PATH"] = Absent) => (EnvFits(r) => EnvFits(s))
  BY <1>1 DEF EnvFits
<1>6. QED  BY <1>2, <1>3, <1>4, <1>5

-----------------------------------------------------------------------------
(* What a write stores.                                                    *)

LEMMA ResolvedValues ==
    ASSUME NEW old, NEW sent, NEW secret, \A k \in Keys : StoredValue(old[k])
    PROVE  LET e == Resolved(old, sent, secret)
           IN  /\ e = [k \in Keys |-> e[k]]
               /\ \A k \in Keys :
                     /\ StoredValue(e[k]) /\ (sent[k] = Absent => e[k] = Absent)
                     /\ e[k] = IF k \in Kept(old, sent) THEN old[k]
                               ELSE IF sent[k] = Absent THEN Absent
                               ELSE IF k \in SecretAfter(old, sent, secret) THEN Sealed(Text(sent[k]))
                               ELSE Plain(Text(sent[k]))
<1> DEFINE e == Resolved(old, sent, secret)
<1>1. ASSUME NEW k \in Keys
      PROVE  e[k] = IF k \in Kept(old, sent) THEN old[k]
                    ELSE IF sent[k] = Absent THEN Absent
                    ELSE IF k \in SecretAfter(old, sent, secret) THEN Sealed(Text(sent[k]))
                    ELSE Plain(Text(sent[k]))
  <2>1. CASE k \in Kept(old, sent)
    <3>1. sent[k] # Absent  BY <2>1, Values DEF Kept
    <3>2. QED  BY <2>1, <3>1 DEF Resolved
  <2>2. CASE k \notin Kept(old, sent) /\ sent[k] = Absent  BY <2>2 DEF Resolved
  <2>3. CASE k \notin Kept(old, sent) /\ sent[k] # Absent  BY <2>3 DEF Resolved
  <2>4. QED  BY <2>1, <2>2, <2>3
<1>4. e = [k \in Keys |-> e[k]]  BY DEF Resolved
<1> HIDE DEF e
<1>2. \A k \in Keys : StoredValue(e[k])  BY <1>1, Values DEF StoredValue
<1>3. \A k \in Keys : sent[k] = Absent => e[k] = Absent  BY <1>1, Values DEF Kept
<1>5. QED  BY <1>1, <1>2, <1>3, <1>4 DEF e

\* A request's fields have their types.
Typed(sent) ==
    /\ \A f \in Switches \cap DOMAIN sent : sent[f] \in BOOLEAN
    /\ "env" \in DOMAIN sent => sent.env = [k \in Keys |-> sent.env[k]]

LEMMA RequestsTyped == \A sent \in Creates \cup Changes : Typed(sent)
BY ConfigAssumptions DEF Typed

LEMMA CreatedSound ==
    ASSUME NEW sent, Typed(sent), Creatable(sent)
    PROVE  LET new == Created(sent)
           IN  /\ Holds(new) /\ Sound(new)
               /\ new.enabled = (IF "enabled" \in DOMAIN sent THEN sent.enabled ELSE FALSE)
               /\ new.runner = "docker" /\ new.enabled => gate
<1> DEFINE m == Merged(Blank, sent)
           r == Normal(m)
           e == Resolved(Blank.env, r.env, SecretOf(sent))
           new == [r EXCEPT !.env = e]
<1>1. Shaped(Blank) /\ \A k \in Keys : StoredValue(Blank.env[k])  BY BlankHolds DEF Holds
<1>2. Shaped(m) /\ m.enabled = IF "enabled" \in DOMAIN sent THEN sent.enabled ELSE Blank.enabled
  BY <1>1, MergedShaped, FieldNames DEF Typed
<1>3. Shaped(r) /\ NormalForm(r) /\ r.enabled = m.enabled  BY <1>2, NormalFields
<1>4. e = [k \in Keys |-> e[k]] /\ \A k \in Keys : StoredValue(e[k]) /\ (r.env[k] = Absent => e[k] = Absent)
  BY <1>1, ResolvedValues
<1>5. Fits(r) /\ EnvFits(r) /\ (r.enabled => (r.runner = "docker" => gate))
  BY DEF Creatable
<1>6. Created(sent) = new  BY DEF Created
<1> HIDE DEF m, r, e
<1>7. Shaped(new) /\ new.env = e /\ \A g \in DOMAIN Blank \ {"env"} : new[g] = r[g]
  BY <1>3, <1>4, EnvReplaced
<1> HIDE DEF new
<1>8. /\ Fits(r) = Fits(new) /\ NormalForm(r) = NormalForm(new) /\ EnvFits(new)
  <2>1. r.env["PATH"] = Absent => new.env["PATH"] = Absent  BY <1>4, <1>7, FieldNames
  <2>2. \A g \in DOMAIN Blank \ {"name", "env", "enabled"} : r[g] = new[g]  BY <1>7
  <2>3. QED  BY <2>1, <2>2, <1>5, EnvIsApart
<1>9. new.enabled = r.enabled /\ new.runner = r.runner  BY <1>7, FieldNames
<1>10. Blank.enabled = FALSE  BY DEF Blank
<1>11. QED
  BY <1>2, <1>3, <1>4, <1>5, <1>6, <1>7, <1>8, <1>9, <1>10 DEF Holds, Sound

LEMMA EditedShaped ==
    ASSUME NEW old, Shaped(old), NEW sent, Typed(sent)
    PROVE  /\ Shaped(Edited(old, sent)) /\ NormalForm(Edited(old, sent))
           /\ "enabled" \notin DOMAIN sent => Edited(old, sent).enabled = old.enabled
<1> DEFINE m == Merged(old, sent)
           s == [m EXCEPT !.post = ""]
<1>1. Shaped(m) /\ ("enabled" \notin DOMAIN sent => m.enabled = old.enabled)
  BY MergedShaped, FieldNames DEF Typed
<1> HIDE DEF m
<1>2. DOMAIN m = DOMAIN Blank  BY <1>1, Zenon DEF Shaped
<1>3. /\ DOMAIN s = DOMAIN Blank /\ s = [g \in DOMAIN Blank |-> s[g]]
      /\ \A g \in DOMAIN Blank : g # "post" => s[g] = m[g]
  BY <1>2
<1> HIDE DEF s
<1>4. s.env = m.env /\ s.enabled = m.enabled /\ \A g \in Switches : s[g] \in BOOLEAN
  BY <1>1, <1>3, FieldNames DEF Shaped, Switches
<1>5. Shaped(s)  BY <1>1, <1>3, <1>4, ShapeKept
<1>6. Edited(old, sent) \in {Normal(s), Normal(m)}  BY DEF Edited, m, s
<1>7. QED  BY <1>1, <1>4, <1>5, <1>6, NormalFields

LEMMA UpdatedSound ==
    ASSUME NEW old, Holds(old), NEW sent, Typed(sent), Editable(old, sent)
    PROVE  LET new == Updated(old, sent)
               r == Edited(old, sent)
           IN  /\ Holds(new) /\ Sound(new)
               /\ \A g \in DOMAIN Blank \ {"env"} : new[g] = r[g]
               /\ new.env = Resolved(old.env, r.env, SecretOf(sent))
<1> DEFINE r == Edited(old, sent)
           e == Resolved(old.env, r.env, SecretOf(sent))
           new == [r EXCEPT !.env = e]
<1>1. Shaped(r) /\ NormalForm(r)  BY EditedShaped DEF Holds
<1>2. e = [k \in Keys |-> e[k]] /\ \A k \in Keys : StoredValue(e[k]) /\ (r.env[k] = Absent => e[k] = Absent)
  BY ResolvedValues DEF Holds
<1>3. Fits(r) /\ EnvFits(r)  BY DEF Editable
<1>4. Updated(old, sent) = new  BY DEF Updated
<1> HIDE DEF r, e
<1>5. Shaped(new) /\ new.env = e /\ \A g \in DOMAIN Blank \ {"env"} : new[g] = r[g]
  BY <1>1, <1>2, EnvReplaced
<1> HIDE DEF new
<1>6. /\ Fits(r) = Fits(new) /\ NormalForm(r) = NormalForm(new) /\ EnvFits(new)
  <2>1. r.env["PATH"] = Absent => new.env["PATH"] = Absent  BY <1>2, <1>5, FieldNames
  <2>2. \A g \in DOMAIN Blank \ {"name", "env", "enabled"} : r[g] = new[g]  BY <1>5
  <2>3. QED  BY <2>1, <2>2, <1>3, EnvIsApart
<1>7. new.enabled = r.enabled  BY <1>5, FieldNames
<1>8. QED  BY <1>1, <1>2, <1>3, <1>4, <1>5, <1>6, <1>7 DEF Holds, Sound, r, e

\* The boot conversion of a docker row, or of one that is to be.
LEMMA ConvertedFields ==
    ASSUME NEW r, Holds(r), Converted(r) # r
    PROVE  LET c == Converted(r)
           IN  /\ Holds(c) /\ c.runner = "docker" /\ c.cwd = FALSE /\ c.env["PATH"] = Absent
               /\ Readable(r) /\ c.line = ImageLine(r.line)
               /\ \A g \in DOMAIN Blank \ {"runner", "line", "cwd", "env"} : c[g] = r[g]
               /\ \A k \in Keys : \/ c.env[k] = r.env[k]
                                  \/ k = "PATH" /\ c.env[k] = Absent
                                  \/ r.line = "cli" /\ c.env[k] = Plain("b")
<1> DEFINE i == ImageOf(r)
           d == [i EXCEPT !.runner = "docker"]
           f == [d EXCEPT !.cwd = FALSE]
           e == [i.env EXCEPT !["PATH"] = Absent]
           c == [f EXCEPT !.env = e]
<1>1. Readable(r)
      /\ Converted(r) = [i EXCEPT !.runner = "docker", !.cwd = FALSE, !.env["PATH"] = Absent]
  BY DEF Converted
<1>2. /\ Shaped(i) /\ i.line = ImageLine(r.line)
      /\ \A g \in DOMAIN Blank \ {"env", "line"} : i[g] = r[g]
      /\ i.env = IF r.line # "cli" THEN r.env
                 ELSE [r.env EXCEPT !["K"] = IF @ = Absent THEN Plain("b") ELSE @]
  BY ImageFields DEF Holds
<1> HIDE DEF i
<1>3. DOMAIN i = DOMAIN Blank  BY <1>2, Zenon DEF Shaped
<1>4. /\ DOMAIN d = DOMAIN Blank /\ d.runner = "docker"
      /\ \A g \in DOMAIN Blank \ {"runner"} : d[g] = i[g]
  BY <1>3, FieldNames
<1>5. /\ DOMAIN f = DOMAIN Blank /\ f.runner = "docker" /\ f.cwd = FALSE
      /\ f = [g \in DOMAIN Blank |-> f[g]]
      /\ \A g \in DOMAIN Blank \ {"runner", "cwd"} : f[g] = i[g]
  <2> HIDE DEF d
  <2>1. DOMAIN f = DOMAIN Blank /\ f.cwd = FALSE /\ \A g \in DOMAIN Blank \ {"cwd"} : f[g] = d[g]
    BY <1>4, FieldNames
  <2>2. f = [g \in DOMAIN f |-> f[g]]  OBVIOUS
  <2> HIDE DEF f
  <2>3. QED  BY <1>4, <2>1, <2>2, FieldNames
<1>6. Converted(r) = c
  <2>1. f.env = i.env  BY <1>5, FieldNames
  <2>2. Converted(r) = [f EXCEPT !.env["PATH"] = Absent]  BY <1>1
  <2> HIDE DEF f
  <2>3. QED  BY <2>1, <2>2
<1> HIDE DEF f
<1>7. f.env = i.env /\ \A g \in Switches : f[g] \in BOOLEAN
  BY <1>2, <1>5, FieldNames DEF Switches, Shaped
<1>8. Shaped(f)  BY <1>2, <1>5, <1>7, ShapeKept
<1>9. /\ DOMAIN i.env = Keys /\ e = [k \in Keys |-> e[k]] /\ e["PATH"] = Absent
      /\ \A k \in Keys : k # "PATH" => e[k] = i.env[k]
  <2>1. i.env = [k \in Keys |-> i.env[k]]  BY <1>2, Zenon DEF Shaped
  <2>2. "PATH" \in Keys  BY FieldNames
  <2>3. QED  BY <2>1, <2>2
<1>10. \A k \in Keys : i.env[k] = r.env[k] \/ (r.line = "cli" /\ i.env[k] = Plain("b"))
  <2>1. r.env = [k \in Keys |-> r.env[k]]  BY Zenon DEF Holds, Shaped
  <2>2. QED  BY <1>2, <2>1
<1> HIDE DEF e
<1>11. /\ Shaped(c) /\ c.env = e /\ \A g \in DOMAIN Blank \ {"env"} : c[g] = f[g]
  BY <1>8, <1>9, EnvReplaced
<1> HIDE DEF c
<1>12. \A k \in Keys : \/ c.env[k] = r.env[k]
                       \/ k = "PATH" /\ c.env[k] = Absent
                       \/ r.line = "cli" /\ c.env[k] = Plain("b")
  BY <1>9, <1>10, <1>11
<1>13. \A k \in Keys : StoredValue(c.env[k])
  BY <1>12, Values DEF StoredValue, Holds
<1>14. /\ c.runner = "docker" /\ c.cwd = FALSE /\ c.line = ImageLine(r.line)
       /\ \A g \in DOMAIN Blank \ {"runner", "line", "cwd", "env"} : c[g] = r[g]
  BY <1>2, <1>5, <1>11, FieldNames
<1>15. QED  BY <1>1, <1>6, <1>9, <1>11, <1>12, <1>13, <1>14 DEF Holds

\* Rows of an older release, as they are and as the boot conversion leaves them.
LEMMA LegacyRows ==
    ASSUME NEW r \in Legacy
    PROVE  /\ Holds(r) /\ Holds(Converted(r))
           /\ Sound(Converted(r)) \/ (Unread(r) /\ Converted(r) = r)
           /\ \A k \in Keys : ~IsSealed(r.env[k]) /\ ~IsSealed(Converted(r).env[k])
<1>2. PICK runner \in Local \cup {"docker"}, line \in Launchers \cup {"plain", "wrapped"},
           cwd \in BOOLEAN, env \in OldEnvs, enabled \in BOOLEAN :
          r = Pasted(runner, line, cwd, env, enabled)
  BY DEF Legacy
<1>1. /\ DOMAIN r = DOMAIN Blank /\ r.runner = runner /\ r.line = line /\ r.cwd = cwd
      /\ r.enabled = enabled /\ r.env = env
      /\ \A g \in DOMAIN Blank \ {"runner", "line", "cwd", "enabled", "env"} : r[g] = Blank[g]
  BY <1>2, FieldNames DEF Pasted
<1>3. /\ env = [k \in Keys |-> env[k]]
      /\ \A k \in Keys : env[k] \in {Absent, Plain("a")}
  <2>1. Blank.env = [k \in Keys |-> Absent]  BY DEF Blank
  <2>2. QED  BY <2>1 DEF OldEnvs
<1>4. r = [g \in DOMAIN Blank |-> r[g]]
  <2> DEFINE s == [Blank EXCEPT !.runner = runner, !.line = line, !.cwd = cwd, !.env = env]
  <2>1. r = [s EXCEPT !.enabled = enabled]  BY <1>2 DEF Pasted
  <2> HIDE DEF s
  <2>2. r = [g \in DOMAIN r |-> r[g]]  BY <2>1
  <2>3. QED  BY <1>1, <2>2
<1>5. \A g \in Switches : r[g] \in BOOLEAN
  BY <1>1, FieldNames, BlankHolds DEF Switches, Holds, Shaped
<1>6. Shaped(r)  BY <1>1, <1>3, <1>4, <1>5 DEF Shaped
<1>7. Holds(r) /\ \A k \in Keys : ~IsSealed(r.env[k])
  BY <1>1, <1>3, <1>6, Values DEF Holds, StoredValue
<1>8. /\ r.setup = "" /\ r.repo = FALSE /\ r.post = "" /\ r.check = "" /\ r.doc = FALSE
      /\ r.runargs = FALSE /\ r.pin = FALSE /\ r.oauth = FALSE /\ r.attach = FALSE
  <2>1. /\ Blank.setup = "" /\ Blank.repo = FALSE /\ Blank.post = "" /\ Blank.check = ""
        /\ Blank.doc = FALSE /\ Blank.runargs = FALSE /\ Blank.pin = FALSE /\ Blank.oauth = FALSE
        /\ Blank.attach = FALSE
    BY DEF Blank
  <2>2. \A g \in DOMAIN Blank \ {"runner", "line", "cwd", "enabled", "env"} : r[g] = Blank[g]
    BY <1>1
  <2>3. QED  BY <2>1, <2>2, FieldNames
<1>9. CASE line = "badcli"
  <2>1. Converted(r) = r  BY <1>1, <1>9 DEF Converted, Readable
  <2>2. Unread(r)  BY <1>1, <1>7, <1>9 DEF Unread
  <2>3. QED  BY <1>7, <2>1, <2>2
<1>10. CASE line # "badcli" /\ Converted(r) = r
  <2>1. line # ""  BY DEF Launchers
  <2>2. runner \in Local => line \in {"plain", "wrapped"} \/ runner = "docker"
    <3>1. CASE runner \in Local /\ line \in Launchers
      <4>1. Readable(r)  BY <1>1, <1>10, <2>1 DEF Readable
      <4>2. Converted(r) = [ImageOf(r) EXCEPT !.runner = "docker", !.cwd = FALSE,
                                              !.env["PATH"] = Absent]
        BY <1>1, <3>1, <4>1 DEF Converted
      <4>3. DOMAIN ImageOf(r) = DOMAIN Blank  BY <1>6, ImageFields, Zenon DEF Shaped
      <4>4. Converted(r).runner = "docker"  BY <4>2, <4>3, FieldNames
      <4>5. QED  BY <1>1, <1>10, <4>4
    <3>2. QED  BY <3>1
  <2>3. runner = "docker" => r.cwd = FALSE /\ r.env["PATH"] = Absent /\ line \notin {"cli", "nested"}
    <3>1. SUFFICES ASSUME runner = "docker"
                   PROVE r.cwd = FALSE /\ r.env["PATH"] = Absent /\ line \notin {"cli", "nested"}
      OBVIOUS
    <3>2. Converted(r) = [ImageOf(r) EXCEPT !.runner = "docker", !.cwd = FALSE,
                                            !.env["PATH"] = Absent]
      BY <1>1, <1>10, <2>1, <3>1 DEF Converted, Readable
    <3> DEFINE i == ImageOf(r)
               w == [i EXCEPT !.runner = "docker", !.cwd = FALSE]
    <3>3. Shaped(i) /\ i.line = ImageLine(line)  BY <1>1, <1>6, ImageFields
    <3> HIDE DEF i
    <3>4. DOMAIN i = DOMAIN Blank /\ DOMAIN i.env = Keys  BY <3>3, Zenon DEF Shaped
    <3>5. w.cwd = FALSE /\ w.line = i.line /\ w.env = i.env /\ DOMAIN w = DOMAIN Blank
      BY <3>4, FieldNames
    <3>6. r = [w EXCEPT !.env["PATH"] = Absent]  BY <1>10, <3>2 DEF i
    <3> HIDE DEF w
    <3>7. r.cwd = w.cwd /\ r.line = w.line /\ r.env["PATH"] = Absent
      BY <3>4, <3>5, <3>6, FieldNames
    <3>8. QED  BY <1>1, <3>3, <3>5, <3>7 DEF ImageLine
  <2>4. line \notin {"", "rawurl"}  BY DEF Launchers
  <2>5. r.runner \in {"command", "uvx", "docker"}  BY <1>1 DEF Local
  <2>6. NormalForm(r)
    <3>1. r.runner \in Local => r.line \notin Launchers
      BY <1>1, <2>2 DEF Launchers, Local
    <3>2. r.cwd => r.runner \in Local  BY <1>1, <2>3, <2>5 DEF Local
    <3>3. r.runner = "docker" => r.line \notin {"cli", "nested"}  BY <1>1, <2>3
    <3>4. QED  BY <1>1, <1>8, <2>4, <3>1, <3>2, <3>3 DEF NormalForm
  <2>7. Fits(r)
    BY <1>1, <1>8, <1>10, <2>4, <2>5 DEF Local, Headers, Fits, UrlFits, DocumentFits, ImageFits,
       Readable, ScriptsFit, CheckFits, PinFits, StderrFits
  <2>8. EnvFits(r)  BY <1>1, <2>3 DEF EnvFits
  <2>9. QED  BY <1>7, <1>10, <2>6, <2>7, <2>8 DEF Sound
<1>11. CASE Converted(r) # r
  <2> DEFINE c == Converted(r)
  <2>1. /\ Holds(c) /\ c.runner = "docker" /\ c.cwd = FALSE /\ c.env["PATH"] = Absent
        /\ Readable(r) /\ c.line = ImageLine(r.line)
        /\ \A g \in DOMAIN Blank \ {"runner", "line", "cwd", "env"} : c[g] = r[g]
        /\ \A k \in Keys : c.env[k] \in {r.env[k], Absent, Plain("b")}
    BY <1>7, <1>11, ConvertedFields
  <2> HIDE DEF c
  <2>2. \A k \in Keys : ~IsSealed(c.env[k])  BY <1>7, <2>1, Values
  <2>3. /\ c.setup = "" /\ c.repo = FALSE /\ c.post = "" /\ c.check = "" /\ c.doc = FALSE
        /\ c.runargs = FALSE /\ c.pin = FALSE /\ c.oauth = FALSE /\ c.attach = FALSE
    BY <1>8, <2>1, FieldNames
  <2>4. c.line \notin {"", "badcli", "cli", "nested", "rawurl"}
    BY <1>1, <2>1 DEF Readable, ImageLine, Launchers
  <2>5. NormalForm(c) /\ EnvFits(c)
    BY <2>1, <2>3, <2>4 DEF NormalForm, EnvFits, Local, Headers
  <2>6. Fits(c)
    BY <2>1, <2>3, <2>4 DEF Local, Headers, Fits, UrlFits, DocumentFits, ImageFits, Readable,
       ScriptsFit, CheckFits, PinFits, StderrFits
  <2>7. QED  BY <1>7, <2>1, <2>2, <2>5, <2>6 DEF Sound, c
<1>12. QED  BY <1>9, <1>10, <1>11

-----------------------------------------------------------------------------
(* The rows, step by step.                                                 *)

\* The boot conversion leaves what the writes store as it is, but for a docker row that
\* is itself a docker run line.
LEMMA ConvertedOnce ==
    ASSUME NEW r, Holds(r), Sound(r)
    PROVE  LET c == Converted(r)
           IN  /\ Holds(c) /\ Sound(c) /\ c.env = r.env
               /\ c.line = IF ReadAgain(r) THEN "image" ELSE r.line
               /\ \A g \in DOMAIN Blank \ {"line"} : c[g] = r[g]
<1> DEFINE c == Converted(r)
<1>1. CASE c = r
  <2>1. ~ReadAgain(r)
    <3>1. SUFFICES ASSUME ReadAgain(r) PROVE FALSE
      OBVIOUS
    <3>2. c = [ImageOf(r) EXCEPT !.runner = "docker", !.cwd = FALSE, !.env["PATH"] = Absent]
      BY <3>1 DEF Converted, Readable, ReadAgain
    <3>3. ImageOf(r) = [r EXCEPT !.line = "image"]  BY <3>1 DEF ImageOf, ReadAgain
    <3>4. DOMAIN r = DOMAIN Blank  BY Zenon DEF Holds, Shaped
    <3>5. c.line = "image"  BY <3>2, <3>3, <3>4, FieldNames
    <3>6. QED  BY <1>1, <3>1, <3>5 DEF ReadAgain
  <2>2. QED  BY <1>1, <2>1
<1>2. CASE c # r
  <2>1. /\ Holds(c) /\ c.runner = "docker" /\ c.cwd = FALSE /\ c.env["PATH"] = Absent
        /\ Readable(r) /\ c.line = ImageLine(r.line)
        /\ \A g \in DOMAIN Blank \ {"runner", "line", "cwd", "env"} : c[g] = r[g]
        /\ \A k \in Keys : \/ c.env[k] = r.env[k]
                           \/ k = "PATH" /\ c.env[k] = Absent
                           \/ r.line = "cli" /\ c.env[k] = Plain("b")
    BY <1>2, ConvertedFields
  <2>2. r.runner = "docker"
    <3>1. r.runner \in Local \cup {"docker"} /\ (r.runner = "docker" \/ r.line \in Launchers)
      BY <1>2 DEF Converted
    <3>2. QED  BY <3>1 DEF Sound, NormalForm
  <2> HIDE DEF c
  <2>3. r.cwd = FALSE /\ r.line \notin {"cli", "nested"} /\ r.env["PATH"] = Absent
    BY <2>2 DEF Sound, NormalForm, EnvFits, Local, Holds, Shaped, Switches
  <2>4. \A k \in Keys : c.env[k] = r.env[k]  BY <2>1, <2>3
  <2>5. c.env = r.env  BY <2>1, <2>4, Zenon DEF Holds, Shaped
  <2>6. c.line = IF ReadAgain(r) THEN "image" ELSE r.line  BY <2>1, <2>2, <2>3 DEF ImageLine, ReadAgain
  <2>7. \A g \in DOMAIN Blank \ {"line"} : c[g] = r[g]  BY <2>1, <2>2, <2>3, <2>5
  <2>8. c.line \notin {"", "badcli"}  BY <2>1, <2>3, <2>6 DEF Readable
  <2>9. /\ c.runner = "docker" /\ c.cwd = FALSE /\ c.setup = r.setup /\ c.repo = r.repo
        /\ c.post = r.post /\ c.check = r.check /\ c.doc = r.doc /\ c.runargs = r.runargs
        /\ c.pin = r.pin /\ c.oauth = r.oauth /\ c.serial = r.serial /\ c.attach = r.attach
    BY <2>1, FieldNames
  <2>10. NormalForm(c)
    BY <2>2, <2>6, <2>3, <2>9 DEF NormalForm, Sound, Local, Headers
  <2>11. Fits(c)
    <3>1. c.pin = FALSE
      BY <2>2, <2>9 DEF Sound, NormalForm, Holds, Shaped, Switches
    <3>2. QED
      BY <2>2, <2>8, <2>9, <3>1 DEF Sound, Fits, UrlFits, DocumentFits, ImageFits, Readable,
         ScriptsFit, CheckFits, PinFits, StderrFits, Headers
  <2>12. QED  BY <2>1, <2>5, <2>6, <2>7, <2>10, <2>11 DEF Sound, EnvFits, c
<1>3. QED  BY <1>1, <1>2

LEMMA EnabledOnly ==
    ASSUME NEW r, Holds(r), NEW on \in BOOLEAN
    PROVE  LET s == [r EXCEPT !.enabled = on]
           IN  /\ Holds(s) /\ s.enabled = on /\ HashOf(s) = HashOf(r)
               /\ \A g \in DOMAIN Blank \ {"enabled"} : s[g] = r[g]
<1> DEFINE s == [r EXCEPT !.enabled = on]
<1>1. DOMAIN r = DOMAIN Blank  BY Zenon DEF Holds, Shaped
<1>2. /\ DOMAIN s = DOMAIN Blank /\ s = [g \in DOMAIN Blank |-> s[g]] /\ s.enabled = on
      /\ \A g \in DOMAIN Blank \ {"enabled"} : s[g] = r[g]
  BY <1>1, FieldNames
<1> HIDE DEF s
<1>3. s.env = r.env /\ \A g \in Switches : s[g] \in BOOLEAN
  BY <1>2, FieldNames DEF Holds, Shaped, Switches
<1>4. Holds(s)  BY <1>2, <1>3, ShapeKept DEF Holds
<1>5. HashOf(s) = HashOf(r)
  <2>1. /\ s.runner = r.runner /\ s.line = r.line /\ s.runargs = r.runargs /\ s.cwd = r.cwd
        /\ s.setup = r.setup /\ s.pin = r.pin /\ s.serial = r.serial /\ s.oauth = r.oauth
        /\ s.repo = r.repo /\ s.post = r.post /\ s.doc = r.doc /\ s.attach = r.attach
    BY <1>2, FieldNames
  <2>2. QED  BY <1>3, <2>1 DEF HashOf
<1>6. QED  BY <1>2, <1>4, <1>5 DEF s

Entry(sent) ==
    [line |-> sent.line, runner |-> InferredRunner(sent.line),
     env |-> IF "env" \in DOMAIN sent THEN sent.env ELSE Blank.env]
Copied ==
    [f \in Fields \cup {"secret"} |->
        CASE f = "secret" -> SecretKeys(row.env)
          [] f = "name" -> "copy"
          [] f = "env" -> [k \in Keys |-> IF row.env[k] = Absent THEN Absent
                                          ELSE Plain(Text(row.env[k]))]
          [] OTHER -> row[f]]

LEMMA EntryTyped ==
    ASSUME NEW sent \in Creates
    PROVE  Typed(Entry(sent))
<1>1. Blank.env = [k \in Keys |-> Blank.env[k]]  BY BlankHolds DEF Holds, Shaped
<1>2. "env" \in DOMAIN sent => sent.env = [k \in Keys |-> sent.env[k]]  BY RequestsTyped DEF Typed
<1>3. Switches \cap DOMAIN Entry(sent) = {}  BY DEF Entry, Switches
<1>4. Entry(sent).env = IF "env" \in DOMAIN sent THEN sent.env ELSE Blank.env  BY DEF Entry
<1>5. QED  BY <1>1, <1>2, <1>3, <1>4 DEF Typed

LEMMA CopyFields ==
    ASSUME Holds(row)
    PROVE  /\ Typed(Copied) /\ "enabled" \notin DOMAIN Copied
           /\ \A f \in DOMAIN Blank \ {"name", "env", "enabled"} :
                 f \in DOMAIN Copied /\ Copied[f] = row[f]
           /\ "env" \in DOMAIN Copied
           /\ \A k \in Keys : Copied.env[k] = IF row.env[k] = Absent THEN Absent
                                              ELSE Plain(Text(row.env[k]))
           /\ SecretOf(Copied) = SecretKeys(row.env)
<1> DEFINE e == [k \in Keys |-> IF row.env[k] = Absent THEN Absent ELSE Plain(Text(row.env[k]))]
<1>1. /\ DOMAIN Copied = (DOMAIN Blank \ {"enabled"}) \cup {"secret"}
      /\ "secret" \notin DOMAIN Blank /\ "env" \in DOMAIN Blank /\ "env" # "enabled"
  BY FieldNames DEF Copied, Fields
<1>2. Copied.secret = SecretKeys(row.env) /\ Copied.env = e  BY <1>1 DEF Copied, Fields
<1>3. \A f \in DOMAIN Blank \ {"name", "env", "enabled"} : Copied[f] = row[f]
  BY <1>1 DEF Copied, Fields
<1>4. \A f \in Switches \cap DOMAIN Copied : Copied[f] \in BOOLEAN
  BY <1>1, <1>3, FieldNames DEF Holds, Shaped, Switches
<1>5. Typed(Copied)  BY <1>2, <1>4 DEF Typed
<1>6. QED  BY <1>1, <1>2, <1>3, <1>5 DEF SecretOf

LEMMA RowsStay ==
    ASSUME RowInv, [ConfigNext]_configVars
    PROVE  RowInv'
<1>1. ASSUME NEW sent \in Creates, Create(sent) PROVE RowInv'
  <2>1. Typed(sent)  BY <1>1, RequestsTyped
  <2>2. Holds(Created(sent)) /\ Sound(Created(sent))  BY <1>1, <2>1, CreatedSound DEF Create
  <2>3. row' = Created(sent) /\ hash' = HashOf(row')  BY <1>1 DEF Create, Stores
  <2>4. QED  BY <2>2, <2>3 DEF RowInv
<1>2. ASSUME NEW sent \in Creates, Import(sent) PROVE RowInv'
  <2>1. Creatable(Entry(sent)) /\ row' = Created(Entry(sent)) /\ hash' = HashOf(row')
    BY <1>2 DEF Import, Stores, Entry
  <2>2. Typed(Entry(sent))  BY EntryTyped
  <2>3. Holds(row') /\ Sound(row')  BY <2>1, <2>2, CreatedSound
  <2>4. QED  BY <2>1, <2>3 DEF RowInv
<1>3. ASSUME NEW sent \in Changes, Update(sent) PROVE RowInv'
  <2>1. Typed(sent) /\ Holds(row) /\ Editable(row, sent)
    BY <1>3, RequestsTyped DEF Update, RowInv
  <2>2. row' = Updated(row, sent) /\ hash' = HashOf(row')  BY <1>3 DEF Update, Stores
  <2>3. Holds(row') /\ Sound(row')  BY <2>1, <2>2, UpdatedSound
  <2>4. QED  BY <2>2, <2>3 DEF RowInv
<1>4. CASE Clone
  <2>1. Creatable(Copied) /\ row' = Created(Copied) /\ hash' = HashOf(row') /\ Holds(row)
    BY <1>4 DEF Clone, Stores, Copied, RowInv
  <2>2. Holds(row') /\ Sound(row')  BY <2>1, CopyFields, CreatedSound
  <2>3. QED  BY <2>1, <2>2 DEF RowInv
<1>5. CASE Delete  BY <1>5 DEF Delete, RowInv, Stored
<1>6. ASSUME NEW on \in BOOLEAN, SetEnabled(on) PROVE RowInv'
  <2>1. /\ Holds(row) /\ (Sound(row) \/ Unread(row)) /\ hash = HashOf(row) /\ booted
        /\ row' = [row EXCEPT !.enabled = on] /\ hash' = hash
    BY <1>6 DEF SetEnabled, Edits, RowInv
  <2>2. /\ Holds(row') /\ row'.enabled = on /\ HashOf(row') = HashOf(row)
        /\ \A g \in DOMAIN Blank \ {"enabled"} : row'[g] = row[g]
    BY <2>1, EnabledOnly
  <2>3. row'.env = row.env /\ row'.runner = row.runner /\ row'.line = row.line  BY <2>2, FieldNames
  <2>4. Fits(row') = Fits(row) /\ NormalForm(row') = NormalForm(row)
    BY <2>2, EnvIsApart
  <2>5. Sound(row') \/ Unread(row')  BY <2>1, <2>3, <2>4 DEF Sound, Unread, EnvFits
  <2>6. QED  BY <2>1, <2>2, <2>5 DEF RowInv
<1>7. CASE BootConversion
  <2>1. CASE Stored /\ (Converted(row) # row \/ hash = Never)
    <3>1. row' = Converted(row) /\ hash' = HashOf(row')  BY <1>7, <2>1 DEF BootConversion, Stores
    <3>2. Holds(row') /\ (Sound(row') \/ Unread(row'))
      <4>1. CASE Sound(row)  BY <2>1, <3>1, <4>1, ConvertedOnce DEF RowInv
      <4>2. CASE row \in Legacy  BY <3>1, <4>2, LegacyRows
      <4>3. CASE Unread(row)
        <5>1. Converted(row) = row  BY <4>3 DEF Unread, Converted, Readable
        <5>2. QED  BY <2>1, <3>1, <4>3, <5>1 DEF RowInv
      <4>4. QED  BY <2>1, <4>1, <4>2, <4>3 DEF RowInv
    <3>3. QED  BY <3>1, <3>2 DEF RowInv
  <2>2. CASE Stored /\ Converted(row) = row /\ hash # Never
    <3>1. row' = row /\ hash' = hash  BY <1>7, <2>2 DEF BootConversion
    <3>2. Holds(row) /\ (Sound(row) \/ Unread(row)) /\ hash = HashOf(row)
      BY <2>2, LegacyRows DEF RowInv
    <3>3. QED  BY <3>1, <3>2 DEF RowInv
  <2>3. CASE ~Stored  BY <1>7, <2>3 DEF BootConversion, RowInv, Stored
  <2>4. QED  BY <2>1, <2>2, <2>3
<1>8. CASE Toggle \/ Restart \/ Pass \/ UNCHANGED configVars
  <2>1. row' = row /\ hash' = hash /\ (booted' => booted)
    BY <1>8 DEF Toggle, Restart, Pass, configVars
  <2>2. QED  BY <2>1 DEF RowInv, Stored
<1>9. QED
  BY <1>1, <1>2, <1>3, <1>4, <1>5, <1>6, <1>7, <1>8 DEF ConfigNext

-----------------------------------------------------------------------------
(* The bridge.                                                             *)

\* The hash tells apart what the builders read.
LEMMA HashTells ==
    ASSUME NEW r, NEW s, HashOf(r) = HashOf(s)
    PROVE  SpecOf(r) = SpecOf(s)
<1>1. /\ r.runner = s.runner /\ r.line = s.line /\ r.runargs = s.runargs /\ r.env = s.env
      /\ r.cwd = s.cwd /\ r.setup = s.setup /\ r.pin = s.pin /\ r.serial = s.serial
      /\ r.oauth = s.oauth /\ r.repo = s.repo /\ r.post = s.post /\ r.doc = s.doc
      /\ r.attach = s.attach
  BY DEF HashOf
<1>2. LocalPayload(r) = LocalPayload(s)  BY <1>1 DEF LocalPayload
<1>3. ContainerPayload(r) = ContainerPayload(s)  BY <1>1 DEF ContainerPayload
<1>4. RemotePayload(r) = RemotePayload(s) /\ ApiPayload(r) = ApiPayload(s)
  BY <1>1 DEF RemotePayload, ApiPayload
<1>5. QED  BY <1>1, <1>2, <1>3, <1>4 DEF SpecOf

LEMMA BridgesStay ==
    ASSUME RowInv, BridgeInv, [ConfigNext]_configVars
    PROVE  BridgeInv'
<1>1. CASE bridge' = NoBridge  BY <1>1 DEF BridgeInv
<1>2. CASE bridge' = bridge /\ (booted => booted')
  BY <1>2 DEF BridgeInv, Launched
<1>3. CASE Pass
  <2>1. CASE bridge' = [hash |-> hash, payload |-> Payload(row)] /\ Wanted
    <3>1. hash = HashOf(row) /\ booted /\ booted' = booted
      BY <1>3, <2>1 DEF Pass, Wanted, RowInv
    <3>2. bridge'.hash = HashOf(row) /\ bridge'.payload = Payload(row)  BY <2>1, <3>1
    <3>3. Launched(bridge')  BY <3>2 DEF Launched
    <3>4. QED  BY <3>1, <3>3 DEF BridgeInv
  <2>2. QED  BY <1>1, <1>2, <1>3, <2>1 DEF Pass
<1>4. ASSUME NEW sent, Create(sent) \/ Import(sent) \/ Update(sent) PROVE BridgeInv'
  BY <1>2, <1>4 DEF Create, Import, Update
<1>5. CASE Clone \/ Delete \/ Restart  BY <1>1, <1>5 DEF Clone, Delete, Restart
<1>6. CASE Toggle \/ BootConversion \/ UNCHANGED configVars \/ \E on \in BOOLEAN : SetEnabled(on)
  BY <1>2, <1>6 DEF Toggle, BootConversion, configVars, SetEnabled
<1>7. QED  BY <1>3, <1>4, <1>5, <1>6 DEF ConfigNext

LEMMA BridgeIsTheRows ==
    ASSUME RowInv, BridgeInv
    PROVE  BridgeIsCurrent
<1> SUFFICES ASSUME Stored, bridge # NoBridge, bridge.hash = hash
             PROVE  bridge.payload.spec = SpecOf(row)
  BY DEF BridgeIsCurrent
<1>1. PICK r : bridge.hash = HashOf(r) /\ bridge.payload = Payload(r)  BY DEF BridgeInv, Launched
<1>2. hash = HashOf(row)  BY DEF RowInv, BridgeInv
<1>3. bridge.payload.spec = SpecOf(r)  BY <1>1 DEF Payload
<1>4. QED  BY <1>1, <1>2, <1>3, HashTells

-----------------------------------------------------------------------------
(* The secrets.                                                            *)

LEMMA TypedIn ==
    ASSUME NEW new, NEW kept, NEW k \in Keys, IsSealed(new.env[k])
    PROVE  TypedAfter(new, kept)[k] = IF k \in kept THEN typed[k] ELSE RunsWith(new)
BY DEF TypedAfter

\* A key whose value a save keeps is of a server that goes on as it was.
LEMMA KeptStaysPut ==
    ASSUME Holds(row), NEW sent, Typed(sent), Editable(row, sent),
           Kept(row.env, Edited(row, sent).env) # {}
    PROVE  LET new == Updated(row, sent)
           IN  /\ Target(new) = Target(row) /\ Text(new.env["Host"]) = Text(row.env["Host"])
               /\ RunsCode(row) => Texts(new.env) = Texts(row.env)
<1> DEFINE r == Edited(row, sent)
           new == Updated(row, sent)
           secret == SecretOf(sent)
           kept == Kept(row.env, r.env)
<1>1. /\ \A g \in DOMAIN Blank \ {"env"} : new[g] = r[g]
      /\ new.env = Resolved(row.env, r.env, secret)
  BY UpdatedSound
<1>2. \A k \in Keys :
         new.env[k] = IF k \in kept THEN row.env[k]
                      ELSE IF r.env[k] = Absent THEN Absent
                      ELSE IF k \in SecretAfter(row.env, r.env, secret) THEN Sealed(Text(r.env[k]))
                      ELSE Plain(Text(r.env[k]))
  BY <1>1, ResolvedValues DEF Holds
<1>3. ~Retargeted(row, r) /\ ~(RunsCode(r) /\ OthersChanged(row.env, r.env, secret))
  BY DEF Editable, Resolvable
<1> HIDE DEF r, new, secret
<1>4. Target(new) = Target(r) /\ RunsCode(new) = RunsCode(r)  BY <1>1, EnvIsApart
<1>5. Target(row) = Target(r) /\ ~HostMoved(row.env, r.env)  BY <1>3 DEF Retargeted
<1>6. RunsCode(row) = RunsCode(r)
  <2>1. row.runner = r.runner  BY <1>5 DEF Target
  <2>2. QED  BY <2>1 DEF RunsCode
<1>7. ASSUME NEW k \in Keys, r.env[k] = row.env[k]
      PROVE  Text(new.env[k]) = Text(row.env[k])
  BY <1>2, <1>7, Values
<1>8. ASSUME NEW k \in Keys, k \in kept
      PROVE  Text(new.env[k]) = Text(row.env[k])
  BY <1>2, <1>8
<1>9. Text(new.env["Host"]) = Text(row.env["Host"])
  <2>1. "Host" \in Keys  BY DEF Keys
  <2>2. CASE r.env["Host"] = row.env["Host"]  BY <1>7, <2>1, <2>2
  <2>3. CASE r.env["Host"] = Hidden /\ IsSealed(row.env["Host"])
    BY <1>8, <2>1, <2>3 DEF Kept
  <2>4. QED  BY <1>5, <2>2, <2>3 DEF HostMoved
<1>10. ASSUME RunsCode(r) PROVE Texts(new.env) = Texts(row.env)
  <2>1. ~OthersChanged(row.env, r.env, secret)  BY <1>3, <1>10
  <2>2. ASSUME NEW k \in Keys PROVE Text(new.env[k]) = Text(row.env[k])
    <3>1. CASE k \in kept  BY <1>8, <3>1
    <3>2. CASE k \notin kept /\ ~IsSealed(row.env[k])
      BY <1>7, <2>1, <3>2 DEF OthersChanged
    <3>3. CASE k \notin kept /\ IsSealed(row.env[k])
      <4>1. k \in SecretAfter(row.env, r.env, secret) /\ Text(r.env[k]) = Text(row.env[k])
        BY <2>1, <3>3 DEF OthersChanged
      <4>2. QED  BY <1>2, <3>3, <4>1, Values
    <3>4. QED  BY <3>1, <3>2, <3>3
  <2>3. QED  BY <2>2, Zenon DEF Texts
<1>11. QED  BY <1>4, <1>5, <1>6, <1>9, <1>10 DEF new

\* What two rows that run the same were typed in for is the same.
LEMMA SameUse ==
    ASSUME NEW r, NEW s, Shaped(r), Shaped(s), NEW use, TypedFor(use, r),
           Target(s) = Target(r), Text(s.env["Host"]) = Text(r.env["Host"]),
           RunsCode(r) => Texts(s.env) = Texts(r.env)
    PROVE  TypedFor(use, s)
<1>1. /\ s.runner = r.runner /\ s.line = r.line /\ s.runargs = r.runargs /\ s.cwd = r.cwd
      /\ s.setup = r.setup /\ s.repo = r.repo /\ s.post = r.post /\ s.doc = r.doc /\ s.pin = r.pin
      /\ (IF s.check \in {"shell", "dockers"} THEN s.check ELSE "")
           = (IF r.check \in {"shell", "dockers"} THEN r.check ELSE "")
  BY DEF Target
<1>2. RunsCode(s) = RunsCode(r) /\ RunsWith(s) = RunsWith(r)  BY <1>1 DEF RunsCode, RunsWith
<1>3. CASE use = RunsWith(r)  BY <1>2, <1>3 DEF TypedFor
<1>4. CASE use # RunsWith(r)
  <2> DEFINE q == [r EXCEPT !.line = "bare"]
             p == [s EXCEPT !.line = "bare"]
  <2>1. q.line = "bare" /\ q.env = r.env /\ \A g \in DOMAIN Blank \ {"line"} : q[g] = r[g]
    BY LineReplaced
  <2>2. p.line = "bare" /\ p.env = s.env /\ \A g \in DOMAIN Blank \ {"line"} : p[g] = s[g]
    BY LineReplaced
  <2>3. r.runner = "docker" /\ r.line = "image" /\ use = RunsWith(q)  BY <1>4 DEF TypedFor
  <2> HIDE DEF p, q
  <2>4. /\ p.runner = q.runner /\ p.line = q.line /\ p.runargs = q.runargs /\ p.cwd = q.cwd
        /\ p.setup = q.setup /\ p.repo = q.repo /\ p.post = q.post /\ p.doc = q.doc /\ p.pin = q.pin
        /\ p.check = s.check /\ q.check = r.check
    BY <1>1, <2>1, <2>2, FieldNames
  <2>5. Target(p) = Target(q)  BY <1>1, <2>4 DEF Target
  <2>6. RunsCode(p) = RunsCode(q) /\ RunsCode(q) = RunsCode(r)
    BY <2>1, <2>4, FieldNames DEF RunsCode
  <2>7. RunsWith(p) = RunsWith(q)  BY <2>1, <2>2, <2>5, <2>6 DEF RunsWith
  <2>8. QED  BY <1>1, <2>3, <2>7 DEF TypedFor, p
<1>5. QED  BY <1>3, <1>4

\* A docker run line read once more: the value goes to the image it names.
LEMMA ReadOnce ==
    ASSUME NEW r, NEW s, Shaped(r), Shaped(s), NEW use, TypedFor(use, r),
           s.line = IF ReadAgain(r) THEN "image" ELSE r.line, s.env = r.env,
           \A g \in DOMAIN Blank \ {"name", "line", "env", "enabled"} : s[g] = r[g]
    PROVE  TypedFor(use, s)
<1>1. CASE ~ReadAgain(r)
  <2>1. \A g \in DOMAIN Blank \ {"name", "env", "enabled"} : s[g] = r[g]  BY <1>1
  <2>2. Target(s) = Target(r)  BY <2>1, EnvIsApart
  <2>3. QED  BY <2>2, SameUse
<1>2. CASE ReadAgain(r)
  <2> DEFINE p == [s EXCEPT !.line = "bare"]
  <2>1. p.line = "bare" /\ p.env = s.env /\ \A g \in DOMAIN Blank \ {"line"} : p[g] = s[g]
    BY LineReplaced
  <2> HIDE DEF p
  <2>2. \A g \in DOMAIN Blank \ {"name", "env", "enabled"} : p[g] = r[g]
    BY <1>2, <2>1 DEF ReadAgain
  <2>3. Target(p) = Target(r) /\ RunsCode(p) = RunsCode(r)  BY <2>2, EnvIsApart
  <2>4. RunsWith(p) = RunsWith(r)  BY <2>1, <2>3 DEF RunsWith
  <2>5. use = RunsWith(r)  BY <1>2 DEF TypedFor, ReadAgain
  <2>6. s.runner = "docker" /\ s.line = "image"  BY <1>2, FieldNames DEF ReadAgain
  <2>7. QED  BY <2>4, <2>5, <2>6 DEF TypedFor, p
<1>3. QED  BY <1>1, <1>2

\* What no image can be read from is not stored anew.
LEMMA UnreadRefused ==
    ASSUME NEW m, Shaped(m), m.line = "badcli", m.runner \in Local \cup {"docker"}
    PROVE  ~Fits(Normal(m))
<1>1. Normal(m).runner = "docker" /\ Normal(m).line = "badcli"  BY NormalFields
<1>2. QED  BY <1>1 DEF Fits, ImageFits, Readable

LEMMA UnreadNotCopied ==
    ASSUME Holds(row), Unread(row), Creatable(Copied)
    PROVE  FALSE
<1> DEFINE m == Merged(Blank, Copied)
<1>1. Shaped(m) /\ \A f \in DOMAIN Blank \ {"name", "env", "enabled"} : m[f] = row[f]
  BY CopyFields, BlankHolds, MergedShaped DEF Typed, Holds
<1>2. m.line = "badcli" /\ m.runner \in Local \cup {"docker"}  BY <1>1, FieldNames DEF Unread
<1>3. Fits(Normal(m))  BY DEF Creatable
<1>4. QED  BY <1>1, <1>2, <1>3, UnreadRefused

\* A copy is the server it was made of, with its env.
LEMMA CopyIsTheSame ==
    ASSUME Holds(row), Sound(row), Creatable(Copied)
    PROVE  LET new == Created(Copied)
           IN  /\ new.env = row.env
               /\ new.line = IF ReadAgain(row) THEN "image" ELSE row.line
               /\ \A f \in DOMAIN Blank \ {"name", "line", "env", "enabled"} : new[f] = row[f]
<1> DEFINE l == Merged(Blank, Copied)
           m == Normal(l)
           e == Resolved(Blank.env, m.env, SecretOf(Copied))
           new == [m EXCEPT !.env = e]
<1>0. /\ Shaped(l) /\ \A f \in DOMAIN Blank \ {"name", "env", "enabled"} : l[f] = row[f]
      /\ l.env = Copied.env
  BY CopyFields, BlankHolds, MergedShaped, FieldNames DEF Typed, Holds
<1>2. NormalForm(l) /\ ReadAgain(l) = ReadAgain(row)
  <2>1. NormalForm(l)  BY <1>0, EnvIsApart DEF Sound
  <2>2. QED  BY <1>0, <2>1, FieldNames DEF ReadAgain
<1> HIDE DEF l
<1>1. /\ Shaped(m) /\ m.env = Copied.env
      /\ m.line = IF ReadAgain(row) THEN "image" ELSE row.line
      /\ \A f \in DOMAIN Blank \ {"name", "line", "env", "enabled"} : m[f] = row[f]
  BY <1>0, <1>2, NormalFields, FieldNames
<1>3. Created(Copied) = new  BY DEF Created, l
<1>5. /\ e = [k \in Keys |-> e[k]]
      /\ \A k \in Keys :
            e[k] = IF k \in Kept(Blank.env, m.env) THEN Blank.env[k]
                   ELSE IF m.env[k] = Absent THEN Absent
                   ELSE IF k \in SecretAfter(Blank.env, m.env, SecretOf(Copied))
                        THEN Sealed(Text(m.env[k])) ELSE Plain(Text(m.env[k]))
  BY BlankHolds, ResolvedValues DEF Holds
<1> HIDE DEF m, e
<1>6. /\ new.env = e /\ \A f \in DOMAIN Blank \ {"env"} : new[f] = m[f]
  BY <1>1, <1>5, EnvReplaced
<1> HIDE DEF new
<1>7. \A k \in Keys : e[k] = row.env[k]
  <2> SUFFICES ASSUME NEW k \in Keys PROVE e[k] = row.env[k]
    OBVIOUS
  <2>1. k \notin Kept(Blank.env, m.env)
    <3>1. Blank.env[k] = Absent  BY DEF Blank
    <3>2. QED  BY <3>1, Values DEF Kept
  <2>2. SecretAfter(Blank.env, m.env, SecretOf(Copied)) = SecretKeys(row.env)
    <3>1. SecretKeys(row.env) # AsTheyWere
      <4>1. "as they were" \notin Keys  BY DEF Keys
      <4>2. QED  BY <4>1 DEF SecretKeys, AsTheyWere
    <3>2. QED  BY <3>1, CopyFields DEF SecretAfter
  <2>3. m.env[k] = IF row.env[k] = Absent THEN Absent ELSE Plain(Text(row.env[k]))
    BY <1>1, CopyFields
  <2>4. StoredValue(row.env[k])  BY DEF Holds
  <2>5. k \in SecretKeys(row.env) <=> IsSealed(row.env[k])  BY DEF SecretKeys
  <2>6. QED  BY <1>5, <2>1, <2>2, <2>3, <2>4, <2>5, Values DEF StoredValue
<1>8. e = row.env  BY <1>5, <1>7, Zenon DEF Holds, Shaped
<1>9. QED  BY <1>1, <1>3, <1>6, <1>8, FieldNames

LEMMA SecretsStay ==
    ASSUME RowInv, SecretsStayPut, [ConfigNext]_configVars
    PROVE  SecretsStayPut'
<1>1. ASSUME NEW sent \in Creates, Create(sent) PROVE SecretsStayPut'
  <2>1. row' = Created(sent) /\ typed' = TypedAfter(row', {})  BY <1>1 DEF Create, Stores
  <2>2. QED  BY <2>1, TypedIn DEF SecretsStayPut, SecretKeys, TypedFor
<1>2. ASSUME NEW sent \in Creates, Import(sent) PROVE SecretsStayPut'
  <2>1. typed' = TypedAfter(row', {})  BY <1>2 DEF Import, Stores
  <2>2. QED  BY <2>1, TypedIn DEF SecretsStayPut, SecretKeys, TypedFor
<1>3. ASSUME NEW sent \in Changes, Update(sent) PROVE SecretsStayPut'
  <2> DEFINE kept == Kept(row.env, Edited(row, sent).env)
  <2>1. Typed(sent) /\ Holds(row) /\ Editable(row, sent) /\ Stored
    BY <1>3, RequestsTyped DEF Update, RowInv
  <2>2. row' = Updated(row, sent) /\ typed' = TypedAfter(row', kept)  BY <1>3 DEF Update, Stores
  <2>3. Shaped(row) /\ Shaped(row')  BY <2>1, <2>2, UpdatedSound DEF Holds
  <2>4. ASSUME NEW k \in Keys, IsSealed(row'.env[k]) PROVE TypedFor(typed'[k], row')
    <3>1. CASE k \in kept
      <4>1. TypedFor(typed[k], row)  BY <2>1, <3>1 DEF SecretsStayPut, SecretKeys, Kept
      <4>2. /\ Target(row') = Target(row) /\ Text(row'.env["Host"]) = Text(row.env["Host"])
            /\ RunsCode(row) => Texts(row'.env) = Texts(row.env)
        BY <2>1, <2>2, <3>1, KeptStaysPut
      <4>3. TypedFor(typed[k], row')  BY <2>3, <4>1, <4>2, SameUse
      <4>4. QED  BY <2>2, <2>4, <3>1, <4>3, TypedIn
    <3>2. CASE k \notin kept
      <4> HIDE DEF kept
      <4>1. QED  BY <2>2, <2>4, <3>2, TypedIn DEF TypedFor
    <3>3. QED  BY <3>1, <3>2
  <2>5. QED  BY <2>4 DEF SecretsStayPut, SecretKeys
<1>4. CASE Clone
  <2>1. Creatable(Copied) /\ row' = Created(Copied) /\ typed' = TypedAfter(row', Keys)
        /\ Stored /\ Holds(row) /\ (Sound(row) \/ Unread(row))
    BY <1>4 DEF Clone, Stores, Copied, RowInv, Edits
  <2>2. Sound(row)  BY <2>1, UnreadNotCopied
  <2>3. /\ row'.env = row.env /\ Shaped(row) /\ Shaped(row')
        /\ row'.line = IF ReadAgain(row) THEN "image" ELSE row.line
        /\ \A f \in DOMAIN Blank \ {"name", "line", "env", "enabled"} : row'[f] = row[f]
    BY <2>1, <2>2, CopyIsTheSame, CopyFields, CreatedSound DEF Holds
  <2>4. ASSUME NEW k \in Keys, IsSealed(row'.env[k]) PROVE TypedFor(typed'[k], row')
    <3>1. TypedFor(typed[k], row)  BY <2>1, <2>3, <2>4 DEF SecretsStayPut, SecretKeys
    <3>2. TypedFor(typed[k], row')  BY <2>3, <3>1, ReadOnce
    <3>3. QED  BY <2>1, <2>4, <3>2, TypedIn
  <2>5. QED  BY <2>4 DEF SecretsStayPut, SecretKeys
<1>5. CASE Delete  BY <1>5 DEF Delete, SecretsStayPut, Stored
<1>6. ASSUME NEW on \in BOOLEAN, SetEnabled(on) PROVE SecretsStayPut'
  <2>1. Stored /\ Holds(row) /\ row' = [row EXCEPT !.enabled = on] /\ typed' = typed
    BY <1>6 DEF SetEnabled, RowInv
  <2>2. Holds(row') /\ \A g \in DOMAIN Blank \ {"enabled"} : row'[g] = row[g]
    BY <2>1, EnabledOnly
  <2>3. row'.env = row.env /\ Target(row') = Target(row)
    BY <2>2, EnvIsApart, FieldNames
  <2>4. ASSUME NEW k \in Keys, TypedFor(typed[k], row) PROVE TypedFor(typed[k], row')
    BY <2>1, <2>2, <2>3, <2>4, SameUse DEF Holds
  <2>5. QED  BY <2>1, <2>3, <2>4 DEF SecretsStayPut, SecretKeys
<1>7. CASE BootConversion
  <2>1. CASE Stored /\ (Converted(row) # row \/ hash = Never)
    <3>1. row' = Converted(row) /\ typed' = typed /\ Holds(row)
      BY <1>7, <2>1 DEF BootConversion, Stores, RowInv
    <3>2. CASE Sound(row)
      <4>1. /\ Shaped(row) /\ Shaped(row') /\ row'.env = row.env
            /\ row'.line = IF ReadAgain(row) THEN "image" ELSE row.line
            /\ \A g \in DOMAIN Blank \ {"line"} : row'[g] = row[g]
        BY <3>1, <3>2, ConvertedOnce DEF Holds
      <4>2. ASSUME NEW k \in Keys, TypedFor(typed[k], row) PROVE TypedFor(typed[k], row')
        BY <4>1, <4>2, ReadOnce
      <4>3. QED  BY <2>1, <3>1, <4>1, <4>2 DEF SecretsStayPut, SecretKeys
    <3>3. CASE row \in Legacy
      BY <3>1, <3>3, LegacyRows DEF SecretsStayPut, SecretKeys
    <3>4. CASE Unread(row)
      <4>1. row' = row  BY <3>1, <3>4 DEF Unread, Converted, Readable
      <4>2. QED  BY <3>4, <4>1 DEF SecretsStayPut, SecretKeys, Unread
    <3>5. QED  BY <2>1, <3>2, <3>3, <3>4 DEF RowInv
  <2>2. CASE ~(Stored /\ (Converted(row) # row \/ hash = Never))
    BY <1>7, <2>2 DEF BootConversion, SecretsStayPut, Stored
  <2>3. QED  BY <2>1, <2>2
<1>8. CASE Toggle \/ Restart \/ Pass \/ UNCHANGED configVars
  <2>1. row' = row /\ typed' = typed  BY <1>8 DEF Toggle, Restart, Pass, configVars
  <2>2. QED  BY <2>1 DEF SecretsStayPut, Stored
<1>9. QED
  BY <1>1, <1>2, <1>3, <1>4, <1>5, <1>6, <1>7, <1>8 DEF ConfigNext

-----------------------------------------------------------------------------
(* Saving the form as it was shown.                                        *)

LEMMA FormFields ==
    ASSUME NEW r, NEW named \in BOOLEAN
    PROVE  /\ DOMAIN Form(r, named) = Fields \cup (IF named THEN {"secret"} ELSE {})
           /\ \A f \in Fields \ {"env"} : Form(r, named)[f] = r[f]
           /\ Form(r, named).env = Masked(r.env)
           /\ SecretOf(Form(r, named)) = IF named THEN SecretKeys(r.env) ELSE AsTheyWere
<1>1. "secret" \notin Fields /\ "env" \in Fields  BY FieldNames DEF Fields
<1>2. DOMAIN Form(r, named) = Fields \cup (IF named THEN {"secret"} ELSE {})  BY DEF Form
<1>3. \A f \in Fields \ {"env"} : Form(r, named)[f] = r[f]  BY <1>1 DEF Form
<1>4. Form(r, named).env = Masked(r.env)  BY <1>1 DEF Form
<1>5. named => Form(r, named).secret = SecretKeys(r.env)  BY DEF Form
<1>6. QED  BY <1>1, <1>2, <1>3, <1>4, <1>5 DEF SecretOf

\* The form asks for the row it shows, read once more.
LEMMA FormEdits ==
    ASSUME NEW r, Holds(r), NEW named \in BOOLEAN
    PROVE  LET m == Edited(r, Form(r, named))
           IN  /\ Unread(r) => ~Fits(m)
               /\ Sound(r) => /\ Shaped(m) /\ m.env = Masked(r.env)
                              /\ m.line = IF ReadAgain(r) THEN "image" ELSE r.line
                              /\ \A f \in DOMAIN Blank \ {"line", "env"} : m[f] = r[f]
<1> DEFINE sent == Form(r, named)
           m == Merged(r, sent)
<1>1. /\ DOMAIN sent = Fields \cup (IF named THEN {"secret"} ELSE {}) /\ "env" \in Fields
      /\ "post" \in Fields /\ \A f \in Fields \ {"env"} : sent[f] = r[f] /\ sent.env = Masked(r.env)
  BY FormFields, FieldNames DEF Fields
<1>2. Typed(sent)
  <2>1. Switches \cap DOMAIN sent \subseteq Fields \ {"env"}  BY <1>1, FieldNames DEF Switches, Fields
  <2>2. \A f \in Switches \cap DOMAIN sent : sent[f] \in BOOLEAN  BY <1>1, <2>1 DEF Holds, Shaped
  <2>3. Masked(r.env) = [k \in Keys |-> Masked(r.env)[k]]  BY DEF Masked
  <2>4. QED  BY <1>1, <2>2, <2>3 DEF Typed
<1> HIDE DEF sent
<1>3. /\ Shaped(m)
      /\ \A f \in DOMAIN Blank : m[f] = IF f \in DOMAIN sent THEN sent[f] ELSE r[f]
  BY <1>2, MergedShaped DEF Typed, Holds
<1> HIDE DEF m
<1>4. m.env = Masked(r.env) /\ \A f \in DOMAIN Blank \ {"env"} : m[f] = r[f]
  BY <1>1, <1>3, FieldNames DEF Fields
<1>5. Edited(r, sent) = Normal(m)  BY <1>1 DEF Edited, m
<1>6. ASSUME Unread(r) PROVE ~Fits(Normal(m))
  <2>1. m.line = "badcli" /\ m.runner \in Local \cup {"docker"}  BY <1>4, <1>6, FieldNames DEF Unread
  <2>2. QED  BY <1>3, <2>1, UnreadRefused
<1>7. ASSUME Sound(r)
      PROVE  /\ Shaped(Normal(m)) /\ Normal(m).env = Masked(r.env)
             /\ Normal(m).line = IF ReadAgain(r) THEN "image" ELSE r.line
             /\ \A f \in DOMAIN Blank \ {"line", "env"} : Normal(m)[f] = r[f]
  <2>1. NormalForm(m)  BY <1>4, <1>7, EnvIsApart DEF Sound
  <2>2. ReadAgain(m) = ReadAgain(r) /\ m.line = r.line  BY <1>4, FieldNames DEF ReadAgain
  <2>3. QED  BY <1>3, <1>4, <2>1, <2>2, NormalFields, FieldNames
<1>8. QED  BY <1>5, <1>6, <1>7 DEF sent

LEMMA FormIsNoChange ==
    ASSUME NEW r, Holds(r), Sound(r), NEW named \in BOOLEAN
    PROVE  /\ Editable(r, Form(r, named)) <=>
                 ~Outdated(r) /\ (ReadAgain(r) => SecretKeys(r.env) = {})
           /\ Updated(r, Form(r, named)) = [r EXCEPT !.line = IF ReadAgain(r) THEN "image" ELSE @]
<1> DEFINE sent == Form(r, named)
           m == Edited(r, sent)
           secret == SecretOf(sent)
           sealed == SecretKeys(r.env)
           e == Resolved(r.env, m.env, secret)
           new == [m EXCEPT !.env = e]
<1>1. /\ Shaped(m) /\ m.env = Masked(r.env)
      /\ m.line = IF ReadAgain(r) THEN "image" ELSE r.line
      /\ \A f \in DOMAIN Blank \ {"line", "env"} : m[f] = r[f]
  BY FormEdits
<1>2. secret \in {sealed, AsTheyWere}  BY FormFields
<1>3. Updated(r, sent) = new  BY DEF Updated
<1>4. Editable(r, sent) <=>
         (/\ Fits(m) /\ EnvFits(m)
          /\ m.enabled => ~HostDocker(m)
          /\ ConversionAllowed(r, m)
          /\ Resolvable(r.env, m.env, secret, Retargeted(r, m), RunsCode(m)))
  BY DEF Editable
<1> HIDE DEF sent, m, secret
<1>5. \A k \in Keys : /\ m.env[k] = IF IsSealed(r.env[k]) THEN Hidden ELSE r.env[k]
                      /\ k \in sealed <=> IsSealed(r.env[k])
                      /\ StoredValue(r.env[k])
  BY <1>1 DEF Masked, SecretKeys, Holds
<1>6. Kept(r.env, m.env) = sealed
  BY <1>5 DEF Kept, SecretKeys
<1>7. SecretAfter(r.env, m.env, secret) = sealed  BY <1>2 DEF SecretAfter
<1>8. Keys \cap secret \subseteq sealed
  <2>1. "as they were" \notin Keys  BY DEF Keys
  <2>2. QED  BY <1>2, <2>1 DEF AsTheyWere
<1>9. m.enabled = r.enabled /\ m.runner = r.runner  BY <1>1, FieldNames
<1>10. EnvFits(m)
  <2>1. "PATH" \in Keys  BY FieldNames
  <2>2. QED  BY <1>5, <1>9, <2>1, Values DEF Sound, EnvFits
<1>11. r.line # "badcli"
  BY DEF Sound, NormalForm, Fits, UrlFits, DocumentFits, ImageFits, Readable, Launchers, Local,
     Headers
<1>12. ASSUME ReadAgain(r) PROVE Fits(m) /\ ~HostDocker(m) /\ ~HostDocker(r) /\ Retargeted(r, m)
  <2>1. m.line = "image" /\ r.line = "bare" /\ m.runner = "docker" /\ r.runner = "docker"
    BY <1>1, <1>9, <1>12 DEF ReadAgain
  <2>2. /\ m.setup = r.setup /\ m.repo = r.repo /\ m.post = r.post /\ m.check = r.check
        /\ m.doc = r.doc /\ m.pin = r.pin /\ m.serial = r.serial /\ m.attach = r.attach
    BY <1>1, FieldNames
  <2>3. m.pin = FALSE  BY <2>1, <2>2 DEF Sound, NormalForm, Holds, Shaped, Switches
  <2>4. Fits(m)
    BY <2>1, <2>2, <2>3 DEF Sound, Fits, UrlFits, DocumentFits, ImageFits, Readable, ScriptsFit,
       CheckFits, PinFits, StderrFits, Headers
  <2>5. Target(r) # Target(m)  BY <2>1 DEF Target
  <2>6. QED  BY <2>1, <2>4, <2>5 DEF HostDocker, Local, Retargeted
<1>13. ASSUME ~ReadAgain(r)
       PROVE  Fits(m) /\ HostDocker(m) = HostDocker(r) /\ ~Retargeted(r, m)
  <2>1. \A f \in DOMAIN Blank \ {"name", "env", "enabled"} : m[f] = r[f]  BY <1>1, <1>13
  <2>2. Fits(m) /\ HostDocker(m) = HostDocker(r) /\ Target(m) = Target(r)
    BY <2>1, EnvIsApart DEF Sound
  <2>3. "Host" \in Keys  BY FieldNames
  <2>4. QED  BY <1>5, <2>2, <2>3 DEF Retargeted, HostMoved
<1>14. ~OthersChanged(r.env, m.env, secret)
  BY <1>5, <1>6 DEF OthersChanged
<1>15. Resolvable(r.env, m.env, secret, Retargeted(r, m), RunsCode(m))
          <=> (sealed # {} => ~Retargeted(r, m))
  <2>1. \A k \in Keys \cap secret : m.env[k] # Absent  BY <1>5, <1>8, Values
  <2>2. \A k \in Keys \ sealed : m.env[k] # Hidden  BY <1>5, Values DEF StoredValue
  <2> HIDE DEF sealed
  <2>3. QED  BY <1>6, <1>7, <1>14, <2>1, <2>2 DEF Resolvable
<1>16. ConversionAllowed(r, m)  BY <1>9 DEF ConversionAllowed
<1>17. Editable(r, sent) <=> ~Outdated(r) /\ (ReadAgain(r) => sealed = {})
  <2> HIDE DEF sealed
  <2>1. QED  BY <1>4, <1>9, <1>10, <1>11, <1>12, <1>13, <1>15, <1>16 DEF Outdated
<1>18. /\ e = [k \in Keys |-> e[k]]
       /\ \A k \in Keys :
             e[k] = IF k \in sealed THEN r.env[k]
                    ELSE IF m.env[k] = Absent THEN Absent
                    ELSE IF k \in sealed THEN Sealed(Text(m.env[k])) ELSE Plain(Text(m.env[k]))
  BY <1>6, <1>7, ResolvedValues DEF Holds
<1>19. \A k \in Keys : e[k] = r.env[k]
  BY <1>5, <1>18, Values DEF StoredValue
<1>20. e = r.env  BY <1>18, <1>19, Zenon DEF Holds, Shaped
<1>21. Shaped(new) /\ new.env = e /\ \A f \in DOMAIN Blank \ {"env"} : new[f] = m[f]
  BY <1>1, <1>18, EnvReplaced
<1> HIDE DEF new
<1> DEFINE l == IF ReadAgain(r) THEN "image" ELSE r.line
           s == [r EXCEPT !.line = l]
<1>22. Shaped(s) /\ s.line = l /\ s.env = r.env /\ \A g \in DOMAIN Blank \ {"line"} : s[g] = r[g]
  BY LineReplaced DEF Holds
<1>23. s = [r EXCEPT !.line = IF ReadAgain(r) THEN "image" ELSE @]  OBVIOUS
<1> HIDE DEF s
<1>24. new = s
  <2>1. \A f \in DOMAIN Blank \ {"env"} : new[f] = s[f]  BY <1>1, <1>21, <1>22, FieldNames
  <2>2. \A k \in Keys : new.env[k] = s.env[k]  BY <1>20, <1>21, <1>22
  <2>3. QED  BY <1>21, <1>22, <2>1, <2>2, SameRow
<1>25. QED  BY <1>3, <1>17, <1>23, <1>24 DEF sent

-----------------------------------------------------------------------------
LEMMA ConfigInitially == ConfigInit => RowInv /\ BridgeInv /\ SecretsStayPut
<1> SUFFICES ASSUME ConfigInit PROVE RowInv /\ BridgeInv /\ SecretsStayPut
  OBVIOUS
<1>1. /\ row = NoRow \/ row \in Legacy
      /\ hash = Never /\ booted = FALSE /\ bridge = NoBridge
  BY DEF ConfigInit
<1>2. RowInv  BY <1>1, LegacyRows DEF RowInv, Stored
<1>3. BridgeInv  BY <1>1 DEF BridgeInv
<1>4. SecretsStayPut  BY <1>1, LegacyRows DEF SecretsStayPut, Stored, SecretKeys
<1>5. QED  BY <1>2, <1>3, <1>4

LEMMA ConfigInvariant == ConfigSpec => [](RowInv /\ BridgeInv /\ SecretsStayPut)
<1>1. RowInv /\ BridgeInv /\ SecretsStayPut /\ [ConfigNext]_configVars
         => (RowInv /\ BridgeInv /\ SecretsStayPut)'
  BY RowsStay, BridgesStay, SecretsStay
<1>2. QED  BY <1>1, ConfigInitially, PTL DEF ConfigSpec

\* A bridge whose hash is its row's was launched from what the row says, whatever fields
\* the requests write: the hash covers all the builders read.  It does not cover the name,
\* which the bridge is handed beside the spec.
THEOREM CurrentIsCurrent == ConfigSpec => []BridgeIsCurrent
<1>1. RowInv /\ BridgeInv => BridgeIsCurrent  BY BridgeIsTheRows
<1>2. QED  BY <1>1, ConfigInvariant, PTL

\* A hidden value stays with what it was typed in for, through any sequence of
\* updates, clones, conversions and restarts (sealed.resolve, update_server).
THEOREM SecretsAreNotMoved == ConfigSpec => []SecretsStayPut
BY ConfigInvariant, PTL

\* What saving the form as it was shown does to any row a write or the boot conversion
\* stored: nothing, but for the docker row that is a docker run line, which it reads once
\* more or asks the secrets of, and for the old rows that are refused as they are.
THEOREM FormsAreFixedPoints == ConfigSpec => []ResendIsNoChange
<1>1. RowInv => ResendIsNoChange
  <2> SUFFICES ASSUME RowInv, booted, Stored, NEW named \in BOOLEAN
               PROVE  /\ Editable(row, Form(row, named)) <=>
                           ~Outdated(row) /\ (ReadAgain(row) => SecretKeys(row.env) = {})
                      /\ Editable(row, Form(row, named)) =>
                           Updated(row, Form(row, named))
                             = [row EXCEPT !.line = IF ReadAgain(row) THEN "image" ELSE @]
    BY DEF ResendIsNoChange
  <2>1. Holds(row) /\ (Sound(row) \/ Unread(row))  BY DEF RowInv
  <2>2. CASE Sound(row)  BY <2>1, <2>2, FormIsNoChange
  <2>3. CASE Unread(row)
    <3>1. ~Fits(Edited(row, Form(row, named)))  BY <2>1, <2>3, FormEdits
    <3>2. ~Editable(row, Form(row, named))  BY <3>1 DEF Editable
    <3>3. Outdated(row)  BY <2>3 DEF Outdated, Unread
    <3>4. QED  BY <3>2, <3>3
  <2>4. QED  BY <2>1, <2>2, <2>3
<1>2. QED  BY <1>1, ConfigInvariant, PTL

\* No step but one the setting allows makes a row an enabled docker server, the
\* conversion of an enabled row included (was_docker is read before it).
THEOREM DockerIsGated == ConfigSpec => EnablingIsGated
<1> DEFINE Gated ==
           booted /\ row'.runner = "docker" /\ row'.enabled
                    /\ ~(row.runner = "docker" /\ row.enabled) => gate
<1>1. ASSUME RowInv, [ConfigNext]_configVars PROVE [Gated]_configVars
  <2> SUFFICES ASSUME booted, row'.runner = "docker", row'.enabled,
                      ~(row.runner = "docker" /\ row.enabled)
               PROVE  gate
    OBVIOUS
  <2>1. ASSUME NEW sent \in Creates, Create(sent) PROVE gate
    <3>1. Typed(sent) /\ Creatable(sent) /\ row' = Created(sent)
      BY <2>1, RequestsTyped DEF Create, Stores
    <3>2. QED  BY <3>1, CreatedSound
  <2>2. ASSUME NEW sent \in Creates, Import(sent) PROVE gate
    <3>1. Creatable(Entry(sent)) /\ row' = Created(Entry(sent))  BY <2>2 DEF Import, Stores, Entry
    <3>2. QED  BY <3>1, EntryTyped, CreatedSound
  <2>3. ASSUME NEW sent \in Changes, Update(sent) PROVE gate
    <3>1. /\ Typed(sent) /\ Holds(row) /\ Editable(row, sent) /\ row' = Updated(row, sent)
          /\ "enabled" \notin DOMAIN sent
      BY <1>1, <2>3, RequestsTyped, ConfigAssumptions DEF Update, Stores, RowInv
    <3>2. \A g \in DOMAIN Blank \ {"env"} : row'[g] = Edited(row, sent)[g]
      BY <3>1, UpdatedSound
    <3>3. row'.enabled = row.enabled /\ row'.runner = Edited(row, sent).runner
          /\ Edited(row, sent).enabled = row.enabled
      BY <3>1, <3>2, EditedShaped, FieldNames DEF Holds
    <3>4. ConversionAllowed(row, Edited(row, sent))  BY <3>1 DEF Editable
    <3>5. QED  BY <3>3, <3>4 DEF ConversionAllowed
  <2>4. CASE Clone
    <3>1. Creatable(Copied) /\ row' = Created(Copied) /\ Holds(row)
      BY <1>1, <2>4 DEF Clone, Stores, Copied, RowInv
    <3>2. row'.enabled = FALSE  BY <3>1, CopyFields, CreatedSound
    <3>3. QED  BY <3>2
  <2>5. CASE Delete
    <3>1. row'.runner = "none"  BY <2>5 DEF Delete, NoRow
    <3>2. QED  BY <3>1
  <2>6. ASSUME NEW on \in BOOLEAN, SetEnabled(on) PROVE gate
    <3>1. /\ Holds(row) /\ row' = [row EXCEPT !.enabled = on]
          /\ on => (row.runner = "docker" => gate)
      BY <1>1, <2>6 DEF SetEnabled, RowInv
    <3>2. row'.enabled = on /\ row'.runner = row.runner  BY <3>1, EnabledOnly, FieldNames
    <3>3. QED  BY <3>1, <3>2
  <2>7. CASE BootConversion  BY <2>7 DEF BootConversion
  <2>8. CASE Toggle \/ Restart \/ Pass \/ UNCHANGED configVars
    BY <2>8 DEF Toggle, Restart, Pass, configVars
  <2>9. QED  BY <1>1, <2>1, <2>2, <2>3, <2>4, <2>5, <2>6, <2>7, <2>8 DEF ConfigNext
<1>2. RowInv /\ [ConfigNext]_configVars => [Gated]_configVars  BY <1>1
<1>3. QED  BY <1>2, ConfigInvariant, PTL DEF ConfigSpec, EnablingIsGated
=============================================================================
