------------------------------ MODULE Membership ------------------------------
(***************************************************************************)
(* Who belongs to which organization, and as what: registration, single    *)
(* sign-on, invitations, role changes, removal and account deletion        *)
(* (blueprints/admin/routes.py, blueprints/auth/routes.py,                 *)
(* services/accounts.py, services/account_data.py, cli.py).                *)
(*                                                                         *)
(* A request reads, checks what it read (Submit...), and commits later     *)
(* (the Commit... actions); other requests may commit in between.  The     *)
(* rules "an organization keeps an administrator" and "an invitation is    *)
(* used once" are checked on the reading only: no constraint of the        *)
(* database repeats them.                                                  *)
(***************************************************************************)
EXTENDS Naturals, FiniteSets

CONSTANTS
  Users,            (* people, by email address; an account is not re-created *)
  Orgs,             (* bound: organizations ever created                   *)
  Invites,          (* bound: invitations ever sent                        *)
  Sessions,         (* requests and shell commands in progress             *)
  Roles,            (* of ROLE_HIERARCHY                                   *)
  RegistrationMode, (* REGISTRATION_MODE                                   *)
  DefaultOrg,       (* the organization of OIDC_DEFAULT_ORG, or None       *)
  Shell,            (* whether an operator uses the `flask` commands       *)
  None              (* no role, no organization, no invitation             *)

ASSUME MembershipAssumption ==
  /\ {"admin", "editor"} \subseteq Roles
  /\ None \notin Roles \union Orgs \union Users \union Invites
  /\ Orgs \cap Invites = {}
  /\ RegistrationMode \in {"open", "invite", "closed"}
  /\ DefaultOrg \in Orgs \union {None}
  /\ Shell \in BOOLEAN
  /\ IsFiniteSet(Users) /\ IsFiniteSet(Orgs)

VARIABLES
  account,  (* table users                                                 *)
  org,      (* table organizations                                         *)
  member,   (* table memberships: the role of each user, or None           *)
  inv,      (* table invitations                                           *)
  granted,  (* history: the users each invitation made members             *)
  ses       (* the requests in progress                                    *)

vars == <<account, org, member, inv, granted, ses>>

Life == {"none", "live", "deleted"}

Invitation == [state : {"none", "open", "expired", "accepted", "revoked"},
               org : Orgs \union {None}, role : Roles \union {None}]

NoInvitation == [state |-> "none", org |-> None, role |-> None]

(* `actor` is current_user, or who signs up; `fresh` a new account, `insert`
   a new membership; `user` whose membership was loaded and `gone` whether
   that row has been deleted since; `moved` of which organizations it read
   others changed the members since, and which invitation. *)
Session ==
  [op : {"idle", "place", "accept", "grant", "invite", "revoke", "role", "remove", "delete"},
   actor : Users \union {None}, fresh : BOOLEAN, insert : BOOLEAN,
   org : Orgs \union {None}, user : Users \union {None}, role : Roles \union {None},
   inv : Invites \union {None}, doomed : SUBSET Orgs, gone : BOOLEAN,
   moved : SUBSET (Orgs \union Invites)]

Idle == [op |-> "idle", actor |-> None, fresh |-> FALSE, insert |-> FALSE, org |-> None,
         user |-> None, role |-> None, inv |-> None, doomed |-> {}, gone |-> FALSE,
         moved |-> {}]

(* The tables and the requests. *)
TypeOK ==
  /\ account \in [Users -> Life]
  /\ org \in [Orgs -> Life]
  /\ member \in [Orgs -> [Users -> Roles \union {None}]]
  /\ inv \in [Invites -> Invitation]
  /\ granted \in [Invites -> SUBSET Users]
  /\ ses \in [Sessions -> Session]

-----------------------------------------------------------------------------
(* Queries. *)

Members(o) == {u \in Users : member[o][u] # None}
Admins(o) == {u \in Users : member[o][u] = "admin"}

(* Mutant: is_usable checks only the expiry. *)
UsableAgain(i) == inv[i].state \in {"open", "accepted"}

Usable(i) == inv[i].state = "open"

Stored(i) == inv[i].state \in {"open", "expired", "accepted"}

(* admin_required, in the organization the person has selected. *)
IsAdmin(a, o) == account[a] = "live" /\ member[o][a] = "admin"

(* Mutant: `< 1` for `<= 1`. *)
OnlyAdminNever(o, u) == member[o][u] = "admin" /\ Cardinality(Admins(o)) < 1

(* _admin_count() <= 1, of an administrator. *)
OnlyAdmin(o, u) == member[o][u] = "admin" /\ Cardinality(Admins(o)) <= 1

(* deletion_blockers() *)
Blocked(u) == \E o \in Orgs : OnlyAdmin(o, u) /\ Cardinality(Members(o)) > 1

(* Mutant: the count is taken as if the user had left. *)
DoomedEmpty(u) == {o \in Orgs : u \in Members(o) /\ Cardinality(Members(o)) = 0}

(* Mutant: every organization the user belongs to. *)
DoomedAll(u) == {o \in Orgs : u \in Members(o)}

(* organizations_deleted_with() *)
Doomed(u) == {o \in Orgs : u \in Members(o) /\ Cardinality(Members(o)) = 1}

-----------------------------------------------------------------------------
(* Requests: read and check. *)

Submit(s, r) ==
  /\ ses[s].op = "idle"
  /\ ses' = [ses EXCEPT ![s] = r]
  /\ UNCHANGED <<account, org, member, inv, granted>>

(* register() without a usable invitation: a new organization.  In "closed"
   mode an invitation that is no longer usable also passes the check. *)
SubmitRegister(s, u) ==
  /\ account[u] = "none"
  /\ \/ RegistrationMode = "open"
     \/ RegistrationMode = "closed" /\ \E i \in Invites : Stored(i) /\ ~Usable(i)
  /\ Submit(s, [Idle EXCEPT !.op = "place", !.actor = u, !.fresh = TRUE, !.role = "admin"])

(* provision_sso_user(): somebody without a membership, or unknown, is put in
   the default organization or in a new one, as editor. *)
SubmitSso(s, u) ==
  /\ account[u] # "deleted"
  /\ \A o \in Orgs : member[o][u] = None
  /\ Submit(s, [Idle EXCEPT !.op = "place", !.actor = u, !.fresh = (account[u] = "none"),
                            !.role = "editor",
                            !.org = IF DefaultOrg # None /\ org[DefaultOrg] = "live"
                                    THEN DefaultOrg ELSE None])

(* `flask create-user`, with --org or a new organization, and any role. *)
SubmitCreateUser(s, u) ==
  /\ Shell
  /\ account[u] = "none"
  /\ \E o \in {x \in Orgs : org[x] = "live"} \union {None}, r \in Roles :
       Submit(s, [Idle EXCEPT !.op = "place", !.actor = u, !.fresh = TRUE, !.org = o,
                              !.role = r])

(* `flask grant-role` *)
SubmitGrant(s, u) ==
  /\ Shell
  /\ account[u] = "live"
  /\ \E o \in Orgs, r \in Roles :
       /\ org[o] = "live"
       /\ member[o][u] # r
       /\ Submit(s, [Idle EXCEPT !.op = "grant", !.org = o, !.user = u, !.role = r,
                                 !.insert = (member[o][u] = None)])

(* accept_invite() by someone signed in, or signing up with the invitation
   there or at register(); accept_invitation() keeps a membership that exists. *)
SubmitAccept(s, u) ==
  /\ account[u] # "deleted"
  /\ \E i \in Invites :
       /\ Usable(i)
       /\ Submit(s, [Idle EXCEPT !.op = "accept", !.actor = u, !.inv = i,
                                 !.org = inv[i].org, !.role = inv[i].role,
                                 !.fresh = (account[u] = "none"),
                                 !.insert = (member[inv[i].org][u] = None)])

(* invite(): of an address that is not a member's, whoever follows the link. *)
SubmitInvite(s, a) ==
  \E o \in Orgs, r \in Roles :
    /\ IsAdmin(a, o)
    /\ Submit(s, [Idle EXCEPT !.op = "invite", !.actor = a, !.org = o, !.role = r])

SubmitRevoke(s, a) ==
  \E i \in Invites :
    /\ Stored(i)
    /\ IsAdmin(a, inv[i].org)
    /\ Submit(s, [Idle EXCEPT !.op = "revoke", !.actor = a, !.org = inv[i].org, !.inv = i])

(* change_role(); a change to the same role writes nothing. *)
SubmitRole(s, a) ==
  \E o \in Orgs, u \in Users, r \in Roles :
    /\ IsAdmin(a, o)
    /\ member[o][u] \notin {None, r}
    /\ ~OnlyAdmin(o, u)
    /\ Submit(s, [Idle EXCEPT !.op = "role", !.actor = a, !.org = o, !.user = u, !.role = r])

SubmitRemove(s, a) ==
  \E o \in Orgs, u \in Users :
    /\ IsAdmin(a, o)
    /\ member[o][u] # None
    /\ ~OnlyAdmin(o, u)
    /\ Submit(s, [Idle EXCEPT !.op = "remove", !.actor = a, !.org = o, !.user = u])

(* delete_account(), up to its first flush. *)
SubmitDelete(s, u) ==
  /\ account[u] = "live"
  /\ ~Blocked(u)
  /\ Submit(s, [Idle EXCEPT !.op = "delete", !.actor = u, !.doomed = Doomed(u)])

-----------------------------------------------------------------------------
(* Requests: commit. *)

(* What a commit changes of the rows that requests in progress have read. *)
Watched(r) == IF r.op = "delete" THEN Orgs ELSE {r.org, r.inv}

Aged(r) ==
  [r EXCEPT
    !.moved = @ \union {o \in Orgs \cap Watched(r) : member'[o] # member[o]}
                \union {i \in Invites \cap Watched(r) : inv'[i] # inv[i]},
    !.gone = @ \/ (r.user # None /\ member[r.org][r.user] # None
                    /\ member'[r.org][r.user] = None)]

Done(s) ==
  ses' = [x \in Sessions |->
            IF x = s THEN Idle ELSE IF ses[x].op = "idle" THEN Idle ELSE Aged(ses[x])]

(* The rows a foreign key or a unique constraint asks for at the flush. *)
AccountFits(r) == account[r.actor] = (IF r.fresh THEN "none" ELSE "live")
OrgLives(r) == org[r.org] = "live"
ActorLives(r) == account[r.actor] = "live"

SignUp(r) == account' = IF r.fresh THEN [account EXCEPT ![r.actor] = "live"] ELSE account

(* A user gets an account, and a place in an organization or in a new one. *)
CommitPlace(s) ==
  LET r == ses[s] IN
  /\ r.op = "place"
  /\ AccountFits(r)
  /\ \E o \in Orgs :
       /\ IF r.org = None THEN org[o] = "none"
                          ELSE o = r.org /\ OrgLives(r) /\ member[o][r.actor] = None
       /\ org' = [org EXCEPT ![o] = "live"]
       /\ member' = [member EXCEPT ![o][r.actor] = r.role]
  /\ SignUp(r)
  /\ UNCHANGED <<inv, granted>>
  /\ Done(s)

CommitGrant(s) ==
  LET r == ses[s] IN
  /\ r.op = "grant"
  /\ IF r.insert THEN /\ account[r.user] = "live" /\ OrgLives(r)
                      /\ member[r.org][r.user] = None
                 ELSE ~r.gone
  /\ member' = [member EXCEPT ![r.org][r.user] = r.role]
  /\ UNCHANGED <<account, org, inv, granted>>
  /\ Done(s)

(* The membership, if one is wanted, and accepted_at: an UPDATE by key. *)
CommitAccept(s) ==
  LET r == ses[s] IN
  /\ r.op = "accept"
  /\ Stored(r.inv)
  /\ AccountFits(r) \/ (~r.fresh /\ ~r.insert)
  /\ \/ /\ r.insert
        /\ OrgLives(r) /\ member[r.org][r.actor] = None
        /\ member' = [member EXCEPT ![r.org][r.actor] = r.role]
        /\ granted' = [granted EXCEPT ![r.inv] = @ \union {r.actor}]
     \/ ~r.insert /\ UNCHANGED <<member, granted>>
  /\ SignUp(r)
  /\ inv' = [inv EXCEPT ![r.inv].state = "accepted"]
  /\ UNCHANGED org
  /\ Done(s)

CommitInvite(s) ==
  LET r == ses[s] IN
  /\ r.op = "invite"
  /\ OrgLives(r) /\ ActorLives(r)
  /\ \E i \in Invites :
       /\ inv[i].state = "none"
       /\ inv' = [inv EXCEPT ![i] = [state |-> "open", org |-> r.org, role |-> r.role]]
  /\ UNCHANGED <<account, org, member, granted>>
  /\ Done(s)

CommitRevoke(s) ==
  LET r == ses[s] IN
  /\ r.op = "revoke"
  /\ OrgLives(r) /\ ActorLives(r)
  /\ inv' = [inv EXCEPT ![r.inv].state = "revoked"]
  /\ UNCHANGED <<account, org, member, granted>>
  /\ Done(s)

CommitRole(s) ==
  LET r == ses[s] IN
  /\ r.op = "role"
  /\ OrgLives(r) /\ ActorLives(r)
  /\ ~r.gone
  /\ member' = [member EXCEPT ![r.org][r.user] = r.role]
  /\ UNCHANGED <<account, org, inv, granted>>
  /\ Done(s)

(* A DELETE that finds no row only warns. *)
CommitRemove(s) ==
  LET r == ses[s] IN
  /\ r.op = "remove"
  /\ OrgLives(r) /\ ActorLives(r)
  /\ member' = IF r.gone THEN member ELSE [member EXCEPT ![r.org][r.user] = None]
  /\ UNCHANGED <<account, org, inv, granted>>
  /\ Done(s)

(* Mutant: the doomed organizations keep their invitations. *)
CommitDeleteUncascaded(s) ==
  LET r == ses[s] IN
  /\ r.op = "delete"
  /\ ActorLives(r)
  /\ account' = [account EXCEPT ![r.actor] = "deleted"]
  /\ org' = [o \in Orgs |-> IF o \in r.doomed THEN "deleted" ELSE org[o]]
  /\ member' = [o \in Orgs |-> [member[o] EXCEPT ![r.actor] = None]]
  /\ UNCHANGED <<inv, granted>>
  /\ Done(s)

(* The user's memberships go with the account; the doomed organizations with
   whatever members and invitations they have by now (ON DELETE CASCADE). *)
CommitDelete(s) ==
  LET r == ses[s] IN
  /\ r.op = "delete"
  /\ ActorLives(r)
  /\ account' = [account EXCEPT ![r.actor] = "deleted"]
  /\ org' = [o \in Orgs |-> IF o \in r.doomed THEN "deleted" ELSE org[o]]
  /\ member' = [o \in Orgs |-> [u \in Users |->
                  IF u = r.actor \/ o \in r.doomed THEN None ELSE member[o][u]]]
  /\ inv' = [i \in Invites |-> IF Stored(i) /\ inv[i].org \in r.doomed
                                THEN [inv[i] EXCEPT !.state = "revoked"] ELSE inv[i]]
  /\ UNCHANGED granted
  /\ Done(s)

(* The commit is refused by a constraint or a missing row, the process dies,
   or the person gives up: nothing of the request is kept. *)
Abandon(s) ==
  /\ ses[s].op # "idle"
  /\ ses' = [ses EXCEPT ![s] = Idle]
  /\ UNCHANGED <<account, org, member, inv, granted>>

-----------------------------------------------------------------------------
(* `flask create-org`: no members yet. *)
CreateOrg ==
  /\ Shell
  /\ \E o \in Orgs : org[o] = "none" /\ org' = [org EXCEPT ![o] = "live"]
  /\ UNCHANGED <<account, member, inv, granted, ses>>

(* expires_at passes. *)
Expire(i) ==
  /\ inv[i].state = "open"
  /\ inv' = [inv EXCEPT ![i].state = "expired"]
  /\ UNCHANGED <<account, org, member, granted, ses>>

Init ==
  /\ account = [u \in Users |-> "none"]
  /\ org = [o \in Orgs |-> "none"]
  /\ member = [o \in Orgs |-> [u \in Users |-> None]]
  /\ inv = [i \in Invites |-> NoInvitation]
  /\ granted = [i \in Invites |-> {}]
  /\ ses = [s \in Sessions |-> Idle]

SubmitStep(s, u) ==
  \/ SubmitRegister(s, u) \/ SubmitSso(s, u) \/ SubmitCreateUser(s, u) \/ SubmitGrant(s, u)
  \/ SubmitAccept(s, u) \/ SubmitInvite(s, u) \/ SubmitRevoke(s, u)
  \/ SubmitRole(s, u) \/ SubmitRemove(s, u) \/ SubmitDelete(s, u)

CommitStep(s) ==
  \/ CommitPlace(s) \/ CommitGrant(s) \/ CommitAccept(s) \/ CommitInvite(s)
  \/ CommitRevoke(s) \/ CommitRole(s) \/ CommitRemove(s) \/ CommitDelete(s)

Next ==
  \/ \E s \in Sessions : CommitStep(s) \/ Abandon(s) \/ \E u \in Users : SubmitStep(s, u)
  \/ CreateOrg
  \/ \E i \in Invites : Expire(i)

Spec == Init /\ [][Next]_vars

-----------------------------------------------------------------------------
(* Safety. *)

(* Whatever is deleted while a request is on its way, no membership outlives
   its account or its organization, and no usable invitation its
   organization. *)
NoDanglingRows ==
  /\ \A o \in Orgs, u \in Users :
       member[o][u] # None => org[o] = "live" /\ account[u] = "live"
  /\ \A i \in Invites : Usable(i) => org[inv[i].org] = "live"

Committing(s) == ses[s].op # "idle" /\ ses'[s].op = "idle"

(* A request that commits what it read before anybody else changed those
   members leaves an organization that had an administrator with one, unless
   it deletes the organization (admin/routes.py:207, :241 and
   deletion_blockers()).  `flask grant-role` makes no such promise. *)
FreshKeepsAdmin ==
  [][\A s \in Sessions, o \in Orgs :
       /\ Committing(s) /\ ses[s].op # "grant" /\ o \notin ses[s].moved
       /\ Admins(o) # {} /\ org'[o] = "live"
       => Admins(o)' # {}]_vars

(* Nor does it leave an organization behind without any member: one that
   nobody can sign in to any more (organizations_deleted_with()). *)
FreshStrandsNothing ==
  [][\A s \in Sessions, o \in Orgs :
       /\ Committing(s) /\ o \notin ses[s].moved
       /\ Members(o) # {} /\ org'[o] = "live"
       => Members(o)' # {}]_vars

(* Nor does it delete an organization that somebody else belongs to. *)
FreshDeletesOnlyItsOwn ==
  [][\A s \in Sessions, o \in Orgs :
       /\ Committing(s) /\ o \notin ses[s].moved
       /\ org[o] = "live" /\ org'[o] = "deleted"
       => Members(o) = {ses[s].actor}]_vars

(* An invitation that has made somebody a member makes another person one only
   through a request that had read it before it was accepted
   (models/organization.py:98, "single-use"). *)
InvitationReuse ==
  [][\A s \in Sessions, i \in Invites :
       Committing(s) /\ granted'[i] # granted[i] /\ i \notin ses[s].moved
         => granted[i] = {}]_vars

(* admin/routes.py:213, "This is the only administrator. Promote someone else
   before changing this role", :242, "You cannot remove the only
   administrator": no web request takes the last one away. *)
LastAdminKept ==
  [][\A s \in Sessions, o \in Orgs :
       /\ Committing(s) /\ ses[s].op # "grant"
       /\ Admins(o) # {} /\ org'[o] = "live"
       => Admins(o)' # {}]_vars
=============================================================================
