--------------------------- MODULE MembershipProofs ---------------------------
(***************************************************************************)
(* Theorems about Membership, for any number of people, organizations,     *)
(* invitations and requests.                                               *)
(*                                                                         *)
(* The inductive invariant carries the checks a request made on what it    *)
(* read over to its commit: as long as nobody has changed the members of   *)
(* an organization since (`moved`), what was counted still holds of the    *)
(* members there are (AdminFresh, DeleteFresh), and likewise for the       *)
(* invitation it uses (AcceptFresh).                                       *)
(***************************************************************************)
EXTENDS Membership, FiniteSetTheorems, TLAPS

(* Somebody other than u is a member, an administrator, among the members m
   of an organization. *)
OtherMember(m, u) == \E v \in Users : v # u /\ m[v] # None
OtherAdmin(m, u) == \E v \in Users : v # u /\ m[v] = "admin"

Shaped(r) ==
  /\ r.op \in {"place", "accept", "invite", "revoke", "role", "remove", "delete"}
       => r.actor \in Users
  /\ r.op \in {"grant", "role", "remove"} => r.user \in Users
  /\ r.op \in {"accept", "invite", "revoke", "grant", "role", "remove"} => r.org \in Orgs
  /\ r.op \in {"place", "accept", "invite", "grant", "role"} => r.role \in Roles
  /\ r.op \in {"accept", "revoke"} => r.inv \in Invites

(* The row a request updates is there unless it has been marked as gone. *)
RowTracked(m, r) ==
  r.op \in {"grant", "role", "remove"} /\ (r.op = "grant" => ~r.insert) /\ ~r.gone
    => m[r.org][r.user] # None

AdminFresh(m, r) ==
  r.op \in {"role", "remove"} /\ r.org \notin r.moved => OtherAdmin(m[r.org], r.user)

DeleteFresh(m, r) ==
  r.op = "delete" =>
    \A o \in Orgs \ r.moved :
      /\ o \in r.doomed => \A v \in Users : m[o][v] # None <=> v = r.actor
      /\ o \notin r.doomed =>
           /\ m[o][r.actor] # None => OtherMember(m[o], r.actor)
           /\ m[o][r.actor] = "admin" => OtherAdmin(m[o], r.actor)

AcceptFresh(iv, r) ==
  r.op = "accept" /\ r.inv \notin r.moved => iv[r.inv].state \in {"open", "expired"}

Carried(m, iv, r) ==
  Shaped(r) /\ RowTracked(m, r) /\ AdminFresh(m, r) /\ DeleteFresh(m, r) /\ AcceptFresh(iv, r)

AllCarried == \A s \in Sessions : Carried(member, inv, ses[s])

(* An invitation that is stored says where to and as what; one that has made
   somebody a member is used up. *)
InvitationsSound ==
  \A i \in Invites :
    /\ Stored(i) => inv[i].org \in Orgs /\ inv[i].role \in Roles
    /\ granted[i] # {} => inv[i].state \in {"accepted", "revoked"}

IInv == TypeOK /\ NoDanglingRows /\ InvitationsSound /\ AllCarried

-----------------------------------------------------------------------------
(* Counting. *)

LEMMA MembersFinite ==
  ASSUME NEW o \in Orgs
  PROVE  /\ IsFiniteSet(Members(o)) /\ Cardinality(Members(o)) \in Nat
         /\ IsFiniteSet(Admins(o)) /\ Cardinality(Admins(o)) \in Nat
<1>1. Members(o) \subseteq Users /\ Admins(o) \subseteq Users
  BY DEF Members, Admins
<1>2. IsFiniteSet(Users)
  BY MembershipAssumption
<1>3. IsFiniteSet(Members(o)) /\ IsFiniteSet(Admins(o))
  BY <1>1, <1>2, FS_Subset
<1> QED BY <1>3, FS_CardinalityType

(* More than one element: another one. *)
LEMMA AnotherElement ==
  ASSUME NEW S, IsFiniteSet(S), NEW x \in S, Cardinality(S) # 1
  PROVE  \E y \in S : y # x
<1>1. S # {x}
  BY FS_Singleton
<1> QED BY <1>1

(* An administrator who is not the only one leaves another one behind. *)
LEMMA NotOnlyAdmin ==
  ASSUME NEW o \in Orgs, NEW u \in Users, member[o][u] = "admin", ~OnlyAdmin(o, u)
  PROVE  OtherAdmin(member[o], u)
<1>1. Cardinality(Admins(o)) # 1
  BY MembersFinite DEF OnlyAdmin
<1>2. u \in Admins(o)
  BY DEF Admins
<1>3. \E y \in Admins(o) : y # u
  BY <1>1, <1>2, MembersFinite, AnotherElement
<1> QED BY <1>3 DEF Admins, OtherAdmin

(* What delete_account() finds out about an organization of the user. *)
LEMMA DeleteChecked ==
  ASSUME NEW u \in Users, ~Blocked(u), NEW o \in Orgs
  PROVE  /\ o \in Doomed(u) => \A v \in Users : member[o][v] # None <=> v = u
         /\ o \notin Doomed(u) =>
              /\ member[o][u] # None => OtherMember(member[o], u)
              /\ member[o][u] = "admin" => OtherAdmin(member[o], u)
<1>1. CASE o \in Doomed(u)
  <2>1. u \in Members(o) /\ Cardinality(Members(o)) = 1
    BY <1>1 DEF Doomed
  <2>2. PICK x : Members(o) = {x}
    BY <2>1, MembersFinite, FS_Singleton
  <2>3. \A v \in Users : v \in Members(o) <=> v = u
    BY <2>1, <2>2
  <2> QED BY <1>1, <2>3 DEF Members
<1>2. CASE o \notin Doomed(u)
  <2>1. ASSUME member[o][u] # None
        PROVE  Cardinality(Members(o)) # 1 /\ u \in Members(o)
    BY <1>2, <2>1 DEF Doomed, Members
  <2>2. ASSUME member[o][u] # None PROVE OtherMember(member[o], u)
    <3>1. \E y \in Members(o) : y # u
      BY <2>1, <2>2, MembersFinite, AnotherElement
    <3> QED BY <3>1 DEF Members, OtherMember
  <2>3. ASSUME member[o][u] = "admin" PROVE OtherAdmin(member[o], u)
    <3>1. Cardinality(Members(o)) # 1 /\ u \in Members(o)
      BY <2>1, <2>3, MembershipAssumption
    <3>2. Cardinality(Members(o)) # 0 /\ Cardinality(Members(o)) \in Nat
      BY <3>1, MembersFinite, FS_EmptySet
    <3>3. ~OnlyAdmin(o, u)
      BY <3>1, <3>2 DEF Blocked
    <3> QED BY <2>3, <3>3, NotOnlyAdmin
  <2> QED BY <1>2, <2>2, <2>3
<1> QED BY <1>1, <1>2

-----------------------------------------------------------------------------
(* Requests in progress. *)

LEMMA IdleCarried ==
  ASSUME NEW m, NEW iv
  PROVE  Idle \in Session /\ Carried(m, iv, Idle)
BY MembershipAssumption
   DEF Idle, Session, Carried, Shaped, RowTracked, AdminFresh, DeleteFresh, AcceptFresh

LEMMA InitInv == Init => IInv
<1> SUFFICES ASSUME Init PROVE IInv
  OBVIOUS
<1>1. NoInvitation \in Invitation
  BY DEF NoInvitation, Invitation
<1>2. TypeOK
  BY <1>1, IdleCarried DEF Init, TypeOK, Life
<1>3. NoDanglingRows /\ InvitationsSound
  BY DEF Init, NoDanglingRows, InvitationsSound, NoInvitation, Usable, Stored
<1>4. AllCarried
  BY IdleCarried DEF Init, AllCarried
<1> QED BY <1>2, <1>3, <1>4 DEF IInv

(* A request starts or ends without touching the tables. *)
LEMMA SessionStepInv ==
  ASSUME IInv, NEW s \in Sessions, NEW x \in Session, Carried(member, inv, x),
         ses' = [ses EXCEPT ![s] = x], UNCHANGED <<account, org, member, inv, granted>>
  PROVE  IInv'
<1>1. TypeOK'
  BY DEF IInv, TypeOK
<1>2. NoDanglingRows' /\ InvitationsSound'
  BY DEF IInv, NoDanglingRows, InvitationsSound, Usable, Stored
<1>3. \A t \in Sessions : ses'[t] = IF t = s THEN x ELSE ses[t]
  BY DEF IInv, TypeOK
<1>4. AllCarried'
  BY <1>3 DEF IInv, AllCarried
<1> QED BY <1>1, <1>2, <1>4 DEF IInv

(* What a commit of another request does to one that waits. *)
LEMMA AgedCarried ==
  ASSUME NEW r \in Session, Carried(member, inv, r)
  PROVE  Aged(r) \in Session /\ Carried(member', inv', Aged(r))
<1> DEFINE moved == r.moved \union {o \in Orgs \cap Watched(r) : member'[o] # member[o]}
                            \union {i \in Invites \cap Watched(r) : inv'[i] # inv[i]}
           gone == r.gone \/ (r.user # None /\ member[r.org][r.user] # None
                              /\ member'[r.org][r.user] = None)
           x == Aged(r)
<1>1. x = [r EXCEPT !.moved = moved, !.gone = gone]
  BY DEF Aged
<1>2. moved \in SUBSET (Orgs \union Invites) /\ gone \in BOOLEAN
  <2>1. r.moved \in SUBSET (Orgs \union Invites) /\ r.gone \in BOOLEAN
    BY DEF Session
  <2> QED BY <2>1
<1>3. /\ x \in Session
      /\ x.op = r.op /\ x.actor = r.actor /\ x.org = r.org /\ x.user = r.user
      /\ x.role = r.role /\ x.inv = r.inv /\ x.doomed = r.doomed /\ x.insert = r.insert
      /\ x.moved = moved /\ x.gone = gone
  <2> HIDE DEF moved, gone, x
  <2>1. x \in Session
    BY <1>1, <1>2 DEF Session
  <2>2. /\ x.op = r.op /\ x.actor = r.actor /\ x.org = r.org /\ x.user = r.user
        /\ x.role = r.role /\ x.inv = r.inv /\ x.doomed = r.doomed /\ x.insert = r.insert
    BY <1>1 DEF Session
  <2>3. x.moved = moved /\ x.gone = gone
    BY <1>1 DEF Session
  <2> QED BY <2>1, <2>2, <2>3
<1> HIDE DEF x
<1>4. Shaped(x)
  BY <1>3 DEF Carried, Shaped
<1>5. RowTracked(member', x)
  BY <1>3, MembershipAssumption DEF Carried, RowTracked, Shaped
<1>6. AdminFresh(member', x)
  <2> SUFFICES ASSUME r.op \in {"role", "remove"}, r.org \notin x.moved
               PROVE  OtherAdmin(member'[r.org], r.user)
    BY <1>3 DEF AdminFresh
  <2>1. r.org \in Orgs /\ r.org \in Watched(r)
    BY DEF Carried, Shaped, Watched
  <2>2. member'[r.org] = member[r.org] /\ r.org \notin r.moved
    BY <1>3, <2>1
  <2> QED BY <2>2 DEF Carried, AdminFresh
<1>7. DeleteFresh(member', x)
  <2> SUFFICES ASSUME r.op = "delete", NEW o \in Orgs \ x.moved
               PROVE  /\ o \in r.doomed =>
                           \A v \in Users : member'[o][v] # None <=> v = r.actor
                      /\ o \notin r.doomed =>
                           /\ member'[o][r.actor] # None => OtherMember(member'[o], r.actor)
                           /\ member'[o][r.actor] = "admin" => OtherAdmin(member'[o], r.actor)
    BY <1>3 DEF DeleteFresh
  <2>1. o \in Orgs /\ o \in Watched(r)
    BY DEF Watched
  <2>2. member'[o] = member[o] /\ o \in Orgs \ r.moved
    BY <1>3, <2>1
  <2> QED BY <2>2 DEF Carried, DeleteFresh
<1>8. AcceptFresh(inv', x)
  <2> SUFFICES ASSUME r.op = "accept", r.inv \notin x.moved
               PROVE  inv'[r.inv].state \in {"open", "expired"}
    BY <1>3 DEF AcceptFresh
  <2>1. r.inv \in Invites /\ r.inv \in Watched(r)
    BY DEF Carried, Shaped, Watched
  <2>2. inv'[r.inv] = inv[r.inv] /\ r.inv \notin r.moved
    BY <1>3, <2>1
  <2> QED BY <2>2 DEF Carried, AcceptFresh
<1> QED BY <1>3, <1>4, <1>5, <1>6, <1>7, <1>8 DEF Carried, x

(* A commit ends its own request and leaves the others what they carry. *)
LEMMA DoneCarried ==
  ASSUME IInv, NEW s \in Sessions, Done(s)
  PROVE  AllCarried' /\ ses' \in [Sessions -> Session]
<1>1. ASSUME NEW t \in Sessions
      PROVE  ses'[t] \in Session /\ Carried(member', inv', ses'[t])
  <2>1. ses[t] \in Session /\ Carried(member, inv, ses[t])
    BY DEF IInv, TypeOK, AllCarried
  <2>2. ses'[t] = Idle \/ ses'[t] = Aged(ses[t])
    BY DEF Done
  <2> QED BY <2>1, <2>2, IdleCarried, AgedCarried
<1>2. ses' = [t \in Sessions |-> ses'[t]]
  BY DEF Done
<1> QED BY <1>1, <1>2 DEF AllCarried

-----------------------------------------------------------------------------
(* What the handlers read and check before they submit. *)

LEMMA SubmitInv ==
  ASSUME IInv, NEW s \in Sessions, NEW r \in Session, Carried(member, inv, r), Submit(s, r)
  PROVE  IInv'
BY SessionStepInv DEF Submit

(* A sign-up on its way into organization o, or a new one. *)
Placing(u, fresh, r, o) ==
  [Idle EXCEPT !.op = "place", !.actor = u, !.fresh = fresh, !.role = r, !.org = o]

LEMMA SignUpsInv ==
  ASSUME IInv, NEW s \in Sessions, NEW u \in Users,
         SubmitRegister(s, u) \/ SubmitSso(s, u) \/ SubmitCreateUser(s, u)
  PROVE  IInv'
<1>1. \E o \in Orgs \union {None}, r \in Roles, fresh \in BOOLEAN :
        Submit(s, Placing(u, fresh, r, o))
  <2>1. CASE SubmitRegister(s, u)
    <3>1. [Idle EXCEPT !.op = "place", !.actor = u, !.fresh = TRUE, !.role = "admin"]
            = Placing(u, TRUE, "admin", None)
      <4> DEFINE y == [Idle EXCEPT !.op = "place", !.actor = u, !.fresh = TRUE,
                                   !.role = "admin"]
      <4>1. y \in Session /\ y.org = None
        BY MembershipAssumption DEF Idle, Session
      <4>2. Placing(u, TRUE, "admin", None) = [y EXCEPT !.org = None]
        BY DEF Placing
      <4> HIDE DEF y
      <4>3. [y EXCEPT !.org = None] = y
        BY <4>1 DEF Session
      <4> QED BY <4>2, <4>3 DEF y
    <3>2. Submit(s, Placing(u, TRUE, "admin", None))
      BY <2>1, <3>1 DEF SubmitRegister
    <3> QED BY <3>2, MembershipAssumption
  <2>2. CASE SubmitSso(s, u)
    <3> DEFINE o == IF DefaultOrg # None /\ org[DefaultOrg] = "live" THEN DefaultOrg ELSE None
               fresh == (account[u] = "none")
    <3>1. o \in Orgs \union {None} /\ fresh \in BOOLEAN
      BY MembershipAssumption
    <3>2. [Idle EXCEPT !.op = "place", !.actor = u, !.fresh = fresh, !.role = "editor",
                       !.org = o]
            = Placing(u, fresh, "editor", o)
      BY DEF Placing
    <3>3. Submit(s, Placing(u, fresh, "editor", o))
      BY <2>2, <3>2 DEF SubmitSso
    <3> HIDE DEF o, fresh
    <3> QED BY <3>1, <3>3, MembershipAssumption
  <2>3. CASE SubmitCreateUser(s, u)
    <3>1. PICK o \in Orgs \union {None}, r \in Roles :
            Submit(s, [Idle EXCEPT !.op = "place", !.actor = u, !.fresh = TRUE, !.org = o,
                                   !.role = r])
      BY <2>3 DEF SubmitCreateUser
    <3>2. [Idle EXCEPT !.op = "place", !.actor = u, !.fresh = TRUE, !.org = o, !.role = r]
            = Placing(u, TRUE, r, o)
      BY DEF Idle, Placing
    <3>3. Submit(s, Placing(u, TRUE, r, o))
      BY <3>1, <3>2
    <3> QED BY <3>3
  <2> QED BY <2>1, <2>2, <2>3
<1>2. PICK o \in Orgs \union {None}, r \in Roles, fresh \in BOOLEAN :
        Submit(s, Placing(u, fresh, r, o))
  BY <1>1
<1> DEFINE x == Placing(u, fresh, r, o)
<1>3. x \in Session
  BY DEF Idle, Session, Placing
<1>4. x.op = "place" /\ x.actor = u /\ x.role = r
  BY DEF Idle, Placing
<1>5. Submit(s, x)
  BY <1>2
<1> HIDE DEF x
<1>6. Carried(member, inv, x)
  BY <1>4 DEF Carried, Shaped, RowTracked, AdminFresh, DeleteFresh, AcceptFresh
<1> QED BY <1>3, <1>5, <1>6, SubmitInv

LEMMA SubmitGrantInv ==
  ASSUME IInv, NEW s \in Sessions, NEW u \in Users, SubmitGrant(s, u)
  PROVE  IInv'
<1>1. PICK o \in Orgs, r \in Roles :
        Submit(s, [Idle EXCEPT !.op = "grant", !.org = o, !.user = u, !.role = r,
                               !.insert = (member[o][u] = None)])
  BY DEF SubmitGrant
<1> DEFINE x == [Idle EXCEPT !.op = "grant", !.org = o, !.user = u, !.role = r,
                             !.insert = (member[o][u] = None)]
<1>2. x \in Session
  BY DEF Idle, Session
<1>3. x.op = "grant" /\ x.org = o /\ x.user = u /\ x.role = r
      /\ (x.insert <=> member[o][u] = None)
  BY DEF Idle
<1>4. Submit(s, x)
  BY <1>1
<1> HIDE DEF x
<1>5. Carried(member, inv, x)
  BY <1>3 DEF Carried, Shaped, RowTracked, AdminFresh, DeleteFresh, AcceptFresh
<1> QED BY <1>2, <1>4, <1>5, SubmitInv

LEMMA SubmitAcceptInv ==
  ASSUME IInv, NEW s \in Sessions, NEW u \in Users, SubmitAccept(s, u)
  PROVE  IInv'
<1>1. PICK i \in Invites :
        /\ Usable(i)
        /\ Submit(s, [Idle EXCEPT !.op = "accept", !.actor = u, !.inv = i,
                                  !.org = inv[i].org, !.role = inv[i].role,
                                  !.fresh = (account[u] = "none"),
                                  !.insert = (member[inv[i].org][u] = None)])
  BY DEF SubmitAccept
<1> DEFINE x == [Idle EXCEPT !.op = "accept", !.actor = u, !.inv = i,
                             !.org = inv[i].org, !.role = inv[i].role,
                             !.fresh = (account[u] = "none"),
                             !.insert = (member[inv[i].org][u] = None)]
<1>2. inv[i].org \in Orgs /\ inv[i].role \in Roles /\ inv[i].state = "open"
  BY <1>1 DEF IInv, InvitationsSound, Usable, Stored
<1>3. x \in Session
  BY <1>2 DEF Idle, Session
<1>4. /\ x.op = "accept" /\ x.actor = u /\ x.inv = i
      /\ x.org = inv[i].org /\ x.role = inv[i].role
  BY DEF Idle
<1>5. Submit(s, x)
  BY <1>1
<1> HIDE DEF x
<1>6. Carried(member, inv, x)
  BY <1>2, <1>4 DEF Carried, Shaped, RowTracked, AdminFresh, DeleteFresh, AcceptFresh
<1> QED BY <1>3, <1>5, <1>6, SubmitInv

LEMMA SubmitInvitationsInv ==
  ASSUME IInv, NEW s \in Sessions, NEW a \in Users, SubmitInvite(s, a) \/ SubmitRevoke(s, a)
  PROVE  IInv'
<1>1. CASE SubmitInvite(s, a)
  <2>1. PICK o \in Orgs, r \in Roles :
          Submit(s, [Idle EXCEPT !.op = "invite", !.actor = a, !.org = o, !.role = r])
    BY <1>1 DEF SubmitInvite
  <2> DEFINE x == [Idle EXCEPT !.op = "invite", !.actor = a, !.org = o, !.role = r]
  <2>2. x \in Session
    BY DEF Idle, Session
  <2>3. x.op = "invite" /\ x.actor = a /\ x.org = o /\ x.role = r
    BY DEF Idle
  <2>4. Submit(s, x)
    BY <2>1
  <2> HIDE DEF x
  <2>5. Carried(member, inv, x)
    BY <2>3 DEF Carried, Shaped, RowTracked, AdminFresh, DeleteFresh, AcceptFresh
  <2> QED BY <2>2, <2>4, <2>5, SubmitInv
<1>2. CASE SubmitRevoke(s, a)
  <2>1. PICK i \in Invites :
          /\ Stored(i)
          /\ Submit(s, [Idle EXCEPT !.op = "revoke", !.actor = a, !.org = inv[i].org,
                                    !.inv = i])
    BY <1>2 DEF SubmitRevoke
  <2> DEFINE x == [Idle EXCEPT !.op = "revoke", !.actor = a, !.org = inv[i].org, !.inv = i]
  <2>2. inv[i].org \in Orgs
    BY <2>1 DEF IInv, InvitationsSound, Stored
  <2>3. x \in Session
    BY <2>2 DEF Idle, Session
  <2>4. x.op = "revoke" /\ x.actor = a /\ x.org = inv[i].org /\ x.inv = i
    BY DEF Idle
  <2>5. Submit(s, x)
    BY <2>1
  <2> HIDE DEF x
  <2>6. Carried(member, inv, x)
    BY <2>2, <2>4 DEF Carried, Shaped, RowTracked, AdminFresh, DeleteFresh, AcceptFresh
  <2> QED BY <2>3, <2>5, <2>6, SubmitInv
<1> QED BY <1>1, <1>2

(* An administrator acts on somebody: whoever that is, another one remains. *)
LEMMA AdminActs ==
  ASSUME NEW o \in Orgs, NEW a \in Users, NEW u \in Users, IsAdmin(a, o), ~OnlyAdmin(o, u)
  PROVE  OtherAdmin(member[o], u)
<1>1. CASE member[o][u] = "admin"
  BY <1>1, NotOnlyAdmin
<1>2. CASE member[o][u] # "admin"
  BY <1>2 DEF IsAdmin, OtherAdmin
<1> QED BY <1>1, <1>2

LEMMA SubmitMembersInv ==
  ASSUME IInv, NEW s \in Sessions, NEW a \in Users, SubmitRole(s, a) \/ SubmitRemove(s, a)
  PROVE  IInv'
<1>1. CASE SubmitRole(s, a)
  <2>1. PICK o \in Orgs, u \in Users, r \in Roles :
          /\ IsAdmin(a, o) /\ member[o][u] # None /\ ~OnlyAdmin(o, u)
          /\ Submit(s, [Idle EXCEPT !.op = "role", !.actor = a, !.org = o, !.user = u,
                                    !.role = r])
    BY <1>1 DEF SubmitRole
  <2> DEFINE x == [Idle EXCEPT !.op = "role", !.actor = a, !.org = o, !.user = u, !.role = r]
  <2>2. x \in Session
    BY DEF Idle, Session
  <2>3. x.op = "role" /\ x.actor = a /\ x.org = o /\ x.user = u /\ x.role = r
    BY DEF Idle
  <2>4. Submit(s, x) /\ member[o][u] # None /\ OtherAdmin(member[o], u)
    BY <2>1, AdminActs
  <2> HIDE DEF x
  <2>5. Carried(member, inv, x)
    BY <2>3, <2>4 DEF Carried, Shaped, RowTracked, AdminFresh, DeleteFresh, AcceptFresh
  <2> QED BY <2>2, <2>4, <2>5, SubmitInv
<1>2. CASE SubmitRemove(s, a)
  <2>1. PICK o \in Orgs, u \in Users :
          /\ IsAdmin(a, o) /\ member[o][u] # None /\ ~OnlyAdmin(o, u)
          /\ Submit(s, [Idle EXCEPT !.op = "remove", !.actor = a, !.org = o, !.user = u])
    BY <1>2 DEF SubmitRemove
  <2> DEFINE x == [Idle EXCEPT !.op = "remove", !.actor = a, !.org = o, !.user = u]
  <2>2. x \in Session
    BY DEF Idle, Session
  <2>3. x.op = "remove" /\ x.actor = a /\ x.org = o /\ x.user = u
    BY DEF Idle
  <2>4. Submit(s, x) /\ member[o][u] # None /\ OtherAdmin(member[o], u)
    BY <2>1, AdminActs
  <2> HIDE DEF x
  <2>5. Carried(member, inv, x)
    BY <2>3, <2>4 DEF Carried, Shaped, RowTracked, AdminFresh, DeleteFresh, AcceptFresh
  <2> QED BY <2>2, <2>4, <2>5, SubmitInv
<1> QED BY <1>1, <1>2

LEMMA SubmitDeleteInv ==
  ASSUME IInv, NEW s \in Sessions, NEW u \in Users, SubmitDelete(s, u)
  PROVE  IInv'
<1> DEFINE x == [Idle EXCEPT !.op = "delete", !.actor = u, !.doomed = Doomed(u)]
<1>1. Doomed(u) \in SUBSET Orgs
  BY DEF Doomed
<1>2. x \in Session
  BY <1>1 DEF Idle, Session
<1>3. x.op = "delete" /\ x.actor = u /\ x.doomed = Doomed(u)
  BY DEF Idle
<1>4. Submit(s, x) /\ ~Blocked(u)
  BY DEF SubmitDelete
<1> HIDE DEF x
<1>5. DeleteFresh(member, x)
  BY <1>3, <1>4, DeleteChecked DEF DeleteFresh
<1>6. Carried(member, inv, x)
  BY <1>3, <1>5 DEF Carried, Shaped, RowTracked, AdminFresh, AcceptFresh
<1> QED BY <1>2, <1>4, <1>6, SubmitInv

LEMMA SubmitStepInv ==
  ASSUME IInv, NEW s \in Sessions, NEW u \in Users, SubmitStep(s, u)
  PROVE  IInv'
BY SignUpsInv, SubmitGrantInv, SubmitAcceptInv, SubmitInvitationsInv, SubmitMembersInv,
   SubmitDeleteInv DEF SubmitStep

-----------------------------------------------------------------------------
(* What the commits write. *)

TablesTyped ==
  /\ account \in [Users -> Life]
  /\ org \in [Orgs -> Life]
  /\ member \in [Orgs -> [Users -> Roles \union {None}]]
  /\ inv \in [Invites -> Invitation]
  /\ granted \in [Invites -> SUBSET Users]

LEMMA CommitInv ==
  ASSUME IInv, NEW s \in Sessions, Done(s),
         TablesTyped', NoDanglingRows', InvitationsSound'
  PROVE  IInv'
BY DoneCarried DEF IInv, TypeOK, TablesTyped

(* Giving a user of a live organization a role: the rows stay referenced. *)
LEMMA MemberWritten ==
  ASSUME IInv, NEW o \in Orgs, NEW u \in Users, NEW x \in Roles \union {None},
         member' = [member EXCEPT ![o][u] = x],
         org' \in [Orgs -> Life], account' \in [Users -> Life],
         \A p \in Orgs : org[p] = "live" => org'[p] = "live",
         \A v \in Users : account[v] = "live" => account'[v] = "live",
         x # None => org'[o] = "live" /\ account'[u] = "live",
         inv' \in [Invites -> Invitation], granted' \in [Invites -> SUBSET Users],
         \A i \in Invites : inv'[i] = inv[i] \/ inv'[i].state # "open"
  PROVE  TablesTyped' /\ NoDanglingRows'
<1>1. member \in [Orgs -> [Users -> Roles \union {None}]]
  BY DEF IInv, TypeOK
<1>2. member' \in [Orgs -> [Users -> Roles \union {None}]]
  BY <1>1
<1>3. \A p \in Orgs, v \in Users :
        member'[p][v] = IF p = o /\ v = u THEN x ELSE member[p][v]
  BY <1>1
<1>4. ASSUME NEW p \in Orgs, NEW v \in Users, member'[p][v] # None
      PROVE  org'[p] = "live" /\ account'[v] = "live"
  <2>1. CASE p = o /\ v = u
    BY <1>3, <1>4, <2>1
  <2>2. CASE ~(p = o /\ v = u)
    BY <1>3, <1>4, <2>2 DEF IInv, NoDanglingRows
  <2> QED BY <2>1, <2>2
<1>5. ASSUME NEW i \in Invites, inv'[i].state = "open" PROVE org'[inv'[i].org] = "live"
  <2>1. inv'[i] = inv[i] /\ inv[i].org \in Orgs
    BY <1>5 DEF IInv, InvitationsSound, Stored
  <2> QED BY <1>5, <2>1 DEF IInv, NoDanglingRows, Usable
<1> QED BY <1>2, <1>4, <1>5 DEF TablesTyped, NoDanglingRows, Usable

(* Signing up makes an account live and takes none away. *)
LEMMA SignedUp ==
  ASSUME IInv, NEW r \in Session, r.actor \in Users, SignUp(r)
  PROVE  /\ account' \in [Users -> Life]
         /\ \A v \in Users : account[v] = "live" => account'[v] = "live"
         /\ AccountFits(r) => account'[r.actor] = "live"
BY DEF IInv, TypeOK, SignUp, AccountFits, Life

LEMMA CommitPlaceInv ==
  ASSUME IInv, NEW s \in Sessions, CommitPlace(s)
  PROVE  IInv'
<1> DEFINE r == ses[s]
<1>1. r \in Session /\ r.actor \in Users /\ r.role \in Roles
  BY DEF IInv, TypeOK, AllCarried, Carried, Shaped, CommitPlace
<1>2. SignUp(r) /\ AccountFits(r) /\ UNCHANGED <<inv, granted>> /\ Done(s)
  BY DEF CommitPlace
<1>3. PICK o \in Orgs : /\ org' = [org EXCEPT ![o] = "live"]
                        /\ member' = [member EXCEPT ![o][r.actor] = r.role]
  BY DEF CommitPlace
<1> HIDE DEF r
<1>4. /\ org' \in [Orgs -> Life] /\ org'[o] = "live"
      /\ \A p \in Orgs : org[p] = "live" => org'[p] = "live"
  BY <1>3 DEF IInv, TypeOK, Life
<1>5. inv' \in [Invites -> Invitation] /\ granted' \in [Invites -> SUBSET Users]
  BY <1>2 DEF IInv, TypeOK
<1>6. InvitationsSound'
  BY <1>2 DEF IInv, InvitationsSound, Stored
<1>7. TablesTyped' /\ NoDanglingRows'
  BY <1>1, <1>2, <1>3, <1>4, <1>5, SignedUp, MemberWritten
<1> QED BY <1>2, <1>6, <1>7, CommitInv

LEMMA CommitGrantInv ==
  ASSUME IInv, NEW s \in Sessions, CommitGrant(s)
  PROVE  IInv'
<1> DEFINE r == ses[s]
<1>1. r \in Session /\ r.user \in Users /\ r.org \in Orgs /\ r.role \in Roles
  BY DEF IInv, TypeOK, AllCarried, Carried, Shaped, CommitGrant
<1>2. RowTracked(member, r) /\ r.op = "grant"
  BY DEF IInv, AllCarried, Carried, CommitGrant
<1>3. /\ UNCHANGED <<account, org, inv, granted>> /\ Done(s)
      /\ member' = [member EXCEPT ![r.org][r.user] = r.role]
      /\ IF r.insert THEN account[r.user] = "live" /\ org[r.org] = "live" ELSE ~r.gone
  BY DEF CommitGrant, OrgLives
<1> HIDE DEF r
<1>4. org'[r.org] = "live" /\ account'[r.user] = "live"
  BY <1>1, <1>2, <1>3 DEF RowTracked, IInv, NoDanglingRows
<1>5. /\ org' \in [Orgs -> Life] /\ account' \in [Users -> Life]
      /\ inv' \in [Invites -> Invitation] /\ granted' \in [Invites -> SUBSET Users]
  BY <1>3 DEF IInv, TypeOK
<1>6. InvitationsSound'
  BY <1>3 DEF IInv, InvitationsSound, Stored
<1>7. TablesTyped' /\ NoDanglingRows'
  BY <1>1, <1>3, <1>4, <1>5, MemberWritten
<1> QED BY <1>3, <1>6, <1>7, CommitInv

LEMMA CommitAcceptInv ==
  ASSUME IInv, NEW s \in Sessions, CommitAccept(s)
  PROVE  IInv'
<1> DEFINE r == ses[s]
<1>1. /\ r \in Session /\ r.actor \in Users /\ r.org \in Orgs /\ r.role \in Roles
      /\ r.inv \in Invites
  BY DEF IInv, TypeOK, AllCarried, Carried, Shaped, CommitAccept
<1>2. /\ SignUp(r) /\ UNCHANGED org /\ Done(s)
      /\ Stored(r.inv) /\ inv' = [inv EXCEPT ![r.inv].state = "accepted"]
      /\ AccountFits(r) \/ ~r.insert
  BY DEF CommitAccept
<1>3. \/ /\ r.insert /\ OrgLives(r)
         /\ member' = [member EXCEPT ![r.org][r.actor] = r.role]
         /\ granted' = [granted EXCEPT ![r.inv] = granted[r.inv] \union {r.actor}]
      \/ ~r.insert /\ UNCHANGED <<member, granted>>
  BY DEF CommitAccept
<1> HIDE DEF r
<1>4. /\ inv \in [Invites -> Invitation] /\ granted \in [Invites -> SUBSET Users]
      /\ org' \in [Orgs -> Life]
  BY <1>2 DEF IInv, TypeOK
<1>5. /\ inv' \in [Invites -> Invitation]
      /\ \A i \in Invites : inv'[i].org = inv[i].org /\ inv'[i].role = inv[i].role
      /\ \A i \in Invites : i # r.inv => inv'[i] = inv[i]
      /\ inv'[r.inv].state = "accepted"
  BY <1>1, <1>2, <1>4 DEF Invitation
<1>6. /\ granted' \in [Invites -> SUBSET Users]
      /\ \A i \in Invites : i # r.inv => granted'[i] = granted[i]
  BY <1>1, <1>3, <1>4
<1>7. InvitationsSound'
  BY <1>1, <1>2, <1>5, <1>6 DEF IInv, InvitationsSound, Stored
<1>8. CASE r.insert
  <2>1. /\ org'[r.org] = "live" /\ AccountFits(r)
        /\ member' = [member EXCEPT ![r.org][r.actor] = r.role]
    BY <1>2, <1>3, <1>8 DEF OrgLives
  <2>2. TablesTyped' /\ NoDanglingRows'
    BY <1>1, <1>2, <1>4, <1>5, <1>6, <2>1, SignedUp, MemberWritten
  <2> QED BY <1>2, <1>7, <2>2, CommitInv
<1>9. CASE ~r.insert
  <2>1. member' = member
    BY <1>3, <1>9
  <2>2. TablesTyped'
    BY <1>1, <1>2, <1>4, <1>5, <1>6, <2>1, SignedUp DEF TablesTyped, IInv, TypeOK
  <2>3. NoDanglingRows'
    BY <1>1, <1>2, <1>5, <2>1, SignedUp DEF IInv, NoDanglingRows, Usable
  <2> QED BY <1>2, <1>7, <2>2, <2>3, CommitInv
<1> QED BY <1>8, <1>9

(* An invitation is sent, revoked or expires. *)
LEMMA InvitationWritten ==
  ASSUME IInv, NEW i \in Invites, NEW n \in Invitation,
         inv' = [inv EXCEPT ![i] = n], UNCHANGED <<account, org, member, granted>>,
         n.state # "revoked" => n.org \in Orgs /\ n.role \in Roles,
         n.state = "open" => org[n.org] = "live",
         granted[i] # {} => n.state \in {"accepted", "revoked"}
  PROVE  TablesTyped' /\ NoDanglingRows' /\ InvitationsSound'
<1>1. TablesTyped'
  BY DEF IInv, TypeOK, TablesTyped
<1>2. \A j \in Invites : inv'[j] = IF j = i THEN n ELSE inv[j]
  BY DEF IInv, TypeOK
<1>3. NoDanglingRows'
  BY <1>2 DEF IInv, NoDanglingRows, Usable
<1>4. InvitationsSound'
  <2> SUFFICES ASSUME NEW j \in Invites
               PROVE  /\ Stored(j)' => inv'[j].org \in Orgs /\ inv'[j].role \in Roles
                      /\ granted'[j] # {} => inv'[j].state \in {"accepted", "revoked"}
    BY DEF InvitationsSound
  <2>1. CASE j # i
    BY <1>2, <2>1 DEF IInv, InvitationsSound, Stored
  <2>2. CASE j = i
    BY <1>2, <2>2 DEF Stored
  <2> QED BY <2>1, <2>2
<1> QED BY <1>1, <1>3, <1>4

LEMMA CommitInviteInv ==
  ASSUME IInv, NEW s \in Sessions, CommitInvite(s)
  PROVE  IInv'
<1> DEFINE r == ses[s]
<1>1. /\ Done(s) /\ UNCHANGED <<account, org, member, granted>>
      /\ r.org \in Orgs /\ r.role \in Roles /\ org[r.org] = "live"
  BY DEF IInv, AllCarried, Carried, Shaped, CommitInvite, OrgLives
<1>2. PICK i \in Invites :
        /\ inv[i].state = "none"
        /\ inv' = [inv EXCEPT ![i] = [state |-> "open", org |-> r.org, role |-> r.role]]
  BY DEF CommitInvite
<1> DEFINE n == [state |-> "open", org |-> r.org, role |-> r.role]
<1>3. n \in Invitation /\ n.org = r.org /\ n.state = "open" /\ n.role = r.role
  BY <1>1 DEF Invitation
<1>4. inv' = [inv EXCEPT ![i] = n]
  BY <1>2
<1> HIDE DEF n, r
<1>5. granted[i] = {}
  BY <1>2 DEF IInv, InvitationsSound
<1>6. TablesTyped' /\ NoDanglingRows' /\ InvitationsSound'
  BY <1>1, <1>3, <1>4, <1>5, InvitationWritten
<1> QED BY <1>1, <1>6, CommitInv

LEMMA CommitRevokeInv ==
  ASSUME IInv, NEW s \in Sessions, CommitRevoke(s)
  PROVE  IInv'
<1> DEFINE i == ses[s].inv
           n == [inv[i] EXCEPT !.state = "revoked"]
<1>1. /\ Done(s) /\ UNCHANGED <<account, org, member, granted>>
      /\ i \in Invites /\ inv' = [inv EXCEPT ![i].state = "revoked"]
  BY DEF IInv, AllCarried, Carried, Shaped, CommitRevoke
<1>2. n \in Invitation /\ n.state = "revoked"
  BY <1>1 DEF IInv, TypeOK, Invitation
<1>3. inv' = [inv EXCEPT ![i] = n]
  BY <1>1
<1> HIDE DEF i, n
<1>4. TablesTyped' /\ NoDanglingRows' /\ InvitationsSound'
  BY <1>1, <1>2, <1>3, InvitationWritten
<1> QED BY <1>1, <1>4, CommitInv

LEMMA CommitMembersInv ==
  ASSUME IInv, NEW s \in Sessions, CommitRole(s) \/ CommitRemove(s)
  PROVE  IInv'
<1> DEFINE r == ses[s]
<1>1. /\ Done(s) /\ UNCHANGED <<account, org, inv, granted>>
      /\ r.org \in Orgs /\ r.user \in Users
  BY DEF IInv, AllCarried, Carried, Shaped, CommitRole, CommitRemove
<1>2. /\ org' \in [Orgs -> Life] /\ account' \in [Users -> Life]
      /\ inv' \in [Invites -> Invitation] /\ granted' \in [Invites -> SUBSET Users]
      /\ InvitationsSound'
  BY <1>1 DEF IInv, TypeOK, InvitationsSound, Stored
<1>3. TablesTyped' /\ NoDanglingRows'
  <2>1. CASE CommitRole(s)
    <3>1. /\ r.role \in Roles /\ ~r.gone /\ r.op = "role" /\ RowTracked(member, r)
          /\ member' = [member EXCEPT ![r.org][r.user] = r.role]
      BY <2>1 DEF IInv, AllCarried, Carried, Shaped, CommitRole
    <3>2. org'[r.org] = "live" /\ account'[r.user] = "live"
      BY <1>1, <3>1 DEF RowTracked, IInv, NoDanglingRows
    <3> HIDE DEF r
    <3> QED BY <1>1, <1>2, <3>1, <3>2, MemberWritten
  <2>2. CASE CommitRemove(s) /\ ~r.gone
    <3>1. member' = [member EXCEPT ![r.org][r.user] = None]
      BY <2>2 DEF CommitRemove
    <3> HIDE DEF r
    <3> QED BY <1>1, <1>2, <3>1, MemberWritten
  <2>3. CASE CommitRemove(s) /\ r.gone
    <3>1. member' = member
      BY <2>3 DEF CommitRemove
    <3> QED BY <1>1, <1>2, <3>1 DEF IInv, TypeOK, TablesTyped, NoDanglingRows, Usable
  <2> QED BY <2>1, <2>2, <2>3
<1> QED BY <1>1, <1>2, <1>3, CommitInv

LEMMA CommitDeleteInv ==
  ASSUME IInv, NEW s \in Sessions, CommitDelete(s)
  PROVE  IInv'
<1> DEFINE r == ses[s]
<1>1. /\ Done(s) /\ granted' = granted
      /\ account' = [account EXCEPT ![r.actor] = "deleted"]
      /\ org' = [o \in Orgs |-> IF o \in r.doomed THEN "deleted" ELSE org[o]]
      /\ member' = [o \in Orgs |-> [u \in Users |->
                      IF u = r.actor \/ o \in r.doomed THEN None ELSE member[o][u]]]
      /\ inv' = [i \in Invites |-> IF Stored(i) /\ inv[i].org \in r.doomed
                                    THEN [inv[i] EXCEPT !.state = "revoked"] ELSE inv[i]]
      /\ r.actor \in Users
  BY DEF IInv, AllCarried, Carried, Shaped, CommitDelete
<1> HIDE DEF r
<1>2. /\ account' \in [Users -> Life] /\ org' \in [Orgs -> Life]
      /\ member' \in [Orgs -> [Users -> Roles \union {None}]]
      /\ granted' \in [Invites -> SUBSET Users]
  BY <1>1 DEF IInv, TypeOK, Life
<1>3. ASSUME NEW i \in Invites
      PROVE  /\ inv'[i] \in Invitation
             /\ inv'[i].org = inv[i].org /\ inv'[i].role = inv[i].role
             /\ IF Stored(i) /\ inv[i].org \in r.doomed THEN inv'[i].state = "revoked"
                                                        ELSE inv'[i] = inv[i]
  <2>1. inv[i] \in Invitation
    BY DEF IInv, TypeOK
  <2> QED BY <1>1, <2>1 DEF Invitation
<1>4. inv' \in [Invites -> Invitation]
  BY <1>1, <1>3
<1>5. InvitationsSound'
  <2> SUFFICES ASSUME NEW i \in Invites
               PROVE  /\ Stored(i)' => inv'[i].org \in Orgs /\ inv'[i].role \in Roles
                      /\ granted'[i] # {} => inv'[i].state \in {"accepted", "revoked"}
    BY DEF InvitationsSound
  <2> QED BY <1>1, <1>3 DEF IInv, InvitationsSound, Stored
<1>6. NoDanglingRows'
  <2>1. ASSUME NEW o \in Orgs, NEW u \in Users, member'[o][u] # None
        PROVE  org'[o] = "live" /\ account'[u] = "live"
    <3>1. u # r.actor /\ o \notin r.doomed /\ member[o][u] # None
      BY <1>1, <2>1
    <3>2. org[o] = "live" /\ account[u] = "live"
      BY <3>1 DEF IInv, NoDanglingRows
    <3> QED BY <1>1, <3>1, <3>2 DEF IInv, TypeOK
  <2>2. ASSUME NEW i \in Invites, inv'[i].state = "open" PROVE org'[inv'[i].org] = "live"
    <3>1. inv'[i] = inv[i] /\ inv[i].org \in Orgs /\ inv[i].org \notin r.doomed
      BY <1>3, <2>2 DEF IInv, InvitationsSound, Stored
    <3> QED BY <1>1, <2>2, <3>1 DEF IInv, NoDanglingRows, Usable
  <2> QED BY <2>1, <2>2 DEF NoDanglingRows, Usable
<1> QED BY <1>1, <1>2, <1>4, <1>5, <1>6, CommitInv DEF TablesTyped

-----------------------------------------------------------------------------
LEMMA OtherStepInv ==
  ASSUME IInv,
         \/ CreateOrg
         \/ \E i \in Invites : Expire(i)
         \/ \E s \in Sessions : Abandon(s)
  PROVE  IInv'
<1>1. CASE CreateOrg
  <2>1. PICK o \in Orgs : org' = [org EXCEPT ![o] = "live"]
    BY <1>1 DEF CreateOrg
  <2>2. UNCHANGED <<account, member, inv, granted, ses>>
    BY <1>1 DEF CreateOrg
  <2> QED BY <2>1, <2>2 DEF IInv, TypeOK, Life, NoDanglingRows, InvitationsSound, Usable,
                            Stored, AllCarried
<1>2. ASSUME NEW i \in Invites, Expire(i) PROVE IInv'
  <2> DEFINE n == [inv[i] EXCEPT !.state = "expired"]
  <2>1. /\ inv[i].state = "open" /\ inv' = [inv EXCEPT ![i].state = "expired"]
        /\ UNCHANGED <<account, org, member, granted, ses>>
    BY <1>2 DEF Expire
  <2>2. inv[i].org \in Orgs /\ inv[i].role \in Roles /\ granted[i] = {}
    BY <2>1 DEF IInv, InvitationsSound, Stored
  <2>3. /\ n \in Invitation /\ n.state = "expired"
        /\ n.org = inv[i].org /\ n.role = inv[i].role
    BY DEF IInv, TypeOK, Invitation
  <2>4. inv' = [inv EXCEPT ![i] = n]
    BY <2>1
  <2> HIDE DEF n
  <2>5. TablesTyped' /\ NoDanglingRows' /\ InvitationsSound'
    BY <2>1, <2>2, <2>3, <2>4, InvitationWritten
  <2>6. \A j \in Invites : inv'[j] = inv[j] \/ inv'[j].state = "expired"
    BY <2>3, <2>4 DEF IInv, TypeOK
  <2>7. \A s \in Sessions : Shaped(ses[s]) /\ AcceptFresh(inv', ses[s])
    BY <2>6 DEF IInv, AllCarried, Carried, Shaped, AcceptFresh
  <2>8. AllCarried'
    BY <2>1, <2>7 DEF IInv, AllCarried, Carried
  <2> QED BY <2>1, <2>5, <2>8 DEF IInv, TypeOK, TablesTyped
<1>3. ASSUME NEW s \in Sessions, Abandon(s) PROVE IInv'
  BY <1>3, IdleCarried, SessionStepInv DEF Abandon
<1> QED BY <1>1, <1>2, <1>3

LEMMA NextInv == IInv /\ [Next]_vars => IInv'
<1> SUFFICES ASSUME IInv, [Next]_vars PROVE IInv'
  OBVIOUS
<1>1. CASE UNCHANGED vars
  BY <1>1 DEF vars, IInv, TypeOK, NoDanglingRows, InvitationsSound, AllCarried, Usable, Stored
<1>2. CASE \E s \in Sessions : CommitStep(s)
  BY <1>2, CommitPlaceInv, CommitGrantInv, CommitAcceptInv, CommitInviteInv, CommitRevokeInv,
     CommitMembersInv, CommitDeleteInv DEF CommitStep
<1>3. CASE \E s \in Sessions, u \in Users : SubmitStep(s, u)
  BY <1>3, SubmitStepInv
<1> QED BY <1>1, <1>2, <1>3, OtherStepInv DEF Next

LEMMA Invariance == Spec => []IInv
BY InitInv, NextInv, PTL DEF Spec

(* The tables keep their shape, and the requests what they carry. *)
THEOREM TypeCorrect == Spec => []TypeOK
<1>1. IInv => TypeOK
  BY DEF IInv
<1> QED BY <1>1, Invariance, PTL

(* No membership outlives its account or its organization, no usable
   invitation its organization, whatever is deleted meanwhile. *)
THEOREM RowsNeverDangle == Spec => []NoDanglingRows
<1>1. IInv => NoDanglingRows
  BY DEF IInv
<1> QED BY <1>1, Invariance, PTL

-----------------------------------------------------------------------------
(* What a single commit does to an organization whose members nobody else has
   changed since the request read them. *)

(* A request that ends ends alone. *)
LEMMA WhoCommits ==
  ASSUME IInv, [Next]_vars, NEW s \in Sessions, Committing(s)
  PROVE  CommitStep(s) \/ Abandon(s)
<1>1. ses[s].op # "idle" /\ ses'[s].op = "idle" /\ ses'[s] # ses[s]
  BY DEF Committing
<1>2. PICK t \in Sessions : CommitStep(t) \/ Abandon(t)
  <2>1. ~UNCHANGED vars /\ ~CreateOrg /\ ~(\E i \in Invites : Expire(i))
    BY <1>1 DEF vars, CreateOrg, Expire
  <2>2. PICK t \in Sessions :
          CommitStep(t) \/ Abandon(t) \/ \E u \in Users : SubmitStep(t, u)
    BY <2>1 DEF Next
  <2>3. ASSUME \E u \in Users : SubmitStep(t, u)
        PROVE  ses[t].op = "idle" /\ \A x \in Sessions : x # t => ses'[x] = ses[x]
    <3>1. \E r : Submit(t, r)
      BY <2>3 DEF SubmitStep, SubmitRegister, SubmitSso, SubmitCreateUser, SubmitGrant,
                  SubmitAccept, SubmitInvite, SubmitRevoke, SubmitRole, SubmitRemove,
                  SubmitDelete
    <3> QED BY <3>1 DEF Submit, IInv, TypeOK
  <2> QED BY <1>1, <2>2, <2>3
<1>3. CASE CommitStep(t)
  <2>1. Done(t)
    BY <1>3 DEF CommitStep, CommitPlace, CommitGrant, CommitAccept, CommitInvite,
                CommitRevoke, CommitRole, CommitRemove, CommitDelete
  <2>2. ASSUME s # t PROVE FALSE
    <3>1. ses'[s] = Aged(ses[s]) /\ ses[s] \in Session
      BY <1>1, <2>1, <2>2 DEF Done, IInv, TypeOK
    <3>2. Aged(ses[s]).op = ses[s].op
      BY <3>1 DEF Aged, Session
    <3> QED BY <1>1, <3>1, <3>2
  <2> QED BY <1>3, <2>2
<1>4. CASE Abandon(t)
  <2>1. s = t
    BY <1>1, <1>4 DEF Abandon, IInv, TypeOK
  <2> QED BY <1>4, <2>1
<1> QED BY <1>2, <1>3, <1>4

(* What a commit may do to the members of an organization o: nothing, one
   entry, or delete them with the organization or the account. *)
Unchanged(o) == member'[o] = member[o]

LEMMA OneEntryWritten ==
  ASSUME IInv, NEW s \in Sessions, CommitStep(s), NEW o \in Orgs, ~Unchanged(o)
  PROVE  \/ /\ ses[s].op \in {"place", "accept"}
            /\ \A v \in Users : member[o][v] # None => member'[o][v] = member[o][v]
         \/ /\ ses[s].op \in {"grant", "role"} /\ o = ses[s].org
            /\ member'[o] = [member[o] EXCEPT ![ses[s].user] = ses[s].role]
         \/ /\ ses[s].op = "remove" /\ o = ses[s].org
            /\ member'[o] = [member[o] EXCEPT ![ses[s].user] = None]
         \/ /\ ses[s].op = "delete"
            /\ o \notin ses[s].doomed =>
                 member'[o] = [member[o] EXCEPT ![ses[s].actor] = None]
<1> DEFINE r == ses[s]
<1>1. /\ Shaped(r) /\ member \in [Orgs -> [Users -> Roles \union {None}]]
      /\ NoDanglingRows
  BY DEF IInv, TypeOK, AllCarried, Carried
<1>2. CASE CommitPlace(s)
  <2>1. PICK p \in Orgs :
          /\ org[p] = "none" \/ member[p][r.actor] = None
          /\ member' = [member EXCEPT ![p][r.actor] = r.role]
    BY <1>2 DEF CommitPlace
  <2>2. r.op = "place" /\ r.actor \in Users
    BY <1>1, <1>2 DEF CommitPlace, Shaped
  <2>3. member[p][r.actor] = None
    BY <1>1, <2>1, <2>2 DEF NoDanglingRows
  <2> QED BY <1>1, <2>1, <2>2, <2>3
<1>3. CASE CommitAccept(s)
  <2>1. r.op = "accept" /\ r.actor \in Users /\ r.org \in Orgs
    BY <1>1, <1>3 DEF CommitAccept, Shaped
  <2>2. member' = member \/ (/\ member[r.org][r.actor] = None
                            /\ member' = [member EXCEPT ![r.org][r.actor] = r.role])
    BY <1>3 DEF CommitAccept
  <2> QED BY <1>1, <2>1, <2>2
<1>4. CASE CommitGrant(s) \/ CommitRole(s)
  <2>1. r.op \in {"grant", "role"} /\ member' = [member EXCEPT ![r.org][r.user] = r.role]
    BY <1>4 DEF CommitGrant, CommitRole
  <2> QED BY <1>1, <2>1 DEF Unchanged
<1>5. CASE CommitRemove(s)
  <2>1. r.op = "remove" /\ (member' = member
                            \/ member' = [member EXCEPT ![r.org][r.user] = None])
    BY <1>5 DEF CommitRemove
  <2> QED BY <1>1, <2>1 DEF Unchanged
<1>6. CASE CommitDelete(s)
  <2>1. /\ r.op = "delete"
        /\ member' = [p \in Orgs |-> [u \in Users |->
                        IF u = r.actor \/ p \in r.doomed THEN None ELSE member[p][u]]]
    BY <1>6 DEF CommitDelete
  <2>2. o \notin r.doomed =>
          member'[o] = [u \in Users |-> IF u = r.actor THEN None ELSE member[o][u]]
    BY <2>1
  <2> QED BY <1>1, <2>1, <2>2
<1>7. CASE CommitInvite(s) \/ CommitRevoke(s)
  BY <1>7 DEF CommitInvite, CommitRevoke, Unchanged
<1> QED BY <1>2, <1>3, <1>4, <1>5, <1>6, <1>7 DEF CommitStep

(* Deleting an account deletes what was found to be the user's own. *)
LEMMA DoomedDeleted ==
  ASSUME NEW s \in Sessions, CommitStep(s), ses[s].op = "delete"
  PROVE  \A o \in Orgs : org'[o] = IF o \in ses[s].doomed THEN "deleted" ELSE org[o]
BY DEF CommitStep, CommitPlace, CommitGrant, CommitAccept, CommitInvite, CommitRevoke,
       CommitRole, CommitRemove, CommitDelete

(* Two requests that check first and write later can only take the last
   administrator away together: one that is not overtaken never does. *)
THEOREM AdminsKeptByFresh == Spec => FreshKeepsAdmin
<1>1. ASSUME IInv, [Next]_vars, NEW s \in Sessions, NEW o \in Orgs,
             Committing(s), ses[s].op # "grant", o \notin ses[s].moved,
             Admins(o) # {}, org'[o] = "live"
      PROVE  Admins(o)' # {}
  <2> DEFINE r == ses[s]
  <2>1. /\ AdminFresh(member, r) /\ DeleteFresh(member, r) /\ Shaped(r)
        /\ member[o] \in [Users -> Roles \union {None}]
    BY <1>1 DEF IInv, TypeOK, AllCarried, Carried
  <2>2. PICK a \in Users : member[o][a] = "admin"
    BY <1>1 DEF Admins
  <2>3. SUFFICES ASSUME ~Unchanged(o) PROVE \E v \in Users : member'[o][v] = "admin"
    BY <2>2 DEF Admins, Unchanged
  <2>4. CommitStep(s)
    BY <1>1, <2>3, WhoCommits DEF Abandon, Unchanged
  <2>5. CASE r.op \in {"place", "accept"}
    BY ZenonT(30), <1>1, <2>2, <2>3, <2>4, <2>5, OneEntryWritten, MembershipAssumption
  <2>6. CASE r.op \in {"role", "remove"}
    <3>1. PICK x : member'[o] = [member[o] EXCEPT ![r.user] = x]
      BY <1>1, <2>3, <2>4, <2>6, OneEntryWritten
    <3>2. o = r.org
      BY <1>1, <2>3, <2>4, <2>6, OneEntryWritten
    <3>3. PICK v \in Users : v # r.user /\ member[o][v] = "admin"
      BY <1>1, <2>1, <2>6, <3>2 DEF AdminFresh, OtherAdmin
    <3> QED BY <2>1, <3>1, <3>3
  <2>7. CASE r.op = "delete"
    <3>1. o \notin r.doomed
      BY <1>1, <2>4, <2>7, DoomedDeleted
    <3>2. member'[o] = [member[o] EXCEPT ![r.actor] = None]
      BY <1>1, <2>3, <2>4, <2>7, <3>1, OneEntryWritten
    <3>3. PICK v \in Users : v # r.actor /\ member[o][v] = "admin"
      BY <1>1, <2>1, <2>2, <2>7, <3>1 DEF DeleteFresh, OtherAdmin
    <3> QED BY <2>1, <3>2, <3>3
  <2> QED BY <1>1, <2>3, <2>4, <2>5, <2>6, <2>7, OneEntryWritten
<1>2. IInv /\ [Next]_vars
        => [\A s \in Sessions, o \in Orgs :
              /\ Committing(s) /\ ses[s].op # "grant" /\ o \notin ses[s].moved
              /\ Admins(o) # {} /\ org'[o] = "live"
              => Admins(o)' # {}]_vars
  BY <1>1
<1> QED BY <1>2, Invariance, PTL DEF Spec, FreshKeepsAdmin

(* Nor does it leave an organization behind that nobody belongs to. *)
THEOREM NobodyStrandedByFresh == Spec => FreshStrandsNothing
<1>1. ASSUME IInv, [Next]_vars, NEW s \in Sessions, NEW o \in Orgs,
             Committing(s), o \notin ses[s].moved, Members(o) # {}, org'[o] = "live"
      PROVE  Members(o)' # {}
  <2> DEFINE r == ses[s]
  <2>1. /\ AdminFresh(member, r) /\ DeleteFresh(member, r) /\ Shaped(r)
        /\ member[o] \in [Users -> Roles \union {None}]
    BY <1>1 DEF IInv, TypeOK, AllCarried, Carried
  <2>2. PICK a \in Users : member[o][a] # None
    BY <1>1 DEF Members
  <2>3. SUFFICES ASSUME ~Unchanged(o) PROVE \E v \in Users : member'[o][v] # None
    BY <2>2 DEF Members, Unchanged
  <2>4. CommitStep(s)
    BY <1>1, <2>3, WhoCommits DEF Abandon, Unchanged
  <2>5. CASE r.op \in {"place", "accept"}
    BY <1>1, <2>2, <2>3, <2>4, <2>5, OneEntryWritten
  <2>6. CASE r.op \in {"grant", "role"}
    <3>1. member'[o] = [member[o] EXCEPT ![r.user] = r.role]
      BY <1>1, <2>3, <2>4, <2>6, OneEntryWritten
    <3>2. r.user \in Users /\ r.role # None
      BY <2>1, <2>6, MembershipAssumption DEF Shaped
    <3> QED BY <2>1, <3>1, <3>2
  <2>7. CASE r.op = "remove"
    <3>1. o = r.org /\ member'[o] = [member[o] EXCEPT ![r.user] = None]
      BY <1>1, <2>3, <2>4, <2>7, OneEntryWritten
    <3>2. PICK v \in Users : v # r.user /\ member[o][v] # None
      BY <1>1, <2>1, <2>7, <3>1, MembershipAssumption DEF AdminFresh, OtherAdmin
    <3> QED BY <2>1, <3>1, <3>2
  <2>8. CASE r.op = "delete"
    <3>1. o \notin r.doomed
      BY <1>1, <2>4, <2>8, DoomedDeleted
    <3>2. member'[o] = [member[o] EXCEPT ![r.actor] = None]
      BY <1>1, <2>3, <2>4, <2>8, <3>1, OneEntryWritten
    <3>3. PICK v \in Users : v # r.actor /\ member[o][v] # None
      BY <1>1, <2>1, <2>2, <2>8, <3>1 DEF DeleteFresh, OtherMember
    <3> QED BY <2>1, <3>2, <3>3
  <2> QED BY <1>1, <2>3, <2>4, <2>5, <2>6, <2>7, <2>8, OneEntryWritten
<1>2. IInv /\ [Next]_vars
        => [\A s \in Sessions, o \in Orgs :
              /\ Committing(s) /\ o \notin ses[s].moved
              /\ Members(o) # {} /\ org'[o] = "live"
              => Members(o)' # {}]_vars
  BY <1>1
<1> QED BY <1>2, Invariance, PTL DEF Spec, FreshStrandsNothing

(* Nor does it delete an organization that has other members. *)
THEOREM OnlyOwnDeletedByFresh == Spec => FreshDeletesOnlyItsOwn
<1>1. ASSUME IInv, [Next]_vars, NEW s \in Sessions, NEW o \in Orgs,
             Committing(s), o \notin ses[s].moved, org[o] = "live", org'[o] = "deleted"
      PROVE  Members(o) = {ses[s].actor}
  <2>1. CommitStep(s)
    BY <1>1, WhoCommits DEF Abandon
  <2>2. CommitDelete(s)
    BY <1>1, <2>1 DEF CommitStep, CommitPlace, CommitGrant, CommitAccept, CommitInvite,
                      CommitRevoke, CommitRole, CommitRemove, IInv, TypeOK
  <2>3. ses[s].op = "delete" /\ o \in ses[s].doomed
    BY <1>1, <2>1, <2>2, DoomedDeleted DEF CommitDelete
  <2>4. ses[s].actor \in Users /\ DeleteFresh(member, ses[s])
    BY <2>3, <1>1 DEF IInv, AllCarried, Carried, Shaped
  <2> QED BY <1>1, <2>3, <2>4 DEF DeleteFresh, Members
<1>2. IInv /\ [Next]_vars
        => [\A s \in Sessions, o \in Orgs :
              /\ Committing(s) /\ o \notin ses[s].moved
              /\ org[o] = "live" /\ org'[o] = "deleted"
              => Members(o) = {ses[s].actor}]_vars
  BY <1>1
<1> QED BY <1>2, Invariance, PTL DEF Spec, FreshDeletesOnlyItsOwn

(* An invitation serves a second person only through a request that had read
   it while it was still unused. *)
THEOREM InvitationsServeOnce == Spec => InvitationReuse
<1>1. ASSUME IInv, [Next]_vars, NEW s \in Sessions, NEW i \in Invites,
             Committing(s), granted'[i] # granted[i], i \notin ses[s].moved
      PROVE  granted[i] = {}
  <2>1. CommitStep(s)
    BY <1>1, WhoCommits DEF Abandon
  <2>2. CommitAccept(s)
    BY <1>1, <2>1 DEF CommitStep, CommitPlace, CommitGrant, CommitInvite, CommitRevoke,
                      CommitRole, CommitRemove, CommitDelete
  <2>3. ses[s].op = "accept" /\ i = ses[s].inv
    BY <1>1, <2>2 DEF CommitAccept, IInv, TypeOK
  <2>4. inv[i].state \in {"open", "expired"}
    BY <1>1, <2>3 DEF IInv, AllCarried, Carried, AcceptFresh
  <2> QED BY <1>1, <2>4 DEF IInv, InvitationsSound
<1>2. IInv /\ [Next]_vars
        => [\A s \in Sessions, i \in Invites :
              Committing(s) /\ granted'[i] # granted[i] /\ i \notin ses[s].moved
                => granted[i] = {}]_vars
  BY <1>1
<1> QED BY <1>2, Invariance, PTL DEF Spec, InvitationReuse
=============================================================================
