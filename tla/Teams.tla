-------------------------------- MODULE Teams --------------------------------
(***************************************************************************)
(* The members of one workspace: sign-up, invites, their acceptance and    *)
(* revocation, and removal (goderash_core/api/auth_public.py, invites.py,  *)
(* orgs.py, models/user.py).                                               *)
(*                                                                         *)
(* Every request is one transaction at READ COMMITTED.  Its SELECTs are    *)
(* steps of their own, each sees what is committed by then, and nothing is *)
(* locked; the last statement and the commit are one step.  What a SELECT  *)
(* has ruled out may be true again by then: a user has at most one         *)
(* membership, by a unique key that fails the second INSERT, but nothing   *)
(* keeps the invites of one email apart, and an invite can be accepted as  *)
(* often as it has been read open.                                         *)
(*                                                                         *)
(* A user is identified with the email; requests that end at their first   *)
(* statement (404, 403, 422) change nothing and are left out.              *)
(***************************************************************************)
EXTENDS Integers, FiniteSets

CONSTANTS Users,     \* people, by email
          Founder,   \* whose sign-up created the workspace
          Offered,   \* roles an invite may offer
          Invites,   \* invites that may be created
          Workers,   \* requests that may run at the same time
          NoInvite   \* the origin of the founder's membership

ASSUME TeamsAssumption ==
    /\ IsFiniteSet(Workers)
    /\ Founder \in Users /\ NoInvite \notin Invites
    /\ "owner" \notin Offered   \* the pattern of InviteRequest.role

VARIABLES registered,  \* users with an account
          members,     \* rows of memberships
          invites,     \* rows of invites, by id
          req,         \* req[w]: the request w handles, or Idle
          raced        \* history: see OpenInvites

vars == <<registered, members, invites, req, raced>>

\* The roles that _require_role asks for.
Managing == {"owner", "admin"}

\* origin is history: the invite that brought the row.
Membership == [user : Users, role : Offered \cup {"owner"}, origin : Invites \cup {NoInvite}]
Invite == [email : Users, role : Offered, accepted : BOOLEAN, revoked : BOOLEAN, expired : BOOLEAN]
Absent == [email |-> NoInvite]
Idle   == [op |-> "idle"]

\* user is who acts and role the role read for it; invite and subject are what
\* the request is about, next the statement that comes next.
Frame == [op : {"invite", "revoke", "remove", "accept", "signup"},
          next : {"pending", "member", "target", "user", "create", "write"},
          user : Users, role : Managing \cup {"none"},
          invite : Invites \cup {NoInvite}, subject : Users]

TypeOK ==
    /\ registered \subseteq Users
    /\ members \subseteq Membership
    /\ invites \in [Invites -> Invite \cup {Absent}]
    /\ req \in [Workers -> Frame \cup {Idle}]
    /\ raced \subseteq Users

FounderRow == [user |-> Founder, role |-> "owner", origin |-> NoInvite]

\* The founder has signed up.
Init ==
    /\ registered = {Founder}
    /\ members = {FounderRow}
    /\ invites = [i \in Invites |-> Absent]
    /\ req = [w \in Workers |-> Idle]
    /\ raced = {}

-----------------------------------------------------------------------------
\* Queries.

RowsOf(u) == {m \in members : m.user = u}
Exists(i) == invites[i] # Absent

\* Mutation: the query does not ask for revoked_at.
Open_EvenRevoked(i) == Exists(i) /\ ~invites[i].accepted /\ ~invites[i].expired

Open(i) == Exists(i) /\ ~invites[i].accepted /\ ~invites[i].revoked /\ ~invites[i].expired

Pending(u) == {i \in Invites : Open(i) /\ invites[i].email = u}

End(w) == req' = [req EXCEPT ![w] = Idle]
Then(w, next) == req' = [req EXCEPT ![w].next = next]

\* The request ends here if it finds what it must not find, or goes on.
Unless(w, found, next) == IF found THEN End(w) ELSE Then(w, next)

-----------------------------------------------------------------------------
\* Managing requests: require_session, _require_membership and _require_role
\* let in a member with a managing role.  The role is not read again.

Authorize(w, op, next, i, subject) ==
    /\ req[w] = Idle
    /\ \E m \in members :
           /\ m.role \in Managing
           /\ req' = [req EXCEPT ![w] = [op |-> op, next |-> next, user |-> m.user,
                          role |-> m.role, invite |-> i, subject |-> subject]]
    /\ UNCHANGED <<registered, members, invites, raced>>

AskInvite(w) == \E i \in Invites, u \in Users :
    /\ ~Exists(i) /\ \A v \in Workers : req[v] # Idle => req[v].invite # i
    /\ Authorize(w, "invite", "pending", i, u)
AskRevoke(w) == \E i \in Invites : Exists(i) /\ Authorize(w, "revoke", "write", i, invites[i].email)
AskRemove(w) == \E u \in Users : Authorize(w, "remove", "target", NoInvite, u)

\* The query has found no open invite for u: the request goes on.
Inviting(u) == {w \in Workers : /\ req[w] # Idle /\ req[w].op = "invite"
                                /\ req[w].next \in {"member", "write"} /\ req[w].subject = u}

GoesOn(w) ==
    LET u == req[w].subject
    IN  /\ Then(w, "member")
        /\ raced' = IF Inviting(u) = {} THEN raced ELSE raced \cup {u}

\* Mutation: a pending invite does not end the request.
CheckPending_NoConflict(w) ==
    /\ req[w] # Idle /\ req[w].op = "invite" /\ req[w].next = "pending"
    /\ GoesOn(w)
    /\ UNCHANGED <<registered, members, invites>>

\* create_invite: no open invite for the email (409; more than one is a 500),
\* then no membership.
CheckPending(w) ==
    /\ req[w] # Idle /\ req[w].op = "invite" /\ req[w].next = "pending"
    /\ IF Pending(req[w].subject) = {} THEN GoesOn(w) ELSE End(w) /\ UNCHANGED raced
    /\ UNCHANGED <<registered, members, invites>>

CheckMember(w) ==
    /\ req[w] # Idle /\ req[w].op = "invite" /\ req[w].next = "member"
    /\ Unless(w, RowsOf(req[w].subject) # {}, "write")
    /\ UNCHANGED <<registered, members, invites, raced>>

\* Mutation: the role is any string.
CreateInvite_AnyRole(w) ==
    /\ req[w] # Idle /\ req[w].op = "invite" /\ req[w].next = "write"
    /\ \E role \in Offered \cup {"owner"} :
           invites' = [invites EXCEPT ![req[w].invite] =
               [email |-> req[w].subject, role |-> role,
                accepted |-> FALSE, revoked |-> FALSE, expired |-> FALSE]]
    /\ End(w)
    /\ UNCHANGED <<registered, members, raced>>

CreateInvite(w) ==
    /\ req[w] # Idle /\ req[w].op = "invite" /\ req[w].next = "write"
    /\ \E role \in Offered :
           invites' = [invites EXCEPT ![req[w].invite] =
               [email |-> req[w].subject, role |-> role,
                accepted |-> FALSE, revoked |-> FALSE, expired |-> FALSE]]
    /\ End(w)
    /\ UNCHANGED <<registered, members, raced>>

\* revoke_invite asks for revoked_at only: an accepted invite is revoked as well.
RevokeInvite(w) ==
    /\ req[w] # Idle /\ req[w].op = "revoke"
    /\ invites' = [invites EXCEPT ![req[w].invite].revoked = TRUE]
    /\ End(w)
    /\ UNCHANGED <<registered, members, raced>>

\* Mutation: the comparison of the roles is missing.
MayRemove_AnyRole(f, m) == m.user # f.user

\* "Owners cannot be removed by admins", nor anybody by itself.
MayRemove(f, m) == m.user # f.user /\ (m.role = "owner" => f.role = "owner")

CheckTarget(w) ==
    /\ req[w] # Idle /\ req[w].next = "target"
    /\ Unless(w, ~\E m \in RowsOf(req[w].subject) : MayRemove(req[w], m), "write")
    /\ UNCHANGED <<registered, members, invites, raced>>

\* The DELETE takes the row that the user has by now.
RemoveMember(w) ==
    /\ req[w] # Idle /\ req[w].op = "remove" /\ req[w].next = "write"
    /\ members' = members \ RowsOf(req[w].subject)
    /\ End(w)
    /\ UNCHANGED <<registered, invites, raced>>

-----------------------------------------------------------------------------
\* Requests of whoever holds the token of an invite, or signs up.

Begin(w, op, next, i, u) ==
    /\ req[w] = Idle
    /\ req' = [req EXCEPT ![w] = [op |-> op, next |-> next, user |-> u, role |-> "none",
                                  invite |-> i, subject |-> u]]
    /\ UNCHANGED <<registered, members, invites, raced>>

AskAccept(w) == \E i \in Invites : Open(i) /\ Begin(w, "accept", "user", i, invites[i].email)
AskSignup(w) == \E u \in Users \ registered : Begin(w, "signup", "create", NoInvite, u)

\* accept_invite: is there an account?  If so, is it a member already?
FindUser(w) ==
    /\ req[w] # Idle /\ req[w].next = "user"
    /\ Then(w, IF req[w].user \in registered THEN "member" ELSE "create")
    /\ UNCHANGED <<registered, members, invites, raced>>

\* Mark the invite as accepted: the UPDATE is by id and asks for nothing else.
Accepted(i) == [invites EXCEPT ![i].accepted = TRUE]

\* A member already: the invite is used up.  Otherwise a row is added next.
FindMember(w) ==
    /\ req[w] # Idle /\ req[w].op = "accept" /\ req[w].next = "member"
    /\ IF RowsOf(req[w].user) # {}
       THEN End(w) /\ invites' = Accepted(req[w].invite)
       ELSE Then(w, "write") /\ UNCHANGED invites
    /\ UNCHANGED <<registered, members, raced>>

Row(w) == [user |-> req[w].user, role |-> invites[req[w].invite].role,
           origin |-> req[w].invite]

\* The account, when none was found: the email is unique, and the second request
\* to create it fails.
CreateUser(w) == req[w].next = "create" => req[w].user \notin registered

\* uq_memberships_user_tenant: an INSERT fails where there is a row by now.
InsertRow(w) == RowsOf(req[w].user) = {} /\ members' = members \cup {Row(w)}

\* Mutation: the invite stays open.
Accept_StaysOpen(w) ==
    /\ req[w] # Idle /\ req[w].op = "accept" /\ req[w].next \in {"create", "write"}
    /\ CreateUser(w)
    /\ registered' = registered \cup {req[w].user}
    /\ InsertRow(w)
    /\ End(w)
    /\ UNCHANGED <<invites, raced>>

\* The account, the membership and the invite are written.
Accept(w) ==
    /\ req[w] # Idle /\ req[w].op = "accept" /\ req[w].next \in {"create", "write"}
    /\ CreateUser(w)
    /\ registered' = registered \cup {req[w].user}
    /\ InsertRow(w)
    /\ invites' = Accepted(req[w].invite)
    /\ End(w)
    /\ UNCHANGED raced

\* signup, in a workspace of its own; here only the account matters.
Signup(w) ==
    /\ req[w] # Idle /\ req[w].op = "signup" /\ CreateUser(w)
    /\ registered' = registered \cup {req[w].user}
    /\ End(w)
    /\ UNCHANGED <<members, invites, raced>>

-----------------------------------------------------------------------------
\* A statement or the commit fails, as it must where a unique key forbids the
\* row: nothing of the request is kept.
Fail(w) ==
    /\ req[w] # Idle
    /\ End(w)
    /\ UNCHANGED <<registered, members, invites, raced>>

\* Seven days have passed.
Expire(i) ==
    /\ Open(i)
    /\ invites' = [invites EXCEPT ![i].expired = TRUE]
    /\ UNCHANGED <<registered, members, req, raced>>

Next ==
    \/ \E w \in Workers : \/ AskInvite(w) \/ AskRevoke(w) \/ AskRemove(w)
                          \/ CheckPending(w) \/ CheckMember(w) \/ CreateInvite(w)
                          \/ RevokeInvite(w) \/ CheckTarget(w) \/ RemoveMember(w)
                          \/ AskAccept(w) \/ FindUser(w) \/ FindMember(w) \/ Accept(w)
                          \/ AskSignup(w) \/ Signup(w) \/ Fail(w)
    \/ \E i \in Invites : Expire(i)

Spec == Init /\ [][Next]_vars

-----------------------------------------------------------------------------
\* Safety.

\* "Owners cannot be removed by admins": the workspace keeps its founder, as its
\* only owner and with one membership, whatever requests overlap and however old
\* the role is that they act upon.
FounderStays == \A m \in members : m = FounderRow \/ (m.user # Founder /\ m.role # "owner")
OwnerKept == FounderRow \in members /\ FounderStays

\* Nobody is a member but by an invite for their email that is marked as used,
\* and with the role it offers.
InvitedMembers ==
    \A m \in members \ {FounderRow} :
        /\ m.origin \in Invites /\ Exists(m.origin) /\ invites[m.origin].accepted
        /\ invites[m.origin].email = m.user /\ invites[m.origin].role = m.role
        /\ m.user \in registered

\* invites.py: "Prevent duplicate pending invites for the same email + tenant".
\* No key stands behind the query: an email has at most one open invite unless two
\* requests have overlapped that invite it, and even then no more than requests
\* run at the same time, whichever invites are used, revoked or expire meanwhile.
OpenInvites ==
    \A u \in Users :
        Cardinality(Pending(u)) <= IF u \in raced THEN Cardinality(Workers) ELSE 1

\* Once an invite is revoked, and the requests that had read it open have ended,
\* it brings no member any more.
Spent(i) ==
    /\ Exists(i) /\ invites[i].revoked
    /\ \A w \in Workers : req[w] # Idle /\ req[w].op = "accept" => req[w].invite # i

RevokedIsFinal ==
    [][\A i \in Invites : Spent(i) => Spent(i)' /\ \A m \in members' : m.origin = i => m \in members]_vars

=============================================================================
