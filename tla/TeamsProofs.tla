---------------------------- MODULE TeamsProofs ----------------------------
(***************************************************************************)
(* Theorems about the members of a workspace, for any set of people,       *)
(* invites, roles and requests.                                            *)
(***************************************************************************)
EXTENDS Teams, FiniteSetTheorems, TLAPS

-----------------------------------------------------------------------------
\* The inductive invariant.  What is true of a request that has got as far as g:
\* an invite that is being created is nobody else's matter; one that is revoked
\* or accepted exists; a request that will add a row is not the founder's, and
\* one that will delete rows does not delete the founder's.

Fits(w, g) ==
    /\ g.op \in {"invite", "revoke", "accept"} => g.invite \in Invites
    /\ g.op = "invite" => ~Exists(g.invite)
    /\ g.op \in {"revoke", "accept"} => Exists(g.invite)
    /\ g.op = "accept" => /\ invites[g.invite].email = g.user
                          /\ g.next \in {"create", "write"} => g.user # Founder
    /\ g.op = "remove" => /\ g.role = "owner" => g.user = Founder
                          /\ g.next = "write" => g.subject # Founder
    /\ (g.next = "target" => g.op = "remove") /\ (g.next = "user" => g.op = "accept")
    /\ \A v \in Workers \ {w} :
           req[v] # Idle /\ (req[v].op = "invite" \/ g.op = "invite") => req[v].invite # g.invite

RequestsFit == \A w \in Workers : req[w] # Idle => Fits(w, req[w])

IInv == TypeOK /\ Founder \in registered /\ OwnerKept /\ InvitedMembers /\ RequestsFit

-----------------------------------------------------------------------------
\* Frames.

LEMMA Distinct ==
    /\ Idle \notin Frame /\ Absent \notin Invite
    /\ NoInvite \notin Invites /\ "owner" \notin Offered /\ Founder \in Users
<1>1. \A f \in Frame : f # Idle
  BY DEF Frame, Idle
<1>2. \A i \in Invite : i # Absent
  BY DEF Invite, Absent
<1> QED
  BY <1>1, <1>2, TeamsAssumption

LEMMA FrameFields ==
    ASSUME NEW f \in Frame
    PROVE  /\ f.op \in {"invite", "revoke", "remove", "accept", "signup"}
           /\ f.next \in {"pending", "member", "target", "user", "create", "write"}
           /\ f.user \in Users /\ f.role \in Managing \cup {"none"}
           /\ f.invite \in Invites \cup {NoInvite} /\ f.subject \in Users
BY DEF Frame

LEMMA FrameThen ==
    ASSUME NEW f \in Frame,
           NEW n \in {"pending", "member", "target", "user", "create", "write"}
    PROVE  LET g == [f EXCEPT !.next = n]
           IN  /\ g \in Frame /\ g.next = n /\ g.op = f.op /\ g.user = f.user
               /\ g.role = f.role /\ g.invite = f.invite /\ g.subject = f.subject
BY DEF Frame

LEMMA InviteFields ==
    ASSUME TypeOK, NEW i \in Invites, Exists(i)
    PROVE  /\ invites[i] \in Invite
           /\ invites[i].email \in Users /\ invites[i].role \in Offered
           /\ invites[i].accepted \in BOOLEAN /\ invites[i].revoked \in BOOLEAN
<1>1. invites[i] \in Invite
  BY DEF TypeOK, Exists
<1> QED
  BY <1>1 DEF Invite

\* A row that is not the founder's comes from an invite.
LEMMA OriginIsInvite ==
    ASSUME IInv, NEW m \in members, m # FounderRow
    PROVE  m.origin \in Invites /\ m.user \in Users /\ m.role \in Offered
<1>1. m.origin \in Invites /\ Exists(m.origin) /\ invites[m.origin].role = m.role
  BY DEF IInv, InvitedMembers
<1>2. m.role \in Offered
  BY <1>1, InviteFields DEF IInv
<1>3. m.user \in Users
  BY DEF IInv, TypeOK, Membership
<1> QED
  BY <1>1, <1>2, <1>3

\* A request that is under way has a frame, and the frame fits.
LEMMA UnderWay ==
    ASSUME IInv, NEW w \in Workers, req[w] # Idle
    PROVE  req[w] \in Frame /\ Fits(w, req[w])
BY DEF IInv, TypeOK, RequestsFit

-----------------------------------------------------------------------------
\* Steps of one request.

\* A request goes on, and nothing is written.
LEMMA Moves ==
    ASSUME IInv, NEW w \in Workers, NEW g \in Frame, Fits(w, g),
           req' = [req EXCEPT ![w] = g],
           registered' = registered, members' = members, invites' = invites, raced' \subseteq Users
    PROVE  IInv'
<1>1. TypeOK'
  BY DEF IInv, TypeOK
<1>2. OwnerKept' /\ Founder \in registered' /\ InvitedMembers'
  BY DEF IInv, OwnerKept, FounderStays, InvitedMembers, Exists
<1>3. RequestsFit'
  <2> SUFFICES ASSUME NEW v \in Workers, req'[v] # Idle
               PROVE  Fits(v, req[v])'
    BY DEF RequestsFit
  <2>1. req'[w] = g /\ \A u \in Workers \ {w} : req'[u] = req[u]
    BY DEF IInv, TypeOK
  <2>2. CASE v = w
    BY <2>1, <2>2 DEF Fits, Exists
  <2>3. CASE v # w
    <3>1. req[v] # Idle /\ Fits(v, req[v]) /\ req'[v] = req[v]
      BY <2>1, <2>3, UnderWay
    <3>2. req[v].op = "invite" \/ g.op = "invite" => g.invite # req[v].invite
      BY <2>3, <3>1 DEF Fits
    <3>3. \A u \in Workers \ {v} :
              req'[u] # Idle /\ (req'[u].op = "invite" \/ req[v].op = "invite")
                  => req'[u].invite # req[v].invite
      BY <2>1, <3>1, <3>2 DEF Fits
    <3> QED
      BY <3>1, <3>3 DEF Fits, Exists
  <2> QED
    BY <2>2, <2>3
<1> QED
  BY <1>1, <1>2, <1>3 DEF IInv

\* The next statement of a request, where it still fits.
LEMMA MovesOn ==
    ASSUME IInv, NEW w \in Workers, req[w] # Idle,
           NEW n \in {"member", "create", "write"}, Then(w, n),
           req[w].op = "accept" /\ n \in {"create", "write"} => req[w].user # Founder,
           req[w].op = "remove" /\ n = "write" => req[w].subject # Founder,
           registered' = registered, members' = members, invites' = invites, raced' \subseteq Users
    PROVE  IInv'
<1> DEFINE g == [req[w] EXCEPT !.next = n]
<1>1. req[w] \in Frame /\ Fits(w, req[w])
  BY UnderWay
<1>2. /\ g \in Frame /\ g.next = n /\ g.op = req[w].op /\ g.user = req[w].user
      /\ g.role = req[w].role /\ g.invite = req[w].invite /\ g.subject = req[w].subject
  BY <1>1 DEF Frame
<1>3. req' = [req EXCEPT ![w] = g]
  BY DEF Then
<1> HIDE DEF g
<1>4. Fits(w, g)
  BY <1>1, <1>2 DEF Fits
<1> QED
  BY <1>2, <1>3, <1>4, Moves

\* What a request that ends may have written to the invites.
Grows(w) == \A i \in Invites :
    /\ Exists(i) => /\ invites'[i] # Absent /\ invites'[i].email = invites[i].email
                    /\ invites'[i].role = invites[i].role
                    /\ invites[i].accepted => invites'[i].accepted
    /\ invites'[i] # Absent => \/ Exists(i)
                               \/ End(w) /\ \A v \in Workers \ {w} : req[v] # Idle => req[v].invite # i

LEMMA Fitting ==
    ASSUME IInv, NEW w, End(w) \/ req' = req, Grows(w)
    PROVE  RequestsFit' /\ req' \in [Workers -> Frame \cup {Idle}]
<1>1. req' \in [Workers -> Frame \cup {Idle}]
  BY DEF IInv, TypeOK, End
<1>2. ASSUME NEW v \in Workers, req'[v] # Idle
      PROVE  Fits(v, req[v])'
  <2>1. req'[v] = req[v] /\ (req' = req \/ v # w)
    BY <1>2 DEF IInv, TypeOK, End
  <2>2. req[v] # Idle /\ Fits(v, req[v]) /\ req[v] \in Frame
    BY <1>2, <2>1, UnderWay
  <2>3. \A u \in Workers : req'[u] # Idle => req'[u] = req[u] /\ req[u] # Idle
    BY DEF IInv, TypeOK, End
  <2>4. req[v].op = "invite" => invites'[req[v].invite] = Absent
    <3>1. SUFFICES ASSUME req[v].op = "invite", invites'[req[v].invite] # Absent PROVE FALSE
      OBVIOUS
    <3>2. req[v].invite \in Invites /\ ~Exists(req[v].invite)
      BY <2>2, <3>1 DEF Fits
    <3> DEFINE i == req[v].invite
    <3>3. End(w) /\ \A u \in Workers \ {w} : req[u] # Idle => req[u].invite # i
      BY <3>1, <3>2 DEF Grows
    <3>4. v = w
      BY <2>2, <3>3
    <3>5. req'[w] = Idle
      BY <3>3, <3>4 DEF End, IInv, TypeOK
    <3> QED
      BY <1>2, <3>4, <3>5
  <2>5. \A i \in Invites : Exists(i) => invites'[i] # Absent /\ invites'[i].email = invites[i].email
    BY DEF Grows
  <2>6. /\ req[v].op \in {"invite", "revoke", "accept"} => req[v].invite \in Invites
        /\ req[v].op \in {"revoke", "accept"} => invites'[req[v].invite] # Absent
        /\ req[v].op = "accept" => invites'[req[v].invite].email = req[v].user
    BY <2>2, <2>5 DEF Fits, Exists
  <2>7. \A u \in Workers \ {v} :
            req'[u] # Idle /\ (req'[u].op = "invite" \/ req[v].op = "invite")
                => req'[u].invite # req[v].invite
    BY <2>2, <2>3 DEF Fits
  <2>8. /\ req[v].op = "accept" /\ req[v].next \in {"create", "write"} => req[v].user # Founder
        /\ req[v].op = "remove" => /\ req[v].role = "owner" => req[v].user = Founder
                                   /\ req[v].next = "write" => req[v].subject # Founder
        /\ (req[v].next = "target" => req[v].op = "remove")
        /\ (req[v].next = "user" => req[v].op = "accept")
    BY <2>2 DEF Fits
  <2> QED
    BY <2>1, <2>4, <2>6, <2>7, <2>8 DEF Fits, Exists
<1> QED
  BY <1>1, <1>2 DEF RequestsFit

\* A request ends, or an invite expires, and the members stay.
LEMMA Settles ==
    ASSUME IInv, NEW w, End(w) \/ req' = req, Grows(w),
           registered \subseteq registered', registered' \subseteq Users, members' = members,
           invites' \in [Invites -> Invite \cup {Absent}], raced' \subseteq Users
    PROVE  IInv'
<1>1. TypeOK'
  BY Fitting DEF IInv, TypeOK
<1>2. Founder \in registered' /\ OwnerKept'
  BY DEF IInv, OwnerKept, FounderStays
<1>3. InvitedMembers'
  <2> SUFFICES ASSUME NEW m \in members, m # FounderRow
               PROVE  /\ m.origin \in Invites /\ invites'[m.origin] # Absent
                      /\ invites'[m.origin].accepted
                      /\ invites'[m.origin].email = m.user /\ invites'[m.origin].role = m.role
                      /\ m.user \in registered'
    BY DEF InvitedMembers, Exists
  <2>1. /\ Exists(m.origin) /\ invites[m.origin].accepted
        /\ invites[m.origin].email = m.user /\ invites[m.origin].role = m.role
        /\ m.user \in registered
    BY DEF IInv, InvitedMembers
  <2>2. m.origin \in Invites
    BY <2>1, OriginIsInvite
  <2> QED
    BY <2>1, <2>2 DEF Grows
<1> QED
  BY <1>1, <1>2, <1>3, Fitting DEF IInv

\* Rows are written or deleted, and the request ends.
LEMMA Writes ==
    ASSUME IInv, NEW w \in Workers, End(w), Grows(w),
           registered \subseteq registered', registered' \subseteq Users,
           invites' \in [Invites -> Invite \cup {Absent}], raced' \subseteq Users,
           members' \subseteq Membership, FounderRow \in members',
           \A m \in members' \ members :
               /\ m.user # Founder /\ m.role # "owner" /\ m.user \in registered'
               /\ m.origin \in Invites /\ invites'[m.origin] # Absent
               /\ invites'[m.origin].accepted
               /\ invites'[m.origin].email = m.user /\ invites'[m.origin].role = m.role
    PROVE  IInv'
<1>1. TypeOK'
  BY Fitting DEF IInv, TypeOK
<1>2. Founder \in registered' /\ OwnerKept'
  BY DEF IInv, OwnerKept, FounderStays
<1>3. InvitedMembers'
  <2> SUFFICES ASSUME NEW m \in members', m # FounderRow
               PROVE  /\ m.origin \in Invites /\ invites'[m.origin] # Absent
                      /\ invites'[m.origin].accepted
                      /\ invites'[m.origin].email = m.user /\ invites'[m.origin].role = m.role
                      /\ m.user \in registered'
    BY DEF InvitedMembers, Exists
  <2>1. CASE m \in members
    <3>1. /\ m.origin \in Invites /\ Exists(m.origin) /\ invites[m.origin].accepted
          /\ invites[m.origin].email = m.user /\ invites[m.origin].role = m.role
          /\ m.user \in registered
      BY <2>1 DEF IInv, InvitedMembers
    <3> QED
      BY <3>1 DEF Grows
  <2>2. CASE m \notin members
    BY <2>2
  <2> QED
    BY <2>1, <2>2
<1> QED
  BY <1>1, <1>2, <1>3, Fitting DEF IInv

-----------------------------------------------------------------------------
\* The actions.

LEMMA InitInvariant == Init => IInv
<1> SUFFICES ASSUME Init PROVE IInv
  OBVIOUS
<1>1. FounderRow \in Membership
  BY Distinct DEF FounderRow, Membership
<1>2. TypeOK
  BY <1>1, Distinct DEF Init, TypeOK
<1>3. Founder \in registered /\ OwnerKept /\ InvitedMembers /\ RequestsFit
  BY DEF Init, OwnerKept, FounderStays, InvitedMembers, RequestsFit
<1> QED
  BY <1>2, <1>3 DEF IInv

\* A managing request starts: the invite it is about is nobody else's, if it is
\* one that it creates, and exists, if it is one that it revokes.
LEMMA Authorizes ==
    ASSUME IInv, NEW w \in Workers, NEW subject \in Users, NEW i \in Invites \cup {NoInvite},
           NEW op, NEW next, Authorize(w, op, next, i, subject),
           \/ op = "invite" /\ next = "pending" /\ i \in Invites /\ ~Exists(i)
              /\ \A v \in Workers : req[v] # Idle => req[v].invite # i
           \/ op = "revoke" /\ next = "write" /\ i \in Invites /\ Exists(i)
           \/ op = "remove" /\ next = "target" /\ i = NoInvite
    PROVE  IInv'
<1>1. PICK m \in members :
          /\ m.role \in Managing
          /\ req' = [req EXCEPT ![w] = [op |-> op, next |-> next, user |-> m.user,
                         role |-> m.role, invite |-> i, subject |-> subject]]
  BY DEF Authorize
<1> DEFINE g == [op |-> op, next |-> next, user |-> m.user,
                 role |-> m.role, invite |-> i, subject |-> subject]
<1>2. m.user \in Users
  BY DEF IInv, TypeOK, Membership
<1>3. g \in Frame
  BY <1>1, <1>2 DEF Frame
<1>4. m.role = "owner" => m.user = Founder
  BY DEF IInv, OwnerKept, FounderStays, FounderRow
<1>5. \A v \in Workers \ {w} : req[v] # Idle /\ req[v].op = "invite" => req[v].invite # i
  <2> SUFFICES ASSUME NEW v \in Workers \ {w}, req[v] # Idle, req[v].op = "invite"
               PROVE  req[v].invite # i
    OBVIOUS
  <2>1. req[v].invite \in Invites /\ ~Exists(req[v].invite)
    BY UnderWay DEF Fits
  <2> QED
    BY <2>1, Distinct
<1>6. Fits(w, g)
  BY <1>4, <1>5 DEF Fits
<1> HIDE DEF g
<1>7. req' = [req EXCEPT ![w] = g]
  BY <1>1 DEF g
<1> QED
  BY <1>3, <1>6, <1>7, Moves DEF Authorize, IInv, TypeOK

LEMMA AskInviteStep == ASSUME IInv, NEW w \in Workers, AskInvite(w) PROVE IInv'
BY Authorizes DEF AskInvite

LEMMA AskRevokeStep == ASSUME IInv, NEW w \in Workers, AskRevoke(w) PROVE IInv'
<1>1. PICK i \in Invites : Exists(i) /\ Authorize(w, "revoke", "write", i, invites[i].email)
  BY DEF AskRevoke
<1>2. invites[i].email \in Users
  BY <1>1, InviteFields DEF IInv
<1> QED
  BY <1>1, <1>2, Authorizes

LEMMA AskRemoveStep == ASSUME IInv, NEW w \in Workers, AskRemove(w) PROVE IInv'
BY Authorizes DEF AskRemove

LEMMA CheckPendingStep == ASSUME IInv, NEW w \in Workers, CheckPending(w) PROVE IInv'
<1>1. CASE End(w) /\ UNCHANGED raced
  BY <1>1, Settles DEF CheckPending, Grows, Exists, IInv, TypeOK
<1>2. CASE GoesOn(w)
  <2>1. req[w] # Idle /\ req[w].subject \in Users
    BY UnderWay, FrameFields DEF CheckPending
  <2>2. Then(w, "member") /\ raced' \subseteq Users
    BY <1>2, <2>1 DEF GoesOn, IInv, TypeOK
  <2>3. req[w].op = "invite" /\ registered' = registered /\ members' = members /\ invites' = invites
    BY DEF CheckPending
  <2> QED
    BY <2>1, <2>2, <2>3, MovesOn
<1> QED
  BY <1>1, <1>2 DEF CheckPending

LEMMA CheckMemberStep == ASSUME IInv, NEW w \in Workers, CheckMember(w) PROVE IInv'
<1>1. CASE End(w)
  BY <1>1, Settles DEF CheckMember, Grows, Exists, IInv, TypeOK
<1>2. CASE Then(w, "write")
  BY <1>2, MovesOn DEF CheckMember, IInv, TypeOK
<1> QED
  BY <1>1, <1>2 DEF CheckMember, Unless

LEMMA CreateInviteStep == ASSUME IInv, NEW w \in Workers, CreateInvite(w) PROVE IInv'
<1> DEFINE i == req[w].invite
<1>1. PICK role \in Offered : invites' = [invites EXCEPT ![i] =
          [email |-> req[w].subject, role |-> role,
           accepted |-> FALSE, revoked |-> FALSE, expired |-> FALSE]]
  BY DEF CreateInvite
<1>2. req[w] # Idle /\ req[w].op = "invite" /\ req[w] \in Frame /\ Fits(w, req[w])
  BY UnderWay DEF CreateInvite
<1>3. i \in Invites /\ ~Exists(i) /\ \A v \in Workers \ {w} : req[v] # Idle => req[v].invite # i
  BY <1>2 DEF Fits
<1>4. [email |-> req[w].subject, role |-> role,
       accepted |-> FALSE, revoked |-> FALSE, expired |-> FALSE] \in Invite
  BY <1>2, FrameFields DEF Invite
<1>5. invites' \in [Invites -> Invite \cup {Absent}]
  BY <1>1, <1>3, <1>4 DEF IInv, TypeOK
<1>6. \A j \in Invites \ {i} : invites'[j] = invites[j]
  BY <1>1 DEF IInv, TypeOK
<1>7. Grows(w)
  BY <1>3, <1>6 DEF Grows, Exists, CreateInvite
<1> QED
  BY <1>5, <1>7, Settles DEF CreateInvite, IInv, TypeOK

\* An UPDATE of an invite that exists leaves its email and its role.
LEMMA Updates ==
    ASSUME IInv, NEW w, NEW i \in Invites, Exists(i), NEW new \in Invite,
           new.email = invites[i].email, new.role = invites[i].role,
           invites[i].accepted => new.accepted,
           invites' = [invites EXCEPT ![i] = new]
    PROVE  Grows(w) /\ invites' \in [Invites -> Invite \cup {Absent}]
<1>1. invites'[i] = new /\ \A j \in Invites \ {i} : invites'[j] = invites[j]
  BY DEF IInv, TypeOK
<1>2. new # Absent
  BY DEF Invite, Absent
<1> QED
  BY <1>1, <1>2 DEF Grows, Exists, IInv, TypeOK

LEMMA RevokeInviteStep == ASSUME IInv, NEW w \in Workers, RevokeInvite(w) PROVE IInv'
<1>1. req[w] # Idle /\ req[w].op = "revoke" /\ req[w] \in Frame /\ Fits(w, req[w])
  BY UnderWay DEF RevokeInvite
<1>2. PICK i \in Invites : i = req[w].invite /\ Exists(i)
  BY <1>1 DEF Fits
<1> DEFINE new == [invites[i] EXCEPT !.revoked = TRUE]
<1>3. invites[i] \in Invite
  BY <1>2, InviteFields DEF IInv
<1>4. new \in Invite /\ new.email = invites[i].email /\ new.role = invites[i].role
      /\ new.accepted = invites[i].accepted
  BY <1>3 DEF Invite
<1>5. invites' = [invites EXCEPT ![i] = new]
  BY <1>2 DEF RevokeInvite
<1> HIDE DEF new
<1>6. Grows(w) /\ invites' \in [Invites -> Invite \cup {Absent}]
  BY <1>2, <1>4, <1>5, Updates
<1> QED
  BY <1>6, Settles DEF RevokeInvite, IInv, TypeOK

\* The target of a removal that is let through is not the founder.
LEMMA CheckTargetStep == ASSUME IInv, NEW w \in Workers, CheckTarget(w) PROVE IInv'
<1>1. CASE End(w)
  BY <1>1, Settles DEF CheckTarget, Grows, Exists, IInv, TypeOK
<1>2. CASE (\E m \in RowsOf(req[w].subject) : MayRemove(req[w], m)) /\ Then(w, "write")
  <2>1. PICK m \in members : m.user = req[w].subject /\ MayRemove(req[w], m)
    BY <1>2 DEF RowsOf
  <2>2. req[w] # Idle /\ req[w].op = "remove" /\ (req[w].role = "owner" => req[w].user = Founder)
    BY UnderWay DEF CheckTarget, Fits
  <2>3. req[w].subject # Founder
    <3> SUFFICES ASSUME req[w].subject = Founder PROVE FALSE
      OBVIOUS
    <3>2. m = FounderRow
      BY <2>1 DEF IInv, OwnerKept, FounderStays
    <3>3. m.role = "owner" /\ m.user = Founder
      BY <3>2 DEF FounderRow
    <3> QED
      BY <2>1, <2>2, <3>3 DEF MayRemove
  <2> QED
    BY <1>2, <2>2, <2>3, MovesOn DEF CheckTarget, IInv, TypeOK
<1> QED
  BY <1>1, <1>2 DEF CheckTarget, Unless

LEMMA RemoveMemberStep == ASSUME IInv, NEW w \in Workers, RemoveMember(w) PROVE IInv'
<1>1. req[w].subject # Founder
  BY UnderWay DEF RemoveMember, Fits
<1>2. FounderRow \in members'
  BY <1>1 DEF RemoveMember, RowsOf, FounderRow, IInv, OwnerKept
<1>3. members' \subseteq members /\ members' \subseteq Membership
  BY DEF RemoveMember, IInv, TypeOK
<1>4. Grows(w)
  BY DEF RemoveMember, Grows, Exists
<1> QED
  BY <1>2, <1>3, <1>4, Writes DEF RemoveMember, IInv, TypeOK

\* A request of somebody who may not be a member starts.
LEMMA Begins ==
    ASSUME IInv, NEW w \in Workers, NEW u \in Users, NEW i \in Invites \cup {NoInvite},
           NEW op, NEW next, Begin(w, op, next, i, u),
           \/ op = "accept" /\ next = "user" /\ i \in Invites /\ Exists(i) /\ invites[i].email = u
           \/ op = "signup" /\ next = "create" /\ i = NoInvite
    PROVE  IInv'
<1> DEFINE g == [op |-> op, next |-> next, user |-> u, role |-> "none",
                 invite |-> i, subject |-> u]
<1>1. g \in Frame
  BY DEF Frame
<1>2. \A v \in Workers \ {w} : req[v] # Idle /\ req[v].op = "invite" => req[v].invite # i
  <2> SUFFICES ASSUME NEW v \in Workers \ {w}, req[v] # Idle, req[v].op = "invite"
               PROVE  req[v].invite # i
    OBVIOUS
  <2>1. req[v].invite \in Invites /\ ~Exists(req[v].invite)
    BY UnderWay DEF Fits
  <2> QED
    BY <2>1, Distinct
<1>3. Fits(w, g)
  BY <1>2 DEF Fits
<1>4. req' = [req EXCEPT ![w] = g]
  BY DEF Begin
<1> HIDE DEF g
<1> QED
  BY <1>1, <1>3, <1>4, Moves DEF Begin, IInv, TypeOK

LEMMA AskAcceptStep == ASSUME IInv, NEW w \in Workers, AskAccept(w) PROVE IInv'
<1>1. PICK i \in Invites : Open(i) /\ Begin(w, "accept", "user", i, invites[i].email)
  BY DEF AskAccept
<1>2. Exists(i) /\ invites[i].email \in Users
  BY <1>1, InviteFields DEF IInv, Open
<1> QED
  BY <1>1, <1>2, Begins

LEMMA AskSignupStep == ASSUME IInv, NEW w \in Workers, AskSignup(w) PROVE IInv'
BY Begins DEF AskSignup

LEMMA FindUserStep == ASSUME IInv, NEW w \in Workers, FindUser(w) PROVE IInv'
<1>1. Founder \in registered
  BY DEF IInv
<1>2. CASE req[w].user \in registered /\ Then(w, "member")
  BY <1>2, MovesOn DEF FindUser, IInv, TypeOK
<1>3. CASE req[w].user \notin registered /\ Then(w, "create")
  BY <1>1, <1>3, MovesOn DEF FindUser, IInv, TypeOK
<1> QED
  BY <1>2, <1>3 DEF FindUser

\* The invite of a request that accepts one exists, and is the user's.
LEMMA Accepting ==
    ASSUME IInv, NEW w \in Workers, req[w] # Idle, req[w].op = "accept"
    PROVE  /\ req[w].invite \in Invites /\ Exists(req[w].invite) /\ req[w].user \in Users
           /\ invites[req[w].invite].email = req[w].user
           /\ req[w].next \in {"create", "write"} => req[w].user # Founder
BY UnderWay, FrameFields DEF Fits

LEMMA Accepts ==
    ASSUME IInv, NEW w \in Workers, NEW i \in Invites, Exists(i), invites' = Accepted(i)
    PROVE  /\ Grows(w) /\ invites' \in [Invites -> Invite \cup {Absent}]
           /\ invites'[i] # Absent /\ invites'[i].accepted
           /\ invites'[i].email = invites[i].email /\ invites'[i].role = invites[i].role
<1> DEFINE new == [invites[i] EXCEPT !.accepted = TRUE]
<1>1. invites[i] \in Invite
  BY InviteFields DEF IInv
<1>2. new \in Invite /\ new.email = invites[i].email /\ new.role = invites[i].role
      /\ new.accepted
  BY <1>1 DEF Invite
<1>3. invites' = [invites EXCEPT ![i] = new]
  BY DEF Accepted
<1> HIDE DEF new
<1>4. Grows(w) /\ invites' \in [Invites -> Invite \cup {Absent}]
  BY <1>2, <1>3, Updates
<1>5. invites'[i] = new /\ new # Absent
  BY <1>2, <1>3, Distinct DEF IInv, TypeOK
<1> QED
  BY <1>2, <1>4, <1>5

LEMMA FindMemberStep == ASSUME IInv, NEW w \in Workers, FindMember(w) PROVE IInv'
<1>1. req[w] # Idle /\ req[w].op = "accept"
  BY DEF FindMember
<1>2. CASE RowsOf(req[w].user) # {}
  <2>1. invites' = Accepted(req[w].invite)
    BY <1>2 DEF FindMember
  <2>2. Grows(w) /\ invites' \in [Invites -> Invite \cup {Absent}]
    BY <1>1, <2>1, Accepting, Accepts
  <2> QED
    BY <1>2, <2>2, Settles DEF FindMember, IInv, TypeOK
<1>3. CASE RowsOf(req[w].user) = {}
  <2>1. req[w].user # Founder
    BY <1>3 DEF RowsOf, IInv, OwnerKept, FounderRow
  <2> QED
    BY <1>1, <1>3, <2>1, MovesOn DEF FindMember, IInv, TypeOK
<1> QED
  BY <1>2, <1>3

LEMMA AcceptStep == ASSUME IInv, NEW w \in Workers, Accept(w) PROVE IInv'
<1>1. req[w] # Idle /\ req[w].op = "accept" /\ req[w].next \in {"create", "write"}
  BY DEF Accept
<1>2. PICK i \in Invites : i = req[w].invite /\ Exists(i)
  BY <1>1, Accepting
<1>3. invites[i].email = req[w].user /\ req[w].user \in Users \ {Founder}
  BY <1>1, <1>2, Accepting
<1>4. /\ Grows(w) /\ invites' \in [Invites -> Invite \cup {Absent}]
      /\ invites'[i] # Absent /\ invites'[i].accepted
      /\ invites'[i].email = invites[i].email /\ invites'[i].role = invites[i].role
  BY <1>2, Accepts DEF Accept
<1>5. invites[i].role \in Offered /\ invites[i].role # "owner"
  BY <1>2, InviteFields, Distinct DEF IInv
<1>6. PICK row : row = Row(w)
  OBVIOUS
<1>7. row \in Membership /\ row.user = req[w].user /\ row.role = invites[i].role /\ row.origin = i
  BY <1>2, <1>3, <1>5, <1>6 DEF Row, Membership
<1>8. members' = members \cup {row} /\ registered' = registered \cup {req[w].user}
  BY <1>6 DEF Accept, InsertRow
<1>9. members' \subseteq Membership /\ FounderRow \in members'
  BY <1>7, <1>8 DEF IInv, TypeOK, OwnerKept
<1>10. End(w) /\ raced' \subseteq Users /\ registered' \subseteq Users
  BY <1>3, <1>8 DEF Accept, IInv, TypeOK
<1> QED
  BY <1>3, <1>4, <1>5, <1>7, <1>8, <1>9, <1>10, Writes

LEMMA SignupStep == ASSUME IInv, NEW w \in Workers, Signup(w) PROVE IInv'
<1>1. req[w].user \in Users
  BY UnderWay, FrameFields DEF Signup
<1>2. Grows(w)
  BY DEF Signup, Grows, Exists
<1> QED
  BY <1>1, <1>2, Settles DEF Signup, IInv, TypeOK

LEMMA FailStep == ASSUME IInv, NEW w \in Workers, Fail(w) PROVE IInv'
BY Settles DEF Fail, Grows, Exists, IInv, TypeOK

LEMMA ExpireStep == ASSUME IInv, NEW i \in Invites, Expire(i) PROVE IInv'
<1> DEFINE new == [invites[i] EXCEPT !.expired = TRUE]
<1>1. Exists(i) /\ invites[i] \in Invite
  BY InviteFields DEF Expire, Open, IInv
<1>2. new \in Invite /\ new.email = invites[i].email /\ new.role = invites[i].role
      /\ new.accepted = invites[i].accepted
  BY <1>1 DEF Invite
<1>3. invites' = [invites EXCEPT ![i] = new]
  BY DEF Expire
<1> HIDE DEF new
<1>4. Grows(NoInvite) /\ invites' \in [Invites -> Invite \cup {Absent}]
  BY <1>1, <1>2, <1>3, Updates
<1> QED
  BY <1>4, Settles DEF Expire, IInv, TypeOK

-----------------------------------------------------------------------------
\* The theorems.

LEMMA StepInvariant == IInv /\ [Next]_vars => IInv'
<1> SUFFICES ASSUME IInv, [Next]_vars PROVE IInv'
  OBVIOUS
<1>1. CASE UNCHANGED vars
  BY <1>1 DEF vars, IInv, TypeOK, OwnerKept, FounderStays, InvitedMembers, RequestsFit, Fits, Exists
<1>2. CASE \E i \in Invites : Expire(i)
  BY <1>2, ExpireStep
<1>3. ASSUME NEW w \in Workers,
             \/ AskInvite(w) \/ AskRevoke(w) \/ AskRemove(w)
             \/ CheckPending(w) \/ CheckMember(w) \/ CreateInvite(w)
             \/ RevokeInvite(w) \/ CheckTarget(w) \/ RemoveMember(w)
             \/ AskAccept(w) \/ FindUser(w) \/ FindMember(w) \/ Accept(w)
             \/ AskSignup(w) \/ Signup(w) \/ Fail(w)
      PROVE  IInv'
  BY <1>3, AskInviteStep, AskRevokeStep, AskRemoveStep, CheckPendingStep, CheckMemberStep,
     CreateInviteStep, RevokeInviteStep, CheckTargetStep, RemoveMemberStep, AskAcceptStep,
     FindUserStep, FindMemberStep, AcceptStep, AskSignupStep, SignupStep, FailStep
<1> QED
  BY <1>1, <1>2, <1>3 DEF Next

LEMMA Invariant == Spec => []IInv
BY InitInvariant, StepInvariant, PTL DEF Spec

\* The variables keep the shapes that TypeOK gives them.
THEOREM TeamsTypeCorrect == Spec => []TypeOK
<1>1. IInv => TypeOK
  BY DEF IInv
<1> QED
  BY <1>1, Invariant, PTL

\* "Owners cannot be removed by admins" (invites.py): the workspace keeps its
\* founder, as its only owner, however many requests overlap.
THEOREM FounderIsKept == Spec => []OwnerKept
<1>1. IInv => OwnerKept
  BY DEF IInv
<1> QED
  BY <1>1, Invariant, PTL

\* Every other member has been invited: by an invite for that email, which is
\* used up, and with its role (auth_public.py, accept_invite).
THEOREM MembersAreInvited == Spec => []InvitedMembers
<1>1. IInv => InvitedMembers
  BY DEF IInv
<1> QED
  BY <1>1, Invariant, PTL

\* The two ways in which a request moves: it ends, or goes on with its invite.
LEMMA Frames ==
    ASSUME IInv, NEW u \in Workers, NEW w \in Workers, req'[w] # Idle,
           End(u) \/ (req[u] # Idle /\ \E n : Then(u, n))
    PROVE  req[w] # Idle /\ req[w].op = req'[w].op /\ req[w].invite = req'[w].invite
<1>1. CASE u # w
  BY <1>1 DEF End, Then, IInv, TypeOK
<1>2. CASE u = w
  <2>1. PICK n : req[w] # Idle /\ Then(w, n)
    BY <1>2 DEF End, IInv, TypeOK
  <2>2. req[w] \in Frame /\ req'[w] = [req[w] EXCEPT !.next = n]
    BY <2>1, UnderWay DEF Then, IInv, TypeOK
  <2> QED
    BY <2>1, <2>2 DEF Frame
<1> QED
  BY <1>1, <1>2

\* A request that accepts an invite was accepting it before the step, or has
\* just found it open.
LEMMA NewAccepts ==
    ASSUME IInv, Next, NEW w \in Workers, req'[w] # Idle, req'[w].op = "accept"
    PROVE  \/ req[w] # Idle /\ req[w].op = "accept" /\ req[w].invite = req'[w].invite
           \/ Open(req'[w].invite)
<1>1. CASE \E i \in Invites : Expire(i)
  BY <1>1 DEF Expire
<1>2. ASSUME NEW u \in Workers, AskInvite(u) \/ AskRevoke(u) \/ AskRemove(u)
      PROVE  req[w] # Idle /\ req[w].op = "accept" /\ req[w].invite = req'[w].invite
  <2>1. PICK op, next, i, subject :
            op \in {"invite", "revoke", "remove"} /\ Authorize(u, op, next, i, subject)
    BY <1>2 DEF AskInvite, AskRevoke, AskRemove
  <2>2. u # w
    BY <2>1 DEF Authorize, IInv, TypeOK
  <2> QED
    BY <2>1, <2>2 DEF Authorize, IInv, TypeOK
<1>3. ASSUME NEW u \in Workers, AskAccept(u) \/ AskSignup(u)
      PROVE  \/ req[w] # Idle /\ req[w].op = "accept" /\ req[w].invite = req'[w].invite
             \/ Open(req'[w].invite)
  <2>1. CASE u # w
    BY <1>3, <2>1 DEF AskAccept, AskSignup, Begin, IInv, TypeOK
  <2>2. CASE u = w
    BY <1>3, <2>2 DEF AskAccept, AskSignup, Begin, IInv, TypeOK
  <2> QED
    BY <2>1, <2>2
<1>4. ASSUME NEW u \in Workers,
             \/ CheckPending(u) \/ CheckMember(u) \/ CreateInvite(u)
             \/ RevokeInvite(u) \/ CheckTarget(u) \/ RemoveMember(u)
             \/ FindUser(u) \/ FindMember(u) \/ Accept(u) \/ Signup(u) \/ Fail(u)
      PROVE  req[w] # Idle /\ req[w].op = "accept" /\ req[w].invite = req'[w].invite
  <2>1. End(u) \/ (req[u] # Idle /\ \E n : Then(u, n))
    BY <1>4 DEF CheckPending, GoesOn, CheckMember, CreateInvite, RevokeInvite, CheckTarget, RemoveMember,
                FindUser, FindMember, Accept, Signup, Fail, Unless
  <2> QED
    BY <2>1, Frames
<1> QED
  BY <1>1, <1>2, <1>3, <1>4 DEF Next

\* An invite that is revoked stays so.
LEMMA StaysRevoked ==
    ASSUME IInv, Next, NEW i \in Invites, Exists(i), invites[i].revoked
    PROVE  invites'[i] # Absent /\ invites'[i].revoked
<1>1. invites[i] \in Invite /\ invites[i] # Absent
  BY InviteFields DEF IInv, Exists
<1>2. CASE \E j \in Invites : Expire(j)
  BY <1>1, <1>2 DEF Expire, Open, IInv, TypeOK
<1>3. ASSUME NEW u \in Workers, CreateInvite(u)
      PROVE  invites'[i] # Absent /\ invites'[i].revoked
  <2>1. req[u].invite # i
    BY <1>3, UnderWay DEF CreateInvite, Fits
  <2> QED
    BY <1>1, <1>3, <2>1 DEF CreateInvite, IInv, TypeOK
<1>4. ASSUME NEW j, \/ invites' = [invites EXCEPT ![j].revoked = TRUE]
                    \/ invites' = Accepted(j)
      PROVE  invites'[i] # Absent /\ invites'[i].revoked
  <2>1. \/ invites'[i] = invites[i]
        \/ invites'[i] = [invites[i] EXCEPT !.revoked = TRUE]
        \/ invites'[i] = [invites[i] EXCEPT !.accepted = TRUE]
    BY <1>4 DEF Accepted, IInv, TypeOK
  <2> QED
    BY <1>1, <2>1 DEF Invite, Absent
<1>5. ASSUME NEW u \in Workers, RevokeInvite(u) \/ FindMember(u) \/ Accept(u)
      PROVE  invites'[i] # Absent /\ invites'[i].revoked
  <2>1. \/ invites' = [invites EXCEPT ![req[u].invite].revoked = TRUE]
        \/ invites' = Accepted(req[u].invite) \/ invites' = invites
    BY <1>5 DEF RevokeInvite, FindMember, Accept
  <2> QED
    BY <1>1, <1>4, <2>1
<1>6. ASSUME NEW u \in Workers,
             \/ AskInvite(u) \/ AskRevoke(u) \/ AskRemove(u)
             \/ CheckPending(u) \/ CheckMember(u) \/ CheckTarget(u) \/ RemoveMember(u)
             \/ AskAccept(u) \/ FindUser(u) \/ AskSignup(u) \/ Signup(u) \/ Fail(u)
      PROVE  invites' = invites
  BY <1>6 DEF AskInvite, AskRevoke, AskRemove, Authorize, CheckPending, CheckMember, CheckTarget,
              RemoveMember, AskAccept, AskSignup, Begin, FindUser, Signup, Fail
<1> QED
  BY <1>1, <1>2, <1>3, <1>5, <1>6 DEF Next

\* Only a request that accepts an invite adds a row, and it is the invite's.
LEMMA NewRows ==
    ASSUME Next, NEW m \in members', m \notin members
    PROVE  \E w \in Workers : /\ req[w] # Idle /\ req[w].op = "accept"
                              /\ req[w].invite = m.origin
<1>1. CASE \E w \in Workers : Accept(w)
  BY <1>1 DEF Accept, InsertRow, Row
<1>2. ASSUME NEW w \in Workers, RemoveMember(w) PROVE FALSE
  BY <1>2 DEF RemoveMember
<1>3. ASSUME NEW w \in Workers,
             \/ AskInvite(w) \/ AskRevoke(w) \/ AskRemove(w)
             \/ CheckPending(w) \/ CheckMember(w) \/ CreateInvite(w)
             \/ RevokeInvite(w) \/ CheckTarget(w)
             \/ AskAccept(w) \/ FindUser(w) \/ FindMember(w)
             \/ AskSignup(w) \/ Signup(w) \/ Fail(w)
      PROVE  FALSE
  BY <1>3 DEF AskInvite, AskRevoke, AskRemove, Authorize, CheckPending, CheckMember, CreateInvite,
              RevokeInvite, CheckTarget, AskAccept, AskSignup, Begin, FindUser, FindMember,
              Signup, Fail
<1>4. ~\E i \in Invites : Expire(i)
  BY DEF Expire
<1> QED
  BY <1>1, <1>2, <1>3, <1>4 DEF Next

\* Once an invite is revoked, and the requests that had read it open have ended,
\* it brings no member any more (orgs.py and invites.py, revoke_invite).
THEOREM RevocationIsFinal == Spec => RevokedIsFinal
<1>1. ASSUME IInv, [Next]_vars, NEW i \in Invites, Spent(i)
      PROVE  Spent(i)' /\ (\A m \in members' : m.origin = i => m \in members)
  <2>1. Exists(i) /\ invites[i].revoked /\ ~Open(i)
        /\ \A w \in Workers : req[w] # Idle /\ req[w].op = "accept" => req[w].invite # i
    BY <1>1 DEF Spent, Open
  <2>2. CASE UNCHANGED vars
    BY <2>1, <2>2 DEF vars, Spent, Exists
  <2>3. CASE Next
    <3>1. invites'[i] # Absent /\ invites'[i].revoked
      BY <1>1, <2>1, <2>3, StaysRevoked
    <3>2. \A w \in Workers : req'[w] # Idle /\ req'[w].op = "accept" => req'[w].invite # i
      BY <1>1, <2>1, <2>3, NewAccepts
    <3>3. \A m \in members' : m.origin = i => m \in members
      BY <2>1, <2>3, NewRows
    <3> QED
      BY <3>1, <3>2, <3>3 DEF Spent, Exists
  <2> QED
    BY <1>1, <2>2, <2>3
<1>2. IInv /\ [Next]_vars =>
          [\A i \in Invites : Spent(i) => Spent(i)' /\ \A m \in members' : m.origin = i => m \in members]_vars
  BY <1>1
<1> QED
  BY <1>2, Invariant, PTL DEF Spec, RevokedIsFinal

-----------------------------------------------------------------------------
\* Open invites.  An email has no more of them than requests that were under way
\* together: a request that has found none counts as the invite that it will
\* create.  When it finds none there is none, so that there are as many as
\* requests at most; and one only, if no other request has found none as well.

Within(u) ==
    LET n == Cardinality(Pending(u)) + Cardinality(Inviting(u))
    IN  /\ IsFiniteSet(Pending(u))
        /\ n <= Cardinality(Workers)
        /\ u \notin raced => n <= 1

OpenInv == \A u \in Users : Within(u)

LEMMA InvitingIsFinite ==
    ASSUME NEW u \in Users
    PROVE  /\ IsFiniteSet(Inviting(u)) /\ Cardinality(Inviting(u)) \in Nat
           /\ Cardinality(Inviting(u)) <= Cardinality(Workers) /\ Cardinality(Workers) \in Nat
<1>1. Inviting(u) \subseteq Workers /\ IsFiniteSet(Workers)
  BY TeamsAssumption DEF Inviting
<1> QED
  BY <1>1, FS_Subset, FS_CardinalityType

LEMMA WithinSizes ==
    ASSUME NEW u \in Users, Within(u)
    PROVE  Cardinality(Pending(u)) \in Nat
BY FS_CardinalityType DEF Within

\* No invite for the email is new, and no request that will create one.
LEMMA Fewer ==
    ASSUME NEW u \in Users, Within(u), raced \subseteq raced',
           Pending(u)' \subseteq Pending(u), Inviting(u)' \subseteq Inviting(u)
    PROVE  Within(u)'
<1>1. IsFiniteSet(Pending(u)')
      /\ Cardinality(Pending(u)') <= Cardinality(Pending(u))
  BY FS_Subset DEF Within
<1>2. Cardinality(Inviting(u)') <= Cardinality(Inviting(u))
  BY InvitingIsFinite, FS_Subset
<1>3. Cardinality(Pending(u)') \in Nat /\ Cardinality(Inviting(u)') \in Nat
  BY <1>1, InvitingIsFinite, FS_Subset, FS_CardinalityType
<1>4. /\ Cardinality(Pending(u)) \in Nat /\ Cardinality(Inviting(u)) \in Nat
      /\ Cardinality(Workers) \in Nat
  BY InvitingIsFinite, WithinSizes
<1>5. \A p, i, p1, i1, c \in Nat : p1 <= p /\ i1 <= i =>
          (p + i <= c => p1 + i1 <= c) /\ (p + i <= 1 => p1 + i1 <= 1)
  OBVIOUS
<1> QED
  BY <1>1, <1>2, <1>3, <1>4, <1>5 DEF Within

\* What becomes of an invite other than by its creation leaves it no more open.
LEMMA NoNewPending ==
    ASSUME IInv, Next, \A w \in Workers : ~CreateInvite(w), NEW u \in Users
    PROVE  Pending(u)' \subseteq Pending(u)
<1> SUFFICES ASSUME NEW i \in Invites, Open(i)', invites'[i].email = u
             PROVE  Open(i) /\ invites[i].email = u
  BY DEF Pending
<1>1. CASE invites'[i] = invites[i]
  BY <1>1 DEF Open, Exists
<1>2. CASE Exists(i) /\ \/ invites'[i] = [invites[i] EXCEPT !.expired = TRUE]
                        \/ invites'[i] = [invites[i] EXCEPT !.revoked = TRUE]
                        \/ invites'[i] = [invites[i] EXCEPT !.accepted = TRUE]
  <2>1. invites[i] \in Invite
    BY <1>2, InviteFields DEF IInv
  <2> QED
    BY <1>2, <2>1 DEF Open, Invite
<1>3. ASSUME NEW j \in Invites, Expire(j) PROVE Open(i) /\ invites[i].email = u
  <2>1. invites'[i] = invites[i] \/ (j = i /\ Exists(i) /\ invites'[i] = [invites[i] EXCEPT !.expired = TRUE])
    BY <1>3 DEF Expire, Open, IInv, TypeOK
  <2> QED
    BY <1>1, <1>2, <2>1
<1>4. ASSUME NEW w \in Workers, RevokeInvite(w) PROVE Open(i) /\ invites[i].email = u
  <2>1. Exists(req[w].invite)
    BY <1>4, UnderWay DEF RevokeInvite, Fits
  <2>2. invites'[i] = invites[i] \/ (req[w].invite = i /\ invites'[i] = [invites[i] EXCEPT !.revoked = TRUE])
    BY <1>4 DEF RevokeInvite, IInv, TypeOK
  <2> QED
    BY <1>1, <1>2, <2>1, <2>2
<1>5. ASSUME NEW w \in Workers, FindMember(w) \/ Accept(w) PROVE Open(i) /\ invites[i].email = u
  <2>1. Exists(req[w].invite)
    BY <1>5, Accepting DEF FindMember, Accept
  <2>2. \/ invites'[i] = invites[i]
        \/ req[w].invite = i /\ invites'[i] = [invites[i] EXCEPT !.accepted = TRUE]
    BY <1>5 DEF FindMember, Accept, Accepted, IInv, TypeOK
  <2> QED
    BY <1>1, <1>2, <2>1, <2>2
<1>6. ASSUME NEW w \in Workers,
             \/ AskInvite(w) \/ AskRevoke(w) \/ AskRemove(w)
             \/ CheckPending(w) \/ CheckMember(w) \/ CheckTarget(w) \/ RemoveMember(w)
             \/ AskAccept(w) \/ FindUser(w) \/ AskSignup(w) \/ Signup(w) \/ Fail(w)
      PROVE  Open(i) /\ invites[i].email = u
  <2>1. invites' = invites
    BY <1>6 DEF AskInvite, AskRevoke, AskRemove, Authorize, CheckPending, CheckMember, CheckTarget,
                RemoveMember, AskAccept, AskSignup, Begin, FindUser, Signup, Fail
  <2> QED
    BY <1>1, <2>1
<1> QED
  BY <1>3, <1>4, <1>5, <1>6 DEF Next

\* A request ends, begins, or goes on without becoming one that will create an
\* invite.
LEMMA NoNewInviting ==
    ASSUME IInv, Next, \A w \in Workers : ~CheckPending(w), NEW u \in Users
    PROVE  Inviting(u)' \subseteq Inviting(u)
<1> SUFFICES ASSUME NEW v \in Workers, req'[v] # Idle, req'[v].op = "invite",
                    req'[v].next \in {"member", "write"}, req'[v].subject = u
             PROVE  v \in Inviting(u)
  BY DEF Inviting
<1>1. CASE req'[v] = req[v]
  BY <1>1 DEF Inviting
<1>2. ASSUME NEW w \in Workers, AskInvite(w) \/ AskRevoke(w) \/ AskRemove(w)
      PROVE  v \in Inviting(u)
  <2>1. PICK op, next, i, subject :
            /\ op = "invite" => next = "pending"
            /\ Authorize(w, op, next, i, subject)
    BY <1>2 DEF AskInvite, AskRevoke, AskRemove
  <2>2. v # w
    BY <2>1 DEF Authorize, IInv, TypeOK
  <2> QED
    BY <1>1, <2>1, <2>2 DEF Authorize, IInv, TypeOK
<1>3. ASSUME NEW w \in Workers, AskAccept(w) \/ AskSignup(w) PROVE v \in Inviting(u)
  <2>1. PICK op, next, i, p : op \in {"accept", "signup"} /\ Begin(w, op, next, i, p)
    BY <1>3 DEF AskAccept, AskSignup
  <2>2. v # w
    BY <2>1 DEF Begin, IInv, TypeOK
  <2> QED
    BY <1>1, <2>1, <2>2 DEF Begin, IInv, TypeOK
<1>4. ASSUME NEW w \in Workers, req[w] # Idle,
             \/ End(w)
             \/ \E n : Then(w, n) /\ (req[w].op = "invite" => req[w].next = "member")
      PROVE  v \in Inviting(u)
  <2>1. CASE v # w
    <3>1. req'[v] = req[v]
      BY <1>4, <2>1 DEF End, Then, IInv, TypeOK
    <3> QED
      BY <1>1, <3>1
  <2>2. CASE v = w
    <3>1. PICK n : Then(v, n) /\ (req[v].op = "invite" => req[v].next = "member")
      BY <1>4, <2>2 DEF End, IInv, TypeOK
    <3>2. req[v] \in Frame /\ req'[v] = [req[v] EXCEPT !.next = n]
      BY <1>4, <2>2, <3>1, UnderWay DEF Then, IInv, TypeOK
    <3>3. req[v].op = "invite" /\ req[v].subject = u
      BY <3>2 DEF Frame
    <3> QED
      BY <1>4, <2>2, <3>1, <3>3 DEF Inviting
  <2> QED
    BY <2>1, <2>2
<1>5. ASSUME NEW w \in Workers,
             \/ CheckMember(w) \/ CreateInvite(w) \/ RevokeInvite(w) \/ CheckTarget(w)
             \/ RemoveMember(w) \/ FindUser(w) \/ FindMember(w) \/ Accept(w) \/ Signup(w) \/ Fail(w)
      PROVE  v \in Inviting(u)
  <2>1. req[w] # Idle
    BY <1>5 DEF CheckMember, CreateInvite, RevokeInvite, CheckTarget, RemoveMember, FindUser,
                FindMember, Accept, Signup, Fail
  <2>2. \/ End(w)
        \/ \E n : Then(w, n) /\ (req[w].op = "invite" => req[w].next = "member")
    <3>1. CASE CheckMember(w)
      BY <3>1 DEF CheckMember, Unless
    <3>2. CASE CheckTarget(w)
      BY <2>1, <3>2, UnderWay DEF CheckTarget, Unless, Fits
    <3>3. CASE FindUser(w)
      BY <2>1, <3>3, UnderWay DEF FindUser, Fits
    <3>4. CASE FindMember(w)
      BY <3>4 DEF FindMember
    <3>5. CASE CreateInvite(w) \/ RevokeInvite(w) \/ RemoveMember(w) \/ Accept(w) \/ Signup(w) \/ Fail(w)
      BY <3>5 DEF CreateInvite, RevokeInvite, RemoveMember, Accept, Signup, Fail
    <3> QED
      BY <1>5, <3>1, <3>2, <3>3, <3>4, <3>5
  <2> QED
    BY <1>4, <2>1, <2>2
<1>6. ASSUME NEW i \in Invites, Expire(i) PROVE v \in Inviting(u)
  BY <1>1, <1>6 DEF Expire
<1> QED
  BY <1>2, <1>3, <1>5, <1>6 DEF Next

\* A request has found no open invite: there is none, and it is the only one that
\* has, unless it has raced.
LEMMA CheckPendingWithin ==
    ASSUME IInv, OpenInv, NEW w \in Workers, CheckPending(w), NEW u \in Users
    PROVE  Within(u)'
<1>1. req[w] # Idle /\ req[w] \in Frame /\ invites' = invites /\ raced \subseteq raced'
  BY UnderWay DEF CheckPending, GoesOn
<1>2. Pending(u)' = Pending(u) /\ Within(u)
  BY <1>1 DEF Pending, Open, Exists, OpenInv
<1>3. \A v \in Workers \ {w} : req'[v] = req[v]
  BY DEF CheckPending, GoesOn, End, Then, IInv, TypeOK
<1>4. CASE w \notin Inviting(u)'
  <2>1. Inviting(u)' \subseteq Inviting(u)
    BY <1>3, <1>4 DEF Inviting
  <2> QED
    BY <1>1, <1>2, <2>1, Fewer
<1>5. CASE w \in Inviting(u)'
  <2>1. Pending(req[w].subject) = {} /\ GoesOn(w)
    <3>1. ~End(w)
      BY <1>5 DEF Inviting, End, IInv, TypeOK
    <3> QED
      BY <3>1 DEF CheckPending
  <2>2. req[w].subject = u
    <3>1. req'[w] = [req[w] EXCEPT !.next = "member"]
      BY <2>1 DEF GoesOn, Then, IInv, TypeOK
    <3> QED
      BY <1>1, <1>5, <3>1 DEF Inviting, Frame
  <2>3. Pending(u)' = {} /\ IsFiniteSet({}) /\ Cardinality({}) = 0
    BY <1>2, <2>1, <2>2, FS_EmptySet
  <2>4. /\ IsFiniteSet(Inviting(u)') /\ Cardinality(Inviting(u)') \in Nat
        /\ Cardinality(Inviting(u)') <= Cardinality(Workers)
    <3>1. Inviting(u)' \subseteq Workers /\ IsFiniteSet(Workers)
      BY TeamsAssumption DEF Inviting
    <3> QED
      BY <3>1, FS_Subset, FS_CardinalityType
  <2>5. ASSUME u \notin raced' PROVE Cardinality(Inviting(u)') = 1
    <3>1. Inviting(u) = {}
      BY <2>1, <2>2, <2>5 DEF GoesOn
    <3>2. Inviting(u)' = {w}
      BY <1>3, <1>5, <3>1 DEF Inviting
    <3> QED
      BY <3>2, FS_Singleton
  <2> QED
    BY <2>3, <2>4, <2>5 DEF Within
<1> QED
  BY <1>4, <1>5

\* A request that has found none creates its invite, and ends.
LEMMA CreateInviteWithin ==
    ASSUME IInv, OpenInv, NEW w \in Workers, CreateInvite(w), NEW u \in Users
    PROVE  Within(u)'
<1> DEFINE i == req[w].invite
<1>1. /\ req[w] # Idle /\ req[w].op = "invite" /\ req[w].next = "write"
      /\ req[w] \in Frame /\ Fits(w, req[w]) /\ raced' = raced
  BY UnderWay DEF CreateInvite
<1>2. i \in Invites /\ req[w].subject \in Users
  BY <1>1, FrameFields DEF Fits
<1>3. PICK role : invites' = [invites EXCEPT ![i] =
          [email |-> req[w].subject, role |-> role,
           accepted |-> FALSE, revoked |-> FALSE, expired |-> FALSE]]
  BY DEF CreateInvite
<1>4. req'[w] = Idle /\ \A v \in Workers \ {w} : req'[v] = req[v]
  BY DEF CreateInvite, End, IInv, TypeOK
<1>5. invites'[i].email = req[w].subject /\ \A j \in Invites \ {i} : invites'[j] = invites[j]
  BY <1>2, <1>3 DEF IInv, TypeOK
<1>6. Inviting(u)' = Inviting(u) \ {w}
  BY <1>4 DEF Inviting
<1>7. CASE req[w].subject # u
  <2>1. Pending(u)' \subseteq Pending(u)
    BY <1>5, <1>7 DEF Pending, Open, Exists
  <2> QED
    BY <1>1, <1>6, <2>1, Fewer DEF OpenInv
<1>8. CASE req[w].subject = u
  <2>1. Pending(u)' \subseteq Pending(u) \cup {i}
    BY <1>5 DEF Pending, Open, Exists
  <2>2. w \in Inviting(u)
    BY <1>1, <1>8 DEF Inviting
  <2>3. Within(u) /\ Cardinality(Pending(u)) \in Nat
    BY WithinSizes DEF OpenInv
  <2>4. /\ IsFiniteSet(Pending(u) \cup {i})
        /\ Cardinality(Pending(u) \cup {i}) \in Nat
        /\ Cardinality(Pending(u) \cup {i}) <= Cardinality(Pending(u)) + 1
    <3>1. IsFiniteSet(Pending(u))
      BY <2>3 DEF Within
    <3>2. /\ IsFiniteSet(Pending(u) \cup {i})
          /\ Cardinality(Pending(u) \cup {i}) =
                 IF i \in Pending(u) THEN Cardinality(Pending(u)) ELSE Cardinality(Pending(u)) + 1
      BY <3>1, FS_AddElement
    <3> HIDE DEF i
    <3> QED
      BY <2>3, <3>2
  <2>5. /\ IsFiniteSet(Pending(u)') /\ Cardinality(Pending(u)') \in Nat
        /\ Cardinality(Pending(u)') <= Cardinality(Pending(u) \cup {i})
    BY <2>1, <2>4, FS_Subset, FS_CardinalityType
  <2>6. /\ Cardinality(Inviting(u)) \in Nat /\ Cardinality(Workers) \in Nat
        /\ Cardinality(Inviting(u)') = Cardinality(Inviting(u)) - 1
    BY <1>6, <2>2, InvitingIsFinite, FS_RemoveElement
  <2>7. \A p, q, p1, n, c \in Nat : q <= p + 1 /\ p1 <= q =>
            (p + n <= c => p1 + (n - 1) <= c) /\ (p + n <= 1 => p1 + (n - 1) <= 1)
    OBVIOUS
  <2> QED
    BY <1>1, <2>3, <2>4, <2>5, <2>6, <2>7 DEF Within
<1> QED
  BY <1>7, <1>8

LEMMA RacedGrows == ASSUME Next PROVE raced \subseteq raced'
BY DEF Next, AskInvite, AskRevoke, AskRemove, Authorize, CheckPending, GoesOn, CheckMember,
       CreateInvite, RevokeInvite, CheckTarget, RemoveMember, AskAccept, AskSignup, Begin,
       FindUser, FindMember, Accept, Signup, Fail, Expire

LEMMA OpenStep == IInv /\ OpenInv /\ [Next]_vars => OpenInv'
<1> SUFFICES ASSUME IInv, OpenInv, [Next]_vars, NEW u \in Users PROVE Within(u)'
  BY DEF OpenInv
<1>1. CASE UNCHANGED vars
  <2>1. Pending(u)' = Pending(u) /\ Inviting(u)' = Inviting(u) /\ raced' = raced
    BY <1>1 DEF vars, Pending, Open, Exists, Inviting
  <2> QED
    BY <2>1, Fewer DEF OpenInv
<1>2. CASE Next /\ \A w \in Workers : ~CheckPending(w) /\ ~CreateInvite(w)
  BY <1>2, NoNewPending, NoNewInviting, RacedGrows, Fewer DEF OpenInv
<1>3. CASE \E w \in Workers : CheckPending(w) \/ CreateInvite(w)
  BY <1>3, CheckPendingWithin, CreateInviteWithin
<1> QED
  BY <1>1, <1>2, <1>3

\* "Prevent duplicate pending invites for the same email + tenant" (invites.py,
\* create_invite): an email has one open invite at most, unless requests that
\* invite it have overlapped, and then as many as run at the same time.
THEOREM OpenInvitesBounded == Spec => []OpenInvites
<1>1. Init => OpenInv
  <2> SUFFICES ASSUME Init, NEW u \in Users PROVE Within(u)
    BY DEF OpenInv
  <2>1. Pending(u) = {} /\ Inviting(u) = {}
    BY DEF Init, Pending, Open, Exists, Inviting
  <2>2. IsFiniteSet({}) /\ Cardinality({}) = 0 /\ Cardinality(Workers) \in Nat
    BY FS_EmptySet, TeamsAssumption, FS_CardinalityType
  <2> QED
    BY <2>1, <2>2 DEF Within
<1>2. OpenInv => OpenInvites
  <2> SUFFICES ASSUME OpenInv, NEW u \in Users
               PROVE  Cardinality(Pending(u)) <= IF u \in raced THEN Cardinality(Workers) ELSE 1
    BY DEF OpenInvites
  <2>1. Within(u) /\ Cardinality(Pending(u)) \in Nat
    BY WithinSizes DEF OpenInv
  <2> QED
    BY <2>1, InvitingIsFinite DEF Within
<1> QED
  BY <1>1, <1>2, OpenStep, Invariant, PTL DEF Spec

=============================================================================
