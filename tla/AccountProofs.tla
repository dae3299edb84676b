---------------------------- MODULE AccountProofs ----------------------------
(***************************************************************************)
(* Theorems about the sessions and links of an account, for any number of  *)
(* tokens, links and requests and any lives, and about the rows of one     *)
(* tenant, for any set of keys, endpoints, plans and subscriptions.        *)
(***************************************************************************)
EXTENDS MCAccount, FiniteSetTheorems, TLAPS

-----------------------------------------------------------------------------
\* The inductive invariant.

\* A token on the block list has been issued, and is on it until it expires.
BlockInv == \A t \in revoked : exp[t] > 0 /\ exp[t] <= blocked[t]

\* A pair is issued as a pair.
PairInv == \A p \in Pairs : exp[<<p, "access">>] = 0 => exp[<<p, "refresh">>] = 0

Follows(w, l) == req[w] # Idle /\ req[w].op # "change" /\ req[w].link = l
Followers(l) == {w \in Workers : Follows(w, l)}

\* Each request that follows a link may give it one more effect, and nobody
\* follows a link once it is used, except who read it before.
LinkInv ==
    \A l \in Links :
        /\ links[l].used <=> effects[l] > 0
        /\ effects[l] + Cardinality(Followers(l)) <= Cardinality(Workers)
        /\ \A w \in Workers : Follows(w, l) => req[w].op = links[l].kind
        /\ ~raced => /\ effects[l] <= 1
                     /\ links[l].used => Followers(l) = {}
                     /\ \A v, w \in Workers : Follows(v, l) /\ Follows(w, l) => v = w

VerifiedInv ==
    (\E l \in Links : links[l].kind = "verify") => (verified <=> Effective("verify"))

SentInv == \A l \in Links : links[l].kind = "none" => links[l] = Unsent

\* Nothing is mailed before there is an account.
NewInv == ~Registered => ~verified /\ \A l \in Links : links[l] = Unsent

TokenInv == BlockInv /\ PairInv
MailInv  == LinkInv /\ VerifiedInv /\ SentInv
IInv == SessionsTypeOK /\ TokenInv /\ MailInv /\ NewInv

-----------------------------------------------------------------------------
\* Whole seconds.

LEMMA WholeSeconds ==
    ASSUME NEW a \in Nat
    PROVE  /\ (a \div Second) * Second \in Nat
           /\ (a \div Second) * Second <= a
           /\ a < (a \div Second) * Second + Second
<1> DEFINE q == a \div Second
<1>1. Second \in Nat /\ Second > 0
  BY SessionsAssumption
<1>2. q \in Nat /\ a = q * Second + (a % Second) /\ a % Second \in Nat /\ a % Second < Second
  BY <1>1
<1> HIDE DEF q
<1>3. q * Second \in Nat
  BY <1>1, <1>2
<1>4. PICK x \in Nat : x = q * Second
  BY <1>3
<1>5. PICK r \in Nat : r = a % Second /\ r < Second
  BY <1>2
<1>6. a = x + r
  BY <1>2, <1>4, <1>5
<1>7. x <= a /\ a < x + Second
  BY <1>1, <1>5, <1>6
<1> QED
  BY <1>3, <1>4, <1>7 DEF q

LEMMA ExpiryPositive ==
    ASSUME now \in Nat, NEW ttl \in Nat, Second <= ttl
    PROVE  Expiry(ttl) \in Nat /\ Expiry(ttl) > 0
<1>1. now + ttl \in Nat /\ Second \in Nat
  BY SessionsAssumption
<1> DEFINE a == now + ttl
           x == (a \div Second) * Second
<1>2. a \in Nat /\ x \in Nat /\ a < x + Second
  BY <1>1, WholeSeconds
<1>3. Expiry(ttl) = x
  BY DEF Expiry
<1>4. a >= Second
  BY <1>1
<1> HIDE DEF a, x
<1> QED
  BY <1>1, <1>2, <1>3, <1>4

\* revoke_jti: the life on the block list reaches the expiry of the token.
LEMMA BlockedLongEnough ==
    ASSUME now \in Nat, NEW t, exp[t] \in Nat, exp[t] > now
    PROVE  BlockedUntil(t) \in Nat /\ exp[t] <= BlockedUntil(t)
<1> DEFINE a == exp[t] - now
           x == (a \div Second) * Second
<1>1. a \in Nat
  OBVIOUS
<1>2. x \in Nat /\ a < x + Second
  BY <1>1, WholeSeconds
<1>3. BlockedUntil(t) = now + x + Grace
  BY DEF BlockedUntil
<1>4. exp[t] = now + a /\ Second \in Nat /\ Grace \in Nat /\ Second <= Grace
  BY SessionsAssumption
<1> HIDE DEF a, x
<1> QED
  BY <1>1, <1>2, <1>3, <1>4

-----------------------------------------------------------------------------
\* Requests.

Following == [op : {"reset", "verify"}, link : Links]
Changing  == [op : {"change"}, seen : Passwords]

LEMMA Frames ==
    ASSUME SessionsTypeOK, NEW w \in Workers
    PROVE  /\ req[w].op \in {"idle", "reset", "verify", "change"}
           /\ req[w] = Idle <=> req[w].op = "idle"
           /\ req[w].op \in {"reset", "verify"} => req[w].link \in Links /\ Follows(w, req[w].link)
           /\ \A l : Follows(w, l) => req[w].op \in {"reset", "verify"}
<1>1. req[w] \in {Idle} \cup Following \cup Changing
  BY DEF SessionsTypeOK, Following, Changing
<1>2. CASE req[w] = Idle
  BY <1>2 DEF Idle, Follows
<1>3. CASE req[w] \in Following
  BY <1>3 DEF Following, Follows, Idle
<1>4. CASE req[w] \in Changing
  BY <1>4 DEF Changing, Follows, Idle
<1> QED
  BY <1>1, <1>2, <1>3, <1>4

LEMMA FollowersFinite ==
    ASSUME NEW l
    PROVE  /\ IsFiniteSet(Followers(l)) /\ Cardinality(Followers(l)) \in Nat
           /\ Cardinality(Workers) \in Nat /\ Cardinality(Followers(l)) <= Cardinality(Workers)
<1>1. Followers(l) \in SUBSET Workers
  BY DEF Followers
<1> QED
  BY <1>1, SessionsAssumption, FS_Subset, FS_CardinalityType

\* Requests begin and end, but none comes to follow a link.
LEMMA NobodyFollows ==
    ASSUME SessionsTypeOK, MailInv, UNCHANGED mail, verified' = verified,
           \A w \in Workers, l \in Links :
               Follows(w, l)' => Follows(w, l) /\ req'[w].op = req[w].op
    PROVE  MailInv'
<1>1. links' = links /\ effects' = effects /\ raced' = raced
  BY DEF mail
<1>2. VerifiedInv' /\ SentInv'
  BY <1>1 DEF MailInv, VerifiedInv, Effective, SentInv
<1>3. ASSUME NEW l \in Links
      PROVE  /\ Followers(l)' \subseteq Followers(l)
             /\ effects[l] + Cardinality(Followers(l)') <= Cardinality(Workers)
  <2>1. Followers(l)' \subseteq Followers(l)
    BY DEF Followers
  <2>2. Cardinality(Followers(l)') <= Cardinality(Followers(l)) /\ Cardinality(Followers(l)') \in Nat
    BY <2>1, FollowersFinite, FS_Subset, FS_CardinalityType
  <2>3. effects[l] + Cardinality(Followers(l)) <= Cardinality(Workers) /\ effects[l] \in Nat
    BY DEF MailInv, LinkInv, SessionsTypeOK
  <2> QED
    BY <2>1, <2>2, <2>3, FollowersFinite
<1>4. LinkInv'
  <2> SUFFICES ASSUME NEW l \in Links
               PROVE  /\ links[l].used <=> effects[l] > 0
                      /\ effects[l] + Cardinality(Followers(l)') <= Cardinality(Workers)
                      /\ \A w \in Workers : Follows(w, l)' => req'[w].op = links[l].kind
                      /\ ~raced => /\ effects[l] <= 1
                                   /\ links[l].used => Followers(l)' = {}
                                   /\ \A v, w \in Workers : Follows(v, l)' /\ Follows(w, l)' => v = w
    BY <1>1 DEF LinkInv
  <2>1. /\ links[l].used <=> effects[l] > 0
        /\ \A w \in Workers : Follows(w, l) => req[w].op = links[l].kind
        /\ ~raced => /\ effects[l] <= 1
                     /\ links[l].used => Followers(l) = {}
                     /\ \A v, w \in Workers : Follows(v, l) /\ Follows(w, l) => v = w
    BY DEF MailInv, LinkInv
  <2> QED
    BY <1>3, <2>1
<1> QED
  BY <1>2, <1>4 DEF MailInv

\* Nothing happens to the requests.
LEMMA MailKept ==
    ASSUME SessionsTypeOK, MailInv, UNCHANGED mail, verified' = verified, req' = req
    PROVE  MailInv'
<1>1. \A w \in Workers, l \in Links : Follows(w, l)' => Follows(w, l) /\ req'[w].op = req[w].op
  BY DEF Follows
<1> QED
  BY <1>1, NobodyFollows

\* A request that was idle, or ends, follows nothing after the step.
LEMMA MailLeft ==
    ASSUME SessionsTypeOK, MailInv, UNCHANGED mail, verified' = verified, NEW w \in Workers,
           NEW f \in {Idle} \cup Changing, req' = [req EXCEPT ![w] = f]
    PROVE  MailInv'
<1>1. req'[w] = f /\ \A v \in Workers \ {w} : req'[v] = req[v]
  BY DEF SessionsTypeOK
<1>2. f = Idle \/ f.op = "change"
  BY DEF Changing
<1>3. \A v \in Workers, l \in Links : Follows(v, l)' => Follows(v, l) /\ req'[v].op = req[v].op
  BY <1>1, <1>2 DEF Follows
<1> QED
  BY <1>3, NobodyFollows

LEMMA TokensKept ==
    ASSUME TokenInv, UNCHANGED session PROVE TokenInv'
BY DEF TokenInv, BlockInv, PairInv, session

LEMMA NewKept ==
    ASSUME NewInv, UNCHANGED session, UNCHANGED links, verified' = verified PROVE NewInv'
BY DEF NewInv, Registered, session

LEMMA InitInvariant == Init => IInv
<1> SUFFICES ASSUME Init PROVE IInv
  OBVIOUS
<1>1. SessionsTypeOK
  <2>1. Unsent \in [kind : {"none", "reset", "verify"}, expires : Nat, used : BOOLEAN]
    BY DEF Unsent
  <2>2. now \in 0..Horizon
    BY SessionsAssumption DEF Init
  <2> QED
    BY <2>1, <2>2 DEF Init, SessionsTypeOK
<1>2. TokenInv
  BY DEF Init, TokenInv, BlockInv, PairInv, Tokens
<1>3. MailInv
  <2>1. \A w \in Workers, l \in Links : ~Follows(w, l)
    BY DEF Init, Follows
  <2>2. \A l \in Links : links[l] = Unsent /\ effects[l] = 0 /\ Followers(l) = {}
    BY <2>1 DEF Init, Followers
  <2>3. \A l \in Links : effects[l] + Cardinality(Followers(l)) <= Cardinality(Workers)
    BY <2>2, FollowersFinite, FS_EmptySet
  <2>4. LinkInv
    BY <2>1, <2>2, <2>3 DEF LinkInv, Unsent
  <2> QED
    BY <2>2, <2>4 DEF MailInv, VerifiedInv, SentInv, Unsent
<1> QED
  BY <1>1, <1>2, <1>3 DEF IInv, NewInv, Init

-----------------------------------------------------------------------------
\* Session tokens.

\* A pair that is issued is new, and belongs to an account.
LEMMA Issues ==
    ASSUME IInv, NEW p \in Pairs, Issue(p)
    PROVE  /\ TokenInv' /\ Registered' /\ NewInv'
           /\ exp' \in [Tokens -> Nat]
           /\ UNCHANGED <<now, blocked, revoked, req>>
<1> USE DEF IInv
<1>1. Expiry(AccessTTL) \in Nat /\ Expiry(AccessTTL) > 0 /\ Expiry(RefreshTTL) \in Nat
  BY SessionsAssumption, ExpiryPositive DEF SessionsTypeOK
<1>2. /\ exp' \in [Tokens -> Nat]
      /\ exp'[<<p, "access">>] > 0
      /\ \A t \in Tokens : t # <<p, "access">> /\ t # <<p, "refresh">> => exp'[t] = exp[t]
  BY <1>1 DEF Issue, Tokens, SessionsTypeOK
<1>3. exp[<<p, "access">>] = 0 /\ exp[<<p, "refresh">>] = 0
  BY DEF Issue, TokenInv, PairInv
<1>4. BlockInv'
  <2>1. \A t \in revoked : t \in Tokens /\ t # <<p, "access">> /\ t # <<p, "refresh">>
    <3>1. revoked \subseteq Tokens
      BY DEF SessionsTypeOK
    <3>2. \A t \in revoked : exp[t] > 0
      BY DEF TokenInv, BlockInv
    <3> QED
      BY <1>3, <3>1, <3>2
  <2>2. blocked' = blocked /\ revoked' = revoked
    BY DEF Issue
  <2> QED
    BY <1>2, <2>1, <2>2 DEF TokenInv, BlockInv
<1>5. PairInv'
  <2> SUFFICES ASSUME NEW q \in Pairs, exp'[<<q, "access">>] = 0
               PROVE  exp'[<<q, "refresh">>] = 0
    BY DEF PairInv
  <2>1. q # p
    BY <1>2
  <2> QED
    BY <1>2, <2>1 DEF TokenInv, PairInv, Tokens
<1>6. Registered'
  BY <1>2 DEF Registered, Tokens
<1> QED
  BY <1>2, <1>4, <1>5, <1>6 DEF TokenInv, NewInv, Issue

LEMMA PairStep ==
    ASSUME IInv, NEW p \in Pairs, Login(p) \/ Refresh(p) PROVE IInv'
<1>1. Issue(p) /\ UNCHANGED <<account, mail>>
  BY DEF Login, Refresh
<1>2. TokenInv' /\ NewInv' /\ exp' \in [Tokens -> Nat] /\ UNCHANGED <<now, blocked, revoked, req>>
  BY <1>1, Issues
<1>3. SessionsTypeOK'
  BY <1>1, <1>2 DEF IInv, SessionsTypeOK, account, mail
<1>4. MailInv'
  BY <1>1, <1>2, MailKept DEF IInv, account
<1> QED
  BY <1>2, <1>3, <1>4 DEF IInv

\* An account that an invite creates is verified, and no link to verify it was
\* mailed.
LEMMA AcceptInviteStep ==
    ASSUME IInv, NEW p \in Pairs, AcceptInvite(p) PROVE IInv'
<1>1. /\ Issue(p) /\ password' = password /\ UNCHANGED mail
      /\ verified' = (verified \/ ~Registered)
  BY DEF AcceptInvite
<1>2. TokenInv' /\ NewInv' /\ exp' \in [Tokens -> Nat] /\ UNCHANGED <<now, blocked, revoked, req>>
  BY <1>1, Issues
<1>3. verified' \in BOOLEAN
  BY <1>1 DEF IInv, SessionsTypeOK
<1>4. SessionsTypeOK'
  BY <1>1, <1>2, <1>3 DEF IInv, SessionsTypeOK, mail
<1>5. CASE Registered
  <2>1. verified' = verified
    BY <1>1, <1>5 DEF IInv, SessionsTypeOK
  <2>2. MailInv'
    BY <1>1, <1>2, <2>1, MailKept DEF IInv
  <2> QED
    BY <1>2, <1>4, <2>2 DEF IInv
<1>6. CASE ~Registered
  <2>1. \A l \in Links : links'[l] = Unsent
    BY <1>1, <1>6 DEF IInv, NewInv, mail
  <2>2. VerifiedInv'
    BY <2>1 DEF VerifiedInv, Unsent
  <2>3. LinkInv' /\ SentInv'
    <3>1. links' = links /\ effects' = effects /\ raced' = raced /\ req' = req
      BY <1>1, <1>2 DEF mail
    <3>2. \A l \in Links, w \in Workers : Follows(w, l)' <=> Follows(w, l)
      BY <3>1 DEF Follows
    <3>3. \A l \in Links : Followers(l)' = Followers(l)
      BY <3>2 DEF Followers
    <3>4. LinkInv'
      BY <3>1, <3>2, <3>3 DEF IInv, MailInv, LinkInv
    <3>5. SentInv'
      BY <3>1 DEF IInv, MailInv, SentInv
    <3> QED
      BY <3>4, <3>5
  <2> QED
    BY <1>2, <1>4, <2>2, <2>3 DEF IInv, MailInv
<1> QED
  BY <1>5, <1>6

LEMMA LogoutStep == ASSUME IInv, Logout PROVE IInv'
<1> USE DEF IInv
<1>1. PICK taken \in SUBSET Tokens :
          /\ \A x \in taken : exp[x] > now
          /\ blocked' = [x \in Tokens |-> IF x \in taken THEN BlockedUntil(x) ELSE blocked[x]]
          /\ revoked' = revoked \cup taken
  BY DEF Logout, Accepted, Admitted, Decodes
<1>2. UNCHANGED <<now, exp, account, mail, req>>
  BY DEF Logout
<1>3. \A x \in taken : BlockedUntil(x) \in Nat /\ exp[x] <= BlockedUntil(x) /\ exp[x] > 0
  BY <1>1, BlockedLongEnough DEF SessionsTypeOK
<1>4. SessionsTypeOK'
  BY <1>1, <1>2, <1>3 DEF SessionsTypeOK, account, mail
<1>5. BlockInv'
  BY <1>1, <1>2, <1>3 DEF TokenInv, BlockInv, SessionsTypeOK
<1>6. PairInv'
  BY <1>2 DEF TokenInv, PairInv
<1>7. MailInv'
  BY <1>2, MailKept DEF account
<1>8. NewInv'
  BY <1>2 DEF NewInv, Registered, account, mail
<1> QED
  BY <1>4, <1>5, <1>6, <1>7, <1>8 DEF TokenInv

-----------------------------------------------------------------------------
\* Links.

\* A link that is not mailed yet has no effect and no follower.
LEMMA Mails ==
    ASSUME IInv, NEW l \in Links, NEW kind \in {"reset", "verify"}, Mailed(l, kind), req' = req
    PROVE  /\ LinkInv' /\ SentInv'
           /\ links' \in [Links -> [kind : {"none", "reset", "verify"}, expires : Nat, used : BOOLEAN]]
           /\ links[l] = Unsent /\ effects[l] = 0 /\ effects' = effects /\ raced' = raced
           /\ links'[l].kind = kind /\ \A k \in Links \ {l} : links'[k] = links[k]
<1> USE DEF IInv
<1> DEFINE sent == [kind |-> kind, expires |-> now + LinkTTL, used |-> FALSE]
<1>1. links[l] = Unsent /\ links' = [links EXCEPT ![l] = sent]
      /\ UNCHANGED <<effects, raced, req>>
  BY DEF Mailed
<1>2. sent \in [kind : {"none", "reset", "verify"}, expires : Nat, used : BOOLEAN]
  BY SessionsAssumption DEF SessionsTypeOK
<1>3. links'[l] = sent /\ (\A k \in Links \ {l} : links'[k] = links[k])
      /\ links' \in [Links -> [kind : {"none", "reset", "verify"}, expires : Nat, used : BOOLEAN]]
  BY <1>1, <1>2 DEF SessionsTypeOK
<1>5. ~links[l].used /\ links[l].kind = "none"
  BY <1>1 DEF Unsent
<1>6. \A w \in Workers : ~Follows(w, l)
  BY <1>5, Frames DEF MailInv, LinkInv
<1>7. ~(effects[l] > 0) /\ effects[l] = 0
  BY <1>5 DEF MailInv, LinkInv, SessionsTypeOK
<1>8. \A k \in Links : Followers(k)' = Followers(k) /\ \A w \in Workers : Follows(w, k)' <=> Follows(w, k)
  BY <1>1 DEF Followers, Follows
<1>9. LinkInv'
  <2> SUFFICES ASSUME NEW k \in Links
               PROVE  /\ links'[k].used <=> effects[k] > 0
                      /\ effects[k] + Cardinality(Followers(k)) <= Cardinality(Workers)
                      /\ \A w \in Workers : Follows(w, k) => req[w].op = links'[k].kind
                      /\ ~raced => /\ effects[k] <= 1
                                   /\ links'[k].used => Followers(k) = {}
                                   /\ \A v, w \in Workers : Follows(v, k) /\ Follows(w, k) => v = w
    BY <1>1, <1>8 DEF LinkInv
  <2>1. /\ links[k].used <=> effects[k] > 0
        /\ effects[k] + Cardinality(Followers(k)) <= Cardinality(Workers)
        /\ \A w \in Workers : Follows(w, k) => req[w].op = links[k].kind
        /\ ~raced => /\ effects[k] <= 1
                     /\ links[k].used => Followers(k) = {}
                     /\ \A v, w \in Workers : Follows(v, k) /\ Follows(w, k) => v = w
    BY DEF MailInv, LinkInv
  <2>2. CASE k = l
    BY <1>3, <1>6, <1>7, <2>1, <2>2
  <2>3. CASE k # l
    BY <1>3, <2>1, <2>3
  <2> QED
    BY <2>2, <2>3
<1>10. SentInv'
  BY <1>1, <1>3 DEF MailInv, SentInv
<1> QED
  BY <1>1, <1>3, <1>7, <1>9, <1>10

\* A link to reset the password is mailed: the account is there, and whether it is
\* verified stays as it was.
LEMMA ForgotStep == ASSUME IInv, NEW l \in Links, forgot_password(l) PROVE IInv'
<1>1. Registered /\ Mailed(l, "reset") /\ UNCHANGED <<now, session, account, req>>
  BY DEF forgot_password
<1>2. /\ LinkInv' /\ SentInv'
      /\ links' \in [Links -> [kind : {"none", "reset", "verify"}, expires : Nat, used : BOOLEAN]]
      /\ links[l] = Unsent /\ effects' = effects /\ raced' = raced
      /\ links'[l].kind = "reset" /\ \A k \in Links \ {l} : links'[k] = links[k]
  BY <1>1, Mails
<1>3. SessionsTypeOK'
  BY <1>1, <1>2 DEF IInv, SessionsTypeOK, session, account
<1>4. links[l].kind = "none"
  BY <1>2 DEF Unsent
<1>5. \A k \in Links : links'[k].kind = "verify" <=> links[k].kind = "verify"
  BY <1>2, <1>4
<1>6. VerifiedInv'
  BY <1>1, <1>2, <1>5 DEF IInv, MailInv, VerifiedInv, Effective, account
<1>7. NewInv'
  BY <1>1 DEF NewInv, Registered, session
<1> QED
  BY <1>1, <1>2, <1>3, <1>6, <1>7, TokensKept DEF IInv, MailInv

\* A new account is not verified, and the link that verifies it has had no effect.
LEMMA SignupStep == ASSUME IInv, NEW p \in Pairs, Signup(p) PROVE IInv'
<1>1. PICK l \in Links : ~Registered /\ Issue(p) /\ Mailed(l, "verify") /\ UNCHANGED account
  BY DEF Signup
<1>2. TokenInv' /\ NewInv' /\ exp' \in [Tokens -> Nat] /\ UNCHANGED <<now, blocked, revoked, req>>
  BY <1>1, Issues
<1>3. /\ LinkInv' /\ SentInv'
      /\ links' \in [Links -> [kind : {"none", "reset", "verify"}, expires : Nat, used : BOOLEAN]]
      /\ effects[l] = 0 /\ effects' = effects /\ raced' = raced
      /\ \A k \in Links \ {l} : links'[k] = links[k]
  BY <1>1, <1>2, Mails
<1>4. SessionsTypeOK'
  BY <1>1, <1>2, <1>3 DEF IInv, SessionsTypeOK, account
<1>5. ~verified' /\ \A k \in Links : links[k] = Unsent
  BY <1>1 DEF IInv, NewInv, account
<1>6. ~Effective("verify")'
  <2> SUFFICES ASSUME NEW k \in Links, links'[k].kind = "verify", effects'[k] > 0 PROVE FALSE
    BY DEF Effective
  <2>1. k # l
    BY <1>3
  <2> QED
    BY <1>3, <1>5, <2>1 DEF Unsent
<1> QED
  BY <1>2, <1>3, <1>4, <1>5, <1>6 DEF IInv, MailInv, VerifiedInv

\* A request that finds a link unused joins those that follow it; the link has
\* had no effect yet.
LEMMA FollowLinkStep == ASSUME IInv, NEW w \in Workers, FollowLink(w) PROVE IInv'
<1> USE DEF IInv
<1>1. PICK l \in Links :
          /\ links[l] # Unsent /\ Usable(l)
          /\ req' = [req EXCEPT ![w] = [op |-> links[l].kind, link |-> l]]
          /\ raced' = (raced \/ \E v \in Workers : Follows(v, l))
  BY DEF FollowLink, Follows
<1>2. req[w] = Idle /\ UNCHANGED <<now, session, account, links, effects>>
  BY DEF FollowLink
<1>3. links[l].kind \in {"reset", "verify"}
  BY <1>1 DEF MailInv, SentInv, SessionsTypeOK
<1> DEFINE f == [op |-> links[l].kind, link |-> l]
<1>4. f \in Following
  BY <1>3 DEF Following
<1>5. f # Idle /\ f.op = links[l].kind /\ f.op # "change" /\ f.link = l
  BY <1>3 DEF Idle
<1>6. req' = [req EXCEPT ![w] = f]
  BY <1>1
<1> HIDE DEF f
<1>7. req'[w] = f /\ \A v \in Workers \ {w} : req'[v] = req[v]
  BY <1>6 DEF SessionsTypeOK
<1>8. SessionsTypeOK'
  BY <1>1, <1>2, <1>4, <1>6 DEF SessionsTypeOK, session, account, Following
<1>9. /\ \A v \in Workers, k \in Links : Follows(v, k)' <=> Follows(v, k) \/ (v = w /\ k = l)
      /\ \A v \in Workers \ {w} : req'[v] = req[v]
      /\ req'[w].op = links[l].kind
  BY <1>2, <1>5, <1>7 DEF Follows, Idle
<1>10. ~links[l].used /\ effects[l] = 0
  BY <1>1 DEF Usable, MailInv, LinkInv, SessionsTypeOK
<1>11. \A k \in Links : Cardinality(Followers(k)') \in Nat /\ Cardinality(Workers) \in Nat
                        /\ Cardinality(Followers(k)') <= Cardinality(Workers)
  <2> TAKE k \in Links
  <2>1. Followers(k)' \in SUBSET Workers
    BY DEF Followers
  <2> QED
    BY <2>1, SessionsAssumption, FS_Subset, FS_CardinalityType
<1>12. \A k \in Links \ {l} : Followers(k)' = Followers(k)
  BY <1>9 DEF Followers
<1>13. LinkInv'
  <2> SUFFICES ASSUME NEW k \in Links
               PROVE  /\ links[k].used <=> effects[k] > 0
                      /\ effects[k] + Cardinality(Followers(k)') <= Cardinality(Workers)
                      /\ \A v \in Workers : Follows(v, k)' => req'[v].op = links[k].kind
                      /\ ~raced' => /\ effects[k] <= 1
                                    /\ links[k].used => Followers(k)' = {}
                                    /\ \A u, v \in Workers : Follows(u, k)' /\ Follows(v, k)' => u = v
    BY <1>2 DEF LinkInv
  <2>1. /\ links[k].used <=> effects[k] > 0
        /\ effects[k] + Cardinality(Followers(k)) <= Cardinality(Workers)
        /\ \A v \in Workers : Follows(v, k) => req[v].op = links[k].kind
        /\ ~raced => /\ effects[k] <= 1
                     /\ links[k].used => Followers(k) = {}
                     /\ \A u, v \in Workers : Follows(u, k) /\ Follows(v, k) => u = v
    BY DEF MailInv, LinkInv
  <2>2. \A v \in Workers : Follows(v, k)' => req'[v].op = links[k].kind
    BY <1>2, <1>9, <2>1 DEF Follows
  <2>3. CASE k = l
    <3>1. effects[k] + Cardinality(Followers(k)') <= Cardinality(Workers)
      BY <1>10, <1>11, <2>3
    <3>2. ~raced' => \A v \in Workers : ~Follows(v, l)
      BY <1>1
    <3> QED
      BY <1>9, <1>10, <2>1, <2>2, <2>3, <3>1, <3>2
  <2>4. CASE k # l
    BY <1>1, <1>9, <1>12, <2>1, <2>2, <2>4
  <2> QED
    BY <2>3, <2>4
<1>14. VerifiedInv' /\ SentInv'
  BY <1>2 DEF MailInv, VerifiedInv, Effective, SentInv, account
<1>15. NewInv'
  BY <1>2, NewKept DEF account
<1> QED
  BY <1>2, <1>8, <1>13, <1>14, <1>15, TokensKept DEF MailInv

\* A request that uses its link leaves those that follow it: what the effects
\* gain the followers lose.
LEMMA Uses ==
    ASSUME IInv, NEW w \in Workers, req[w].op \in {"reset", "verify"}, UseLink(w),
           password' \in Passwords, verified' = (verified \/ req[w].op = "verify")
    PROVE  IInv'
<1> USE DEF IInv
<1>1. PICK l \in Links : l = req[w].link /\ Follows(w, l)
  BY Frames
<1>2. /\ links' = [links EXCEPT ![l].used = TRUE]
      /\ effects' = [effects EXCEPT ![l] = @ + 1]
      /\ req' = [req EXCEPT ![w] = Idle]
      /\ UNCHANGED <<now, session, raced>>
  BY <1>1 DEF UseLink
<1>3. /\ links'[l] = [links[l] EXCEPT !.used = TRUE]
      /\ \A k \in Links \ {l} : links'[k] = links[k]
  BY <1>2 DEF SessionsTypeOK
<1>4. /\ links'[l] \in [kind : {"none", "reset", "verify"}, expires : Nat, used : BOOLEAN]
      /\ links'[l].used /\ links'[l].kind = links[l].kind /\ links[l].kind = req[w].op
  <2>1. links[l] \in [kind : {"none", "reset", "verify"}, expires : Nat, used : BOOLEAN]
    BY DEF SessionsTypeOK
  <2>2. links[l].kind = req[w].op
    BY <1>1 DEF MailInv, LinkInv
  <2> QED
    BY <1>3, <2>1, <2>2
<1>5. effects'[l] = effects[l] + 1 /\ \A k \in Links \ {l} : effects'[k] = effects[k]
  BY <1>2 DEF SessionsTypeOK
<1>6. effects \in [Links -> Nat] /\ effects' \in [Links -> Nat]
  BY <1>2 DEF SessionsTypeOK
<1>7. SessionsTypeOK'
  <2>1. verified' \in BOOLEAN
    BY DEF SessionsTypeOK
  <2> QED
    BY <1>2, <1>4, <1>6, <2>1 DEF SessionsTypeOK, session
<1>8. req'[w] = Idle /\ \A v \in Workers \ {w} : req'[v] = req[v]
  BY <1>2 DEF SessionsTypeOK
<1>9. \A v \in Workers, k \in Links : Follows(v, k)' <=> Follows(v, k) /\ v # w
  BY <1>8 DEF Follows
<1>10. \A k \in Links \ {l} : ~Follows(w, k)
  BY <1>1 DEF Follows
<1>11. Followers(l)' = Followers(l) \ {w} /\ w \in Followers(l)
  BY <1>1, <1>9 DEF Followers
<1>12. \A k \in Links \ {l} : Followers(k)' = Followers(k)
  BY <1>9, <1>10 DEF Followers
<1>13. Cardinality(Followers(l)') = Cardinality(Followers(l)) - 1
  BY <1>11, FollowersFinite, FS_RemoveElement
<1>14. LinkInv'
  <2> SUFFICES ASSUME NEW k \in Links
               PROVE  /\ links'[k].used <=> effects'[k] > 0
                      /\ effects'[k] + Cardinality(Followers(k)') <= Cardinality(Workers)
                      /\ \A v \in Workers : Follows(v, k)' => req'[v].op = links'[k].kind
                      /\ ~raced' => /\ effects'[k] <= 1
                                    /\ links'[k].used => Followers(k)' = {}
                                    /\ \A u, v \in Workers : Follows(u, k)' /\ Follows(v, k)' => u = v
    BY DEF LinkInv
  <2>1. /\ links[k].used <=> effects[k] > 0
        /\ effects[k] + Cardinality(Followers(k)) <= Cardinality(Workers)
        /\ \A v \in Workers : Follows(v, k) => req[v].op = links[k].kind
        /\ ~raced => /\ effects[k] <= 1
                     /\ links[k].used => Followers(k) = {}
                     /\ \A u, v \in Workers : Follows(u, k) /\ Follows(v, k) => u = v
    BY DEF MailInv, LinkInv
  <2>2. CASE k # l
    <3>1. links'[k] = links[k] /\ effects'[k] = effects[k] /\ Followers(k)' = Followers(k)
      BY <1>3, <1>5, <1>12, <2>2
    <3> QED
      BY <1>2, <1>8, <1>9, <2>1, <3>1
  <2>3. CASE k = l
    <3>1. effects[k] \in Nat /\ effects'[k] = effects[k] + 1
      BY <1>5, <1>6, <2>3
    <3>2. effects'[k] + Cardinality(Followers(k)') <= Cardinality(Workers)
      BY <1>13, <2>1, <2>3, <3>1, FollowersFinite
    <3>3. \A v \in Workers : Follows(v, k)' => req'[v].op = links'[k].kind
      BY <1>4, <1>8, <1>9, <2>1, <2>3
    <3>4. ASSUME ~raced'
          PROVE  /\ effects'[k] <= 1
                 /\ Followers(k)' = {}
                 /\ \A u, v \in Workers : Follows(u, k)' /\ Follows(v, k)' => u = v
      <4>1. ~raced
        BY <1>2, <3>4
      <4>2. ~links[k].used
        BY <1>11, <2>1, <2>3, <4>1
      <4>3. effects[k] = 0
        BY <2>1, <3>1, <4>2
      <4>4. \A v \in Workers : ~Follows(v, k)'
        BY <1>1, <1>9, <2>1, <2>3, <4>1
      <4> QED
        BY <3>1, <4>3, <4>4 DEF Followers
    <3>5. links'[k].used /\ effects'[k] > 0
      BY <1>4, <2>3, <3>1
    <3> QED
      BY <3>2, <3>3, <3>4, <3>5
  <2> QED
    BY <2>2, <2>3
<1>15. VerifiedInv'
  <2>1. \A k \in Links : /\ links'[k].kind = links[k].kind
                         /\ effects[k] > 0 => effects'[k] > 0
                         /\ effects'[k] > 0 => effects[k] > 0 \/ k = l
    BY <1>3, <1>4, <1>5, <1>6
  <2>2. CASE req[w].op = "verify"
    <3>1. links'[l].kind = "verify" /\ effects'[l] > 0
      BY <1>4, <1>5, <1>6, <2>2
    <3> QED
      BY <2>2, <3>1 DEF VerifiedInv, Effective
  <2>3. CASE req[w].op = "reset"
    <3>1. links[l].kind # "verify"
      BY <1>4, <2>3
    <3>2. Effective("verify")' <=> Effective("verify")
      BY <2>1, <3>1 DEF Effective
    <3>3. verified' <=> verified
      BY <2>3
    <3> QED
      BY <2>1, <3>2, <3>3 DEF MailInv, VerifiedInv
  <2> QED
    BY <2>2, <2>3
<1>16. SentInv'
  BY <1>3, <1>4 DEF MailInv, SentInv
<1>17. NewInv'
  <2>1. links[l] # Unsent
    BY <1>4 DEF Unsent
  <2> QED
    BY <1>2, <2>1 DEF NewInv, Registered, session
<1> QED
  BY <1>2, <1>7, <1>14, <1>15, <1>16, <1>17, TokensKept DEF MailInv

LEMMA ResetStep == ASSUME IInv, NEW w \in Workers, reset_password(w) PROVE IInv'
BY Uses DEF reset_password, IInv, SessionsTypeOK

LEMMA VerifyStep == ASSUME IInv, NEW w \in Workers, verify_email(w) PROVE IInv'
BY Uses DEF verify_email, IInv, SessionsTypeOK

-----------------------------------------------------------------------------
\* The other actions.

LEMMA AskChangeStep == ASSUME IInv, NEW w \in Workers, AskChange(w) PROVE IInv'
<1> USE DEF IInv
<1> DEFINE f == [op |-> "change", seen |-> password]
<1>1. f \in Changing /\ req' = [req EXCEPT ![w] = f] /\ UNCHANGED <<now, session, account, mail>>
  BY DEF AskChange, Changing, SessionsTypeOK
<1> HIDE DEF f
<1>2. SessionsTypeOK'
  BY <1>1 DEF SessionsTypeOK, session, account, mail, Changing
<1>3. MailInv'
  BY <1>1, MailLeft DEF account
<1>4. NewInv'
  BY <1>1, NewKept DEF mail, account
<1> QED
  BY <1>1, <1>2, <1>3, <1>4, TokensKept

LEMMA ChangeStep == ASSUME IInv, NEW w \in Workers, change_password(w) PROVE IInv'
<1> USE DEF IInv
<1>1. req' = [req EXCEPT ![w] = Idle] /\ password' \in Passwords
      /\ UNCHANGED <<now, session, verified, mail>>
  BY DEF change_password
<1>2. SessionsTypeOK'
  BY <1>1 DEF SessionsTypeOK, session, mail
<1>3. MailInv'
  BY <1>1, MailLeft
<1>4. NewInv'
  BY <1>1, NewKept DEF mail
<1> QED
  BY <1>1, <1>2, <1>3, <1>4, TokensKept

LEMMA FailStep == ASSUME IInv, NEW w \in Workers, Fail(w) PROVE IInv'
<1> USE DEF IInv
<1>1. req' = [req EXCEPT ![w] = Idle] /\ UNCHANGED <<now, session, account, mail>>
  BY DEF Fail
<1>2. SessionsTypeOK'
  BY <1>1 DEF SessionsTypeOK, session, account, mail
<1>3. MailInv'
  BY <1>1, MailLeft DEF account
<1>4. NewInv'
  BY <1>1, NewKept DEF mail, account
<1> QED
  BY <1>1, <1>2, <1>3, <1>4, TokensKept

LEMMA RedisLosesStep == ASSUME IInv, RedisLoses PROVE IInv'
<1> USE DEF IInv
<1>1. SessionsTypeOK' /\ TokenInv'
  BY DEF RedisLoses, SessionsTypeOK, TokenInv, BlockInv, PairInv, account, mail
<1>2. MailInv'
  BY MailKept DEF RedisLoses, account
<1>3. NewInv'
  BY DEF RedisLoses, NewInv, Registered, account, mail
<1> QED
  BY <1>1, <1>2, <1>3

LEMMA TickStep == ASSUME IInv, Tick PROVE IInv'
<1> USE DEF IInv
<1>1. now' \in 0..Horizon
  BY SessionsAssumption DEF Tick, SessionsTypeOK
<1>2. SessionsTypeOK' /\ TokenInv'
  BY <1>1, TokensKept DEF Tick, SessionsTypeOK, session, account, mail
<1>3. MailInv'
  BY MailKept DEF Tick, account
<1>4. NewInv'
  BY NewKept DEF Tick, account, mail
<1> QED
  BY <1>2, <1>3, <1>4

LEMMA StepInvariant == IInv /\ [Next]_vars => IInv'
<1> SUFFICES ASSUME IInv, [Next]_vars PROVE IInv'
  OBVIOUS
<1>1. CASE UNCHANGED vars
  <2>1. SessionsTypeOK' /\ UNCHANGED session /\ UNCHANGED mail /\ verified' = verified /\ req' = req
    BY <1>1 DEF IInv, vars, SessionsTypeOK, session, mail
  <2> QED
    BY <2>1, TokensKept, MailKept, NewKept DEF IInv, mail
<1>2. ASSUME NEW p \in Pairs, Login(p) \/ Signup(p) \/ AcceptInvite(p) \/ Refresh(p) PROVE IInv'
  BY <1>2, PairStep, SignupStep, AcceptInviteStep
<1>3. ASSUME NEW l \in Links, forgot_password(l) PROVE IInv'
  BY <1>3, ForgotStep
<1>4. ASSUME NEW w \in Workers,
             \/ FollowLink(w) \/ reset_password(w) \/ verify_email(w)
             \/ AskChange(w) \/ change_password(w) \/ Fail(w)
      PROVE  IInv'
  BY <1>4, FollowLinkStep, ResetStep, VerifyStep, AskChangeStep, ChangeStep, FailStep
<1>5. CASE Logout \/ RedisLoses \/ Tick
  BY <1>5, LogoutStep, RedisLosesStep, TickStep
<1> QED
  BY <1>1, <1>2, <1>3, <1>4, <1>5 DEF Next

LEMMA Invariant == Spec => []IInv
BY InitInvariant, StepInvariant, PTL DEF Spec

-----------------------------------------------------------------------------
\* The theorems.

\* The variables keep the shapes that SessionsTypeOK gives them.
THEOREM SessionsTypeCorrect == Spec => []SessionsTypeOK
<1>1. IInv => SessionsTypeOK
  BY DEF IInv
<1> QED
  BY <1>1, Invariant, PTL

\* revocation.py: "Block a JTI until its natural expiry".  For any length of a
\* second and any lives, as long as the grace of logout is a second.
THEOREM RevokedTokensStayBlocked == Spec => []BlockedUntilExpiry
<1>1. IInv => BlockedUntilExpiry
  BY DEF IInv, TokenInv, BlockInv, BlockedUntilExpiry, SessionsTypeOK
<1> QED
  BY <1>1, Invariant, PTL

\* The links of auth_public.py: used once they have taken effect, and effective
\* once, or once for each request where several had read the link as unused.  An
\* account that was mailed a link to verify its address is verified exactly when
\* the link has taken effect.
THEOREM LinksWorkOnce == Spec => []LinkWorksOnce
<1>1. IInv => LinkWorksOnce
  <2> SUFFICES ASSUME IInv, NEW l \in Links
               PROVE  /\ links[l].used <=> effects[l] > 0
                      /\ effects[l] <= IF raced THEN Cardinality(Workers) ELSE 1
    BY DEF LinkWorksOnce, IInv, MailInv, VerifiedInv
  <2>1. /\ links[l].used <=> effects[l] > 0
        /\ effects[l] + Cardinality(Followers(l)) <= Cardinality(Workers)
        /\ ~raced => effects[l] <= 1
        /\ effects[l] \in Nat
    BY DEF IInv, MailInv, LinkInv, SessionsTypeOK
  <2>2. effects[l] <= Cardinality(Workers)
    BY <2>1, FollowersFinite
  <2> QED
    BY <2>1, <2>2
<1> QED
  BY <1>1, Invariant, PTL

-----------------------------------------------------------------------------
\* The two parts: what a behaviour of the account does to the variables of one
\* part, that part does.

LEMMA AccountParts == AccountSpec => Spec /\ Tenant!Spec
<1>1. AccountInit => Init /\ Tenant!Init
  BY DEF AccountInit
<1>2. [AccountNext]_<<part, vars, tenantVars>> => [Next]_vars /\ [Tenant!Next]_(Tenant!vars)
  BY DEF AccountNext, SessionStep, TenantStep, tenantVars, Tenant!vars
<1> QED
  BY <1>1, <1>2, PTL DEF AccountSpec, Spec, Tenant!Spec

-----------------------------------------------------------------------------
\* The rows of the tenant (module Tenancy).  Rows are never deleted, so that a
\* request always finds the row that it has read before.

Status == {"none", "ok", "error"}
Plans  == EventPlans \cup {"hobby"}
Row    == [plan : Plans, quota : {Tenant!QuotaOf(p) : p \in Plans},
   sub : Subscriptions \cup {NoSubscription}]
KeyRow == [exists : {TRUE}, revoked : BOOLEAN, touched : BOOLEAN]
EndpointRow == [exists : {TRUE}, active : BOOLEAN, status : Status]

StripeFrame == [op : {"stripe"}, seen : Row, new : Row]
KeyFrame    == [op : {"key"}, key : Keys, seen : KeyRow]
PostFrame   == [op : {"post", "posted"}, endpoint : Endpoints, attempt : Nat, last : Status]
StatusFrame == [op : {"status"}, endpoint : Endpoints, last : Status, seen : EndpointRow]
Frame == {Tenant!Idle} \cup StripeFrame \cup KeyFrame \cup PostFrame \cup StatusFrame

TypeInv ==
    /\ tenant \in Row
    /\ keys \in [Keys -> KeyRow \cup {Tenant!NoRow}]
    /\ endpoints \in [Endpoints -> EndpointRow \cup {Tenant!NoRow}]
    /\ treq \in [Workers -> Frame]

RowsExist ==
    \A w \in Workers :
        /\ treq[w].op = "key" => keys[treq[w].key] \in KeyRow
        /\ treq[w].op \in {"post", "posted", "status"} => endpoints[treq[w].endpoint] \in EndpointRow

-----------------------------------------------------------------------------
\* The plan.  Without an overlap, the row is what the only Stripe request has
\* read.  With one, but with plans that are all listed, plan and quota differ
\* together from what was read, and are written together or not at all.

Coherent(r) == r.quota = Tenant!QuotaOf(r.plan)
Paid(r)     == r.sub # NoSubscription \/ r.plan = "hobby"
Listed(r)   == r.plan \in DOMAIN PLAN_QUOTAS
Stripes     == {w \in Workers : treq[w].op = "stripe"}

NewIsWhole == \A w \in Stripes : Coherent(treq[w].new) /\ Paid(treq[w].new)
NoOverlap ==
    "overlap" \notin torn =>
        /\ Coherent(tenant) /\ Paid(tenant)
        /\ \A v, w \in Stripes : v = w
        /\ \A w \in Stripes : treq[w].seen = tenant
AllListed ==
    "unlisted" \notin torn =>
        /\ Coherent(tenant) /\ Listed(tenant)
        /\ \A w \in Stripes : Coherent(treq[w].seen) /\ Listed(treq[w].seen) /\ Listed(treq[w].new)

PlanInv == NewIsWhole /\ NoOverlap /\ AllListed

-----------------------------------------------------------------------------
\* Frames and rows.

LEMMA FrameOps ==
    ASSUME NEW f \in Frame
    PROVE  /\ f.op \in {"idle", "stripe", "key", "post", "posted", "status"}
           /\ f.op = "idle" => f = Tenant!Idle
           /\ f.op = "stripe" => f \in StripeFrame /\ f.seen \in Row /\ f.new \in Row
           /\ f.op = "key" => f \in KeyFrame /\ f.key \in Keys /\ f.seen \in KeyRow
           /\ f.op \in {"post", "posted"} => f \in PostFrame /\ f.endpoint \in Endpoints /\ f.last \in Status
           /\ f.op = "status" => f \in StatusFrame /\ f.endpoint \in Endpoints /\ f.last \in Status
                                 /\ f.seen \in EndpointRow
<1>1. CASE f = Tenant!Idle
  BY <1>1 DEF Tenant!Idle
<1>2. CASE f \in StripeFrame
  BY <1>2 DEF StripeFrame
<1>3. CASE f \in KeyFrame
  BY <1>3 DEF KeyFrame
<1>4. CASE f \in PostFrame
  BY <1>4 DEF PostFrame
<1>5. CASE f \in StatusFrame
  BY <1>5 DEF StatusFrame
<1> QED
  BY <1>1, <1>2, <1>3, <1>4, <1>5 DEF Frame

\* What an UPDATE leaves in the tenant's row.
LEMMA UpdatedTenant ==
    ASSUME NEW r \in Row, NEW s \in Row, NEW n \in Row
    PROVE  LET u == Tenant!Updated(r, s, n)
           IN  /\ u \in Row
               /\ u.plan  = IF n.plan # s.plan THEN n.plan ELSE r.plan
               /\ u.quota = IF n.quota # s.quota THEN n.quota ELSE r.quota
               /\ u.sub   = IF n.sub # s.sub THEN n.sub ELSE r.sub
BY DEF Tenant!Updated, Row

\* The status of a delivery is the only column that it writes.
LEMMA UpdatedEndpoint ==
    ASSUME NEW r \in EndpointRow, NEW s \in EndpointRow, NEW x \in Status
    PROVE  LET u == Tenant!Updated(r, s, [s EXCEPT !.status = x])
           IN  u \in EndpointRow /\ u.active = r.active
BY DEF Tenant!Updated, EndpointRow

-----------------------------------------------------------------------------
\* Types are kept.

RowsInv == TypeInv /\ RowsExist

\* No row goes.
RowsStay ==
    /\ \A k \in Keys : keys[k] \in KeyRow => keys'[k] \in KeyRow
    /\ \A e \in Endpoints : endpoints[e] \in EndpointRow => endpoints'[e] \in EndpointRow

LEMMA Turns ==
    ASSUME RowsInv, NEW w \in Workers, NEW g \in Frame, treq' = [treq EXCEPT ![w] = g],
           g.op = "key" => keys[g.key] \in KeyRow,
           g.op \in {"post", "posted", "status"} => endpoints[g.endpoint] \in EndpointRow,
           tenant' \in Row, keys' \in [Keys -> KeyRow \cup {Tenant!NoRow}],
           endpoints' \in [Endpoints -> EndpointRow \cup {Tenant!NoRow}], RowsStay
    PROVE  RowsInv'
<1>1. TypeInv'
  BY DEF RowsInv, TypeInv
<1>2. ASSUME NEW v \in Workers
      PROVE  /\ treq'[v].op = "key" => keys'[treq'[v].key] \in KeyRow
             /\ treq'[v].op \in {"post", "posted", "status"} => endpoints'[treq'[v].endpoint] \in EndpointRow
  <2>1. PICK f \in Frame : /\ f = treq'[v] /\ (f = g \/ f = treq[v])
    BY <1>1 DEF RowsInv, TypeInv
  <2>2. /\ f.op = "key" => keys[f.key] \in KeyRow
        /\ f.op \in {"post", "posted", "status"} => endpoints[f.endpoint] \in EndpointRow
    BY <2>1 DEF RowsInv, RowsExist
  <2> QED
    BY <2>1, <2>2, FrameOps DEF RowsStay
<1> QED
  BY <1>1, <1>2 DEF RowsInv, RowsExist

LEMMA Ends ==
    ASSUME RowsInv, NEW w \in Workers, Tenant!End(w),
           tenant' \in Row, keys' \in [Keys -> KeyRow \cup {Tenant!NoRow}],
           endpoints' \in [Endpoints -> EndpointRow \cup {Tenant!NoRow}], RowsStay
    PROVE  RowsInv'
<1>1. Tenant!Idle \in Frame /\ Tenant!Idle.op = "idle"
  BY DEF Tenant!Idle, Frame
<1> QED
  BY <1>1, Turns DEF Tenant!End

LEMMA Same ==
    ASSUME RowsInv
    PROVE  /\ UNCHANGED keys => keys' \in [Keys -> KeyRow \cup {Tenant!NoRow}]
           /\ UNCHANGED endpoints => endpoints' \in [Endpoints -> EndpointRow \cup {Tenant!NoRow}]
           /\ UNCHANGED tenant => tenant' \in Row
           /\ UNCHANGED <<keys, endpoints>> => RowsStay
BY DEF RowsInv, TypeInv, RowsStay

LEMMA RowTells ==
    /\ \A r \in KeyRow \cup {Tenant!NoRow} : r.exists <=> r \in KeyRow
    /\ \A r \in EndpointRow \cup {Tenant!NoRow} : r.exists <=> r \in EndpointRow
<1>1. ~Tenant!NoRow.exists
  BY DEF Tenant!NoRow
<1>2. \A r \in KeyRow : r.exists
  BY DEF KeyRow
<1>3. \A r \in EndpointRow : r.exists
  BY DEF EndpointRow
<1> QED
  BY <1>1, <1>2, <1>3

LEMMA StripeWebhookRows ==
    ASSUME RowsInv, NEW w \in Workers, Tenant!StripeWebhook(w) PROVE RowsInv'
<1>1. PICK n \in {Tenant!Hobby} \cup [plan : EventPlans, quota : {0}, sub : Subscriptions] :
          Tenant!Begin(w, [op |-> "stripe", seen |-> tenant,
             new |-> [n EXCEPT !.quota = Tenant!QuotaOf(n.plan)]])
  BY DEF Tenant!StripeWebhook
<1>2. [n EXCEPT !.quota = Tenant!QuotaOf(n.plan)] \in Row
  BY DEF Tenant!Hobby, Row, Plans
<1> DEFINE g == [op |-> "stripe", seen |-> tenant,
   new |-> [n EXCEPT !.quota = Tenant!QuotaOf(n.plan)]]
<1>3. g \in Frame /\ g.op = "stripe"
  BY <1>2 DEF RowsInv, TypeInv, Frame, StripeFrame
<1>4. treq' = [treq EXCEPT ![w] = g]
  BY <1>1 DEF Tenant!Begin
<1> HIDE DEF g
<1> QED
  BY <1>3, <1>4, Turns, Same DEF Tenant!StripeWebhook

LEMMA UpdateTenantRows ==
    ASSUME RowsInv, NEW w \in Workers, Tenant!UpdateTenant(w) PROVE RowsInv'
<1>1. treq[w].seen \in Row /\ treq[w].new \in Row
  BY FrameOps DEF Tenant!UpdateTenant, RowsInv, TypeInv
<1>2. tenant' \in Row
  BY <1>1, UpdatedTenant DEF Tenant!UpdateTenant, RowsInv, TypeInv
<1> QED
  BY <1>2, Ends, Same DEF Tenant!UpdateTenant

LEMMA UseKeyRows ==
    ASSUME RowsInv, NEW w \in Workers, Tenant!UseKey(w) PROVE RowsInv'
<1>1. PICK k \in Keys : keys[k].exists /\ Tenant!Begin(w, [op |-> "key", key |-> k,
   seen |-> keys[k]])
  BY DEF Tenant!UseKey
<1>2. keys[k] \in KeyRow
  BY <1>1, RowTells DEF RowsInv, TypeInv
<1> DEFINE g == [op |-> "key", key |-> k, seen |-> keys[k]]
<1>3. g \in Frame /\ g.op = "key" /\ g.key = k
  BY <1>2 DEF Frame, KeyFrame
<1>4. treq' = [treq EXCEPT ![w] = g]
  BY <1>1 DEF Tenant!Begin
<1> HIDE DEF g
<1> QED
  BY <1>2, <1>3, <1>4, Turns, Same DEF Tenant!UseKey

LEMMA TouchKeyRows ==
    ASSUME RowsInv, NEW w \in Workers, Tenant!TouchKey(w) PROVE RowsInv'
<1>1. treq[w].key \in Keys /\ keys[treq[w].key] \in KeyRow
  BY FrameOps DEF Tenant!TouchKey, RowsInv, TypeInv, RowsExist
<1>2. [keys[treq[w].key] EXCEPT !.touched = TRUE] \in KeyRow
  BY <1>1 DEF KeyRow
<1>3. keys' = [keys EXCEPT ![treq[w].key] = [keys[treq[w].key] EXCEPT !.touched = TRUE]]
  BY DEF Tenant!TouchKey
<1>4. keys' \in [Keys -> KeyRow \cup {Tenant!NoRow}] /\ RowsStay
  BY <1>1, <1>2, <1>3 DEF Tenant!TouchKey, RowsInv, TypeInv, RowsStay
<1> QED
  BY <1>4, Ends, Same DEF Tenant!TouchKey

LEMMA DispatchRows ==
    ASSUME RowsInv, NEW w \in Workers, Tenant!Dispatch(w) PROVE RowsInv'
<1>1. PICK e \in Endpoints : /\ endpoints[e].exists
                             /\ Tenant!Begin(w, [op |-> "post", endpoint |-> e, attempt |-> 0, last |-> "none"])
  BY DEF Tenant!Dispatch
<1>2. endpoints[e] \in EndpointRow
  BY <1>1, RowTells DEF RowsInv, TypeInv
<1> DEFINE g == [op |-> "post", endpoint |-> e, attempt |-> 0, last |-> "none"]
<1>3. g \in Frame /\ g.op = "post" /\ g.endpoint = e
  BY DEF Frame, PostFrame, Status
<1>4. treq' = [treq EXCEPT ![w] = g]
  BY <1>1 DEF Tenant!Begin
<1> HIDE DEF g
<1> QED
  BY <1>2, <1>3, <1>4, Turns, Same DEF Tenant!Dispatch

\* A task that posts goes on posting, or has posted, to the same endpoint.
LEMMA PostsRows ==
    ASSUME RowsInv, NEW w \in Workers, Tenant!Post(w) \/ Tenant!PostsEnd(w) PROVE RowsInv'
<1>1. treq[w] \in PostFrame /\ endpoints[treq[w].endpoint] \in EndpointRow
  BY FrameOps DEF Tenant!Post, Tenant!PostsEnd, RowsInv, TypeInv, RowsExist
<1>2. CASE Tenant!End(w)
  BY <1>2, Ends, Same DEF Tenant!Post, Tenant!PostsEnd
<1>3. CASE ~Tenant!End(w)
  <2>1. treq[w].attempt \in Nat /\ treq[w].attempt + 1 \in Nat /\ treq[w].last \in Status /\ 0 \in Nat
        /\ treq[w].op \in {"post", "posted"} /\ treq \in [Workers -> Frame]
    BY <1>1 DEF PostFrame, RowsInv, TypeInv
  <2>2. PICK op \in {"post", "posted"}, n \in Nat, s \in Status :
            treq' = [treq EXCEPT ![w] = [treq[w] EXCEPT !.op = op, !.last = s, !.attempt = n]]
    <3>1. CASE Tenant!PostsEnd(w)
      <4>1. treq' = [treq EXCEPT ![w] = [treq[w] EXCEPT !.op = "posted", !.last = treq[w].last,
         !.attempt = 0]]
        <5>1. [treq[w] EXCEPT !.op = "posted", !.attempt = 0]
                  = [treq[w] EXCEPT !.op = "posted", !.last = treq[w].last, !.attempt = 0]
          BY <1>1 DEF PostFrame
        <5>2. treq' = [treq EXCEPT ![w] = [treq[w] EXCEPT !.op = "posted", !.attempt = 0]]
          BY <2>1, <3>1 DEF Tenant!PostsEnd
        <5> QED
          BY <5>1, <5>2
      <4> QED
        BY <2>1, <4>1
    <3>2. ASSUME NEW r \in Status, treq' = [treq EXCEPT ![w].op = "posted", ![w].last = r,
       ![w].attempt = 0]
          PROVE  treq' = [treq EXCEPT ![w] = [treq[w] EXCEPT !.op = "posted", !.last = r,
             !.attempt = 0]]
      BY <2>1, <3>2
    <3>3. ASSUME NEW r \in Status, treq[w].op = "post",
                 treq' = [treq EXCEPT ![w].attempt = @ + 1, ![w].last = r]
          PROVE  treq' = [treq EXCEPT ![w] = [treq[w] EXCEPT !.op = "post", !.last = r,
                                                          !.attempt = treq[w].attempt + 1]]
      <4>1. [treq[w] EXCEPT !.attempt = treq[w].attempt + 1, !.last = r]
                = [treq[w] EXCEPT !.op = "post", !.last = r, !.attempt = treq[w].attempt + 1]
        BY <1>1, <3>3 DEF PostFrame
      <4>2. treq' = [treq EXCEPT ![w] = [treq[w] EXCEPT !.attempt = treq[w].attempt + 1,
         !.last = r]]
        BY <2>1, <3>3
      <4> QED
        BY <4>1, <4>2
    <3>4. CASE Tenant!Post(w)
      <4>1. PICK r \in Status :
                \/ treq' = [treq EXCEPT ![w].op = "posted", ![w].last = r, ![w].attempt = 0]
                \/ treq' = [treq EXCEPT ![w].attempt = @ + 1, ![w].last = r]
        BY <1>3, <2>1, <3>4 DEF Tenant!Post, Status
      <4>2. treq[w].op = "post"
        BY <3>4 DEF Tenant!Post
      <4> QED
        BY <2>1, <3>2, <3>3, <4>1, <4>2
    <3> QED
      BY <3>1, <3>4
  <2> DEFINE g == [treq[w] EXCEPT !.op = op, !.last = s, !.attempt = n]
  <2>3. g \in PostFrame /\ g.op = op /\ g.endpoint = treq[w].endpoint
    BY <1>1 DEF PostFrame
  <2> HIDE DEF g
  <2>4. g \in Frame
    BY <2>3 DEF Frame
  <2> QED
    BY <1>1, <2>2, <2>3, <2>4, Turns, Same DEF Tenant!Post, Tenant!PostsEnd, g
<1> QED
  BY <1>2, <1>3

LEMMA ReadEndpointRows ==
    ASSUME RowsInv, NEW w \in Workers, Tenant!ReadEndpoint(w) PROVE RowsInv'
<1>1. treq[w].endpoint \in Endpoints /\ treq[w].last \in Status /\ endpoints[treq[w].endpoint] \in EndpointRow
  BY FrameOps DEF Tenant!ReadEndpoint, RowsInv, TypeInv, RowsExist
<1> DEFINE g == [op |-> "status", endpoint |-> treq[w].endpoint, last |-> treq[w].last,
                 seen |-> endpoints[treq[w].endpoint]]
<1>2. g \in Frame /\ g.op = "status" /\ g.endpoint = treq[w].endpoint
  BY <1>1 DEF Frame, StatusFrame
<1>3. treq' = [treq EXCEPT ![w] = g]
  BY DEF Tenant!ReadEndpoint
<1> HIDE DEF g
<1> QED
  BY <1>1, <1>2, <1>3, Turns, Same DEF Tenant!ReadEndpoint

\* What a delivery writes into the row of its endpoint.
LEMMA WrittenStatus ==
    ASSUME RowsInv, NEW w \in Workers, Tenant!WriteStatus(w)
    PROVE  \E e \in Endpoints, r \in EndpointRow :
               /\ endpoints[e] \in EndpointRow /\ r.active = endpoints[e].active
               /\ endpoints' = [endpoints EXCEPT ![e] = r]
<1>1. /\ treq[w].endpoint \in Endpoints /\ treq[w].last \in Status /\ treq[w].seen \in EndpointRow
      /\ endpoints[treq[w].endpoint] \in EndpointRow
  BY FrameOps DEF Tenant!WriteStatus, RowsInv, TypeInv, RowsExist
<1> DEFINE r == Tenant!Updated(endpoints[treq[w].endpoint], treq[w].seen,
   [treq[w].seen EXCEPT !.status = treq[w].last])
<1>2. r \in EndpointRow /\ r.active = endpoints[treq[w].endpoint].active
  BY <1>1, UpdatedEndpoint
<1>3. endpoints' = [endpoints EXCEPT ![treq[w].endpoint] = r]
  BY DEF Tenant!WriteStatus
<1> HIDE DEF r
<1> QED
  BY <1>1, <1>2, <1>3

LEMMA WriteStatusRows ==
    ASSUME RowsInv, NEW w \in Workers, Tenant!WriteStatus(w) PROVE RowsInv'
<1>1. PICK e \in Endpoints, r \in EndpointRow : endpoints' = [endpoints EXCEPT ![e] = r]
  BY WrittenStatus
<1>2. endpoints' \in [Endpoints -> EndpointRow \cup {Tenant!NoRow}] /\ RowsStay
  BY <1>1 DEF Tenant!WriteStatus, RowsInv, TypeInv, RowsStay
<1> QED
  BY <1>2, Ends, Same DEF Tenant!WriteStatus

\* Keys and endpoints that are created, revoked and deleted.
LEMMA KeyRows ==
    ASSUME RowsInv, NEW k \in Keys, Tenant!IssueKey(k) \/ Tenant!RevokeKey(k) PROVE RowsInv'
<1>1. PICK r \in KeyRow : keys' = [keys EXCEPT ![k] = r]
  <2>1. CASE Tenant!IssueKey(k)
    BY <2>1 DEF Tenant!IssueKey, Tenant!NewKey, KeyRow
  <2>2. CASE Tenant!RevokeKey(k)
    <3>1. keys[k] \in KeyRow
      BY <2>2, RowTells DEF Tenant!RevokeKey, RowsInv, TypeInv
    <3>2. [keys[k] EXCEPT !.revoked = TRUE] \in KeyRow
      BY <3>1 DEF KeyRow
    <3> QED
      BY <2>2, <3>2 DEF Tenant!RevokeKey
  <2> QED
    BY <2>1, <2>2
<1> QED
  BY <1>1 DEF Tenant!IssueKey, Tenant!RevokeKey, RowsInv, TypeInv, RowsExist

LEMMA EndpointRows ==
    ASSUME RowsInv, NEW e \in Endpoints, Tenant!CreateWebhook(e) \/ Tenant!DeleteWebhook(e)
       PROVE RowsInv'
<1>1. PICK r \in EndpointRow : endpoints' = [endpoints EXCEPT ![e] = r]
  <2>1. CASE Tenant!CreateWebhook(e)
    BY <2>1 DEF Tenant!CreateWebhook, Tenant!NewEndpoint, EndpointRow, Status
  <2>2. CASE Tenant!DeleteWebhook(e)
    <3>1. endpoints[e] \in EndpointRow
      BY <2>2, RowTells DEF Tenant!DeleteWebhook, RowsInv, TypeInv
    <3>2. [endpoints[e] EXCEPT !.active = FALSE] \in EndpointRow
      BY <3>1 DEF EndpointRow
    <3> QED
      BY <2>2, <3>2 DEF Tenant!DeleteWebhook
  <2> QED
    BY <2>1, <2>2
<1> QED
  BY <1>1 DEF Tenant!CreateWebhook, Tenant!DeleteWebhook, RowsInv, TypeInv, RowsExist

LEMMA RowsInitially == Tenant!Init => RowsInv
<1> SUFFICES ASSUME Tenant!Init PROVE RowsInv
  OBVIOUS
<1>1. tenant \in Row
  BY DEF Tenant!Init, Tenant!Hobby, Row, Plans, Tenant!QuotaOf
<1>2. Tenant!Idle \in Frame /\ Tenant!Idle.op = "idle"
  BY DEF Tenant!Idle, Frame
<1> QED
  BY <1>1, <1>2 DEF Tenant!Init, RowsInv, TypeInv, RowsExist

LEMMA RowsStep == RowsInv /\ [Tenant!Next]_(Tenant!vars) => RowsInv'
<1> SUFFICES ASSUME RowsInv, [Tenant!Next]_(Tenant!vars) PROVE RowsInv'
  OBVIOUS
<1>1. CASE UNCHANGED Tenant!vars
  BY <1>1 DEF Tenant!vars, RowsInv, TypeInv, RowsExist
<1>2. ASSUME NEW w \in Workers, Tenant!Fail(w) PROVE RowsInv'
  BY <1>2, Ends, Same DEF Tenant!Fail
<1> QED
  BY <1>1, <1>2, StripeWebhookRows, UpdateTenantRows, UseKeyRows, TouchKeyRows, DispatchRows,
     PostsRows,
     ReadEndpointRows, WriteStatusRows, KeyRows, EndpointRows DEF Tenant!Next

\* Every request works on rows that exist and keep their types.
LEMMA RowsAlways == Tenant!Spec => []RowsInv
BY RowsInitially, RowsStep, PTL DEF Tenant!Spec

\* The rows keep their types, and no request works on a row that does not exist.
THEOREM TenancyTypeCorrect == AccountSpec => []TypeInv
<1>1. RowsInv => TypeInv
  BY DEF RowsInv
<1> QED
  BY <1>1, RowsAlways, AccountParts, PTL

-----------------------------------------------------------------------------
\* What is gone stays gone.

LEMMA RevokedStays ==
    ASSUME RowsInv, [Tenant!Next]_(Tenant!vars), NEW k \in Keys, keys[k].exists, keys[k].revoked
    PROVE  keys'[k].revoked
<1>1. keys[k] \in KeyRow /\ keys \in [Keys -> KeyRow \cup {Tenant!NoRow}]
  BY RowTells DEF RowsInv, TypeInv
<1>2. CASE keys' = keys
  BY <1>2
<1>3. ASSUME NEW w \in Workers, Tenant!TouchKey(w) PROVE keys'[k].revoked
  <2>1. keys'[k] = keys[k] \/ keys'[k] = [keys[k] EXCEPT !.touched = TRUE]
    BY <1>1, <1>3 DEF Tenant!TouchKey
  <2> QED
    BY <1>1, <2>1 DEF KeyRow
<1>4. ASSUME NEW j \in Keys, Tenant!IssueKey(j) PROVE keys'[k].revoked
  BY <1>1, <1>4 DEF Tenant!IssueKey
<1>5. ASSUME NEW j \in Keys, Tenant!RevokeKey(j) PROVE keys'[k].revoked
  <2>1. keys'[k] = keys[k] \/ keys'[k] = [keys[k] EXCEPT !.revoked = TRUE]
    BY <1>1, <1>5 DEF Tenant!RevokeKey
  <2> QED
    BY <1>1, <2>1 DEF KeyRow
<1>6. ASSUME NEW w \in Workers,
             \/ Tenant!StripeWebhook(w) \/ Tenant!UpdateTenant(w) \/ Tenant!UseKey(w) \/ Tenant!Dispatch(w) \/ Tenant!Post(w)
             \/ Tenant!PostsEnd(w) \/ Tenant!ReadEndpoint(w) \/ Tenant!WriteStatus(w) \/ Tenant!Fail(w)
      PROVE  keys' = keys
  BY <1>6 DEF Tenant!StripeWebhook, Tenant!UpdateTenant, Tenant!UseKey, Tenant!Dispatch,
     Tenant!Post, Tenant!PostsEnd, Tenant!ReadEndpoint, Tenant!WriteStatus, Tenant!Fail
<1>7. ASSUME NEW e \in Endpoints, Tenant!CreateWebhook(e) \/ Tenant!DeleteWebhook(e)
   PROVE keys' = keys
  BY <1>7 DEF Tenant!CreateWebhook, Tenant!DeleteWebhook
<1> QED
  BY <1>2, <1>3, <1>4, <1>5, <1>6, <1>7 DEF Tenant!Next, Tenant!vars

LEMMA DeletedStays ==
    ASSUME RowsInv, [Tenant!Next]_(Tenant!vars), NEW e \in Endpoints, endpoints[e].exists,
       ~endpoints[e].active
    PROVE  ~endpoints'[e].active
<1>1. endpoints[e] \in EndpointRow /\ endpoints \in [Endpoints -> EndpointRow \cup {Tenant!NoRow}]
  BY RowTells DEF RowsInv, TypeInv
<1>2. CASE endpoints' = endpoints
  BY <1>2
<1>3. ASSUME NEW w \in Workers, Tenant!WriteStatus(w) PROVE ~endpoints'[e].active
  <2>1. PICK d \in Endpoints, r \in EndpointRow :
            r.active = endpoints[d].active /\ endpoints' = [endpoints EXCEPT ![d] = r]
    BY <1>3, WrittenStatus
  <2> QED
    BY <1>1, <2>1
<1>4. ASSUME NEW d \in Endpoints, Tenant!CreateWebhook(d) PROVE ~endpoints'[e].active
  BY <1>1, <1>4 DEF Tenant!CreateWebhook
<1>5. ASSUME NEW d \in Endpoints, Tenant!DeleteWebhook(d) PROVE ~endpoints'[e].active
  <2>1. endpoints'[e] = endpoints[e] \/ endpoints'[e] = [endpoints[e] EXCEPT !.active = FALSE]
    BY <1>1, <1>5 DEF Tenant!DeleteWebhook
  <2> QED
    BY <1>1, <2>1 DEF EndpointRow
<1>6. ASSUME NEW w \in Workers,
             \/ Tenant!StripeWebhook(w) \/ Tenant!UpdateTenant(w) \/ Tenant!UseKey(w) \/ Tenant!TouchKey(w) \/ Tenant!Dispatch(w)
             \/ Tenant!Post(w) \/ Tenant!PostsEnd(w) \/ Tenant!ReadEndpoint(w) \/ Tenant!Fail(w)
      PROVE  endpoints' = endpoints
  BY <1>6 DEF Tenant!StripeWebhook, Tenant!UpdateTenant, Tenant!UseKey, Tenant!TouchKey,
     Tenant!Dispatch, Tenant!Post, Tenant!PostsEnd, Tenant!ReadEndpoint, Tenant!Fail
<1>7. ASSUME NEW k \in Keys, Tenant!IssueKey(k) \/ Tenant!RevokeKey(k) PROVE endpoints' = endpoints
  BY <1>7 DEF Tenant!IssueKey, Tenant!RevokeKey
<1> QED
  BY <1>2, <1>3, <1>4, <1>5, <1>6, <1>7 DEF Tenant!Next, Tenant!vars

\* A key that is revoked and an endpoint that is deleted stay so, whatever a
\* request or a delivery had read before (auth.py, require_api_key and
\* dispatcher.py, _deliver: each writes the columns it has changed).
THEOREM WhatIsGoneStaysGone == AccountSpec => GoneForGood
<1>1. RowsInv /\ [Tenant!Next]_(Tenant!vars) =>
          [/\ \A k \in Keys : keys[k].exists /\ keys[k].revoked => keys'[k].revoked
           /\ \A e \in Endpoints : endpoints[e].exists /\ ~endpoints[e].active => ~endpoints'[e].active]_(Tenant!vars)
  BY RevokedStays, DeletedStays
<1> QED
  BY <1>1, RowsAlways, AccountParts, PTL DEF Tenant!Spec, GoneForGood, Tenant!GoneForGood

-----------------------------------------------------------------------------
\* Plan and quota.

\* No Stripe request is new, nor has one changed.
LEMMA PlanKept ==
    ASSUME PlanInv, UNCHANGED <<tenant, torn>>,
           \A w \in Workers : treq'[w].op = "stripe" => treq'[w] = treq[w]
    PROVE  PlanInv'
BY DEF PlanInv, NewIsWhole, NoOverlap, AllListed, Stripes, Coherent, Paid, Listed

LEMMA OtherRequests ==
    ASSUME RowsInv, NEW w \in Workers,
           \/ Tenant!UseKey(w) \/ Tenant!TouchKey(w) \/ Tenant!Dispatch(w) \/ Tenant!Post(w) \/ Tenant!PostsEnd(w)
           \/ Tenant!ReadEndpoint(w) \/ Tenant!WriteStatus(w) \/ Tenant!Fail(w)
    PROVE  /\ UNCHANGED <<tenant, torn>>
           /\ \A v \in Workers : treq'[v].op = "stripe" => treq'[v] = treq[v]
<1>1. UNCHANGED <<tenant, torn>>
  BY DEF Tenant!UseKey, Tenant!TouchKey, Tenant!Dispatch, Tenant!Post, Tenant!PostsEnd,
     Tenant!ReadEndpoint, Tenant!WriteStatus, Tenant!Fail
<1>2. treq \in [Workers -> Frame]
  BY DEF RowsInv, TypeInv
<1>3. ASSUME NEW v \in Workers \ {w} PROVE treq'[v] = treq[v]
  BY <1>2 DEF Tenant!UseKey, Tenant!TouchKey, Tenant!Dispatch, Tenant!Post, Tenant!PostsEnd,
     Tenant!ReadEndpoint, Tenant!WriteStatus, Tenant!Fail, Tenant!Begin, Tenant!End
<1>4. treq'[w].op # "stripe"
  <2>1. CASE Tenant!UseKey(w)
    BY <1>2, <2>1 DEF Tenant!UseKey, Tenant!Begin
  <2>2. CASE Tenant!Dispatch(w)
    BY <1>2, <2>2 DEF Tenant!Dispatch, Tenant!Begin
  <2>3. CASE Tenant!Post(w) \/ Tenant!PostsEnd(w)
    <3>1. treq[w] \in PostFrame
      BY <1>2, <2>3, FrameOps DEF Tenant!Post, Tenant!PostsEnd
    <3> QED
      BY <1>2, <2>3, <3>1 DEF Tenant!Post, Tenant!PostsEnd, PostFrame, Tenant!End, Tenant!Idle
  <2>4. CASE Tenant!ReadEndpoint(w)
    BY <1>2, <2>4 DEF Tenant!ReadEndpoint
  <2>5. CASE Tenant!End(w)
    BY <1>2, <2>5 DEF Tenant!End, Tenant!Idle
  <2> QED
    BY <2>1, <2>2, <2>3, <2>4, <2>5 DEF Tenant!TouchKey, Tenant!WriteStatus, Tenant!Fail
<1> QED
  BY <1>1, <1>3, <1>4

LEMMA StripeWebhookPlan ==
    ASSUME RowsInv, PlanInv, NEW w \in Workers, Tenant!StripeWebhook(w) PROVE PlanInv'
<1>1. PICK n \in {Tenant!Hobby} \cup [plan : EventPlans, quota : {0}, sub : Subscriptions] :
          /\ Tenant!Begin(w, [op |-> "stripe", seen |-> tenant, new |-> [n EXCEPT !.quota = Tenant!QuotaOf(n.plan)]])
          /\ torn' = torn \cup {"unlisted" : p \in {n.plan} \ DOMAIN PLAN_QUOTAS}
                          \cup {"overlap" : v \in {v \in Workers : treq[v].op = "stripe"}}
  BY DEF Tenant!StripeWebhook
<1> DEFINE new == [n EXCEPT !.quota = Tenant!QuotaOf(n.plan)]
<1>2. Coherent(new) /\ Paid(new) /\ new.plan = n.plan
  <2>1. CASE n = Tenant!Hobby
    BY <2>1 DEF Tenant!Hobby, Coherent, Paid
  <2>2. CASE n \in [plan : EventPlans, quota : {0}, sub : Subscriptions]
    BY <2>2, AccountAssumption DEF Coherent, Paid, Tenant!TenancyAssumption
  <2> QED
    BY <2>1, <2>2
<1> HIDE DEF new
<1>3. /\ treq'[w].op = "stripe" /\ treq'[w].seen = tenant /\ treq'[w].new = new
      /\ \A v \in Workers \ {w} : treq'[v] = treq[v]
      /\ treq[w] = Tenant!Idle /\ tenant' = tenant
  BY <1>1 DEF new, Tenant!Begin, RowsInv, TypeInv, Tenant!StripeWebhook
<1>4. NewIsWhole'
  BY <1>2, <1>3 DEF PlanInv, NewIsWhole, Stripes, Coherent, Paid
<1>5. ASSUME "overlap" \notin torn'
      PROVE  /\ Coherent(tenant)' /\ Paid(tenant)' /\ \A u, v \in Stripes' : u = v
             /\ \A v \in Stripes' : treq'[v].seen = tenant'
  <2>1. "overlap" \notin torn /\ Stripes = {}
    BY <1>1, <1>5 DEF Stripes
  <2>2. \A v \in Stripes' : v = w
    BY <1>3, <2>1 DEF Stripes
  <2> QED
    BY <1>3, <2>1, <2>2 DEF PlanInv, NoOverlap, Coherent, Paid
<1>6. ASSUME "unlisted" \notin torn'
      PROVE  /\ Coherent(tenant)' /\ Listed(tenant)'
             /\ \A v \in Stripes' : Coherent(treq[v].seen)' /\ Listed(treq[v].seen)' /\ Listed(treq[v].new)'
  <2>1. "unlisted" \notin torn /\ n.plan \in DOMAIN PLAN_QUOTAS
    BY <1>1, <1>6
  <2>2. Coherent(tenant) /\ Listed(tenant) /\ Listed(new)
    BY <1>2, <2>1 DEF PlanInv, AllListed, Listed
  <2> QED
    BY <1>3, <2>1, <2>2 DEF PlanInv, AllListed, Coherent, Listed, Stripes
<1> QED
  BY <1>4, <1>5, <1>6 DEF PlanInv, NoOverlap, AllListed

LEMMA UpdateTenantPlan ==
    ASSUME RowsInv, PlanInv, NEW w \in Workers, Tenant!UpdateTenant(w) PROVE PlanInv'
<1> DEFINE seen == treq[w].seen
           new  == treq[w].new
<1>1. seen \in Row /\ new \in Row /\ tenant \in Row /\ w \in Stripes
  BY FrameOps DEF Tenant!UpdateTenant, RowsInv, TypeInv, Stripes
<1>2. /\ tenant'.plan  = IF new.plan # seen.plan THEN new.plan ELSE tenant.plan
      /\ tenant'.quota = IF new.quota # seen.quota THEN new.quota ELSE tenant.quota
      /\ tenant'.sub   = IF new.sub # seen.sub THEN new.sub ELSE tenant.sub
  BY <1>1, UpdatedTenant DEF Tenant!UpdateTenant
<1>3. /\ treq'[w].op # "stripe" /\ torn' = torn
      /\ \A v \in Workers \ {w} : treq'[v] = treq[v]
  BY DEF Tenant!UpdateTenant, Tenant!End, Tenant!Idle, RowsInv, TypeInv
<1>4. Coherent(new) /\ Paid(new)
  BY <1>1 DEF PlanInv, NewIsWhole
<1>5. Stripes' = Stripes \ {w} /\ \A v \in Stripes \ {w} : treq'[v] = treq[v]
  BY <1>3 DEF Stripes
<1>6. NewIsWhole'
  BY <1>5 DEF PlanInv, NewIsWhole, Coherent, Paid
<1>7. ASSUME "overlap" \notin torn
      PROVE  Coherent(tenant)' /\ Paid(tenant)' /\ Stripes' = {}
  <2>1. seen = tenant /\ Stripes = {w}
    BY <1>1, <1>7 DEF PlanInv, NoOverlap
  <2>2. tenant'.plan = new.plan /\ tenant'.quota = new.quota /\ tenant'.sub = new.sub
    BY <1>2, <2>1
  <2> QED
    BY <1>4, <1>5, <2>1, <2>2 DEF Coherent, Paid
<1>8. ASSUME "unlisted" \notin torn
      PROVE  Coherent(tenant)' /\ Listed(tenant)'
  <2>1. /\ Coherent(tenant) /\ Listed(tenant) /\ Coherent(seen) /\ Listed(seen) /\ Listed(new)
    BY <1>1, <1>8 DEF PlanInv, AllListed
  <2>2. new.quota = PLAN_QUOTAS[new.plan] /\ seen.quota = PLAN_QUOTAS[seen.plan]
    BY <1>4, <2>1 DEF Coherent, Listed, Tenant!QuotaOf
  <2>3. new.plan = seen.plan <=> new.quota = seen.quota
    BY <2>1, <2>2, AccountAssumption DEF Listed, Tenant!TenancyAssumption
  <2>4. CASE new.plan = seen.plan
    <3>1. tenant'.plan = tenant.plan /\ tenant'.quota = tenant.quota
      BY <1>2, <2>3, <2>4
    <3> QED
      BY <2>1, <3>1 DEF Coherent, Listed
  <2>5. CASE new.plan # seen.plan
    <3>1. tenant'.plan = new.plan /\ tenant'.quota = new.quota
      BY <1>2, <2>3, <2>5
    <3> QED
      BY <1>4, <2>1, <3>1 DEF Coherent, Listed
  <2> QED
    BY <2>4, <2>5
<1>9. NoOverlap' /\ AllListed'
  BY <1>3, <1>5, <1>7, <1>8 DEF PlanInv, NoOverlap, AllListed, Coherent, Listed
<1> QED
  BY <1>6, <1>9 DEF PlanInv

LEMMA PlanInitially == Tenant!Init => PlanInv
<1> SUFFICES ASSUME Tenant!Init PROVE PlanInv
  OBVIOUS
<1>1. Stripes = {}
  BY DEF Tenant!Init, Stripes, Tenant!Idle
<1>2. Coherent(tenant) /\ Paid(tenant) /\ Listed(tenant)
  BY AccountAssumption DEF Tenant!Init, Tenant!Hobby, Coherent, Paid, Listed, Tenant!QuotaOf,
     Tenant!TenancyAssumption
<1> QED
  BY <1>1, <1>2 DEF PlanInv, NewIsWhole, NoOverlap, AllListed

LEMMA PlanStep == RowsInv /\ PlanInv /\ [Tenant!Next]_(Tenant!vars) => PlanInv'
<1> SUFFICES ASSUME RowsInv, PlanInv, [Tenant!Next]_(Tenant!vars) PROVE PlanInv'
  OBVIOUS
<1>1. CASE UNCHANGED Tenant!vars
  BY <1>1, PlanKept DEF Tenant!vars
<1>2. ASSUME NEW k \in Keys, Tenant!IssueKey(k) \/ Tenant!RevokeKey(k) PROVE PlanInv'
  BY <1>2, PlanKept DEF Tenant!IssueKey, Tenant!RevokeKey
<1>3. ASSUME NEW e \in Endpoints, Tenant!CreateWebhook(e) \/ Tenant!DeleteWebhook(e) PROVE PlanInv'
  BY <1>3, PlanKept DEF Tenant!CreateWebhook, Tenant!DeleteWebhook
<1>4. ASSUME NEW w \in Workers,
             \/ Tenant!UseKey(w) \/ Tenant!TouchKey(w) \/ Tenant!Dispatch(w) \/ Tenant!Post(w) \/ Tenant!PostsEnd(w)
             \/ Tenant!ReadEndpoint(w) \/ Tenant!WriteStatus(w) \/ Tenant!Fail(w)
      PROVE  PlanInv'
  BY <1>4, OtherRequests, PlanKept
<1> QED
  BY <1>1, <1>2, <1>3, <1>4, StripeWebhookPlan, UpdateTenantPlan DEF Tenant!Next

\* billing.py, _handle_subscription_updated and _deleted write plan and quota
\* together: unless webhooks overlap and one of them names a plan that
\* PLAN_QUOTAS does not list, the tenant has the quota of its plan; and unless
\* they overlap, a plan that is paid for has a subscription.
THEOREM PlansAgree == AccountSpec => []PlanAndQuotaAgree
<1>1. PlanInv => PlanAndQuotaAgree
  BY DEF PlanInv, NoOverlap, AllListed, Coherent, Paid, PlanAndQuotaAgree,
     Tenant!PlanAndQuotaAgree
<1> QED
  BY <1>1, PlanInitially, PlanStep, RowsAlways, AccountParts, PTL DEF Tenant!Spec

=============================================================================
