------------------------------ MODULE Sessions ------------------------------
(***************************************************************************)
(* One dashboard account: pairs of session tokens with their revocation,   *)
(* and the links that reset a password or verify an email address          *)
(* (goderash_core/api/auth_public.py, security/tokens.py, revocation.py).  *)
(*                                                                         *)
(* Session tokens are signed and not stored: a token is good until it      *)
(* expires, unless Redis has its id on the block list.  Redis may fail at  *)
(* any call, and then nothing is blocked.  Time is in ticks, of which a    *)
(* second has several: the claims of a token are in whole seconds.         *)
(* A request that follows a link reads it and writes it in two steps.      *)
(*                                                                         *)
(* The account is created by a sign-up, or by an invite that is accepted   *)
(* (who may accept one is Teams).  Of requests that create it at once the  *)
(* unique email lets one commit; the pair of another is of a user that is  *)
(* not found, so that these are one step here.                             *)
(***************************************************************************)
EXTENDS Integers, FiniteSets

CONSTANTS Pairs,        \* token pairs that may be issued
          Links,        \* links that may be mailed
          Workers,      \* requests that may run at the same time
          Passwords,
          Second,       \* ticks of a second, at most Grace
          AccessTTL, RefreshTTL, LinkTTL,   \* in ticks
          Grace,        \* what logout adds to the life of a token on the block list
          Verification, \* require_email_verification
          Horizon       \* bound: the last tick

\* Tokens live for a second at least.
ASSUME SessionsAssumption ==
    /\ IsFiniteSet(Workers)
    /\ Second \in Nat \ {0} /\ Grace \in Nat /\ Second <= Grace
    /\ AccessTTL \in Nat /\ RefreshTTL \in Nat /\ LinkTTL \in Nat /\ Horizon \in Nat
    /\ Second <= AccessTTL /\ Second <= RefreshTTL

VARIABLES now,
          exp,        \* exp[t]: the expiry in token t, 0 while it is not issued
          blocked,    \* blocked[t]: until when Redis has gdr:jti:blocked:<t>
          password,   \* users.password_hash
          verified,   \* users.email_verified_at is not null
          links,      \* rows of password_reset_tokens and email_verification_tokens
          req,        \* req[w]: the request w handles, or Idle
          revoked,    \* history: tokens whose revocation Redis has stored
          effects,    \* history: how often each link has taken effect
          raced       \* history: two requests had read one link as unused

vars == <<now, exp, blocked, password, verified, links, req, revoked, effects, raced>>
session == <<exp, blocked, revoked>>
account == <<password, verified>>
mail    == <<links, effects, raced>>

Tokens == Pairs \X {"access", "refresh"}
Idle   == [op |-> "idle"]
Unsent == [kind |-> "none", expires |-> 0, used |-> FALSE]

SessionsTypeOK ==
    /\ now \in 0..Horizon
    /\ exp \in [Tokens -> Nat] /\ blocked \in [Tokens -> Nat]
    /\ password \in Passwords /\ verified \in BOOLEAN
    /\ links \in [Links -> [kind : {"none", "reset", "verify"}, expires : Nat, used : BOOLEAN]]
    /\ req \in [Workers -> {Idle} \cup [op : {"reset", "verify"}, link : Links]
                                  \cup [op : {"change"}, seen : Passwords]]
    /\ revoked \subseteq Tokens /\ effects \in [Links -> Nat] /\ raced \in BOOLEAN

\* There is no account yet; password is the one that it will be created with.
Init ==
    /\ now = 0
    /\ exp = [t \in Tokens |-> 0] /\ blocked = [t \in Tokens |-> 0]
    /\ password \in Passwords /\ verified = FALSE
    /\ links = [l \in Links |-> Unsent]
    /\ req = [w \in Workers |-> Idle]
    /\ revoked = {} /\ effects = [l \in Links |-> 0] /\ raced = FALSE

-----------------------------------------------------------------------------
\* tokens.py and revocation.py.

\* issue_session_token: exp is rounded down to a second.
Expiry(ttl) == ((now + ttl) \div Second) * Second

\* decode_session_token: signed by us, of the expected kind, not expired.
Decodes(t, kind) == t[2] = kind /\ exp[t] > now

\* is_jti_revoked: Redis says so; a Redis that fails says nothing.
Admitted(t, kind, up) == Decodes(t, kind) /\ ~(up /\ blocked[t] > now)

\* What a request may present, as Redis may be down.
Accepted(kind) == {t \in Tokens : \E up \in BOOLEAN : Admitted(t, kind, up)}

\* Mutation: no grace, as if the remaining life were not rounded.
BlockedUntil_NoGrace(t) ==
    LET left == IF exp[t] > now THEN (exp[t] - now) \div Second ELSE 0
    IN  now + left * Second

\* logout: the remaining life in whole seconds, and the grace.
BlockedUntil(t) ==
    LET left == IF exp[t] > now THEN (exp[t] - now) \div Second ELSE 0
    IN  now + left * Second + Grace

-----------------------------------------------------------------------------
\* Session tokens.

\* There is an account: what creates it issues a pair.
Registered == \E t \in Tokens : exp[t] > 0

\* _issue_pair.
Issue(p) ==
    /\ exp[<<p, "access">>] = 0
    /\ exp' = [exp EXCEPT ![<<p, "access">>] = Expiry(AccessTTL),
                          ![<<p, "refresh">>] = Expiry(RefreshTTL)]
    /\ UNCHANGED <<now, blocked, revoked, req>>

\* The row of a link is written, and the mail sent.  The earlier links stay good.
\* (The mail leaves before the commit: until then, or if that fails, the link is
\* refused like an unknown one.)
Mailed(l, kind) ==
    /\ links[l] = Unsent
    /\ links' = [links EXCEPT ![l] = [kind |-> kind, expires |-> now + LinkTTL, used |-> FALSE]]
    /\ UNCHANGED <<effects, raced>>

Login(p) ==
    /\ Registered /\ \E typed \in Passwords : typed = password
    /\ Verification => verified
    /\ Issue(p)
    /\ UNCHANGED <<account, mail>>

\* A new account, and the only link that verifies its address.  It has a pair
\* before the address is verified.
Signup(p) ==
    /\ ~Registered /\ Issue(p)
    /\ \E l \in Links : Mailed(l, "verify")
    /\ UNCHANGED account

\* accept_invite: an account that it creates is verified ("trust invite as
\* implicit verification"), one that exists stays as it is.
AcceptInvite(p) ==
    /\ Issue(p)
    /\ verified' = (verified \/ ~Registered)
    /\ UNCHANGED <<password, mail>>

\* The old refresh token stays as good as it was.
Refresh(p) ==
    /\ Accepted("refresh") # {}
    /\ Issue(p)
    /\ UNCHANGED <<account, mail>>

\* The access token of the request, and the refresh token in its body if that
\* still decodes; each is blocked if Redis takes it.
Logout ==
    /\ \E t \in Accepted("access"),
          body \in {{}} \cup {{r} : r \in {x \in Tokens : Decodes(x, "refresh")}} :
           \E taken \in SUBSET ({t} \cup body) :
               /\ blocked' = [x \in Tokens |-> IF x \in taken THEN BlockedUntil(x) ELSE blocked[x]]
               /\ revoked' = revoked \cup taken
    /\ UNCHANGED <<now, exp, account, mail, req>>

-----------------------------------------------------------------------------
\* Links.

forgot_password(l) ==
    /\ Registered /\ Mailed(l, "reset")
    /\ UNCHANGED <<now, session, account, req>>

\* The SELECT: used_at is null and it has not expired.
Usable(l) == ~links[l].used /\ links[l].expires > now

\* Mutation: an expired or used link is found as well.
FollowLink_Any(w) ==
    /\ req[w] = Idle
    /\ \E l \in Links :
           /\ links[l] # Unsent
           /\ req' = [req EXCEPT ![w] = [op |-> links[l].kind, link |-> l]]
           /\ raced' = (raced \/ \E v \in Workers : req[v] # Idle /\ req[v].op # "change" /\ req[v].link = l)
    /\ UNCHANGED <<now, session, account, links, effects>>

FollowLink(w) ==
    /\ req[w] = Idle
    /\ \E l \in Links :
           /\ links[l] # Unsent /\ Usable(l)
           /\ req' = [req EXCEPT ![w] = [op |-> links[l].kind, link |-> l]]
           /\ raced' = (raced \/ \E v \in Workers : req[v] # Idle /\ req[v].op # "change" /\ req[v].link = l)
    /\ UNCHANGED <<now, session, account, links, effects>>

\* The UPDATE of the link is by id and asks for nothing else.
UseLink(w) ==
    /\ links' = [links EXCEPT ![req[w].link].used = TRUE]
    /\ effects' = [effects EXCEPT ![req[w].link] = @ + 1]
    /\ req' = [req EXCEPT ![w] = Idle]
    /\ UNCHANGED <<now, session, raced>>

\* Both UPDATEs and the commit.  Sessions and other links stay as they are.
reset_password(w) ==
    /\ req[w].op = "reset" /\ UseLink(w)
    /\ password' \in Passwords /\ UNCHANGED verified

verify_email(w) ==
    /\ req[w].op = "verify" /\ UseLink(w)
    /\ verified' = TRUE /\ UNCHANGED password

\* change_password compares with the hash that require_session has read.
AskChange(w) ==
    /\ req[w] = Idle
    /\ Accepted("access") # {}
    /\ req' = [req EXCEPT ![w] = [op |-> "change", seen |-> password]]
    /\ UNCHANGED <<now, session, account, mail>>

change_password(w) ==
    /\ req[w].op = "change"
    /\ \E typed \in Passwords : typed = req[w].seen
    /\ password' \in Passwords
    /\ req' = [req EXCEPT ![w] = Idle]
    /\ UNCHANGED <<now, session, verified, mail>>

\* A statement or the commit fails, or the typed password is wrong.
Fail(w) ==
    /\ req[w] # Idle
    /\ req' = [req EXCEPT ![w] = Idle]
    /\ UNCHANGED <<now, session, account, mail>>

RedisLoses ==
    /\ \E t \in Tokens : blocked[t] > 0
    /\ blocked' = [t \in Tokens |-> 0] /\ revoked' = {}
    /\ UNCHANGED <<now, exp, account, mail, req>>

Tick == now < Horizon /\ now' = now + 1 /\ UNCHANGED <<session, account, mail, req>>

Next ==
    \/ \E p \in Pairs : Login(p) \/ Signup(p) \/ AcceptInvite(p) \/ Refresh(p)
    \/ Logout
    \/ \E l \in Links : forgot_password(l)
    \/ \E w \in Workers : \/ FollowLink(w) \/ reset_password(w) \/ verify_email(w)
                          \/ AskChange(w) \/ change_password(w) \/ Fail(w)
    \/ RedisLoses \/ Tick

Spec == Init /\ [][Next]_vars

-----------------------------------------------------------------------------
\* Safety.

\* revocation.py: "Block a JTI until its natural expiry".  A token whose
\* revocation Redis has taken, and not lost, is on the block list for as long as
\* its signature is good, although both lives are counted in whole seconds from
\* different instants.
BlockedUntilExpiry == \A t \in revoked : exp[t] > now => blocked[t] > now

\* A link is used exactly when it has taken effect (the two UPDATEs are one
\* transaction), and it takes effect once unless two requests had read it at once,
\* and then at most once for each of them.  An account that was mailed a link to
\* verify its address, as one that signs up is, is verified exactly when that link
\* has taken effect, whatever invites it accepts.
Effective(kind) == \E k \in Links : links[k].kind = kind /\ effects[k] > 0

LinkWorksOnce ==
    /\ \A l \in Links :
           /\ links[l].used <=> effects[l] > 0
           /\ effects[l] <= IF raced THEN Cardinality(Workers) ELSE 1
    /\ (\E l \in Links : links[l].kind = "verify") => (verified <=> Effective("verify"))

=============================================================================
