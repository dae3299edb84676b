\* The founder and two more people, two invites, two requests at a time.
CONSTANTS
    ann = ann  bob = bob  cid = cid  i1 = i1  i2 = i2  w1 = w1  w2 = w2
    NoInvite = NoInvite
    Users = {ann, bob, cid}
    Founder = ann
    Offered <- Roles
    Invites = {i1, i2}
    Workers = {w1, w2}
SPECIFICATION Spec
SYMMETRY Symmetry
INVARIANTS TypeOK OwnerKept InvitedMembers OpenInvites
PROPERTIES RevokedIsFinal
