----------------------------- MODULE PolicyStore -----------------------------
(***************************************************************************)
(* The IAMPolicy service of examples/freight-server (iam.rs), its          *)
(* PolicyStore (storage.rs) and the AIP-211 gate that reads the same store *)
(* (service.rs), with clients that run the read-modify-write cycle the     *)
(* crate documents: GetIamPolicy, edit with the aip-iam helpers, send the  *)
(* result back with the etag that was read.                                *)
(*                                                                         *)
(* The store does its freshness check and its write under one lock, so     *)
(* SetIamPolicy is one action; a client's steps interleave with those of   *)
(* the others.                                                             *)
(***************************************************************************)
EXTENDS Policy

CONSTANTS
  Clients,       \* callers of the IAMPolicy service
  Callers,       \* callers of the freight service, None the anonymous one
  Holds,         \* what evaluating an expression yields: "yes", "no", "broken"
  Permissions,   \* the catalogue: the permissions each role bundles
  MaxEdits,      \* bound: edits a client makes between a read and a write
  MaxBindings    \* bound: bindings in a draft

ASSUME StoreAssumption ==
  /\ MaxEdits \in Nat
  /\ MaxBindings \in Nat
  /\ Holds \in [Expressions -> {"yes", "no", "broken"}]
  /\ \A role \in Roles : Permissions[role] # {}

VARIABLES
  rows,      \* PolicyStore: the resource's rows, one entry per binding_index
  draft,     \* the policy each client is editing, None before its first read
  edits,     \* edits made to it
  accepted   \* the policy of the last SetIamPolicy that succeeded

vars == <<rows, draft, edits, accepted>>

(* What a row keeps of a binding: the role, the members in order, and of    *)
(* the condition its expression only.                                       *)
Row == [role : Roles, members : Seq(Members), expression : Expressions \cup {None}]

TypeOK ==
  /\ rows \in Seq(Row)
  /\ edits \in [Clients -> 0 .. MaxEdits]
  /\ draft \in [Clients -> Policies \cup {None}]
  /\ accepted \in Policies \cup {None}

Init ==
  /\ rows = <<>>
  /\ draft = [c \in Clients |-> None]
  /\ edits = [c \in Clients |-> 0]
  /\ accepted = None

------------------------------------------------------------------------------
(* What a row keeps of a condition: the title is not stored.                *)
Kept(condition) == IF condition = None THEN None ELSE condition.expression

(* The INSERT loop of set_checked.                                          *)
ToRows(bindings) ==
  [i \in DOMAIN bindings |->
     [role |-> bindings[i].role, members |-> bindings[i].members,
      expression |-> Kept(bindings[i].condition)]]

(* read_bindings: a condition comes back with the default, empty title.     *)
ReadBindings ==
  [i \in DOMAIN rows |->
     Binding(rows[i].role, rows[i].members,
             IF rows[i].expression = None THEN None
             ELSE [expression |-> rows[i].expression, title |-> 0])]

(* reconstruct: the version is recovered, the etag computed.                *)
Reconstruct ==
  LET bare == [version |-> CanonicalVersion(ReadBindings),
               bindings |-> ReadBindings, etag |-> NoEtag]
  IN
  IF rows = <<>> THEN Default ELSE [bare EXCEPT !.etag = Compute(bare)]

(* PolicyStore::get                                                         *)
Stored == IF rows = <<>> THEN None ELSE Reconstruct

------------------------------------------------------------------------------
(* get_iam_policy: an unset policy is the empty one, with an empty etag.    *)
GetIamPolicy(c) ==
  /\ draft' = [draft EXCEPT ![c] = IF Stored = None THEN Default ELSE Stored]
  /\ edits' = [edits EXCEPT ![c] = 0]
  /\ UNCHANGED <<rows, accepted>>

Edit(c, policy) ==
  /\ draft[c] # None
  /\ edits[c] < MaxEdits
  /\ Len(policy.bindings) <= MaxBindings
  /\ draft' = [draft EXCEPT ![c] = policy]
  /\ edits' = [edits EXCEPT ![c] = @ + 1]
  /\ UNCHANGED <<rows, accepted>>

ClientAdds(c, role, member) == Edit(c, AddMember(draft[c], role, member))

ClientRemoves(c, role, member) == Edit(c, RemoveMember(draft[c], role, member))

(* A conditional grant is pushed as a binding of its own, by a client that  *)
(* may or may not know that it takes version 3.                             *)
ClientBinds(c, role, member, condition, version) ==
  Edit(c, [draft[c] EXCEPT
             !.bindings = Append(@, Binding(role, <<member>>, condition)),
             !.version = version])

(* set_iam_policy, before the store is reached: a conditional binding below *)
(* version 3 is INVALID_ARGUMENT.  Members are well-formed by construction. *)
ValidRequest(c) ==
  /\ draft[c] # None
  /\ Validate(draft[c])

(* ... and set_checked: a stale etag is ABORTED, with nothing changed; the  *)
(* client goes on from the policy the answer echoes.                        *)
SetIamPolicy(c) ==
  /\ ValidRequest(c)
  /\ Check(draft[c].etag, Stored)
  /\ rows' = ToRows(Normalize(draft[c]).bindings)
  /\ accepted' = draft[c]
  /\ draft' = [draft EXCEPT ![c] = Reconstruct']
  /\ edits' = [edits EXCEPT ![c] = 0]

Next ==
  \E c \in Clients :
    \/ GetIamPolicy(c)
    \/ /\ draft[c] # None
       /\ \E role \in Roles, member \in Members :
            \/ ClientAdds(c, role, member)
            \/ ClientRemoves(c, role, member)
            \/ \E condition \in Condition, version \in {draft[c].version, 3} :
                 ClientBinds(c, role, member, condition, version)
    \/ SetIamPolicy(c)

Spec == Init /\ [][Next]_vars

------------------------------------------------------------------------------
(* FreightServer::authorized: a resource without a policy is public.        *)
Authorized(caller) == Stored = None \/ Grants(Stored, caller)

(* granted_permissions over a policy: the bindings that name the caller     *)
(* decide, and one broken condition among them fails the whole call.        *)
Naming(policy, caller) ==
  {b \in ToSet(policy.bindings) : \E m \in ToSet(b.members) : GrantAdmits(m, caller)}

Evaluate(b) == IF b.condition = None THEN "yes" ELSE Holds[b.condition.expression]

GrantedPermissions(policy, caller) ==
  LET naming == Naming(policy, caller) IN
  IF \E b \in naming : Evaluate(b) = "broken" THEN {"error"}
  ELSE UNION {Permissions[b.role] : b \in {n \in naming : Evaluate(n) = "yes"}}

------------------------------------------------------------------------------
(* What a policy says, whatever its shape: who has which role under which   *)
(* condition.                                                               *)
GrantSet(policy) ==
  UNION {{<<b.role, m, Kept(b.condition)>> : m \in ToSet(b.members)} :
            b \in ToSet(policy.bindings)}

(* Storing a policy changes no decision: after normalisation, decomposition *)
(* into rows and reconstruction, the permissions TestIamPermissions finds   *)
(* are those of the policy the client sent, and when it names anybody the   *)
(* read gate admits exactly the callers it names.                           *)
DecisionsFollowPolicy ==
  accepted # None =>
    \A caller \in Callers :
      /\ GrantedPermissions(Reconstruct, caller) = GrantedPermissions(accepted, caller)
      /\ GrantSet(accepted) # {} => (Authorized(caller) <=> Grants(accepted, caller))

(* The last accepted policy; before there is one, the empty one.            *)
Accepted == IF accepted = None THEN Default ELSE accepted

(* No role is bound twice under conditions that differ in their title only. *)
TitlesAgree(policy) ==
  \A a, b \in ToSet(policy.bindings) :
    a.role = b.role /\ Kept(a.condition) = Kept(b.condition) => a.condition = b.condition

(* Equal policies have equal stored forms, hence equal etags: whichever way *)
(* a client's draft comes to grant what is stored, and whatever titles its  *)
(* conditions have, storing it would leave every row as it is.  Excepted is *)
(* only a policy, the draft or the one stored last, that itself splits a    *)
(* role's binding by title: normalize keeps the parts of such a one apart   *)
(* though the rows do not tell them apart.                                  *)
CanonicalForm ==
  \A c \in Clients :
    (/\ draft[c] # None
     /\ TitlesAgree(draft[c]) /\ TitlesAgree(Accepted)
     /\ GrantSet(draft[c]) = GrantSet(Reconstruct))
      => ToRows(Normalize(draft[c]).bindings) = rows

(* What GetIamPolicy returns may be sent back: it passes the version rule   *)
(* and the freshness check though neither version nor etag is stored.       *)
EchoIsAccepted ==
  /\ Validate(Reconstruct)
  /\ Check(Reconstruct.etag, Stored)

(* The policy a client read, as its etag names it.                          *)
Base(policy) == IF policy.etag = NoEtag THEN Default ELSE policy.etag

Revoked == GrantSet(Reconstruct) \ GrantSet(Reconstruct')

(* No lost update: a write that carries an etag revokes only what its       *)
(* client had seen, however the cycles of several clients interleave.       *)
NoLostGrant ==
  [][accepted' # None /\ accepted'.etag # NoEtag
       => Revoked \subseteq GrantSet(Base(accepted'))]_vars

------------------------------------------------------------------------------
(* What makes them true at every step: whatever the clients have read or    *)
(* edited, the rows are those of the last accepted policy's normal form.    *)
StoreInv == TypeOK /\ rows = ToRows(Normalize(Accepted).bindings)
==============================================================================
