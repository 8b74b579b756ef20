------------------------------- MODULE Policy -------------------------------
(***************************************************************************)
(* aip-iam's structural operations on a google.iam.v1.Policy (policy.rs)   *)
(* and the membership rule (member.rs).                                    *)
(*                                                                         *)
(* Roles, members, condition expressions and titles are strings of which   *)
(* the code uses only equality and order, so they are natural numbers; two *)
(* members are the wildcard grants.  A condition's description and         *)
(* location behave like its title and are left out.  The CRC32 digest is   *)
(* taken to be injective: an etag is the content it digests.               *)
(***************************************************************************)
EXTENDS Orders, SequencesExt

CONSTANTS
  Roles, Members, Expressions, Titles,   \* finite sets of naturals
  AllUsers, AllAuthenticatedUsers,       \* the wildcard members
  NoEtag,                                \* the empty etag
  None                                   \* Rust's Option::None

ASSUME PolicyAssumption ==
  /\ \A S \in {Roles, Members, Expressions, Titles} : S \subseteq Nat
  /\ 0 \in Titles   \* the empty title
  /\ None \notin Nat

Condition == [expression : Expressions, title : Titles]

ASSUME ConditionAssumption == None \notin Condition

(* The values of a Binding, of what an etag digests and of a Policy.        *)
Bindings == [role : Roles, members : Seq(Members), condition : Condition \cup {None}]
Contents == [version : {0, 1, 3}, bindings : Seq(Bindings)]
Policies == [version : {0, 1, 3}, bindings : Seq(Bindings), etag : Contents \cup {NoEtag}]

ASSUME NoPolicyAssumption == None \notin Policies

Binding(role, members, condition) ==
  [role |-> role, members |-> members, condition |-> condition]

(* Policy::default()                                                        *)
Default == [version |-> 0, bindings |-> <<>>, etag |-> NoEtag]

------------------------------------------------------------------------------
(* The first binding for `role` with no condition, 0 when there is none.    *)
Unconditional(policy, role) ==
  SelectInSeq(policy.bindings, LAMBDA b : b.role = role /\ b.condition = None)

AddMember(policy, role, member) ==
  LET i == Unconditional(policy, role) IN
  CASE i = 0 ->
         [policy EXCEPT !.bindings = Append(@, Binding(role, <<member>>, None))]
    [] i # 0 /\ ~Contains(policy.bindings[i].members, member) ->
         [policy EXCEPT !.bindings[i].members = Append(@, member)]
    [] OTHER -> policy

(* members.retain(|m| m != member)                                          *)
Retain(members, member) == Chosen(members, {i \in DOMAIN members : members[i] # member})

RemoveMember(policy, role, member) ==
  LET i    == Unconditional(policy, role)
      kept == Retain(policy.bindings[i].members, member)
  IN
  CASE i = 0                   -> policy
    [] i # 0 /\ kept = <<>>    -> [policy EXCEPT !.bindings = RemoveAt(@, i)]
    [] OTHER                   -> [policy EXCEPT !.bindings[i].members = kept]

------------------------------------------------------------------------------
(* members.sort(); members.dedup()                                          *)
SortDedup(members) == InOrder(ToSet(members), Ascending)

(* binding_key's order: by role, then the unconditional binding, then by    *)
(* expression and title.                                                    *)
KeyLess(a, b) ==
  \/ a.role < b.role
  \/ /\ a.role = b.role
     /\ b.condition # None
     /\ \/ a.condition = None
        \/ a.condition.expression < b.condition.expression
        \/ /\ a.condition.expression = b.condition.expression
           /\ a.condition.title < b.condition.title

SameKey(a, b) == a.role = b.role /\ a.condition = b.condition

(* One turn of normalize's loop: drop an empty binding, merge one whose key *)
(* was met before, push any other.                                          *)
Mut_Fold_MergeByRole(merged, binding) ==
  LET i == SelectInSeq(merged, LAMBDA b : b.role = binding.role) IN
  CASE binding.members = <<>> -> merged
    [] binding.members # <<>> /\ i = 0 ->
         Append(merged, [binding EXCEPT !.members = SortDedup(@)])
    [] OTHER ->
         [merged EXCEPT ![i].members = SortDedup(@ \o binding.members)]

Fold(merged, binding) ==
  LET i == SelectInSeq(merged, LAMBDA b : SameKey(b, binding)) IN
  CASE binding.members = <<>> -> merged
    [] binding.members # <<>> /\ i = 0 ->
         Append(merged, [binding EXCEPT !.members = SortDedup(@)])
    [] OTHER ->
         [merged EXCEPT ![i].members = SortDedup(@ \o binding.members)]

(* ... over the bindings in turn: what the loop has merged after n of them. *)
Merging(bindings) ==
  LET merged[n \in 0 .. Len(bindings)] ==
        IF n = 0 THEN <<>> ELSE Fold(merged[n - 1], bindings[n])
  IN  merged

Merged(bindings) == Merging(bindings)[Len(bindings)]

(* merged.sort_by(binding_key); no two bindings there have the same key.    *)
ByKey(bindings) ==
  {x \in ToSet(bindings) \X ToSet(bindings) : KeyLess(x[1], x[2]) \/ x[1] = x[2]}
SortByKey(bindings) == InOrder(ToSet(bindings), ByKey(bindings))

Mut_Normalize_NoSort(policy) == [policy EXCEPT !.bindings = Merged(@)]

Normalize(policy) == [policy EXCEPT !.bindings = SortByKey(Merged(@))]

------------------------------------------------------------------------------
AnyConditional(bindings) == \E i \in DOMAIN bindings : bindings[i].condition # None

Mut_CanonicalVersion_One(bindings) == 1

Mut_CanonicalVersion_Two(bindings) == IF AnyConditional(bindings) THEN 3 ELSE 2

CanonicalVersion(bindings) == IF AnyConditional(bindings) THEN 3 ELSE 1

Validate(policy) == AnyConditional(policy.bindings) => policy.version = 3

(* compute digests everything but the etag.                                 *)
Compute(policy) == [version |-> policy.version, bindings |-> policy.bindings]

(* check, true when the write may proceed; `current` is None when unset.    *)
Mut_Check_AnyToken(supplied, current) == TRUE

Check(supplied, current) ==
  \/ supplied = NoEtag
  \/ supplied = Compute(IF current = None THEN Default ELSE current)

(* grant_admits; a caller is a member or None, the anonymous one.           *)
GrantAdmits(granted, caller) ==
  \/ granted = AllUsers
  \/ caller # None /\ granted \in {AllAuthenticatedUsers, caller}

Grants(policy, caller) ==
  \E i \in DOMAIN policy.bindings :
    \E j \in DOMAIN policy.bindings[i].members :
      GrantAdmits(policy.bindings[i].members[j], caller)
==============================================================================
