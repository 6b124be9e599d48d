---------------------------- MODULE MCValidation ----------------------------
(***************************************************************************)
(* Instances of Validation for TLC: a schema with one statement of every   *)
(* kind, and a scope per validator.                                        *)
(***************************************************************************)
EXTENDS Validation

CONSTANTS root, lst, k1, k2, id1, id2, val1, val2, ref, opt, sel, sref, dsel, dref, box, man, rng, pat, len,
          len2, ll, lp, lr, tst, cho, ca, cb, cx, grp, g1, g2, g3, gid1, gid2, gid3, i1, i2

Entries ==
  {root, lst, k1, k2, id1, id2, val1, val2, ref, opt, sel, sref, dsel, dref, box, man, rng, pat, len, len2,
   ll, lp, lr, tst, cho, ca, cb, cx, grp, g1, g2, g3, gid1, gid2, gid3}

\* lst { id; val }  ref -> /lst/id  leaf-list lr -> /lst/id  opt -> /lst/id  sref -> /lst[id=current()/../sel]/val
\* dref -> /lst[id=current()/../dsel]/val  dsel (default k1)
\* box { man (mandatory); rng; pat; len; len2; leaf-lists ll, lp; tst }  cho { (ca | cb) mandatory; cx }  grp { gid }
MCParent ==
  [n \in Entries \ {root} |->
     CASE n \in {lst, ref, lr, opt, sel, sref, dsel, dref, box, cho, grp} -> root
       [] n \in {k1, k2} -> lst
       [] n \in {id1, val1} -> k1
       [] n \in {id2, val2} -> k2
       [] n \in {man, rng, pat, len, len2, ll, lp, tst} -> box
       [] n \in {ca, cb, cx} -> cho
       [] n \in {g1, g2, g3} -> grp
       [] n = gid1 -> g1
       [] n = gid2 -> g2
       [] n = gid3 -> g3]

MCKind ==
  [n \in Entries |->
     CASE n \in {root, box, cho} -> "container"
       [] n \in {lst, grp} -> "list"
       [] n \in {k1, k2, g1, g2, g3} -> "key"
       [] n \in {ll, lp, lr} -> "leaflist"
       [] OTHER -> "leaf"]

MCName ==
  [n \in Entries |->
     CASE n \in {id1, id2} -> "id" [] n \in {val1, val2} -> "val" [] n \in {gid1, gid2, gid3} -> "gid"
       [] n = lst -> "lst" [] n = man -> "man" [] n = ca -> "ca" [] n = cb -> "cb" [] OTHER -> "-"]

MCKeyLeafs == {id1, id2, gid1, gid2, gid3}

MCChoicesOf == [n \in Entries |-> IF n = cho THEN {{{ca}, {cb}}} ELSE {}]

MCDefault == [n \in Entries |-> CASE n = rng -> 4 [] n = dsel -> k1 [] OTHER -> NoValue]

MCMandatory == [n \in Entries |-> CASE n = box -> {{"man"}} [] n = cho -> {{"ca", "cb"}} [] OTHER -> {}]

Elem(name) == [name |-> name, key |-> NoValue]

MCLref ==
  [n \in Entries |->
     CASE n \in {ref, lr, opt} -> <<Elem("lst"), Elem("id")>>
       [] n = sref -> <<[name |-> "lst", key |-> sel], Elem("val")>>
       [] n = dref -> <<[name |-> "lst", key |-> dsel], Elem("val")>>
       [] OTHER -> <<>>]

MCFrom == [n \in Entries |-> root]

MCMinMax == [n \in Entries |-> CASE n = grp -> <<2, 2>> [] n = ll -> <<1, 2>> [] OTHER -> <<>>]

MCRanges ==
  [n \in Entries |-> CASE n = rng -> {<<1, 2>>, <<4, 5>>} [] n = lp -> {<<1, 3>>} [] OTHER -> {}]

MCLengths ==
  [n \in Entries |-> CASE n = len -> {<<1, 2>>} [] n = len2 -> {<<1, 2>>, <<4, 5>>}
                       [] n = lp -> {<<1, 2>>} [] OTHER -> {}]

MCPatterns ==
  [n \in Entries |-> IF n \in {pat, lp} THEN {[match |-> {1, 2}, inverted |-> FALSE],
                                              [match |-> {2}, inverted |-> TRUE]} ELSE {}]

MCMust == [n \in Entries |-> IF n = tst THEN {[leaf |-> rng, value |-> 4]} ELSE {}]

MCPrio == [i \in {i1, i2} |-> IF i = i1 THEN 10 ELSE 20]

\* All contents over the leafs of S with values of V, and the one with the keys of S.
Contents(S, V) == UNION {[D -> V] : D \in (SUBSET S) \ {{}}}

Keys(S) == [n \in S |-> MCParent[n]]

One(n, v) == [m \in {n} |-> v]

Scope(offers, off, factory) == [offers |-> offers, off |-> off, factory |-> factory]

Empty == [n \in {} |-> NoValue]

RefScopes ==
  {Scope({Keys({id1}), Keys({id2}), Keys({id1, id2}), One(ref, k1), One(ref, k2), One(opt, k2), One(lr, k2),
          [n \in {id1, ref} |-> k1], [n \in {id2, ref} |-> k2]}, {}, Empty)}

SelScopes ==
  {Scope({One(sel, k1), One(sel, k2), One(sref, 1), One(val1, 1), One(val2, 1),
          [n \in {val1, val2} |-> 1], [n \in {val1, sref, sel} |-> IF n = sel THEN k1 ELSE 1]},
         {}, Empty)}

KeyDefaultScopes == {Scope({One(dsel, k1), One(dref, 1), One(val1, 1)}, {}, Empty)}

BoxScopes ==
  {Scope(Contents({man, rng}, {1, 3}), {}, Empty), Scope(Contents({man}, {1}), {}, One(rng, 3)),
   Scope(Contents({man, rng}, {1}), {}, One(man, 2))}

ValueScopes ==
  {Scope(Contents({pat}, {1, 2, 3}) \cup Contents({len}, {1, 3}) \cup Contents({ll}, {1, 3}),
         {"mandatory"}, Empty),
   Scope(Contents({lp}, {1, 3, 4}) \cup Contents({len2}, {1, 3}), {"mandatory"}, Empty),
   Scope(Contents({lp}, {1, 4}), {"mandatory"}, One(len2, 4))}

\* Leaf-lists with a leafref, a pattern and a length; a leaf with a length of two parts.
LeafListScopes ==
  {Scope(Contents({lp}, {1, 3}), {"mandatory"}, Empty), Scope({One(lr, k2)}, {}, Empty)}

LengthScopes == {Scope(Contents({len2}, {1, 3}), {"mandatory"}, Empty)}

RangeScopes == {Scope(Contents({man, rng}, {1, 3}), {}, Empty)}

MustScopes == {Scope(Contents({tst, rng}, {1, 4}), {"mandatory"}, Empty)}

OffScopes ==
  {Scope(Contents({rng}, {1, 3}), {"mandatory", "range"}, Empty),
   Scope({Keys({gid1}), Keys({gid1, gid2, gid3})}, {"minmax"}, Empty)}

ListScopes ==
  {Scope({Keys(S) : S \in (SUBSET {gid1, gid2, gid3}) \ {{}}}, {}, f)
     : f \in {Empty, Keys({gid1, gid2})}}

ChoiceScopes == {Scope(Contents({ca, cb, cx}, {1}), {}, Empty)}

MCScopes ==
  UNION {RefScopes, SelScopes, KeyDefaultScopes, BoxScopes, ValueScopes, MustScopes, OffScopes,
         ListScopes, ChoiceScopes}

=============================================================================
