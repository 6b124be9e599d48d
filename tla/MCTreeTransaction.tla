------------------------- MODULE MCTreeTransaction -------------------------
(* Instances of TreeTransaction for TLC. *)
EXTENDS TreeTransaction

CONSTANTS root, host,            \* a leaf of the root
          box, boxa, boxd, boxl, \* a container with a leaf, a leaf with a default, a leaf-list
          opt, a1, b1, b2,       \* a container with a choice: case {a1} or case {b1, b2}
          lst, k1, id1, val1, tag1, \* a list with one entry: its key leaf, a leaf, a leaf-list
          pres, prea,            \* a presence container and a leaf in it
          i1, i2

MCNodes ==
  {root, host, box, boxa, boxd, boxl, opt, a1, b1, b2, lst, k1, id1, val1, tag1, pres, prea}

MCParent ==
  [n \in MCNodes \ {root} |->
     CASE n \in {host, box, opt, lst, pres} -> root
       [] n \in {boxa, boxd, boxl} -> box
       [] n \in {a1, b1, b2} -> opt
       [] n = k1 -> lst
       [] n \in {id1, val1, tag1} -> k1
       [] n = prea -> pres]

MCKind ==
  [n \in MCNodes |->
     CASE n \in {root, box, opt} -> "container"
       [] n = pres -> "presence"
       [] n = lst -> "list"
       [] n = k1 -> "key"
       [] n \in {boxl, tag1} -> "leaflist"
       [] OTHER -> "leaf"]

MCKeyLeafs == {id1}

MCChoices == [n \in MCNodes |-> IF n = opt THEN {{{a1}, {b1, b2}}} ELSE {}]

MCDefault == [n \in MCNodes |-> IF n = boxd THEN "default" ELSE NoValue]

MCPrio == [i \in Intents |-> IF i = i1 THEN 5 ELSE 10]

ScopeOf(enc, stream, offers, deletes, changes, reads) ==
  [enc |-> enc, stream |-> stream, offers |-> offers, deletes |-> deletes, changes |-> changes,
   reads |-> reads]

\* Encoding and kind of sync of a target.
Proto == <<"proto", FALSE>>
Json == <<"json", FALSE>>
Xml == <<"xml", FALSE>>
XmlNs == <<"xmlns", FALSE>>
ProtoStream == <<"proto", TRUE>>
JsonStream == <<"json", TRUE>>

BoxScopes ==
  {ScopeOf(m[1], m[2], {{boxa}, {boxa, boxd}}, {{}}, {boxd}, FALSE) :
     m \in {Proto, JsonStream, Xml}}

ListScopes ==
  {ScopeOf(m[1], m[2], {{val1}, {id1}}, {{}}, {k1}, TRUE) : m \in {ProtoStream, Json, Xml}}

\* Leaf-lists, in a container and in a list entry, beside a leaf of another intent or of nobody.
LeaflistScopes ==
  {ScopeOf("xml", FALSE, {{boxa}, {boxl}}, {{}}, {boxa}, FALSE),
   ScopeOf("xml", FALSE, {{tag1}}, {{}}, {val1}, FALSE),
   ScopeOf("xmlns", FALSE, {{tag1}, {val1, tag1}}, {{}}, {val1}, FALSE)}

PresenceScopes ==
  {ScopeOf("proto", TRUE, {{pres}}, {{}}, {pres}, FALSE),
   ScopeOf("proto", FALSE, {{pres}}, {{}}, {prea}, FALSE)} \cup
  {ScopeOf(m[1], m[2], {{prea}}, {{}}, {pres}, FALSE) : m \in {Proto, JsonStream, Xml}} \cup
  {ScopeOf(m[1], m[2], {{pres}, {prea}}, {{}}, {}, FALSE) : m \in {Proto, Xml}}

ChoiceScopes ==
  {ScopeOf("proto", FALSE, {{a1}}, {{}}, {a1, b2}, FALSE),
   ScopeOf("json", FALSE, {{a1}, {b1}}, {{}}, {}, TRUE),
   ScopeOf("xml", FALSE, {{a1}, {b1}}, {{}}, {}, FALSE)}

DeleteScopes ==
  {ScopeOf(m[1], m[2], {{boxa}}, {{}, {box}}, {boxa}, FALSE) : m \in {Proto, Xml}}

MCScopes ==
  BoxScopes \cup ListScopes \cup LeaflistScopes \cup PresenceScopes \cup ChoiceScopes
    \cup DeleteScopes

\* A target that speaks XML, with intents on either side of a choice.
XmlScopes == {ScopeOf("xml", FALSE, {{a1}, {b1}}, {{}}, {}, FALSE)}

\* An explicit delete of a path that may be missing.
PathScopes == {ScopeOf("proto", FALSE, {{boxa}}, {{}, {box}}, {}, FALSE)}

\* Intents with an empty presence container and with a leaf in it.
ContentScopes == {ScopeOf("proto", FALSE, {{pres}, {prea}}, {{}}, {}, FALSE)}

\* A target that speaks XML, with a leaf and a leaf-list in one container.
ReplaceScopes == {ScopeOf("xml", FALSE, {{boxa}, {boxl}}, {{}}, {}, FALSE)}

\* A target that speaks XML with namespaces, with a leaf-list in a list entry.
RefillScopes == {ScopeOf("xmlns", FALSE, {{tag1}}, {{}}, {}, FALSE)}
=============================================================================
