-------------------------- MODULE ReorderableProof --------------------------
(***************************************************************************)
(* What the reordering encoder keeps for every ABI, every document and     *)
(* every depth limit: IInv of Reorderable is inductive, and the properties *)
(* of the parser and of the encoder follow from it.                        *)
(***************************************************************************)
EXTENDS Reorderable, ReaderLemmas

-----------------------------------------------------------------------------
(* The parser's reader is the reader.                                      *)

\* Peek, Eat and the rest mean the same in the parser.
LEMMA SameReader ==
    /\ \A in : Parser!Peek(in) = Peek(in)
    /\ \A in : Parser!Eat(in) = Eat(in)
    /\ \A in : Parser!Complete(in) = Complete(in)
    /\ \A doc : Parser!Open(doc) = Open(doc)
    /\ Parser!ValueStart = ValueStart
    /\ Parser!TokenKind = TokenKind
    /\ Parser!Top = Last(parents)
    /\ Parser!Fresh = Max(DOMAIN heap)
    /\ \A s : Parser!ToSet(s) = ToSet(s)
    /\ \A s : Parser!Front(s) = Front(s)
<1>1. \A s : Parser!Last(s) = Last(s) /\ Parser!Front(s) = Front(s) /\ Parser!ToSet(s) = ToSet(s)
    BY DEF Parser!Last, Last, Parser!Front, Front, Parser!ToSet, ToSet
<1>2. Parser!ValueStart = ValueStart /\ Parser!TokenKind = TokenKind /\ Parser!Scalars = Scalars
    BY DEF Parser!ValueStart, ValueStart, Parser!Scalars, Scalars, Parser!TokenKind, TokenKind
<1>3. \A ctx, kind : Parser!Expects(ctx, kind) = Expects(ctx, kind)
    BY <1>2 DEF Parser!Expects, Expects
<1>4. \A open, kind : Parser!Advance(open, kind) = Advance(open, kind)
    BY <1>1, <1>2 DEF Parser!Advance, Advance, Parser!WithTop, WithTop, Parser!AfterValue, AfterValue,
       Parser!Inside, Inside
<1>5. \A in : Parser!Complete(in) = Complete(in)
    BY DEF Parser!Complete, Complete
<1>6. \A in : Parser!Peek(in) = Peek(in)
    BY <1>1, <1>3, <1>4
       DEF Parser!Peek, Peek, Parser!JunkFollows, JunkFollows, Parser!SyntaxError, SyntaxError
<1>7. \A in : Parser!Eat(in) = Eat(in)
    BY <1>4 DEF Parser!Eat, Eat
<1>8. \A doc : Parser!Open(doc) = Open(doc)
    BY DEF Parser!Open, Open
<1>9. Parser!Top = Last(parents)
    BY <1>1 DEF Parser!Top
<1>10. Parser!Fresh = Max(DOMAIN heap)
    BY DEF Parser!Fresh, Parser!Max, Max
<1> QED
    BY <1>1, <1>2, <1>5, <1>6, <1>7, <1>8, <1>9, <1>10

-----------------------------------------------------------------------------
(* The forest.                                                             *)

\* Addresses above the highest are free.
LEMMA FreshFacts ==
    ASSUME NEW tree, NEW depth, IsForest(tree, depth)
    PROVE  /\ Max(DOMAIN tree) \in DOMAIN tree /\ Max(DOMAIN tree) \in Nat
           /\ \A a \in DOMAIN tree : a \in Nat /\ a <= Max(DOMAIN tree)
<1>1. PICK last \in DOMAIN tree : \A a \in DOMAIN tree : a <= last
    BY DEF IsForest
<1>2. DOMAIN tree \subseteq Nat
    BY DEF IsForest
<1>3. \E top \in DOMAIN tree : \A a \in DOMAIN tree : top >= a
    BY <1>1, <1>2
<1>4. Max(DOMAIN tree) \in DOMAIN tree /\ \A a \in DOMAIN tree : Max(DOMAIN tree) >= a
    BY <1>3 DEF Max
<1> QED
    BY <1>2, <1>4

\* A node as it is put into the tree: a value without parts.
IsLeaf(v) ==
    /\ Parser!IsNode(v)
    /\ v = [kind |-> v.kind, text |-> v.text, members |-> v.members, items |-> v.items]
    /\ DOMAIN v.members = {} /\ v.items = <<>>

\* The value of a token has no parts yet.
LEMMA ValueOfFacts ==
    ASSUME NEW tok \in Token, tok.kind \in ValueStart
    PROVE  /\ IsLeaf(Parser!ValueOf(tok))
           /\ tok.kind = "start_object" => Parser!ValueOf(tok).kind = "object"
           /\ tok.kind = "start_array" => Parser!ValueOf(tok).kind = "array"
<1> DEFINE v == Parser!ValueOf(tok)
           kind == CASE tok.kind = "start_object" -> "object"
                     [] tok.kind = "start_array" -> "array"
                     [] OTHER -> tok.kind
           text == IF Parser!IsContainer(tok.kind) THEN "" ELSE tok.text
           none == [k \in {} |-> Parser!Root]
<1>1. v = [kind |-> kind, text |-> text, members |-> none, items |-> <<>>]
    <2>1. Parser!Empty = [kind |-> "null", text |-> "", members |-> none, items |-> <<>>]
        BY DEF Parser!Empty
    <2>2. v = [Parser!Empty EXCEPT !.kind = kind, !.text = text]
        BY DEF Parser!ValueOf
    <2> HIDE DEF v, kind, text, none
    <2> QED
        BY <2>1, <2>2
<1>2. kind \in {"null", "bool", "string", "object", "array"}
    BY DEF ValueStart, Scalars
<1>3. text \in Text
    BY TextAssumption DEF Token
<1>4. DOMAIN none = {}
    OBVIOUS
<1>5. <<>> \in Seq(Nat)
    OBVIOUS
<1> HIDE DEF v, kind, text, none
<1>6. v.kind = kind /\ v.text = text /\ v.members = none /\ v.items = <<>>
    BY <1>1
<1>7. IsLeaf(v)
    BY <1>1, <1>2, <1>3, <1>4, <1>5, <1>6 DEF IsLeaf, Parser!IsNode, Parser!Address
<1>8. /\ tok.kind = "start_object" => kind = "object"
      /\ tok.kind = "start_array" => kind = "array"
    BY DEF kind
<1> QED
    BY <1>6, <1>7, <1>8 DEF v

\* A leaf owns nothing.
LEMMA LeafFacts ==
    ASSUME NEW tree, NEW a, IsLeaf(tree[a])
    PROVE  Children(tree, a) = {}
BY DEF IsLeaf, Children

\* A child is a node one level deeper, and not its owner.
LEMMA ChildFacts ==
    ASSUME NEW tree, NEW depth, IsForest(tree, depth), NEW a \in DOMAIN tree,
           NEW x \in Children(tree, a)
    PROVE  /\ x \in DOMAIN tree /\ depth[x] = depth[a] + 1 /\ x # a
           /\ depth[a] \in 1 .. MaxStack /\ depth[x] \in 1 .. MaxStack
           /\ x # Parser!Root
           /\ \A b \in DOMAIN tree : x \in Children(tree, b) => a = b
<1>1. /\ x \in DOMAIN tree /\ depth[x] = depth[a] + 1
      /\ \A b \in DOMAIN tree : x \in Children(tree, b) => a = b
      /\ depth \in [DOMAIN tree -> 1 .. MaxStack] /\ depth[Parser!Root] = 1
    BY DEF IsForest
<1>2. depth[a] \in 1 .. MaxStack /\ depth[x] \in 1 .. MaxStack
    BY <1>1
<1> QED
    BY <1>1, <1>2

\* A value is overwritten by one without parts (value = ...).
LEMMA OverwriteFacts ==
    ASSUME NEW tree, NEW depth, NodesFit(tree), IsForest(tree, depth),
           NEW a \in DOMAIN tree, NEW v, IsLeaf(v),
           NEW new, DOMAIN new = DOMAIN tree, new[a] = v,
           \A b \in DOMAIN tree : b # a => new[b] = tree[b]
    PROVE  NodesFit(new) /\ IsForest(new, depth)
<1>1. /\ DOMAIN new = DOMAIN tree /\ new[a] = v
      /\ \A b \in DOMAIN tree : b # a => new[b] = tree[b]
    OBVIOUS
<1>2. Children(new, a) = {}
    BY <1>1, LeafFacts
<1>3. \A b \in DOMAIN tree : b # a => Children(new, b) = Children(tree, b)
    BY <1>1 DEF Children
<1>4. NodesFit(new)
    <2>1. /\ \A i, j \in DOMAIN v.items : i # j => v.items[i] # v.items[j]
        BY DEF IsLeaf
    <2> QED
        BY <1>1, <2>1 DEF NodesFit, IsLeaf
<1>5. \A b \in DOMAIN new : \A x \in Children(new, b) :
          /\ x \in DOMAIN new /\ depth[x] = depth[b] + 1
          /\ \A c \in DOMAIN new : x \in Children(new, c) => b = c
    <2> SUFFICES ASSUME NEW b \in DOMAIN tree, NEW x \in Children(new, b)
                 PROVE  /\ x \in DOMAIN tree /\ depth[x] = depth[b] + 1
                        /\ \A c \in DOMAIN tree : x \in Children(new, c) => b = c
        BY <1>1
    <2>1. x \in Children(tree, b)
        BY <1>2, <1>3
    <2>2. \A c \in DOMAIN tree : x \in Children(new, c) => x \in Children(tree, c)
        BY <1>2, <1>3
    <2> QED
        BY <2>1, <2>2, ChildFacts
<1> QED
    BY <1>1, <1>4, <1>5 DEF IsForest

\* The nodes have depths again, those that stayed the one they had.
Deepened(tree, depth, new, a, level) ==
    \E deeper \in [DOMAIN new -> 1 .. MaxStack] :
        /\ IsForest(new, deeper) /\ deeper[a] = level
        /\ \A x \in DOMAIN tree : x \in DOMAIN new => deeper[x] = depth[x]

\* new is tree with v at a, a member of top.
MemberPut(tree, new, top, key, a, v) ==
    /\ DOMAIN new = DOMAIN tree \cup {a} /\ new[a] = v
    /\ new[top] = [kind |-> "object", text |-> tree[top].text,
                   members |-> Parser!Put(tree[top].members, key, a), items |-> <<>>]
    /\ \A b \in DOMAIN tree : b # a /\ b # top => new[b] = tree[b]

\* obj[key] = value: a member is added, or the one of that key is replaced in
\* place.
LEMMA MemberForest ==
    ASSUME NEW tree, NEW depth, NodesFit(tree), IsForest(tree, depth), MaxStack \in Nat,
           NEW top \in DOMAIN tree, tree[top].kind = "object", depth[top] + 1 <= MaxStack,
           NEW key \in Text, NEW a \in Nat, a \notin DOMAIN tree \/ a \in Children(tree, top),
           NEW v, IsLeaf(v), NEW new, MemberPut(tree, new, top, key, a, v)
    PROVE  NodesFit(new) /\ Deepened(tree, depth, new, a, depth[top] + 1)
<1>0. /\ DOMAIN new = DOMAIN tree \cup {a} /\ new[a] = v
      /\ new[top] = [kind |-> "object", text |-> tree[top].text,
                     members |-> Parser!Put(tree[top].members, key, a), items |-> <<>>]
      /\ \A b \in DOMAIN tree : b # a /\ b # top => new[b] = tree[b]
    BY DEF MemberPut
<1> DEFINE members == Parser!Put(tree[top].members, key, a)
           deeper == [x \in DOMAIN new |-> IF x = a THEN depth[top] + 1 ELSE depth[x]]
<1>1. a # top /\ (a \in DOMAIN tree => depth[a] = depth[top] + 1)
    BY ChildFacts
<1>2. /\ DOMAIN tree \subseteq Nat /\ Parser!Root \in DOMAIN tree
      /\ depth \in [DOMAIN tree -> 1 .. MaxStack] /\ depth[Parser!Root] = 1
    BY DEF IsForest
<1>3. /\ Parser!IsNode(tree[top])
      /\ tree[top] = [kind |-> tree[top].kind, text |-> tree[top].text,
                      members |-> tree[top].members, items |-> tree[top].items]
      /\ tree[top].items = <<>>
    BY DEF NodesFit, Parser!IsNode
<1>4. /\ DOMAIN members = DOMAIN tree[top].members \cup {key}
      /\ members[key] = a
      /\ \A k \in DOMAIN tree[top].members : k # key => members[k] = tree[top].members[k]
    BY DEF Parser!Put
<1> HIDE DEF members
<1>5. /\ new[top].kind = "object" /\ new[top].text = tree[top].text
      /\ new[top].members = members /\ new[top].items = <<>>
      /\ new[top] = [kind |-> new[top].kind, text |-> new[top].text,
                     members |-> new[top].members, items |-> new[top].items]
    BY <1>0, <1>3 DEF members
<1>6. Parser!IsNode(new[top])
    BY <1>3, <1>4, <1>5 DEF Parser!IsNode, Parser!Address
<1>7. Children(new, a) = {}
    BY <1>0, LeafFacts
<1>8. Children(new, top) \subseteq Children(tree, top) \cup {a}
    BY <1>3, <1>4, <1>5 DEF Children
<1>9. \A b \in DOMAIN tree : b # a /\ b # top => Children(new, b) = Children(tree, b)
    BY <1>0 DEF Children
<1>10. NodesFit(new)
    <2> SUFFICES ASSUME NEW b \in DOMAIN new
                 PROVE  /\ Parser!IsNode(new[b])
                        /\ new[b] = [kind |-> new[b].kind, text |-> new[b].text,
                                     members |-> new[b].members, items |-> new[b].items]
                        /\ \A i, j \in DOMAIN new[b].items :
                              i # j => new[b].items[i] # new[b].items[j]
        BY DEF NodesFit
    <2>1. CASE b = a
        BY <1>0, <2>1 DEF IsLeaf
    <2>2. CASE b = top
        BY <1>5, <1>6, <2>2
    <2>3. CASE b # a /\ b # top
        BY <1>0, <2>3 DEF NodesFit
    <2>4. b \in DOMAIN tree \cup {a}
        BY <1>0
    <2> QED
        BY <2>1, <2>2, <2>3, <2>4
<1>11. /\ deeper \in [DOMAIN new -> 1 .. MaxStack]
       /\ deeper[a] = depth[top] + 1 /\ \A x \in DOMAIN tree : deeper[x] = depth[x]
    <2>1. depth[top] + 1 \in 1 .. MaxStack
        BY <1>2
    <2> QED
        BY <1>0, <1>1, <1>2, <2>1
<1> HIDE DEF deeper
<1>12. ASSUME NEW b \in DOMAIN new, NEW x \in Children(new, b)
       PROVE  /\ x \in DOMAIN new /\ deeper[x] = deeper[b] + 1
              /\ \A c \in DOMAIN new : x \in Children(new, c) => b = c
    <2>1. \A c \in DOMAIN new : x \in Children(new, c) =>
              c \in DOMAIN tree /\ (x \in Children(tree, c) \/ (c = top /\ x = a))
        BY <1>0, <1>7, <1>8, <1>9
    <2>2. CASE x = a
        <3>1. \A c \in DOMAIN tree : x \in Children(tree, c) => c = top
            BY <2>2, ChildFacts
        <3>2. b = top
            BY <2>1, <3>1
        <3> QED
            BY <1>0, <1>11, <2>1, <2>2, <3>1, <3>2
    <2>3. CASE x # a
        <3>1. b \in DOMAIN tree /\ x \in Children(tree, b)
            BY <2>1, <2>3
        <3>2. /\ x \in DOMAIN tree /\ depth[x] = depth[b] + 1
              /\ \A c \in DOMAIN tree : x \in Children(tree, c) => b = c
            BY <3>1, ChildFacts
        <3> QED
            BY <1>0, <1>11, <2>1, <2>3, <3>1, <3>2
    <2> QED
        BY <2>2, <2>3
<1>13. \E last \in DOMAIN new : \A b \in DOMAIN new : b <= last
    <2>1. PICK last \in DOMAIN tree : \A b \in DOMAIN tree : b <= last
        BY DEF IsForest
    <2>2. last \in Nat /\ (a <= last \/ last <= a)
        BY <1>2
    <2>3. CASE a <= last
        BY <1>0, <2>1, <2>3
    <2>4. CASE last <= a
        <3>1. \A b \in DOMAIN tree : b <= a
            BY <1>2, <2>1, <2>2, <2>4
        <3> QED
            BY <1>0, <3>1
    <2> QED
        BY <2>2, <2>3, <2>4
<1>14. IsForest(new, deeper)
    BY <1>0, <1>2, <1>11, <1>12, <1>13 DEF IsForest
<1> QED
    BY <1>10, <1>11, <1>14 DEF Deepened

\* new is tree with v behind the elements old of top, which moved above fresh.
ElementPut(tree, new, top, old, fresh, v) ==
    /\ DOMAIN new = (DOMAIN tree \ ToSet(old)) \cup fresh + 1 .. fresh + Len(old) + 1
    /\ new[top] = [kind |-> "array", text |-> tree[top].text, members |-> tree[top].members,
                   items |-> [i \in 1 .. Len(old) + 1 |-> fresh + i]]
    /\ \A a \in DOMAIN tree \ ToSet(old) : a # top => new[a] = tree[a]
    /\ \A i \in 1 .. Len(old) : new[fresh + i] = tree[old[i]]
    /\ new[fresh + Len(old) + 1] = v

\* emplace_back on an array: its elements move to fresh addresses, and so do
\* the pointers to them.
LEMMA ElementForest ==
    ASSUME NEW tree, NEW depth, NodesFit(tree), IsForest(tree, depth), MaxStack \in Nat,
           NEW top \in DOMAIN tree, tree[top].kind = "array", depth[top] + 1 <= MaxStack,
           NEW fresh, fresh = Max(DOMAIN tree), NEW old, old = tree[top].items,
           NEW n, n = Len(old) + 1, NEW v, IsLeaf(v),
           NEW new, ElementPut(tree, new, top, old, fresh, v)
    PROVE  /\ NodesFit(new)
           /\ \A x \in DOMAIN tree : depth[x] <= depth[top] => x \in DOMAIN new
           /\ fresh + n \in DOMAIN new
           /\ Deepened(tree, depth, new, fresh + n, depth[top] + 1)
<1> DEFINE items == [i \in 1 .. n |-> fresh + i]
           moved == fresh + 1 .. fresh + n
           kept == DOMAIN tree \ ToSet(old)
           deeper == [x \in DOMAIN new |-> IF x <= fresh THEN depth[x] ELSE depth[top] + 1]
<1>1. /\ DOMAIN tree \subseteq Nat /\ Parser!Root \in DOMAIN tree
      /\ depth \in [DOMAIN tree -> 1 .. MaxStack] /\ depth[Parser!Root] = 1
    BY DEF IsForest
<1>2. /\ fresh \in Nat /\ \A a \in DOMAIN tree : a \in Nat /\ a <= fresh
    BY FreshFacts
<1>3. /\ Parser!IsNode(tree[top])
      /\ tree[top] = [kind |-> tree[top].kind, text |-> tree[top].text,
                      members |-> tree[top].members, items |-> tree[top].items]
      /\ DOMAIN tree[top].members = {}
      /\ old \in Seq(Nat) /\ Len(old) \in Nat /\ n \in Nat \ {0} /\ DOMAIN old = 1 .. Len(old)
      /\ \A i, j \in 1 .. Len(old) : i # j => old[i] # old[j]
    <2>1. old \in Seq(Nat) /\ Parser!IsNode(tree[top]) /\ DOMAIN tree[top].members = {}
        BY DEF NodesFit, Parser!IsNode, Parser!Address
    <2>2. Len(old) \in Nat /\ DOMAIN old = 1 .. Len(old)
        BY <2>1, LenProperties
    <2> QED
        BY <2>1, <2>2 DEF NodesFit
<1>4. /\ ToSet(old) = {old[i] : i \in 1 .. Len(old)}
      /\ ToSet(old) = Children(tree, top)
    BY <1>3 DEF ToSet, Children
<1>5. \A x \in ToSet(old) : /\ x \in DOMAIN tree /\ depth[x] = depth[top] + 1 /\ x # top
                            /\ x # Parser!Root
                            /\ \A b \in DOMAIN tree : x \in Children(tree, b) => top = b
    BY <1>4, ChildFacts
<1>6. \A x \in DOMAIN tree : depth[x] <= depth[top] => x \in kept
    BY <1>1, <1>5
<1>7. top \in kept
    BY <1>1, <1>6
<1>8. /\ DOMAIN new = kept \cup moved /\ DOMAIN new \subseteq Nat
      /\ \A x \in moved : x \in Nat /\ x > fresh /\ x \notin DOMAIN tree
      /\ \A x \in kept : x \in DOMAIN tree /\ x <= fresh /\ x \notin moved
    <2>1. fresh + Len(old) + 1 = fresh + n
        BY <1>2, <1>3
    <2>2. DOMAIN new = kept \cup moved
        BY <2>1 DEF ElementPut
    <2>3. \A x \in moved : x \in Nat /\ x > fresh
        BY <1>2, <1>3
    <2> HIDE DEF moved
    <2>4. \A x \in kept : x \in DOMAIN tree /\ x \in Nat /\ x <= fresh
        BY <1>2
    <2> HIDE DEF kept
    <2>5. \A x \in moved : x \notin DOMAIN tree
        BY <1>2, <2>3
    <2> QED
        BY <2>2, <2>3, <2>4, <2>5, SMTT(30)
<1>9. /\ DOMAIN items = 1 .. n
      /\ \A i \in 1 .. n : items[i] = fresh + i /\ items[i] \in moved
      /\ \A x \in moved : x - fresh \in 1 .. n /\ x = fresh + (x - fresh)
      /\ items \in Seq(Nat)
    BY <1>2, <1>3, SMTT(30)
<1>10. \A i \in 1 .. n : i \in 1 .. Len(old) \/ i = n
    BY <1>3
<1>26. fresh + Len(old) + 1 = fresh + n
    BY <1>2, <1>3
<1> HIDE DEF items, moved, kept
<1>27. /\ new[top] = [kind |-> "array", text |-> tree[top].text,
                      members |-> tree[top].members, items |-> items]
       /\ \A a \in kept : a # top => new[a] = tree[a]
       /\ \A i \in 1 .. Len(old) : new[fresh + i] = tree[old[i]]
       /\ new[fresh + n] = v
    BY <1>26 DEF ElementPut, items, kept
<1>11. /\ new[top].kind = "array" /\ new[top].text = tree[top].text
       /\ DOMAIN new[top].members = {} /\ new[top].items = items
       /\ new[top] = [kind |-> new[top].kind, text |-> new[top].text,
                      members |-> new[top].members, items |-> new[top].items]
    BY <1>3, <1>27
<1>12. Parser!IsNode(new[top])
    BY <1>3, <1>9, <1>11 DEF Parser!IsNode, Parser!Address
<1>13. Children(new, top) = moved
    <2>1. Children(new, top) = {items[i] : i \in 1 .. n}
        BY <1>9, <1>11 DEF Children
    <2> QED
        BY <1>9, <2>1
<1>14. fresh + n \in moved /\ fresh + n \in DOMAIN new /\ Children(new, fresh + n) = {}
    <2>1. fresh + n \in moved
        BY <1>2, <1>3 DEF moved
    <2>2. IsLeaf(new[fresh + n])
        BY <1>27
    <2>3. Children(new, fresh + n) = {}
        BY <2>2, LeafFacts
    <2> QED
        BY <1>8, <2>1, <2>3
\* Every other node is a copy of one there was.
<1> DEFINE origin(x) == IF x <= fresh THEN x ELSE old[x - fresh]
           copies == DOMAIN new \ {top, fresh + n}
<1>15. ASSUME NEW x \in copies
       PROVE  /\ origin(x) \in DOMAIN tree /\ origin(x) # top
              /\ new[x] = tree[origin(x)] /\ deeper[x] = depth[origin(x)]
    <2>1. CASE x \in kept
        <3>1. origin(x) = x /\ deeper[x] = depth[x]
            BY <1>8, <2>1
        <3> QED
            BY <1>8, <1>27, <2>1, <3>1
    <2>2. CASE x \in moved
        <3>1. PICK i \in 1 .. n : i = x - fresh /\ x = fresh + i
            BY <1>9, <2>2
        <3>2. i \in 1 .. Len(old)
            BY <1>10, <3>1
        <3>3. ~(x <= fresh)
            BY <1>2, <1>8, <2>2
        <3>4. origin(x) = old[i] /\ deeper[x] = depth[top] + 1
            BY <3>1, <3>3
        <3>5. old[i] \in ToSet(old)
            BY <1>4, <3>2
        <3> QED
            BY <1>5, <1>27, <3>1, <3>2, <3>4, <3>5
    <2> QED
        BY <1>8, <2>1, <2>2
<1>16. ASSUME NEW x \in copies, NEW y \in copies, origin(x) = origin(y)
       PROVE  x = y
    <2>1. \A z \in copies : z \in moved =>
             \E i \in 1 .. Len(old) : z = fresh + i /\ origin(z) = old[i] /\ old[i] \notin kept
        <3> SUFFICES ASSUME NEW z \in copies, z \in moved
                     PROVE  \E i \in 1 .. Len(old) :
                               z = fresh + i /\ origin(z) = old[i] /\ old[i] \notin kept
            OBVIOUS
        <3>1. PICK i \in 1 .. n : i = z - fresh /\ z = fresh + i
            BY <1>9
        <3>4. z \in Nat /\ z > fresh
            BY <1>8
        <3>5. i \in 1 .. Len(old)
            BY <1>10, <3>1
        <3>6. ~(z <= fresh)
            BY <1>2, <3>4
        <3>2. i \in 1 .. Len(old) /\ ~(z <= fresh)
            BY <3>5, <3>6
        <3>3. origin(z) = old[i] /\ old[i] \in ToSet(old)
            BY <1>4, <3>1, <3>2
        <3> QED
            BY <3>1, <3>2, <3>3 DEF kept
    <2>2. \A z \in copies : z \in kept => origin(z) = z
        BY <1>8
    <2> HIDE DEF origin, copies
    <2>3. (x \in kept \/ x \in moved) /\ (y \in kept \/ y \in moved)
        BY <1>8 DEF copies
    <2> QED
        BY <1>3, <1>16, <2>1, <2>2, <2>3
<1>17. /\ deeper \in [DOMAIN new -> 1 .. MaxStack] /\ deeper[fresh + n] = depth[top] + 1
       /\ deeper[top] = depth[top] /\ \A x \in kept : deeper[x] = depth[x]
       /\ \A x \in moved : deeper[x] = depth[top] + 1
    <2>1. \A x \in kept : x <= fresh /\ x \in DOMAIN new /\ depth[x] \in 1 .. MaxStack
        BY <1>1, <1>8
    <2>2. ASSUME NEW x \in moved
          PROVE  ~(x <= fresh) /\ x \in DOMAIN new
        <3>1. x \in Nat /\ x > fresh
            BY <1>8
        <3>2. ~(x <= fresh)
            BY <1>2, <3>1
        <3> QED
            BY <1>8, <3>2
    <2>3. depth[top] + 1 \in 1 .. MaxStack
        BY <1>1
    <2> QED
        BY <1>7, <1>8, <1>14, <2>1, <2>2, <2>3
<1> HIDE DEF deeper, origin
<1>18. \A x \in copies : Children(new, x) = Children(tree, origin(x))
    BY <1>15 DEF Children
<1>19. NodesFit(new)
    <2> SUFFICES ASSUME NEW x \in DOMAIN new
                 PROVE  /\ Parser!IsNode(new[x])
                        /\ new[x] = [kind |-> new[x].kind, text |-> new[x].text,
                                     members |-> new[x].members, items |-> new[x].items]
                        /\ \A i, j \in DOMAIN new[x].items :
                              i # j => new[x].items[i] # new[x].items[j]
        BY DEF NodesFit
    <2>1. CASE x = top
        <3>1. \A i, j \in 1 .. n : i # j => items[i] # items[j]
            BY <1>2, <1>9
        <3> QED
            BY <1>9, <1>11, <1>12, <2>1, <3>1
    <2>2. CASE x = fresh + n
        BY <1>27, <2>2 DEF IsLeaf
    <2>3. CASE x \in copies
        BY <1>15, <2>3 DEF NodesFit
    <2> QED
        BY <2>1, <2>2, <2>3
<1>20. ASSUME NEW x \in copies, NEW c \in Children(new, x)
       PROVE  /\ c \in kept /\ deeper[c] = deeper[x] + 1
              /\ c \in Children(tree, origin(x))
    <2>1. origin(x) \in DOMAIN tree /\ origin(x) # top /\ deeper[x] = depth[origin(x)]
        BY <1>15
    <2>2. c \in Children(tree, origin(x))
        BY <1>18
    <2>3. c \in DOMAIN tree /\ depth[c] = depth[origin(x)] + 1
        BY <2>1, <2>2, ChildFacts
    <2>4. c \notin ToSet(old)
        BY <1>5, <2>1, <2>2
    <2> QED
        BY <1>17, <2>1, <2>2, <2>3, <2>4 DEF kept
<1>21. ASSUME NEW b \in DOMAIN new, NEW x \in Children(new, b)
       PROVE  /\ x \in DOMAIN new /\ deeper[x] = deeper[b] + 1
              /\ \A c \in DOMAIN new : x \in Children(new, c) => b = c
    <2>1. \A c \in DOMAIN new : x \in Children(new, c) =>
             (c = top /\ x \in moved) \/ (c \in copies /\ x \in kept)
        BY <1>13, <1>14, <1>20
    <2>2. x \in moved => x \notin kept
        BY <1>8
    <2>3. CASE b = top
        <3>1. x \in moved
            BY <1>13, <2>3
        <3> QED
            BY <1>8, <1>17, <2>1, <2>2, <2>3, <3>1
    <2>4. CASE b \in copies
        <3>1. x \in kept /\ deeper[x] = deeper[b] + 1 /\ x \in Children(tree, origin(b))
            BY <1>20, <2>4
        <3>2. ASSUME NEW c \in DOMAIN new, x \in Children(new, c)
              PROVE  b = c
            <4>1. c \in copies
                BY <2>1, <2>2, <3>1, <3>2
            <4>2. x \in Children(tree, origin(c))
                BY <1>20, <3>2, <4>1
            <4>3. origin(b) \in DOMAIN tree /\ origin(c) \in DOMAIN tree
                BY <1>15, <2>4, <4>1
            <4>4. origin(b) = origin(c)
                BY <3>1, <4>2, <4>3, ChildFacts
            <4> QED
                BY <1>16, <2>4, <4>1, <4>4
        <3> QED
            BY <1>8, <3>1, <3>2
    <2> QED
        BY <1>14, <2>3, <2>4
<1>22. \E last \in DOMAIN new : \A b \in DOMAIN new : b <= last
    <2>1. \A x \in kept : x <= fresh + n
        BY <1>2, <1>3, <1>8
    <2>2. \A x \in moved : x <= fresh + n
        BY <1>2, <1>3 DEF moved
    <2> QED
        BY <1>8, <1>14, <2>1, <2>2
<1>23. Parser!Root \in kept /\ deeper[Parser!Root] = 1
    <2>1. Parser!Root \in kept
        BY <1>1, <1>5 DEF kept
    <2> QED
        BY <1>1, <1>17, <2>1
<1>24. IsForest(new, deeper)
    BY <1>8, <1>17, <1>21, <1>22, <1>23 DEF IsForest
<1>25. \A x \in DOMAIN tree : x \in DOMAIN new => deeper[x] = depth[x]
    BY <1>8, <1>17
<1> QED
    BY <1>6, <1>8, <1>14, <1>17, <1>19, <1>24, <1>25 DEF Deepened

-----------------------------------------------------------------------------
(* The parser's stack.                                                     *)

\* An entry's link to the value above it: its last element, or the member of
\* its key.
Linked(tree, e, a) ==
    LET parent == tree[e.value] IN
    \/ /\ parent.kind = "array" /\ parent.items # <<>>
       /\ parent.items[Len(parent.items)] = a
    \/ /\ parent.kind = "object"
       /\ e.key \in DOMAIN parent.members /\ parent.members[e.key] = a

\* What StackIsLivePath says of a run, for any tree and stack.
LivePath(tree, st) ==
    \A i \in 1 .. Len(st) :
        /\ st[i].value \in DOMAIN tree
        /\ i = 1 => st[i].value = Parser!Root
        /\ i > 1 => Linked(tree, st[i - 1], st[i].value)

Depths(depth, st) == \A i \in 1 .. Len(st) : depth[st[i].value] = i

\* What ParserLevels says once the document's value was started; the top level
\* may wait for the value of a member.
Nests(open, tree, st, waits) ==
    /\ open \in Seq(Context)
    /\ Len(open) = Len(st) + 1 /\ open[1] = "done"
    /\ \A i \in 1 .. Len(st) :
          LevelFits(open[i + 1], tree[st[i].value].kind, i = Len(st) /\ waits)

\* StackIsLivePath is LivePath while the parser runs.
LEMMA LivePathIs ==
    /\ parents \in Seq(Parser!Entry) =>
         (StackIsLivePath <=>
            parsing # "extra_data" /\ (parsing = "run" => LivePath(heap, parents)))
    /\ parents' \in Seq(Parser!Entry) =>
         (StackIsLivePath' <=>
            parsing' # "extra_data" /\ (parsing' = "run" => LivePath(heap', parents')))
<1>1. \A s \in Seq(Parser!Entry) : DOMAIN s = 1 .. Len(s)
    BY LenProperties
<1>2. \A s : Parser!Last(s) = s[Len(s)]
    BY DEF Parser!Last
<1>3. ASSUME parents \in Seq(Parser!Entry)
      PROVE  StackIsLivePath <=>
                parsing # "extra_data" /\ (parsing = "run" => LivePath(heap, parents))
    BY <1>1, <1>2, <1>3 DEF StackIsLivePath, Parser!StackIsLivePath, LivePath, Linked
<1>4. ASSUME parents' \in Seq(Parser!Entry)
      PROVE  StackIsLivePath' <=>
                parsing' # "extra_data" /\ (parsing' = "run" => LivePath(heap', parents'))
    BY <1>1, <1>2, <1>4 DEF StackIsLivePath, Parser!StackIsLivePath, LivePath, Linked
<1> QED
    BY <1>3, <1>4

\* A value that was read leaves no level waiting.
LEMMA NestsRead ==
    ASSUME NEW tree, NEW st \in Seq(Parser!Entry), st # <<>>, NEW open, Nests(open, tree, st, TRUE),
           NEW kind \in ValueStart, Expects(Last(open), kind),
           NEW new, \A i \in 1 .. Len(st) : new[st[i].value].kind = tree[st[i].value].kind
    PROVE  Nests(WithTop(open, AfterValue[Last(open)]), new, st, FALSE)
<1> DEFINE h == Len(st)
           ctx == AfterValue[Last(open)]
           read == WithTop(open, ctx)
<1>1. h \in Nat \ {0} /\ open \in Seq(Context) /\ Len(open) = h + 1 /\ open[1] = "done"
    BY NonEmpty DEF Nests
<1>2. open # <<>> /\ Last(open) = open[h + 1]
    BY <1>1, EmptySeq, TopFacts
<1>3. LevelFits(open[h + 1], tree[st[h].value].kind, TRUE)
    <2>1. h \in 1 .. Len(st)
        BY <1>1
    <2>2. LevelFits(open[h + 1], tree[st[h].value].kind, h = Len(st) /\ TRUE)
        BY <2>1 DEF Nests
    <2> QED
        BY <2>2 DEF LevelFits
<1>4. ctx \in Context /\ LevelFits(ctx, tree[st[h].value].kind, FALSE)
    BY <1>2, <1>3, AfterValueFacts DEF Expects, LevelFits, ValueStart, Scalars, Context
<1> HIDE DEF ctx
<1>5. /\ read \in Seq(Context) /\ Len(read) = h + 1 /\ read[h + 1] = ctx
      /\ \A i \in 1 .. h : read[i] = open[i]
    BY <1>1, <1>4, WithTopFacts
<1> HIDE DEF read
<1>6. read[1] = "done"
    BY <1>1, <1>5
<1>7. ASSUME NEW i \in 1 .. h
      PROVE  LevelFits(read[i + 1], new[st[i].value].kind, FALSE)
    <2>1. CASE i = h
        BY <1>4, <1>5, <2>1
    <2>2. CASE i # h
        <3>1. i + 1 \in 1 .. h
            BY <1>1, <2>2
        <3>2. LevelFits(open[i + 1], tree[st[i].value].kind, FALSE)
            BY <2>2 DEF Nests
        <3> QED
            BY <1>5, <3>1, <3>2
    <2> QED
        BY <2>1, <2>2
<1> QED
    BY <1>5, <1>6, <1>7 DEF Nests, read, ctx, LevelFits

\* A level that waits for nothing fits where one may wait.
LEMMA NestsWeaken ==
    ASSUME NEW open, NEW tree, NEW st, Nests(open, tree, st, FALSE)
    PROVE  Nests(open, tree, st, TRUE)
BY DEF Nests, LevelFits

\* What is on the parser's stack once an entry is pushed.
LEMMA EntryPushed ==
    ASSUME NEW st \in Seq(Parser!Entry), NEW e \in Parser!Entry
    PROVE  /\ Len(Push(st, e)) = Len(st) + 1 /\ Push(st, e)[Len(st) + 1] = e
           /\ \A i \in 1 .. Len(st) : Push(st, e)[i] = st[i]
BY PushFacts

\* A container is opened on top.
LEMMA NestsPush ==
    ASSUME NEW open, NEW tree, NEW st \in Seq(Parser!Entry), Nests(open, tree, st, FALSE),
           NEW e \in Parser!Entry, NEW ctx \in {"key", "array"},
           tree[e.value].kind = IF ctx = "key" THEN "object" ELSE "array"
    PROVE  Nests(Push(open, ctx), tree, Push(st, e), FALSE)
<1> DEFINE h == Len(st)
           more == Push(open, ctx)
           above == Push(st, e)
<1>1. h \in Nat /\ open \in Seq(Context) /\ Len(open) = h + 1 /\ open[1] = "done"
    BY LenProperties DEF Nests
<1>2. ctx \in Context
    BY DEF Context
<1>3. /\ more \in Seq(Context) /\ Len(more) = h + 2 /\ more[h + 2] = ctx
      /\ \A i \in 1 .. h + 1 : more[i] = open[i]
    BY <1>1, <1>2, PushContext, SMTT(30)
<1>4. /\ Len(above) = h + 1 /\ above[h + 1] = e
      /\ \A i \in 1 .. h : above[i] = st[i]
    BY EntryPushed
<1> HIDE DEF more, above
<1>5. more[1] = "done" /\ Len(more) = Len(above) + 1
    BY <1>1, <1>3, <1>4
<1>6. ASSUME NEW i \in 1 .. h + 1
      PROVE  LevelFits(more[i + 1], tree[above[i].value].kind, FALSE)
    <2>1. CASE i = h + 1
        <3>1. i + 1 = h + 2
            BY <1>1, <2>1
        <3>2. more[i + 1] = ctx /\ above[i] = e
            BY <1>3, <1>4, <2>1, <3>1
        <3> QED
            BY <3>2 DEF LevelFits
    <2>2. CASE i \in 1 .. h
        <3>1. i + 1 \in 1 .. h + 1
            BY <1>1, <2>2
        <3>2. LevelFits(open[i + 1], tree[st[i].value].kind, FALSE)
            BY <2>2 DEF Nests
        <3> QED
            BY <1>3, <1>4, <2>2, <3>1, <3>2
    <2>3. i = h + 1 \/ i \in 1 .. h
        BY <1>1
    <2> QED
        BY <2>1, <2>2, <2>3
<1> QED
    BY <1>3, <1>4, <1>5, <1>6 DEF Nests, more, above

\* A key was read.
LEMMA NestsKey ==
    ASSUME NEW tree, NEW st \in Seq(Parser!Entry), st # <<>>, NEW open, Nests(open, tree, st, TRUE),
           tree[st[Len(st)].value].kind = "object",
           NEW new \in Seq(Parser!Entry), Len(new) = Len(st),
           \A i \in 1 .. Len(st) : new[i].value = st[i].value
    PROVE  Nests(WithTop(open, "value"), tree, new, TRUE)
<1> DEFINE h == Len(st)
           read == WithTop(open, "value")
<1>1. h \in Nat \ {0} /\ open \in Seq(Context) /\ Len(open) = h + 1 /\ open[1] = "done"
    BY NonEmpty DEF Nests
<1>2. "value" \in Context
    BY DEF Context
<1>3. /\ read \in Seq(Context) /\ Len(read) = h + 1 /\ read[h + 1] = "value"
      /\ \A i \in 1 .. h : read[i] = open[i]
    BY <1>1, <1>2, WithTopFacts
<1> HIDE DEF read
<1>4. read[1] = "done"
    BY <1>1, <1>3
<1>5. ASSUME NEW i \in 1 .. h
      PROVE  LevelFits(read[i + 1], tree[new[i].value].kind, i = h)
    <2>1. CASE i = h
        BY <1>3, <2>1 DEF LevelFits
    <2>2. CASE i # h
        <3>1. i + 1 \in 1 .. h
            BY <1>1, <2>2
        <3>2. LevelFits(open[i + 1], tree[st[i].value].kind, FALSE)
            BY <2>2 DEF Nests
        <3> QED
            BY <1>3, <2>2, <3>1, <3>2
    <2> QED
        BY <2>1, <2>2
<1> QED
    BY <1>3, <1>4, <1>5 DEF Nests, read

\* A container is closed.
LEMMA NestsPop ==
    ASSUME NEW tree, NEW st \in Seq(Parser!Entry), st # <<>>, NEW open, Nests(open, tree, st, TRUE)
    PROVE  Nests(Front(open), tree, Front(st), FALSE)
<1>1. PICK h \in Nat : /\ Len(st) = h + 1 /\ Len(Front(st)) = h
                       /\ \A i \in 1 .. h : Front(st)[i] = st[i]
    BY PopFacts
<1>2. open \in Seq(Context) /\ Len(open) = h + 2 /\ open[1] = "done"
    BY <1>1 DEF Nests
<1>3. /\ Front(open) \in Seq(Context) /\ Len(Front(open)) = h + 1
      /\ \A i \in 1 .. h + 1 : Front(open)[i] = open[i]
    <2>1. open # <<>>
        BY <1>1, <1>2, EmptySeq
    <2>2. PICK n \in Nat : /\ Len(open) = n + 1 /\ Front(open) \in Seq(Context)
                           /\ Len(Front(open)) = n
                           /\ \A i \in 1 .. n : Front(open)[i] = open[i]
        BY <1>2, <2>1, PopFacts
    <2>3. n = h + 1
        BY <1>1, <1>2, <2>2
    <2> QED
        BY <2>2, <2>3
<1>4. Front(open)[1] = "done"
    BY <1>1, <1>2, <1>3
<1>5. ASSUME NEW i \in 1 .. h
      PROVE  LevelFits(Front(open)[i + 1], tree[Front(st)[i].value].kind, FALSE)
    <2>1. i \in 1 .. h + 1 /\ i + 1 \in 1 .. h + 1 /\ i # h + 1
        BY <1>1
    <2>2. LevelFits(open[i + 1], tree[st[i].value].kind, FALSE)
        BY <1>1, <2>1 DEF Nests
    <2> QED
        BY <1>1, <1>3, <2>1, <2>2
<1> QED
    BY <1>1, <1>3, <1>4, <1>5 DEF Nests

\* The path, when the value on top got a child at a and nothing under it
\* changed.
LEMMA PathGrows ==
    ASSUME NEW tree, NEW st \in Seq(Parser!Entry), st # <<>>, LivePath(tree, st),
           NEW new, NEW depth, NEW deeper, Depths(depth, st),
           \A i \in 1 .. Len(st) : /\ st[i].value \in DOMAIN new
                                   /\ deeper[st[i].value] = depth[st[i].value]
                                   /\ i # Len(st) => new[st[i].value] = tree[st[i].value],
           NEW a \in Nat, a \in DOMAIN new, deeper[a] = Len(st) + 1,
           Linked(new, st[Len(st)], a)
    PROVE  /\ LivePath(new, st) /\ Depths(deeper, st)
           /\ Parser!Pointer(a) \in Parser!Entry
           /\ LivePath(new, Push(st, Parser!Pointer(a)))
           /\ Depths(deeper, Push(st, Parser!Pointer(a)))
<1> DEFINE h == Len(st)
           e == Parser!Pointer(a)
           above == Push(st, e)
<1>1. h \in Nat \ {0}
    BY NonEmpty
<1>2. e \in Parser!Entry /\ e.value = a
    BY TextAssumption DEF Parser!Pointer, Parser!Entry, Parser!Address
<1> HIDE DEF e
<1>3. /\ Len(above) = h + 1 /\ above[h + 1] = e
      /\ \A i \in 1 .. h : above[i] = st[i]
    BY <1>2, PushFacts
<1> HIDE DEF above
<1>4. ASSUME NEW i \in 1 .. h
      PROVE  /\ st[i].value \in DOMAIN new
             /\ i = 1 => st[i].value = Parser!Root
             /\ i > 1 => Linked(new, st[i - 1], st[i].value)
             /\ deeper[st[i].value] = i
    <2>1. /\ st[i].value \in DOMAIN new
          /\ i = 1 => st[i].value = Parser!Root
          /\ deeper[st[i].value] = i
        BY DEF LivePath, Depths
    <2>2. ASSUME i > 1
          PROVE  Linked(new, st[i - 1], st[i].value)
        <3>1. i - 1 \in 1 .. h /\ i - 1 # h
            BY <1>1, <2>2
        <3>2. new[st[i - 1].value] = tree[st[i - 1].value]
            BY <3>1
        <3>3. Linked(tree, st[i - 1], st[i].value)
            BY <2>2 DEF LivePath
        <3> QED
            BY <3>2, <3>3 DEF Linked
    <2> QED
        BY <2>1, <2>2
<1>5. ASSUME NEW i \in 1 .. h + 1
      PROVE  /\ above[i].value \in DOMAIN new
             /\ i = 1 => above[i].value = Parser!Root
             /\ i > 1 => Linked(new, above[i - 1], above[i].value)
             /\ deeper[above[i].value] = i
    <2>1. CASE i = h + 1
        <3>1. i - 1 = h /\ h \in 1 .. h /\ i # 1
            BY <1>1, <2>1
        <3> QED
            BY <1>2, <1>3, <2>1, <3>1
    <2>2. CASE i \in 1 .. h
        <3>1. i > 1 => i - 1 \in 1 .. h
            BY <1>1, <2>2
        <3> QED
            BY <1>3, <1>4, <2>2, <3>1
    <2> QED
        BY <1>1, <2>1, <2>2
<1> QED
    BY <1>2, <1>3, <1>4, <1>5 DEF LivePath, Depths, e, above

-----------------------------------------------------------------------------
(* The parser's steps.                                                     *)

\* While the parser runs the encoder was not called.
LEMMA Running ==
    ASSUME IInv, parsing = "run"
    PROVE  /\ encoding = "idle" /\ stack = <<>> /\ call = Encoder!NoCall
           /\ input \in Stream /\ started \in BOOLEAN /\ parents \in Seq(Parser!Entry)
           /\ type \in Type
           /\ ~started => input.open = <<"root">> /\ parents = <<Parser!Pointer(Parser!Root)>>
           /\ started => Nests(input.open, heap, parents, TRUE)
           /\ LivePath(heap, parents) /\ NodesFit(heap)
           /\ \E depth \in [DOMAIN heap -> 1 .. MaxStack] :
                 IsForest(heap, depth) /\ Depths(depth, parents)
<1>1. /\ encoding = "idle" /\ stack = <<>> /\ call = Encoder!NoCall
    BY DEF IInv, EncoderTypes
<1>2. /\ input \in Stream /\ started \in BOOLEAN /\ parents \in Seq(Parser!Entry)
      /\ type \in Type
    BY DEF IInv, ParserTypes
<1>3. /\ ~started => input.open = <<"root">> /\ parents = <<Parser!Pointer(Parser!Root)>>
      /\ started =>
           /\ Len(input.open) = Len(parents) + 1 /\ input.open[1] = "done"
           /\ \A i \in 1 .. Len(parents) :
                 LevelFits(input.open[i + 1], heap[parents[i].value].kind, i = Len(parents))
    BY DEF IInv, ParserLevels
<1>4. input.open \in Seq(Context)
    BY <1>2 DEF Stream
<1>5. started => Nests(input.open, heap, parents, TRUE)
    BY <1>3, <1>4 DEF Nests, LevelFits
<1>6. LivePath(heap, parents) /\ NodesFit(heap)
    BY <1>2, LivePathIs DEF IInv
<1>7. \E depth \in [DOMAIN heap -> 1 .. MaxStack] :
          IsForest(heap, depth) /\ Depths(depth, parents)
    BY DEF IInv, ParserDepths, Depths
<1> QED
    BY <1>1, <1>2, <1>3, <1>5, <1>6, <1>7

\* The parser goes on.
LEMMA GoesOn ==
    ASSUME IInv, parsing = "run", UNCHANGED <<type, encoderVars>>,
           parsing' = "run", started' = TRUE, input' \in Stream, parents' \in Seq(Parser!Entry),
           Nests(input'.open, heap', parents', TRUE), LivePath(heap', parents'), NodesFit(heap'),
           NEW depth \in [DOMAIN heap' -> 1 .. MaxStack],
           IsForest(heap', depth), Depths(depth, parents')
    PROVE  IInv'
<1>1. /\ encoding' = "idle" /\ stack' = <<>> /\ call' = Encoder!NoCall /\ type' \in Type
    BY Running DEF encoderVars
<1>2. ParserTypes'
    BY <1>1 DEF ParserTypes, Parser!Status, Parser!Errors
<1>3. ParserLevels'
    <2>1. \A i \in 1 .. Len(parents') :
              LevelFits(input'.open[i + 1], heap'[parents'[i].value].kind, i = Len(parents'))
        BY DEF Nests, LevelFits
    <2> QED
        BY <2>1 DEF ParserLevels, Nests
<1>4. StackIsLivePath'
    BY LivePathIs
<1>5. EncoderTypes' /\ EntriesFitValues'
    BY <1>1 DEF EncoderTypes, EntriesFitValues, Encoder!Status, Encoder!Errors
<1>6. ParserDepths(depth)'
    BY DEF ParserDepths, Depths
<1>7. EncoderDepths(depth)'
    BY <1>1 DEF EncoderDepths, Pending
<1> QED
    BY <1>2, <1>3, <1>4, <1>5, <1>6, <1>7 DEF IInv

\* The parser stops.
LEMMA Stops ==
    ASSUME IInv, parsing = "run", UNCHANGED <<type, encoderVars>>,
           UNCHANGED <<input, heap, started, parents>>,
           parsing' \in Parser!Status \ {"idle", "run", "extra_data"}
    PROVE  IInv'
<1>1. /\ encoding' = "idle" /\ stack' = <<>> /\ call' = Encoder!NoCall /\ type' \in Type
    BY Running DEF encoderVars
<1>2. ParserTypes' /\ ParserLevels'
    BY <1>1, Running DEF ParserTypes, ParserLevels
<1>3. StackIsLivePath'
    BY Running, LivePathIs
<1>4. EncoderTypes' /\ EntriesFitValues'
    BY <1>1 DEF EncoderTypes, EntriesFitValues, Encoder!Status, Encoder!Errors
<1>5. NodesFit(heap')
    BY Running
<1>6. \E depth \in [DOMAIN heap' -> 1 .. MaxStack] :
          IsForest(heap', depth) /\ ParserDepths(depth)' /\ EncoderDepths(depth)'
    BY <1>1, Running DEF ParserDepths, EncoderDepths, Pending
<1> QED
    BY <1>2, <1>3, <1>4, <1>5, <1>6 DEF IInv

\* What the parser has checked when it takes a token.
LEMMA AcceptFacts ==
    ASSUME IInv, NEW kinds, kinds \subseteq TokenKind \ {"error"}, NEW levels,
           Parser!Accepts(kinds, levels)
    PROVE  /\ parsing = "run" /\ parsing' = "run"
           /\ parents # <<>> /\ levels <= MaxStack
           /\ Peek(input).kind \in kinds /\ Peek(input) \in Token
           /\ Expects(Last(input.open), Peek(input).kind)
           /\ input'.open = Advance(input.open, Peek(input).kind)
           /\ input'.open \in Seq(Context) => input' \in Stream
<1>1. /\ parsing = "run" /\ parsing' = "run" /\ parents # <<>> /\ levels <= MaxStack
      /\ Peek(input).kind \in kinds /\ input' = Eat(input)
    BY SameReader DEF Parser!Accepts, Parser!Receives
<1>2. input \in Stream /\ Peek(input).kind # "error"
    BY <1>1, Running
<1> QED
    BY <1>1, <1>2, PeekFacts, EatFacts

\* What a value adds to the contexts and to the stack: a level for a container.
LEMMA ValueGoesOn ==
    ASSUME IInv, UNCHANGED <<type, encoderVars>>,
           NEW levels, Parser!Accepts(ValueStart, levels), started' = TRUE,
           NEW below \in Seq(Parser!Entry), NEW a, Parser!Pointer(a) \in Parser!Entry,
           parents' = Parser!Started(below, a),
           NodesFit(heap'), heap'[a] = Parser!ValueOf(Peek(input)),
           Nests(WithTop(input.open, AfterValue[Last(input.open)]), heap', below, FALSE),
           NEW depth \in [DOMAIN heap' -> 1 .. MaxStack], IsForest(heap', depth),
           LivePath(heap', below), Depths(depth, below),
           LivePath(heap', Push(below, Parser!Pointer(a))),
           Depths(depth, Push(below, Parser!Pointer(a)))
    PROVE  IInv'
<1> DEFINE kind == Peek(input).kind
           read == WithTop(input.open, AfterValue[Last(input.open)])
           e == Parser!Pointer(a)
<1>1. ValueStart \subseteq TokenKind \ {"error"}
    BY DEF ValueStart, Scalars, TokenKind
<1>2. /\ parsing = "run" /\ parsing' = "run"
      /\ kind \in ValueStart /\ Peek(input) \in Token
      /\ input'.open = Advance(input.open, kind)
      /\ input'.open \in Seq(Context) => input' \in Stream
    BY <1>1, AcceptFacts
<1>3. parents' = IF kind \in {"start_object", "start_array"} THEN Push(below, e) ELSE below
    BY SameReader DEF Parser!Started, Parser!IsContainer, Push
<1>4. /\ kind = "start_object" => heap'[a].kind = "object"
      /\ kind = "start_array" => heap'[a].kind = "array"
    BY <1>2, ValueOfFacts
<1>5. e.value = a
    BY DEF Parser!Pointer
<1> HIDE DEF kind, e
<1>6. CASE kind \in Scalars
    <2>1. input'.open = read /\ parents' = below
        BY <1>2, <1>3, <1>6 DEF Advance, Scalars
    <2>2. Nests(input'.open, heap', parents', TRUE)
        BY <2>1, NestsWeaken
    <2>3. input' \in Stream
        BY <1>2, <2>1 DEF Nests
    <2> QED
        BY <1>2, <2>1, <2>2, <2>3, GoesOn
<1>7. CASE kind \in {"start_object", "start_array"}
    <2> DEFINE ctx == Inside(kind)
    <2>1. ctx \in {"key", "array"} /\ heap'[e.value].kind = IF ctx = "key" THEN "object" ELSE "array"
        BY <1>4, <1>5, <1>7 DEF Inside
    <2>2. input'.open = Push(read, ctx) /\ parents' = Push(below, e)
        BY <1>2, <1>3, <1>7 DEF Advance, Scalars, Push
    <2> HIDE DEF ctx, read
    <2>3. Nests(Push(read, ctx), heap', Push(below, e), FALSE)
        BY <2>1, NestsPush DEF read, e
    <2>4. Nests(input'.open, heap', parents', TRUE)
        BY <2>2, <2>3, NestsWeaken
    <2>5. input' \in Stream
        BY <1>2, <2>4 DEF Nests
    <2>6. parents' \in Seq(Parser!Entry)
        BY <2>2, PushFacts DEF e
    <2> QED
        BY <1>2, <2>2, <2>4, <2>5, <2>6, GoesOn DEF e
<1> QED
    BY <1>2, <1>6, <1>7 DEF ValueStart

\* The value of the document.
LEMMA FirstValueKeeps ==
    ASSUME IInv, Parser!FirstValue, UNCHANGED <<type, encoderVars>>
    PROVE  IInv'
<1> DEFINE v == Parser!ValueOf(Peek(input))
           below == Front(parents)
           root == Parser!Root
           read == WithTop(input.open, AfterValue[Last(input.open)])
<1>1. ValueStart \subseteq TokenKind \ {"error"}
    BY DEF ValueStart, Scalars, TokenKind
<1>2. Parser!Accepts(ValueStart, Len(parents)) /\ ~started /\ started' = TRUE
    BY SameReader DEF Parser!FirstValue
<1>3. /\ parsing = "run" /\ Peek(input) \in Token /\ Peek(input).kind \in ValueStart
    BY <1>1, <1>2, AcceptFacts
<1>4. input.open = <<"root">> /\ parents = <<Parser!Pointer(root)>>
      /\ parents \in Seq(Parser!Entry)
    BY <1>2, <1>3, Running
<1>5. Parser!Top.value = root
    BY <1>4, SameReader DEF Last, Parser!Pointer
<1>6. IsLeaf(v)
    BY <1>3, ValueOfFacts
<1>7. PICK depth \in [DOMAIN heap -> 1 .. MaxStack] : IsForest(heap, depth)
    BY <1>3, Running
<1>8. NodesFit(heap) /\ root \in DOMAIN heap /\ depth[root] = 1
    BY <1>3, <1>7, Running DEF IsForest
<1> HIDE DEF v, root
<1>9. heap' = [heap EXCEPT ![root] = v]
    BY <1>5, SameReader DEF Parser!FirstValue, v
<1>10. DOMAIN heap' = DOMAIN heap /\ heap'[root] = v /\ \A b \in DOMAIN heap : b # root => heap'[b] = heap[b]
    BY <1>8, <1>9
<1>11. NodesFit(heap') /\ IsForest(heap', depth)
    BY <1>6, <1>7, <1>8, <1>10, OverwriteFacts
<1>12. below \in Seq(Parser!Entry) /\ Len(below) = 0
    <2>1. Len(parents) = 1 /\ parents # <<>>
        BY <1>4
    <2>2. PICK h \in Nat : Len(parents) = h + 1 /\ below \in Seq(Parser!Entry) /\ Len(below) = h
        BY <1>4, <2>1, PopFacts
    <2> QED
        BY <2>1, <2>2
<1>13. parents' = Parser!Started(below, root)
    BY <1>5, SameReader DEF Parser!FirstValue
<1> HIDE DEF below
<1>14. Parser!Pointer(root) \in Parser!Entry
    BY TextAssumption DEF Parser!Pointer, Parser!Entry, Parser!Address, root, Parser!Root
<1>15. Nests(read, heap', below, FALSE)
    <2>1. input.open \in Seq(Context) /\ Len(input.open) = 1 /\ Last(input.open) = "root"
        BY <1>4 DEF Last, Context
    <2>2. "done" \in Context /\ AfterValue["root"] = "done"
        BY AfterValueFacts DEF Context
    <2>3. \A h \in Nat : Len(input.open) = h + 1 =>
              /\ WithTop(input.open, "done") \in Seq(Context)
              /\ Len(WithTop(input.open, "done")) = h + 1
              /\ WithTop(input.open, "done")[h + 1] = "done"
        BY <2>1, <2>2, WithTopFacts
    <2>4. read = WithTop(input.open, "done")
        BY <2>1, <2>2
    <2> HIDE DEF read
    <2> QED
        BY <1>12, <2>1, <2>3, <2>4 DEF Nests
<1>16. LivePath(heap', below) /\ Depths(depth, below)
    BY <1>12 DEF LivePath, Depths
<1>17. LivePath(heap', Push(below, Parser!Pointer(root))) /\ Depths(depth, Push(below, Parser!Pointer(root)))
    <2> DEFINE e == Parser!Pointer(root)
               above == Push(below, e)
    <2>3. Len(above) = Len(below) + 1 /\ above[Len(below) + 1] = e
        BY <1>12, <1>14, PushFacts
    <2> HIDE DEF e, above
    <2>1. Len(above) = 1 /\ above[1] = e
        BY <1>12, <2>3
    <2>2. e.value = root
        BY DEF Parser!Pointer, e
    <2> QED
        BY <1>8, <1>10, <2>1, <2>2 DEF LivePath, Depths, root, e, above
<1> QED
    BY <1>2, <1>7, <1>10, <1>11, <1>12, <1>13, <1>14, <1>15, <1>16, <1>17, ValueGoesOn DEF v

\* A key is kept with the object on top.
LEMMA KeyKeeps ==
    ASSUME IInv, Parser!Key, UNCHANGED <<type, encoderVars>>
    PROVE  IInv'
<1> DEFINE h == Len(parents)
           e == [parents[h] EXCEPT !.key = Peek(input).text]
<1>1. {"key"} \subseteq TokenKind \ {"error"}
    BY DEF ValueStart, Scalars, TokenKind
<1>2. Parser!Accepts({"key"}, h) /\ UNCHANGED <<heap, started>>
    BY DEF Parser!Key
<1>3. /\ parsing = "run" /\ parsing' = "run" /\ parents # <<>>
      /\ Peek(input) \in Token /\ Peek(input).kind = "key"
      /\ Expects(Last(input.open), "key")
      /\ input'.open = Advance(input.open, "key")
      /\ input'.open \in Seq(Context) => input' \in Stream
    <2>1. /\ parsing = "run" /\ parsing' = "run" /\ parents # <<>>
          /\ Peek(input) \in Token /\ Peek(input).kind \in {"key"}
          /\ Expects(Last(input.open), Peek(input).kind)
          /\ input'.open = Advance(input.open, Peek(input).kind)
          /\ input'.open \in Seq(Context) => input' \in Stream
        BY <1>1, <1>2, AcceptFacts
    <2>2. Peek(input).kind = "key"
        BY <2>1
    <2> QED
        BY <2>1, <2>2
<1>4. parents \in Seq(Parser!Entry) /\ started \in BOOLEAN
    BY <1>3, Running
<1>5. started = TRUE
    <2>1. input.open = <<"root">> => Last(input.open) = "root"
        BY DEF Last
    <2>2. ~Expects("root", "key")
        BY DEF Expects, ValueStart, Scalars
    <2> QED
        BY <1>3, <1>4, <2>1, <2>2, Running
<1>6. Nests(input.open, heap, parents, TRUE)
    BY <1>3, <1>5, Running
<1>7. h \in Nat \ {0} /\ Last(parents) = parents[h] /\ parents[h] \in Parser!Entry
    BY <1>3, <1>4, NonEmpty, TopFacts
<1>8. heap[parents[h].value].kind = "object"
    BY <1>7, SameReader DEF Parser!Key
<1>9. e \in Parser!Entry /\ e.value = parents[h].value
    BY <1>3, <1>7 DEF Parser!Entry, Token
<1>10. parents' = [parents EXCEPT ![h] = e]
    BY SameReader DEF Parser!Key
<1> HIDE DEF e
<1>11. /\ parents' \in Seq(Parser!Entry) /\ Len(parents') = h
       /\ \A i \in 1 .. h : parents'[i] = IF i = h THEN e ELSE parents[i]
    BY <1>3, <1>4, <1>9, <1>10, ReplaceFacts
<1>12. \A i \in 1 .. h : parents'[i].value = parents[i].value
    BY <1>9, <1>11
<1>13. Nests(WithTop(input.open, "value"), heap, parents', TRUE)
    BY <1>3, <1>4, <1>6, <1>8, <1>11, <1>12, NestsKey
<1>14. input'.open = WithTop(input.open, "value")
    BY <1>3 DEF Advance, Scalars
<1>15. input' \in Stream
    BY <1>3, <1>13, <1>14 DEF Nests
<1>16. LivePath(heap, parents')
    <2> SUFFICES ASSUME NEW i \in 1 .. h
                 PROVE  /\ parents'[i].value \in DOMAIN heap
                        /\ i = 1 => parents'[i].value = Parser!Root
                        /\ i > 1 => Linked(heap, parents'[i - 1], parents'[i].value)
        BY <1>11 DEF LivePath
    <2>1. /\ parents[i].value \in DOMAIN heap
          /\ i = 1 => parents[i].value = Parser!Root
          /\ i > 1 => Linked(heap, parents[i - 1], parents[i].value)
        BY <1>3, Running DEF LivePath
    <2>2. i > 1 => i - 1 \in 1 .. h /\ i - 1 # h
        BY <1>7
    <2> QED
        BY <1>11, <1>12, <2>1, <2>2
<1>17. PICK depth \in [DOMAIN heap -> 1 .. MaxStack] : IsForest(heap, depth) /\ Depths(depth, parents)
    BY <1>3, Running
<1>18. Depths(depth, parents')
    BY <1>11, <1>12, <1>17 DEF Depths
<1> QED
    BY <1>2, <1>3, <1>5, <1>11, <1>13, <1>14, <1>15, <1>16, <1>17, <1>18, Running, GoesOn

\* A container is closed.
LEMMA EndContainerKeeps ==
    ASSUME IInv, Parser!EndContainer, UNCHANGED <<type, encoderVars>>
    PROVE  IInv'
<1> DEFINE ends == {"end_object", "end_array"}
<1>1. ends \subseteq TokenKind \ {"error"}
    BY DEF TokenKind
<1>2. Parser!Accepts(ends, Len(parents)) /\ UNCHANGED <<heap, started>> /\ parents' = Front(parents)
    BY SameReader DEF Parser!EndContainer
<1>3. /\ parsing = "run" /\ parsing' = "run" /\ parents # <<>>
      /\ Peek(input).kind \in ends
      /\ Expects(Last(input.open), Peek(input).kind)
      /\ input'.open = Advance(input.open, Peek(input).kind)
      /\ input'.open \in Seq(Context) => input' \in Stream
    BY <1>1, <1>2, AcceptFacts
<1>4. parents \in Seq(Parser!Entry) /\ started \in BOOLEAN
    BY <1>3, Running
<1>5. started = TRUE
    <2>1. input.open = <<"root">> => Last(input.open) = "root"
        BY DEF Last
    <2>2. \A kind \in ends : ~Expects("root", kind)
        BY DEF Expects, ValueStart, Scalars
    <2> QED
        BY <1>3, <1>4, <2>1, <2>2, Running
<1>6. Nests(input.open, heap, parents, TRUE)
    BY <1>3, <1>5, Running
<1>7. input'.open = Front(input.open)
    BY <1>3 DEF Advance, Scalars
<1>8. Nests(Front(input.open), heap, Front(parents), FALSE)
    BY <1>3, <1>4, <1>6, NestsPop
<1>9. Nests(input'.open, heap, parents', TRUE)
    BY <1>2, <1>7, <1>8, NestsWeaken
<1>10. input' \in Stream
    BY <1>3, <1>9 DEF Nests
<1>11. PICK h \in Nat : /\ Len(parents) = h + 1 /\ Front(parents) \in Seq(Parser!Entry)
                        /\ Len(Front(parents)) = h
                        /\ \A i \in 1 .. h : Front(parents)[i] = parents[i]
    BY <1>3, <1>4, PopFacts
<1>12. /\ parents' \in Seq(Parser!Entry) /\ Len(parents') = h
       /\ \A i \in 1 .. h : parents'[i] = parents[i] /\ i \in 1 .. Len(parents)
    BY <1>2, <1>11
<1>13. LivePath(heap, parents')
    <2> SUFFICES ASSUME NEW i \in 1 .. h
                 PROVE  /\ parents'[i].value \in DOMAIN heap
                        /\ i = 1 => parents'[i].value = Parser!Root
                        /\ i > 1 => Linked(heap, parents'[i - 1], parents'[i].value)
        BY <1>12 DEF LivePath
    <2>1. /\ parents[i].value \in DOMAIN heap
          /\ i = 1 => parents[i].value = Parser!Root
          /\ i > 1 => Linked(heap, parents[i - 1], parents[i].value)
        BY <1>3, <1>12, Running DEF LivePath
    <2>2. i > 1 => i - 1 \in 1 .. h
        BY <1>11
    <2> QED
        BY <1>12, <2>1, <2>2
<1>14. PICK depth \in [DOMAIN heap -> 1 .. MaxStack] : IsForest(heap, depth) /\ Depths(depth, parents)
    BY <1>3, Running
<1>15. Depths(depth, parents')
    BY <1>12, <1>14 DEF Depths
<1> QED
    BY <1>2, <1>3, <1>5, <1>9, <1>10, <1>12, <1>13, <1>14, <1>15, Running, GoesOn

\* The document ends where the tree does: "extra data" is never met, and every
\* value on the stack is a container.
LEMMA RefuseKeeps ==
    ASSUME IInv, Parser!Refuse, UNCHANGED <<type, encoderVars>>
    PROVE  IInv'
<1>1. /\ parsing = "run" /\ ~Complete(input) /\ UNCHANGED <<input, heap, started, parents>>
    BY SameReader DEF Parser!Refuse, Parser!Receives, Parser!Fail
<1>2. parents \in Seq(Parser!Entry) /\ started \in BOOLEAN
    BY <1>1, Running
<1>3. parents # <<>>
    <2> SUFFICES ASSUME parents = <<>> PROVE FALSE
        OBVIOUS
    <2>1. Len(parents) = 0 /\ parents # <<Parser!Pointer(Parser!Root)>>
        OBVIOUS
    <2>2. started = TRUE
        BY <1>1, <1>2, <2>1, Running
    <2>3. input.open \in Seq(Context) /\ Len(input.open) = 1 /\ input.open[1] = "done"
        BY <1>1, <2>1, <2>2, Running DEF Nests
    <2>4. input.open = <<"done">>
        BY <2>3, OneEntry
    <2> QED
        BY <1>1, <2>4 DEF Complete
<1>4. started => heap[Last(parents).value].kind \in {"object", "array"}
    <2> SUFFICES ASSUME started PROVE heap[Last(parents).value].kind \in {"object", "array"}
        OBVIOUS
    <2> DEFINE h == Len(parents)
    <2>1. h \in Nat \ {0} /\ Last(parents) = parents[h]
        BY <1>2, <1>3, NonEmpty, TopFacts
    <2>2. h \in 1 .. Len(parents)
        BY <2>1
    <2>3. LevelFits(input.open[h + 1], heap[parents[h].value].kind, h = Len(parents) /\ TRUE)
        BY <1>1, <2>2, Running DEF Nests
    <2> QED
        BY <2>1, <2>3 DEF LevelFits
<1>5. parsing' = "recursion_limit_reached"
    BY <1>3, <1>4, SameReader DEF Parser!Refuse, Parser!Fail
<1> QED
    BY <1>1, <1>5, Stops DEF Parser!Status, Parser!Errors

\* A syntax error, and the end of the document.
LEMMA StopKeeps ==
    ASSUME IInv, Parser!SyntaxFails \/ Parser!Parsed, UNCHANGED <<type, encoderVars>>
    PROVE  IInv'
BY Stops DEF Parser!SyntaxFails, Parser!Parsed, Parser!Receives, Parser!Fail, Parser!Status,
   Parser!Errors

\* What holds when the value on top gets a child.
LEMMA ChildStarts ==
    ASSUME IInv, started, Parser!Accepts(ValueStart, Len(parents) + 1)
    PROVE  /\ parsing = "run" /\ parents \in Seq(Parser!Entry) /\ parents # <<>>
           /\ Parser!Top = parents[Len(parents)] /\ Parser!Top \in Parser!Entry
           /\ Len(parents) \in 1 .. Len(parents)
           /\ Len(parents) \in Nat \ {0} /\ Len(parents) + 1 <= MaxStack
           /\ Parser!Top.value \in DOMAIN heap
           /\ IsLeaf(Parser!ValueOf(Peek(input)))
           /\ Nests(input.open, heap, parents, TRUE)
           /\ Peek(input).kind \in ValueStart
           /\ Expects(Last(input.open), Peek(input).kind)
<1>1. ValueStart \subseteq TokenKind \ {"error"}
    BY DEF ValueStart, Scalars, TokenKind
<1>2. /\ parsing = "run" /\ parents # <<>> /\ Len(parents) + 1 <= MaxStack
      /\ Peek(input) \in Token /\ Peek(input).kind \in ValueStart
      /\ Expects(Last(input.open), Peek(input).kind)
    BY <1>1, AcceptFacts
<1>3. parents \in Seq(Parser!Entry) /\ Nests(input.open, heap, parents, TRUE) /\ LivePath(heap, parents)
    BY <1>2, Running
<1>4. Parser!Top = parents[Len(parents)] /\ Parser!Top \in Parser!Entry
    BY <1>2, <1>3, TopFacts, SameReader
<1>5. Len(parents) \in Nat \ {0} /\ Len(parents) \in 1 .. Len(parents)
    BY <1>2, <1>3, NonEmpty
<1>6. Parser!Top.value \in DOMAIN heap
    BY <1>3, <1>4, <1>5 DEF LivePath
<1> QED
    BY <1>2, <1>3, <1>4, <1>5, <1>6, ValueOfFacts

\* The child is put at a, and nothing else on the path changed.
LEMMA ChildGoesOn ==
    ASSUME IInv, UNCHANGED <<type, encoderVars>>,
           started, Parser!Accepts(ValueStart, Len(parents) + 1), started' = started,
           NEW a \in Nat, parents' = Parser!Started(parents, a),
           a \in DOMAIN heap', heap'[a] = Parser!ValueOf(Peek(input)), NodesFit(heap'),
           NEW depth, Depths(depth, parents),
           NEW deeper \in [DOMAIN heap' -> 1 .. MaxStack], IsForest(heap', deeper),
           deeper[a] = Len(parents) + 1,
           heap'[Parser!Top.value].kind = heap[Parser!Top.value].kind,
           Linked(heap', Parser!Top, a),
           \A i \in 1 .. Len(parents) :
               /\ parents[i].value \in DOMAIN heap'
               /\ deeper[parents[i].value] = depth[parents[i].value]
               /\ i # Len(parents) => heap'[parents[i].value] = heap[parents[i].value]
    PROVE  IInv'
<1> DEFINE e == Parser!Pointer(a)
<1>1. /\ parsing = "run" /\ parents \in Seq(Parser!Entry) /\ parents # <<>>
      /\ Parser!Top = parents[Len(parents)]
      /\ Nests(input.open, heap, parents, TRUE)
      /\ Peek(input).kind \in ValueStart
      /\ Expects(Last(input.open), Peek(input).kind)
    BY ChildStarts
<1>2. LivePath(heap, parents)
    BY <1>1, Running
<1>3. /\ LivePath(heap', parents) /\ Depths(deeper, parents) /\ e \in Parser!Entry
      /\ LivePath(heap', Push(parents, e)) /\ Depths(deeper, Push(parents, e))
    BY <1>1, <1>2, PathGrows, SMTT(60)
<1>4. \A i \in 1 .. Len(parents) : heap'[parents[i].value].kind = heap[parents[i].value].kind
    BY <1>1
<1>5. Nests(WithTop(input.open, AfterValue[Last(input.open)]), heap', parents, FALSE)
    BY <1>1, <1>4, NestsRead
<1>6. started' = TRUE
    BY <1>1, Running
<1> QED
    BY <1>1, <1>3, <1>5, <1>6, ValueGoesOn

\* A member is added, or the one of that key replaced.
LEMMA MemberValueKeeps ==
    ASSUME IInv, Parser!MemberValue, UNCHANGED <<type, encoderVars>>
    PROVE  IInv'
<1> DEFINE h == Len(parents)
           top == Parser!Top.value
           key == Parser!Top.key
           obj == heap[top].members
           fresh == Max(DOMAIN heap)
           a == IF key \in DOMAIN obj THEN obj[key] ELSE fresh + 1
           v == Parser!ValueOf(Peek(input))
<1>1. /\ started /\ started' = started
      /\ Parser!Accepts(ValueStart, h + 1)
      /\ heap[top].kind = "object"
      /\ heap' = Parser!Put([heap EXCEPT ![top].members = Parser!Put(obj, key, a)], a, v)
      /\ parents' = Parser!Started(parents, a)
    BY SameReader DEF Parser!MemberValue
<1>2. /\ parsing = "run" /\ parents \in Seq(Parser!Entry)
      /\ Parser!Top = parents[h] /\ Parser!Top \in Parser!Entry
      /\ h \in 1 .. h /\ h \in Nat \ {0} /\ h + 1 <= MaxStack
      /\ top \in DOMAIN heap /\ IsLeaf(v)
    BY <1>1, ChildStarts
<1>3. key \in Text /\ NodesFit(heap) /\ LivePath(heap, parents)
    BY <1>2, Running DEF Parser!Entry
<1>4. PICK depth \in [DOMAIN heap -> 1 .. MaxStack] : IsForest(heap, depth) /\ Depths(depth, parents)
    BY <1>2, Running
<1>5. fresh \in Nat /\ \A x \in DOMAIN heap : x \in Nat /\ x <= fresh
    BY <1>4, FreshFacts
<1>6. depth[top] = h
    BY <1>2, <1>4 DEF Depths
<1> HIDE DEF fresh
<1>7. a \in Nat /\ (a \notin DOMAIN heap \/ a \in Children(heap, top))
    <2>1. CASE key \in DOMAIN obj
        <3>1. a \in Children(heap, top)
            BY <2>1 DEF Children
        <3>2. a \in DOMAIN heap
            BY <1>2, <1>4, <3>1, ChildFacts
        <3> QED
            BY <1>5, <3>1, <3>2
    <2>2. CASE key \notin DOMAIN obj
        <3>1. a = fresh + 1
            BY <2>2
        <3> HIDE DEF a
        <3>2. a \in Nat /\ a \notin DOMAIN heap
            BY <1>5, <3>1
        <3> QED
            BY <3>2
    <2> QED
        BY <2>1, <2>2
<1>8. a # top /\ (a \in DOMAIN heap => depth[a] = h + 1)
    BY <1>2, <1>4, <1>6, <1>7, ChildFacts
<1> HIDE DEF a, v, top, key, obj
<1>9. /\ DOMAIN heap' = DOMAIN heap \cup {a} /\ heap'[a] = v
      /\ heap'[top] = [heap[top] EXCEPT !.members = Parser!Put(heap[top].members, key, a)]
      /\ \A b \in DOMAIN heap : b # a /\ b # top => heap'[b] = heap[b]
    BY <1>1, <1>2, <1>8 DEF Parser!Put, obj
<1> DEFINE members == Parser!Put(heap[top].members, key, a)
<1>15. heap'[top] = [kind |-> "object", text |-> heap[top].text, members |-> members, items |-> <<>>]
    <2> HIDE DEF members
    <2>1. /\ heap[top] = [kind |-> heap[top].kind, text |-> heap[top].text,
                          members |-> heap[top].members, items |-> heap[top].items]
          /\ heap[top].items = <<>>
        BY <1>1, <1>2, <1>3 DEF NodesFit, Parser!IsNode
    <2>2. heap'[top] = [heap[top] EXCEPT !.members = members]
        BY <1>9 DEF members
    <2> QED
        BY <1>1, <2>1, <2>2
<1>10. heap'[top].kind = "object" /\ key \in DOMAIN heap'[top].members /\ heap'[top].members[key] = a
    <2>1. key \in DOMAIN members /\ members[key] = a
        BY DEF Parser!Put
    <2> HIDE DEF members
    <2> QED
        BY <1>15, <2>1
<1>11. NodesFit(heap') /\ Deepened(heap, depth, heap', a, depth[top] + 1)
    <2>1. /\ NodesFit(heap) /\ IsForest(heap, depth) /\ MaxStack \in Nat
          /\ top \in DOMAIN heap /\ heap[top].kind = "object" /\ depth[top] + 1 <= MaxStack
          /\ key \in Text /\ a \in Nat /\ (a \notin DOMAIN heap \/ a \in Children(heap, top))
          /\ IsLeaf(v)
        BY <1>1, <1>2, <1>3, <1>4, <1>6, <1>7, MaxStackAssumption DEF top, v
    <2>2. MemberPut(heap, heap', top, key, a, v)
        BY <1>9, <1>15 DEF MemberPut
    <2> QED
        BY <2>1, <2>2, MemberForest
<1>12. PICK deeper \in [DOMAIN heap' -> 1 .. MaxStack] :
           /\ IsForest(heap', deeper) /\ deeper[a] = h + 1
           /\ \A x \in DOMAIN heap : deeper[x] = depth[x]
    BY <1>6, <1>9, <1>11 DEF Deepened
<1>13. \A i \in 1 .. h :
           /\ parents[i].value \in DOMAIN heap'
           /\ deeper[parents[i].value] = depth[parents[i].value]
           /\ i # h => heap'[parents[i].value] = heap[parents[i].value]
    <2> SUFFICES ASSUME NEW i \in 1 .. h
                 PROVE  /\ parents[i].value \in DOMAIN heap
                        /\ i # h => parents[i].value # a /\ parents[i].value # top
        BY <1>9, <1>12
    <2>1. parents[i].value \in DOMAIN heap /\ depth[parents[i].value] = i
        BY <1>3, <1>4 DEF LivePath, Depths
    <2>2. i # h + 1
        BY <1>2
    <2> QED
        BY <1>6, <1>8, <2>1, <2>2
<1>14. Linked(heap', Parser!Top, a) /\ heap'[Parser!Top.value].kind = heap[Parser!Top.value].kind
    BY <1>1, <1>10 DEF Linked, top, key
<1> QED
    <2>1. /\ started /\ started' = started /\ Parser!Accepts(ValueStart, h + 1)
          /\ parents' = Parser!Started(parents, a) /\ a \in Nat
          /\ a \in DOMAIN heap' /\ heap'[a] = Parser!ValueOf(Peek(input)) /\ NodesFit(heap')
        BY <1>1, <1>7, <1>9, <1>11 DEF v
    <2> QED
        BY <1>4, <1>12, <1>13, <1>14, <2>1, ChildGoesOn

\* An element is added, and the others move.
LEMMA ElementKeeps ==
    ASSUME IInv, Parser!Element, UNCHANGED <<type, encoderVars>>
    PROVE  IInv'
<1> DEFINE h == Len(parents)
           top == Parser!Top.value
           old == heap[top].items
           n == Len(old) + 1
           fresh == Max(DOMAIN heap)
           items == [i \in 1 .. n |-> fresh + i]
           v == Parser!ValueOf(Peek(input))
           stays == [heap EXCEPT ![top].items = items]
           a == fresh + n
<1>1. /\ started /\ started' = started
      /\ Parser!Accepts(ValueStart, h + 1)
      /\ heap[top].kind = "array"
      /\ parents' = Parser!Started(parents, a)
      /\ heap' = [x \in (DOMAIN heap \ ToSet(old)) \cup fresh + 1 .. fresh + n |->
                     IF x <= fresh THEN stays[x]
                     ELSE IF x < fresh + n THEN heap[old[x - fresh]] ELSE v]
    BY SameReader DEF Parser!Element, Parser!BackOf
<1>2. /\ parsing = "run" /\ parents \in Seq(Parser!Entry)
      /\ Parser!Top = parents[h] /\ Parser!Top \in Parser!Entry
      /\ h \in 1 .. h /\ h \in Nat \ {0} /\ h + 1 <= MaxStack
      /\ top \in DOMAIN heap /\ IsLeaf(v)
    BY <1>1, ChildStarts
<1>3. NodesFit(heap) /\ LivePath(heap, parents)
    BY <1>2, Running
<1>4. PICK depth \in [DOMAIN heap -> 1 .. MaxStack] : IsForest(heap, depth) /\ Depths(depth, parents)
    BY <1>2, Running
<1>5. fresh \in Nat /\ \A x \in DOMAIN heap : x \in Nat /\ x <= fresh
    BY <1>4, FreshFacts
<1>6. depth[top] = h
    BY <1>2, <1>4 DEF Depths
<1>7. /\ old \in Seq(Nat) /\ Len(old) \in Nat /\ n \in Nat \ {0} /\ a \in Nat
      /\ heap[top] = [kind |-> heap[top].kind, text |-> heap[top].text,
                      members |-> heap[top].members, items |-> heap[top].items]
    <2>1. old \in Seq(Nat) /\ heap[top] = [kind |-> heap[top].kind, text |-> heap[top].text,
                      members |-> heap[top].members, items |-> heap[top].items]
        BY <1>2, <1>3 DEF NodesFit, Parser!IsNode, Parser!Address
    <2>2. Len(old) \in Nat
        BY <2>1, LenProperties
    <2> QED
        BY <1>5, <2>1, <2>2
<1>8. top \notin ToSet(old)
    <2>1. ToSet(old) \subseteq Children(heap, top)
        BY DEF ToSet, Children
    <2> QED
        BY <1>2, <1>4, <2>1, ChildFacts
<1> HIDE DEF top, old, n, fresh, v
<1>9. ElementPut(heap, heap', top, old, fresh, v)
    <2>1. DOMAIN heap' = (DOMAIN heap \ ToSet(old)) \cup fresh + 1 .. fresh + Len(old) + 1
        <3>1. fresh + n = fresh + Len(old) + 1
            BY <1>5, <1>7 DEF n
        <3> QED
            BY <1>1, <3>1
    <2>2. heap'[top] = [kind |-> "array", text |-> heap[top].text, members |-> heap[top].members,
                        items |-> [i \in 1 .. Len(old) + 1 |-> fresh + i]]
        <3>1. heap'[top] = stays[top]
            BY <1>1, <1>2, <1>5, <1>8
        <3>2. stays[top] = [heap[top] EXCEPT !.items = items]
            BY <1>2
        <3> HIDE DEF stays, items
        <3>3. stays[top] = [kind |-> "array", text |-> heap[top].text,
                            members |-> heap[top].members, items |-> items]
            BY <1>1, <1>7, <3>2
        <3> QED
            BY <3>1, <3>3 DEF items, n
    <2>3. ASSUME NEW x \in DOMAIN heap \ ToSet(old), x # top
          PROVE  heap'[x] = heap[x]
        <3>1. heap'[x] = stays[x]
            BY <1>1, <1>5
        <3> QED
            BY <2>3, <3>1
    <2>4. ASSUME NEW i \in 1 .. Len(old)
          PROVE  heap'[fresh + i] = heap[old[i]]
        <3>1. /\ fresh + i \in fresh + 1 .. fresh + n /\ ~(fresh + i <= fresh)
              /\ fresh + i < fresh + n /\ (fresh + i) - fresh = i
            BY <1>5, <1>7 DEF n
        <3> QED
            BY <1>1, <3>1
    <2>5. heap'[fresh + Len(old) + 1] = v
        <3>1. /\ fresh + Len(old) + 1 = fresh + n /\ fresh + n \in fresh + 1 .. fresh + n
              /\ ~(fresh + n <= fresh) /\ ~(fresh + n < fresh + n)
            BY <1>5, <1>7 DEF n
        <3> QED
            BY <1>1, <3>1
    <2> QED
        BY <2>1, <2>2, <2>3, <2>4, <2>5 DEF ElementPut
<1>10. /\ NodesFit(heap')
       /\ \A x \in DOMAIN heap : depth[x] <= depth[top] => x \in DOMAIN heap'
       /\ a \in DOMAIN heap'
       /\ Deepened(heap, depth, heap', a, depth[top] + 1)
    <2>1. /\ NodesFit(heap) /\ IsForest(heap, depth) /\ MaxStack \in Nat
          /\ top \in DOMAIN heap /\ heap[top].kind = "array" /\ depth[top] + 1 <= MaxStack
          /\ fresh = Max(DOMAIN heap) /\ old = heap[top].items /\ n = Len(old) + 1 /\ IsLeaf(v)
        BY <1>1, <1>2, <1>3, <1>4, <1>6, MaxStackAssumption DEF top, old, n, fresh, v
    <2> QED
        BY <1>9, <2>1, ElementForest
<1>11. PICK deeper \in [DOMAIN heap' -> 1 .. MaxStack] :
           /\ IsForest(heap', deeper) /\ deeper[a] = h + 1
           /\ \A x \in DOMAIN heap : x \in DOMAIN heap' => deeper[x] = depth[x]
    BY <1>6, <1>10 DEF Deepened
<1>12. \A i \in 1 .. h :
           /\ parents[i].value \in DOMAIN heap'
           /\ deeper[parents[i].value] = depth[parents[i].value]
           /\ i # h => heap'[parents[i].value] = heap[parents[i].value]
    <2> SUFFICES ASSUME NEW i \in 1 .. h
                 PROVE  /\ parents[i].value \in DOMAIN heap'
                        /\ deeper[parents[i].value] = depth[parents[i].value]
                        /\ i # h => heap'[parents[i].value] = heap[parents[i].value]
        OBVIOUS
    <2>1. parents[i].value \in DOMAIN heap /\ depth[parents[i].value] = i
        BY <1>3, <1>4 DEF LivePath, Depths
    <2>2. i <= h /\ i # h + 1
        BY <1>2
    <2>3. parents[i].value \in DOMAIN heap'
        BY <1>6, <1>10, <2>1, <2>2
    <2>4. parents[i].value \notin ToSet(old)
        <3>1. ToSet(old) \subseteq Children(heap, top)
            BY DEF ToSet, Children, old
        <3> QED
            BY <1>2, <1>4, <1>6, <2>1, <2>2, <3>1, ChildFacts DEF top
    <2>5. i # h => heap'[parents[i].value] = heap[parents[i].value]
        BY <1>6, <1>9, <2>1, <2>4 DEF ElementPut
    <2> QED
        BY <1>11, <2>1, <2>3, <2>5
<1>13. Linked(heap', Parser!Top, a) /\ heap'[Parser!Top.value].kind = heap[Parser!Top.value].kind
    <2>1. heap'[top].kind = "array" /\ heap'[top].items = items
        BY <1>9 DEF ElementPut, n
    <2>2. items \in Seq(Nat) /\ Len(items) = n /\ items[n] = a
        BY <1>5, <1>7
    <2> HIDE DEF items
    <2>3. items # <<>>
        BY <1>7, <2>2
    <2> QED
        BY <1>1, <2>1, <2>2, <2>3 DEF Linked, top
<1>14. /\ started /\ started' = started /\ Parser!Accepts(ValueStart, h + 1)
       /\ parents' = Parser!Started(parents, a) /\ a \in Nat
       /\ a \in DOMAIN heap' /\ heap'[a] = Parser!ValueOf(Peek(input)) /\ NodesFit(heap')
    <2>1. heap'[fresh + Len(old) + 1] = v /\ fresh + Len(old) + 1 = a
        BY <1>5, <1>7, <1>9 DEF ElementPut, n
    <2> QED
        BY <1>1, <1>7, <1>10, <2>1 DEF v
<1> HIDE DEF a
<1> QED
    BY <1>4, <1>11, <1>12, <1>13, <1>14, ChildGoesOn

-----------------------------------------------------------------------------
(* The encoder's stack.                                                    *)

\* Its stack operations are the usual ones.
LEMMA SameStack ==
    /\ \A s : Encoder!Last(s) = Last(s)
    /\ \A s : Encoder!Front(s) = Front(s)
    /\ Encoder!Top = Last(stack)
BY DEF Encoder!Last, Last, Encoder!Front, Front, Encoder!Top

Serializers == {"object", "array", "variant"}

\* An entry at level i.
EntryOk(depth, e, i) ==
    /\ e \in Encoder!Entry /\ Ser[e.type] \in Serializers
    /\ EntryFitsValue(e) /\ depth[e.value] = i
Entries(depth, st) ==
    st \in Seq(Encoder!Entry) /\ \A i \in 1 .. Len(st) : EntryOk(depth, st[i], i)

\* The value a serializer is about to be started on is one level above.
Called(depth, st, c, a) == c # Encoder!NoCall => a \in DOMAIN heap /\ depth[a] = Len(st) + 1

\* The entry on top, and the height.
LEMMA EntriesTop ==
    ASSUME NEW depth, NEW st, Entries(depth, st), st # <<>>
    PROVE  /\ Len(st) \in Nat \ {0} /\ Last(st) = st[Len(st)]
           /\ EntryOk(depth, Last(st), Len(st))
<1>1. st \in Seq(Encoder!Entry)
    BY DEF Entries
<1>2. Len(st) \in Nat \ {0} /\ Last(st) = st[Len(st)]
    BY <1>1, NonEmpty, TopFacts
<1>3. Len(st) \in 1 .. Len(st)
    BY <1>2
<1> QED
    BY <1>2, <1>3 DEF Entries

\* An entry is popped.
LEMMA EntriesPop ==
    ASSUME NEW depth, NEW st, Entries(depth, st), st # <<>>
    PROVE  Entries(depth, Front(st))
<1>1. st \in Seq(Encoder!Entry)
    BY DEF Entries
<1>2. PICK h \in Nat : /\ Len(st) = h + 1 /\ Front(st) \in Seq(Encoder!Entry)
                       /\ Len(Front(st)) = h
                       /\ \A i \in 1 .. h : Front(st)[i] = st[i]
    BY <1>1, PopFacts
<1>3. \A i \in 1 .. h : i \in 1 .. Len(st)
    BY <1>2
<1> QED
    BY <1>2, <1>3 DEF Entries

\* An entry is pushed.
LEMMA EntriesPush ==
    ASSUME NEW depth, NEW st, Entries(depth, st), NEW e, EntryOk(depth, e, Len(st) + 1)
    PROVE  /\ Entries(depth, Push(st, e)) /\ Push(st, e) # <<>>
           /\ Len(Push(st, e)) = Len(st) + 1 /\ Last(Push(st, e)) = e
<1> DEFINE h == Len(st)
           above == Push(st, e)
<1>1. st \in Seq(Encoder!Entry) /\ e \in Encoder!Entry
    BY DEF Entries, EntryOk
<1>2. /\ above \in Seq(Encoder!Entry) /\ above # <<>> /\ h \in Nat
      /\ Len(above) = h + 1 /\ above[h + 1] = e
      /\ \A i \in 1 .. h : above[i] = st[i]
    BY <1>1, PushFacts
<1> HIDE DEF above
<1>3. Last(above) = e
    BY <1>2, TopFacts
<1>4. ASSUME NEW i \in 1 .. h + 1
      PROVE  EntryOk(depth, above[i], i)
    <2>1. i \in 1 .. h \/ i = h + 1
        BY <1>2
    <2> QED
        BY <1>2, <2>1 DEF Entries
<1> QED
    BY <1>2, <1>3, <1>4 DEF Entries, above

\* The entry on top is replaced.
LEMMA EntriesReplace ==
    ASSUME NEW depth, NEW st, Entries(depth, st), st # <<>>, NEW e, EntryOk(depth, e, Len(st))
    PROVE  Entries(depth, Encoder!WithEntry(st, e)) /\ Len(Encoder!WithEntry(st, e)) = Len(st)
<1> DEFINE new == Encoder!WithEntry(st, e)
<1>1. st \in Seq(Encoder!Entry) /\ e \in Encoder!Entry
    BY DEF Entries, EntryOk
<1>2. /\ new \in Seq(Encoder!Entry) /\ Len(new) = Len(st)
      /\ \A i \in 1 .. Len(st) : new[i] = IF i = Len(st) THEN e ELSE st[i]
    BY <1>1, ReplaceFacts DEF Encoder!WithEntry
<1> HIDE DEF new
<1> QED
    BY <1>2 DEF Entries, new

\* While the encoder runs the parser is done, and the tree stays as it is.
LEMMA Encoding ==
    ASSUME IInv, encoding = "run"
    PROVE  /\ parsing = "ok" /\ call \in Encoder!Call \cup {Encoder!NoCall} /\ NodesFit(heap)
           /\ \E depth \in [DOMAIN heap -> 1 .. MaxStack] :
                 IsForest(heap, depth) /\ Entries(depth, stack) /\ Called(depth, stack, call, received)
<1>1. /\ parsing = "ok" /\ call \in Encoder!Call \cup {Encoder!NoCall} /\ NodesFit(heap)
      /\ stack \in Seq(Encoder!Entry)
      /\ \A i \in 1 .. Len(stack) : Ser[stack[i].type] \in Serializers
    BY DEF IInv, EncoderTypes, Serializers
<1>2. DOMAIN stack = 1 .. Len(stack)
    BY <1>1, LenProperties
<1>3. \A i \in 1 .. Len(stack) : EntryFitsValue(stack[i]) /\ stack[i] \in Encoder!Entry
    BY <1>1, <1>2, ElementOfSeq DEF IInv, EntriesFitValues
<1>4. PICK depth \in [DOMAIN heap -> 1 .. MaxStack] : IsForest(heap, depth) /\ EncoderDepths(depth)
    BY DEF IInv
<1>5. Entries(depth, stack)
    BY <1>1, <1>3, <1>4 DEF Entries, EntryOk, EncoderDepths
<1>6. Called(depth, stack, call, received)
    BY <1>4 DEF Called, EncoderDepths, Pending
<1> QED
    BY <1>1, <1>4, <1>5, <1>6

\* A step of the encoder.
LEMMA Encoded ==
    ASSUME IInv, parsing = "ok", UNCHANGED <<type, input, heap, started, parents, parsing>>,
           NEW depth \in [DOMAIN heap -> 1 .. MaxStack], IsForest(heap, depth),
           Entries(depth, stack'), Called(depth, stack', call', received'),
           call' \in Encoder!Call \cup {Encoder!NoCall},
           encoding' \in Encoder!Status \ {"idle"}
    PROVE  IInv'
<1>1. ParserTypes' /\ ParserLevels'
    BY DEF IInv, ParserTypes, ParserLevels
<1>2. StackIsLivePath'
    <2>1. parents' \in Seq(Parser!Entry) /\ parsing' = "ok"
        BY DEF IInv, ParserTypes
    <2> QED
        BY <2>1, LivePathIs
<1>3. stack' \in Seq(Encoder!Entry) /\ \A i \in 1 .. Len(stack') : EntryOk(depth, stack'[i], i)
    BY DEF Entries
<1>4. EncoderTypes'
    BY <1>3 DEF EncoderTypes, EntryOk, Serializers
<1>5. EntriesFitValues'
    <2>1. DOMAIN stack' = 1 .. Len(stack')
        BY <1>3, LenProperties
    <2> QED
        BY <1>3, <2>1 DEF EntriesFitValues, EntryOk, EntryFitsValue
<1>6. NodesFit(heap')
    BY DEF IInv
<1>7. ParserDepths(depth)' /\ EncoderDepths(depth)'
    BY <1>3 DEF ParserDepths, EncoderDepths, EntryOk, Pending, Called
<1> QED
    BY <1>1, <1>2, <1>4, <1>5, <1>6, <1>7 DEF IInv

-----------------------------------------------------------------------------
(* The encoder's steps.                                                    *)

Others == <<type, input, started, parents, parsing>>

\* An error stops the encoder where it is.
LEMMA FailKeeps ==
    ASSUME IInv, encoding = "run", UNCHANGED Others,
           NEW error \in Encoder!Errors, Encoder!Fail(error)
    PROVE  IInv'
<1>1. PICK depth \in [DOMAIN heap -> 1 .. MaxStack] :
          IsForest(heap, depth) /\ Entries(depth, stack) /\ Called(depth, stack, call, received)
    BY Encoding
<1>2. /\ encoding' \in Encoder!Status \ {"idle"}
      /\ UNCHANGED <<heap, received, stack, call>>
    BY DEF Encoder!Fail, Encoder!Status, Encoder!Errors
<1>3. parsing = "ok" /\ call \in Encoder!Call \cup {Encoder!NoCall}
    BY Encoding
<1> QED
    BY <1>1, <1>2, <1>3, Encoded DEF Others

\* What a serializer that is started finds.
LEMMA CalledFacts ==
    ASSUME IInv, NEW ser, Encoder!Start(ser)
    PROVE  /\ encoding = "run" /\ call # Encoder!NoCall /\ call \in Encoder!Call
           /\ call.type \in Type /\ Ser[call.type] = ser
           /\ Of[call.type] \in Type
<1>1. encoding = "run" /\ call # Encoder!NoCall /\ Ser[call.type] = ser
    BY DEF Encoder!Start
<1>2. call \in Encoder!Call
    BY <1>1, Encoding
<1> QED
    BY <1>1, <1>2, AbiAssumption DEF Encoder!Call

\* What a serializer that is resumed finds.
LEMMA ResumedFacts ==
    ASSUME IInv, NEW ser, Encoder!Resume(ser)
    PROVE  /\ encoding = "run" /\ call = Encoder!NoCall /\ stack # <<>>
           /\ Encoder!Top = Last(stack) /\ Ser[Last(stack).type] = ser
BY SameStack DEF Encoder!Resume

\* The serializers without an entry: the stack stays, and the value is passed on.
LEMMA PlainKeeps ==
    ASSUME IInv, encoding = "run", UNCHANGED Others, UNCHANGED <<heap, received, stack, encoding>>,
           \/ call' = Encoder!NoCall
           \/ call # Encoder!NoCall /\ call' \in Encoder!Call
    PROVE  IInv'
<1>1. PICK depth \in [DOMAIN heap -> 1 .. MaxStack] :
          IsForest(heap, depth) /\ Entries(depth, stack) /\ Called(depth, stack, call, received)
    BY Encoding
<1>2. encoding' \in Encoder!Status \ {"idle"}
    BY DEF Encoder!Status
<1>3. Called(depth, stack', call', received')
    BY <1>1 DEF Called
<1>4. parsing = "ok" /\ call' \in Encoder!Call \cup {Encoder!NoCall}
    BY Encoding
<1> QED
    BY <1>1, <1>2, <1>3, <1>4, Encoded DEF Others

\* A primitive is written.
LEMMA PrimitiveKeeps ==
    ASSUME IInv, NEW prim, Encoder!StartPrimitive(prim), UNCHANGED Others
    PROVE  IInv'
<1>1. encoding = "run"
    BY CalledFacts DEF Encoder!StartPrimitive
<1>2. CASE Encoder!Fail("expected_value")
    BY <1>1, <1>2, FailKeeps DEF Encoder!Errors
<1>3. CASE ~Encoder!Fail("expected_value")
    BY <1>1, <1>3, PlainKeeps DEF Encoder!StartPrimitive
<1> QED
    BY <1>2, <1>3

\* An optional is present or not, and an extension is left to its type.
LEMMA WrapperKeeps ==
    ASSUME IInv, Encoder!StartOptional \/ Encoder!StartExtension, UNCHANGED Others
    PROVE  IInv'
<1> DEFINE inner == [call EXCEPT !.type = Of[call.type]]
<1>1. /\ encoding = "run" /\ call # Encoder!NoCall /\ call \in Encoder!Call
      /\ Of[call.type] \in Type
    BY CalledFacts DEF Encoder!StartOptional, Encoder!StartExtension
<1>2. inner \in Encoder!Call
    BY <1>1 DEF Encoder!Call
<1>3. /\ call' = Encoder!NoCall \/ call' = inner
      /\ UNCHANGED <<heap, received, stack, encoding>>
    BY DEF Encoder!StartOptional, Encoder!StartExtension
<1> HIDE DEF inner
<1> QED
    BY <1>1, <1>2, <1>3, PlainKeeps

\* The entry a container gets.
LEMMA NewEntryFacts ==
    ASSUME IInv, NEW ser \in Serializers, Encoder!Start(ser),
           NEW depth \in [DOMAIN heap -> 1 .. MaxStack], IsForest(heap, depth),
           Called(depth, stack, call, received),
           NEW e \in Encoder!Entry, e.type = call.type, e.value = received, EntryFitsValue(e)
    PROVE  EntryOk(depth, e, Len(stack) + 1)
BY CalledFacts DEF EntryOk, Called

\* NewEntry, field by field.
LEMMA NewEntryIs ==
    ASSUME IInv, NEW ser, Encoder!Start(ser), received \in Nat, NEW position \in Int
    PROVE  /\ Encoder!NewEntry(position) \in Encoder!Entry
           /\ Encoder!NewEntry(position).type = call.type
           /\ Encoder!NewEntry(position).value = received
           /\ Encoder!NewEntry(position).position = position
           /\ [Encoder!NewEntry(position) EXCEPT !.allow = FALSE] \in Encoder!Entry
           /\ [Encoder!NewEntry(position) EXCEPT !.allow = FALSE].type = call.type
           /\ [Encoder!NewEntry(position) EXCEPT !.allow = FALSE].value = received
           /\ [Encoder!NewEntry(position) EXCEPT !.allow = FALSE].position = position
<1>1. call \in Encoder!Call
    BY CalledFacts
<1> QED
    BY <1>1 DEF Encoder!NewEntry, Encoder!Entry, Encoder!Call

\* A part of the value of an entry is one level above it.
LEMMA PartFacts ==
    ASSUME NEW depth, IsForest(heap, depth), NEW e, NEW n, EntryOk(depth, e, n),
           NEW x \in Children(heap, e.value)
    PROVE  x \in DOMAIN heap /\ depth[x] = n + 1
<1>1. e.value \in DOMAIN heap /\ depth[e.value] = n
    BY DEF EntryOk, EntryFitsValue
<1> QED
    BY <1>1, ChildFacts

\* An entry moved on to another position of the same value.
LEMMA MovedEntry ==
    ASSUME NEW depth, NEW e, NEW n, EntryOk(depth, e, n), NEW position \in Int,
           Ser[e.type] = "object" => position \in -1 .. Len(Fields[e.type]) - 1,
           Ser[e.type] = "array" => position \in -1 .. Len(heap[e.value].items) - 1
    PROVE  EntryOk(depth, [e EXCEPT !.position = position], n)
<1> DEFINE moved == [e EXCEPT !.position = position]
<1>1. e \in Encoder!Entry
    BY DEF EntryOk
<1>2. moved \in Encoder!Entry /\ moved.type = e.type /\ moved.value = e.value /\ moved.position = position
    BY <1>1 DEF Encoder!Entry
<1> HIDE DEF moved
<1>3. EntryFitsValue(moved)
    BY <1>2 DEF EntryOk, EntryFitsValue
<1> QED
    BY <1>2, <1>3 DEF EntryOk, moved

\* The next field of a struct, or its end.
LEMMA NextMemberKeeps ==
    ASSUME IInv, encoding = "run", UNCHANGED Others,
           NEW depth \in [DOMAIN heap -> 1 .. MaxStack], IsForest(heap, depth),
           NEW st, Entries(depth, st), st # <<>>, Ser[Last(st).type] = "object",
           Encoder!NextMember(st)
    PROVE  IInv'
<1> DEFINE entry == Last(st)
           fields == Fields[entry.type]
           position == entry.position + 1
           field == fields[position + 1]
           members == heap[entry.value].members
           moved == [entry EXCEPT !.position = position]
<1>1. parsing = "ok"
    BY Encoding
<1>2. Len(st) \in Nat \ {0} /\ EntryOk(depth, entry, Len(st))
    BY EntriesTop
<1>3. /\ entry \in Encoder!Entry /\ entry.value \in DOMAIN heap
      /\ entry.position \in -1 .. Len(fields) - 1
      /\ entry.type \in Type /\ entry.allow \in BOOLEAN /\ entry.position \in Int
    BY <1>2 DEF EntryOk, EntryFitsValue, Encoder!Entry
<1>4. fields \in Seq(Field) /\ Len(fields) \in Nat
    <2>1. fields \in Seq(Field)
        BY <1>3, AbiAssumption
    <2> QED
        BY <2>1, LenProperties
<1>5. position \in 0 .. Len(fields)
    BY <1>3, <1>4
<1>6. position # Len(fields) =>
         /\ position \in -1 .. Len(fields) - 1
         /\ EntryOk(depth, moved, Len(st))
         /\ Entries(depth, Encoder!WithEntry(st, moved))
         /\ Len(Encoder!WithEntry(st, moved)) = Len(st)
         /\ field.type \in Type
    <2> SUFFICES ASSUME position # Len(fields)
                 PROVE  /\ position \in -1 .. Len(fields) - 1
                        /\ EntryOk(depth, moved, Len(st))
                        /\ Entries(depth, Encoder!WithEntry(st, moved))
                        /\ Len(Encoder!WithEntry(st, moved)) = Len(st)
                        /\ field.type \in Type
        OBVIOUS
    <2>1. position \in -1 .. Len(fields) - 1 /\ position + 1 \in 1 .. Len(fields) /\ position \in Int
        BY <1>4, <1>5
    <2> HIDE DEF position
    <2>2. EntryOk(depth, moved, Len(st))
        BY <1>2, <2>1, MovedEntry
    <2>3. field \in Field
        BY <1>4, <2>1, ElementOfSeq
    <2> HIDE DEF moved
    <2> QED
        BY <2>1, <2>2, <2>3, EntriesReplace DEF Field
<1>7. \/ /\ stack' = Encoder!Front(st) /\ call' = Encoder!NoCall /\ UNCHANGED <<heap, received, encoding>>
      \/ /\ position # Len(fields) /\ stack' = Encoder!WithEntry(st, moved)
         /\ call' = Encoder!NoCall /\ UNCHANGED <<heap, received, encoding>>
      \/ Encoder!Fail("expected_field")
      \/ Encoder!Fail("unexpected_field")
      \/ /\ position # Len(fields) /\ field.name \in DOMAIN members
         /\ stack' = Encoder!WithEntry(st, moved)
         /\ received' = members[field.name]
         /\ call' = [type |-> field.type, allow |-> entry.allow /\ position + 1 = Len(fields)]
         /\ UNCHANGED <<heap, encoding>>
    BY SameStack DEF Encoder!NextMember
<1> HIDE DEF entry, fields, position, field, members, moved
<1>8. encoding \in Encoder!Status \ {"idle"}
    BY DEF Encoder!Status
<1>9. CASE stack' = Encoder!Front(st) /\ call' = Encoder!NoCall /\ UNCHANGED <<heap, received, encoding>>
    <2>1. Entries(depth, stack')
        BY <1>9, SameStack, EntriesPop
    <2> QED
        BY <1>1, <1>8, <1>9, <2>1, Encoded DEF Called, Others
<1>10. CASE /\ position # Len(fields) /\ stack' = Encoder!WithEntry(st, moved)
            /\ call' = Encoder!NoCall /\ UNCHANGED <<heap, received, encoding>>
    <2>1. Entries(depth, stack')
        BY <1>6, <1>10
    <2> QED
        BY <1>1, <1>8, <1>10, <2>1, Encoded DEF Called, Others
<1>11. CASE Encoder!Fail("expected_field") \/ Encoder!Fail("unexpected_field")
    BY <1>11, FailKeeps DEF Encoder!Errors
<1>12. CASE /\ position # Len(fields) /\ field.name \in DOMAIN members
            /\ stack' = Encoder!WithEntry(st, moved)
            /\ received' = members[field.name]
            /\ call' = [type |-> field.type, allow |-> entry.allow /\ position + 1 = Len(fields)]
            /\ UNCHANGED <<heap, encoding>>
    <2>1. Entries(depth, stack') /\ Len(stack') = Len(st) /\ field.type \in Type
        BY <1>6, <1>12
    <2>2. received' \in Children(heap, entry.value)
        BY <1>12 DEF Children, members
    <2>3. received' \in DOMAIN heap /\ depth[received'] = Len(stack') + 1
        BY <1>2, <2>1, <2>2, PartFacts
    <2>4. call' \in Encoder!Call
        BY <1>3, <1>12, <2>1 DEF Encoder!Call
    <2> QED
        BY <1>1, <1>8, <1>12, <2>1, <2>3, <2>4, Encoded DEF Called, Others
<1> QED
    BY <1>7, <1>9, <1>10, <1>11, <1>12

\* The next element of an array, or its end.
LEMMA NextElementKeeps ==
    ASSUME IInv, encoding = "run", UNCHANGED Others,
           NEW depth \in [DOMAIN heap -> 1 .. MaxStack], IsForest(heap, depth),
           NEW st, Entries(depth, st), st # <<>>, Ser[Last(st).type] = "array",
           NEW written, Encoder!NextElement(st, written)
    PROVE  IInv'
<1> DEFINE entry == Last(st)
           items == heap[entry.value].items
           position == entry.position + 1
           moved == [entry EXCEPT !.position = position]
<1>1. parsing = "ok" /\ NodesFit(heap)
    BY Encoding
<1>2. Len(st) \in Nat \ {0} /\ EntryOk(depth, entry, Len(st))
    BY EntriesTop
<1>3. /\ entry \in Encoder!Entry /\ entry.value \in DOMAIN heap
      /\ entry.position \in -1 .. Len(items) - 1
      /\ entry.type \in Type /\ entry.position \in Int
    BY <1>2 DEF EntryOk, EntryFitsValue, Encoder!Entry
<1>4. items \in Seq(Nat) /\ Len(items) \in Nat /\ DOMAIN items = 1 .. Len(items)
    <2>1. items \in Seq(Nat)
        BY <1>1, <1>3 DEF NodesFit, Parser!IsNode, Parser!Address
    <2> QED
        BY <2>1, LenProperties
<1>5. position \in 0 .. Len(items)
    BY <1>3, <1>4
<1>6. ASSUME position # Len(items)
      PROVE  /\ position + 1 \in DOMAIN items
             /\ Entries(depth, Encoder!WithEntry(st, moved))
             /\ Len(Encoder!WithEntry(st, moved)) = Len(st)
    <2>1. position \in -1 .. Len(items) - 1 /\ position + 1 \in 1 .. Len(items) /\ position \in Int
        BY <1>4, <1>5, <1>6
    <2> HIDE DEF position
    <2>2. EntryOk(depth, moved, Len(st))
        BY <1>2, <2>1, MovedEntry
    <2> HIDE DEF moved, items
    <2> QED
        BY <1>4, <2>1, <2>2, EntriesReplace
<1>7. /\ UNCHANGED <<heap, encoding>>
      /\ \/ stack' = Encoder!Front(st) /\ call' = Encoder!NoCall
         \/ /\ position # Len(items)
            /\ stack' = Encoder!WithEntry(st, moved)
            /\ received' = items[position + 1]
            /\ call' = [type |-> Of[entry.type], allow |-> FALSE]
    BY SameStack DEF Encoder!NextElement
<1> HIDE DEF entry, position, moved
<1>8. encoding' \in Encoder!Status \ {"idle"}
    BY <1>7 DEF Encoder!Status
<1>9. CASE stack' = Encoder!Front(st) /\ call' = Encoder!NoCall
    <2>1. Entries(depth, stack')
        BY <1>9, SameStack, EntriesPop
    <2> QED
        BY <1>1, <1>7, <1>8, <1>9, <2>1, Encoded DEF Called, Others
<1>10. CASE /\ position # Len(items)
            /\ stack' = Encoder!WithEntry(st, moved)
            /\ received' = items[position + 1]
            /\ call' = [type |-> Of[entry.type], allow |-> FALSE]
    <2>1. Entries(depth, stack') /\ Len(stack') = Len(st) /\ position + 1 \in DOMAIN items
        BY <1>6, <1>10
    <2>2. received' \in Children(heap, entry.value)
        BY <1>10, <2>1 DEF Children
    <2>3. received' \in DOMAIN heap /\ depth[received'] = Len(stack') + 1
        BY <1>2, <2>1, <2>2, PartFacts
    <2>4. call' \in Encoder!Call
        BY <1>3, <1>10, AbiAssumption DEF Encoder!Call
    <2> QED
        BY <1>1, <1>7, <1>8, <2>1, <2>3, <2>4, Encoded DEF Called, Others
<1> QED
    BY <1>7, <1>9, <1>10

\* The state a container's serializer is started in.
LEMMA StartFacts ==
    ASSUME IInv, NEW ser, Encoder!Start(ser)
    PROVE  /\ received \in DOMAIN heap /\ received \in Nat
           /\ \E depth \in [DOMAIN heap -> 1 .. MaxStack] :
                 IsForest(heap, depth) /\ Entries(depth, stack) /\ Called(depth, stack, call, received)
<1>1. encoding = "run" /\ call # Encoder!NoCall
    BY CalledFacts
<1>2. PICK depth \in [DOMAIN heap -> 1 .. MaxStack] :
          IsForest(heap, depth) /\ Entries(depth, stack) /\ Called(depth, stack, call, received)
    BY <1>1, Encoding
<1>3. received \in DOMAIN heap
    BY <1>1, <1>2 DEF Called
<1>4. DOMAIN heap \subseteq Nat
    BY <1>2 DEF IsForest
<1> QED
    BY <1>2, <1>3, <1>4

\* A struct: its first field is looked up at once.
LEMMA StartObjectKeeps ==
    ASSUME IInv, Encoder!StartObject, UNCHANGED Others
    PROVE  IInv'
<1> DEFINE e == Encoder!NewEntry(-1)
           st == Push(stack, e)
<1>1. Encoder!Start("object")
    BY DEF Encoder!StartObject
<1>2. encoding = "run" /\ Ser[call.type] = "object" /\ call.type \in Type
    BY <1>1, CalledFacts
<1>3. CASE Encoder!Fail("expected_start_object")
    BY <1>2, <1>3, FailKeeps DEF Encoder!Errors
<1>4. CASE heap[received].kind = "object" /\ Encoder!NextMember(st)
    <2>1. received \in DOMAIN heap /\ received \in Nat
        BY <1>1, StartFacts
    <2>2. PICK depth \in [DOMAIN heap -> 1 .. MaxStack] :
              IsForest(heap, depth) /\ Entries(depth, stack) /\ Called(depth, stack, call, received)
        BY <1>1, StartFacts
    <2>3. -1 \in Int
        OBVIOUS
    <2>4. e \in Encoder!Entry /\ e.type = call.type /\ e.value = received /\ e.position = -1
        BY <1>1, <2>1, <2>3, NewEntryIs
    <2> HIDE DEF e
    <2>5. Len(Fields[call.type]) \in Nat
        <3>1. Fields[call.type] \in Seq(Field)
            BY <1>2, AbiAssumption
        <3> QED
            BY <3>1, LenProperties
    <2>6. -1 \in -1 .. Len(Fields[call.type]) - 1
        BY <2>5
    <2>7. EntryFitsValue(e)
        BY <1>2, <1>4, <2>1, <2>4, <2>6 DEF EntryFitsValue
    <2>8. EntryOk(depth, e, Len(stack) + 1)
        BY <1>1, <2>2, <2>4, <2>7, NewEntryFacts DEF Serializers
    <2>9. Entries(depth, st) /\ st # <<>> /\ Last(st) = e
        BY <2>2, <2>8, EntriesPush
    <2> HIDE DEF st
    <2> QED
        BY <1>2, <1>4, <2>2, <2>4, <2>9, NextMemberKeeps
<1> QED
    BY <1>3, <1>4 DEF Encoder!StartObject, Encoder!Value, Push

\* An array: its size and its first element.
LEMMA StartArrayKeeps ==
    ASSUME IInv, Encoder!StartArray, UNCHANGED Others
    PROVE  IInv'
<1> DEFINE e == [Encoder!NewEntry(-1) EXCEPT !.allow = FALSE]
           st == Push(stack, e)
           size == Encoder!VarUint32(Len(heap[received].items))
<1>1. Encoder!Start("array")
    BY DEF Encoder!StartArray
<1>2. encoding = "run" /\ Ser[call.type] = "array"
    BY <1>1, CalledFacts
<1>3. CASE Encoder!Fail("expected_start_array")
    BY <1>2, <1>3, FailKeeps DEF Encoder!Errors
<1>4. CASE heap[received].kind = "array" /\ Encoder!NextElement(st, size)
    <2>1. received \in DOMAIN heap /\ received \in Nat
        BY <1>1, StartFacts
    <2>2. PICK depth \in [DOMAIN heap -> 1 .. MaxStack] :
              IsForest(heap, depth) /\ Entries(depth, stack) /\ Called(depth, stack, call, received)
        BY <1>1, StartFacts
    <2>3. -1 \in Int
        OBVIOUS
    <2>4. e \in Encoder!Entry /\ e.type = call.type /\ e.value = received /\ e.position = -1
        BY <1>1, <2>1, <2>3, NewEntryIs
    <2> HIDE DEF e, size
    <2>5. Len(heap[received].items) \in Nat
        <3>1. heap[received].items \in Seq(Nat)
            BY <1>2, <2>1, Encoding DEF NodesFit, Parser!IsNode, Parser!Address
        <3> QED
            BY <3>1, LenProperties
    <2>6. -1 \in -1 .. Len(heap[received].items) - 1
        BY <2>5
    <2>7. EntryFitsValue(e)
        BY <1>2, <1>4, <2>1, <2>4, <2>6 DEF EntryFitsValue
    <2>8. EntryOk(depth, e, Len(stack) + 1)
        BY <1>1, <2>2, <2>4, <2>7, NewEntryFacts DEF Serializers
    <2>9. Entries(depth, st) /\ st # <<>> /\ Last(st) = e
        BY <2>2, <2>8, EntriesPush
    <2> HIDE DEF st
    <2> QED
        BY <1>2, <1>4, <2>2, <2>4, <2>9, NextElementKeeps
<1> QED
    BY <1>3, <1>4 DEF Encoder!StartArray, Encoder!Value, Push

\* A variant: a pair whose first element is text.
LEMMA StartVariantKeeps ==
    ASSUME IInv, Encoder!StartVariant, UNCHANGED Others
    PROVE  IInv'
<1> DEFINE e == Encoder!NewEntry(0)
           st == Push(stack, e)
<1>1. Encoder!Start("variant")
    BY DEF Encoder!StartVariant
<1>2. encoding = "run" /\ Ser[call.type] = "variant" /\ parsing = "ok"
    BY <1>1, CalledFacts, Encoding
<1>3. CASE Encoder!Fail("expected_variant")
    BY <1>2, <1>3, FailKeeps DEF Encoder!Errors
<1>4. CASE /\ heap[received].kind = "array" /\ Len(heap[received].items) = 2
           /\ stack' = st /\ call' = Encoder!NoCall
           /\ UNCHANGED <<heap, received, encoding>>
    <2>1. received \in DOMAIN heap /\ received \in Nat
        BY <1>1, StartFacts
    <2>2. PICK depth \in [DOMAIN heap -> 1 .. MaxStack] :
              IsForest(heap, depth) /\ Entries(depth, stack) /\ Called(depth, stack, call, received)
        BY <1>1, StartFacts
    <2>3. 0 \in Int
        OBVIOUS
    <2>4. e \in Encoder!Entry /\ e.type = call.type /\ e.value = received
        BY <1>1, <2>1, <2>3, NewEntryIs
    <2> HIDE DEF e
    <2>5. EntryFitsValue(e)
        BY <1>2, <1>4, <2>1, <2>4 DEF EntryFitsValue
    <2>6. EntryOk(depth, e, Len(stack) + 1)
        BY <1>1, <2>2, <2>4, <2>5, NewEntryFacts DEF Serializers
    <2>7. Entries(depth, stack')
        BY <1>4, <2>2, <2>6, EntriesPush
    <2>8. encoding' \in Encoder!Status \ {"idle"}
        BY <1>2, <1>4 DEF Encoder!Status
    <2> HIDE DEF st
    <2> QED
        BY <1>2, <1>4, <2>2, <2>7, <2>8, Encoded DEF Called, Others
<1> QED
    BY <1>3, <1>4 DEF Encoder!StartVariant, Encoder!Value, Push

\* The next field or element of the container on top.
LEMMA ResumeKeeps ==
    ASSUME IInv, Encoder!ResumeObject \/ Encoder!ResumeArray, UNCHANGED Others
    PROVE  IInv'
<1>1. encoding = "run" /\ stack # <<>>
    BY ResumedFacts DEF Encoder!ResumeObject, Encoder!ResumeArray
<1>2. PICK depth \in [DOMAIN heap -> 1 .. MaxStack] : IsForest(heap, depth) /\ Entries(depth, stack)
    BY <1>1, Encoding
<1>3. CASE Encoder!ResumeObject
    <2>1. Ser[Last(stack).type] = "object" /\ Encoder!NextMember(stack)
        BY <1>3, ResumedFacts DEF Encoder!ResumeObject
    <2> QED
        BY <1>1, <1>2, <2>1, NextMemberKeeps
<1>4. CASE Encoder!ResumeArray
    <2>1. Ser[Last(stack).type] = "array" /\ Encoder!NextElement(stack, <<>>)
        BY <1>4, ResumedFacts DEF Encoder!ResumeArray
    <2> QED
        BY <1>1, <1>2, <2>1, NextElementKeeps
<1> QED
    BY <1>3, <1>4

\* The alternative a variant names, and its end.
LEMMA ResumeVariantKeeps ==
    ASSUME IInv, Encoder!ResumeVariant, UNCHANGED Others
    PROVE  IInv'
<1> DEFINE e == Last(stack)
           items == heap[e.value].items
           alternatives == Fields[e.type]
           moved == [e EXCEPT !.position = 1]
<1>1. /\ encoding = "run" /\ call = Encoder!NoCall /\ stack # <<>>
      /\ Encoder!Top = e /\ Ser[e.type] = "variant"
    BY ResumedFacts DEF Encoder!ResumeVariant
<1>2. parsing = "ok" /\ NodesFit(heap)
    BY <1>1, Encoding
<1>3. PICK depth \in [DOMAIN heap -> 1 .. MaxStack] : IsForest(heap, depth) /\ Entries(depth, stack)
    BY <1>1, Encoding
<1>4. EntryOk(depth, e, Len(stack))
    BY <1>1, <1>3, EntriesTop
<1>5. /\ e \in Encoder!Entry /\ e.type \in Type /\ e.allow \in BOOLEAN /\ e.value \in DOMAIN heap
      /\ Len(items) = 2
    BY <1>1, <1>4 DEF EntryOk, EntryFitsValue, Encoder!Entry
<1>6. encoding \in Encoder!Status \ {"idle"}
    BY <1>1 DEF Encoder!Status
<1>7. \/ Encoder!Fail("invalid_type_for_variant")
      \/ /\ \E i \in DOMAIN alternatives : call' = [type |-> alternatives[i].type, allow |-> e.allow]
         /\ stack' = Encoder!WithEntry(stack, moved)
         /\ received' = items[2]
         /\ UNCHANGED <<heap, encoding>>
      \/ stack' = Encoder!Front(stack) /\ UNCHANGED <<heap, received, call, encoding>>
    BY <1>1 DEF Encoder!ResumeVariant
<1> HIDE DEF e, alternatives, moved
<1>8. CASE Encoder!Fail("invalid_type_for_variant")
    BY <1>1, <1>8, FailKeeps DEF Encoder!Errors
<1>9. CASE /\ \E i \in DOMAIN alternatives : call' = [type |-> alternatives[i].type, allow |-> e.allow]
           /\ stack' = Encoder!WithEntry(stack, moved)
           /\ received' = items[2]
           /\ UNCHANGED <<heap, encoding>>
    <2>1. EntryOk(depth, moved, Len(stack))
        <3>1. 1 \in Int /\ Ser[e.type] # "object" /\ Ser[e.type] # "array"
            BY <1>1
        <3> QED
            BY <1>4, <3>1, MovedEntry DEF moved
    <2>2. Entries(depth, stack') /\ Len(stack') = Len(stack)
        BY <1>1, <1>3, <1>9, <2>1, EntriesReplace
    <2>3. 2 \in DOMAIN items
        <3>1. items \in Seq(Nat)
            BY <1>2, <1>5 DEF NodesFit, Parser!IsNode, Parser!Address
        <3>2. DOMAIN items = 1 .. 2
            BY <1>5, <3>1, LenProperties
        <3> QED
            BY <3>2
    <2>4. received' \in Children(heap, e.value)
        BY <1>9, <2>3 DEF Children
    <2>5. received' \in DOMAIN heap /\ depth[received'] = Len(stack') + 1
        BY <1>3, <1>4, <2>2, <2>4, PartFacts
    <2>6. call' \in Encoder!Call
        <3>1. PICK i \in DOMAIN alternatives : call' = [type |-> alternatives[i].type, allow |-> e.allow]
            BY <1>9
        <3>2. alternatives \in Seq(Field)
            BY <1>5, AbiAssumption DEF alternatives
        <3>3. i \in 1 .. Len(alternatives)
            BY <3>2, LenProperties
        <3>4. alternatives[i] \in Field
            BY <3>2, <3>3, ElementOfSeq
        <3>5. alternatives[i].type \in Type
            BY <3>4 DEF Field
        <3> QED
            BY <1>5, <3>1, <3>5 DEF Encoder!Call
    <2> QED
        BY <1>2, <1>3, <1>6, <1>9, <2>2, <2>5, <2>6, Encoded DEF Called, Others
<1>10. CASE stack' = Encoder!Front(stack) /\ UNCHANGED <<heap, received, call, encoding>>
    <2>1. Entries(depth, stack')
        BY <1>1, <1>3, <1>10, SameStack, EntriesPop
    <2> QED
        BY <1>1, <1>2, <1>3, <1>6, <1>10, <2>1, Encoded DEF Called, Others
<1> QED
    BY <1>7, <1>8, <1>9, <1>10

\* The loop ends with an empty stack.
LEMMA EndOfLoopKeeps ==
    ASSUME IInv, Encoder!EndOfLoop, UNCHANGED Others
    PROVE  IInv'
<1>1. /\ encoding = "run" /\ call = Encoder!NoCall /\ encoding' = "ok"
      /\ UNCHANGED <<heap, received, stack, call>>
    BY DEF Encoder!EndOfLoop
<1>2. PICK depth \in [DOMAIN heap -> 1 .. MaxStack] : IsForest(heap, depth) /\ Entries(depth, stack)
    BY <1>1, Encoding
<1>3. encoding' \in Encoder!Status \ {"idle"}
    BY <1>1 DEF Encoder!Status
<1> QED
    BY <1>1, <1>2, <1>3, Encoding, Encoded DEF Called, Others

-----------------------------------------------------------------------------
(* The conversion.                                                         *)

\* Nothing was read and nothing called.
LEMMA InitHolds ==
    ASSUME Init
    PROVE  IInv
<1> DEFINE depth == [a \in {Parser!Root} |-> 1]
<1>1. /\ type = "none" /\ input = Open(<<>>) /\ started = FALSE /\ parents = <<>> /\ parsing = "idle"
      /\ heap = [a \in {Parser!Root} |-> Parser!Empty]
      /\ stack = <<>> /\ call = Encoder!NoCall /\ encoding = "idle"
    BY SameReader DEF Init, Parser!Init, Encoder!Init
<1>2. ParserTypes /\ ParserLevels
    <2>1. Open(<<>>) \in Stream
        BY DEF Open, Stream, Context
    <2>2. parents \in Seq(Parser!Entry)
        BY <1>1
    <2>3. ParserTypes
        BY <1>1, <2>1, <2>2 DEF ParserTypes, Parser!Status
    <2>4. ParserLevels
        BY <1>1 DEF ParserLevels
    <2> QED
        BY <2>3, <2>4
<1>3. StackIsLivePath
    BY <1>1, LivePathIs DEF ParserTypes
<1>4. EncoderTypes /\ EntriesFitValues
    BY <1>1 DEF EncoderTypes, EntriesFitValues, Encoder!Status, Encoder!Errors
<1>5. IsLeaf(Parser!Empty)
    <2> DEFINE none == [k \in {} |-> Parser!Root]
    <2>1. Parser!Empty = [kind |-> "null", text |-> "", members |-> none, items |-> <<>>]
        BY DEF Parser!Empty
    <2>2. DOMAIN none = {} /\ <<>> \in Seq(Nat)
        OBVIOUS
    <2> HIDE DEF none
    <2> QED
        BY <2>1, <2>2, TextAssumption DEF IsLeaf, Parser!IsNode, Parser!Address
<1>6. /\ DOMAIN heap = {Parser!Root} /\ heap[Parser!Root] = Parser!Empty
      /\ Children(heap, Parser!Root) = {}
    BY <1>1, <1>5, LeafFacts
<1>7. NodesFit(heap)
    BY <1>5, <1>6 DEF NodesFit, IsLeaf
<1>8. Parser!Root \in Nat /\ 1 \in 1 .. MaxStack
    BY MaxStackAssumption DEF Parser!Root
<1>9. depth \in [DOMAIN heap -> 1 .. MaxStack] /\ depth[Parser!Root] = 1
    BY <1>6, <1>8
<1> HIDE DEF depth
<1>10. IsForest(heap, depth)
    BY <1>6, <1>8, <1>9 DEF IsForest
<1>11. ParserDepths(depth) /\ EncoderDepths(depth)
    BY <1>1 DEF ParserDepths, EncoderDepths, Pending
<1> QED
    BY <1>2, <1>3, <1>4, <1>7, <1>9, <1>10, <1>11 DEF IInv

\* The conversion starts with the parser, at the root.
LEMMA BeginKeeps ==
    ASSUME IInv, NEW i \in Inputs, Begin(i)
    PROVE  IInv'
<1>1. /\ parsing = "idle" /\ parsing' = "run" /\ input' = Open(i.doc)
      /\ parents' = <<Parser!Pointer(Parser!Root)>> /\ type' = i.type
      /\ UNCHANGED <<heap, started>>
      /\ UNCHANGED <<received, stack, call, encoding>>
    BY SameReader DEF Begin, Parser!Begin, encoderVars
<1>2. i.type \in Type /\ i.doc \in Seq(Token)
    BY InputsAssumption
<1>3. started = FALSE
    BY <1>1 DEF IInv, ParserLevels, ParserTypes
<1>4. Parser!Pointer(Parser!Root) \in Parser!Entry /\ Parser!Pointer(Parser!Root).value = Parser!Root
    BY TextAssumption DEF Parser!Pointer, Parser!Entry, Parser!Address, Parser!Root
<1>5. input' \in Stream /\ input'.open = <<"root">>
    BY <1>1, <1>2 DEF Open, Stream, Context
<1>6. /\ parents' \in Seq(Parser!Entry) /\ Len(parents') = 1
      /\ parents'[1] = Parser!Pointer(Parser!Root)
    BY <1>1, <1>4
<1>7. ParserTypes' /\ ParserLevels'
    BY <1>1, <1>2, <1>3, <1>5, <1>6 DEF ParserTypes, ParserLevels, Parser!Status
<1>8. encoding = "idle" /\ stack = <<>> /\ call = Encoder!NoCall
    BY <1>1 DEF IInv, EncoderTypes
<1>9. EncoderTypes' /\ EntriesFitValues'
    BY <1>1, <1>8 DEF EncoderTypes, EntriesFitValues, Encoder!Status, Encoder!Errors
<1>10. PICK depth \in [DOMAIN heap -> 1 .. MaxStack] : IsForest(heap, depth)
    BY DEF IInv
<1>11. Parser!Root \in DOMAIN heap /\ depth[Parser!Root] = 1
    BY <1>10 DEF IsForest
<1>12. LivePath(heap', parents')
    BY <1>1, <1>4, <1>6, <1>11 DEF LivePath
<1>13. StackIsLivePath'
    BY <1>1, <1>6, <1>12, LivePathIs
<1>14. ParserDepths(depth)' /\ EncoderDepths(depth)'
    BY <1>1, <1>4, <1>6, <1>8, <1>11 DEF ParserDepths, EncoderDepths, Pending
<1>15. NodesFit(heap')
    BY <1>1 DEF IInv
<1> QED
    BY <1>1, <1>7, <1>9, <1>10, <1>13, <1>14, <1>15 DEF IInv

\* The encoder starts at the root of the tree.
LEMMA HandOverKeeps ==
    ASSUME IInv, HandOver
    PROVE  IInv'
<1>1. /\ parsing = "ok" /\ encoding = "idle" /\ encoding' = "run"
      /\ received' = Parser!Root /\ call' = [type |-> type, allow |-> TRUE]
      /\ UNCHANGED <<heap, stack>> /\ UNCHANGED Others
    BY DEF HandOver, Encoder!Begin, Others
<1>2. stack = <<>>
    BY <1>1 DEF IInv, EncoderTypes
<1>3. type \in Type
    BY <1>1 DEF IInv, ParserTypes
<1>4. PICK depth \in [DOMAIN heap -> 1 .. MaxStack] : IsForest(heap, depth)
    BY DEF IInv
<1>5. Parser!Root \in DOMAIN heap /\ depth[Parser!Root] = 1
    BY <1>4 DEF IsForest
<1>6. Entries(depth, stack') /\ Called(depth, stack', call', received')
    BY <1>1, <1>2, <1>5 DEF Entries, Called
<1>7. call' \in Encoder!Call /\ encoding' \in Encoder!Status \ {"idle"}
    BY <1>1, <1>3 DEF Encoder!Call, Encoder!Status
<1> QED
    BY <1>1, <1>4, <1>6, <1>7, Encoded DEF Others

\* Every step keeps the invariant.
LEMMA NextKeeps ==
    ASSUME IInv, [Next]_vars
    PROVE  IInv'
<1>1. CASE \E i \in Inputs : Begin(i)
    BY <1>1, BeginKeeps
<1>2. CASE Parse
    BY <1>2, FirstValueKeeps, KeyKeeps, MemberValueKeeps, ElementKeeps, EndContainerKeeps,
       RefuseKeeps, StopKeeps DEF Parse, Parser!Step
<1>3. CASE HandOver
    BY <1>3, HandOverKeeps
<1>4. CASE Encode
    BY <1>4, PrimitiveKeeps, WrapperKeeps, StartObjectKeeps, StartArrayKeeps, StartVariantKeeps,
       ResumeKeeps, ResumeVariantKeeps, EndOfLoopKeeps DEF Encode, Encoder!Step, Others
<1>5. CASE UNCHANGED vars
    <2>1. /\ UNCHANGED type
          /\ UNCHANGED <<input, heap, started, parents, parsing>>
          /\ UNCHANGED <<received, stack, bin, skipped, call, encoding>>
        BY <1>5 DEF vars, parserVars, encoderVars
    <2>2. ParserTypes' /\ ParserLevels' /\ EncoderTypes' /\ EntriesFitValues' /\ NodesFit(heap')
        BY <2>1 DEF IInv, ParserTypes, ParserLevels, EncoderTypes, EntriesFitValues, EntryFitsValue
    <2>3. StackIsLivePath'
        BY <2>1, LivePathIs DEF IInv, ParserTypes
    <2>4. \A depth : (ParserDepths(depth) => ParserDepths(depth)')
                     /\ (EncoderDepths(depth) => EncoderDepths(depth)')
        BY <2>1 DEF ParserDepths, EncoderDepths, Pending
    <2> QED
        BY <2>1, <2>2, <2>3, <2>4 DEF IInv
<1> QED
    BY <1>1, <1>2, <1>3, <1>4, <1>5 DEF Next, Step, Terminated

\* The heap is a forest and both stacks are paths in it, in every state of every
\* conversion.
THEOREM Invariance == Spec => []IInv
<1>1. Init => IInv
    BY InitHolds
<1>2. IInv /\ [Next]_vars => IInv'
    BY NextKeeps
<1> QED
    BY <1>1, <1>2, PTL DEF Spec

\* The pointers json_to_jvalue_state keeps are never left dangling by an
\* emplace_back or by a repeated key, and "extra data" is never reported.
THEOREM ParserStackIsLivePath == Spec => []StackIsLivePath
<1>1. IInv => StackIsLivePath
    BY DEF IInv
<1> QED
    BY <1>1, Invariance, PTL

\* Whatever an entry of jvalue_to_bin_state std::gets from its value is there,
\* and its position is inside it.
THEOREM EntriesStayInValues == Spec => []EntriesFitValues
<1>1. IInv => EntriesFitValues
    BY DEF IInv
<1> QED
    BY <1>1, Invariance, PTL

\* The encoder needs no depth test: the tree is not deeper than max_stack_size,
\* and no entry is on the stack twice.
THEOREM EncoderStaysShallow == Spec => []EncoderDepthBounded
<1>1. IInv => EncoderDepthBounded
    <2> SUFFICES ASSUME IInv PROVE Len(stack) <= MaxStack
        BY DEF EncoderDepthBounded
    <2>1. stack \in Seq(Encoder!Entry) /\ DOMAIN stack = 1 .. Len(stack) /\ Len(stack) \in Nat
        BY LenProperties DEF IInv, EncoderTypes
    <2>2. PICK depth \in [DOMAIN heap -> 1 .. MaxStack] : EncoderDepths(depth)
        BY DEF IInv
    <2>3. CASE Len(stack) = 0
        BY <2>3, MaxStackAssumption
    <2>4. CASE Len(stack) # 0
        <3> DEFINE h == Len(stack)
        <3>1. h \in 1 .. h /\ h \in DOMAIN stack
            BY <2>1, <2>4
        <3>2. stack[h].value \in DOMAIN heap
            BY <3>1 DEF IInv, EntriesFitValues, EntryFitsValue
        <3>3. depth[stack[h].value] = h
            BY <2>2, <3>1 DEF EncoderDepths
        <3>4. h \in 1 .. MaxStack
            BY <2>2, <3>2, <3>3
        <3> QED
            BY <3>4, MaxStackAssumption
    <2> QED
        BY <2>3, <2>4
<1> QED
    BY <1>1, Invariance, PTL
=============================================================================
