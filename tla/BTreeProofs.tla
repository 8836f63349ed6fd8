------------------------------ MODULE BTreeProofs ------------------------------
(***************************************************************************)
(* Proofs about module BTree, for every set of keys, every MAX_KEYS from   *)
(* two, any number of inserts and failed writes, and whatever a misaligned *)
(* node reads as: the nodes keep their limits (TypeOK), insert meets no    *)
(* node of the wrong kind (NoPanic), the tree and the data pages, which    *)
(* share one file, keep off each other (DataPagesKept); and until an       *)
(* internal node is misread, no split loses an entry (EntriesKept), and    *)
(* the search for a key ends in its leaf (Routed).                         *)
(*                                                                         *)
(* None of them is inductive.  A cascade of splits follows parent pointers *)
(* that an earlier insert wrote, perhaps in front of a write that failed;  *)
(* BInv says of every pointer on every page what it can lead to.  TInv     *)
(* adds the shape of the tree while no internal node is misread, CInv      *)
(* where each entry is while splits are on their way up, and OInv the      *)
(* order of the keys.                                                      *)
(***************************************************************************)
EXTENDS BTree, Induction

PageId == Nat \cup {None}
LeafPages ==
    [kind : {"leaf"}, parent : PageId, next : PageId, keys : Seq(Int), values : Seq(Int)]
InternalPages == [kind : {"internal"}, parent : PageId, keys : Seq(Int), children : Seq(Nat)]
UnreadablePages == [kind : {"unreadable"}, parent : PageId]

\* A page within the limits of its kind.
PageSet ==
    {n \in LeafPages \cup InternalPages \cup UnreadablePages \cup {Data} : WellFormed(n)}

\* A pointer to page p leads to a page of one of these kinds; only between two
\* inserts may it lead to the end of the file, where the engine will put a data
\* page next.
LeadsTo(p, kinds) ==
    \/ p \in DOMAIN pages /\ pages[p].kind \in kinds
    \/ p = Len(pages) + 1 /\ op = NoOp

\* The pointers of a node: a parent is never a leaf; a child is never a data page
\* nor behind the end of the file, unless the node was misread, which it can only
\* be when it has a parent.
Links(n) ==
    /\ n.parent # None => LeadsTo(n.parent, {"internal", "data", "unreadable"})
    /\ IsInternal(n) /\ n.parent = None => \A i \in DOMAIN n.children :
          n.children[i] \in DOMAIN pages /\ pages[n.children[i]].kind # "data"

\* The page file.
Filed ==
    /\ pages \in Seq(PageSet)
    /\ \A p \in DOMAIN pages : Links(pages[p])
    /\ root \in DOMAIN pages /\ pages[root].kind # "data"

\* The data pages of the inserts that returned Ok.
Entered == \A e \in entries : e[2] \in DOMAIN pages /\ pages[e[2]] = Data

\* An insert on its way down: its data page is written, and wherever the pointers
\* have led it, at the leaf it is at one.
Descending ==
    /\ op \in [at : {"descend", "leaf"}, key : Key, value : Nat, page : Nat]
    /\ op.value \in DOMAIN pages /\ pages[op.value] = Data
    /\ op.at = "leaf" => op.page \in DOMAIN pages /\ pages[op.page].kind = "leaf"

\* An insert on its way up: left and right are the halves of a node, with the
\* same parent; a new root is made for a node without one.
Ascending ==
    /\ op \in [at : {"parent", "new_root"}, key : Key, value : Nat,
               left : Nat, sep : Int, right : Nat]
    /\ op.value \in DOMAIN pages /\ pages[op.value] = Data
    /\ {op.left, op.right} \subseteq DOMAIN pages /\ op.left # op.right
    /\ pages[op.left].kind \in {"leaf", "internal"}
    /\ pages[op.right].kind \in {"leaf", "internal"}
    /\ pages[op.right].parent = pages[op.left].parent
    /\ op.at = "new_root" => pages[op.left].parent = None

Counted == inserts \in 0..MaxInserts /\ faults \in 0..MaxFaults

Working == op = NoOp \/ Descending \/ Ascending

BInv == Filed /\ Entered /\ Working /\ Counted

------------------------------------------------------------------------------
(* Sequences: cutting, inserting, searching.                               *)

\* A sequence is one over every set that holds its elements.
LEMMA SeqOver ==
    ASSUME NEW S, NEW T, NEW s \in Seq(S), \A i \in DOMAIN s : s[i] \in T
    PROVE  s \in Seq(T)
<1>1. Len(s) \in Nat /\ DOMAIN s = 1..Len(s) /\ s = [i \in 1..Len(s) |-> s[i]]
  BY LenProperties
<1> QED BY <1>1

\* The part of a sequence from m to n.
LEMMA Cut ==
    ASSUME NEW S, NEW s \in Seq(S), NEW m \in Nat \ {0}, NEW n \in Nat,
           n =< Len(s), m =< n + 1
    PROVE  SubSeq(s, m, n) \in Seq(S) /\ Len(SubSeq(s, m, n)) = n - m + 1
<1>1. Len(s) \in Nat /\ \A i \in 1..Len(s) : s[i] \in S
  BY LenProperties
<1>2. \A i \in m..n : s[i] \in S
  BY <1>1
<1>3. /\ SubSeq(s, m, n) \in Seq(S)
      /\ Len(SubSeq(s, m, n)) = IF m =< n THEN n - m + 1 ELSE 0
  BY <1>2, SubSeqProperties
<1> QED BY <1>3

\* Its beginning.
LEMMA CutTo ==
    ASSUME NEW S, NEW s \in Seq(S), NEW n \in 0..Len(s)
    PROVE  SubSeq(s, 1, n) \in Seq(S) /\ Len(SubSeq(s, 1, n)) = n
<1>1. Len(s) \in Nat BY LenProperties
<1>2. n \in Nat /\ n =< Len(s) /\ 1 =< n + 1 /\ 1 \in Nat \ {0} BY <1>1
<1>3. SubSeq(s, 1, n) \in Seq(S) /\ Len(SubSeq(s, 1, n)) = n - 1 + 1 BY <1>2, Cut
<1> QED BY <1>2, <1>3

\* Its end.
LEMMA CutFrom ==
    ASSUME NEW S, NEW s \in Seq(S), NEW m \in 1..(Len(s) + 1)
    PROVE  SubSeq(s, m, Len(s)) \in Seq(S) /\ Len(SubSeq(s, m, Len(s))) = Len(s) - m + 1
<1>1. Len(s) \in Nat BY LenProperties
<1>2. m \in Nat \ {0} /\ m =< Len(s) + 1 /\ Len(s) =< Len(s) BY <1>1
<1> QED BY <1>1, <1>2, Cut

\* insert_sorted and Vec::insert make the vector one longer.
LEMMA Inserted ==
    ASSUME NEW S, NEW s \in Seq(S), NEW i \in 1..(Len(s) + 1), NEW e \in S
    PROVE  InsertAt(s, i, e) \in Seq(S) /\ Len(InsertAt(s, i, e)) = Len(s) + 1
<1> DEFINE a == SubSeq(s, 1, i - 1)
           b == SubSeq(s, i, Len(s))
<1>1. Len(s) \in Nat BY LenProperties
<1>2. a \in Seq(S) /\ Len(a) = i - 1
  <2>1. i - 1 \in Nat /\ i - 1 =< Len(s) /\ 1 =< (i - 1) + 1 BY <1>1
  <2>2. a \in Seq(S) /\ Len(a) = (i - 1) - 1 + 1 BY <2>1, Cut
  <2> QED BY <2>2
<1>3. b \in Seq(S) /\ Len(b) = Len(s) - i + 1
  <2>1. i \in Nat \ {0} /\ i =< Len(s) + 1 /\ Len(s) =< Len(s) BY <1>1
  <2> QED BY <1>1, <2>1, Cut
<1>4. <<e>> \in Seq(S) /\ Len(<<e>>) = 1 OBVIOUS
<1> HIDE DEF a, b
<1> DEFINE c == a \o <<e>>
<1>5. c \in Seq(S) /\ Len(c) = i
  <2>1. c \in Seq(S) /\ Len(c) = Len(a) + Len(<<e>>) BY <1>2, <1>4, ConcatProperties
  <2> QED BY <1>2, <1>4, <2>1
<1> HIDE DEF c
<1>6. c \o b \in Seq(S) /\ Len(c \o b) = Len(s) + 1
  <2>1. c \o b \in Seq(S) /\ Len(c \o b) = Len(c) + Len(b) BY <1>3, <1>5, ConcatProperties
  <2> QED BY <1>1, <1>3, <1>5, <2>1
<1> QED BY <1>6 DEF InsertAt, a, b, c

\* find_child_index finds a position between the keys or at one of the ends.
LEMMA ChildFound ==
    ASSUME NEW keys \in Seq(Int), NEW k \in Int
    PROVE  FindChild(keys, k) \in 1..(Len(keys) + 1)
<1> DEFINE greater == {i \in DOMAIN keys : k < keys[i]}
<1>1. Len(keys) \in Nat /\ DOMAIN keys = 1..Len(keys) BY LenProperties
<1>2. greater \in SUBSET Nat /\ greater \subseteq 1..Len(keys) BY <1>1
<1>3. FindChild(keys, k) =
        IF greater = {} THEN Len(keys) + 1
        ELSE CHOOSE i \in greater : \A j \in greater : i =< j
  BY DEF FindChild
<1> HIDE DEF greater
<1>4. CASE greater = {} BY <1>1, <1>3, <1>4
<1>5. CASE greater # {}
  <2>1. \E i \in greater : \A j \in greater : i =< j BY <1>2, <1>5, LeastNumber
  <2>2. (CHOOSE i \in greater : \A j \in greater : i =< j) \in greater BY <2>1, Zenon
  <2>3. FindChild(keys, k) \in greater BY <1>3, <1>5, <2>2, Zenon
  <2>4. FindChild(keys, k) \in 1..Len(keys) BY <1>2, <2>3, Zenon
  <2> QED BY <1>1, <2>4
<1> QED BY <1>4, <1>5

------------------------------------------------------------------------------
(* Pages.                                                                  *)

\* What a page of each kind is.
LEMMA PageIs ==
    ASSUME NEW n \in PageSet
    PROVE  /\ n.kind \in {"leaf", "internal", "unreadable", "data"}
           /\ n.parent \in PageId
           /\ n.kind = "leaf" =>
                 /\ n.next \in PageId /\ n.keys \in Seq(Int) /\ n.values \in Seq(Int)
                 /\ n = Leaf(n.parent, n.next, n.keys, n.values)
                 /\ Len(n.keys) = Len(n.values) /\ Len(n.keys) =< MaxKeys
           /\ n.kind = "internal" =>
                 /\ n.keys \in Seq(Int) /\ n.children \in Seq(Nat)
                 /\ n = Internal(n.parent, n.keys, n.children)
                 /\ Len(n.children) = Len(n.keys) + 1 /\ Len(n.keys) \in 1..MaxKeys
           /\ n.kind = "data" => n = Data
<1>0. WellFormed(n) BY DEF PageSet
<1>1. CASE n \in LeafPages
  BY <1>0, <1>1 DEF LeafPages, WellFormed, IsLeaf, IsInternal, Leaf
<1>2. CASE n \in InternalPages
  BY <1>0, <1>2 DEF InternalPages, WellFormed, IsLeaf, IsInternal, Internal
<1>3. CASE n \in UnreadablePages
  BY <1>3 DEF UnreadablePages
<1>4. CASE n = Data
  BY <1>4 DEF Data, PageId
<1> QED BY <1>1, <1>2, <1>3, <1>4 DEF PageSet

\* A leaf within the limits is a page.
LEMMA LeafMade ==
    ASSUME NEW parent \in PageId, NEW next \in PageId,
           NEW keys \in Seq(Int), NEW values \in Seq(Int),
           Len(keys) = Len(values), Len(keys) =< MaxKeys
    PROVE  LET n == Leaf(parent, next, keys, values)
           IN  /\ n \in PageSet /\ n.kind = "leaf"
               /\ n.parent = parent /\ n.next = next
               /\ n.keys = keys /\ n.values = values
<1> DEFINE n == Leaf(parent, next, keys, values)
<1>1. /\ n \in LeafPages /\ n.kind = "leaf"
      /\ n.parent = parent /\ n.next = next
      /\ n.keys = keys /\ n.values = values
  BY DEF Leaf, LeafPages
<1> HIDE DEF n
<1>2. WellFormed(n)
  <2>1. IsLeaf(n) /\ ~IsInternal(n) BY <1>1 DEF IsLeaf, IsInternal
  <2>2. Len(n.keys) = Len(n.values) /\ Len(n.keys) =< MaxKeys BY <1>1
  <2> QED BY <2>1, <2>2 DEF WellFormed
<1>3. n \in PageSet BY <1>1, <1>2 DEF PageSet
<1> QED BY <1>1, <1>3 DEF n

\* So is an internal node.
LEMMA InternalMade ==
    ASSUME NEW parent \in PageId, NEW keys \in Seq(Int), NEW children \in Seq(Nat),
           Len(children) = Len(keys) + 1, Len(keys) \in 1..MaxKeys
    PROVE  LET n == Internal(parent, keys, children)
           IN  /\ n \in PageSet /\ n.kind = "internal"
               /\ n.parent = parent /\ n.keys = keys /\ n.children = children
<1> DEFINE n == Internal(parent, keys, children)
<1>1. /\ n \in InternalPages /\ n.kind = "internal"
      /\ n.parent = parent /\ n.keys = keys /\ n.children = children
  BY DEF Internal, InternalPages
<1> HIDE DEF n
<1>2. WellFormed(n)
  <2>1. ~IsLeaf(n) /\ IsInternal(n) BY <1>1 DEF IsLeaf, IsInternal
  <2>2. Len(n.children) = Len(n.keys) + 1 /\ Len(n.keys) \in 1..MaxKeys BY <1>1
  <2> QED BY <2>1, <2>2 DEF WellFormed
<1>3. n \in PageSet BY <1>1, <1>2 DEF PageSet
<1> QED BY <1>1, <1>3 DEF n

\* And what cannot be read.
LEMMA UnreadableMade ==
    ASSUME NEW parent \in PageId
    PROVE  /\ Unreadable(parent) \in PageSet
           /\ Unreadable(parent).kind = "unreadable" /\ Unreadable(parent).parent = parent
BY DEF Unreadable, UnreadablePages, PageSet, WellFormed, IsLeaf, IsInternal

\* A data page.
LEMMA DataMade == Data \in PageSet /\ Data.kind = "data" /\ Data.parent = None
BY DEF Data, PageSet, WellFormed, IsLeaf, IsInternal

\* write_page: a page replaced, or one more at the end.
LEMMA StoredIs ==
    ASSUME NEW file \in Seq(PageSet), NEW p \in 1..(Len(file) + 1), NEW n \in PageSet
    PROVE  LET f == Stored(file, p, n)
           IN  /\ f \in Seq(PageSet) /\ f[p] = n
               /\ Len(f) = IF p = Len(file) + 1 THEN Len(file) + 1 ELSE Len(file)
               /\ \A q \in 1..Len(file) : q # p => f[q] = file[q]
<1>1. Len(file) \in Nat /\ DOMAIN file = 1..Len(file) BY LenProperties
<1> DEFINE f == Stored(file, p, n)
<1>2. CASE p = Len(file) + 1
  <2>1. p \notin DOMAIN file BY <1>1, <1>2
  <2>2. f = Append(file, n) BY <2>1 DEF Stored
  <2> HIDE DEF f
  <2>3. /\ f \in Seq(PageSet) /\ Len(f) = Len(file) + 1 /\ f[p] = n
        /\ \A q \in 1..Len(file) : f[q] = file[q]
    BY <1>2, <2>2, AppendProperties
  <2> QED BY <1>2, <2>3 DEF f
<1>3. CASE p \in 1..Len(file)
  <2>1. p # Len(file) + 1 /\ p \in DOMAIN file BY <1>1, <1>3
  <2>2. f = [file EXCEPT ![p] = n] BY <2>1 DEF Stored
  <2> HIDE DEF f
  <2>3. f \in Seq(PageSet) /\ Len(f) = Len(file)
    BY <1>3, <2>2, ExceptSeq
  <2>4. f[p] = n /\ \A q \in 1..Len(file) : q # p => f[q] = file[q]
    BY <1>1, <1>3, <2>2
  <2> QED BY <2>1, <2>3, <2>4 DEF f
<1> QED BY <1>1, <1>2, <1>3

------------------------------------------------------------------------------
(* What every write to the tree has in common.                             *)

\* A node is replaced by one of its kind, or becomes unreadable; pages are added
\* at the end.
Kept ==
    /\ pages' \in Seq(PageSet) /\ Len(pages) =< Len(pages')
    /\ \A q \in DOMAIN pages :
          \/ pages'[q].kind = pages[q].kind
          \/ pages[q].kind # "data" /\ pages'[q].kind = "unreadable"

\* The types the steps below use.
LEMMA FiledIs ==
    ASSUME Filed
    PROVE  /\ pages \in Seq(PageSet) /\ Len(pages) \in Nat
           /\ DOMAIN pages = 1..Len(pages)
           /\ \A q \in DOMAIN pages : pages[q] \in PageSet
           /\ NewPage = Len(pages) + 1
BY LenProperties DEF Filed, NewPage

\* What Kept says of the new file.
LEMMA KeptIs ==
    ASSUME Filed, Kept
    PROVE  /\ Len(pages') \in Nat /\ DOMAIN pages' = 1..Len(pages')
           /\ \A q \in DOMAIN pages' : pages'[q] \in PageSet
           /\ DOMAIN pages \subseteq DOMAIN pages'
<1>1. Len(pages) \in Nat /\ DOMAIN pages = 1..Len(pages) BY FiledIs
<1>2. /\ Len(pages') \in Nat /\ DOMAIN pages' = 1..Len(pages')
      /\ \A q \in DOMAIN pages' : pages'[q] \in PageSet
  BY LenProperties DEF Kept
<1> QED BY <1>1, <1>2 DEF Kept

\* Data pages stay as they are.
LEMMA DataKept ==
    ASSUME Filed, Kept, NEW q \in DOMAIN pages, pages[q] = Data
    PROVE  q \in DOMAIN pages' /\ pages'[q] = Data
<1>1. q \in DOMAIN pages' /\ pages'[q] \in PageSet BY KeptIs
<1>2. pages'[q].kind = "data" BY DataMade DEF Kept
<1> QED BY <1>1, <1>2, PageIs

\* During an insert, the pointers of a node keep leading where they may.
LEMMA LinksKept ==
    ASSUME Filed, Kept, op # NoOp, NEW n, Links(n)
    PROVE  Links(n)'
<1>1. ASSUME NEW p, NEW kinds, "unreadable" \in kinds, LeadsTo(p, kinds)
      PROVE  LeadsTo(p, kinds)'
  <2>1. p \in DOMAIN pages /\ pages[p].kind \in kinds BY <1>1 DEF LeadsTo
  <2>2. p \in DOMAIN pages' BY <2>1, KeptIs
  <2>3. pages'[p].kind \in kinds BY <1>1, <2>1 DEF Kept
  <2> QED BY <2>2, <2>3 DEF LeadsTo
<1>2. ASSUME NEW p \in DOMAIN pages, pages[p].kind # "data"
      PROVE  p \in DOMAIN pages' /\ pages'[p].kind # "data"
  BY <1>2, KeptIs DEF Kept
<1>3. n.parent # None => LeadsTo(n.parent, {"internal", "data", "unreadable"})'
  BY <1>1 DEF Links
<1>4. ASSUME IsInternal(n), n.parent = None, NEW i \in DOMAIN n.children
      PROVE  n.children[i] \in DOMAIN pages' /\ pages'[n.children[i]].kind # "data"
  BY <1>2, <1>4 DEF Links
<1> QED BY <1>3, <1>4 DEF Links, IsInternal

\* A step of an insert that keeps the pages and whose new nodes have pointers
\* that may be there.
LEMMA TreeStep ==
    ASSUME Filed, Entered, Kept, op # NoOp,
           op.value \in DOMAIN pages, pages[op.value] = Data,
           \A q \in DOMAIN pages' :
              \/ q \in DOMAIN pages /\ pages'[q] = pages[q]
              \/ \E n : n = pages'[q] /\ Links(n)',
           root' \in DOMAIN pages', pages'[root'].kind # "data",
           entries' \subseteq entries \cup {<<op.key, op.value>>}
    PROVE  Filed' /\ Entered'
<1>1. ASSUME NEW q \in DOMAIN pages'
      PROVE  \E n : n = pages'[q] /\ Links(n)'
  <2>1. CASE q \in DOMAIN pages /\ pages'[q] = pages[q]
    <3>1. PICK n : n = pages[q] OBVIOUS
    <3>2. Links(n) BY <2>1, <3>1 DEF Filed
    <3>3. Links(n)' BY <3>2, LinksKept
    <3> QED BY <2>1, <3>1, <3>3
  <2> QED BY <2>1
<1>2. \A q \in DOMAIN pages' : Links(pages[q])'
  BY <1>1 DEF Links, LeadsTo, IsLeaf, IsInternal
<1>3. Filed' BY <1>2 DEF Filed, Kept
<1>4. Entered'
  <2>1. ASSUME NEW e \in entries' PROVE e[2] \in DOMAIN pages' /\ pages'[e[2]] = Data
    <3>1. e[2] \in DOMAIN pages /\ pages[e[2]] = Data BY DEF Entered
    <3> QED BY <3>1, DataKept
  <2> QED BY <2>1 DEF Entered
<1> QED BY <1>3, <1>4

\* A step that leaves the file alone.
LEMMA SameKept == ASSUME Filed, pages' = pages PROVE Kept
BY FiledIs DEF Kept

\* One page replaced by a node of its kind, or by what cannot be read.
LEMMA OneKept ==
    ASSUME Filed, NEW p \in DOMAIN pages, NEW n \in PageSet,
           pages[p].kind # "data", n.kind \in {pages[p].kind, "unreadable"},
           pages' = Stored(pages, p, n)
    PROVE  /\ Kept /\ Len(pages') = Len(pages) /\ pages'[p] = n
           /\ DOMAIN pages' = DOMAIN pages
           /\ \A q \in DOMAIN pages : q # p => pages'[q] = pages[q]
<1>1. /\ pages \in Seq(PageSet) /\ Len(pages) \in Nat /\ DOMAIN pages = 1..Len(pages)
  BY FiledIs
<1>2. p \in 1..(Len(pages) + 1) /\ p # Len(pages) + 1 BY <1>1
<1>3. /\ pages' \in Seq(PageSet) /\ pages'[p] = n /\ Len(pages') = Len(pages)
      /\ \A q \in 1..Len(pages) : q # p => pages'[q] = pages[q]
  BY <1>1, <1>2, StoredIs
<1>4. DOMAIN pages' = 1..Len(pages') BY <1>3, LenProperties
<1>5. Kept BY <1>1, <1>3 DEF Kept
<1> QED BY <1>1, <1>3, <1>4, <1>5

\* A split: one page replaced, one added.
LEMMA SplitKept ==
    ASSUME Filed, NEW p \in DOMAIN pages, NEW left \in PageSet, NEW right \in PageSet,
           pages[p].kind # "data", left.kind = pages[p].kind,
           pages' = Stored(Stored(pages, p, left), NewPage, right)
    PROVE  /\ Kept /\ Len(pages') = Len(pages) + 1
           /\ pages'[p] = left /\ pages'[NewPage] = right /\ NewPage # p
           /\ DOMAIN pages' = DOMAIN pages \cup {NewPage}
           /\ \A q \in DOMAIN pages : q # p => pages'[q] = pages[q]
<1> DEFINE f == Stored(pages, p, left)
           L == Len(pages)
<1>1. pages \in Seq(PageSet) /\ L \in Nat /\ DOMAIN pages = 1..L /\ NewPage = L + 1
  BY FiledIs
<1>2. p \in 1..(L + 1) /\ p # L + 1 BY <1>1
<1>3. /\ f \in Seq(PageSet) /\ f[p] = left /\ Len(f) = L
      /\ \A q \in 1..L : q # p => f[q] = pages[q]
  BY <1>1, <1>2, StoredIs
<1> HIDE DEF f, L
<1>4. L + 1 \in 1..(Len(f) + 1) BY <1>1, <1>3
<1>5. pages' = Stored(f, L + 1, right) BY <1>1 DEF f
<1>6. /\ pages' \in Seq(PageSet) /\ pages'[L + 1] = right /\ Len(pages') = L + 1
      /\ \A q \in 1..L : q # L + 1 => pages'[q] = f[q]
  <2> DEFINE g == Stored(f, L + 1, right)
  <2>1. /\ g \in Seq(PageSet) /\ g[L + 1] = right
        /\ Len(g) = IF L + 1 = Len(f) + 1 THEN Len(f) + 1 ELSE Len(f)
        /\ \A q \in 1..Len(f) : q # L + 1 => g[q] = f[q]
    BY <1>3, <1>4, StoredIs
  <2> HIDE DEF g
  <2>2. pages' = g BY <1>5 DEF g
  <2> QED BY <1>3, <2>1, <2>2
<1>7. \A q \in 1..L : pages'[q] = f[q] BY <1>1, <1>6
<1>8. DOMAIN pages' = 1..(L + 1) BY <1>6, LenProperties
<1>9. pages'[p] = left /\ \A q \in DOMAIN pages : q # p => pages'[q] = pages[q]
  BY <1>1, <1>2, <1>3, <1>7
<1>10. L =< L + 1 BY <1>1
<1>11. Kept BY <1>6, <1>9, <1>10 DEF Kept, L
<1>12. 1..(L + 1) = 1..L \cup {L + 1} BY <1>1
<1>13. /\ DOMAIN pages' = DOMAIN pages \cup {NewPage}
       /\ pages'[NewPage] = right /\ NewPage # p
  BY <1>1, <1>2, <1>6, <1>8, <1>12
<1>14. Len(pages') = Len(pages) + 1 BY <1>6 DEF L
<1> QED BY <1>9, <1>11, <1>13, <1>14

------------------------------------------------------------------------------
(* The operation in progress.                                              *)

\* An insert that looks for its leaf or has found it.
LEMMA DownIs ==
    ASSUME BInv, op.at \in {"descend", "leaf"}
    PROVE  /\ Descending /\ op # NoOp
           /\ op.key \in Key /\ op.key \in Int /\ op.value \in Nat /\ op.page \in Nat
           /\ op = [at |-> op.at, key |-> op.key, value |-> op.value, page |-> op.page]
           /\ op.value \in DOMAIN pages /\ pages[op.value] = Data
<1>1. op # NoOp BY DEF NoOp
<1>2. ~Ascending BY DEF Ascending
<1>3. Descending BY <1>1, <1>2 DEF BInv, Working
<1>4. op \in [at : {"descend", "leaf"}, key : Key, value : Nat, page : Nat]
  BY <1>3 DEF Descending
<1>5. /\ op.key \in Key /\ op.value \in Nat /\ op.page \in Nat
      /\ op = [at |-> op.at, key |-> op.key, value |-> op.value, page |-> op.page]
  BY <1>4
<1>6. op.key \in Int BY <1>5, BTreeAssumption
<1> QED BY <1>1, <1>3, <1>5, <1>6 DEF Descending

\* An insert that passes a split on to the parent.
LEMMA UpIs ==
    ASSUME BInv, op.at \in {"parent", "new_root"}
    PROVE  /\ Ascending /\ op # NoOp
           /\ op.key \in Key /\ op.value \in Nat
           /\ op.left \in Nat /\ op.sep \in Int /\ op.right \in Nat
           /\ op = [at |-> op.at, key |-> op.key, value |-> op.value,
                    left |-> op.left, sep |-> op.sep, right |-> op.right]
           /\ op.value \in DOMAIN pages /\ pages[op.value] = Data
<1>1. op # NoOp BY DEF NoOp
<1>2. ~Descending BY DEF Descending
<1>3. Ascending BY <1>1, <1>2 DEF BInv, Working
<1>4. op \in [at : {"parent", "new_root"}, key : Key, value : Nat,
              left : Nat, sep : Int, right : Nat]
  BY <1>3 DEF Ascending
<1>5. /\ op.key \in Key /\ op.value \in Nat
      /\ op.left \in Nat /\ op.sep \in Int /\ op.right \in Nat
      /\ op = [at |-> op.at, key |-> op.key, value |-> op.value,
               left |-> op.left, sep |-> op.sep, right |-> op.right]
  BY <1>4
<1> QED BY <1>1, <1>3, <1>5 DEF Ascending

\* A write, or a failed write, counts as one fault at most.
LEMMA FaultsCounted ==
    ASSUME BInv, inserts' = inserts,
           faults' = faults \/ (faults < MaxFaults /\ faults' = faults + 1)
    PROVE  Counted'
<1>1. faults \in 0..MaxFaults /\ inserts \in 0..MaxInserts /\ MaxFaults \in Nat
  BY BTreeAssumption DEF BInv, Counted
<1> QED BY <1>1 DEF Counted

\* The engine has written a data page: pointers to the end of the file lead there.
LEMMA InsertStep ==
    ASSUME BInv, NEW k \in Key, Insert(k)
    PROVE  BInv'
<1>1. /\ op = NoOp /\ inserts < MaxInserts /\ inserts' = inserts + 1
      /\ pages' = Append(pages, Data)
      /\ op' = [at |-> "descend", key |-> k, value |-> NewPage, page |-> root]
      /\ UNCHANGED <<root, faults, entries>>
  BY DEF Insert
<1>2. /\ Filed /\ pages \in Seq(PageSet) /\ Len(pages) \in Nat
      /\ DOMAIN pages = 1..Len(pages) /\ NewPage = Len(pages) + 1
  BY FiledIs DEF BInv
<1>3. /\ pages' \in Seq(PageSet) /\ Len(pages') = Len(pages) + 1
      /\ \A q \in 1..Len(pages) : pages'[q] = pages[q]
      /\ pages'[Len(pages) + 1] = Data
  BY <1>1, <1>2, DataMade, AppendProperties
<1>4. DOMAIN pages' = DOMAIN pages \cup {NewPage}
  <2>1. DOMAIN pages' = 1..(Len(pages) + 1) BY <1>3, LenProperties
  <2> QED BY <1>2, <2>1
<1>5. /\ \A q \in DOMAIN pages : q \in DOMAIN pages' /\ pages'[q] = pages[q]
      /\ pages'[NewPage] = Data /\ NewPage \in DOMAIN pages'
  BY <1>2, <1>3, <1>4
<1>6. ASSUME NEW n, Links(n) PROVE Links(n)'
  <2>1. ASSUME NEW p, NEW kinds, "data" \in kinds, LeadsTo(p, kinds)
        PROVE  LeadsTo(p, kinds)'
    <3>1. CASE p \in DOMAIN pages /\ pages[p].kind \in kinds
      BY <1>5, <3>1 DEF LeadsTo
    <3>2. CASE p = Len(pages) + 1
      BY <1>2, <1>5, <2>1, <3>2, DataMade DEF LeadsTo
    <3> QED BY <2>1, <3>1, <3>2 DEF LeadsTo
  <2>2. n.parent # None => LeadsTo(n.parent, {"internal", "data", "unreadable"})'
    BY <1>6, <2>1 DEF Links
  <2>3. ASSUME IsInternal(n), n.parent = None, NEW i \in DOMAIN n.children
        PROVE  n.children[i] \in DOMAIN pages' /\ pages'[n.children[i]].kind # "data"
    BY <1>5, <1>6, <2>3 DEF Links
  <2> QED BY <2>2, <2>3 DEF Links, IsInternal
<1>7. ASSUME NEW q \in DOMAIN pages' PROVE \E n : n = pages'[q] /\ Links(n)'
  <2>1. CASE q \in DOMAIN pages
    <3>1. PICK n : n = pages[q] OBVIOUS
    <3>2. Links(n) BY <1>2, <2>1, <3>1 DEF Filed
    <3> QED BY <1>5, <1>6, <2>1, <3>1, <3>2
  <2>2. CASE q = NewPage
    <3>1. Links(Data)' BY DataMade DEF Links, IsLeaf, IsInternal
    <3> QED BY <1>5, <2>2, <3>1
  <2> QED BY <1>4, <2>1, <2>2
<1>8. Filed'
  <2>1. \A q \in DOMAIN pages' : Links(pages[q])'
    BY <1>7 DEF Links, LeadsTo, IsLeaf, IsInternal
  <2> QED BY <1>1, <1>2, <1>3, <1>5, <2>1 DEF Filed
<1>9. Entered'
  BY <1>1, <1>5 DEF BInv, Entered
<1>10. Descending'
  <2>1. /\ NewPage \in Nat /\ root \in Nat /\ root \in DOMAIN pages
        /\ pages[root].kind # "data"
    BY <1>2 DEF Filed
  <2>2. /\ op' \in [at : {"descend", "leaf"}, key : Key, value : Nat, page : Nat]
        /\ op'.at = "descend" /\ op'.value = NewPage /\ op'.page = root
    BY <1>1, <2>1
  <2> QED BY <1>5, <2>1, <2>2 DEF Descending
<1>11. Counted'
  BY <1>1, BTreeAssumption DEF BInv, Counted
<1> QED BY <1>8, <1>9, <1>10, <1>11 DEF BInv, Working

\* One node of the way down.
LEMMA DescendStep ==
    ASSUME BInv, Descend
    PROVE  BInv'
<1> DEFINE node == Read(op.page)
<1>1. /\ op.at = "descend" /\ UNCHANGED <<pages, root, inserts, faults, entries>>
      /\ op' = IF IsInternal(node)
               THEN [op EXCEPT !.page = node.children[FindChild(node.keys, op.key)]]
               ELSE IF IsLeaf(node) THEN [op EXCEPT !.at = "leaf"] ELSE NoOp
  BY DEF Descend
<1>2. /\ Descending /\ op # NoOp /\ op.key \in Key /\ op.key \in Int
      /\ op.value \in Nat /\ op.page \in Nat
      /\ op = [at |-> op.at, key |-> op.key, value |-> op.value, page |-> op.page]
      /\ op.value \in DOMAIN pages /\ pages[op.value] = Data
  BY <1>1, DownIs
<1>3. Filed /\ Entered BY DEF BInv
<1>4. Filed' /\ Entered'
  <2>1. Kept BY <1>1, <1>3, SameKept
  <2>2. root' \in DOMAIN pages' /\ pages'[root'].kind # "data" BY <1>1, <1>3 DEF Filed
  <2> QED BY <1>1, <1>2, <1>3, <2>1, <2>2, TreeStep
<1>5. Counted' BY <1>1, FaultsCounted
<1>6. IsInternal(node) \/ IsLeaf(node) =>
        op.page \in DOMAIN pages /\ node = pages[op.page] /\ node \in PageSet
  <2>1. CASE op.page \in DOMAIN pages
    BY <1>3, <2>1, FiledIs DEF Read
  <2>2. CASE op.page \notin DOMAIN pages
    <3>1. node = Unreadable(None) BY <2>2 DEF Read
    <3>2. node.kind = "unreadable" BY <3>1 DEF Unreadable
    <3> QED BY <3>2 DEF IsInternal, IsLeaf
  <2> QED BY <2>1, <2>2
<1>7. CASE IsInternal(node)
  <2> DEFINE i == FindChild(node.keys, op.key)
             c == node.children[i]
  <2>1. /\ node.keys \in Seq(Int) /\ node.children \in Seq(Nat)
        /\ Len(node.children) = Len(node.keys) + 1
    BY <1>6, <1>7, PageIs DEF IsInternal
  <2>2. i \in 1..Len(node.children) BY <1>2, <2>1, ChildFound
  <2>3. i \in DOMAIN node.children /\ c \in Nat BY <2>1, <2>2, LenProperties
  <2>4. op' = [op EXCEPT !.page = c] BY <1>1, <1>7
  <2> HIDE DEF c, i, node
  <2>5. op' = [at |-> "descend", key |-> op.key, value |-> op.value, page |-> c]
    BY <1>1, <1>2, <2>4
  <2>6. /\ op' \in [at : {"descend", "leaf"}, key : Key, value : Nat, page : Nat]
        /\ op'.at = "descend" /\ op'.value = op.value
    BY <1>2, <2>3, <2>5
  <2>7. Descending' BY <1>1, <1>2, <2>6 DEF Descending
  <2> QED BY <1>4, <1>5, <2>7 DEF BInv, Working
<1>8. CASE IsLeaf(node) /\ ~IsInternal(node)
  <2>1. pages[op.page].kind = "leaf" /\ op.page \in DOMAIN pages BY <1>6, <1>8 DEF IsLeaf
  <2>2. op' = [op EXCEPT !.at = "leaf"] BY <1>1, <1>8
  <2> HIDE DEF node
  <2>3. op' = [at |-> "leaf", key |-> op.key, value |-> op.value, page |-> op.page]
    BY <1>2, <2>2
  <2>4. /\ op' \in [at : {"descend", "leaf"}, key : Key, value : Nat, page : Nat]
        /\ op'.at = "leaf" /\ op'.value = op.value /\ op'.page = op.page
    BY <1>2, <2>3
  <2>5. Descending' BY <1>1, <1>2, <2>1, <2>4 DEF Descending
  <2> QED BY <1>4, <1>5, <2>5 DEF BInv, Working
<1>9. CASE ~IsLeaf(node) /\ ~IsInternal(node)
  BY <1>1, <1>4, <1>5, <1>9 DEF BInv, Working
<1> QED BY <1>7, <1>8, <1>9

------------------------------------------------------------------------------
(* The writes.                                                             *)

\* A failed write ends the insert.
Failed == faults < MaxFaults /\ faults' = faults + 1 /\ op' = NoOp

\* The insert ends, with Ok or because its last write failed.
Ends == op' = NoOp /\ (faults' = faults \/ Failed)

\* One write: it happens; or it fails, and has happened or not.
LEMMA WriteOne ==
    ASSUME NEW f, NEW next, WriteAll(<<f>>, next)
    PROVE  \/ pages' = f /\ op' = next /\ faults' = faults
           \/ Failed /\ (pages' = pages \/ pages' = f)
<1> DEFINE s == <<f>>
<1>1. Len(s) = 1 /\ s[1] = f OBVIOUS
<1>2. WriteAll(s, next) OBVIOUS
<1> HIDE DEF s
<1>3. CASE pages' = s[Len(s)] /\ op' = next /\ UNCHANGED faults
  BY <1>1, <1>3
<1>4. CASE /\ faults < MaxFaults /\ faults' = faults + 1 /\ op' = NoOp
           /\ \E n \in 0..Len(s) : pages' = IF n = 0 THEN pages ELSE s[n]
  <2>1. PICK n \in 0..1 : pages' = IF n = 0 THEN pages ELSE s[n] BY <1>1, <1>4
  <2>2. CASE n = 0 BY <1>4, <2>1, <2>2 DEF Failed
  <2>3. CASE n = 1 BY <1>1, <1>4, <2>1, <2>3 DEF Failed
  <2> QED BY <2>2, <2>3
<1> QED BY <1>2, <1>3, <1>4 DEF WriteAll

\* Two writes: both; or those before the one that fails, with that one or without.
LEMMA WriteTwo ==
    ASSUME NEW f, NEW g, NEW next, WriteAll(<<f, g>>, next)
    PROVE  \/ pages' = g /\ op' = next /\ faults' = faults
           \/ Failed /\ (pages' = pages \/ pages' = f \/ pages' = g)
<1> DEFINE s == <<f, g>>
<1>1. Len(s) = 2 /\ s[1] = f /\ s[2] = g OBVIOUS
<1>2. WriteAll(s, next) OBVIOUS
<1> HIDE DEF s
<1>3. CASE pages' = s[Len(s)] /\ op' = next /\ UNCHANGED faults
  BY <1>1, <1>3
<1>4. CASE /\ faults < MaxFaults /\ faults' = faults + 1 /\ op' = NoOp
           /\ \E n \in 0..Len(s) : pages' = IF n = 0 THEN pages ELSE s[n]
  <2>1. PICK n \in 0..2 : pages' = IF n = 0 THEN pages ELSE s[n] BY <1>1, <1>4
  <2>2. CASE n = 0 BY <1>4, <2>1, <2>2 DEF Failed
  <2>3. CASE n = 1 BY <1>1, <1>4, <2>1, <2>3 DEF Failed
  <2>4. CASE n = 2 BY <1>1, <1>4, <2>1, <2>4 DEF Failed
  <2> QED BY <2>2, <2>3, <2>4
<1> QED BY <1>2, <1>3, <1>4 DEF WriteAll

\* Three writes: the same.
LEMMA WriteThree ==
    ASSUME NEW f, NEW g, NEW h, NEW next, WriteAll(<<f, g, h>>, next)
    PROVE  \/ pages' = h /\ op' = next /\ faults' = faults
           \/ Failed /\ (pages' = pages \/ pages' = f \/ pages' = g \/ pages' = h)
<1> DEFINE s == <<f, g, h>>
<1>1. Len(s) = 3 /\ s[1] = f /\ s[2] = g /\ s[3] = h OBVIOUS
<1>2. WriteAll(s, next) OBVIOUS
<1> HIDE DEF s
<1>3. CASE pages' = s[Len(s)] /\ op' = next /\ UNCHANGED faults
  BY <1>1, <1>3
<1>4. CASE /\ faults < MaxFaults /\ faults' = faults + 1 /\ op' = NoOp
           /\ \E n \in 0..Len(s) : pages' = IF n = 0 THEN pages ELSE s[n]
  <2>1. PICK n \in 0..3 : pages' = IF n = 0 THEN pages ELSE s[n] BY <1>1, <1>4
  <2>2. CASE n = 0 BY <1>4, <2>1, <2>2 DEF Failed
  <2>3. CASE n = 1 BY <1>1, <1>4, <2>1, <2>3 DEF Failed
  <2>4. CASE n = 2 BY <1>1, <1>4, <2>1, <2>4 DEF Failed
  <2>5. CASE n = 3 BY <1>1, <1>4, <2>1, <2>5 DEF Failed
  <2> QED BY <2>2, <2>3, <2>4, <2>5
<1> QED BY <1>2, <1>3, <1>4 DEF WriteAll

\* A first write that fails leaves nothing behind.
LEMMA NothingWritten ==
    ASSUME BInv, Failed, pages' = pages, root' = root, inserts' = inserts, op # NoOp,
           op.value \in DOMAIN pages, pages[op.value] = Data,
           entries' \subseteq entries \cup {<<op.key, op.value>>}
    PROVE  BInv'
<1>1. Kept /\ Filed /\ Entered BY SameKept DEF BInv
<1>2. root' \in DOMAIN pages' /\ pages'[root'].kind # "data" BY <1>1 DEF Filed
<1>3. Filed' /\ Entered' BY <1>1, <1>2, TreeStep
<1>4. Counted' BY FaultsCounted DEF Failed
<1> QED BY <1>3, <1>4 DEF BInv, Working, Failed

\* The root stays a node.
LEMMA RootKept ==
    ASSUME Filed, Kept, root' = root
    PROVE  root' \in DOMAIN pages' /\ pages'[root'].kind # "data"
BY KeptIs DEF Filed, Kept

\* The new entry makes the leaf one longer.
LEMMA EntryAdded ==
    ASSUME NEW leaf \in PageSet, leaf.kind = "leaf", NEW k \in Int, NEW v \in Int
    PROVE  LET n == WithEntry(leaf, k, v)
           IN  /\ n = Leaf(leaf.parent, leaf.next, n.keys, n.values)
               /\ n.kind = "leaf" /\ n.parent = leaf.parent /\ n.next = leaf.next
               /\ n.keys \in Seq(Int) /\ n.values \in Seq(Int)
               /\ Len(n.keys) = Len(leaf.keys) + 1 /\ Len(n.values) = Len(n.keys)
               /\ Len(leaf.keys) \in 0..MaxKeys
<1> DEFINE pos == FindChild(leaf.keys, k)
           ks == InsertAt(leaf.keys, pos, k)
           vs == InsertAt(leaf.values, pos, v)
           n == WithEntry(leaf, k, v)
<1>1. /\ leaf.keys \in Seq(Int) /\ leaf.values \in Seq(Int)
      /\ Len(leaf.keys) = Len(leaf.values) /\ Len(leaf.keys) =< MaxKeys
  BY PageIs
<1>2. pos \in 1..(Len(leaf.keys) + 1) BY <1>1, ChildFound
<1>3. ks \in Seq(Int) /\ Len(ks) = Len(leaf.keys) + 1 BY <1>1, <1>2, Inserted
<1>4. vs \in Seq(Int) /\ Len(vs) = Len(leaf.keys) + 1 BY <1>1, <1>2, Inserted
<1>5. n = Leaf(leaf.parent, leaf.next, ks, vs) BY DEF WithEntry
<1> HIDE DEF pos, ks, vs, n
<1>6. /\ n.keys = ks /\ n.values = vs /\ n.kind = "leaf"
      /\ n.parent = leaf.parent /\ n.next = leaf.next
  BY <1>5 DEF Leaf
<1>7. Len(leaf.keys) \in 0..MaxKeys BY <1>1, LenProperties, BTreeAssumption
<1> QED BY <1>3, <1>4, <1>5, <1>6, <1>7 DEF n

\* insert into a leaf that has room.
LEMMA LeafStep ==
    ASSUME BInv, InsertIntoLeaf
    PROVE  BInv'
<1> DEFINE old == pages[op.page]
           n == WithEntry(old, op.key, op.value)
<1>1. /\ op.at = "leaf" /\ root' = root /\ inserts' = inserts
      /\ entries' \subseteq entries \cup {<<op.key, op.value>>}
  BY DEF InsertIntoLeaf, Succeeds
<1>2. /\ Descending /\ op # NoOp /\ op.key \in Int /\ op.value \in Nat
      /\ op.value \in DOMAIN pages /\ pages[op.value] = Data
  BY <1>1, DownIs
<1>3. op.page \in DOMAIN pages /\ old.kind = "leaf" BY <1>1, <1>2 DEF Descending
<1>4. Filed /\ Entered /\ old \in PageSet BY <1>3, FiledIs DEF BInv
<1>5. Len(n.keys) =< MaxKeys /\ WriteAll(<<Stored(pages, op.page, n)>>, NoOp)
  BY <1>3 DEF InsertIntoLeaf, Read
<1>6. /\ n.kind = "leaf" /\ n.parent = old.parent /\ n.next = old.next /\ n \in PageSet
  <2>1. /\ n = Leaf(old.parent, old.next, n.keys, n.values)
        /\ n.kind = "leaf" /\ n.parent = old.parent /\ n.next = old.next
        /\ n.keys \in Seq(Int) /\ n.values \in Seq(Int) /\ Len(n.values) = Len(n.keys)
    BY <1>2, <1>3, <1>4, EntryAdded
  <2>2. old.parent \in PageId /\ old.next \in PageId BY <1>3, <1>4, PageIs
  <2> HIDE DEF n
  <2>3. n \in PageSet BY <1>5, <2>1, <2>2, LeafMade
  <2> QED BY <2>1, <2>3
<1> HIDE DEF n
<1>7. CASE pages' = Stored(pages, op.page, n) /\ op' = NoOp /\ (faults' = faults \/ Failed)
  <2>1. /\ Kept /\ pages'[op.page] = n /\ DOMAIN pages' = DOMAIN pages
        /\ \A q \in DOMAIN pages : q # op.page => pages'[q] = pages[q]
    BY <1>3, <1>4, <1>6, <1>7, OneKept
  <2>2. Links(old) BY <1>3, <1>4 DEF Filed
  <2>3. \E m : m = n /\ Links(m)'
    <3>1. PICK m : m = n OBVIOUS
    <3>2. Links(m) BY <1>3, <1>6, <2>2, <3>1 DEF Links, IsLeaf, IsInternal
    <3> QED BY <1>2, <1>4, <2>1, <3>1, <3>2, LinksKept
  <2>4. Filed' /\ Entered'
    BY <1>1, <1>2, <1>4, <2>1, <2>3, RootKept, TreeStep
  <2>5. Counted' BY <1>1, <1>7, FaultsCounted DEF Failed
  <2> QED BY <1>7, <2>4, <2>5 DEF BInv, Working
<1>8. CASE Failed /\ pages' = pages
  BY <1>1, <1>2, <1>8, NothingWritten
<1> QED BY <1>5, <1>7, <1>8, WriteOne DEF Failed

\* split_leaf.
LEMMA SplitLeafStep ==
    ASSUME BInv, SplitLeaf
    PROVE  BInv'
<1> DEFINE old == pages[op.page]
           n == WithEntry(old, op.key, op.value)
           mid == Len(n.keys) \div 2
           left == Leaf(n.parent, NewPage, SubSeq(n.keys, 1, mid), SubSeq(n.values, 1, mid))
           right == Leaf(n.parent, n.next, SubSeq(n.keys, mid + 1, Len(n.keys)),
                         SubSeq(n.values, mid + 1, Len(n.values)))
           up == [at |-> "parent", key |-> op.key, value |-> op.value,
                  left |-> op.page, sep |-> right.keys[1], right |-> NewPage]
<1>1. op.at = "leaf" /\ root' = root /\ inserts' = inserts /\ entries' = entries
  BY DEF SplitLeaf
<1>2. /\ Descending /\ op # NoOp /\ op.key \in Key /\ op.key \in Int
      /\ op.value \in Nat /\ op.page \in Nat
      /\ op.value \in DOMAIN pages /\ pages[op.value] = Data
  BY <1>1, DownIs
<1>3. op.page \in DOMAIN pages /\ old.kind = "leaf" BY <1>1, <1>2 DEF Descending
<1>4. Filed /\ Entered /\ old \in PageSet /\ NewPage = Len(pages) + 1 /\ Len(pages) \in Nat
  BY <1>3, FiledIs DEF BInv
<1>5. /\ Len(n.keys) > MaxKeys
      /\ WriteAll(<<Stored(pages, op.page, left),
                    Stored(Stored(pages, op.page, left), NewPage, right)>>, up)
  BY <1>3 DEF SplitLeaf, Read
<1>6. /\ n.kind = "leaf" /\ n.parent = old.parent /\ n.next = old.next
      /\ n.keys \in Seq(Int) /\ n.values \in Seq(Int)
      /\ Len(n.keys) = Len(old.keys) + 1 /\ Len(n.values) = Len(n.keys)
      /\ Len(old.keys) \in 0..MaxKeys
  <2>1. op.value \in Int BY <1>2
  <2> HIDE DEF old
  <2> QED BY <1>2, <1>3, <1>4, <2>1, EntryAdded
<1> HIDE DEF n
<1>7. /\ MaxKeys \in Nat /\ MaxKeys >= 2
      /\ Len(n.keys) = MaxKeys + 1 /\ mid \in 1..MaxKeys
      /\ Len(n.keys) - mid \in 1..MaxKeys
  <2>1. MaxKeys \in Nat /\ MaxKeys >= 2 BY BTreeAssumption
  <2>2. Len(n.keys) > MaxKeys BY <1>5
  <2>3. PICK k \in 0..MaxKeys : Len(n.keys) = k + 1 BY <1>6
  <2>4. Len(n.keys) = MaxKeys + 1 BY <2>1, <2>2, <2>3
  <2> QED BY <2>1, <2>4
<1> HIDE DEF mid
<1>8. old.parent \in PageId /\ old.next \in PageId /\ NewPage \in PageId
  BY <1>3, <1>4, PageIs DEF PageId
<1> DEFINE lk == SubSeq(n.keys, 1, mid)
           lv == SubSeq(n.values, 1, mid)
           rk == SubSeq(n.keys, mid + 1, Len(n.keys))
           rv == SubSeq(n.values, mid + 1, Len(n.values))
<1>9. lk \in Seq(Int) /\ Len(lk) = mid /\ lv \in Seq(Int) /\ Len(lv) = mid
  <2>1. 1 \in Nat \ {0} /\ mid \in Nat /\ mid =< Len(n.keys) /\ 1 =< mid + 1
        /\ mid - 1 + 1 = mid
    BY <1>7
  <2> QED BY <1>6, <2>1, Cut
<1>10. /\ rk \in Seq(Int) /\ Len(rk) = Len(n.keys) - mid
       /\ rv \in Seq(Int) /\ Len(rv) = Len(n.keys) - mid
  <2>1. /\ mid + 1 \in Nat \ {0} /\ Len(n.keys) \in Nat /\ mid + 1 =< Len(n.keys) + 1
        /\ Len(n.keys) =< Len(n.keys)
        /\ Len(n.keys) - (mid + 1) + 1 = Len(n.keys) - mid
    BY <1>7
  <2>2. rk \in Seq(Int) /\ Len(rk) = Len(n.keys) - (mid + 1) + 1
    BY <1>6, <2>1, Cut
  <2>3. rv \in Seq(Int) /\ Len(rv) = Len(n.keys) - (mid + 1) + 1
    <3>1. rv = SubSeq(n.values, mid + 1, Len(n.keys)) BY <1>6
    <3> HIDE DEF rv
    <3> QED BY <1>6, <2>1, <3>1, Cut
  <2> QED BY <2>1, <2>2, <2>3
<1>11. /\ left \in PageSet /\ left.kind = "leaf"
       /\ left.parent = old.parent /\ left.next = NewPage
  <2>1. mid =< MaxKeys BY <1>7
  <2>2. left = Leaf(old.parent, NewPage, lk, lv) BY <1>6
  <2> HIDE DEF lk, lv, left, old
  <2> QED BY <1>8, <1>9, <2>1, <2>2, LeafMade
<1>12. /\ right \in PageSet /\ right.kind = "leaf"
       /\ right.parent = old.parent /\ right.next = old.next
       /\ right.keys = rk
  <2>1. Len(n.keys) - mid =< MaxKeys BY <1>7
  <2>2. right = Leaf(old.parent, old.next, rk, rv) BY <1>6
  <2> HIDE DEF rk, rv, right, old
  <2> QED BY <1>8, <1>10, <2>1, <2>2, LeafMade
<1>13. right.keys[1] \in Int
  <2>1. 1 \in 1..Len(right.keys) BY <1>7, <1>10, <1>12
  <2> QED BY <1>10, <1>12, <2>1, LenProperties
<1>14. Links(old) BY <1>3, <1>4 DEF Filed
<1> HIDE DEF left, right, lk, lv, rk, rv
<1>15. CASE /\ pages' = Stored(Stored(pages, op.page, left), NewPage, right)
            /\ (op' = up /\ faults' = faults) \/ Failed
  <2>1. /\ Kept /\ pages'[op.page] = left /\ pages'[NewPage] = right /\ NewPage # op.page
        /\ DOMAIN pages' = DOMAIN pages \cup {NewPage}
        /\ \A q \in DOMAIN pages : q # op.page => pages'[q] = pages[q]
    <3>1. pages[op.page].kind # "data" /\ left.kind = pages[op.page].kind BY <1>3, <1>11
    <3>2. pages' = Stored(Stored(pages, op.page, left), NewPage, right) BY <1>15
    <3> HIDE DEF old, up
    <3> QED BY <1>3, <1>4, <1>11, <1>12, <3>1, <3>2, SplitKept
  <2>2. \E m : m = old /\ Links(m)'
    <3>1. PICK m : m = old OBVIOUS
    <3> QED BY <1>2, <1>4, <1>14, <2>1, <3>1, LinksKept
  <2>4. \E m : m = left /\ Links(m)'
    <3>1. PICK m : m = left OBVIOUS
    <3> QED BY <1>3, <1>11, <2>2, <3>1 DEF Links, LeadsTo, IsInternal
  <2>5. \E m : m = right /\ Links(m)'
    BY <1>3, <1>12, <2>2 DEF Links, LeadsTo, IsLeaf, IsInternal
  <2>6. Filed' /\ Entered'
    BY <1>1, <1>2, <1>4, <2>1, <2>4, <2>5, RootKept, TreeStep
  <2>7. ASSUME op' = up PROVE Ascending'
    <3>1. NewPage \in Nat BY <1>4
    <3>2. /\ op' \in [at : {"parent", "new_root"}, key : Key, value : Nat,
                      left : Nat, sep : Int, right : Nat]
          /\ op'.at = "parent" /\ op'.value = op.value /\ op'.left = op.page
          /\ op'.right = NewPage
      BY <1>2, <1>13, <2>7, <3>1
    <3>3. op.value \in DOMAIN pages' /\ pages'[op.value] = Data
      BY <1>2, <1>4, <2>1, DataKept
    <3> QED BY <1>3, <1>11, <1>12, <2>1, <3>2, <3>3 DEF Ascending
  <2>8. Counted' BY <1>1, <1>15, FaultsCounted DEF Failed
  <2> QED BY <1>15, <2>6, <2>7, <2>8 DEF BInv, Working, Failed
<1>16. CASE Failed /\ pages' = pages
  BY <1>1, <1>2, <1>16, NothingWritten
<1>17. CASE Failed /\ pages' = Stored(pages, op.page, left)
  <2>1. /\ Kept /\ pages'[op.page] = left /\ DOMAIN pages' = DOMAIN pages
        /\ Len(pages') = Len(pages)
        /\ \A q \in DOMAIN pages : q # op.page => pages'[q] = pages[q]
    BY <1>3, <1>4, <1>11, <1>17, OneKept
  <2>2. \E m : m = old /\ Links(m)'
    <3>1. PICK m : m = old OBVIOUS
    <3> QED BY <1>2, <1>4, <1>14, <2>1, <3>1, LinksKept
  <2>3. \E m : m = left /\ Links(m)'
    <3>1. PICK m : m = left OBVIOUS
    <3> QED BY <1>3, <1>11, <2>2, <3>1 DEF Links, LeadsTo, IsInternal
  <2>4. Filed' /\ Entered'
    BY <1>1, <1>2, <1>4, <2>1, <2>3, RootKept, TreeStep
  <2>5. Counted' BY <1>1, <1>17, FaultsCounted DEF Failed
  <2> QED BY <1>17, <2>4, <2>5 DEF BInv, Working, Failed
<1> QED BY <1>5, <1>15, <1>16, <1>17, WriteTwo

------------------------------------------------------------------------------
(* The way up.                                                             *)

\* Where the child pointers of a node with this parent may lead.
Children(parent) ==
    {q \in Nat : parent = None => q \in DOMAIN pages /\ pages[q].kind # "data"}

\* The pointers of an internal node, by its parent's and its children.
LEMMA InternalLinks ==
    ASSUME Filed, NEW m, Links(m), NEW n, n.kind = "internal", n.parent = m.parent,
           n.children \in Seq(Children(m.parent))
    PROVE  Links(n)
<1>1. \A i \in DOMAIN n.children : n.children[i] \in Children(m.parent) BY LenProperties
<1> QED BY <1>1 DEF Links, IsInternal, Children

\* The children of a node on a page.
LEMMA ChildrenIs ==
    ASSUME Filed, NEW p \in DOMAIN pages, pages[p].kind = "internal"
    PROVE  /\ pages[p].children \in Seq(Children(pages[p].parent))
           /\ Children(pages[p].parent) \in SUBSET Nat
<1>1. pages[p].children \in Seq(Nat) BY FiledIs, PageIs
<1>2. \A i \in DOMAIN pages[p].children : pages[p].children[i] \in Nat
  BY <1>1, LenProperties
<1>3. \A i \in DOMAIN pages[p].children : pages[p].children[i] \in Children(pages[p].parent)
  BY <1>2 DEF Filed, Links, IsInternal, Children
<1>4. pages[p].children \in Seq(Children(pages[p].parent)) BY <1>1, <1>3, SeqOver
<1>5. Children(pages[p].parent) \in SUBSET Nat BY DEF Children
<1> QED BY <1>4, <1>5

\* The new separator and child make the parent one longer.
LEMMA ChildAdded ==
    ASSUME NEW node \in PageSet, node.kind = "internal", NEW k \in Int,
           NEW C \in SUBSET Nat, node.children \in Seq(C), NEW c \in C
    PROVE  LET n == WithChild(node, k, c)
           IN  /\ n = Internal(node.parent, n.keys, n.children)
               /\ n.kind = "internal" /\ n.parent = node.parent
               /\ n.keys \in Seq(Int) /\ n.children \in Seq(C) /\ n.children \in Seq(Nat)
               /\ Len(n.keys) = Len(node.keys) + 1 /\ Len(n.children) = Len(n.keys) + 1
               /\ Len(node.keys) \in 1..MaxKeys
<1> DEFINE pos == FindChild(node.keys, k)
           ks == InsertAt(node.keys, pos, k)
           cs == InsertAt(node.children, pos + 1, c)
           n == WithChild(node, k, c)
<1>1. /\ node.keys \in Seq(Int) /\ Len(node.children) = Len(node.keys) + 1
      /\ Len(node.keys) \in 1..MaxKeys
  BY PageIs
<1>2. pos \in 1..(Len(node.keys) + 1) BY <1>1, ChildFound
<1>3. ks \in Seq(Int) /\ Len(ks) = Len(node.keys) + 1 BY <1>1, <1>2, Inserted
<1>4. cs \in Seq(C) /\ Len(cs) = Len(node.keys) + 2
  <2>1. pos + 1 \in 1..(Len(node.children) + 1) BY <1>1, <1>2
  <2>2. cs \in Seq(C) /\ Len(cs) = Len(node.children) + 1 BY <2>1, Inserted
  <2> QED BY <1>1, <2>2
<1>5. n = Internal(node.parent, ks, cs) BY DEF WithChild
<1> HIDE DEF pos, ks, cs, n
<1>6. cs \in Seq(Nat)
  <2>1. \A i \in DOMAIN cs : cs[i] \in Nat BY <1>4, LenProperties
  <2> QED BY <1>4, <2>1, SeqOver
<1>7. n.keys = ks /\ n.children = cs /\ n.kind = "internal" /\ n.parent = node.parent
  BY <1>5 DEF Internal
<1>8. Len(cs) = Len(ks) + 1 BY <1>1, <1>3, <1>4
<1> QED BY <1>1, <1>3, <1>4, <1>5, <1>6, <1>7, <1>8 DEF n

\* During an insert, the parent of the node that was split is a page, and no leaf.
LEMMA ParentIs ==
    ASSUME BInv, op.at = "parent", ParentOf(op.left) # None
    PROVE  /\ ParentOf(op.left) = pages[op.left].parent
           /\ ParentOf(op.left) \in DOMAIN pages
           /\ Read(ParentOf(op.left)) = pages[ParentOf(op.left)]
           /\ pages[ParentOf(op.left)].kind # "leaf"
           /\ op.left \in DOMAIN pages
<1>1. Ascending /\ op # NoOp BY UpIs
<1>2. op.left \in DOMAIN pages BY <1>1 DEF Ascending
<1>3. ParentOf(op.left) = pages[op.left].parent BY <1>2 DEF ParentOf, Read
<1>4. Links(pages[op.left]) BY <1>2 DEF BInv, Filed
<1>5. LeadsTo(ParentOf(op.left), {"internal", "data", "unreadable"})
  BY <1>3, <1>4 DEF Links
<1> QED BY <1>1, <1>2, <1>3, <1>5 DEF LeadsTo, Read

\* insert_into_parent finds that there is none.
LEMMA NoParentStep ==
    ASSUME BInv, NoParent
    PROVE  BInv'
<1>1. /\ op.at = "parent" /\ ParentOf(op.left) = None
      /\ op' = [op EXCEPT !.at = "new_root"]
      /\ UNCHANGED <<pages, root, inserts, faults, entries>>
  BY DEF NoParent
<1>2. /\ Ascending /\ op # NoOp
      /\ op.key \in Key /\ op.value \in Nat
      /\ op.left \in Nat /\ op.sep \in Int /\ op.right \in Nat
      /\ op = [at |-> op.at, key |-> op.key, value |-> op.value,
               left |-> op.left, sep |-> op.sep, right |-> op.right]
      /\ op.value \in DOMAIN pages /\ pages[op.value] = Data
  BY <1>1, UpIs
<1>3. Filed /\ Entered /\ Kept BY <1>1, SameKept DEF BInv
<1>4. Filed' /\ Entered' BY <1>1, <1>2, <1>3, RootKept, TreeStep
<1>5. Counted' BY <1>1, FaultsCounted
<1>6. op' = [at |-> "new_root", key |-> op.key, value |-> op.value,
             left |-> op.left, sep |-> op.sep, right |-> op.right]
  BY <1>1, <1>2
<1>7. /\ op' \in [at : {"parent", "new_root"}, key : Key, value : Nat,
                  left : Nat, sep : Int, right : Nat]
      /\ op'.at = "new_root" /\ op'.value = op.value /\ op'.left = op.left
      /\ op'.right = op.right
  BY <1>2, <1>6
<1>8. op.left \in DOMAIN pages BY <1>2 DEF Ascending
<1>9. pages[op.left].parent = None BY <1>1, <1>8 DEF ParentOf, Read
<1>10. Ascending' BY <1>1, <1>2, <1>7, <1>9 DEF Ascending
<1> QED BY <1>4, <1>5, <1>10 DEF BInv, Working

\* A parent that cannot be read ends the insert; one that is a leaf is not met.
LEMMA BadParentStep ==
    ASSUME BInv, BadParent
    PROVE  BInv'
<1>1. /\ op.at = "parent" /\ ParentOf(op.left) # None
      /\ op' = IF IsLeaf(Read(ParentOf(op.left))) THEN Panic ELSE NoOp
      /\ UNCHANGED <<pages, root, inserts, faults, entries>>
  BY DEF BadParent
<1>2. op # NoOp /\ op.value \in DOMAIN pages /\ pages[op.value] = Data
  BY <1>1, UpIs
<1>3. op' = NoOp BY <1>1, ParentIs DEF IsLeaf
<1>4. Filed /\ Entered /\ Kept BY <1>1, SameKept DEF BInv
<1>5. Filed' /\ Entered' BY <1>1, <1>2, <1>4, RootKept, TreeStep
<1>6. Counted' BY <1>1, FaultsCounted
<1> QED BY <1>3, <1>5, <1>6 DEF BInv, Working

\* insert_into_parent when the parent has room.
LEMMA ParentStep ==
    ASSUME BInv, InsertIntoParent
    PROVE  BInv'
<1> DEFINE p == ParentOf(op.left)
           old == pages[p]
           n == WithChild(old, op.sep, op.right)
<1>1. /\ op.at = "parent" /\ p # None /\ root' = root /\ inserts' = inserts
      /\ entries' \subseteq entries \cup {<<op.key, op.value>>}
  BY DEF InsertIntoParent, Succeeds
<1>2. /\ Ascending /\ op # NoOp /\ op.sep \in Int /\ op.right \in Nat
      /\ op.value \in DOMAIN pages /\ pages[op.value] = Data
  BY <1>1, UpIs
<1>3. p \in DOMAIN pages /\ Read(p) = old BY <1>1, ParentIs
<1>4. Filed /\ Entered /\ old \in PageSet BY <1>3, FiledIs DEF BInv
<1>5. /\ old.kind = "internal" /\ Len(n.keys) =< MaxKeys
      /\ WriteAll(<<Stored(pages, p, n)>>, NoOp)
  BY <1>3 DEF InsertIntoParent, IsInternal
<1> DEFINE C == Children(old.parent)
<1>6. old.children \in Seq(C) /\ C \in SUBSET Nat BY <1>3, <1>4, <1>5, ChildrenIs
<1>7. op.right \in C BY <1>2 DEF Ascending, Children
<1> HIDE DEF C
<1>8. /\ n = Internal(old.parent, n.keys, n.children)
      /\ n.kind = "internal" /\ n.parent = old.parent
      /\ n.keys \in Seq(Int) /\ n.children \in Seq(C) /\ n.children \in Seq(Nat)
      /\ Len(n.keys) = Len(old.keys) + 1 /\ Len(n.children) = Len(n.keys) + 1
      /\ Len(old.keys) \in 1..MaxKeys
  <2> HIDE DEF old, p
  <2> QED BY <1>2, <1>4, <1>5, <1>6, <1>7, ChildAdded
<1> HIDE DEF n
<1>9. n \in PageSet
  <2>1. Len(n.keys) \in 1..MaxKeys BY <1>5, <1>8, BTreeAssumption
  <2>2. old.parent \in PageId BY <1>4, PageIs
  <2> HIDE DEF old, p
  <2> QED BY <1>8, <2>1, <2>2, InternalMade
<1> HIDE DEF p
<1>10. CASE pages' = Stored(pages, p, n) /\ op' = NoOp /\ (faults' = faults \/ Failed)
  <2>1. /\ Kept /\ pages'[p] = n /\ DOMAIN pages' = DOMAIN pages
        /\ \A q \in DOMAIN pages : q # p => pages'[q] = pages[q]
    BY <1>3, <1>4, <1>5, <1>8, <1>9, <1>10, OneKept
  <2>2. Links(old) BY <1>3, <1>4 DEF Filed
  <2>3. \E m : m = n /\ Links(m)'
    <3>1. PICK m : m = n OBVIOUS
    <3>2. Links(n) BY <1>4, <1>8, <2>2, InternalLinks DEF C
    <3> QED BY <1>2, <1>4, <2>1, <3>1, <3>2, LinksKept
  <2>4. Filed' /\ Entered'
    BY <1>1, <1>2, <1>4, <2>1, <2>3, RootKept, TreeStep
  <2>5. Counted' BY <1>1, <1>10, FaultsCounted DEF Failed
  <2> QED BY <1>10, <2>4, <2>5 DEF BInv, Working
<1>11. CASE Failed /\ pages' = pages
  BY <1>1, <1>2, <1>11, NothingWritten
<1> QED BY <1>5, <1>10, <1>11, WriteOne DEF Failed

\* split_internal.
LEMMA SplitInternalStep ==
    ASSUME BInv, SplitInternal
    PROVE  BInv'
<1> DEFINE p == ParentOf(op.left)
           old == pages[p]
           n == WithChild(old, op.sep, op.right)
           mid == Len(n.keys) \div 2
           lk == SubSeq(n.keys, 1, mid)
           lc == SubSeq(n.children, 1, mid + 1)
           rk == SubSeq(n.keys, mid + 2, Len(n.keys))
           rc == SubSeq(n.children, mid + 2, Len(n.children))
           left == Internal(n.parent, lk, lc)
           right == Internal(n.parent, rk, rc)
           up == [op EXCEPT !.left = p, !.sep = n.keys[mid + 1], !.right = NewPage]
<1>1. /\ op.at = "parent" /\ p # None /\ root' = root /\ inserts' = inserts
      /\ entries' = entries
  BY DEF SplitInternal
<1>2. /\ Ascending /\ op # NoOp /\ op.key \in Key /\ op.value \in Nat
      /\ op.left \in Nat /\ op.sep \in Int /\ op.right \in Nat
      /\ op = [at |-> op.at, key |-> op.key, value |-> op.value,
               left |-> op.left, sep |-> op.sep, right |-> op.right]
      /\ op.value \in DOMAIN pages /\ pages[op.value] = Data
  BY <1>1, UpIs
<1>3. p \in DOMAIN pages /\ Read(p) = old BY <1>1, ParentIs
<1>4. /\ Filed /\ Entered /\ old \in PageSet
      /\ NewPage = Len(pages) + 1 /\ Len(pages) \in Nat /\ p \in Nat
  BY <1>3, FiledIs DEF BInv
<1>5. /\ old.kind = "internal" /\ Len(n.keys) > MaxKeys
      /\ WriteAll(<<Stored(pages, p, left), Stored(Stored(pages, p, left), NewPage, right)>>, up)
  BY <1>3 DEF SplitInternal, IsInternal
<1> DEFINE C == Children(old.parent)
<1>6. old.children \in Seq(C) /\ C \in SUBSET Nat BY <1>3, <1>4, <1>5, ChildrenIs
<1>7. op.right \in C BY <1>2 DEF Ascending, Children
<1> HIDE DEF C
<1>8. /\ n = Internal(old.parent, n.keys, n.children)
      /\ n.kind = "internal" /\ n.parent = old.parent
      /\ n.keys \in Seq(Int) /\ n.children \in Seq(C) /\ n.children \in Seq(Nat)
      /\ Len(n.keys) = Len(old.keys) + 1 /\ Len(n.children) = Len(n.keys) + 1
      /\ Len(old.keys) \in 1..MaxKeys
  <2> HIDE DEF old, p
  <2> QED BY <1>2, <1>4, <1>5, <1>6, <1>7, ChildAdded
<1> HIDE DEF n
<1>9. /\ MaxKeys \in Nat /\ MaxKeys >= 2
      /\ Len(n.keys) = MaxKeys + 1 /\ mid \in 1..MaxKeys
      /\ Len(n.keys) - mid - 1 \in 1..MaxKeys
  <2>1. MaxKeys \in Nat /\ MaxKeys >= 2 BY BTreeAssumption
  <2>2. Len(n.keys) > MaxKeys BY <1>5
  <2>3. PICK k \in 1..MaxKeys : Len(n.keys) = k + 1 BY <1>8
  <2>4. Len(n.keys) = MaxKeys + 1 BY <2>1, <2>2, <2>3
  <2> QED BY <2>1, <2>4
<1> HIDE DEF mid
<1>10. lk \in Seq(Int) /\ Len(lk) = mid
  <2>1. mid \in 0..Len(n.keys) BY <1>9
  <2> QED BY <1>8, <2>1, CutTo
<1>11. rk \in Seq(Int) /\ Len(rk) = Len(n.keys) - mid - 1
  <2>1. mid + 2 \in 1..(Len(n.keys) + 1) BY <1>9
  <2>2. rk \in Seq(Int) /\ Len(rk) = Len(n.keys) - (mid + 2) + 1 BY <1>8, <2>1, CutFrom
  <2> HIDE DEF rk
  <2> QED BY <1>9, <2>2
<1>12. lc \in Seq(C) /\ lc \in Seq(Nat) /\ Len(lc) = mid + 1
  <2>1. mid + 1 \in 0..Len(n.children) BY <1>8, <1>9
  <2>2. lc \in Seq(C) /\ Len(lc) = mid + 1 BY <1>8, <2>1, CutTo
  <2>3. lc \in Seq(Nat) BY <1>8, <2>1, CutTo
  <2> QED BY <2>2, <2>3
<1>13. rc \in Seq(C) /\ rc \in Seq(Nat) /\ Len(rc) = Len(n.keys) - mid
  <2>1. mid + 2 \in 1..(Len(n.children) + 1) BY <1>8, <1>9
  <2>2. rc \in Seq(C) /\ Len(rc) = Len(n.children) - (mid + 2) + 1
    BY <1>8, <2>1, CutFrom
  <2>3. rc \in Seq(Nat) BY <1>8, <2>1, CutFrom
  <2> HIDE DEF rc
  <2> QED BY <1>8, <1>9, <2>2, <2>3
<1> HIDE DEF lk, lc, rk, rc
<1>14. old.parent \in PageId BY <1>4, PageIs
<1>15. /\ left \in PageSet /\ left.kind = "internal" /\ left.parent = old.parent
       /\ left.children \in Seq(C)
  <2>1. left = Internal(old.parent, lk, lc) BY <1>8
  <2>2. Len(lk) \in 1..MaxKeys /\ Len(lc) = Len(lk) + 1 BY <1>9, <1>10, <1>12
  <2> HIDE DEF left, old, p
  <2> QED BY <1>10, <1>12, <1>14, <2>1, <2>2, InternalMade
<1>16. /\ right \in PageSet /\ right.kind = "internal" /\ right.parent = old.parent
       /\ right.children \in Seq(C)
  <2>1. right = Internal(old.parent, rk, rc) BY <1>8
  <2>2. Len(rk) \in 1..MaxKeys /\ Len(rc) = Len(rk) + 1 BY <1>9, <1>11, <1>13
  <2> HIDE DEF right, old, p
  <2> QED BY <1>11, <1>13, <1>14, <2>1, <2>2, InternalMade
<1>17. n.keys[mid + 1] \in Int
  <2>1. mid + 1 \in 1..Len(n.keys) BY <1>9
  <2> QED BY <1>8, <2>1, LenProperties
<1>18. Links(old) BY <1>3, <1>4 DEF Filed
<1> HIDE DEF left, right
<1>19. Links(left) /\ Links(right)
  <2>1. C = Children(old.parent) BY DEF C
  <2> HIDE DEF old, p
  <2> QED BY <1>4, <1>15, <1>16, <1>18, <2>1, InternalLinks
<1> HIDE DEF p
<1>20. CASE /\ pages' = Stored(Stored(pages, p, left), NewPage, right)
            /\ (op' = up /\ faults' = faults) \/ Failed
  <2>1. /\ Kept /\ pages'[p] = left /\ pages'[NewPage] = right /\ NewPage # p
        /\ DOMAIN pages' = DOMAIN pages \cup {NewPage}
        /\ \A q \in DOMAIN pages : q # p => pages'[q] = pages[q]
    <3>1. pages[p].kind # "data" /\ left.kind = pages[p].kind BY <1>5, <1>15
    <3>2. pages' = Stored(Stored(pages, p, left), NewPage, right) BY <1>20
    <3> HIDE DEF old, up
    <3> QED BY <1>3, <1>4, <1>15, <1>16, <3>1, <3>2, SplitKept
  <2>2. (\E m : m = left /\ Links(m)') /\ (\E m : m = right /\ Links(m)')
    <3>1. ASSUME NEW m, Links(m) PROVE Links(m)' BY <1>2, <1>4, <2>1, <3>1, LinksKept
    <3> QED BY <1>19, <3>1
  <2>3. Filed' /\ Entered'
    BY <1>1, <1>2, <1>4, <2>1, <2>2, RootKept, TreeStep
  <2>4. ASSUME op' = up PROVE Ascending'
    <3>1. op' = [at |-> "parent", key |-> op.key, value |-> op.value,
                 left |-> p, sep |-> n.keys[mid + 1], right |-> NewPage]
      BY <1>1, <1>2, <2>4
    <3>2. /\ op' \in [at : {"parent", "new_root"}, key : Key, value : Nat,
                      left : Nat, sep : Int, right : Nat]
          /\ op'.at = "parent" /\ op'.value = op.value /\ op'.left = p
          /\ op'.right = NewPage
      BY <1>2, <1>4, <1>17, <3>1
    <3>3. op.value \in DOMAIN pages' /\ pages'[op.value] = Data
      BY <1>2, <1>4, <2>1, DataKept
    <3> QED BY <1>3, <1>15, <1>16, <2>1, <3>2, <3>3 DEF Ascending
  <2>5. Counted' BY <1>1, <1>20, FaultsCounted DEF Failed
  <2> QED BY <1>20, <2>3, <2>4, <2>5 DEF BInv, Working, Failed
<1>21. CASE Failed /\ pages' = pages
  BY <1>1, <1>2, <1>21, NothingWritten
<1>22. CASE Failed /\ pages' = Stored(pages, p, left)
  <2>1. /\ Kept /\ pages'[p] = left /\ DOMAIN pages' = DOMAIN pages
        /\ \A q \in DOMAIN pages : q # p => pages'[q] = pages[q]
    BY <1>3, <1>4, <1>5, <1>15, <1>22, OneKept
  <2>2. \E m : m = left /\ Links(m)'
    <3>1. PICK m : m = left OBVIOUS
    <3> QED BY <1>2, <1>4, <1>19, <2>1, <3>1, LinksKept
  <2>3. Filed' /\ Entered'
    BY <1>1, <1>2, <1>4, <2>1, <2>2, RootKept, TreeStep
  <2>4. Counted' BY <1>1, <1>22, FaultsCounted DEF Failed
  <2> QED BY <1>22, <2>3, <2>4 DEF BInv, Working, Failed
<1> QED BY <1>5, <1>20, <1>21, <1>22, WriteTwo

------------------------------------------------------------------------------
(* A new root.                                                             *)

\* set_parent, on a node without a parent: what is read back has the new one, and
\* is a node of the same kind, or unreadable.
Adopted(node, p, n) == n \in PageSet /\ n.parent = p /\ n.kind \in {node.kind, "unreadable"}

\* As many copies of one element as another sequence has.
LEMMA Copies ==
    ASSUME NEW S, NEW T, NEW s \in Seq(S), NEW x \in T
    PROVE  LET c == [i \in DOMAIN s |-> x]
           IN  /\ c \in Seq(T) /\ Len(c) = Len(s) /\ DOMAIN c = DOMAIN s
               /\ \A i \in DOMAIN s : c[i] = x
<1> DEFINE c == [i \in DOMAIN s |-> x]
<1>1. Len(s) \in Nat /\ DOMAIN s = 1..Len(s) BY LenProperties
<1>2. c = [i \in 1..Len(s) |-> x] BY <1>1
<1>3. c \in Seq(T) BY <1>1, <1>2
<1>4. DOMAIN c = 1..Len(s) /\ \A i \in 1..Len(s) : c[i] = x BY <1>2
<1> HIDE DEF c
<1>5. Len(c) = Len(s) BY <1>1, <1>3, <1>4, LenProperties
<1> QED BY <1>1, <1>3, <1>4, <1>5 DEF c

\* write_parent over a page without room for a parent.
LEMMA ParentWritten ==
    ASSUME NEW node \in PageSet, node.kind \in {"leaf", "internal"}, node.parent = None,
           NEW p \in Nat, NEW n \in WriteParent(node, p)
    PROVE  Adopted(node, p, n)
<1>1. p \in PageId /\ None \in PageId BY DEF PageId
<1>2. ASSUME n = Unreadable(p) PROVE Adopted(node, p, n)
  <2>1. n \in PageSet /\ n.kind = "unreadable" /\ n.parent = p BY <1>1, <1>2, UnreadableMade
  <2> QED BY <2>1 DEF Adopted
<1>3. ASSUME node.kind = "leaf", NEW next \in PageId,
             NEW ks \in Seq(Int), NEW vs \in Seq(Int), n = Leaf(p, next, ks, vs),
             Len(ks) = Len(node.keys), Len(vs) = Len(node.keys)
      PROVE  Adopted(node, p, n)
  <2>1. Len(ks) = Len(vs) /\ Len(ks) =< MaxKeys BY <1>3, PageIs
  <2>2. n \in PageSet /\ n.kind = "leaf" /\ n.parent = p BY <1>1, <1>3, <2>1, LeafMade
  <2> QED BY <1>3, <2>2 DEF Adopted
<1>4. CASE node.kind = "leaf"
  <2>1. node.keys \in Seq(Int) /\ node.values \in Seq(Int) /\ Len(node.values) = Len(node.keys)
    BY <1>4, PageIs
  <2>2. CASE n = Leaf(p, None, node.keys, node.values)
    BY <1>1, <1>3, <1>4, <2>1, <2>2
  <2>3. ASSUME NEW j \in JunkKey, NEW next \in Stray \cup {None},
               n = Leaf(p, next, [i \in DOMAIN node.keys |-> j], [i \in DOMAIN node.keys |-> 0])
        PROVE  Adopted(node, p, n)
    <3> DEFINE ks == [i \in DOMAIN node.keys |-> j]
               vs == [i \in DOMAIN node.keys |-> 0]
    <3>1. j \in Int /\ 0 \in Int /\ next \in PageId BY BTreeAssumption DEF PageId
    <3>2. ks \in Seq(Int) /\ Len(ks) = Len(node.keys) BY <2>1, <3>1, Copies
    <3>3. vs \in Seq(Int) /\ Len(vs) = Len(node.keys) BY <2>1, <3>1, Copies
    <3>4. n = Leaf(p, next, ks, vs) BY <2>3
    <3> HIDE DEF ks, vs
    <3> QED BY <1>3, <1>4, <3>1, <3>2, <3>3, <3>4
  <2>4. \/ n = Leaf(p, None, node.keys, node.values)
        \/ n = Unreadable(p)
        \/ \E j \in JunkKey, next \in Stray \cup {None} :
              n = Leaf(p, next, [i \in DOMAIN node.keys |-> j], [i \in DOMAIN node.keys |-> 0])
    BY <1>4 DEF WriteParent, Garble, IsLeaf
  <2> QED BY <1>2, <2>2, <2>3, <2>4
<1>5. CASE node.kind = "internal"
  <2>1. /\ node.keys \in Seq(Int) /\ node.children \in Seq(Nat)
        /\ Len(node.children) = Len(node.keys) + 1 /\ Len(node.keys) \in 1..MaxKeys
    BY <1>5, PageIs
  <2>2. ASSUME NEW j \in JunkKey, NEW cs \in [DOMAIN node.children -> Stray],
               n = Internal(p, [i \in DOMAIN node.keys |-> j], cs)
        PROVE  Adopted(node, p, n)
    <3> DEFINE ks == [i \in DOMAIN node.keys |-> j]
    <3>1. j \in Int BY BTreeAssumption
    <3>2. ks \in Seq(Int) /\ Len(ks) = Len(node.keys) BY <2>1, <3>1, Copies
    <3>3. cs \in Seq(Nat) /\ Len(cs) = Len(node.children)
      <4>1. Len(node.children) \in Nat /\ DOMAIN node.children = 1..Len(node.children)
        BY <2>1, LenProperties
      <4>2. cs \in [1..Len(node.children) -> Nat] BY <2>2, <4>1, BTreeAssumption
      <4> QED BY <4>1, <4>2, LenProperties
    <3>4. n = Internal(p, ks, cs) BY <2>2
    <3> HIDE DEF ks
    <3>5. Len(cs) = Len(ks) + 1 /\ Len(ks) \in 1..MaxKeys BY <2>1, <3>2, <3>3
    <3>6. n \in PageSet /\ n.kind = "internal" /\ n.parent = p
      BY <1>1, <3>2, <3>3, <3>4, <3>5, InternalMade
    <3> QED BY <1>5, <3>6 DEF Adopted
  <2>3. \/ n = Unreadable(p)
        \/ \E j \in JunkKey, cs \in [DOMAIN node.children -> Stray] :
              n = Internal(p, [i \in DOMAIN node.keys |-> j], cs)
    BY <1>5 DEF WriteParent, Garble, IsLeaf
  <2> QED BY <1>2, <2>2, <2>3
<1> QED BY <1>4, <1>5

\* The pointers of an adopted node, once its parent is written or the insert ended.
LEMMA AdoptedLinks ==
    ASSUME NEW node, NEW p \in Nat, NEW n, Adopted(node, p, n),
           LeadsTo(p, {"internal", "data", "unreadable"})'
    PROVE  Links(n)'
<1>1. p # None BY BTreeAssumption
<1> QED BY <1>1 DEF Adopted, Links

\* Both children are replaced.
LEMMA BothKept ==
    ASSUME Filed, NEW a \in DOMAIN pages, NEW b \in DOMAIN pages, a # b,
           NEW l \in PageSet, NEW r \in PageSet,
           NEW f, f = Stored(Stored(pages, a, l), b, r)
    PROVE  /\ f \in Seq(PageSet) /\ Len(f) = Len(pages) /\ f[a] = l /\ f[b] = r
           /\ \A q \in DOMAIN pages : q # a /\ q # b => f[q] = pages[q]
<1> DEFINE e == Stored(pages, a, l)
           L == Len(pages)
<1>1. pages \in Seq(PageSet) /\ L \in Nat /\ DOMAIN pages = 1..L BY FiledIs
<1>2. a \in 1..(L + 1) /\ a # L + 1 /\ b \in 1..(L + 1) /\ b # L + 1 BY <1>1
<1>3. /\ e \in Seq(PageSet) /\ e[a] = l /\ Len(e) = L
      /\ \A q \in 1..L : q # a => e[q] = pages[q]
  BY <1>1, <1>2, StoredIs
<1> HIDE DEF e
<1>4. f = Stored(e, b, r) BY DEF e
<1>5. b \in 1..(Len(e) + 1) /\ b # Len(e) + 1 BY <1>2, <1>3
<1>6. /\ f \in Seq(PageSet) /\ f[b] = r
      /\ Len(f) = IF b = Len(e) + 1 THEN Len(e) + 1 ELSE Len(e)
      /\ \A q \in 1..Len(e) : q # b => f[q] = e[q]
  <2> DEFINE g == Stored(e, b, r)
  <2>1. /\ g \in Seq(PageSet) /\ g[b] = r
        /\ Len(g) = IF b = Len(e) + 1 THEN Len(e) + 1 ELSE Len(e)
        /\ \A q \in 1..Len(e) : q # b => g[q] = e[q]
    BY <1>3, <1>5, StoredIs
  <2>2. f = g BY <1>4
  <2> HIDE DEF g
  <2> QED BY <2>1, <2>2
<1>7. f[a] = l BY <1>1, <1>3, <1>6
<1>8. \A q \in DOMAIN pages : q # a /\ q # b => f[q] = pages[q]
  BY <1>1, <1>3, <1>6
<1>9. Len(f) = Len(pages) BY <1>3, <1>5, <1>6
<1> QED BY <1>6, <1>7, <1>8, <1>9

\* new_root.
LEMMA NewRootStep ==
    ASSUME BInv, NewRoot
    PROVE  BInv'
<1> DEFINE a == op.left
           b == op.right
           top == Internal(None, <<op.sep>>, <<a, b>>)
<1>1. /\ op.at = "new_root" /\ inserts' = inserts
      /\ root' = IF faults' = faults THEN NewPage ELSE root
      /\ entries' \subseteq entries \cup {<<op.key, op.value>>}
  BY DEF NewRoot, Succeeds
<1>2. /\ Ascending /\ op # NoOp /\ op.sep \in Int /\ a \in Nat /\ b \in Nat
      /\ op.value \in DOMAIN pages /\ pages[op.value] = Data
  BY <1>1, UpIs
<1>3. /\ a \in DOMAIN pages /\ b \in DOMAIN pages /\ a # b
      /\ pages[a].kind \in {"leaf", "internal"} /\ pages[b].kind \in {"leaf", "internal"}
      /\ pages[a].parent = None /\ pages[b].parent = None
      /\ Read(a) = pages[a] /\ Read(b) = pages[b]
  BY <1>1, <1>2 DEF Ascending, Read
<1>4. /\ Filed /\ Entered /\ pages[a] \in PageSet /\ pages[b] \in PageSet
      /\ NewPage = Len(pages) + 1 /\ Len(pages) \in Nat /\ DOMAIN pages = 1..Len(pages)
  BY <1>3, FiledIs DEF BInv
<1>5. NewPage \in Nat BY <1>4
<1>6. PICK l \in WriteParent(pages[a], NewPage), r \in WriteParent(pages[b], NewPage) :
         WriteAll(<<Stored(pages, a, l), Stored(Stored(pages, a, l), b, r),
                    Stored(Stored(Stored(pages, a, l), b, r), NewPage, top)>>, NoOp)
  BY <1>3 DEF NewRoot
<1> HIDE DEF a, b
<1>7. Adopted(pages[a], NewPage, l) /\ Adopted(pages[b], NewPage, r)
  BY <1>3, <1>4, <1>5, <1>6, ParentWritten
<1>8. /\ l \in PageSet /\ l.kind \in {pages[a].kind, "unreadable"}
      /\ r \in PageSet /\ r.kind \in {pages[b].kind, "unreadable"}
  BY <1>7 DEF Adopted
<1>9. pages[a].kind # "data" /\ pages[b].kind # "data" BY <1>3
<1> DEFINE both == Stored(Stored(pages, a, l), b, r)
<1>10. /\ both \in Seq(PageSet) /\ Len(both) = Len(pages) /\ both[a] = l /\ both[b] = r
       /\ \A q \in DOMAIN pages : q # a /\ q # b => both[q] = pages[q]
  <2>1. Filed /\ a \in DOMAIN pages /\ b \in DOMAIN pages /\ a # b BY <1>3, <1>4
  <2>2. l \in PageSet /\ r \in PageSet BY <1>8
  <2>3. both = Stored(Stored(pages, a, l), b, r) OBVIOUS
  <2> HIDE DEF both
  <2> QED BY <2>1, <2>2, <2>3, BothKept
<1> HIDE DEF both
<1>11. /\ top \in PageSet /\ top.kind = "internal" /\ top.parent = None
       /\ top.children = <<a, b>>
  <2>1. /\ <<op.sep>> \in Seq(Int) /\ <<a, b>> \in Seq(Nat)
        /\ Len(<<op.sep>>) = 1 /\ Len(<<a, b>>) = 2
    BY <1>2
  <2>2. None \in PageId /\ 1 \in 1..MaxKeys BY BTreeAssumption DEF PageId
  <2> DEFINE ks == <<op.sep>>
             cs == <<a, b>>
  <2>3. /\ ks \in Seq(Int) /\ cs \in Seq(Nat)
        /\ Len(cs) = Len(ks) + 1 /\ Len(ks) \in 1..MaxKeys
    BY <2>1, <2>2
  <2>4. top = Internal(None, ks, cs) OBVIOUS
  <2> HIDE DEF ks, cs, top
  <2>5. top \in PageSet /\ top.kind = "internal" /\ top.parent = None /\ top.children = cs
    BY <2>2, <2>3, <2>4, InternalMade
  <2> QED BY <2>5 DEF cs
<1> HIDE DEF top
<1>12. PICK p \in Nat : p = NewPage BY <1>5
\* Once NewPage is a parent that may be there, so are the adopted nodes.
<1>13. ASSUME Kept, LeadsTo(p, {"internal", "data", "unreadable"})'
       PROVE  (\E m : m = l /\ Links(m)') /\ (\E m : m = r /\ Links(m)')
  BY <1>7, <1>12, <1>13, AdoptedLinks
\* The writes before one that failed leave the file at its length.
<1>14. ASSUME Failed, Kept, DOMAIN pages' = DOMAIN pages, Len(pages') = Len(pages),
              \A q \in DOMAIN pages : \/ pages'[q] = pages[q]
                                      \/ pages'[q] = l
                                      \/ pages'[q] = r
       PROVE  BInv'
  <2>1. op' = NoOp /\ faults' = faults + 1 /\ faults < MaxFaults BY <1>14 DEF Failed
  <2>2. root' = root
    <3>1. faults \in Nat BY BTreeAssumption DEF BInv, Counted
    <3>2. faults' # faults BY <2>1, <3>1
    <3> QED BY <1>1, <3>2
  <2>3. LeadsTo(p, {"internal", "data", "unreadable"})'
    BY <1>4, <1>12, <1>14, <2>1 DEF LeadsTo
  <2>4. (\E m : m = l /\ Links(m)') /\ (\E m : m = r /\ Links(m)') BY <1>13, <1>14, <2>3
  <2>5. \A q \in DOMAIN pages' : \/ q \in DOMAIN pages /\ pages'[q] = pages[q]
                                 \/ \E n : n = pages'[q] /\ Links(n)'
    BY <1>14, <2>4
  <2>6. root' \in DOMAIN pages' /\ pages'[root'].kind # "data"
    BY <1>4, <1>14, <2>2, RootKept
  <2>7. Filed' /\ Entered' BY <1>1, <1>2, <1>4, <1>14, <2>5, <2>6, TreeStep
  <2>8. Counted' BY <1>1, <2>1, FaultsCounted
  <2> QED BY <2>1, <2>7, <2>8 DEF BInv, Working
<1>15. CASE Failed /\ pages' = pages
  <2>1. Kept BY <1>4, <1>15, SameKept
  <2> QED BY <1>14, <1>15, <2>1
<1>16. CASE Failed /\ pages' = Stored(pages, a, l)
  <2>1. /\ Kept /\ Len(pages') = Len(pages) /\ pages'[a] = l /\ DOMAIN pages' = DOMAIN pages
        /\ \A q \in DOMAIN pages : q # a => pages'[q] = pages[q]
    BY <1>3, <1>4, <1>8, <1>9, <1>16, OneKept
  <2> QED BY <1>14, <1>16, <2>1
<1>17. CASE Failed /\ pages' = both
  <2>1. DOMAIN pages' = DOMAIN pages BY <1>4, <1>10, <1>17, LenProperties
  <2>2. Kept BY <1>4, <1>8, <1>9, <1>10, <1>17 DEF Kept
  <2> QED BY <1>10, <1>14, <1>17, <2>1, <2>2
<1>18. CASE pages' = Stored(both, NewPage, top) /\ op' = NoOp /\ (faults' = faults \/ Failed)
  <2>1. /\ pages' \in Seq(PageSet) /\ pages'[NewPage] = top /\ Len(pages') = Len(pages) + 1
        /\ \A q \in DOMAIN pages : pages'[q] = both[q]
    <3> DEFINE g == Stored(both, NewPage, top)
    <3>1. NewPage \in 1..(Len(both) + 1) /\ NewPage = Len(both) + 1 BY <1>4, <1>10
    <3>2. /\ g \in Seq(PageSet) /\ g[NewPage] = top
          /\ Len(g) = IF NewPage = Len(both) + 1 THEN Len(both) + 1 ELSE Len(both)
          /\ \A q \in 1..Len(both) : q # NewPage => g[q] = both[q]
      BY <1>10, <1>11, <3>1, StoredIs
    <3>3. \A q \in DOMAIN pages : q \in 1..Len(both) /\ q # NewPage BY <1>4, <1>10
    <3>4. pages' = g BY <1>18
    <3> HIDE DEF g
    <3> QED BY <1>10, <3>1, <3>2, <3>3, <3>4
  <2>2. DOMAIN pages' = 1..(Len(pages) + 1) BY <2>1, LenProperties
  <2>3. \A q \in DOMAIN pages' : q \in DOMAIN pages \/ q = NewPage BY <1>4, <2>2
  <2>4. NewPage \in DOMAIN pages' BY <1>4, <2>2
  <2>5. Len(pages) =< Len(pages') BY <1>4, <2>1
  <2>6. Kept BY <1>8, <1>9, <1>10, <2>1, <2>5 DEF Kept
  <2>7. LeadsTo(p, {"internal", "data", "unreadable"})'
    BY <1>11, <1>12, <2>1, <2>4 DEF LeadsTo
  <2>8. (\E m : m = l /\ Links(m)') /\ (\E m : m = r /\ Links(m)') BY <1>13, <2>6, <2>7
  <2>9. \E m : m = top /\ Links(m)'
    <3>1. PICK m : m = top OBVIOUS
    <3>2. /\ a \in DOMAIN pages' /\ pages'[a].kind # "data"
          /\ b \in DOMAIN pages' /\ pages'[b].kind # "data"
      BY <1>3, <1>4, <1>8, <1>10, <2>1, <2>6, KeptIs
    <3>3. \A i \in DOMAIN m.children :
             m.children[i] \in DOMAIN pages' /\ pages'[m.children[i]].kind # "data"
      <4>1. m.children = <<a, b>> BY <1>11, <3>1
      <4>2. \A i \in DOMAIN <<a, b>> : <<a, b>>[i] = a \/ <<a, b>>[i] = b OBVIOUS
      <4> QED BY <3>2, <4>1, <4>2
    <3>4. m.parent = None /\ m.kind = "internal" BY <1>11, <3>1
    <3> QED BY <3>1, <3>3, <3>4 DEF Links, IsLeaf, IsInternal
  <2>10. \A q \in DOMAIN pages' : \/ q \in DOMAIN pages /\ pages'[q] = pages[q]
                                  \/ \E n : n = pages'[q] /\ Links(n)'
    <3>1. ASSUME NEW q \in DOMAIN pages
          PROVE  pages'[q] = pages[q] \/ pages'[q] = l \/ pages'[q] = r
      BY <1>10, <2>1
    <3> QED BY <2>1, <2>3, <2>8, <2>9, <3>1
  <2>11. root' \in DOMAIN pages' /\ pages'[root'].kind # "data"
    <3>1. CASE root' = NewPage BY <1>11, <2>1, <2>4, <3>1
    <3>2. CASE root' = root BY <1>4, <2>6, <3>2, RootKept
    <3> QED BY <1>1, <3>1, <3>2
  <2>12. Filed' /\ Entered' BY <1>1, <1>2, <1>4, <2>6, <2>10, <2>11, TreeStep
  <2>13. Counted' BY <1>1, <1>18, FaultsCounted DEF Failed
  <2> QED BY <1>18, <2>12, <2>13 DEF BInv, Working
<1>19. WriteAll(<<Stored(pages, a, l), both, Stored(both, NewPage, top)>>, NoOp)
  BY <1>6 DEF both, top, a, b
<1> QED BY <1>15, <1>16, <1>17, <1>18, <1>19, WriteThree DEF Failed

------------------------------------------------------------------------------
(* The nodes, the panics and the data pages.                               *)

\* BTree::new makes a file of one empty leaf.
LEMMA BInvInit ==
    ASSUME Init
    PROVE  BInv
<1> DEFINE first == Leaf(None, None, <<>>, <<>>)
<1>1. /\ first \in PageSet /\ first.kind = "leaf" /\ first.parent = None /\ first.next = None
  <2> DEFINE ks == <<>>
  <2>1. ks \in Seq(Int) /\ Len(ks) =< MaxKeys BY BTreeAssumption
  <2>2. None \in PageId BY DEF PageId
  <2>3. first = Leaf(None, None, ks, ks) OBVIOUS
  <2> HIDE DEF ks, first
  <2> QED BY <2>1, <2>2, <2>3, LeafMade
<1> HIDE DEF first
<1>2. pages = <<first>> /\ root = 1 /\ op = NoOp /\ inserts = 0 /\ faults = 0 /\ entries = {}
  BY DEF Init, first
<1>3. pages \in Seq(PageSet) /\ DOMAIN pages = {1} /\ pages[1] = first BY <1>1, <1>2
<1>4. Links(first) BY <1>1 DEF Links, IsLeaf, IsInternal
<1>5. Filed BY <1>1, <1>2, <1>3, <1>4 DEF Filed
<1>6. Counted BY <1>2, BTreeAssumption DEF Counted
<1> QED BY <1>2, <1>5, <1>6 DEF BInv, Entered, Working

\* A step that changes nothing.
LEMMA NoStep ==
    ASSUME BInv, UNCHANGED vars
    PROVE  BInv'
<1>1. /\ pages' = pages /\ root' = root /\ op' = op /\ inserts' = inserts
      /\ faults' = faults /\ entries' = entries
  BY DEF vars
<1>2. Filed' BY <1>1 DEF BInv, Filed, Links, LeadsTo, IsLeaf, IsInternal
<1>3. Entered' BY <1>1 DEF BInv, Entered
<1>4. Working'
  <2>1. Descending => Descending' BY <1>1 DEF Descending
  <2>2. Ascending => Ascending' BY <1>1 DEF Ascending
  <2> QED BY <1>1, <2>1, <2>2 DEF BInv, Working
<1>5. Counted' BY <1>1 DEF BInv, Counted
<1> QED BY <1>2, <1>3, <1>4, <1>5 DEF BInv

\* Every step keeps the invariant.
LEMMA BInvStep ==
    ASSUME BInv, [Next]_vars
    PROVE  BInv'
<1>1. ASSUME NEW k \in Key, Insert(k) PROVE BInv' BY <1>1, InsertStep
<1>2. CASE Descend BY <1>2, DescendStep
<1>3. CASE InsertIntoLeaf BY <1>3, LeafStep
<1>4. CASE SplitLeaf BY <1>4, SplitLeafStep
<1>5. CASE NoParent BY <1>5, NoParentStep
<1>6. CASE BadParent BY <1>6, BadParentStep
<1>7. CASE InsertIntoParent BY <1>7, ParentStep
<1>8. CASE SplitInternal BY <1>8, SplitInternalStep
<1>9. CASE NewRoot BY <1>9, NewRootStep
<1>10. CASE UNCHANGED vars BY <1>10, NoStep
<1> QED BY <1>1, <1>2, <1>3, <1>4, <1>5, <1>6, <1>7, <1>8, <1>9, <1>10 DEF Next

\* The pages of the index and the pointers between them are as BInv says, after
\* every page write of every insert, the ones after which an insert failed too.
THEOREM Invariance == Spec => []BInv
<1>1. Init => BInv BY BInvInit
<1>2. BInv /\ [Next]_vars => BInv' BY BInvStep
<1> QED BY <1>1, <1>2, PTL DEF Spec

\* A node that insert, split_leaf, split_internal or new_root writes has as many
\* values as keys, one child more than keys, and no more than MAX_KEYS keys.
THEOREM TypeCorrect == Spec => []TypeOK
<1>1. ASSUME BInv PROVE TypeOK
  <2>1. Filed /\ Counted /\ Working BY <1>1 DEF BInv
  <2>2. \A p \in DOMAIN pages : WellFormed(pages[p]) BY <2>1, FiledIs DEF PageSet
  <2>3. op.at \in {"idle", "panic", "descend", "leaf", "parent", "new_root"}
    <3>1. CASE op = NoOp BY <3>1 DEF NoOp
    <3>2. CASE Descending BY <3>2 DEF Descending
    <3>3. CASE Ascending BY <3>3 DEF Ascending
    <3> QED BY <2>1, <3>1, <3>2, <3>3 DEF Working
  <2> QED BY <2>1, <2>2, <2>3 DEF TypeOK, Filed, Counted
<1> QED BY <1>1, Invariance, PTL

\* insert_into_parent never reads a leaf as parent, the unreachable!() of
\* btree.rs:681: not in a tree that failed writes have left in pieces, nor when the
\* pointers of a misread node have led the insert to any page of the file.
THEOREM NoPanicCorrect == Spec => []NoPanic
<1>1. ASSUME BInv PROVE NoPanic
  <2>1. CASE op = NoOp BY <2>1 DEF NoOp, Panic, NoPanic
  <2>2. CASE Descending BY <2>2 DEF Descending, Panic, NoPanic
  <2>3. CASE Ascending BY <2>3 DEF Ascending, Panic, NoPanic
  <2> QED BY <1>1, <2>1, <2>2, <2>3 DEF BInv, Working
<1> QED BY <1>1, Invariance, PTL

\* The tree and the engine allocate from one file without getting into each
\* other's pages: the data page of an insert that returned Ok stays what it is, and
\* neither the root nor a child pointer of a node that was not misread leads to a
\* data page.
THEOREM DataCorrect == Spec => []DataPagesKept
<1>1. ASSUME BInv PROVE DataPagesKept
  <2>1. Filed /\ Entered BY <1>1 DEF BInv
  <2>2. \A e \in entries : pages[e[2]] = Data BY <2>1 DEF Entered
  <2>3. Read(root).kind # "data" BY <2>1 DEF Filed, Read
  <2>4. ASSUME NEW p \in DOMAIN pages, IsInternal(pages[p]), pages[p].parent = None,
               NEW i \in DOMAIN pages[p].children
        PROVE  Read(pages[p].children[i]).kind # "data"
    <3>1. Links(pages[p]) BY <2>1 DEF Filed
    <3>2. pages[p].children[i] \in DOMAIN pages /\ pages[pages[p].children[i]].kind # "data"
      BY <2>4, <3>1 DEF Links
    <3> QED BY <3>2 DEF Read
  <2> QED BY <2>2, <2>3, <2>4 DEF DataPagesKept
<1> QED BY <1>1, Invariance, PTL

------------------------------------------------------------------------------
(* What is below a page.                                                   *)

\* The children of the internal nodes among some pages.
ChildrenOf(S) == UNION {ToSet(Read(q).children) : q \in {q \in S : IsInternal(Read(q))}}

\* f lists the pages below p level by level, down to level n.
Levels(f, p, n) == f[0] = {p} /\ \A d \in 1..n : f[d] = ChildrenOf(f[d - 1])

\* Page ids are numbers.
LEMMA ChildrenNumbers ==
    ASSUME Filed, NEW S
    PROVE  ChildrenOf(S) \subseteq Nat
<1> SUFFICES ASSUME NEW q, IsInternal(Read(q)), NEW c \in ToSet(Read(q).children)
             PROVE  c \in Nat
  BY DEF ChildrenOf
<1>1. q \in DOMAIN pages /\ Read(q) = pages[q] /\ pages[q].kind = "internal"
  BY DEF Read, IsInternal, Unreadable
<1>2. pages[q].children \in Seq(Nat) BY <1>1, FiledIs, PageIs
<1> QED BY <1>1, <1>2 DEF ToSet

\* There are finitely many pages of a kind, and at least the one at hand.
LEMMA PagesCounted ==
    ASSUME Filed, NEW kind
    PROVE  /\ Pages(kind) \in Nat
           /\ \A p \in DOMAIN pages : pages[p].kind = kind => Pages(kind) >= 1
<1> DEFINE S == {p \in DOMAIN pages : pages[p].kind = kind}
<1>1. DOMAIN pages = 1..Len(pages) /\ Len(pages) \in Nat BY FiledIs
<1>2. IsFiniteSet(1..Len(pages))
  <2>1. 1 \in Int /\ Len(pages) \in Int BY <1>1
  <2> QED BY <2>1, FS_Interval
<1>3. S \subseteq 1..Len(pages) BY <1>1
<1> HIDE DEF S
<1>4. IsFiniteSet(S) BY <1>2, <1>3, FS_Subset
<1>5. Cardinality(S) \in Nat BY <1>4, FS_CardinalityType
<1>6. Cardinality(S) = 0 <=> S = {} BY <1>4, FS_EmptySet
<1>7. Pages(kind) = Cardinality(S) BY DEF Pages, S
<1>8. ASSUME NEW p \in DOMAIN pages, pages[p].kind = kind PROVE S # {}
  <2>1. p \in S BY <1>8 DEF S
  <2> QED BY <2>1
<1> QED BY <1>5, <1>6, <1>7, <1>8

\* Below(p) is what the levels hold.
LEMMA BelowLevels ==
    ASSUME Filed, NEW p \in Nat
    PROVE  \E f : /\ Levels(f, p, Pages("internal"))
                  /\ Below(p) = UNION {f[d] : d \in 0..Pages("internal")}
<1>1. PICK n \in Nat : n = Pages("internal") BY PagesCounted
<1> DEFINE Is(f) ==
             f = [d \in 0..n |-> IF d = 0 THEN {p}
                                 ELSE UNION {ToSet(Read(q).children) :
                                        q \in {q \in f[d - 1] : IsInternal(Read(q))}}]
<1>2. \E f : Is(f)
  <2> DEFINE X == SUBSET Nat
             h == [S \in X |-> ChildrenOf(S)]
  <2>1. h \in [X -> X] /\ \A S \in X : h[S] = ChildrenOf(S)
    BY ChildrenNumbers
  <2>2. {p} \in X OBVIOUS
  <2> HIDE DEF h, X
  <2>3. PICK f \in [0..n -> X] : Iterates(f, h, {p}, n)
    BY <2>1, <2>2, IterationExists
  <2>4. ASSUME NEW d \in 0..n
        PROVE  f[d] = IF d = 0 THEN {p} ELSE ChildrenOf(f[d - 1])
    <3>1. CASE d = 0 BY <2>3, <3>1 DEF Iterates
    <3>2. CASE d # 0
      <4>1. d \in 1..n /\ d - 1 \in 0..n BY <3>2
      <4>2. f[d] = h[f[d - 1]] BY <2>3, <4>1 DEF Iterates
      <4> QED BY <2>1, <3>2, <4>1, <4>2
    <3> QED BY <3>1, <3>2
  <2>5. f = [d \in 0..n |-> f[d]] OBVIOUS
  <2>6. f = [d \in 0..n |-> IF d = 0 THEN {p} ELSE ChildrenOf(f[d - 1])]
    BY <2>4, <2>5
  <2>7. Is(f) BY <2>6 DEF ChildrenOf
  <2> QED BY <2>7
<1> DEFINE level == CHOOSE f : Is(f)
<1>3. Is(level) BY <1>2
<1>4. Below(p) = UNION {level[d] : d \in 0..n}
  BY <1>1 DEF Below
<1> HIDE DEF level
<1>5. level = [d \in 0..n |-> IF d = 0 THEN {p} ELSE ChildrenOf(level[d - 1])]
  BY <1>3 DEF ChildrenOf
<1> HIDE DEF Is
<1>6. level[0] = {p}
  <2>1. 0 \in 0..n OBVIOUS
  <2> QED BY <1>5, <2>1
<1>7. ASSUME NEW d \in 1..n PROVE level[d] = ChildrenOf(level[d - 1])
  <2>1. d \in 0..n /\ d # 0 OBVIOUS
  <2> QED BY <1>5, <2>1
<1>8. Levels(level, p, n) BY <1>6, <1>7 DEF Levels
<1> QED BY <1>1, <1>4, <1>8

\* A page and its children.
NodesAt(p) == {p} \cup ChildrenOf({p})

\* They are below it.
LEMMA BelowHolds ==
    ASSUME Filed, NEW p \in Nat
    PROVE  NodesAt(p) \subseteq Below(p)
<1>1. PICK n \in Nat : n = Pages("internal") BY PagesCounted
<1>2. PICK f : Levels(f, p, n) /\ Below(p) = UNION {f[d] : d \in 0..n}
  BY <1>1, BelowLevels
<1>3. f[0] = {p} /\ f[0] \subseteq Below(p)
  BY <1>2 DEF Levels
<1>4. CASE ~IsInternal(Read(p))
  BY <1>3, <1>4 DEF NodesAt, ChildrenOf
<1>5. CASE IsInternal(Read(p))
  <2>1. p \in DOMAIN pages /\ pages[p].kind = "internal"
    BY <1>5 DEF Read, IsInternal, Unreadable
  <2>2. n >= 1 BY <1>1, <2>1, PagesCounted
  <2>3. 1 \in 1..n /\ 1 \in 0..n /\ 1 - 1 = 0 BY <2>2
  <2>4. f[1] = ChildrenOf(f[0]) BY <1>2, <2>3 DEF Levels
  <2>5. f[1] \subseteq Below(p) BY <1>2, <2>3
  <2> QED BY <1>3, <2>4, <2>5 DEF NodesAt
<1> QED BY <1>4, <1>5

\* Nothing else is, when the children have none, or only such as lead nowhere.
LEMMA BelowWithin ==
    ASSUME Filed, NEW p \in Nat, NEW S, p \in S, ChildrenOf(S) \subseteq S
    PROVE  Below(p) \subseteq S
<1>1. PICK n \in Nat : n = Pages("internal") BY PagesCounted
<1>2. PICK f : Levels(f, p, n) /\ Below(p) = UNION {f[d] : d \in 0..n}
  BY <1>1, BelowLevels
<1> DEFINE H == {d \in Nat : d \in 0..n => f[d] \subseteq S}
<1>3. 0 \in H BY <1>2 DEF Levels
<1>4. ASSUME NEW d \in Nat, d \in H PROVE d + 1 \in H
  <2> SUFFICES ASSUME d + 1 \in 0..n PROVE f[d + 1] \subseteq S OBVIOUS
  <2>1. d \in 0..n /\ d + 1 \in 1..n /\ (d + 1) - 1 = d OBVIOUS
  <2>2. f[d] \subseteq S BY <1>4, <2>1
  <2>3. f[d + 1] = ChildrenOf(f[d]) BY <1>2, <2>1 DEF Levels
  <2>4. ChildrenOf(f[d]) \subseteq ChildrenOf(S) BY <2>2 DEF ChildrenOf
  <2> QED BY <2>3, <2>4
<1> HIDE DEF H
<1>5. Nat \subseteq H BY <1>3, <1>4, SetInduction
<1>6. ASSUME NEW d \in 0..n PROVE f[d] \subseteq S
  <2>1. d \in Nat OBVIOUS
  <2>2. d \in H BY <1>5, <2>1
  <2> QED BY <1>6, <2>2 DEF H
<1> QED BY <1>2, <1>6

\* One node of find_leaf.
Follow(q, k) ==
    IF IsInternal(Read(q)) THEN Read(q).children[FindChild(Read(q).keys, k)] ELSE q

\* The child that find_leaf follows is one.
LEMMA FollowIs ==
    ASSUME Filed, NEW q \in Nat, NEW k \in Int
    PROVE  /\ Follow(q, k) \in Nat
           /\ IsInternal(Read(q)) =>
                 /\ q \in DOMAIN pages /\ Read(q) = pages[q]
                 /\ FindChild(Read(q).keys, k) \in DOMAIN Read(q).children
<1>1. CASE ~IsInternal(Read(q)) BY <1>1 DEF Follow
<1>2. CASE IsInternal(Read(q))
  <2>1. q \in DOMAIN pages /\ Read(q) = pages[q] /\ pages[q].kind = "internal"
    BY <1>2 DEF Read, IsInternal, Unreadable
  <2>2. PICK n : n = pages[q] OBVIOUS
  <2>3. /\ n.keys \in Seq(Int) /\ n.children \in Seq(Nat)
        /\ Len(n.children) = Len(n.keys) + 1
    BY <2>1, <2>2, FiledIs, PageIs
  <2>4. FindChild(n.keys, k) \in 1..Len(n.children) BY <2>3, ChildFound
  <2>5. FindChild(n.keys, k) \in DOMAIN n.children BY <2>3, <2>4, LenProperties
  <2>6. n.children[FindChild(n.keys, k)] \in Nat BY <2>3, <2>5
  <2> QED BY <1>2, <2>1, <2>2, <2>5, <2>6 DEF Follow
<1> QED BY <1>1, <1>2

\* find_leaf ends where it meets a node that is not internal: at the root, or at
\* the child of the root that it follows.
LEMMA FindLeafIs ==
    ASSUME Filed, NEW k \in Int, NEW c, c = root \/ c = Follow(root, k), ~IsInternal(Read(c))
    PROVE  FindLeaf(k) = c
<1>0. root \in Nat /\ root \in DOMAIN pages BY FiledIs DEF Filed
<1>1. PICK n \in Nat : n = Pages("internal") BY PagesCounted
<1> DEFINE Is(f) ==
             f = [d \in 0..n |-> IF d = 0 THEN root
                    ELSE LET node == Read(f[d - 1])
                         IN  IF IsInternal(node) THEN node.children[FindChild(node.keys, k)]
                             ELSE f[d - 1]]
<1>2. \E f : Is(f)
  <2> DEFINE h == [q \in Nat |-> Follow(q, k)]
  <2>1. h \in [Nat -> Nat] /\ \A q \in Nat : h[q] = Follow(q, k)
    BY FollowIs
  <2> HIDE DEF h
  <2>2. PICK f \in [0..n -> Nat] : Iterates(f, h, root, n)
    BY <1>0, <2>1, IterationExists
  <2>3. ASSUME NEW d \in 0..n
        PROVE  f[d] = IF d = 0 THEN root ELSE Follow(f[d - 1], k)
    <3>1. CASE d = 0 BY <2>2, <3>1 DEF Iterates
    <3>2. CASE d # 0
      <4>1. d \in 1..n /\ d - 1 \in 0..n BY <3>2
      <4>2. f[d] = h[f[d - 1]] BY <2>2, <4>1 DEF Iterates
      <4> QED BY <2>1, <3>2, <4>1, <4>2
    <3> QED BY <3>1, <3>2
  <2>4. f = [d \in 0..n |-> f[d]] OBVIOUS
  <2>5. f = [d \in 0..n |-> IF d = 0 THEN root ELSE Follow(f[d - 1], k)]
    BY <2>3, <2>4
  <2>6. Is(f) BY <2>5 DEF Follow
  <2> QED BY <2>6
<1> DEFINE at == CHOOSE f : Is(f)
<1>3. Is(at) BY <1>2
<1>4. FindLeaf(k) = at[n] BY <1>1 DEF FindLeaf
<1> HIDE DEF at
<1>5. at = [d \in 0..n |-> IF d = 0 THEN root ELSE Follow(at[d - 1], k)]
  BY <1>3 DEF Follow
<1> HIDE DEF Is
<1>6. at[0] = root
  <2>1. 0 \in 0..n OBVIOUS
  <2> QED BY <1>5, <2>1
<1>7. ASSUME NEW d \in 1..n PROVE at[d] = Follow(at[d - 1], k)
  <2>1. d \in 0..n /\ d # 0 OBVIOUS
  <2> QED BY <1>5, <2>1
\* The level from which the search stays at c.
<1>8. \E m \in 0..n : at[m] = c
  <2>1. CASE c = root
    <3>1. 0 \in 0..n OBVIOUS
    <3> QED BY <1>6, <2>1, <3>1
  <2>2. CASE c = Follow(root, k) /\ c # root
    <3>1. IsInternal(Read(root)) BY <2>2 DEF Follow
    <3>2. pages[root].kind = "internal" BY <1>0, <3>1 DEF Read, IsInternal
    <3>3. n >= 1 BY <1>0, <1>1, <3>2, PagesCounted
    <3>4. 1 \in 1..n /\ 1 \in 0..n /\ 1 - 1 = 0 BY <3>3
    <3>5. at[1] = c BY <1>6, <1>7, <2>2, <3>4
    <3> QED BY <3>4, <3>5
  <2> QED BY <2>1, <2>2
<1>9. PICK m \in 0..n : at[m] = c BY <1>8
<1> DEFINE H == {e \in Nat : m + e \in 0..n => at[m + e] = c}
<1>10. 0 \in H
  <2>1. m + 0 = m OBVIOUS
  <2> QED BY <1>9, <2>1
<1>11. ASSUME NEW e \in Nat, e \in H PROVE e + 1 \in H
  <2> SUFFICES ASSUME m + (e + 1) \in 0..n PROVE at[m + (e + 1)] = c OBVIOUS
  <2>1. m + e \in 0..n /\ m + (e + 1) \in 1..n /\ (m + (e + 1)) - 1 = m + e OBVIOUS
  <2>2. at[m + e] = c BY <1>11, <2>1
  <2>3. at[m + (e + 1)] = Follow(c, k) BY <1>7, <2>1, <2>2
  <2> QED BY <2>3 DEF Follow
<1> HIDE DEF H
<1>12. Nat \subseteq H BY <1>10, <1>11, SetInduction
<1>13. n - m \in Nat /\ m + (n - m) = n /\ n \in 0..n OBVIOUS
<1>14. n - m \in H BY <1>12, <1>13
<1>15. at[m + (n - m)] = c BY <1>13, <1>14 DEF H
<1> QED BY <1>4, <1>13, <1>15

------------------------------------------------------------------------------
(* Sequences, place by place.                                              *)

\* t is s with e put in at place i.
Spliced(t, s, i, e) ==
    /\ DOMAIN s = 1..Len(s) /\ Len(s) \in Nat /\ DOMAIN t = 1..(Len(s) + 1)
    /\ i \in 1..(Len(s) + 1)
    /\ t[i] = e
    /\ \A j \in 1..Len(s) : /\ j < i => t[j] = s[j]
                            /\ i =< j => t[j + 1] = s[j]

\* Vec::insert does that.
LEMMA InsertedPlaces ==
    ASSUME NEW S, NEW s \in Seq(S), NEW i \in 1..(Len(s) + 1), NEW e \in S
    PROVE  Spliced(InsertAt(s, i, e), s, i, e)
<1> DEFINE a == SubSeq(s, 1, i - 1)
           b == SubSeq(s, i, Len(s))
           c == a \o <<e>>
<1>1. Len(s) \in Nat /\ DOMAIN s = 1..Len(s) BY LenProperties
<1>2. /\ a \in Seq(S) /\ Len(a) = i - 1
      /\ \A j \in 1..(i - 1) : a[j] = s[j]
  <2>1. \A j \in 1..(i - 1) : s[j] \in S BY <1>1
  <2>2. /\ a \in Seq(S) /\ Len(a) = IF 1 =< i - 1 THEN (i - 1) - 1 + 1 ELSE 0
        /\ \A j \in 1..((i - 1) - 1 + 1) : a[j] = s[1 + j - 1]
    BY <1>1, <2>1, SubSeqProperties
  <2> HIDE DEF a
  <2> QED BY <2>2
<1>3. /\ b \in Seq(S) /\ Len(b) = Len(s) - i + 1
      /\ \A j \in 1..(Len(s) - i + 1) : b[j] = s[i + j - 1]
  <2>1. \A j \in i..Len(s) : s[j] \in S BY <1>1
  <2>2. /\ b \in Seq(S) /\ Len(b) = IF i =< Len(s) THEN Len(s) - i + 1 ELSE 0
        /\ \A j \in 1..(Len(s) - i + 1) : b[j] = s[i + j - 1]
    BY <1>1, <2>1, SubSeqProperties
  <2> HIDE DEF b
  <2> QED BY <1>1, <2>2
<1>4. <<e>> \in Seq(S) /\ Len(<<e>>) = 1 /\ <<e>>[1] = e OBVIOUS
<1> HIDE DEF a, b
<1>5. /\ c \in Seq(S) /\ Len(c) = i /\ c[i] = e
      /\ \A j \in 1..(i - 1) : c[j] = s[j]
  <2>1. /\ c \in Seq(S) /\ Len(c) = Len(a) + Len(<<e>>)
        /\ \A j \in 1..(Len(a) + Len(<<e>>)) :
              c[j] = IF j =< Len(a) THEN a[j] ELSE <<e>>[j - Len(a)]
    BY <1>2, <1>4, ConcatProperties
  <2> HIDE DEF c
  <2>2. Len(c) = i BY <1>2, <1>4, <2>1
  <2>3. c[i] = e
    <3>1. i \in 1..(Len(a) + Len(<<e>>)) /\ ~(i =< Len(a)) /\ i - Len(a) = 1 BY <1>2, <1>4
    <3> QED BY <1>4, <2>1, <3>1
  <2>4. ASSUME NEW j \in 1..(i - 1) PROVE c[j] = s[j]
    <3>1. j \in 1..(Len(a) + Len(<<e>>)) /\ j =< Len(a) BY <1>2, <1>4
    <3> QED BY <1>2, <2>1, <3>1
  <2> QED BY <2>1, <2>2, <2>3, <2>4
<1> HIDE DEF c
<1> DEFINE t == c \o b
<1>6. /\ t \in Seq(S) /\ Len(t) = Len(s) + 1
      /\ \A j \in 1..(Len(s) + 1) : t[j] = IF j =< i THEN c[j] ELSE b[j - i]
  <2>1. /\ t \in Seq(S) /\ Len(t) = Len(c) + Len(b)
        /\ \A j \in 1..(Len(c) + Len(b)) : t[j] = IF j =< Len(c) THEN c[j] ELSE b[j - Len(c)]
    BY <1>3, <1>5, ConcatProperties
  <2>2. Len(c) + Len(b) = Len(s) + 1 BY <1>1, <1>3, <1>5
  <2> HIDE DEF t
  <2> QED BY <1>5, <2>1, <2>2
<1>7. InsertAt(s, i, e) = t BY DEF InsertAt, t, c, a, b
<1> HIDE DEF t
<1>8. t[i] = e BY <1>1, <1>5, <1>6
<1>9. ASSUME NEW j \in 1..Len(s), j < i PROVE t[j] = s[j]
  <2>1. j \in 1..(Len(s) + 1) /\ j =< i /\ j \in 1..(i - 1) BY <1>1, <1>9
  <2> QED BY <1>5, <1>6, <2>1
<1>10. ASSUME NEW j \in 1..Len(s), i =< j PROVE t[j + 1] = s[j]
  <2>1. /\ j + 1 \in 1..(Len(s) + 1) /\ ~(j + 1 =< i)
        /\ (j + 1) - i \in 1..(Len(s) - i + 1) /\ i + ((j + 1) - i) - 1 = j
    BY <1>1, <1>10
  <2>2. b[(j + 1) - i] = s[j] BY <1>3, <2>1
  <2> QED BY <1>6, <2>1, <2>2
<1>11. DOMAIN t = 1..(Len(s) + 1) BY <1>6, LenProperties
<1> QED BY <1>1, <1>7, <1>8, <1>9, <1>10, <1>11 DEF Spliced

\* Every place of the longer one is the new one or a moved one.
LEMMA SplicedFrom ==
    ASSUME NEW t, NEW s, NEW i, NEW e, Spliced(t, s, i, e), NEW j \in DOMAIN t
    PROVE  \/ j = i /\ t[j] = e
           \/ j < i /\ j \in DOMAIN s /\ t[j] = s[j]
           \/ i < j /\ j - 1 \in DOMAIN s /\ t[j] = s[j - 1]
<1>1. Len(s) \in Nat /\ j \in 1..(Len(s) + 1) /\ i \in 1..(Len(s) + 1) BY DEF Spliced
<1>2. CASE j = i BY <1>2 DEF Spliced
<1>3. CASE j < i
  <2>1. j \in 1..Len(s) BY <1>1, <1>3
  <2> QED BY <1>3, <2>1 DEF Spliced
<1>4. CASE i < j
  <2>1. j - 1 \in 1..Len(s) /\ i =< j - 1 /\ (j - 1) + 1 = j BY <1>1, <1>4
  <2>2. t[(j - 1) + 1] = s[j - 1] BY <2>1 DEF Spliced
  <2>3. t[j] = s[j - 1] BY <2>1, <2>2
  <2>4. DOMAIN s = 1..Len(s) BY DEF Spliced
  <2> QED BY <1>4, <2>1, <2>3, <2>4
<1> QED BY <1>1, <1>2, <1>3, <1>4

\* t is the part of s from place m to place n.
IsPart(t, s, m, n) ==
    /\ DOMAIN t = 1..(n - m + 1)
    /\ \A j \in 1..(n - m + 1) : m + j - 1 \in DOMAIN s /\ t[j] = s[m + j - 1]

\* So is what split_off and truncate leave.
LEMMA CutPlaces ==
    ASSUME NEW S, NEW s \in Seq(S), NEW m \in Nat \ {0}, NEW n \in Nat,
           n =< Len(s), m =< n + 1
    PROVE  IsPart(SubSeq(s, m, n), s, m, n)
<1> DEFINE t == SubSeq(s, m, n)
<1>1. Len(s) \in Nat /\ DOMAIN s = 1..Len(s) BY LenProperties
<1>2. \A i \in m..n : s[i] \in S BY <1>1
<1>3. /\ t \in Seq(S) /\ Len(t) = IF m =< n THEN n - m + 1 ELSE 0
      /\ \A j \in 1..(n - m + 1) : t[j] = s[m + j - 1]
  BY <1>2, SubSeqProperties
<1> HIDE DEF t
<1>4. Len(t) = n - m + 1 BY <1>3
<1>5. DOMAIN t = 1..(n - m + 1) BY <1>3, <1>4, LenProperties
<1>6. \A j \in 1..(n - m + 1) : m + j - 1 \in DOMAIN s BY <1>1
<1>7. IsPart(t, s, m, n) BY <1>3, <1>5, <1>6 DEF IsPart
<1> QED BY <1>7 DEF t

------------------------------------------------------------------------------
(* Keys in order.                                                          *)

Sorted(s) == \A i, j \in DOMAIN s : i =< j => s[i] =< s[j]

\* i is the place of k between keys that are at most k and a greater one.
PlaceOf(keys, k, i) ==
    /\ i \in 1..(Len(keys) + 1)
    /\ \A j \in 1..Len(keys) : j < i => keys[j] =< k
    /\ i =< Len(keys) => k < keys[i]

\* find_child finds it.
LEMMA PlaceFound ==
    ASSUME NEW keys \in Seq(Int), NEW k \in Int
    PROVE  PlaceOf(keys, k, FindChild(keys, k))
<1> DEFINE greater == {i \in DOMAIN keys : k < keys[i]}
<1>1. /\ Len(keys) \in Nat /\ DOMAIN keys = 1..Len(keys)
      /\ \A j \in 1..Len(keys) : keys[j] \in Int
  BY LenProperties
<1>2. /\ greater \in SUBSET Nat
      /\ \A i \in greater : i \in 1..Len(keys) /\ k < keys[i]
      /\ \A i \in 1..Len(keys) : i \notin greater => keys[i] =< k
  BY <1>1
<1>3. FindChild(keys, k) =
        IF greater = {} THEN Len(keys) + 1
        ELSE CHOOSE i \in greater : \A j \in greater : i =< j
  BY DEF FindChild
<1> HIDE DEF greater
<1>4. CASE greater = {}
  BY <1>1, <1>2, <1>3, <1>4 DEF PlaceOf
<1>5. CASE greater # {}
  <2>1. \E i \in greater : \A j \in greater : i =< j BY <1>2, <1>5, LeastNumber
  <2>2. PICK x : x = CHOOSE i \in greater : \A j \in greater : i =< j OBVIOUS
  <2>3. x \in greater /\ \A j \in greater : x =< j BY <2>1, <2>2, Zenon
  <2>4. FindChild(keys, k) = x BY <1>3, <1>5, <2>2
  <2>5. x \in 1..Len(keys) /\ k < keys[x] BY <1>2, <2>3
  <2>6. ASSUME NEW j \in 1..Len(keys), j < x PROVE keys[j] =< k
    <3>1. ~(x =< j) BY <2>5, <2>6
    <3> QED BY <1>2, <2>3, <3>1
  <2>7. x \in 1..(Len(keys) + 1) BY <1>1, <2>5
  <2>8. PlaceOf(keys, k, x) BY <2>5, <2>6, <2>7 DEF PlaceOf
  <2> QED BY <2>4, <2>8
<1> QED BY <1>4, <1>5

\* There is only one.
LEMMA OnePlace ==
    ASSUME NEW keys \in Seq(Int), NEW k \in Int, NEW i, NEW j,
           PlaceOf(keys, k, i), PlaceOf(keys, k, j)
    PROVE  i = j
<1>1. /\ Len(keys) \in Nat /\ i \in 1..(Len(keys) + 1) /\ j \in 1..(Len(keys) + 1)
      /\ \A m \in 1..Len(keys) : keys[m] \in Int
  BY LenProperties DEF PlaceOf
<1>2. ASSUME NEW a, NEW b, PlaceOf(keys, k, a), PlaceOf(keys, k, b), a < b PROVE FALSE
  <2>1. a \in 1..(Len(keys) + 1) /\ b \in 1..(Len(keys) + 1) BY <1>2 DEF PlaceOf
  <2>2. a \in 1..Len(keys) /\ a =< Len(keys) BY <1>1, <1>2, <2>1
  <2>3. k < keys[a] /\ keys[a] =< k BY <1>2, <2>2 DEF PlaceOf
  <2> QED BY <1>1, <2>2, <2>3
<1>3. i < j \/ j < i \/ i = j BY <1>1
<1> QED BY <1>2, <1>3

\* A key put in at its place leaves them in order.
LEMMA SortedSpliced ==
    ASSUME NEW s \in Seq(Int), Sorted(s), NEW k \in Int, NEW i, PlaceOf(s, k, i),
           NEW t, Spliced(t, s, i, k)
    PROVE  Sorted(t)
<1>1. /\ Len(s) \in Nat /\ DOMAIN s = 1..Len(s) /\ \A j \in DOMAIN s : s[j] \in Int
  BY LenProperties
<1>2. i \in 1..(Len(s) + 1) BY DEF PlaceOf
<1>3. ASSUME NEW a \in DOMAIN t, NEW b \in DOMAIN t, a =< b
      PROVE  t[a] =< t[b]
  <2>1. a \in Int /\ b \in Int BY <1>1 DEF Spliced
  <2>2. \/ a = i /\ t[a] = k
        \/ a < i /\ a \in DOMAIN s /\ t[a] = s[a]
        \/ i < a /\ a - 1 \in DOMAIN s /\ t[a] = s[a - 1]
    BY SplicedFrom
  <2>3. \/ b = i /\ t[b] = k
        \/ b < i /\ b \in DOMAIN s /\ t[b] = s[b]
        \/ i < b /\ b - 1 \in DOMAIN s /\ t[b] = s[b - 1]
    BY SplicedFrom
  <2>4. \A j \in DOMAIN s : j < i => s[j] =< k BY <1>1 DEF PlaceOf
  <2>5. ASSUME NEW j \in DOMAIN s, i =< j PROVE k =< s[j]
    <3>1. i \in DOMAIN s /\ i =< Len(s) BY <1>1, <1>2, <2>5
    <3>2. k < s[i] BY <3>1 DEF PlaceOf
    <3>3. s[i] =< s[j] BY <2>5, <3>1 DEF Sorted
    <3> QED BY <1>1, <3>1, <3>2, <3>3
  <2>6. CASE a = i /\ t[a] = k
    <3>1. CASE b = i /\ t[b] = k BY <2>6, <3>1
    <3>2. CASE i < b /\ b - 1 \in DOMAIN s /\ t[b] = s[b - 1]
      <4>1. i =< b - 1 BY <1>2, <2>1, <3>2
      <4> QED BY <2>5, <2>6, <3>2, <4>1
    <3> QED BY <1>2, <1>3, <2>1, <2>3, <2>6, <3>1, <3>2
  <2>7. CASE a < i /\ a \in DOMAIN s /\ t[a] = s[a]
    <3>1. s[a] =< k BY <2>4, <2>7
    <3>2. CASE b = i /\ t[b] = k BY <2>7, <3>1, <3>2
    <3>3. CASE b < i /\ b \in DOMAIN s /\ t[b] = s[b]
      BY <1>3, <2>7, <3>3 DEF Sorted
    <3>4. CASE i < b /\ b - 1 \in DOMAIN s /\ t[b] = s[b - 1]
      <4>1. a =< b - 1 BY <1>2, <2>1, <2>7, <3>4
      <4> QED BY <2>7, <3>4, <4>1 DEF Sorted
    <3> QED BY <2>3, <3>2, <3>3, <3>4
  <2>8. CASE i < a /\ a - 1 \in DOMAIN s /\ t[a] = s[a - 1]
    <3>1. i < b /\ a - 1 =< b - 1 BY <1>2, <1>3, <2>1, <2>8
    <3>2. b - 1 \in DOMAIN s /\ t[b] = s[b - 1] BY <1>2, <2>1, <2>3, <3>1
    <3> QED BY <2>8, <3>1, <3>2 DEF Sorted
  <2> QED BY <2>2, <2>6, <2>7, <2>8
<1> QED BY <1>3 DEF Sorted

\* A part of them is in order too.
LEMMA SortedPart ==
    ASSUME NEW s, Sorted(s), NEW m \in Nat, NEW n \in Nat, NEW t, IsPart(t, s, m, n)
    PROVE  Sorted(t)
<1>1. ASSUME NEW i \in DOMAIN t, NEW j \in DOMAIN t, i =< j PROVE t[i] =< t[j]
  <2>1. i \in 1..(n - m + 1) /\ j \in 1..(n - m + 1) BY DEF IsPart
  <2>2. /\ m + i - 1 \in DOMAIN s /\ t[i] = s[m + i - 1]
        /\ m + j - 1 \in DOMAIN s /\ t[j] = s[m + j - 1]
    BY <2>1 DEF IsPart
  <2>3. m + i - 1 =< m + j - 1 BY <1>1, <2>1
  <2> QED BY <2>2, <2>3 DEF Sorted
<1> QED BY <1>1 DEF Sorted

------------------------------------------------------------------------------
(* What the steps of an insert write.                                      *)

\* One page is written, the others are left as they are.
Writes(p, n) ==
    /\ DOMAIN pages' = DOMAIN pages /\ Len(pages') = Len(pages) /\ pages'[p] = n
    /\ \A q \in DOMAIN pages : q # p => pages'[q] = pages[q]

\* One is written and one is added.
Splits(p, left, right) ==
    /\ NewPage \notin DOMAIN pages /\ NewPage \in Nat
    /\ DOMAIN pages' = DOMAIN pages \cup {NewPage}
    /\ pages'[p] = left /\ pages'[NewPage] = right
    /\ \A q \in DOMAIN pages : q # p => pages'[q] = pages[q]

\* n is the leaf with one more entry, at the place of its key.
Enters(n, leaf, k, v) ==
    /\ n.kind = "leaf" /\ n.parent = leaf.parent /\ n.next = leaf.next
    /\ \E i : /\ PlaceOf(leaf.keys, k, i)
              /\ Spliced(n.keys, leaf.keys, i, k)
              /\ Spliced(n.values, leaf.values, i, v)

\* insert_sorted.
LEMMA EntryPlaces ==
    ASSUME NEW leaf \in PageSet, leaf.kind = "leaf", NEW k \in Int, NEW v \in Int
    PROVE  Enters(WithEntry(leaf, k, v), leaf, k, v)
<1> DEFINE n == WithEntry(leaf, k, v)
<1>1. PICK i : i = FindChild(leaf.keys, k) OBVIOUS
<1>2. /\ leaf.keys \in Seq(Int) /\ leaf.values \in Seq(Int)
      /\ Len(leaf.keys) = Len(leaf.values)
  BY PageIs
<1>3. PlaceOf(leaf.keys, k, i) BY <1>1, <1>2, PlaceFound
<1>4. i \in 1..(Len(leaf.keys) + 1) BY <1>3 DEF PlaceOf
<1> DEFINE ks == InsertAt(leaf.keys, i, k)
           vs == InsertAt(leaf.values, i, v)
<1>5. Spliced(ks, leaf.keys, i, k) BY <1>2, <1>4, InsertedPlaces
<1>6. Spliced(vs, leaf.values, i, v)
  <2>1. i \in 1..(Len(leaf.values) + 1) BY <1>2, <1>4
  <2> QED BY <1>2, <2>1, InsertedPlaces
<1>7. n = Leaf(leaf.parent, leaf.next, ks, vs) BY <1>1 DEF WithEntry
<1> HIDE DEF ks, vs, n
<1>8. /\ n.kind = "leaf" /\ n.parent = leaf.parent /\ n.next = leaf.next
      /\ n.keys = ks /\ n.values = vs
  BY <1>7 DEF Leaf
<1>9. Enters(n, leaf, k, v) BY <1>3, <1>5, <1>6, <1>8 DEF Enters
<1> QED BY <1>9 DEF n

\* The leaf at which an insert has arrived.
LEMMA AtLeaf ==
    ASSUME BInv, op.at = "leaf"
    PROVE  /\ Filed /\ op # NoOp
           /\ op.page \in DOMAIN pages /\ pages[op.page].kind = "leaf"
           /\ pages[op.page] \in PageSet /\ Read(op.page) = pages[op.page]
           /\ op.key \in Key /\ op.key \in Int /\ op.value \in Int
<1>1. Descending /\ op.key \in Key /\ op.key \in Int /\ op.value \in Nat /\ op # NoOp
  BY DownIs
<1>2. op.page \in DOMAIN pages /\ pages[op.page].kind = "leaf" BY <1>1 DEF Descending
<1>3. Filed BY DEF BInv
<1> QED BY <1>1, <1>2, <1>3, FiledIs DEF Read

\* insert into a leaf with room.
LEMMA LeafWrites ==
    ASSUME BInv, InsertIntoLeaf
    PROVE  \E n : /\ Enters(n, pages[op.page], op.key, op.value)
                  /\ \/ Writes(op.page, n) /\ Ends
                     \/ Failed /\ pages' = pages
<1> DEFINE old == pages[op.page]
<1>1. op.at = "leaf" BY DEF InsertIntoLeaf
<1>2. /\ Filed /\ op.page \in DOMAIN pages /\ old.kind = "leaf" /\ old \in PageSet
      /\ Read(op.page) = old /\ op.key \in Int /\ op.value \in Int
  BY <1>1, AtLeaf
<1>3. PICK n : n = WithEntry(old, op.key, op.value) OBVIOUS
<1>4. Len(n.keys) =< MaxKeys /\ WriteAll(<<Stored(pages, op.page, n)>>, NoOp)
  BY <1>2, <1>3 DEF InsertIntoLeaf
<1>5. Enters(n, old, op.key, op.value)
  <2> HIDE DEF old
  <2> QED BY <1>2, <1>3, EntryPlaces
<1>6. n \in PageSet /\ n.kind = "leaf"
  <2>1. /\ n = Leaf(old.parent, old.next, n.keys, n.values)
        /\ n.kind = "leaf" /\ n.parent = old.parent /\ n.next = old.next
        /\ n.keys \in Seq(Int) /\ n.values \in Seq(Int) /\ Len(n.values) = Len(n.keys)
    BY <1>2, <1>3, EntryAdded
  <2>2. old.parent \in PageId /\ old.next \in PageId BY <1>2, PageIs
  <2> HIDE DEF old
  <2>3. n \in PageSet BY <1>4, <2>1, <2>2, LeafMade
  <2> QED BY <2>1, <2>3
<1>7. CASE pages' = Stored(pages, op.page, n) /\ Ends
  <2>1. /\ Len(pages') = Len(pages) /\ pages'[op.page] = n /\ DOMAIN pages' = DOMAIN pages
        /\ \A q \in DOMAIN pages : q # op.page => pages'[q] = pages[q]
    BY <1>2, <1>6, <1>7, OneKept
  <2>2. Writes(op.page, n) BY <2>1 DEF Writes
  <2> QED BY <1>5, <1>7, <2>2
<1>8. CASE Failed /\ pages' = pages BY <1>5, <1>8
<1> QED BY <1>4, <1>7, <1>8, WriteOne DEF Ends, Failed

\* left and right are the two parts of a leaf.
Halves(n, left, right) ==
    /\ left.kind = "leaf" /\ right.kind = "leaf"
    /\ left.parent = n.parent /\ right.parent = n.parent
    /\ left.next = NewPage
    /\ \E m, len \in Nat \ {0} :
          /\ m < len /\ DOMAIN n.keys = 1..len /\ DOMAIN n.values = 1..len
          /\ IsPart(left.keys, n.keys, 1, m) /\ IsPart(left.values, n.values, 1, m)
          /\ IsPart(right.keys, n.keys, m + 1, len) /\ IsPart(right.values, n.values, m + 1, len)

\* split_leaf.
LEMMA SplitLeafWrites ==
    ASSUME BInv, SplitLeaf
    PROVE  \E n, left, right :
              /\ Enters(n, pages[op.page], op.key, op.value)
              /\ Halves(n, left, right)
              /\ \/ /\ Splits(op.page, left, right) /\ faults' = faults
                    /\ op' = [at |-> "parent", key |-> op.key, value |-> op.value,
                              left |-> op.page, sep |-> right.keys[1], right |-> NewPage]
                 \/ Failed /\ pages' = pages
                 \/ Failed /\ Writes(op.page, left)
                 \/ Failed /\ Splits(op.page, left, right)
<1> DEFINE old == pages[op.page]
<1>1. op.at = "leaf" BY DEF SplitLeaf
<1>2. /\ Filed /\ op.page \in DOMAIN pages /\ old.kind = "leaf" /\ old \in PageSet
      /\ Read(op.page) = old /\ op.key \in Int /\ op.value \in Int
  BY <1>1, AtLeaf
<1>3. PICK n : n = WithEntry(old, op.key, op.value) OBVIOUS
<1>4. /\ n.kind = "leaf" /\ n.parent = old.parent /\ n.next = old.next
      /\ n.keys \in Seq(Int) /\ n.values \in Seq(Int)
      /\ Len(n.keys) = Len(old.keys) + 1 /\ Len(n.values) = Len(n.keys)
      /\ Len(old.keys) \in 0..MaxKeys
  BY <1>2, <1>3, EntryAdded
<1>5. Enters(n, old, op.key, op.value)
  <2> HIDE DEF old
  <2> QED BY <1>2, <1>3, EntryPlaces
<1>6. PICK len : len = Len(n.keys) OBVIOUS
<1>7. PICK mid : mid = len \div 2 OBVIOUS
<1> DEFINE lk == SubSeq(n.keys, 1, mid)
           lv == SubSeq(n.values, 1, mid)
           rk == SubSeq(n.keys, mid + 1, len)
           rv == SubSeq(n.values, mid + 1, len)
<1>8. PICK left : left = Leaf(n.parent, NewPage, lk, lv) OBVIOUS
<1>9. PICK right : right = Leaf(n.parent, n.next, rk, rv) OBVIOUS
<1> DEFINE up == [at |-> "parent", key |-> op.key, value |-> op.value,
                  left |-> op.page, sep |-> right.keys[1], right |-> NewPage]
<1>10. /\ len > MaxKeys
       /\ WriteAll(<<Stored(pages, op.page, left),
                     Stored(Stored(pages, op.page, left), NewPage, right)>>, up)
  BY <1>2, <1>3, <1>4, <1>6, <1>7, <1>8, <1>9 DEF SplitLeaf
<1>11. /\ MaxKeys \in Nat /\ MaxKeys >= 2 /\ len \in Nat \ {0} /\ mid \in Nat \ {0}
       /\ len = MaxKeys + 1 /\ mid < len /\ mid =< MaxKeys /\ len - mid =< MaxKeys
  <2>1. MaxKeys \in Nat /\ MaxKeys >= 2 BY BTreeAssumption
  <2>2. PICK k \in 0..MaxKeys : len = k + 1 BY <1>4, <1>6
  <2>3. len = MaxKeys + 1 BY <1>10, <2>1, <2>2
  <2> QED BY <1>7, <2>1, <2>3
<1>12. /\ lk \in Seq(Int) /\ Len(lk) = mid /\ IsPart(lk, n.keys, 1, mid)
       /\ lv \in Seq(Int) /\ Len(lv) = mid /\ IsPart(lv, n.values, 1, mid)
  <2>1. 1 \in Nat \ {0} /\ mid \in Nat /\ mid =< len /\ 1 =< mid + 1 /\ mid - 1 + 1 = mid
    BY <1>11
  <2> QED BY <1>4, <1>6, <2>1, Cut, CutPlaces
<1>13. /\ rk \in Seq(Int) /\ Len(rk) = len - mid /\ IsPart(rk, n.keys, mid + 1, len)
       /\ rv \in Seq(Int) /\ Len(rv) = len - mid /\ IsPart(rv, n.values, mid + 1, len)
  <2>1. /\ mid + 1 \in Nat \ {0} /\ len \in Nat /\ len =< len /\ mid + 1 =< len + 1
        /\ len - (mid + 1) + 1 = len - mid
    BY <1>11
  <2>2. /\ rk \in Seq(Int) /\ Len(rk) = len - (mid + 1) + 1
        /\ IsPart(rk, n.keys, mid + 1, len)
    BY <1>4, <1>6, <2>1, Cut, CutPlaces
  <2>3. /\ rv \in Seq(Int) /\ Len(rv) = len - (mid + 1) + 1
        /\ IsPart(rv, n.values, mid + 1, len)
    BY <1>4, <1>6, <2>1, Cut, CutPlaces
  <2> HIDE DEF rk, rv
  <2> QED BY <2>1, <2>2, <2>3
<1>14. n.parent \in PageId /\ n.next \in PageId /\ NewPage \in PageId
  BY <1>2, <1>4, PageIs, FiledIs DEF PageId
<1> HIDE DEF lk, lv, rk, rv, old
<1>15. /\ left \in PageSet /\ left.kind = "leaf" /\ left.parent = n.parent
       /\ left.next = NewPage /\ left.keys = lk /\ left.values = lv
  BY <1>8, <1>11, <1>12, <1>14, LeafMade
<1>16. /\ right \in PageSet /\ right.kind = "leaf" /\ right.parent = n.parent
       /\ right.keys = rk /\ right.values = rv
  BY <1>9, <1>11, <1>13, <1>14, LeafMade
<1>17. DOMAIN n.keys = 1..len /\ DOMAIN n.values = 1..len
  BY <1>4, <1>6, LenProperties
<1>18. Halves(n, left, right)
  BY <1>11, <1>12, <1>13, <1>15, <1>16, <1>17 DEF Halves
<1>19. pages[op.page].kind # "data" /\ left.kind = pages[op.page].kind BY <1>2, <1>15 DEF old
<1>20. CASE /\ pages' = Stored(Stored(pages, op.page, left), NewPage, right)
            /\ (op' = up /\ faults' = faults) \/ Failed
  <2>1. /\ pages'[op.page] = left /\ pages'[NewPage] = right
        /\ DOMAIN pages' = DOMAIN pages \cup {NewPage}
        /\ \A q \in DOMAIN pages : q # op.page => pages'[q] = pages[q]
    <3>1. pages' = Stored(Stored(pages, op.page, left), NewPage, right) BY <1>20
    <3>2. Filed /\ op.page \in DOMAIN pages /\ left \in PageSet /\ right \in PageSet
      BY <1>2, <1>15, <1>16
    <3> HIDE DEF up
    <3> QED BY <1>19, <3>1, <3>2, SplitKept
  <2>2. NewPage \notin DOMAIN pages /\ NewPage \in Nat BY <1>2, FiledIs
  <2>3. Splits(op.page, left, right) BY <2>1, <2>2 DEF Splits
  <2> QED BY <1>5, <1>18, <1>20, <2>3 DEF old
<1>21. CASE Failed /\ pages' = pages BY <1>5, <1>18, <1>21 DEF old
<1>22. CASE Failed /\ pages' = Stored(pages, op.page, left)
  <2>1. /\ pages'[op.page] = left /\ DOMAIN pages' = DOMAIN pages /\ Len(pages') = Len(pages)
        /\ \A q \in DOMAIN pages : q # op.page => pages'[q] = pages[q]
    BY <1>2, <1>15, <1>19, <1>22, OneKept
  <2>2. Writes(op.page, left) BY <2>1 DEF Writes
  <2> QED BY <1>5, <1>18, <1>22, <2>2 DEF old
<1> HIDE DEF up
<1> QED BY <1>10, <1>20, <1>21, <1>22, WriteTwo

\* n is the node with one more separator, at its place, and the child behind it.
Adopts(n, node, k, c) ==
    /\ n.kind = "internal" /\ n.parent = node.parent
    /\ \E i : /\ PlaceOf(node.keys, k, i)
              /\ Spliced(n.keys, node.keys, i, k)
              /\ Spliced(n.children, node.children, i + 1, c)

\* The insertion into an internal node.
LEMMA ChildPlaces ==
    ASSUME NEW node \in PageSet, node.kind = "internal", NEW k \in Int, NEW c \in Nat
    PROVE  Adopts(WithChild(node, k, c), node, k, c)
<1> DEFINE n == WithChild(node, k, c)
<1>1. PICK i : i = FindChild(node.keys, k) OBVIOUS
<1>2. /\ node.keys \in Seq(Int) /\ node.children \in Seq(Nat)
      /\ Len(node.children) = Len(node.keys) + 1
  BY PageIs
<1>3. PlaceOf(node.keys, k, i) BY <1>1, <1>2, PlaceFound
<1>4. i \in 1..(Len(node.keys) + 1) BY <1>3 DEF PlaceOf
<1> DEFINE ks == InsertAt(node.keys, i, k)
           cs == InsertAt(node.children, i + 1, c)
<1>5. Spliced(ks, node.keys, i, k) BY <1>2, <1>4, InsertedPlaces
<1>6. Spliced(cs, node.children, i + 1, c)
  <2>1. Len(node.keys) \in Nat BY <1>2, LenProperties
  <2>2. i + 1 \in 1..(Len(node.children) + 1) BY <1>2, <1>4, <2>1
  <2> QED BY <1>2, <2>2, InsertedPlaces
<1>7. n = Internal(node.parent, ks, cs) BY <1>1 DEF WithChild
<1> HIDE DEF ks, cs, n
<1>8. /\ n.kind = "internal" /\ n.parent = node.parent /\ n.keys = ks /\ n.children = cs
  BY <1>7 DEF Internal
<1>9. Adopts(n, node, k, c) BY <1>3, <1>5, <1>6, <1>8 DEF Adopts
<1> QED BY <1>9 DEF n

\* The parent that an insert has arrived at.
LEMMA AtParent ==
    ASSUME BInv, op.at = "parent", ParentOf(op.left) # None, IsInternal(Read(ParentOf(op.left)))
    PROVE  LET p == ParentOf(op.left)
           IN  /\ Filed /\ p \in DOMAIN pages /\ Read(p) = pages[p] /\ p = pages[op.left].parent
               /\ pages[p] \in PageSet /\ pages[p].kind = "internal"
               /\ op.sep \in Int /\ op.right \in Nat
<1>1. /\ ParentOf(op.left) = pages[op.left].parent
      /\ ParentOf(op.left) \in DOMAIN pages
      /\ Read(ParentOf(op.left)) = pages[ParentOf(op.left)]
  BY ParentIs
<1>2. op.sep \in Int /\ op.right \in Nat BY UpIs
<1>3. Filed BY DEF BInv
<1> QED BY <1>1, <1>2, <1>3, FiledIs DEF IsInternal

\* The node with the new child.
LEMMA WithChildIs ==
    ASSUME NEW node \in PageSet, node.kind = "internal", NEW k \in Int, NEW c \in Nat,
           NEW n, n = WithChild(node, k, c)
    PROVE  /\ n = Internal(node.parent, n.keys, n.children)
           /\ n.kind = "internal" /\ n.parent = node.parent /\ n.parent \in PageId
           /\ n.keys \in Seq(Int) /\ n.children \in Seq(Nat)
           /\ Len(n.keys) = Len(node.keys) + 1 /\ Len(n.children) = Len(n.keys) + 1
           /\ Len(node.keys) \in 1..MaxKeys
<1>1. Nat \in SUBSET Nat /\ node.children \in Seq(Nat) /\ node.parent \in PageId BY PageIs
<1> QED BY <1>1, ChildAdded

\* insert_into_parent when there is room.
LEMMA ParentWrites ==
    ASSUME BInv, InsertIntoParent
    PROVE  LET p == pages[op.left].parent
           IN  /\ p \in DOMAIN pages /\ pages[p].kind = "internal"
               /\ \E n : /\ Adopts(n, pages[p], op.sep, op.right)
                         /\ \/ Writes(p, n) /\ Ends
                            \/ Failed /\ pages' = pages
<1>0. op.at = "parent" /\ ParentOf(op.left) # None /\ IsInternal(Read(ParentOf(op.left)))
  BY DEF InsertIntoParent
<1>1. PICK p : p = ParentOf(op.left) OBVIOUS
<1>2. /\ Filed /\ p \in DOMAIN pages /\ Read(p) = pages[p] /\ p = pages[op.left].parent
      /\ pages[p] \in PageSet /\ pages[p].kind = "internal"
      /\ op.sep \in Int /\ op.right \in Nat
  BY <1>0, <1>1, AtParent
<1>3. PICK n : n = WithChild(pages[p], op.sep, op.right) OBVIOUS
<1>4. Len(n.keys) =< MaxKeys /\ WriteAll(<<Stored(pages, p, n)>>, NoOp)
  BY <1>1, <1>2, <1>3 DEF InsertIntoParent
<1>5. Adopts(n, pages[p], op.sep, op.right) BY <1>2, <1>3, ChildPlaces
<1>6. n \in PageSet /\ n.kind = "internal"
  <2>1. /\ n = Internal(pages[p].parent, n.keys, n.children)
        /\ n.kind = "internal" /\ n.parent = pages[p].parent /\ n.parent \in PageId
        /\ n.keys \in Seq(Int) /\ n.children \in Seq(Nat)
        /\ Len(n.keys) = Len(pages[p].keys) + 1 /\ Len(n.children) = Len(n.keys) + 1
        /\ Len(pages[p].keys) \in 1..MaxKeys
    <3>1. PICK old : old = pages[p] OBVIOUS
    <3>2. old \in PageSet /\ old.kind = "internal" /\ n = WithChild(old, op.sep, op.right)
      BY <1>2, <1>3, <3>1
    <3>3. /\ n = Internal(old.parent, n.keys, n.children)
          /\ n.kind = "internal" /\ n.parent = old.parent /\ n.parent \in PageId
          /\ n.keys \in Seq(Int) /\ n.children \in Seq(Nat)
          /\ Len(n.keys) = Len(old.keys) + 1 /\ Len(n.children) = Len(n.keys) + 1
          /\ Len(old.keys) \in 1..MaxKeys
      BY <1>2, <3>2, WithChildIs
    <3> QED BY <3>1, <3>3
  <2>2. Len(n.keys) \in 1..MaxKeys BY <1>4, <2>1, BTreeAssumption
  <2>3. PICK par \in PageId, ks \in Seq(Int), cs \in Seq(Nat) :
           par = pages[p].parent /\ ks = n.keys /\ cs = n.children
    BY <2>1
  <2>4. n = Internal(par, ks, cs) /\ Len(cs) = Len(ks) + 1 /\ Len(ks) \in 1..MaxKeys
    BY <2>1, <2>2, <2>3
  <2>5. n \in PageSet BY <2>4, InternalMade
  <2> QED BY <2>1, <2>5
<1>7. CASE pages' = Stored(pages, p, n) /\ Ends
  <2>1. /\ Len(pages') = Len(pages) /\ pages'[p] = n /\ DOMAIN pages' = DOMAIN pages
        /\ \A q \in DOMAIN pages : q # p => pages'[q] = pages[q]
    BY <1>2, <1>6, <1>7, OneKept
  <2>2. Writes(p, n) BY <2>1 DEF Writes
  <2> QED BY <1>2, <1>5, <1>7, <2>2
<1>8. CASE Failed /\ pages' = pages BY <1>2, <1>5, <1>8
<1> QED BY <1>4, <1>7, <1>8, WriteOne DEF Ends, Failed

\* left has the first separators and children of a node, right the last children.
Parts(n, left, right) ==
    /\ left.kind = "internal" /\ right.kind = "internal"
    /\ left.parent = n.parent /\ right.parent = n.parent
    /\ \E m, len \in Nat \ {0} :
          /\ m + 1 < len /\ DOMAIN n.keys = 1..len /\ DOMAIN n.children = 1..(len + 1)
          /\ IsPart(left.keys, n.keys, 1, m) /\ Len(left.keys) = m
          /\ IsPart(left.children, n.children, 1, m + 1)
          /\ IsPart(right.children, n.children, m + 2, len + 1)

\* split_internal.
LEMMA SplitInternalWrites ==
    ASSUME BInv, SplitInternal
    PROVE  LET p == pages[op.left].parent
           IN  /\ p \in DOMAIN pages /\ pages[p].kind = "internal"
               /\ \E n, left, right, sep :
                     /\ Adopts(n, pages[p], op.sep, op.right)
                     /\ Parts(n, left, right)
                     /\ \/ /\ Splits(p, left, right) /\ faults' = faults
                           /\ op' = [at |-> "parent", key |-> op.key, value |-> op.value,
                                     left |-> p, sep |-> sep, right |-> NewPage]
                        \/ Failed /\ pages' = pages
                        \/ Failed /\ Writes(p, left)
                        \/ Failed /\ Splits(p, left, right)
<1>0. op.at = "parent" /\ ParentOf(op.left) # None /\ IsInternal(Read(ParentOf(op.left)))
  BY DEF SplitInternal
<1>1. PICK p : p = ParentOf(op.left) OBVIOUS
<1>2. /\ Filed /\ p \in DOMAIN pages /\ Read(p) = pages[p] /\ p = pages[op.left].parent
      /\ pages[p] \in PageSet /\ pages[p].kind = "internal"
      /\ op.sep \in Int /\ op.right \in Nat
  BY <1>0, <1>1, AtParent
<1>3. PICK n : n = WithChild(pages[p], op.sep, op.right) OBVIOUS
<1>4. /\ n = Internal(pages[p].parent, n.keys, n.children)
      /\ n.kind = "internal" /\ n.parent = pages[p].parent /\ n.parent \in PageId
      /\ n.keys \in Seq(Int) /\ n.children \in Seq(Nat)
      /\ Len(n.keys) = Len(pages[p].keys) + 1 /\ Len(n.children) = Len(n.keys) + 1
      /\ Len(pages[p].keys) \in 1..MaxKeys
  <2>1. PICK old : old = pages[p] OBVIOUS
  <2>2. old \in PageSet /\ old.kind = "internal" /\ n = WithChild(old, op.sep, op.right)
    BY <1>2, <1>3, <2>1
  <2>3. /\ n = Internal(old.parent, n.keys, n.children)
        /\ n.kind = "internal" /\ n.parent = old.parent /\ n.parent \in PageId
        /\ n.keys \in Seq(Int) /\ n.children \in Seq(Nat)
        /\ Len(n.keys) = Len(old.keys) + 1 /\ Len(n.children) = Len(n.keys) + 1
        /\ Len(old.keys) \in 1..MaxKeys
    BY <1>2, <2>2, WithChildIs
  <2> QED BY <2>1, <2>3
<1>5. Adopts(n, pages[p], op.sep, op.right) BY <1>2, <1>3, ChildPlaces
<1>6. PICK len : len = Len(n.keys) OBVIOUS
<1>7. PICK mid : mid = len \div 2 OBVIOUS
<1>8. Len(n.children) = len + 1 BY <1>4, <1>6
<1> DEFINE lk == SubSeq(n.keys, 1, mid)
           lc == SubSeq(n.children, 1, mid + 1)
           rk == SubSeq(n.keys, mid + 2, len)
           rc == SubSeq(n.children, mid + 2, len + 1)
<1>9. PICK left : left = Internal(n.parent, lk, lc) OBVIOUS
<1>10. PICK right : right = Internal(n.parent, rk, rc) OBVIOUS
<1>11. PICK sep, x : /\ sep = n.keys[mid + 1]
                     /\ x = [op EXCEPT !.left = p, !.sep = sep, !.right = NewPage]
  OBVIOUS
<1>12. /\ len > MaxKeys
       /\ WriteAll(<<Stored(pages, p, left), Stored(Stored(pages, p, left), NewPage, right)>>, x)
  BY <1>1, <1>2, <1>3, <1>6, <1>7, <1>8, <1>9, <1>10, <1>11 DEF SplitInternal
<1>13. /\ MaxKeys \in Nat /\ MaxKeys >= 2 /\ len \in Nat \ {0} /\ mid \in Nat \ {0}
       /\ len = MaxKeys + 1 /\ mid + 1 < len /\ mid \in 1..MaxKeys
       /\ len - mid - 1 \in 1..MaxKeys
  <2>1. MaxKeys \in Nat /\ MaxKeys >= 2 BY BTreeAssumption
  <2>2. PICK k \in 1..MaxKeys : len = k + 1 BY <1>4, <1>6
  <2>3. len = MaxKeys + 1 BY <1>12, <2>1, <2>2
  <2> QED BY <1>7, <2>1, <2>3
<1>14. lk \in Seq(Int) /\ Len(lk) = mid /\ IsPart(lk, n.keys, 1, mid)
  <2>1. 1 \in Nat \ {0} /\ mid \in Nat /\ mid =< len /\ 1 =< mid + 1 /\ mid - 1 + 1 = mid
    BY <1>13
  <2> QED BY <1>4, <1>6, <2>1, Cut, CutPlaces
<1>15. rk \in Seq(Int) /\ Len(rk) = len - mid - 1
  <2>1. /\ mid + 2 \in Nat \ {0} /\ len \in Nat /\ len =< len /\ mid + 2 =< len + 1
    BY <1>13
  <2>2. rk \in Seq(Int) /\ Len(rk) = len - (mid + 2) + 1 BY <1>4, <1>6, <2>1, Cut
  <2> HIDE DEF rk
  <2> QED BY <1>13, <2>2
<1>16. lc \in Seq(Nat) /\ Len(lc) = mid + 1 /\ IsPart(lc, n.children, 1, mid + 1)
  <2>1. /\ 1 \in Nat \ {0} /\ mid + 1 \in Nat /\ mid + 1 =< len + 1 /\ 1 =< (mid + 1) + 1
        /\ (mid + 1) - 1 + 1 = mid + 1
    BY <1>13
  <2> QED BY <1>4, <1>8, <2>1, Cut, CutPlaces
<1>17. rc \in Seq(Nat) /\ Len(rc) = len - mid /\ IsPart(rc, n.children, mid + 2, len + 1)
  <2>1. /\ mid + 2 \in Nat \ {0} /\ len + 1 \in Nat /\ len + 1 =< len + 1
        /\ mid + 2 =< (len + 1) + 1
    BY <1>13
  <2>2. /\ rc \in Seq(Nat) /\ Len(rc) = (len + 1) - (mid + 2) + 1
        /\ IsPart(rc, n.children, mid + 2, len + 1)
    BY <1>4, <1>8, <2>1, Cut, CutPlaces
  <2> HIDE DEF rc
  <2> QED BY <1>13, <2>2
<1> HIDE DEF lk, lc, rk, rc
<1>18. /\ left \in PageSet /\ left.kind = "internal" /\ left.parent = n.parent
       /\ left.keys = lk /\ left.children = lc
  <2>1. Len(lc) = Len(lk) + 1 /\ Len(lk) \in 1..MaxKeys BY <1>13, <1>14, <1>16
  <2>2. PICK par \in PageId : par = n.parent BY <1>4
  <2>3. left = Internal(par, lk, lc) BY <1>9, <2>2
  <2> QED BY <1>14, <1>16, <2>1, <2>2, <2>3, InternalMade
<1>19. /\ right \in PageSet /\ right.kind = "internal" /\ right.parent = n.parent
       /\ right.keys = rk /\ right.children = rc
  <2>1. Len(rc) = Len(rk) + 1 /\ Len(rk) \in 1..MaxKeys BY <1>13, <1>15, <1>17
  <2>2. PICK par \in PageId : par = n.parent BY <1>4
  <2>3. right = Internal(par, rk, rc) BY <1>10, <2>2
  <2> QED BY <1>15, <1>17, <2>1, <2>2, <2>3, InternalMade
<1>20. DOMAIN n.keys = 1..len /\ DOMAIN n.children = 1..(len + 1)
  BY <1>4, <1>6, <1>8, LenProperties
<1>21. Parts(n, left, right)
  BY <1>13, <1>14, <1>16, <1>17, <1>18, <1>19, <1>20 DEF Parts
<1>22. pages[p].kind # "data" /\ left.kind = pages[p].kind BY <1>2, <1>18
<1>23. x = [at |-> "parent", key |-> op.key, value |-> op.value,
           left |-> p, sep |-> sep, right |-> NewPage]
  <2>1. op = [at |-> op.at, key |-> op.key, value |-> op.value,
              left |-> op.left, sep |-> op.sep, right |-> op.right]
    BY <1>0, UpIs
  <2> QED BY <1>0, <1>11, <2>1
<1> DEFINE up == [at |-> "parent", key |-> op.key, value |-> op.value,
                  left |-> p, sep |-> sep, right |-> NewPage]
<1>24. WriteAll(<<Stored(pages, p, left), Stored(Stored(pages, p, left), NewPage, right)>>, up)
  BY <1>12, <1>23
<1>25. CASE /\ pages' = Stored(Stored(pages, p, left), NewPage, right)
            /\ (op' = up /\ faults' = faults) \/ Failed
  <2>1. /\ pages'[p] = left /\ pages'[NewPage] = right
        /\ DOMAIN pages' = DOMAIN pages \cup {NewPage}
        /\ \A q \in DOMAIN pages : q # p => pages'[q] = pages[q]
    <3>1. pages' = Stored(Stored(pages, p, left), NewPage, right) BY <1>25
    <3>2. Filed /\ p \in DOMAIN pages /\ left \in PageSet /\ right \in PageSet
      BY <1>2, <1>18, <1>19
    <3> HIDE DEF up
    <3> QED BY <1>22, <3>1, <3>2, SplitKept
  <2>2. NewPage \notin DOMAIN pages /\ NewPage \in Nat BY <1>2, FiledIs
  <2>3. Splits(p, left, right) BY <2>1, <2>2 DEF Splits
  <2> QED BY <1>2, <1>5, <1>21, <1>25, <2>3
<1>26. CASE Failed /\ pages' = pages BY <1>2, <1>5, <1>21, <1>26
<1>27. CASE Failed /\ pages' = Stored(pages, p, left)
  <2>1. /\ pages'[p] = left /\ DOMAIN pages' = DOMAIN pages /\ Len(pages') = Len(pages)
        /\ \A q \in DOMAIN pages : q # p => pages'[q] = pages[q]
    BY <1>2, <1>18, <1>22, <1>27, OneKept
  <2>2. Writes(p, left) BY <2>1 DEF Writes
  <2> QED BY <1>2, <1>5, <1>21, <1>27, <2>2
<1> HIDE DEF up
<1> QED BY <1>24, <1>25, <1>26, <1>27, WriteTwo

\* Both halves of the old root are written.
WritesBoth(a, l, b, r) ==
    /\ pages'[a] = l /\ pages'[b] = r
    /\ \A q \in DOMAIN pages : q # a /\ q # b => pages'[q] = pages[q]

\* So is the node above them.
WritesRoot(l, r) ==
    /\ WritesBoth(op.left, l, op.right, r)
    /\ NewPage \notin DOMAIN pages /\ NewPage \in Nat
    /\ DOMAIN pages' = DOMAIN pages \cup {NewPage}
    /\ pages'[NewPage] = Internal(None, <<op.sep>>, <<op.left, op.right>>)

\* new_root.
LEMMA NewRootWrites ==
    ASSUME BInv, NewRoot
    PROVE  /\ op.left \in DOMAIN pages /\ op.right \in DOMAIN pages /\ op.left # op.right
           /\ \E l \in WriteParent(pages[op.left], NewPage),
                 r \in WriteParent(pages[op.right], NewPage) :
                 \/ WritesRoot(l, r) /\ op' = NoOp /\ faults' = faults /\ root' = NewPage
                 \/ Failed /\ root' = root /\ pages' = pages
                 \/ Failed /\ root' = root /\ Writes(op.left, l)
                 \/ /\ Failed /\ root' = root /\ WritesBoth(op.left, l, op.right, r)
                    /\ DOMAIN pages' = DOMAIN pages /\ Len(pages') = Len(pages)
                 \/ Failed /\ root' = root /\ WritesRoot(l, r)
<1> DEFINE a == op.left
           b == op.right
           top == Internal(None, <<op.sep>>, <<a, b>>)
<1>1. /\ op.at = "new_root" /\ root' = IF faults' = faults THEN NewPage ELSE root
  BY DEF NewRoot
<1>2. /\ Ascending /\ op.sep \in Int /\ a \in Nat /\ b \in Nat
  BY <1>1, UpIs
<1>3. /\ a \in DOMAIN pages /\ b \in DOMAIN pages /\ a # b
      /\ pages[a].kind \in {"leaf", "internal"} /\ pages[b].kind \in {"leaf", "internal"}
      /\ pages[a].parent = None /\ pages[b].parent = None
      /\ Read(a) = pages[a] /\ Read(b) = pages[b]
  BY <1>1, <1>2 DEF Ascending, Read
<1>4. /\ Filed /\ pages[a] \in PageSet /\ pages[b] \in PageSet
      /\ NewPage = Len(pages) + 1 /\ Len(pages) \in Nat /\ DOMAIN pages = 1..Len(pages)
  BY <1>3, FiledIs DEF BInv
<1>5. NewPage \in Nat /\ NewPage \notin DOMAIN pages BY <1>4
<1>6. PICK l \in WriteParent(pages[a], NewPage), r \in WriteParent(pages[b], NewPage) :
         WriteAll(<<Stored(pages, a, l), Stored(Stored(pages, a, l), b, r),
                    Stored(Stored(Stored(pages, a, l), b, r), NewPage, top)>>, NoOp)
  BY <1>3 DEF NewRoot
<1> HIDE DEF a, b
<1>7. Adopted(pages[a], NewPage, l) /\ Adopted(pages[b], NewPage, r)
  BY <1>3, <1>4, <1>5, <1>6, ParentWritten
<1>8. /\ l \in PageSet /\ l.kind \in {pages[a].kind, "unreadable"} /\ r \in PageSet
  BY <1>7 DEF Adopted
<1>9. top \in PageSet
  <2>1. /\ <<op.sep>> \in Seq(Int) /\ <<a, b>> \in Seq(Nat)
        /\ Len(<<op.sep>>) = 1 /\ Len(<<a, b>>) = 2
    BY <1>2
  <2>2. None \in PageId /\ 1 \in 1..MaxKeys BY BTreeAssumption DEF PageId
  <2> DEFINE ks == <<op.sep>>
             cs == <<a, b>>
  <2>3. /\ ks \in Seq(Int) /\ cs \in Seq(Nat)
        /\ Len(cs) = Len(ks) + 1 /\ Len(ks) \in 1..MaxKeys
    BY <2>1, <2>2
  <2>4. top = Internal(None, ks, cs) OBVIOUS
  <2> HIDE DEF ks, cs, top
  <2> QED BY <2>2, <2>3, <2>4, InternalMade
<1> HIDE DEF top
<1> DEFINE both == Stored(Stored(pages, a, l), b, r)
<1>10. /\ both \in Seq(PageSet) /\ Len(both) = Len(pages) /\ both[a] = l /\ both[b] = r
       /\ \A q \in DOMAIN pages : q # a /\ q # b => both[q] = pages[q]
  <2>1. Filed /\ a \in DOMAIN pages /\ b \in DOMAIN pages /\ a # b BY <1>3, <1>4
  <2>2. l \in PageSet /\ r \in PageSet BY <1>8
  <2>3. both = Stored(Stored(pages, a, l), b, r) OBVIOUS
  <2> HIDE DEF both
  <2> QED BY <2>1, <2>2, <2>3, BothKept
<1> HIDE DEF both
<1>11. ASSUME Failed PROVE root' = root
  <2>1. faults \in Nat /\ faults' = faults + 1
    BY <1>11, BTreeAssumption DEF BInv, Counted, Failed
  <2>2. faults' # faults BY <2>1
  <2> QED BY <1>1, <2>2
<1>12. CASE Failed /\ pages' = pages
  BY <1>3, <1>6, <1>11, <1>12 DEF a, b
<1>13. CASE Failed /\ pages' = Stored(pages, a, l)
  <2>1. /\ Len(pages') = Len(pages) /\ pages'[a] = l /\ DOMAIN pages' = DOMAIN pages
        /\ \A q \in DOMAIN pages : q # a => pages'[q] = pages[q]
    <3>1. pages[a].kind # "data" BY <1>3
    <3> QED BY <1>3, <1>4, <1>8, <1>13, <3>1, OneKept
  <2>2. Writes(a, l) BY <2>1 DEF Writes
  <2> QED BY <1>3, <1>6, <1>11, <1>13, <2>2 DEF a, b
<1>14. CASE Failed /\ pages' = both
  <2>1. DOMAIN pages' = DOMAIN pages BY <1>4, <1>10, <1>14, LenProperties
  <2>2. WritesBoth(a, l, b, r) /\ Len(pages') = Len(pages) BY <1>10, <1>14 DEF WritesBoth
  <2> QED BY <1>3, <1>6, <1>11, <1>14, <2>1, <2>2 DEF a, b
<1>15. CASE /\ pages' = Stored(both, NewPage, top)
            /\ (op' = NoOp /\ faults' = faults) \/ Failed
  <2>1. /\ pages' \in Seq(PageSet) /\ pages'[NewPage] = top /\ Len(pages') = Len(pages) + 1
        /\ \A q \in DOMAIN pages : pages'[q] = both[q]
    <3> DEFINE g == Stored(both, NewPage, top)
    <3>1. NewPage \in 1..(Len(both) + 1) /\ NewPage = Len(both) + 1 BY <1>4, <1>10
    <3>2. /\ g \in Seq(PageSet) /\ g[NewPage] = top
          /\ Len(g) = IF NewPage = Len(both) + 1 THEN Len(both) + 1 ELSE Len(both)
          /\ \A q \in 1..Len(both) : q # NewPage => g[q] = both[q]
      BY <1>9, <1>10, <3>1, StoredIs
    <3>3. \A q \in DOMAIN pages : q \in 1..Len(both) /\ q # NewPage BY <1>4, <1>10
    <3>4. pages' = g BY <1>15
    <3> HIDE DEF g
    <3> QED BY <1>10, <3>1, <3>2, <3>3, <3>4
  <2>2. DOMAIN pages' = 1..(Len(pages) + 1) BY <2>1, LenProperties
  <2>3. DOMAIN pages' = DOMAIN pages \cup {NewPage} BY <1>4, <2>2
  <2>4. WritesBoth(a, l, b, r) BY <1>3, <1>10, <2>1 DEF WritesBoth
  <2>5. faults' = faults => root' = NewPage BY <1>1
  <2>6. WritesRoot(l, r) BY <1>5, <2>1, <2>3, <2>4 DEF WritesRoot, a, b, top
  <2> QED BY <1>3, <1>6, <1>11, <1>15, <2>5, <2>6 DEF a, b
<1>16. WriteAll(<<Stored(pages, a, l), both, Stored(both, NewPage, top)>>, NoOp)
  BY <1>6 DEF both, top, a, b
<1> QED BY <1>12, <1>13, <1>14, <1>15, <1>16, WriteThree

------------------------------------------------------------------------------
(* What is misread stays so.                                               *)

\* No step takes the parent from an internal node that has one.
LEMMA MisreadStays ==
    ASSUME BInv, [Next]_vars, Misread
    PROVE  Misread'
<1>1. PICK q \in DOMAIN pages : pages[q].kind = "internal" /\ pages[q].parent # None
  BY DEF Misread, IsInternal
<1>2. SUFFICES q \in DOMAIN pages' /\ pages'[q].kind = "internal" /\ pages'[q].parent # None
  BY DEF Misread, IsInternal
<1>3. ASSUME NEW k \in Key, Insert(k)
      PROVE  q \in DOMAIN pages' /\ pages'[q] = pages[q]
  <2>1. pages' = Append(pages, Data) BY <1>3 DEF Insert
  <2>2. pages \in Seq(PageSet) /\ DOMAIN pages = 1..Len(pages) /\ Len(pages) \in Nat
    BY FiledIs DEF BInv
  <2> QED BY <2>1, <2>2, DataMade, AppendProperties, LenProperties
<1>4. CASE UNCHANGED pages BY <1>1, <1>4
<1>5. CASE InsertIntoLeaf
  <2>1. pages[op.page].kind = "leaf" BY <1>5, AtLeaf DEF InsertIntoLeaf
  <2> QED BY <1>1, <1>4, <1>5, <2>1, LeafWrites DEF Writes
<1>6. CASE SplitLeaf
  <2>1. pages[op.page].kind = "leaf" BY <1>6, AtLeaf DEF SplitLeaf
  <2>2. PICK left, right : \/ Splits(op.page, left, right)
                           \/ pages' = pages
                           \/ Writes(op.page, left)
    BY <1>6, SplitLeafWrites
  <2> QED BY <1>1, <1>4, <2>1, <2>2 DEF Writes, Splits
<1>7. CASE InsertIntoParent
  <2>1. PICK p, n : /\ n.kind = "internal" /\ n.parent = pages[p].parent
                    /\ Writes(p, n) \/ pages' = pages
    BY <1>7, ParentWrites DEF Adopts
  <2> QED BY <1>1, <1>4, <2>1 DEF Writes
<1>8. CASE SplitInternal
  <2>1. PICK p, left, right : /\ left.kind = "internal" /\ left.parent = pages[p].parent
                              /\ \/ Splits(p, left, right)
                                 \/ pages' = pages
                                 \/ Writes(p, left)
    BY <1>8, SplitInternalWrites DEF Adopts, Parts
  <2> QED BY <1>1, <1>4, <2>1 DEF Writes, Splits
<1>9. CASE NewRoot
  <2>1. Ascending BY <1>9, UpIs DEF NewRoot
  <2>2. q # op.left /\ q # op.right BY <1>1, <1>9, <2>1 DEF NewRoot, Ascending
  <2> QED BY <1>1, <1>4, <1>9, <2>2, NewRootWrites DEF Writes, WritesBoth, WritesRoot
<1>10. CASE Descend \/ NoParent \/ BadParent \/ UNCHANGED vars
  BY <1>4, <1>10 DEF Descend, NoParent, BadParent, vars
<1> QED BY <1>1, <1>3, <1>5, <1>6, <1>7, <1>8, <1>9, <1>10 DEF Next

------------------------------------------------------------------------------
(* The shape of the tree, until an internal node is misread: an internal   *)
(* root is over leaves, and over nodes that cannot be read.                *)

\* A child of the root.
ChildOfRoot(c) ==
    /\ c \in DOMAIN pages /\ c # root /\ ~IsInternal(pages[c])
    /\ pages[c].kind = "leaf" => pages[c].parent = root

\* No page is in two places of a node.
PlacedOnce(s) == \A i, j \in DOMAIN s : s[i] = s[j] => i = j

\* The root is a leaf.  Only after a failed new_root it has a parent: a node that
\* was not written, or was and did not become the root.
RootLeaf == pages[root].kind = "leaf" /\ (pages[root].parent # None => faults # 0)

\* The root is an internal node over leaves.
RootTree ==
    /\ pages[root].kind = "internal" /\ pages[root].parent = None
    /\ \A i \in DOMAIN pages[root].children : ChildOfRoot(pages[root].children[i])
    /\ PlacedOnce(pages[root].children)

\* The root cannot be read.
RootDead == pages[root].kind = "unreadable"

Shape == RootLeaf \/ RootTree \/ RootDead

\* The child of the root that find_leaf follows for the key of the insert.
Taken(p) ==
    /\ pages[root].kind = "internal"
    /\ p = pages[root].children[FindChild(pages[root].keys, op.key)]

\* On its way down an insert is at the root, or at the child it takes.
WayDown == op.at \in {"descend", "leaf"} => op.page = root \/ Taken(op.page)

\* The root itself was split.
AtRoot ==
    /\ op.left = root /\ pages[op.right].kind = pages[root].kind
    /\ RootLeaf \/ RootTree
    /\ pages[root].kind = "leaf" => pages[root].next # None

\* A leaf behind the root was split.
BelowRoot ==
    /\ op.at = "parent" /\ RootTree /\ Taken(op.left)
    /\ pages[op.left].kind = "leaf" /\ pages[op.right].kind = "leaf"
    /\ \A i \in DOMAIN pages[root].children : pages[root].children[i] # op.right

\* A root leaf has as parent a node that did not become the root, and that node was
\* split.
BesideRoot ==
    /\ faults # 0 /\ RootLeaf
    /\ pages[op.left].kind = "internal" /\ pages[op.right].kind = "internal"

WayUp == op.at \in {"parent", "new_root"} => AtRoot \/ BelowRoot \/ BesideRoot

TInv == Shape /\ WayDown /\ WayUp

\* An operation that is over, or gone wrong.
LEMMA OverIs == NoOp.at \notin {"descend", "leaf", "parent", "new_root"}
BY DEF NoOp

\* A child of the root stays one when its page is left alone or a leaf with the
\* same parent is written over a leaf.
LEMMA ChildStays ==
    ASSUME NEW c, ChildOfRoot(c), root' = root,
           c \in DOMAIN pages => /\ c \in DOMAIN pages'
                                 /\ \/ pages'[c] = pages[c]
                                    \/ /\ pages[c].kind = "leaf" /\ pages'[c].kind = "leaf"
                                       /\ pages'[c].parent = pages[c].parent
    PROVE  ChildOfRoot(c)'
BY DEF ChildOfRoot, IsInternal

\* The root stays what it is when its page does, and its children do.
LEMMA TreeStays ==
    ASSUME RootTree, root' = root, pages'[root] = pages[root],
           \A i \in DOMAIN pages[root].children : ChildOfRoot(pages[root].children[i])'
    PROVE  RootTree'
BY DEF RootTree, PlacedOnce

\* A root leaf over which a leaf with the same parent is written.
LEMMA LeafStays ==
    ASSUME RootLeaf, root' = root, pages'[root].kind = "leaf",
           pages'[root].parent = pages[root].parent, faults # 0 => faults' # 0
    PROVE  RootLeaf'
BY DEF RootLeaf

\* The tree keeps its shape when no page changes.
LEMMA ShapeStays ==
    ASSUME Shape, root' = root, pages' = pages, faults # 0 => faults' # 0
    PROVE  /\ Shape' /\ (RootLeaf => RootLeaf') /\ (RootTree => RootTree')
<1>1. RootLeaf => RootLeaf' BY LeafStays DEF RootLeaf
<1>2. RootTree => RootTree'
  <2>1. ASSUME NEW c, ChildOfRoot(c) PROVE ChildOfRoot(c)' BY <2>1, ChildStays
  <2>2. RootTree => \A i \in DOMAIN pages[root].children : ChildOfRoot(pages[root].children[i])'
    BY <2>1 DEF RootTree
  <2> QED BY <2>2, TreeStays
<1>3. RootDead => RootDead' BY DEF RootDead
<1> QED BY <1>1, <1>2, <1>3 DEF Shape

\* A failed write counts.
LEMMA FaultsStay ==
    ASSUME BInv, faults' = faults \/ Failed
    PROVE  faults # 0 => faults' # 0
<1>1. faults \in Nat BY BTreeAssumption DEF BInv, Counted
<1> QED BY <1>1 DEF Failed

\* An insert that ends with the tree in shape.
LEMMA TOver ==
    ASSUME Shape', op' = NoOp
    PROVE  TInv'
BY OverIs DEF TInv, WayDown, WayUp

\* BTree::new.
LEMMA TInit == ASSUME Init PROVE TInv
<1>1. pages = <<Leaf(None, None, <<>>, <<>>)>> /\ root = 1 /\ op = NoOp BY DEF Init
<1>2. pages[1] = Leaf(None, None, <<>>, <<>>) BY <1>1
<1>3. pages[root].kind = "leaf" /\ pages[root].parent = None BY <1>1, <1>2 DEF Leaf
<1>4. RootLeaf BY <1>3 DEF RootLeaf
<1> QED BY <1>1, <1>4, OverIs DEF TInv, Shape, WayDown, WayUp

\* The engine's data page is added.
LEMMA TInsert ==
    ASSUME BInv, TInv, NEW k \in Key, Insert(k)
    PROVE  TInv'
<1>1. /\ op = NoOp /\ pages' = Append(pages, Data) /\ root' = root /\ faults' = faults
      /\ op' = [at |-> "descend", key |-> k, value |-> NewPage, page |-> root]
  BY DEF Insert
<1>2. /\ Filed /\ pages \in Seq(PageSet) /\ Len(pages) \in Nat
      /\ DOMAIN pages = 1..Len(pages) /\ root \in DOMAIN pages
  BY FiledIs DEF BInv, Filed
<1>3. /\ pages' \in Seq(PageSet) /\ Len(pages') = Len(pages) + 1
      /\ \A q \in 1..Len(pages) : pages'[q] = pages[q]
      /\ pages'[Len(pages) + 1] = Data
  BY <1>1, <1>2, DataMade, AppendProperties
<1>4. DOMAIN pages' = 1..(Len(pages) + 1) BY <1>3, LenProperties
<1>5. /\ \A q \in DOMAIN pages : q \in DOMAIN pages' /\ pages'[q] = pages[q]
      /\ Len(pages) + 1 \in DOMAIN pages' /\ pages'[Len(pages) + 1] = Data
  BY <1>2, <1>3, <1>4
<1>6. pages'[root] = pages[root] /\ pages'[root'] = pages[root] BY <1>1, <1>2, <1>5
<1>7. RootLeaf => RootLeaf' BY <1>1, <1>6 DEF RootLeaf
<1>8. RootTree => RootTree'
  <2>1. ASSUME NEW c, ChildOfRoot(c) PROVE ChildOfRoot(c)' BY <1>1, <1>5, <2>1, ChildStays
  <2>2. RootTree => \A i \in DOMAIN pages[root].children : ChildOfRoot(pages[root].children[i])'
    <3>1. ASSUME RootTree, NEW i \in DOMAIN pages[root].children
          PROVE  \E c : c = pages[root].children[i] /\ ChildOfRoot(c)'
      <4>1. PICK c : c = pages[root].children[i] OBVIOUS
      <4> QED BY <2>1, <3>1, <4>1 DEF RootTree
    <3> QED BY <1>6, <3>1 DEF ChildOfRoot
  <2> QED BY <1>1, <1>6, <2>2, TreeStays
<1>9. RootDead => RootDead' BY <1>6 DEF RootDead
<1>10. Shape' BY <1>7, <1>8, <1>9 DEF TInv, Shape
<1>11. op'.at = "descend" /\ op'.page = root' BY <1>1
<1>12. WayDown' /\ WayUp' BY <1>11 DEF WayDown, WayUp
<1> QED BY <1>10, <1>12 DEF TInv

\* One node further down.
LEMMA TDescend ==
    ASSUME BInv, TInv, Descend
    PROVE  TInv'
<1> DEFINE node == Read(op.page)
<1>1. /\ op.at = "descend" /\ UNCHANGED <<pages, root, faults>>
      /\ op' = IF IsInternal(node)
               THEN [op EXCEPT !.page = node.children[FindChild(node.keys, op.key)]]
               ELSE IF IsLeaf(node) THEN [op EXCEPT !.at = "leaf"] ELSE NoOp
  BY DEF Descend
<1>2. /\ Descending /\ op # NoOp /\ op.key \in Int /\ op.page \in Nat
      /\ op = [at |-> op.at, key |-> op.key, value |-> op.value, page |-> op.page]
  BY <1>1, DownIs
<1>3. Filed /\ root \in DOMAIN pages BY FiledIs DEF BInv, Filed
<1>4. Shape' BY <1>1, ShapeStays DEF TInv
<1>5. op.page = root \/ Taken(op.page) BY <1>1 DEF TInv, WayDown
<1>6. CASE IsInternal(node)
  <2>0. PICK i, c : i = FindChild(node.keys, op.key) /\ c = node.children[i] OBVIOUS
  <2>1. op.page \in DOMAIN pages /\ node = pages[op.page] /\ node.kind = "internal"
    BY <1>6 DEF Read, IsInternal, Unreadable
  <2>2. i \in DOMAIN node.children
    <3>1. FindChild(Read(op.page).keys, op.key) \in DOMAIN Read(op.page).children
      BY <1>2, <1>3, <1>6, FollowIs
    <3> QED BY <2>0, <3>1
  <2>3. op' = [op EXCEPT !.page = c] BY <1>1, <1>6, <2>0
  <2> HIDE DEF node
  <2>4. op' = [at |-> "descend", key |-> op.key, value |-> op.value, page |-> c]
    BY <1>1, <1>2, <2>3
  <2>5. op'.at = "descend" /\ op'.page = c /\ op'.key = op.key BY <2>4
  <2>6. Taken(c)'
    <3>1. CASE op.page = root
      <4>1. Taken(c) BY <2>0, <2>1, <3>1 DEF Taken
      <4> QED BY <1>1, <2>5, <4>1 DEF Taken
    <3>2. CASE op.page # root
      <4>1. Taken(op.page) BY <1>5, <3>2
      <4>2. FindChild(pages[root].keys, op.key) \in DOMAIN pages[root].children
        <5>1. Read(root) = pages[root] /\ IsInternal(Read(root)) /\ root \in Nat
          BY <1>3, <4>1, FiledIs DEF Taken, Read, IsInternal
        <5> QED BY <1>2, <1>3, <5>1, FollowIs
      <4>3. RootTree BY <4>1 DEF Taken, RootLeaf, RootDead, TInv, Shape
      <4>4. ChildOfRoot(op.page) BY <4>1, <4>2, <4>3 DEF Taken, RootTree
      <4> QED BY <2>1, <4>4 DEF ChildOfRoot, IsInternal
    <3> QED BY <3>1, <3>2
  <2>7. WayDown' BY <2>5, <2>6 DEF WayDown, Taken
  <2>8. WayUp' BY <2>5 DEF WayUp
  <2> QED BY <1>4, <2>7, <2>8 DEF TInv
<1>7. CASE IsLeaf(node) /\ ~IsInternal(node)
  <2>1. op' = [op EXCEPT !.at = "leaf"] BY <1>1, <1>7
  <2> HIDE DEF node
  <2>2. op' = [at |-> "leaf", key |-> op.key, value |-> op.value, page |-> op.page]
    BY <1>2, <2>1
  <2>3. op'.at = "leaf" /\ op'.page = op.page /\ op'.key = op.key BY <2>2
  <2>4. WayDown' BY <1>1, <1>5, <2>3 DEF WayDown, Taken
  <2>5. WayUp' BY <2>3 DEF WayUp
  <2> QED BY <1>4, <2>4, <2>5 DEF TInv
<1>8. CASE ~IsLeaf(node) /\ ~IsInternal(node)
  BY <1>1, <1>4, <1>8, TOver
<1> QED BY <1>6, <1>7, <1>8

\* The child that an insert has taken.
LEMMA TakenIs ==
    ASSUME BInv, TInv, op.key \in Int, NEW p, Taken(p), p \in DOMAIN pages
    PROVE  /\ RootTree /\ ChildOfRoot(p) /\ p # root
           /\ FindChild(pages[root].keys, op.key) \in DOMAIN pages[root].children
           /\ p = pages[root].children[FindChild(pages[root].keys, op.key)]
<1>1. Filed /\ root \in DOMAIN pages /\ root \in Nat
  BY FiledIs DEF BInv, Filed
<1>2. FindChild(pages[root].keys, op.key) \in DOMAIN pages[root].children
  <2>1. Read(root) = pages[root] /\ IsInternal(Read(root))
    BY <1>1 DEF Taken, Read, IsInternal
  <2> QED BY <1>1, <2>1, FollowIs
<1>3. RootTree BY DEF Taken, RootLeaf, RootDead, TInv, Shape
<1>4. ChildOfRoot(p) BY <1>2, <1>3 DEF Taken, RootTree
<1> QED BY <1>2, <1>3, <1>4 DEF ChildOfRoot, Taken

\* The leaf that an insert has reached is the root or a child of the root.
LEMMA LeafReached ==
    ASSUME BInv, TInv, op.at = "leaf"
    PROVE  \/ op.page = root /\ RootLeaf
           \/ op.page # root /\ Taken(op.page) /\ RootTree /\ pages[op.page].parent = root
<1>1. /\ Filed /\ op.page \in DOMAIN pages /\ pages[op.page].kind = "leaf" /\ op.key \in Int
  BY AtLeaf
<1>2. op.page = root \/ Taken(op.page) BY <1>1 DEF TInv, WayDown
<1>3. CASE op.page = root
  BY <1>1, <1>3 DEF TInv, Shape, RootTree, RootDead
<1>4. CASE Taken(op.page)
  <2>1. RootTree /\ ChildOfRoot(op.page) /\ op.page # root BY <1>1, <1>4, TakenIs
  <2> QED BY <1>1, <1>4, <2>1 DEF ChildOfRoot
<1> QED BY <1>2, <1>3, <1>4

\* A leaf with the same parent is written in its place.
LEMMA LeafRewritten ==
    ASSUME BInv, TInv, op.at = "leaf", root' = root, faults' = faults \/ Failed,
           pages'[op.page].kind = "leaf", pages'[op.page].parent = pages[op.page].parent,
           \A q \in DOMAIN pages : q \in DOMAIN pages' /\ (q # op.page => pages'[q] = pages[q])
    PROVE  /\ Shape'
           /\ op.page = root => RootLeaf'
           /\ op.page # root => RootTree' /\ pages'[root] = pages[root]
<1>1. /\ Filed /\ op.page \in DOMAIN pages /\ pages[op.page].kind = "leaf" /\ op # NoOp
  BY AtLeaf
<1>2. root \in DOMAIN pages BY <1>1 DEF Filed
<1>3. faults # 0 => faults' # 0 BY FaultsStay
<1>5. CASE op.page = root /\ RootLeaf
  <2>1. RootLeaf' BY <1>1, <1>3, <1>5, LeafStays
  <2> QED BY <1>5, <2>1 DEF Shape
<1>6. CASE op.page # root /\ RootTree
  <2>1. pages'[root] = pages[root] BY <1>2, <1>6
  <2>2. ASSUME NEW c, ChildOfRoot(c) PROVE ChildOfRoot(c)' BY <1>1, <2>2, ChildStays
  <2>3. \A i \in DOMAIN pages[root].children : ChildOfRoot(pages[root].children[i])'
    <3>1. ASSUME NEW i \in DOMAIN pages[root].children
          PROVE  \E c : c = pages[root].children[i] /\ ChildOfRoot(c)'
      <4>1. PICK c : c = pages[root].children[i] OBVIOUS
      <4> QED BY <1>6, <2>2, <4>1 DEF RootTree
    <3> QED BY <2>1, <3>1 DEF ChildOfRoot
  <2>4. RootTree' BY <1>6, <2>1, <2>3, TreeStays
  <2> QED BY <1>6, <2>1, <2>4 DEF Shape
<1> QED BY <1>5, <1>6, LeafReached

\* insert into a leaf.
LEMMA TLeaf ==
    ASSUME BInv, TInv, InsertIntoLeaf
    PROVE  TInv'
<1>1. op.at = "leaf" /\ root' = root BY DEF InsertIntoLeaf
<1>2. /\ op.page \in DOMAIN pages BY <1>1, AtLeaf
<1>3. PICK n : /\ Enters(n, pages[op.page], op.key, op.value)
               /\ \/ Writes(op.page, n) /\ Ends
                  \/ Failed /\ pages' = pages
  BY LeafWrites
<1>4. CASE Writes(op.page, n) /\ Ends
  <2>1. Shape' BY <1>1, <1>3, <1>4, LeafRewritten DEF Writes, Enters, Ends
  <2> QED BY <1>4, <2>1, TOver DEF Ends
<1>5. CASE Failed /\ pages' = pages
  <2>1. Shape' BY <1>1, <1>5, FaultsStay, ShapeStays DEF TInv
  <2> QED BY <1>5, <2>1, TOver DEF Failed
<1> QED BY <1>3, <1>4, <1>5

\* split_leaf.
LEMMA TSplitLeaf ==
    ASSUME BInv, TInv, SplitLeaf
    PROVE  TInv'
<1>1. op.at = "leaf" /\ root' = root BY DEF SplitLeaf
<1>2. /\ Filed /\ op.page \in DOMAIN pages /\ op # NoOp /\ pages[op.page].kind = "leaf"
      /\ op.key \in Int
  BY <1>1, AtLeaf
<1>3. PICK n, left, right :
              /\ Enters(n, pages[op.page], op.key, op.value)
              /\ Halves(n, left, right)
              /\ \/ /\ Splits(op.page, left, right) /\ faults' = faults
                    /\ op' = [at |-> "parent", key |-> op.key, value |-> op.value,
                              left |-> op.page, sep |-> right.keys[1], right |-> NewPage]
                 \/ Failed /\ pages' = pages
                 \/ Failed /\ Writes(op.page, left)
                 \/ Failed /\ Splits(op.page, left, right)
  BY SplitLeafWrites
<1>4. /\ left.kind = "leaf" /\ left.parent = pages[op.page].parent /\ left.next = NewPage
      /\ right.kind = "leaf"
  BY <1>3 DEF Enters, Halves
<1>5. CASE /\ Splits(op.page, left, right) /\ faults' = faults
           /\ op' = [at |-> "parent", key |-> op.key, value |-> op.value,
                     left |-> op.page, sep |-> right.keys[1], right |-> NewPage]
  <2>1. /\ pages'[op.page] = left /\ pages'[NewPage] = right
        /\ NewPage \notin DOMAIN pages /\ NewPage \in Nat
        /\ \A q \in DOMAIN pages : q \in DOMAIN pages' /\ (q # op.page => pages'[q] = pages[q])
    BY <1>5 DEF Splits
  <2>2. /\ op'.at = "parent" /\ op'.key = op.key /\ op'.left = op.page /\ op'.right = NewPage
    BY <1>5
  <2>3. /\ Shape'
        /\ op.page = root => RootLeaf'
        /\ op.page # root => RootTree' /\ pages'[root] = pages[root]
    BY <1>1, <1>4, <1>5, <2>1, LeafRewritten
  <2>4. WayDown' BY <2>2 DEF WayDown
  <2>5. NewPage # None BY <2>1, BTreeAssumption
  <2>6. CASE op.page = root /\ RootLeaf
    <3>1. AtRoot' BY <1>1, <1>4, <2>1, <2>2, <2>3, <2>5, <2>6 DEF AtRoot
    <3> QED BY <2>3, <2>4, <3>1 DEF TInv, WayUp
  <2>7. CASE op.page # root /\ Taken(op.page) /\ RootTree
    <3>1. Taken(op.left)' BY <1>1, <2>2, <2>3, <2>7 DEF Taken
    <3>2. \A i \in DOMAIN pages[root].children : pages[root].children[i] # NewPage
      <4>1. ASSUME NEW i \in DOMAIN pages[root].children, pages[root].children[i] = NewPage
            PROVE  FALSE
        <5>1. ChildOfRoot(NewPage) BY <2>7, <4>1 DEF RootTree
        <5> QED BY <2>1, <5>1 DEF ChildOfRoot
      <4> QED BY <4>1
    <3>3. BelowRoot'
      BY <1>1, <1>4, <2>1, <2>2, <2>3, <2>7, <3>1, <3>2 DEF BelowRoot
    <3> QED BY <2>3, <2>4, <3>3 DEF TInv, WayUp
  <2> QED BY <1>1, <2>6, <2>7, LeafReached
<1>6. CASE Failed /\ pages' = pages
  <2>1. Shape' BY <1>1, <1>2, <1>6, FaultsStay, ShapeStays DEF TInv
  <2> QED BY <1>6, <2>1, TOver DEF Failed
<1>7. CASE Failed /\ (Writes(op.page, left) \/ Splits(op.page, left, right))
  <2>1. Shape' BY <1>1, <1>4, <1>7, LeafRewritten DEF Writes, Splits
  <2> QED BY <1>7, <2>1, TOver DEF Failed
<1> QED BY <1>3, <1>5, <1>6, <1>7

\* The nodes that were split, on the way up.
LEMMA UpReached ==
    ASSUME BInv, TInv, op.at \in {"parent", "new_root"}
    PROVE  /\ op # NoOp /\ op.left \in DOMAIN pages /\ op.right \in DOMAIN pages
           /\ op.left # op.right /\ op.sep \in Int /\ op.key \in Int /\ op.key \in Key
           /\ Read(op.left) = pages[op.left] /\ Read(op.right) = pages[op.right]
           /\ pages[op.right].parent = pages[op.left].parent
           /\ root \in DOMAIN pages /\ root \in Nat /\ root # None /\ Filed
           /\ AtRoot \/ BelowRoot \/ BesideRoot
           /\ BelowRoot => /\ op.left # root /\ op.right # root
                           /\ pages[op.left].parent = root /\ pages[op.right].parent = root
<1>1. /\ Ascending /\ op # NoOp /\ op.sep \in Int /\ op.key \in Key BY UpIs
<1>2. /\ op.left \in DOMAIN pages /\ op.right \in DOMAIN pages /\ op.left # op.right
      /\ pages[op.right].parent = pages[op.left].parent
  BY <1>1 DEF Ascending
<1>3. op.key \in Int BY <1>1, BTreeAssumption
<1>4. Filed /\ root \in DOMAIN pages /\ root \in Nat BY FiledIs DEF BInv, Filed
<1>5. root # None BY <1>4, BTreeAssumption
<1>6. AtRoot \/ BelowRoot \/ BesideRoot BY DEF TInv, WayUp
<1>7. ASSUME BelowRoot
      PROVE  /\ op.left # root /\ op.right # root /\ pages[op.left].parent = root
  <2>1. /\ pages[root].kind = "internal"
        /\ pages[op.left].kind = "leaf" /\ pages[op.right].kind = "leaf"
    BY <1>7 DEF BelowRoot, RootTree
  <2>2. ChildOfRoot(op.left) BY <1>2, <1>3, <1>7, TakenIs DEF BelowRoot
  <2> QED BY <1>2, <1>4, <2>1, <2>2 DEF ChildOfRoot
<1> QED BY <1>1, <1>2, <1>3, <1>4, <1>5, <1>6, <1>7 DEF Read

\* insert_into_parent finds no parent.
LEMMA TNoParent ==
    ASSUME BInv, TInv, NoParent
    PROVE  TInv' /\ ((AtRoot /\ AtRoot') \/ BesideRoot)
<1>1. /\ op.at = "parent" /\ ParentOf(op.left) = None
      /\ op' = [op EXCEPT !.at = "new_root"] /\ UNCHANGED <<pages, root, faults>>
  BY DEF NoParent
<1>2. /\ op # NoOp /\ op.left \in DOMAIN pages /\ Read(op.left) = pages[op.left] /\ root # None
      /\ AtRoot \/ BelowRoot \/ BesideRoot
      /\ BelowRoot => pages[op.left].parent = root
  BY <1>1, UpReached
<1>3. AtRoot \/ BesideRoot BY <1>1, <1>2 DEF ParentOf
<1>4. op = [at |-> op.at, key |-> op.key, value |-> op.value,
            left |-> op.left, sep |-> op.sep, right |-> op.right]
  BY <1>1, UpIs
<1>5. op' = [at |-> "new_root", key |-> op.key, value |-> op.value,
             left |-> op.left, sep |-> op.sep, right |-> op.right]
  BY <1>1, <1>4
<1>6. op'.at = "new_root" /\ op'.left = op.left /\ op'.right = op.right BY <1>5
<1>7. Shape' /\ (RootLeaf => RootLeaf') /\ (RootTree => RootTree')
  BY <1>1, ShapeStays DEF TInv
<1>8. AtRoot => AtRoot' BY <1>1, <1>6, <1>7 DEF AtRoot
<1>9. BesideRoot => BesideRoot' BY <1>1, <1>6, <1>7 DEF BesideRoot
<1> QED BY <1>3, <1>6, <1>7, <1>8, <1>9 DEF TInv, WayDown, WayUp

\* Until a node is misread, one that was split beside the root has no parent.
LEMMA BesideIs ==
    ASSUME BInv, TInv, ~Misread, op.at \in {"parent", "new_root"}, BesideRoot
    PROVE  pages[op.left].parent = None /\ op.left # root /\ op.right # root
<1>1. op.left \in DOMAIN pages BY UpReached
<1> QED BY <1>1 DEF BesideRoot, RootLeaf, Misread, IsInternal

\* insert_into_parent finds a parent that cannot be read.
LEMMA TBadParent ==
    ASSUME BInv, TInv, ~Misread, BadParent
    PROVE  TInv' /\ faults # 0 /\ op' = NoOp /\ AtRoot
<1>1. /\ op.at = "parent" /\ ParentOf(op.left) # None /\ ~IsInternal(Read(ParentOf(op.left)))
      /\ op' = IF IsLeaf(Read(ParentOf(op.left))) THEN Panic ELSE NoOp
      /\ UNCHANGED <<pages, root, faults>>
  BY DEF BadParent
<1>2. op' = NoOp BY <1>1, ParentIs DEF IsLeaf
<1>3. /\ op # NoOp /\ op.left \in DOMAIN pages /\ Read(op.left) = pages[op.left]
      /\ AtRoot \/ BelowRoot \/ BesideRoot
      /\ BelowRoot => pages[op.left].parent = root
      /\ root \in DOMAIN pages
  BY <1>1, UpReached
<1>4. ~BelowRoot
  <2>1. ASSUME BelowRoot PROVE FALSE
    <3>1. ParentOf(op.left) = root BY <1>1, <1>3, <2>1, UpReached DEF ParentOf
    <3>2. IsInternal(Read(root)) BY <1>3, <2>1 DEF BelowRoot, RootTree, Read, IsInternal
    <3> QED BY <1>1, <3>1, <3>2
  <2> QED BY <2>1
<1>5. AtRoot BY <1>1, <1>3, <1>4, BesideIs DEF ParentOf
<1>6. pages[root].parent # None BY <1>1, <1>3, <1>5 DEF AtRoot, ParentOf
<1>7. faults # 0 BY <1>5, <1>6 DEF AtRoot, RootLeaf, RootTree
<1>8. Shape' BY <1>1, ShapeStays DEF TInv
<1> QED BY <1>2, <1>5, <1>7, <1>8, TOver

\* A parent that can be read is the root, or a node beside a root that is a leaf.
LEMMA ParentReached ==
    ASSUME BInv, TInv, ~Misread, op.at = "parent", NEW p, p = pages[op.left].parent,
           p \in DOMAIN pages, pages[p].kind = "internal"
    PROVE  \/ BelowRoot /\ p = root
           \/ ~BelowRoot /\ AtRoot /\ RootLeaf /\ faults # 0 /\ p # root
<1>1. /\ AtRoot \/ BelowRoot \/ BesideRoot
      /\ BelowRoot => pages[op.left].parent = root
      /\ Filed
  BY UpReached
<1>2. p # None
  <2>1. p \in Nat BY <1>1, FiledIs
  <2> QED BY <2>1, BTreeAssumption
<1>3. CASE BelowRoot BY <1>1, <1>3
<1>4. CASE ~BelowRoot
  <2>1. AtRoot BY <1>1, <1>2, <1>4, BesideIs
  <2>2. p = pages[root].parent BY <2>1 DEF AtRoot
  <2>3. RootLeaf BY <1>2, <2>1, <2>2 DEF AtRoot, RootTree
  <2> QED BY <1>2, <1>4, <2>1, <2>2, <2>3 DEF RootLeaf
<1> QED BY <1>3, <1>4

\* The nodes with one place more have the children of the node, and the new one.
LEMMA ChildrenAdopted ==
    ASSUME NEW n, NEW node, NEW k, NEW c, Adopts(n, node, k, c)
    PROVE  /\ \A i \in DOMAIN n.children :
                 \/ n.children[i] = c
                 \/ \E j \in DOMAIN node.children : n.children[i] = node.children[j]
           /\ PlacedOnce(node.children) /\ (\A j \in DOMAIN node.children : node.children[j] # c)
                 => PlacedOnce(n.children)
<1>1. PICK i : Spliced(n.children, node.children, i + 1, c) /\ i \in 1..(Len(node.keys) + 1)
  BY DEF Adopts, PlaceOf
<1> DEFINE t == n.children
           s == node.children
<1>2. ASSUME NEW j \in DOMAIN t
      PROVE  \/ j = i + 1 /\ t[j] = c
             \/ j < i + 1 /\ j \in DOMAIN s /\ t[j] = s[j]
             \/ i + 1 < j /\ j - 1 \in DOMAIN s /\ t[j] = s[j - 1]
  BY <1>1, SplicedFrom
<1>3. ASSUME PlacedOnce(s), \A j \in DOMAIN s : s[j] # c
      PROVE  PlacedOnce(t)
  <2>1. i + 1 \in Int /\ \A j \in DOMAIN t : j \in Int BY <1>1 DEF Spliced
  <2> SUFFICES ASSUME NEW a \in DOMAIN t, NEW b \in DOMAIN t, t[a] = t[b], a # b PROVE FALSE
    BY DEF PlacedOnce
  <2>2. PICK x, y : x = t[a] /\ y = t[b] OBVIOUS
  <2>3. \/ a = i + 1 /\ x = c
        \/ a < i + 1 /\ a \in DOMAIN s /\ x = s[a]
        \/ i + 1 < a /\ a - 1 \in DOMAIN s /\ x = s[a - 1]
    BY <1>2, <2>2
  <2>4. \/ b = i + 1 /\ y = c
        \/ b < i + 1 /\ b \in DOMAIN s /\ y = s[b]
        \/ i + 1 < b /\ b - 1 \in DOMAIN s /\ y = s[b - 1]
    BY <1>2, <2>2
  <2> HIDE DEF t, s
  <2>5. a \in Int /\ b \in Int BY <2>1
  <2>6. CASE a = i + 1 BY <1>3, <2>1, <2>2, <2>3, <2>4, <2>5, <2>6
  <2>7. CASE b = i + 1 BY <1>3, <2>1, <2>2, <2>3, <2>4, <2>5, <2>7
  <2>8. CASE a # i + 1 /\ b # i + 1
    <3>1. PICK e \in DOMAIN s : x = s[e] /\ ((a < i + 1 /\ e = a) \/ (i + 1 < a /\ e = a - 1))
      BY <2>3, <2>8
    <3>2. PICK f \in DOMAIN s : y = s[f] /\ ((b < i + 1 /\ f = b) \/ (i + 1 < b /\ f = b - 1))
      BY <2>4, <2>8
    <3>3. e # f BY <2>1, <2>5, <3>1, <3>2
    <3> QED BY <1>3, <2>2, <3>1, <3>2, <3>3 DEF PlacedOnce
  <2> QED BY <2>6, <2>7, <2>8
<1>4. \A j \in DOMAIN t : t[j] = c \/ \E m \in DOMAIN s : t[j] = s[m]
  BY <1>2
<1> QED BY <1>3, <1>4

\* A part of a sequence has its elements, each once.
LEMMA PartOf ==
    ASSUME NEW t, NEW s, NEW m \in Nat, NEW n \in Nat, IsPart(t, s, m, n)
    PROVE  /\ \A i \in DOMAIN t : \E j \in DOMAIN s : t[i] = s[j]
           /\ PlacedOnce(s) => PlacedOnce(t)
<1>1. ASSUME NEW i \in DOMAIN t PROVE m + i - 1 \in DOMAIN s /\ t[i] = s[m + i - 1] /\ i \in Int
  BY DEF IsPart
<1>2. ASSUME PlacedOnce(s), NEW a \in DOMAIN t, NEW b \in DOMAIN t, t[a] = t[b], a # b
      PROVE  FALSE
  <2>1. m + a - 1 # m + b - 1 BY <1>1, <1>2
  <2> QED BY <1>1, <1>2, <2>1 DEF PlacedOnce
<1> QED BY <1>1, <1>2 DEF PlacedOnce

\* The root is written over, with children it may have.
LEMMA TreeRewritten ==
    ASSUME BInv, RootTree, root' = root, NEW m, pages'[root] = m,
           m.kind = "internal", m.parent = None, PlacedOnce(m.children),
           \A i \in DOMAIN m.children : ChildOfRoot(m.children[i]),
           \A q \in DOMAIN pages : q \in DOMAIN pages' /\ (q # root => pages'[q] = pages[q])
    PROVE  RootTree'
<1>1. ASSUME NEW c, ChildOfRoot(c) PROVE ChildOfRoot(c)'
  <2>1. c # root BY <1>1 DEF ChildOfRoot
  <2> QED BY <1>1, <2>1, ChildStays
<1>2. \A i \in DOMAIN m.children : ChildOfRoot(m.children[i])' BY <1>1
<1>3. pages'[root'] = m OBVIOUS
<1> QED BY <1>2, <1>3 DEF RootTree

\* The root with the new leaf behind it.
LEMMA RootAdopts ==
    ASSUME BInv, TInv, op.at = "parent", BelowRoot, NEW n,
           Adopts(n, pages[root], op.sep, op.right)
    PROVE  /\ n.kind = "internal" /\ n.parent = None /\ PlacedOnce(n.children)
           /\ \A i \in DOMAIN n.children : ChildOfRoot(n.children[i])
<1>1. /\ op.right \in DOMAIN pages /\ op.right # root /\ pages[op.right].parent = root
  BY UpReached
<1>2. ChildOfRoot(op.right)
  BY <1>1 DEF BelowRoot, ChildOfRoot, IsInternal
<1>3. n.kind = "internal" /\ n.parent = None BY DEF Adopts, BelowRoot, RootTree
<1>4. PlacedOnce(n.children) BY ChildrenAdopted DEF BelowRoot, RootTree
<1>5. ASSUME NEW i \in DOMAIN n.children PROVE ChildOfRoot(n.children[i])
  <2>1. n.children[i] = op.right
          \/ \E j \in DOMAIN pages[root].children : n.children[i] = pages[root].children[j]
    BY ChildrenAdopted
  <2> QED BY <1>2, <2>1 DEF BelowRoot, RootTree
<1> QED BY <1>3, <1>4, <1>5

\* A write to a node beside the root.
LEMMA BesideWritten ==
    ASSUME BInv, RootLeaf, root' = root, faults # 0, faults' = faults \/ Failed,
           NEW p, p # root,
           \A q \in DOMAIN pages : q \in DOMAIN pages' /\ (q # p => pages'[q] = pages[q])
    PROVE  RootLeaf' /\ faults' # 0 /\ pages'[root] = pages[root]
<1>1. pages'[root] = pages[root] BY DEF BInv, Filed
<1> QED BY <1>1, FaultsStay, LeafStays DEF RootLeaf

\* insert_into_parent.
LEMMA TParent ==
    ASSUME BInv, TInv, ~Misread, InsertIntoParent
    PROVE  /\ TInv'
           /\ \/ BelowRoot /\ pages[op.left].parent = root
              \/ RootLeaf /\ faults # 0 /\ RootLeaf' /\ faults' # 0 /\ pages'[root] = pages[root]
<1>1. op.at = "parent" /\ root' = root BY DEF InsertIntoParent
<1>2. PICK p : p = pages[op.left].parent OBVIOUS
<1>3. /\ p \in DOMAIN pages /\ pages[p].kind = "internal"
      /\ \E n : /\ Adopts(n, pages[p], op.sep, op.right)
                /\ \/ Writes(p, n) /\ Ends
                   \/ Failed /\ pages' = pages
  BY <1>2, ParentWrites
<1>4. PICK n : /\ Adopts(n, pages[p], op.sep, op.right)
               /\ \/ Writes(p, n) /\ Ends
                  \/ Failed /\ pages' = pages
  BY <1>3
<1>5. op' = NoOp BY <1>4 DEF Ends, Failed
<1>6. CASE BelowRoot /\ p = root
  <2>1. CASE Writes(root, n) /\ Ends
    <3>1. /\ n.kind = "internal" /\ n.parent = None /\ PlacedOnce(n.children)
          /\ \A i \in DOMAIN n.children : ChildOfRoot(n.children[i])
      BY <1>1, <1>4, <1>6, RootAdopts
    <3>2. RootTree' BY <1>1, <1>6, <2>1, <3>1, TreeRewritten DEF Writes, BelowRoot
    <3> QED BY <1>2, <1>5, <1>6, <3>2, TOver DEF Shape
  <2>2. CASE Failed /\ pages' = pages
    <3>1. Shape' BY <1>1, <2>2, FaultsStay, ShapeStays DEF TInv
    <3> QED BY <1>2, <1>5, <1>6, <3>1, TOver
  <2> QED BY <1>4, <1>6, <2>1, <2>2
<1>7. CASE RootLeaf /\ faults # 0 /\ p # root
  <2>1. \A q \in DOMAIN pages : q \in DOMAIN pages' /\ (q # p => pages'[q] = pages[q])
    BY <1>4 DEF Writes
  <2>2. RootLeaf' /\ faults' # 0 /\ pages'[root] = pages[root]
    BY <1>1, <1>4, <1>7, <2>1, BesideWritten DEF Ends
  <2> QED BY <1>5, <1>7, <2>2, TOver DEF Shape
<1> QED BY <1>1, <1>2, <1>3, <1>6, <1>7, ParentReached

\* split_internal.
LEMMA TSplitInternal ==
    ASSUME BInv, TInv, ~Misread, SplitInternal
    PROVE  /\ TInv'
           /\ \/ BelowRoot /\ pages[op.left].parent = root
              \/ RootLeaf /\ faults # 0 /\ RootLeaf' /\ faults' # 0 /\ pages'[root] = pages[root]
<1>1. op.at = "parent" /\ root' = root BY DEF SplitInternal
<1>2. PICK p : p = pages[op.left].parent OBVIOUS
<1>3. /\ p \in DOMAIN pages /\ pages[p].kind = "internal"
      /\ \E n, left, right, sep :
            /\ Adopts(n, pages[p], op.sep, op.right)
            /\ Parts(n, left, right)
            /\ \/ /\ Splits(p, left, right) /\ faults' = faults
                  /\ op' = [at |-> "parent", key |-> op.key, value |-> op.value,
                            left |-> p, sep |-> sep, right |-> NewPage]
               \/ Failed /\ pages' = pages
               \/ Failed /\ Writes(p, left)
               \/ Failed /\ Splits(p, left, right)
  BY <1>2, SplitInternalWrites
<1>4. PICK n, left, right, sep :
            /\ Adopts(n, pages[p], op.sep, op.right)
            /\ Parts(n, left, right)
            /\ \/ /\ Splits(p, left, right) /\ faults' = faults
                  /\ op' = [at |-> "parent", key |-> op.key, value |-> op.value,
                            left |-> p, sep |-> sep, right |-> NewPage]
               \/ Failed /\ pages' = pages
               \/ Failed /\ Writes(p, left)
               \/ Failed /\ Splits(p, left, right)
  BY <1>3
<1>5. left.kind = "internal" /\ left.parent = n.parent /\ right.kind = "internal"
  BY <1>4 DEF Parts
<1>6. CASE BelowRoot /\ p = root
  <2>1. /\ n.kind = "internal" /\ n.parent = None /\ PlacedOnce(n.children)
        /\ \A i \in DOMAIN n.children : ChildOfRoot(n.children[i])
    BY <1>1, <1>4, <1>6, RootAdopts
  <2>2. /\ PlacedOnce(left.children)
        /\ \A i \in DOMAIN left.children : ChildOfRoot(left.children[i])
    <3>1. PICK m, len \in Nat \ {0} : IsPart(left.children, n.children, 1, m + 1)
      BY <1>4 DEF Parts
    <3>2. 1 \in Nat /\ m + 1 \in Nat BY <3>1
    <3>3. /\ \A i \in DOMAIN left.children :
                \E j \in DOMAIN n.children : left.children[i] = n.children[j]
          /\ PlacedOnce(n.children) => PlacedOnce(left.children)
      BY <3>1, <3>2, PartOf
    <3> QED BY <2>1, <3>3
  <2>3. ASSUME pages'[root] = left,
               \A q \in DOMAIN pages : q \in DOMAIN pages' /\ (q # root => pages'[q] = pages[q])
        PROVE  RootTree'
    BY <1>1, <1>5, <1>6, <2>1, <2>2, <2>3, TreeRewritten DEF BelowRoot
  <2>4. CASE /\ Splits(root, left, right) /\ faults' = faults
             /\ op' = [at |-> "parent", key |-> op.key, value |-> op.value,
                       left |-> root, sep |-> sep, right |-> NewPage]
    <3>1. pages'[root] = left /\ pages'[NewPage] = right /\ RootTree'
      BY <2>3, <2>4 DEF Splits
    <3>2. op'.at = "parent" /\ op'.left = root /\ op'.right = NewPage BY <2>4
    <3>3. AtRoot' BY <1>1, <1>5, <3>1, <3>2 DEF AtRoot
    <3> QED BY <1>2, <1>6, <3>1, <3>2, <3>3 DEF TInv, Shape, WayDown, WayUp
  <2>5. CASE Failed /\ pages' = pages
    <3>1. Shape' BY <1>1, <2>5, FaultsStay, ShapeStays DEF TInv
    <3> QED BY <1>2, <1>6, <2>5, <3>1, TOver DEF Failed
  <2>6. CASE Failed /\ (Writes(root, left) \/ Splits(root, left, right))
    <3>1. RootTree' BY <2>3, <2>6 DEF Writes, Splits
    <3> QED BY <1>2, <1>6, <2>6, <3>1, TOver DEF Shape, Failed
  <2> QED BY <1>4, <1>6, <2>4, <2>5, <2>6
<1>7. CASE RootLeaf /\ faults # 0 /\ p # root
  <2>1. \A q \in DOMAIN pages : q \in DOMAIN pages' /\ (q # p => pages'[q] = pages[q])
    BY <1>4 DEF Writes, Splits
  <2>2. RootLeaf' /\ faults' # 0 /\ pages'[root] = pages[root]
    BY <1>1, <1>4, <1>7, <2>1, BesideWritten
  <2>3. CASE /\ Splits(p, left, right)
             /\ op' = [at |-> "parent", key |-> op.key, value |-> op.value,
                       left |-> p, sep |-> sep, right |-> NewPage]
    <3>1. pages'[p] = left /\ pages'[NewPage] = right BY <2>3 DEF Splits
    <3>2. op'.at = "parent" /\ op'.left = p /\ op'.right = NewPage BY <2>3
    <3>3. BesideRoot' BY <1>5, <2>2, <3>1, <3>2 DEF BesideRoot
    <3> QED BY <1>7, <2>2, <3>2, <3>3 DEF TInv, Shape, WayDown, WayUp
  <2>4. CASE Failed BY <1>7, <2>2, <2>4, TOver DEF Shape, Failed
  <2> QED BY <1>4, <2>3, <2>4
<1> QED BY <1>1, <1>2, <1>3, <1>6, <1>7, ParentReached

\* new_root splits the root, or makes a root of the node beside a root leaf.
LEMMA TNewRoot ==
    ASSUME BInv, TInv, ~Misread, ~Misread', NewRoot
    PROVE  /\ TInv'
           /\ \/ AtRoot
              \/ /\ BesideRoot /\ faults' # 0 /\ op' = NoOp
                 /\ \/ RootLeaf' /\ root' = root /\ pages'[root] = pages[root]
                    \/ /\ RootTree' /\ pages'[root'].keys = <<op.sep>>
                       /\ \A i \in DOMAIN pages'[root'].children :
                             pages'[pages'[root'].children[i]].kind = "unreadable"
<1>1. op.at = "new_root" BY DEF NewRoot
<1>2. /\ Ascending /\ op # NoOp /\ Filed /\ root \in DOMAIN pages BY <1>1, UpIs DEF BInv, Filed
<1>3. PICK a, b : a = op.left /\ b = op.right OBVIOUS
<1>4. /\ a \in DOMAIN pages /\ b \in DOMAIN pages /\ a # b
      /\ pages[a].kind \in {"leaf", "internal"} /\ pages[b].kind \in {"leaf", "internal"}
      /\ pages[a].parent = None /\ pages[b].parent = None
  BY <1>1, <1>2, <1>3 DEF Ascending
<1>5. \/ AtRoot /\ a = root
      \/ BesideRoot /\ a # root /\ b # root
  BY <1>1, <1>3, BesideIs DEF TInv, WayUp, BelowRoot, AtRoot
<1>6. /\ pages[a] \in PageSet /\ pages[b] \in PageSet /\ NewPage \in Nat
      /\ NewPage = Len(pages) + 1 /\ NewPage \notin DOMAIN pages
  BY <1>2, <1>4, FiledIs
<1>7. PICK new \in Nat : new = NewPage BY <1>6
<1>8. PICK l \in WriteParent(pages[a], new), r \in WriteParent(pages[b], new) :
                 \/ WritesRoot(l, r) /\ op' = NoOp /\ faults' = faults /\ root' = new
                 \/ Failed /\ root' = root /\ pages' = pages
                 \/ Failed /\ root' = root /\ Writes(a, l)
                 \/ /\ Failed /\ root' = root /\ WritesBoth(a, l, b, r)
                    /\ DOMAIN pages' = DOMAIN pages /\ Len(pages') = Len(pages)
                 \/ Failed /\ root' = root /\ WritesRoot(l, r)
  BY <1>3, <1>7, NewRootWrites
<1>9. Adopted(pages[a], new, l) /\ Adopted(pages[b], new, r)
  BY <1>4, <1>6, <1>7, <1>8, ParentWritten
<1>10. /\ l.parent = new /\ l.kind \in {pages[a].kind, "unreadable"}
       /\ r.parent = new /\ r.kind \in {pages[b].kind, "unreadable"} /\ new # None
  BY <1>9, BTreeAssumption DEF Adopted
<1>11. op' = NoOp BY <1>8 DEF Failed
\* An internal node that is written here is misread.
<1>12. ASSUME NEW q \in DOMAIN pages', pages'[q] = l \/ pages'[q] = r
       PROVE  pages'[q].kind # "internal"
  BY <1>10, <1>12 DEF Misread, IsInternal
<1>13. CASE WritesRoot(l, r) /\ op' = NoOp /\ faults' = faults /\ root' = new
  <2>1. PICK top : top = pages'[new] OBVIOUS
  <2>2. /\ top.kind = "internal" /\ top.parent = None /\ top.children = <<a, b>>
        /\ top.keys = <<op.sep>>
    BY <1>3, <1>7, <1>13, <2>1 DEF Internal, WritesRoot
  <2>3. /\ pages'[a] = l /\ pages'[b] = r /\ a \in DOMAIN pages' /\ b \in DOMAIN pages'
        /\ a # new /\ b # new
    BY <1>3, <1>4, <1>6, <1>7, <1>13 DEF WritesBoth, WritesRoot
  <2>4. ChildOfRoot(a)' BY <1>10, <1>12, <1>13, <2>3 DEF ChildOfRoot, IsInternal
  <2>5. ChildOfRoot(b)' BY <1>10, <1>12, <1>13, <2>3 DEF ChildOfRoot, IsInternal
  <2>6. DOMAIN top.children = {1, 2} /\ top.children[1] = a /\ top.children[2] = b
    BY <2>2
  <2>7. PlacedOnce(top.children) BY <1>4, <2>6 DEF PlacedOnce
  <2>8. \A i \in DOMAIN top.children : ChildOfRoot(top.children[i])' BY <2>4, <2>5, <2>6
  <2>9. pages'[root'] = top BY <1>13, <2>1
  <2>10. RootTree' BY <2>2, <2>7, <2>8, <2>9 DEF RootTree
  <2>11. TInv' BY <1>11, <2>10, TOver DEF Shape
  <2>12. CASE BesideRoot
    <3>1. pages'[a].kind = "unreadable" /\ pages'[b].kind = "unreadable"
      BY <1>3, <1>10, <1>12, <2>3, <2>12 DEF BesideRoot
    <3>2. \A i \in DOMAIN pages'[root'].children :
             pages'[pages'[root'].children[i]].kind = "unreadable"
      BY <2>6, <2>9, <3>1
    <3> QED BY <1>11, <1>13, <2>2, <2>9, <2>10, <2>11, <2>12, <3>2 DEF BesideRoot
  <2> QED BY <1>5, <2>11, <2>12
<1>14. CASE Failed /\ root' = root
  <2>1. faults' # 0
    <3>1. faults \in Nat BY BTreeAssumption DEF BInv, Counted
    <3> QED BY <1>14, <3>1 DEF Failed
  <2>2. CASE AtRoot /\ a = root
    <3>1. CASE pages' = pages
      <4>1. Shape' BY <1>14, <3>1, FaultsStay, ShapeStays DEF TInv
      <4> QED BY <1>11, <2>2, <4>1, TOver
    <3>2. CASE pages'[a] = l /\ a \in DOMAIN pages'
      <4>1. l.kind = "leaf" => RootLeaf' BY <1>14, <2>1, <2>2, <3>2 DEF RootLeaf
      <4>2. l.kind # "leaf" => RootDead'
        <5>1. l.kind # "internal" BY <1>12, <3>2
        <5> QED BY <1>4, <1>10, <1>14, <2>2, <3>2, <5>1 DEF RootDead
      <4> QED BY <1>11, <2>2, <4>1, <4>2, TOver DEF Shape
    <3>3. pages' = pages \/ (pages'[a] = l /\ a \in DOMAIN pages')
      <4>1. faults' # faults
        <5>1. faults \in Nat BY BTreeAssumption DEF BInv, Counted
        <5> QED BY <1>14, <5>1 DEF Failed
      <4> QED BY <1>3, <1>4, <1>8, <4>1 DEF Writes, WritesBoth, WritesRoot
    <3> QED BY <3>1, <3>2, <3>3
  <2>3. CASE BesideRoot /\ a # root /\ b # root
    <3>1. pages'[root] = pages[root]
      <4>1. faults' # faults
        <5>1. faults \in Nat BY BTreeAssumption DEF BInv, Counted
        <5> QED BY <1>14, <5>1 DEF Failed
      <4> QED BY <1>2, <1>3, <1>8, <2>3, <4>1 DEF Writes, WritesBoth, WritesRoot
    <3>2. RootLeaf' BY <1>14, <2>1, <2>3, <3>1 DEF RootLeaf, BesideRoot
    <3>3. TInv' BY <1>11, <3>2, TOver DEF Shape
    <3> QED BY <1>11, <1>14, <2>1, <2>3, <3>1, <3>2, <3>3
  <2> QED BY <1>5, <2>2, <2>3
<1> QED BY <1>8, <1>13, <1>14

\* However inserts and failed writes follow each other, until set_parent leaves an
\* internal node that is misread the tree is a leaf, an internal node over leaves
\* and unreadable nodes, or unreadable: a root that is split twice is lost.
THEOREM ShapeInvariance == Spec => [](~Misread => TInv)
<1>1. Init => TInv BY TInit
<1>2. ASSUME BInv, TInv, ~Misread, ~Misread', [Next]_vars PROVE TInv'
  <2>1. ASSUME NEW k \in Key, Insert(k) PROVE TInv' BY <1>2, <2>1, TInsert
  <2>2. CASE Descend BY <1>2, <2>2, TDescend
  <2>3. CASE InsertIntoLeaf BY <1>2, <2>3, TLeaf
  <2>4. CASE SplitLeaf BY <1>2, <2>4, TSplitLeaf
  <2>5. CASE NoParent BY <1>2, <2>5, TNoParent
  <2>6. CASE BadParent BY <1>2, <2>6, TBadParent
  <2>7. CASE InsertIntoParent BY <1>2, <2>7, TParent
  <2>8. CASE SplitInternal BY <1>2, <2>8, TSplitInternal
  <2>9. CASE NewRoot BY <1>2, <2>9, TNewRoot
  <2>10. CASE UNCHANGED vars
    <3>1. pages' = pages /\ root' = root /\ op' = op /\ faults' = faults BY <2>10 DEF vars
    <3> QED BY <1>2, <3>1 DEF TInv, Shape, WayDown, WayUp, AtRoot, BelowRoot, BesideRoot, Taken,
                              RootLeaf, RootTree, RootDead, ChildOfRoot, PlacedOnce, IsInternal
  <2> QED BY <1>2, <2>1, <2>2, <2>3, <2>4, <2>5, <2>6, <2>7, <2>8, <2>9, <2>10 DEF Next
<1>3. BInv /\ (~Misread => TInv) /\ [Next]_vars => (~Misread => TInv)'
  BY <1>2, MisreadStays
<1> QED BY <1>1, <1>3, Invariance, PTL DEF Spec

------------------------------------------------------------------------------
(* Where the entries are: on a misaligned page, in the tree, or, while an  *)
(* insert is on its way up, in the node that it has split off.             *)

\* A leaf with an entry, and a node with a child.
HasEntry(n, e) == n.kind = "leaf" /\ \E i \in DOMAIN n.keys : e = <<n.keys[i], n.values[i]>>
HasChild(n, c) == n.kind = "internal" /\ \E i \in DOMAIN n.children : n.children[i] = c

\* The entry is in the node p or in a child of it.
Found(e, p) ==
    \E q \in DOMAIN pages : (q = p \/ HasChild(pages[p], q)) /\ HasEntry(pages[q], e)

\* An insert on its way up has written its entry.
Rising == op.at \in {"parent", "new_root"}

Safe(e) == e \in garbled \/ Found(e, root) \/ (Rising /\ Found(e, op.right))

CInv == faults = 0 => /\ \A e \in entries : Safe(e)
                      /\ Rising => Safe(<<op.key, op.value>>)

\* The entries of a node.
LEMMA EntriesAre ==
    ASSUME NEW n, NEW e
    PROVE  e \in EntriesOf(n) <=> HasEntry(n, e)
<1>1. CASE n.kind = "leaf"
  <2>1. EntriesOf(n) = {<<n.keys[i], n.values[i]>> : i \in DOMAIN n.keys}
    BY <1>1 DEF EntriesOf, IsLeaf
  <2> QED BY <1>1, <2>1 DEF HasEntry
<1>2. CASE n.kind # "leaf"
  <2>1. EntriesOf(n) = {} BY <1>2 DEF EntriesOf, IsLeaf
  <2> QED BY <1>2, <2>1 DEF HasEntry
<1> QED BY <1>1, <1>2

\* What is found from a node is below it.
LEMMA FoundBelow ==
    ASSUME Filed, NEW p \in DOMAIN pages, NEW e, Found(e, p)
    PROVE  e \in AllBelow(p)
<1>1. PICK q \in DOMAIN pages : (q = p \/ HasChild(pages[p], q)) /\ HasEntry(pages[q], e)
  BY DEF Found
<1>2. p \in Nat /\ Read(p) = pages[p] /\ Read(q) = pages[q] BY FiledIs DEF Read
<1>3. q \in NodesAt(p)
  <2>1. CASE q = p BY <2>1 DEF NodesAt
  <2>2. CASE HasChild(pages[p], q)
    <3>1. q \in ToSet(Read(p).children) BY <1>2, <2>2 DEF HasChild, ToSet
    <3>2. IsInternal(Read(p)) BY <1>2, <2>2 DEF HasChild, IsInternal
    <3>3. q \in ChildrenOf({p}) BY <3>1, <3>2 DEF ChildrenOf
    <3> QED BY <3>3 DEF NodesAt
  <2> QED BY <1>1, <2>1, <2>2
<1>4. q \in Below(p) BY <1>2, <1>3, BelowHolds
<1>5. e \in EntriesOf(Read(q)) BY <1>1, <1>2, EntriesAre
<1> QED BY <1>4, <1>5 DEF AllBelow

\* An entry is found from a page that holds it, and from its parent.
LEMMA FoundIn ==
    ASSUME NEW p, NEW q \in DOMAIN pages, NEW e, HasEntry(pages[q], e),
           q = p \/ HasChild(pages[p], q)
    PROVE  Found(e, p)
BY DEF Found

\* insert_sorted keeps the entries and adds one.
LEMMA EntryEntered ==
    ASSUME NEW n, NEW leaf, NEW k, NEW v, Enters(n, leaf, k, v),
           leaf.kind = "leaf", DOMAIN leaf.keys = DOMAIN leaf.values
    PROVE  /\ HasEntry(n, <<k, v>>)
           /\ \A e : HasEntry(leaf, e) => HasEntry(n, e)
<1>1. PICK i : Spliced(n.keys, leaf.keys, i, k) /\ Spliced(n.values, leaf.values, i, v)
  BY DEF Enters
<1>2. n.kind = "leaf" BY DEF Enters
<1> DEFINE ks == leaf.keys
           vs == leaf.values
<1>3. /\ Len(ks) \in Nat /\ DOMAIN ks = 1..Len(ks) /\ i \in 1..(Len(ks) + 1)
      /\ DOMAIN n.keys = 1..(Len(ks) + 1) /\ n.keys[i] = k /\ n.values[i] = v
      /\ DOMAIN vs = 1..Len(vs) /\ Len(vs) \in Nat
  BY <1>1 DEF Spliced
<1>4. HasEntry(n, <<k, v>>) BY <1>2, <1>3 DEF HasEntry
<1>5. ASSUME NEW j \in DOMAIN ks
      PROVE  \E m \in DOMAIN n.keys : n.keys[m] = ks[j] /\ n.values[m] = vs[j]
  <2>1. j \in 1..Len(ks) /\ j \in 1..Len(vs) BY <1>3
  <2>2. CASE j < i
    <3>1. n.keys[j] = ks[j] /\ n.values[j] = vs[j] BY <1>1, <2>1, <2>2 DEF Spliced
    <3>2. j \in DOMAIN n.keys BY <1>3, <2>1
    <3> QED BY <3>1, <3>2
  <2>3. CASE i =< j
    <3>1. n.keys[j + 1] = ks[j] /\ n.values[j + 1] = vs[j] BY <1>1, <2>1, <2>3 DEF Spliced
    <3>2. j + 1 \in DOMAIN n.keys BY <1>3, <2>1
    <3> QED BY <3>1, <3>2
  <2> QED BY <1>3, <2>1, <2>2, <2>3
<1>6. ASSUME NEW e, HasEntry(leaf, e) PROVE HasEntry(n, e)
  <2>1. PICK j \in DOMAIN ks : e = <<ks[j], vs[j]>> BY <1>6 DEF HasEntry
  <2>2. PICK m \in DOMAIN n.keys : n.keys[m] = ks[j] /\ n.values[m] = vs[j] BY <1>5
  <2> QED BY <1>2, <2>1, <2>2 DEF HasEntry
<1> QED BY <1>4, <1>6

\* A place before the cut is in the first part, one behind it in the second.
LEMMA PartHolds ==
    ASSUME NEW t, NEW s, NEW m \in Nat, NEW n \in Nat, IsPart(t, s, m, n),
           NEW j \in m..n
    PROVE  j - m + 1 \in DOMAIN t /\ t[j - m + 1] = s[j]
<1>1. j - m + 1 \in 1..(n - m + 1) /\ m + (j - m + 1) - 1 = j OBVIOUS
<1>2. t[j - m + 1] = s[m + (j - m + 1) - 1] BY <1>1 DEF IsPart
<1> QED BY <1>1, <1>2 DEF IsPart

\* split_leaf loses no entry of the leaf.
LEMMA EntryHalved ==
    ASSUME NEW n, NEW left, NEW right, Halves(n, left, right), NEW e, HasEntry(n, e)
    PROVE  HasEntry(left, e) \/ HasEntry(right, e)
<1>1. PICK m, len \in Nat \ {0} :
          /\ m < len /\ DOMAIN n.keys = 1..len /\ DOMAIN n.values = 1..len
          /\ IsPart(left.keys, n.keys, 1, m) /\ IsPart(left.values, n.values, 1, m)
          /\ IsPart(right.keys, n.keys, m + 1, len) /\ IsPart(right.values, n.values, m + 1, len)
  BY DEF Halves
<1>2. left.kind = "leaf" /\ right.kind = "leaf" BY DEF Halves
<1>3. PICK j \in 1..len : e = <<n.keys[j], n.values[j]>> BY <1>1 DEF HasEntry
<1>4. CASE j =< m
  <2>1. 1 \in Nat /\ m \in Nat /\ j \in 1..m BY <1>1, <1>4
  <2>2. /\ j - 1 + 1 \in DOMAIN left.keys /\ left.keys[j - 1 + 1] = n.keys[j]
        /\ left.values[j - 1 + 1] = n.values[j]
    BY <1>1, <2>1, PartHolds
  <2> QED BY <1>2, <1>3, <2>2 DEF HasEntry
<1>5. CASE m < j
  <2>1. PICK a \in Nat : a = m + 1 BY <1>1
  <2>2. len \in Nat /\ j \in a..len BY <1>1, <1>5, <2>1
  <2>3. IsPart(right.keys, n.keys, a, len) /\ IsPart(right.values, n.values, a, len)
    BY <1>1, <2>1
  <2>4. j - a + 1 \in DOMAIN right.keys /\ right.keys[j - a + 1] = n.keys[j]
    BY <2>2, <2>3, PartHolds
  <2>5. right.values[j - a + 1] = n.values[j] BY <2>2, <2>3, PartHolds
  <2> QED BY <1>2, <1>3, <2>4, <2>5 DEF HasEntry
<1> QED BY <1>1, <1>3, <1>4, <1>5

\* insert_into_parent keeps the children and adds one.
LEMMA ChildAdopted ==
    ASSUME NEW n, NEW node, NEW k, NEW c, Adopts(n, node, k, c)
    PROVE  /\ HasChild(n, c)
           /\ \A d : HasChild(node, d) => HasChild(n, d)
<1>1. PICK i : Spliced(n.children, node.children, i + 1, c)
  BY DEF Adopts
<1>2. n.kind = "internal" BY DEF Adopts
<1> DEFINE s == node.children
<1>3. /\ Len(s) \in Nat /\ DOMAIN s = 1..Len(s) /\ i + 1 \in 1..(Len(s) + 1)
      /\ DOMAIN n.children = 1..(Len(s) + 1) /\ n.children[i + 1] = c
  BY <1>1 DEF Spliced
<1>4. HasChild(n, c) BY <1>2, <1>3 DEF HasChild
<1>5. ASSUME NEW j \in DOMAIN s PROVE \E m \in DOMAIN n.children : n.children[m] = s[j]
  <2>1. j \in 1..Len(s) BY <1>3
  <2>2. CASE j < i + 1
    <3>1. n.children[j] = s[j] BY <1>1, <2>1, <2>2 DEF Spliced
    <3>2. j \in DOMAIN n.children BY <1>3, <2>1
    <3> QED BY <3>1, <3>2
  <2>3. CASE i + 1 =< j
    <3>1. n.children[j + 1] = s[j] BY <1>1, <2>1, <2>3 DEF Spliced
    <3>2. j + 1 \in DOMAIN n.children BY <1>3, <2>1
    <3> QED BY <3>1, <3>2
  <2> QED BY <1>3, <2>1, <2>2, <2>3
<1>6. ASSUME NEW d, HasChild(node, d) PROVE HasChild(n, d)
  <2>1. PICK j \in DOMAIN s : s[j] = d BY <1>6 DEF HasChild
  <2>2. PICK m \in DOMAIN n.children : n.children[m] = s[j] BY <1>5
  <2> QED BY <1>2, <2>1, <2>2 DEF HasChild
<1> QED BY <1>4, <1>6

\* split_internal loses no child.
LEMMA ChildParted ==
    ASSUME NEW n, NEW left, NEW right, Parts(n, left, right), NEW c, HasChild(n, c)
    PROVE  HasChild(left, c) \/ HasChild(right, c)
<1>1. PICK m, len \in Nat \ {0} :
          /\ m + 1 < len /\ DOMAIN n.children = 1..(len + 1)
          /\ IsPart(left.children, n.children, 1, m + 1)
          /\ IsPart(right.children, n.children, m + 2, len + 1)
  BY DEF Parts
<1>2. left.kind = "internal" /\ right.kind = "internal" BY DEF Parts
<1>3. PICK j \in 1..(len + 1) : n.children[j] = c BY <1>1 DEF HasChild
<1>4. CASE j =< m + 1
  <2>1. 1 \in Nat /\ m + 1 \in Nat /\ j \in 1..(m + 1) BY <1>1, <1>4
  <2>2. j - 1 + 1 \in DOMAIN left.children /\ left.children[j - 1 + 1] = n.children[j]
    BY <1>1, <2>1, PartHolds
  <2> QED BY <1>2, <1>3, <2>2 DEF HasChild
<1>5. CASE m + 1 < j
  <2>1. m + 2 \in Nat /\ len + 1 \in Nat /\ j \in (m + 2)..(len + 1) BY <1>1, <1>5
  <2>2. /\ j - (m + 2) + 1 \in DOMAIN right.children
        /\ right.children[j - (m + 2) + 1] = n.children[j]
    BY <1>1, <2>1, PartHolds
  <2> QED BY <1>2, <1>3, <2>2 DEF HasChild
<1> QED BY <1>1, <1>3, <1>4, <1>5

\* What is found in a leaf is in it.
LEMMA FoundLeaf ==
    ASSUME NEW p, NEW e, Found(e, p), pages[p].kind = "leaf"
    PROVE  p \in DOMAIN pages /\ HasEntry(pages[p], e)
BY DEF Found, HasChild

\* What is found in an internal node is in a child of it.
LEMMA FoundChild ==
    ASSUME NEW p, NEW e, Found(e, p), pages[p].kind = "internal"
    PROVE  \E q \in DOMAIN pages : HasChild(pages[p], q) /\ HasEntry(pages[q], e)
BY DEF Found, HasEntry

\* While no page of the tree changes, nothing is lost.
LEMMA FoundStays ==
    ASSUME NEW p, p \in DOMAIN pages, NEW e, Found(e, p),
           \A q \in DOMAIN pages : q \in DOMAIN pages' /\ pages'[q] = pages[q]
    PROVE  Found(e, p)'
<1>1. PICK q \in DOMAIN pages : (q = p \/ HasChild(pages[p], q)) /\ HasEntry(pages[q], e)
  BY DEF Found
<1>2. q \in DOMAIN pages' /\ pages'[q] = pages[q] /\ pages'[p] = pages[p] OBVIOUS
<1> QED BY <1>1, <1>2 DEF Found, HasChild, HasEntry

\* A step that fails, or after a failure.
LEMMA CFailed ==
    ASSUME BInv, faults # 0 \/ Failed, faults' = faults \/ Failed
    PROVE  CInv'
<1>1. faults' # 0
  <2>1. faults \in Nat BY BTreeAssumption DEF BInv, Counted
  <2> QED BY <2>1 DEF Failed
<1> QED BY <1>1 DEF CInv

\* An insert that ends with everything in the tree.
LEMMA COver ==
    ASSUME op' = NoOp, Succeeds, CInv, faults = 0,
           \A e : Safe(e) => Safe(e)', NEW new, new = <<op.key, op.value>>, Safe(new)'
    PROVE  CInv'
<1>1. ~Rising' BY OverIs DEF Rising
<1>2. ASSUME NEW e \in entries' PROVE Safe(e)'
  <2>1. e \in entries \/ e = <<op.key, op.value>> BY <1>2 DEF Succeeds
  <2>2. CASE e \in entries
    <3>1. Safe(e) BY <2>2 DEF CInv
    <3> QED BY <3>1
  <2>3. CASE e = <<op.key, op.value>> BY <2>3
  <2> QED BY <2>1, <2>2, <2>3
<1> QED BY <1>1, <1>2 DEF CInv

\* BTree::new.
LEMMA CInit == ASSUME Init PROVE CInv
BY OverIs DEF Init, CInv, Rising

\* The engine's data page is added.
LEMMA CInsert ==
    ASSUME BInv, CInv, NEW k \in Key, Insert(k)
    PROVE  CInv'
<1>1. /\ op = NoOp /\ pages' = Append(pages, Data) /\ root' = root /\ faults' = faults
      /\ entries' = entries /\ garbled' = garbled
      /\ op' = [at |-> "descend", key |-> k, value |-> NewPage, page |-> root]
  BY DEF Insert
<1>2. /\ Filed /\ pages \in Seq(PageSet) /\ Len(pages) \in Nat
      /\ DOMAIN pages = 1..Len(pages) /\ root \in DOMAIN pages
  BY FiledIs DEF BInv, Filed
<1>3. /\ pages' \in Seq(PageSet) /\ Len(pages') = Len(pages) + 1
      /\ \A q \in 1..Len(pages) : pages'[q] = pages[q]
  BY <1>1, <1>2, DataMade, AppendProperties
<1>4. DOMAIN pages' = 1..(Len(pages) + 1) BY <1>3, LenProperties
<1>5. \A q \in DOMAIN pages : q \in DOMAIN pages' /\ pages'[q] = pages[q]
  BY <1>2, <1>3, <1>4
<1>6. ~Rising BY <1>1, OverIs DEF Rising
<1>7. op'.at = "descend" BY <1>1
<1>8. ~Rising' BY <1>7 DEF Rising
<1>9. ASSUME NEW e, Safe(e) PROVE Safe(e)'
  <2>1. e \in garbled \/ Found(e, root) BY <1>6, <1>9 DEF Safe
  <2>2. ASSUME Found(e, root) PROVE Found(e, root)'
    <3>1. PICK p : p = root OBVIOUS
    <3>2. Found(e, p)' BY <1>2, <1>5, <2>2, <3>1, FoundStays
    <3>3. p = root' BY <1>1, <3>1
    <3> QED BY <3>2, <3>3 DEF Found
  <2> QED BY <1>1, <2>1, <2>2 DEF Safe
<1> QED BY <1>1, <1>8, <1>9 DEF CInv

\* find_leaf and the search for a parent change no page.
LEMMA CUnmoved ==
    ASSUME CInv, UNCHANGED <<pages, root, faults, entries, garbled>>,
           Rising' => Rising /\ op'.right = op.right /\ op'.key = op.key /\ op'.value = op.value,
           Rising => Rising'
    PROVE  CInv'
<1>1. /\ pages' = pages /\ root' = root /\ faults' = faults /\ entries' = entries
      /\ garbled' = garbled
  OBVIOUS
<1>2. ASSUME NEW e, Safe(e) PROVE Safe(e)'
  <2>1. Found(e, root) => Found(e, root)' BY <1>1 DEF Found, HasChild, HasEntry
  <2>2. Rising /\ Found(e, op.right) => Rising' /\ Found(e, op.right)'
    BY <1>1 DEF Found, HasChild, HasEntry
  <2> QED BY <1>1, <1>2, <2>1, <2>2 DEF Safe
<1>3. ASSUME faults' = 0, Rising' PROVE Safe(<<op.key, op.value>>)'
  <2>1. PICK e : e = <<op.key, op.value>> OBVIOUS
  <2>2. Safe(e) BY <1>1, <1>3, <2>1 DEF CInv
  <2>3. Safe(e)' BY <1>2, <2>2
  <2>4. e = <<op'.key, op'.value>> BY <1>3, <2>1
  <2> QED BY <2>3, <2>4 DEF Safe, Found
<1> QED BY <1>1, <1>2, <1>3 DEF CInv

\* find_leaf.
LEMMA CDescend ==
    ASSUME BInv, CInv, Descend
    PROVE  CInv'
<1>1. op.at = "descend" /\ UNCHANGED <<pages, root, faults, entries, garbled>> BY DEF Descend
<1>2. ~Rising BY <1>1 DEF Rising
<1>3. op'.at \in {"descend", "leaf", "idle"}
  <2>1. /\ op = [at |-> op.at, key |-> op.key, value |-> op.value, page |-> op.page]
    BY <1>1, DownIs
  <2>2. PICK c : \/ op' = [op EXCEPT !.page = c]
                 \/ op' = [op EXCEPT !.at = "leaf"]
                 \/ op' = NoOp
    BY DEF Descend
  <2>3. CASE op' = [op EXCEPT !.page = c] BY <1>1, <2>1, <2>3
  <2>4. CASE op' = [op EXCEPT !.at = "leaf"] BY <2>1, <2>4
  <2>5. CASE op' = NoOp BY <2>5 DEF NoOp
  <2> QED BY <2>2, <2>3, <2>4, <2>5
<1>4. ~Rising' BY <1>3 DEF Rising
<1> QED BY <1>1, <1>2, <1>4, CUnmoved

\* insert_into_parent finds no parent.
LEMMA CNoParent ==
    ASSUME BInv, CInv, NoParent
    PROVE  CInv'
<1>1. /\ op.at = "parent" /\ UNCHANGED <<pages, root, faults, entries, garbled>>
      /\ op' = [op EXCEPT !.at = "new_root"]
  BY DEF NoParent
<1>2. op = [at |-> op.at, key |-> op.key, value |-> op.value,
            left |-> op.left, sep |-> op.sep, right |-> op.right]
  BY <1>1, UpIs
<1>3. /\ op'.at = "new_root" /\ op'.right = op.right /\ op'.key = op.key
      /\ op'.value = op.value
  BY <1>1, <1>2
<1> QED BY <1>1, <1>3, CUnmoved DEF Rising

\* The leaf of the insert is written over, with its entries at least in it or in
\* the page `other': what was found from the root still is, in one or the other.
LEMMA LeafKeeps ==
    ASSUME BInv, TInv, op.at = "leaf", root' = root, NEW left, pages'[op.page] = left,
           left.kind = "leaf", NEW e, Found(e, root),
           NEW other, HasEntry(pages[op.page], e) => HasEntry(left, e) \/ other,
           \A q \in DOMAIN pages : q \in DOMAIN pages' /\ (q # op.page => pages'[q] = pages[q])
    PROVE  Found(e, root)' \/ other
<1>1. /\ Filed /\ op.page \in DOMAIN pages /\ pages[op.page].kind = "leaf" BY AtLeaf
<1>2. root \in DOMAIN pages BY <1>1 DEF Filed
<1>3. CASE op.page = root
  <2>1. HasEntry(pages[root], e) BY <1>1, <1>3, FoundLeaf
  <2>2. CASE HasEntry(left, e)
    <3>1. pages'[root'] = left /\ root' \in DOMAIN pages' BY <1>2, <1>3
    <3> QED BY <2>2, <3>1 DEF Found, HasEntry
  <2> QED BY <1>3, <2>1, <2>2
<1>4. CASE op.page # root
  <2>1. pages'[root'] = pages[root] BY <1>2, <1>4
  <2>2. RootTree BY <1>4, LeafReached
  <2>3. PICK q \in DOMAIN pages : HasChild(pages[root], q) /\ HasEntry(pages[q], e)
    BY <2>2, FoundChild DEF RootTree
  <2>4. q \in DOMAIN pages' /\ HasChild(pages'[root'], q) BY <2>1, <2>3
  <2>5. HasEntry(pages'[q], e) \/ other
    <3>1. CASE q = op.page BY <2>3, <3>1
    <3>2. CASE q # op.page
      <4>1. pages'[q] = pages[q] BY <3>2
      <4> QED BY <2>3, <4>1
    <3> QED BY <3>1, <3>2
  <2> QED BY <2>4, <2>5 DEF Found, HasChild, HasEntry
<1> QED BY <1>3, <1>4

\* An entry in the leaf of the insert is found.
LEMMA LeafHolds ==
    ASSUME BInv, TInv, op.at = "leaf", root' = root, NEW left, pages'[op.page] = left,
           NEW e, HasEntry(left, e),
           \A q \in DOMAIN pages : q \in DOMAIN pages' /\ (q # op.page => pages'[q] = pages[q])
    PROVE  Found(e, root)'
<1>1. /\ Filed /\ op.page \in DOMAIN pages /\ op.key \in Int BY AtLeaf
<1>2. root \in DOMAIN pages /\ op.page \in DOMAIN pages' BY <1>1 DEF Filed
<1>3. CASE op.page = root BY <1>2, <1>3 DEF Found, HasEntry
<1>4. CASE op.page # root
  <2>1. pages'[root'] = pages[root] BY <1>2, <1>4
  <2>2. Taken(op.page) BY <1>4, LeafReached
  <2>3. HasChild(pages[root], op.page) BY <1>1, <2>2, TakenIs DEF Taken, HasChild
  <2>4. PICK q : q = op.page OBVIOUS
  <2>5. q \in DOMAIN pages' /\ HasEntry(pages'[q], e) /\ HasChild(pages'[root'], q)
    BY <1>2, <2>1, <2>3, <2>4
  <2> QED BY <2>5 DEF Found, HasEntry, HasChild
<1> QED BY <1>3, <1>4

\* The places of a leaf's keys are those of its values.
LEMMA LeafPlaces ==
    ASSUME NEW leaf \in PageSet, leaf.kind = "leaf"
    PROVE  DOMAIN leaf.keys = DOMAIN leaf.values
<1>1. /\ leaf.keys \in Seq(Int) /\ leaf.values \in Seq(Int)
      /\ Len(leaf.keys) = Len(leaf.values)
  BY PageIs
<1> QED BY <1>1, LenProperties

\* insert into a leaf.
LEMMA CLeaf ==
    ASSUME BInv, TInv, CInv, InsertIntoLeaf
    PROVE  CInv'
<1>1. op.at = "leaf" /\ root' = root /\ garbled' = garbled /\ Succeeds BY DEF InsertIntoLeaf
<1>2. /\ Filed /\ op.page \in DOMAIN pages /\ op # NoOp
      /\ pages[op.page] \in PageSet /\ pages[op.page].kind = "leaf"
  BY <1>1, AtLeaf
<1>3. PICK old, k, v : old = pages[op.page] /\ k = op.key /\ v = op.value OBVIOUS
<1>4. PICK n : /\ Enters(n, old, k, v)
               /\ \/ Writes(op.page, n) /\ op' = NoOp /\ faults' = faults
                  \/ Failed
  BY <1>3, LeafWrites DEF Ends
<1>5. CASE faults # 0 \/ Failed BY <1>4, <1>5, CFailed
<1>6. CASE faults = 0 /\ Writes(op.page, n) /\ op' = NoOp /\ faults' = faults
  <2>1. /\ HasEntry(n, <<k, v>>) /\ \A e : HasEntry(old, e) => HasEntry(n, e)
    <3>1. old.kind = "leaf" /\ DOMAIN old.keys = DOMAIN old.values
      BY <1>2, <1>3, LeafPlaces
    <3> QED BY <1>4, <3>1, EntryEntered
  <2>2. /\ pages'[op.page] = n
        /\ \A q \in DOMAIN pages : q \in DOMAIN pages' /\ (q # op.page => pages'[q] = pages[q])
    BY <1>6 DEF Writes
  <2>3. n.kind = "leaf" BY <1>4 DEF Enters
  <2>4. ~Rising BY <1>1 DEF Rising
  <2>5. ASSUME NEW e, Safe(e) PROVE Safe(e)'
    <3>1. e \in garbled \/ Found(e, root) BY <2>4, <2>5 DEF Safe
    <3>2. ASSUME Found(e, root) PROVE Found(e, root)' \/ FALSE
      <4>1. HasEntry(pages[op.page], e) => HasEntry(n, e) \/ FALSE BY <1>3, <2>1
      <4> QED BY <1>1, <2>2, <2>3, <3>2, <4>1, LeafKeeps
    <3> QED BY <1>1, <3>1, <3>2 DEF Safe
  <2>6. PICK new : new = <<k, v>> OBVIOUS
  <2>7. Safe(new)'
    <3>1. HasEntry(n, new) BY <2>1, <2>6
    <3>2. Found(new, root)' BY <1>1, <2>2, <3>1, LeafHolds
    <3> QED BY <3>2 DEF Safe
  <2> QED BY <1>1, <1>3, <1>6, <2>5, <2>6, <2>7, COver
<1> QED BY <1>4, <1>5, <1>6

\* split_leaf.
LEMMA CSplitLeaf ==
    ASSUME BInv, TInv, CInv, SplitLeaf
    PROVE  CInv'
<1>1. op.at = "leaf" /\ root' = root /\ garbled' = garbled /\ entries' = entries
  BY DEF SplitLeaf
<1>2. /\ Filed /\ op.page \in DOMAIN pages /\ op # NoOp
      /\ pages[op.page] \in PageSet /\ pages[op.page].kind = "leaf"
  BY <1>1, AtLeaf
<1>3. PICK old, k, v : old = pages[op.page] /\ k = op.key /\ v = op.value OBVIOUS
<1>4. PICK n, left, right :
              /\ Enters(n, old, k, v)
              /\ Halves(n, left, right)
              /\ \/ /\ Splits(op.page, left, right) /\ faults' = faults
                    /\ op' = [at |-> "parent", key |-> k, value |-> v,
                              left |-> op.page, sep |-> right.keys[1], right |-> NewPage]
                 \/ Failed
  BY <1>3, SplitLeafWrites
<1>5. CASE faults # 0 \/ Failed BY <1>4, <1>5, CFailed
<1>6. CASE /\ faults = 0 /\ Splits(op.page, left, right) /\ faults' = faults
           /\ op' = [at |-> "parent", key |-> k, value |-> v,
                     left |-> op.page, sep |-> right.keys[1], right |-> NewPage]
  <2>1. /\ HasEntry(n, <<k, v>>) /\ \A e : HasEntry(old, e) => HasEntry(n, e)
    <3>1. old.kind = "leaf" /\ DOMAIN old.keys = DOMAIN old.values
      BY <1>2, <1>3, LeafPlaces
    <3> QED BY <1>4, <3>1, EntryEntered
  <2>2. \A e : HasEntry(n, e) => HasEntry(left, e) \/ HasEntry(right, e)
    BY <1>4, EntryHalved
  <2>3. /\ pages'[op.page] = left /\ pages'[NewPage] = right /\ NewPage \in DOMAIN pages'
        /\ \A q \in DOMAIN pages : q \in DOMAIN pages' /\ (q # op.page => pages'[q] = pages[q])
    BY <1>6 DEF Splits
  <2>4. left.kind = "leaf" BY <1>4 DEF Halves
  <2>5. op'.at = "parent" /\ op'.key = k /\ op'.value = v /\ op'.right = NewPage BY <1>6
  <2>6. ~Rising /\ Rising' BY <1>1, <2>5 DEF Rising
  <2>7. ASSUME NEW e, HasEntry(right, e) PROVE Safe(e)'
    <3>1. op'.right \in DOMAIN pages' /\ pages'[op'.right] = right BY <2>3, <2>5
    <3>2. Found(e, op.right)' BY <2>7, <3>1 DEF Found, HasEntry
    <3> QED BY <2>6, <3>2 DEF Safe
  <2>8. ASSUME NEW e, Safe(e) PROVE Safe(e)'
    <3>1. e \in garbled \/ Found(e, root) BY <2>6, <2>8 DEF Safe
    <3>2. ASSUME Found(e, root) PROVE Found(e, root)' \/ HasEntry(right, e)
      <4>1. HasEntry(pages[op.page], e) => HasEntry(left, e) \/ HasEntry(right, e)
        BY <1>3, <2>1, <2>2
      <4>2. PICK other : other = HasEntry(right, e) OBVIOUS
      <4> QED BY <1>1, <2>3, <2>4, <3>2, <4>1, <4>2, LeafKeeps
    <3> QED BY <1>1, <2>7, <3>1, <3>2 DEF Safe
  <2>9. PICK new : new = <<k, v>> OBVIOUS
  <2>10. Safe(new)'
    <3>1. HasEntry(left, new) \/ HasEntry(right, new) BY <2>1, <2>2, <2>9
    <3>2. CASE HasEntry(left, new)
      <4>1. Found(new, root)' BY <1>1, <2>3, <3>2, LeafHolds
      <4> QED BY <4>1 DEF Safe
    <3> QED BY <2>7, <3>1, <3>2
  <2>11. Safe(<<op.key, op.value>>)'
    <3>1. new = <<op'.key, op'.value>> BY <2>5, <2>9
    <3> QED BY <2>10, <3>1 DEF Safe, Found
  <2> QED BY <1>1, <1>6, <2>8, <2>11 DEF CInv
<1> QED BY <1>4, <1>5, <1>6

\* With a leaf behind the root split, every entry is in a child of the root or in
\* the leaf that was split off.
LEMMA SafeBehindRoot ==
    ASSUME BInv, TInv, op.at = "parent", BelowRoot, NEW e, Safe(e)
    PROVE  \/ e \in garbled
           \/ \E q \in DOMAIN pages : /\ HasChild(pages[root], q) \/ q = op.right
                                      /\ HasEntry(pages[q], e) /\ q # root
<1>1. pages[root].kind = "internal" /\ pages[op.right].kind = "leaf"
  BY DEF BelowRoot, RootTree
<1>2. CASE Found(e, root)
  <2>1. PICK q \in DOMAIN pages : HasChild(pages[root], q) /\ HasEntry(pages[q], e)
    BY <1>1, <1>2, FoundChild
  <2>2. q # root BY <1>1, <2>1 DEF HasEntry
  <2> QED BY <2>1, <2>2
<1>3. CASE Found(e, op.right)
  <2>1. op.right \in DOMAIN pages /\ HasEntry(pages[op.right], e) BY <1>1, <1>3, FoundLeaf
  <2>2. op.right # root BY <1>1
  <2> QED BY <2>1, <2>2
<1> QED BY <1>2, <1>3 DEF Safe

\* insert_into_parent.
LEMMA CParent ==
    ASSUME BInv, TInv, CInv, ~Misread, InsertIntoParent
    PROVE  CInv'
<1>1. op.at = "parent" /\ root' = root /\ garbled' = garbled /\ Succeeds
  BY DEF InsertIntoParent
<1>2. CASE faults # 0
  <2>1. faults' = faults \/ Failed BY ParentWrites DEF Ends
  <2> QED BY <1>2, <2>1, CFailed
<1> SUFFICES ASSUME faults = 0 PROVE CInv' BY <1>2
<1>3. BelowRoot /\ pages[op.left].parent = root BY TParent
<1>4. PICK n : /\ Adopts(n, pages[root], op.sep, op.right)
               /\ \/ Writes(root, n) /\ op' = NoOp /\ faults' = faults
                  \/ Failed
  BY <1>3, ParentWrites DEF Ends
<1>5. CASE Writes(root, n) /\ op' = NoOp /\ faults' = faults
  <2>1. PICK node, c : node = pages[root] /\ c = op.right OBVIOUS
  <2>2. HasChild(n, c) /\ \A d : HasChild(node, d) => HasChild(n, d)
    <3>1. PICK s : s = op.sep OBVIOUS
    <3>2. Adopts(n, node, s, c) BY <1>4, <2>1, <3>1
    <3> QED BY <3>2, ChildAdopted
  <2>3. /\ pages'[root'] = n
        /\ \A q \in DOMAIN pages : q \in DOMAIN pages' /\ (q # root => pages'[q] = pages[q])
    BY <1>1, <1>5 DEF Writes
  <2>4. ASSUME NEW e, Safe(e) PROVE Safe(e)'
    <3>1. CASE e \in garbled BY <1>1, <3>1 DEF Safe
    <3>2. CASE e \notin garbled
      <4>1. PICK q \in DOMAIN pages : /\ HasChild(pages[root], q) \/ q = op.right
                                      /\ HasEntry(pages[q], e) /\ q # root
        BY <1>1, <1>3, <2>4, <3>2, SafeBehindRoot
      <4>2. HasChild(n, q) BY <2>1, <2>2, <4>1
      <4>3. q \in DOMAIN pages' /\ HasEntry(pages'[q], e) /\ HasChild(pages'[root'], q)
        BY <2>3, <4>1, <4>2
      <4>4. Found(e, root)' BY <4>3 DEF Found, HasChild, HasEntry
      <4> QED BY <4>4 DEF Safe
    <3> QED BY <3>1, <3>2
  <2>5. PICK new : new = <<op.key, op.value>> OBVIOUS
  <2>6. Safe(new) BY <1>1, <1>5, <2>5 DEF CInv, Rising
  <2>7. Safe(new)' BY <2>4, <2>6
  <2> QED BY <1>1, <1>5, <2>4, <2>5, <2>7, COver
<1>6. CASE Failed BY <1>6, CFailed
<1> QED BY <1>4, <1>5, <1>6

\* split_internal.
LEMMA CSplitInternal ==
    ASSUME BInv, TInv, CInv, ~Misread, SplitInternal
    PROVE  CInv'
<1>1. op.at = "parent" /\ root' = root /\ garbled' = garbled /\ entries' = entries
  BY DEF SplitInternal
<1>2. CASE faults # 0
  <2>1. faults' = faults \/ Failed BY SplitInternalWrites
  <2> QED BY <1>2, <2>1, CFailed
<1> SUFFICES ASSUME faults = 0 PROVE CInv' BY <1>2
<1>3. BelowRoot /\ pages[op.left].parent = root BY TSplitInternal
<1>4. PICK n, left, right, sep :
            /\ Adopts(n, pages[root], op.sep, op.right)
            /\ Parts(n, left, right)
            /\ \/ /\ Splits(root, left, right) /\ faults' = faults
                  /\ op' = [at |-> "parent", key |-> op.key, value |-> op.value,
                            left |-> root, sep |-> sep, right |-> NewPage]
               \/ Failed
  BY <1>3, SplitInternalWrites
<1>5. CASE /\ Splits(root, left, right) /\ faults' = faults
           /\ op' = [at |-> "parent", key |-> op.key, value |-> op.value,
                     left |-> root, sep |-> sep, right |-> NewPage]
  <2>1. PICK node, c : node = pages[root] /\ c = op.right OBVIOUS
  <2>2. HasChild(n, c) /\ \A d : HasChild(node, d) => HasChild(n, d)
    <3>1. PICK s : s = op.sep OBVIOUS
    <3>2. Adopts(n, node, s, c) BY <1>4, <2>1, <3>1
    <3> QED BY <3>2, ChildAdopted
  <2>3. \A d : HasChild(n, d) => HasChild(left, d) \/ HasChild(right, d)
    BY <1>4, ChildParted
  <2>4. /\ op'.at = "parent" /\ op'.key = op.key /\ op'.value = op.value /\ op'.right = NewPage
    BY <1>5
  <2>5. /\ pages'[root'] = left /\ pages'[op'.right] = right
        /\ \A q \in DOMAIN pages : q \in DOMAIN pages' /\ (q # root => pages'[q] = pages[q])
    BY <1>1, <1>5, <2>4 DEF Splits
  <2>6. Rising /\ Rising' BY <1>1, <2>4 DEF Rising
  <2>7. ASSUME NEW e, Safe(e) PROVE Safe(e)'
    <3>1. CASE e \in garbled BY <1>1, <3>1 DEF Safe
    <3>2. CASE e \notin garbled
      <4>1. PICK q \in DOMAIN pages : /\ HasChild(pages[root], q) \/ q = op.right
                                      /\ HasEntry(pages[q], e) /\ q # root
        BY <1>1, <1>3, <2>7, <3>2, SafeBehindRoot
      <4>2. HasChild(left, q) \/ HasChild(right, q) BY <2>1, <2>2, <2>3, <4>1
      <4>3. /\ q \in DOMAIN pages' /\ HasEntry(pages'[q], e)
            /\ HasChild(pages'[root'], q) \/ HasChild(pages'[op'.right], q)
        BY <2>5, <4>1, <4>2
      <4>4. Found(e, root)' \/ Found(e, op.right)' BY <4>3 DEF Found, HasChild, HasEntry
      <4> QED BY <2>6, <4>4 DEF Safe
    <3> QED BY <3>1, <3>2
  <2>8. PICK new : new = <<op.key, op.value>> OBVIOUS
  <2>9. Safe(new) BY <1>5, <2>6, <2>8 DEF CInv
  <2>10. Safe(new)' BY <2>7, <2>9
  <2>11. Safe(<<op.key, op.value>>)'
    <3>1. new = <<op'.key, op'.value>> BY <2>4, <2>8
    <3> QED BY <2>10, <3>1 DEF Safe, Found
  <2> QED BY <1>1, <1>5, <2>7, <2>11 DEF CInv
<1>6. CASE Failed BY <1>6, CFailed
<1> QED BY <1>4, <1>5, <1>6

\* A leaf with a next pointer keeps its entries when it gets a parent; every other
\* node without parent is misaligned.
LEMMA ParentKeeps ==
    ASSUME NEW node, node.kind = "leaf", node.parent = None, node.next # None,
           NEW p, NEW n \in WriteParent(node, p)
    PROVE  n = Leaf(p, None, node.keys, node.values)
BY DEF WriteParent, IsLeaf

\* What is found from a half of the old root is found from the new root, or was
\* on a misaligned page.
LEMMA HalfKept ==
    ASSUME BInv, NewRoot, NEW a, a \in {op.left, op.right}, a \in DOMAIN pages,
           pages[a].parent = None,
           NEW new \in Nat, NEW l \in WriteParent(pages[a], new), l.parent = new,
           pages'[a] = l, a \in DOMAIN pages', HasChild(pages'[root'], a),
           NEW e, Found(e, a)
    PROVE  Safe(e)'
<1>1. PICK node : node = pages[a] OBVIOUS
<1>2. Read(a) = node /\ node.parent = None BY <1>1 DEF Read
<1>3. CASE node.kind = "leaf" /\ node.next # None
  <2>1. l = Leaf(new, None, node.keys, node.values) BY <1>1, <1>2, <1>3, ParentKeeps
  <2>2. l.kind = "leaf" /\ l.keys = node.keys /\ l.values = node.values BY <2>1 DEF Leaf
  <2>3. HasEntry(node, e) BY <1>1, <1>3, FoundLeaf
  <2>4. HasEntry(pages'[a], e) BY <2>2, <2>3 DEF HasEntry
  <2>5. Found(e, root)' BY <2>4 DEF Found, HasChild, HasEntry
  <2> QED BY <2>5 DEF Safe
<1>4. CASE ~(node.kind = "leaf" /\ node.next # None)
  <2>1. Misaligns(Read(a)) BY <1>2, <1>4 DEF Misaligns, IsLeaf
  <2>2. pages'[a] # pages[a]
    <3>1. new # None BY BTreeAssumption
    <3> QED BY <3>1
  <2>3. garbled' = garbled \cup
          UNION {AllBelow(p) : p \in {q \in {op.left, op.right} :
                    Misaligns(Read(q)) /\ pages'[q] # pages[q]}}
    BY DEF NewRoot
  <2>4. e \in AllBelow(a) BY FoundBelow DEF BInv
  <2>5. a \in {q \in {op.left, op.right} : Misaligns(Read(q)) /\ pages'[q] # pages[q]}
    BY <2>1, <2>2
  <2>6. e \in garbled'
    <3> DEFINE Q == {q \in {op.left, op.right} : Misaligns(Read(q)) /\ pages'[q] # pages[q]}
    <3>1. a \in Q BY <2>5
    <3>2. garbled' = garbled \cup UNION {AllBelow(p) : p \in Q} BY <2>3
    <3> HIDE DEF Q
    <3> QED BY <2>4, <3>1, <3>2
  <2> QED BY <2>6 DEF Safe
<1> QED BY <1>3, <1>4

\* new_root.
LEMMA CNewRoot ==
    ASSUME BInv, TInv, CInv, ~Misread, ~Misread', NewRoot
    PROVE  CInv'
<1>0. CASE faults # 0
  <2>1. faults' = faults \/ Failed BY NewRootWrites
  <2> QED BY <1>0, <2>1, CFailed
<1> SUFFICES ASSUME faults = 0 PROVE CInv' BY <1>0
<1>1. op.at = "new_root" /\ Succeeds BY DEF NewRoot
<1>2. /\ Ascending /\ op # NoOp /\ Filed BY <1>1, UpIs DEF BInv
<1>3. PICK a, b : a = op.left /\ b = op.right OBVIOUS
<1>4. /\ a \in DOMAIN pages /\ b \in DOMAIN pages /\ a # b
      /\ pages[a].kind \in {"leaf", "internal"} /\ pages[b].kind \in {"leaf", "internal"}
      /\ pages[a].parent = None /\ pages[b].parent = None
  BY <1>1, <1>2, <1>3 DEF Ascending
<1>5. a = root BY <1>3, TNewRoot DEF AtRoot, BesideRoot
<1>6. /\ pages[a] \in PageSet /\ pages[b] \in PageSet /\ NewPage \in Nat
      /\ NewPage \notin DOMAIN pages
  BY <1>2, <1>4, FiledIs
<1>7. PICK new \in Nat : new = NewPage BY <1>6
<1>8. PICK l \in WriteParent(pages[a], new), r \in WriteParent(pages[b], new) :
                 \/ /\ WritesBoth(a, l, b, r)
                    /\ DOMAIN pages' = DOMAIN pages \cup {new}
                    /\ pages'[new] = Internal(None, <<op.sep>>, <<a, b>>)
                    /\ op' = NoOp /\ faults' = faults /\ root' = new
                 \/ Failed
  BY <1>3, <1>7, NewRootWrites DEF WritesRoot
<1>9. Adopted(pages[a], new, l) /\ Adopted(pages[b], new, r)
  BY <1>4, <1>6, <1>7, <1>8, ParentWritten
<1>10. l.parent = new /\ r.parent = new BY <1>9 DEF Adopted
<1>11. CASE Failed BY <1>11, CFailed
<1>12. CASE /\ WritesBoth(a, l, b, r)
            /\ DOMAIN pages' = DOMAIN pages \cup {new}
            /\ pages'[new] = Internal(None, <<op.sep>>, <<a, b>>)
            /\ op' = NoOp /\ faults' = faults /\ root' = new
  <2>1. PICK top : top = pages'[root'] OBVIOUS
  <2>2. top.kind = "internal" /\ top.children = <<a, b>> BY <1>12, <2>1 DEF Internal
  <2>3. DOMAIN top.children = {1, 2} /\ top.children[1] = a /\ top.children[2] = b BY <2>2
  <2>4. HasChild(pages'[root'], a) /\ HasChild(pages'[root'], b)
    BY <2>1, <2>2, <2>3 DEF HasChild
  <2>5. pages'[a] = l /\ pages'[b] = r /\ a \in DOMAIN pages' /\ b \in DOMAIN pages'
    BY <1>4, <1>12 DEF WritesBoth
  <2>6. ASSUME NEW e, Safe(e) PROVE Safe(e)'
    <3>1. CASE e \in garbled
      <4>1. e \in garbled' BY <3>1 DEF NewRoot
      <4> QED BY <4>1 DEF Safe
    <3>2. CASE Found(e, a)
      BY <1>3, <1>4, <1>8, <1>10, <2>4, <2>5, <3>2, HalfKept
    <3>3. CASE Found(e, b)
      BY <1>3, <1>4, <1>8, <1>10, <2>4, <2>5, <3>3, HalfKept
    <3> QED BY <1>3, <1>5, <2>6, <3>1, <3>2, <3>3 DEF Safe
  <2>7. PICK en : en = <<op.key, op.value>> OBVIOUS
  <2>8. Safe(en) BY <1>1, <1>12, <2>7 DEF CInv, Rising
  <2>9. Safe(en)' BY <2>6, <2>8
  <2> QED BY <1>1, <1>12, <2>6, <2>7, <2>9, COver
<1> QED BY <1>8, <1>11, <1>12

\* While no write fails, split_leaf, split_internal and new_root lose no entry but
\* those on pages that write_parent misaligned, until an internal node is misread.
THEOREM EntriesInvariance == Spec => [](~Misread => CInv)
<1>1. Init => CInv BY CInit
<1>2. ASSUME BInv, TInv, CInv, ~Misread, ~Misread', [Next]_vars PROVE CInv'
  <2>1. ASSUME NEW k \in Key, Insert(k) PROVE CInv' BY <1>2, <2>1, CInsert
  <2>2. CASE Descend BY <1>2, <2>2, CDescend
  <2>3. CASE InsertIntoLeaf BY <1>2, <2>3, CLeaf
  <2>4. CASE SplitLeaf BY <1>2, <2>4, CSplitLeaf
  <2>5. CASE NoParent BY <1>2, <2>5, CNoParent
  <2>6. CASE BadParent
    <3>1. faults # 0 BY <1>2, <2>6, TBadParent
    <3>2. faults' = faults BY <2>6 DEF BadParent
    <3> QED BY <1>2, <3>1, <3>2, CFailed
  <2>7. CASE InsertIntoParent BY <1>2, <2>7, CParent
  <2>8. CASE SplitInternal BY <1>2, <2>8, CSplitInternal
  <2>9. CASE NewRoot BY <1>2, <2>9, CNewRoot
  <2>10. CASE UNCHANGED vars
    <3>1. /\ UNCHANGED <<pages, root, faults, entries, garbled>> /\ op' = op BY <2>10 DEF vars
    <3> QED BY <1>2, <3>1, CUnmoved DEF Rising
  <2> QED BY <1>2, <2>1, <2>2, <2>3, <2>4, <2>5, <2>6, <2>7, <2>8, <2>9, <2>10 DEF Next
<1>3. BInv /\ (~Misread => TInv) /\ (~Misread => CInv) /\ [Next]_vars => (~Misread => CInv)'
  BY <1>2, MisreadStays
<1> QED BY <1>1, <1>3, Invariance, ShapeInvariance, PTL DEF Spec

\* An entry whose insert returned Ok stays in a leaf of the tree while no write
\* fails and no internal node is misread, unless set_parent misaligned its page.
THEOREM EntriesKeptCorrect == Spec => []EntriesKept
<1>1. BInv /\ (~Misread => CInv) => EntriesKept
  <2> SUFFICES ASSUME BInv, CInv, op = NoOp, faults = 0, NEW e \in entries
               PROVE  e \in garbled \cup AllBelow(root)
    BY DEF EntriesKept
  <2>1. ~Rising BY OverIs DEF Rising
  <2>2. e \in garbled \/ Found(e, root) BY <2>1 DEF CInv, Safe
  <2>3. Filed /\ root \in DOMAIN pages BY DEF BInv, Filed
  <2> QED BY <2>2, <2>3, FoundBelow
<1> QED BY <1>1, Invariance, EntriesInvariance, PTL

------------------------------------------------------------------------------
(* The order of the keys.  A misread key, or a separator that is already   *)
(* there, may put a new leaf behind others than the one it was split from; *)
(* up to the first such separator the leaves are between their separators. *)

\* The first i separators are keys that were inserted, each greater than the last.
Clean(ks, i) ==
    \A m \in DOMAIN ks : m =< i =>
        ks[m] \in Key /\ \A j \in DOMAIN ks : j < m => ks[j] < ks[m]

\* k may be in the i-th child of a node with the separators ks.
Bounded(ks, i, k) ==
    /\ i - 1 \in DOMAIN ks => ks[i - 1] =< k
    /\ i \in DOMAIN ks /\ Clean(ks, i) => k =< ks[i]

\* The separators with one put in at its place.
Grown(nk, ks, sep, pos) ==
    /\ ks \in Seq(Int) /\ Sorted(ks) /\ sep \in Int
    /\ PlaceOf(ks, sep, pos) /\ Spliced(nk, ks, pos, sep)

\* What that says of the places.
LEMMA GrownIs ==
    ASSUME NEW nk, NEW ks, NEW sep, NEW pos, Grown(nk, ks, sep, pos)
    PROVE  /\ Len(ks) \in Nat /\ DOMAIN ks = 1..Len(ks) /\ DOMAIN nk = 1..(Len(ks) + 1)
           /\ pos \in 1..(Len(ks) + 1) /\ nk[pos] = sep /\ sep \in Int
           /\ \A j \in 1..Len(ks) : /\ ks[j] \in Int
                                    /\ j < pos => nk[j] = ks[j] /\ ks[j] =< sep
                                    /\ pos =< j => nk[j + 1] = ks[j]
           /\ pos =< Len(ks) => sep < ks[pos]
<1>1. /\ ks \in Seq(Int) /\ sep \in Int /\ PlaceOf(ks, sep, pos) /\ Spliced(nk, ks, pos, sep)
  BY DEF Grown
<1>2. Len(ks) \in Nat /\ DOMAIN ks = 1..Len(ks) /\ \A j \in 1..Len(ks) : ks[j] \in Int
  BY <1>1, LenProperties
<1> QED BY <1>1, <1>2 DEF PlaceOf, Spliced

\* The separators before the new one are clean if they were.
LEMMA CleanBefore ==
    ASSUME NEW nk, NEW ks, NEW sep, NEW pos, Grown(nk, ks, sep, pos),
           NEW i \in Int, i < pos, Clean(nk, i)
    PROVE  Clean(ks, i)
<1>1. /\ Len(ks) \in Nat /\ DOMAIN ks = 1..Len(ks) /\ DOMAIN nk = 1..(Len(ks) + 1)
      /\ pos \in 1..(Len(ks) + 1)
      /\ \A j \in 1..Len(ks) : j < pos => nk[j] = ks[j]
  BY GrownIs
<1>2. ASSUME NEW m \in DOMAIN ks, m =< i
      PROVE  ks[m] \in Key /\ \A j \in DOMAIN ks : j < m => ks[j] < ks[m]
  <2>1. m < pos /\ nk[m] = ks[m] /\ m \in DOMAIN nk BY <1>1, <1>2
  <2>2. nk[m] \in Key BY <1>2, <2>1 DEF Clean
  <2>3. ASSUME NEW j \in DOMAIN ks, j < m PROVE ks[j] < ks[m]
    <3>1. j < pos /\ nk[j] = ks[j] /\ j \in DOMAIN nk BY <1>1, <2>1, <2>3
    <3>2. nk[j] < nk[m] BY <1>2, <2>1, <2>3, <3>1 DEF Clean
    <3> QED BY <2>1, <3>1, <3>2
  <2> QED BY <2>1, <2>2, <2>3
<1> QED BY <1>2 DEF Clean

\* So are those behind it.
LEMMA CleanBehind ==
    ASSUME NEW nk, NEW ks, NEW sep, NEW pos, Grown(nk, ks, sep, pos),
           NEW i \in Int, pos < i, Clean(nk, i)
    PROVE  Clean(ks, i - 1)
<1>1. /\ Len(ks) \in Nat /\ DOMAIN ks = 1..Len(ks) /\ DOMAIN nk = 1..(Len(ks) + 1)
      /\ pos \in 1..(Len(ks) + 1)
      /\ \A j \in 1..Len(ks) : /\ j < pos => nk[j] = ks[j]
                               /\ pos =< j => nk[j + 1] = ks[j]
  BY GrownIs
<1>2. ASSUME NEW m \in DOMAIN ks, m =< i - 1
      PROVE  ks[m] \in Key /\ \A j \in DOMAIN ks : j < m => ks[j] < ks[m]
  <2>1. PICK a \in DOMAIN nk : /\ nk[a] = ks[m] /\ a =< i
                               /\ a = m \/ a = m + 1
                               /\ pos =< m => a = m + 1
    <3>1. CASE m < pos
      <4>1. m \in DOMAIN nk /\ nk[m] = ks[m] /\ m =< i /\ ~(pos =< m) BY <1>1, <1>2, <3>1
      <4> QED BY <4>1
    <3>2. CASE pos =< m
      <4>1. m + 1 \in DOMAIN nk /\ nk[m + 1] = ks[m] /\ m + 1 =< i BY <1>1, <1>2, <3>2
      <4> QED BY <4>1
    <3> QED BY <1>1, <3>1, <3>2
  <2>2. nk[a] \in Key BY <2>1 DEF Clean
  <2>3. ASSUME NEW j \in DOMAIN ks, j < m PROVE ks[j] < ks[m]
    <3>1. PICK b \in DOMAIN nk : nk[b] = ks[j] /\ b < a
      <4>1. CASE j < pos
        <5>1. j \in DOMAIN nk /\ nk[j] = ks[j] /\ j < a BY <1>1, <2>1, <2>3, <4>1
        <5> QED BY <5>1
      <4>2. CASE pos =< j
        <5>1. pos =< m /\ a = m + 1 BY <1>1, <2>1, <2>3, <4>2
        <5>2. j + 1 \in DOMAIN nk /\ nk[j + 1] = ks[j] /\ j + 1 < a
          BY <1>1, <2>3, <4>2, <5>1
        <5> QED BY <5>2
      <4> QED BY <1>1, <4>1, <4>2
    <3>2. nk[b] < nk[a] BY <2>1, <3>1 DEF Clean
    <3> QED BY <2>1, <3>1, <3>2
  <2> QED BY <2>1, <2>2, <2>3
<1> QED BY <1>2 DEF Clean

\* A separator that keeps them clean goes behind the child that was split.
LEMMA CleanPlace ==
    ASSUME NEW nk, NEW ks, NEW sep, NEW pos, Grown(nk, ks, sep, pos), Clean(nk, pos),
           NEW i \in 1..(Len(ks) + 1), sep \in Key => Bounded(ks, i, sep)
    PROVE  pos = i
<1>1. /\ Len(ks) \in Nat /\ DOMAIN ks = 1..Len(ks) /\ DOMAIN nk = 1..(Len(ks) + 1)
      /\ pos \in 1..(Len(ks) + 1) /\ nk[pos] = sep /\ sep \in Int
      /\ \A j \in 1..Len(ks) : /\ ks[j] \in Int
                               /\ j < pos => nk[j] = ks[j] /\ ks[j] =< sep
      /\ pos =< Len(ks) => sep < ks[pos]
  BY GrownIs
<1>2. Sorted(ks) BY DEF Grown
<1>3. pos \in DOMAIN nk /\ pos =< pos BY <1>1
<1>4. sep \in Key BY <1>1, <1>3 DEF Clean
<1>5. Bounded(ks, i, sep) BY <1>4
<1>6. ASSUME pos < i PROVE FALSE
  <2>1. pos \in DOMAIN ks /\ i - 1 \in DOMAIN ks /\ pos =< i - 1 BY <1>1, <1>6
  <2>2. ks[pos] =< ks[i - 1] BY <1>2, <2>1 DEF Sorted
  <2>3. ks[i - 1] =< sep BY <1>5, <2>1 DEF Bounded
  <2>4. sep < ks[pos] BY <1>1, <2>1
  <2>5. ks[pos] \in Int /\ ks[i - 1] \in Int BY <1>1, <2>1
  <2> QED BY <1>1, <2>2, <2>3, <2>4, <2>5
<1>7. ASSUME i < pos PROVE FALSE
  <2>1. i \in DOMAIN ks /\ pos - 1 \in DOMAIN ks /\ i =< pos - 1 /\ pos - 1 \in DOMAIN nk
        /\ pos - 1 < pos
    BY <1>1, <1>7
  <2>2. Clean(nk, i)
    <3>1. \A m \in DOMAIN nk : m =< i => m =< pos BY <1>1, <1>7
    <3> QED BY <3>1 DEF Clean
  <2>3. Clean(ks, i) BY <1>7, <2>2, CleanBefore
  <2>4. sep =< ks[i] BY <1>5, <2>1, <2>3 DEF Bounded
  <2>5. ks[i] =< ks[pos - 1] BY <1>2, <2>1 DEF Sorted
  <2>6. nk[pos - 1] < nk[pos] BY <1>3, <2>1 DEF Clean
  <2>7. nk[pos - 1] = ks[pos - 1] BY <1>1, <2>1
  <2>8. ks[i] \in Int /\ ks[pos - 1] \in Int BY <1>1, <2>1
  <2> QED BY <1>1, <2>4, <2>5, <2>6, <2>7, <2>8
<1> QED BY <1>1, <1>6, <1>7

\* The children before the new separator stay within their bounds.
LEMMA BoundedBefore ==
    ASSUME NEW nk, NEW ks, NEW sep, NEW pos, Grown(nk, ks, sep, pos),
           NEW i \in Int, i < pos, NEW k, Bounded(ks, i, k)
    PROVE  Bounded(nk, i, k)
<1>1. /\ Len(ks) \in Nat /\ DOMAIN ks = 1..Len(ks) /\ DOMAIN nk = 1..(Len(ks) + 1)
      /\ pos \in 1..(Len(ks) + 1)
      /\ \A j \in 1..Len(ks) : j < pos => nk[j] = ks[j]
  BY GrownIs
<1>2. ASSUME i - 1 \in DOMAIN nk PROVE nk[i - 1] =< k
  <2>1. i - 1 \in DOMAIN ks /\ nk[i - 1] = ks[i - 1] BY <1>1, <1>2
  <2> QED BY <2>1 DEF Bounded
<1>3. ASSUME i \in DOMAIN nk, Clean(nk, i) PROVE k =< nk[i]
  <2>1. i \in DOMAIN ks /\ nk[i] = ks[i] BY <1>1, <1>3
  <2>2. Clean(ks, i) BY <1>3, CleanBefore
  <2> QED BY <2>1, <2>2 DEF Bounded
<1> QED BY <1>2, <1>3 DEF Bounded

\* So do those behind it.
LEMMA BoundedBehind ==
    ASSUME NEW nk, NEW ks, NEW sep, NEW pos, Grown(nk, ks, sep, pos),
           NEW i \in Int, pos + 1 < i, NEW k, Bounded(ks, i - 1, k)
    PROVE  Bounded(nk, i, k)
<1>1. /\ Len(ks) \in Nat /\ DOMAIN ks = 1..Len(ks) /\ DOMAIN nk = 1..(Len(ks) + 1)
      /\ pos \in 1..(Len(ks) + 1)
      /\ \A j \in 1..Len(ks) : pos =< j => nk[j + 1] = ks[j]
  BY GrownIs
<1>2. PICK j \in Int : j = i - 1 OBVIOUS
<1>3. Bounded(ks, j, k) /\ pos < j BY <1>1, <1>2
<1>4. ASSUME i - 1 \in DOMAIN nk PROVE nk[i - 1] =< k
  <2>1. j - 1 \in DOMAIN ks /\ nk[(j - 1) + 1] = ks[j - 1] BY <1>1, <1>2, <1>3, <1>4
  <2>2. (j - 1) + 1 = i - 1 BY <1>2
  <2>3. ks[j - 1] =< k BY <1>3, <2>1 DEF Bounded
  <2> QED BY <2>1, <2>2, <2>3
<1>5. ASSUME i \in DOMAIN nk, Clean(nk, i) PROVE k =< nk[i]
  <2>1. j \in DOMAIN ks /\ nk[j + 1] = ks[j] /\ j + 1 = i BY <1>1, <1>2, <1>3, <1>5
  <2>2. Clean(ks, j)
    <3>1. pos < i BY <1>1
    <3> QED BY <1>2, <1>5, <3>1, CleanBehind
  <2>3. k =< ks[j] BY <1>3, <2>1, <2>2 DEF Bounded
  <2> QED BY <2>1, <2>3
<1> QED BY <1>4, <1>5 DEF Bounded

\* The child in front of it, when it is the one that was split.
LEMMA BoundedLeft ==
    ASSUME NEW nk, NEW ks, NEW sep, NEW pos, Grown(nk, ks, sep, pos),
           NEW i \in 1..(Len(ks) + 1), sep \in Key => Bounded(ks, i, sep),
           NEW k, Bounded(ks, pos, k), pos = i => k =< sep
    PROVE  Bounded(nk, pos, k)
<1>1. /\ Len(ks) \in Nat /\ DOMAIN ks = 1..Len(ks) /\ DOMAIN nk = 1..(Len(ks) + 1)
      /\ pos \in 1..(Len(ks) + 1) /\ nk[pos] = sep
      /\ \A j \in 1..Len(ks) : j < pos => nk[j] = ks[j]
  BY GrownIs
<1>2. ASSUME pos - 1 \in DOMAIN nk PROVE nk[pos - 1] =< k
  <2>1. pos - 1 \in DOMAIN ks /\ nk[pos - 1] = ks[pos - 1] BY <1>1, <1>2
  <2> QED BY <2>1 DEF Bounded
<1>3. ASSUME Clean(nk, pos) PROVE k =< nk[pos]
  <2>1. pos = i BY <1>3, CleanPlace
  <2> QED BY <1>1, <2>1
<1> QED BY <1>2, <1>3 DEF Bounded

\* The new child.
LEMMA BoundedRight ==
    ASSUME NEW nk, NEW ks, NEW sep, NEW pos, Grown(nk, ks, sep, pos),
           NEW i \in 1..(Len(ks) + 1), sep \in Key => Bounded(ks, i, sep),
           NEW k, Bounded(ks, i, k), sep =< k
    PROVE  Bounded(nk, pos + 1, k)
<1>1. /\ Len(ks) \in Nat /\ DOMAIN ks = 1..Len(ks) /\ DOMAIN nk = 1..(Len(ks) + 1)
      /\ pos \in 1..(Len(ks) + 1) /\ nk[pos] = sep
      /\ \A j \in 1..Len(ks) : pos =< j => nk[j + 1] = ks[j]
  BY GrownIs
<1>2. (pos + 1) - 1 = pos BY <1>1
<1>3. ASSUME pos + 1 \in DOMAIN nk, Clean(nk, pos + 1) PROVE k =< nk[pos + 1]
  <2>1. Clean(nk, pos)
    <3>1. \A m \in DOMAIN nk : m =< pos => m =< pos + 1 BY <1>1
    <3> QED BY <1>3, <3>1 DEF Clean
  <2>2. pos = i BY <2>1, CleanPlace
  <2>3. pos \in DOMAIN ks /\ nk[pos + 1] = ks[pos] BY <1>1, <1>3
  <2>4. Clean(ks, pos)
    <3>1. PICK e \in Int : e = pos + 1 BY <1>1
    <3>2. pos < e /\ Clean(nk, e) /\ e - 1 = pos BY <1>1, <1>3, <3>1
    <3>3. Clean(ks, e - 1) BY <3>2, CleanBehind
    <3> QED BY <3>2, <3>3
  <2> QED BY <2>2, <2>3, <2>4 DEF Bounded
<1> QED BY <1>1, <1>2, <1>3 DEF Bounded

\* A leaf may be the i-th child of a node with the separators ks.
Admits(n, ks, i) ==
    Sorted(n.keys) /\ \A j \in DOMAIN n.keys : n.keys[j] \in Key => Bounded(ks, i, n.keys[j])

\* The leaves among the children cs are where they may be.
Arranged(ks, cs) ==
    /\ Sorted(ks)
    /\ \A i \in DOMAIN cs : cs[i] \in DOMAIN pages /\ pages[cs[i]].kind = "leaf" =>
          Admits(pages[cs[i]], ks, i)

Ordered ==
    /\ pages[root].kind = "leaf" => Sorted(pages[root].keys)
    /\ pages[root].kind = "internal" => Arranged(pages[root].keys, pages[root].children)

\* The first key of a leaf is what divides it from the one before.
Divided(l, r, sep) ==
    /\ Sorted(r.keys) /\ 1 \in DOMAIN r.keys /\ sep = r.keys[1]
    /\ \A j \in DOMAIN l.keys : l.keys[j] =< sep

\* So it is with the two parts of a leaf, and the second belongs where the first is.
SplitInOrder ==
    Rising /\ pages[op.right].kind = "leaf" =>
        /\ Divided(pages[op.left], pages[op.right], op.sep)
        /\ op.left # root =>
              Admits(pages[op.right], pages[root].keys, FindChild(pages[root].keys, op.key))

OInv == Ordered /\ SplitInOrder

\* The place of a key is within its bounds.
LEMMA PlaceBounded ==
    ASSUME NEW ks \in Seq(Int), NEW k \in Int, NEW i, PlaceOf(ks, k, i)
    PROVE  Bounded(ks, i, k)
<1>1. Len(ks) \in Nat /\ DOMAIN ks = 1..Len(ks) /\ \A j \in 1..Len(ks) : ks[j] \in Int
  BY LenProperties
<1>2. i \in 1..(Len(ks) + 1) BY DEF PlaceOf
<1>3. ASSUME i - 1 \in DOMAIN ks PROVE ks[i - 1] =< k
  <2>1. i - 1 \in 1..Len(ks) /\ i - 1 < i BY <1>1, <1>2, <1>3
  <2> QED BY <2>1 DEF PlaceOf
<1>4. ASSUME i \in DOMAIN ks PROVE k =< ks[i]
  <2>1. i =< Len(ks) /\ ks[i] \in Int BY <1>1, <1>4
  <2>2. k < ks[i] BY <2>1 DEF PlaceOf
  <2> QED BY <2>1, <2>2
<1> QED BY <1>3, <1>4 DEF Bounded

\* insert_sorted keeps the keys in order, and in bounds if the new one is.
LEMMA EnteredAdmits ==
    ASSUME NEW n, NEW leaf \in PageSet, leaf.kind = "leaf", NEW k \in Int, NEW v,
           Enters(n, leaf, k, v), Sorted(leaf.keys)
    PROVE  /\ Sorted(n.keys)
           /\ \A ks, i : Admits(leaf, ks, i) /\ Bounded(ks, i, k) => Admits(n, ks, i)
<1>1. PICK pos : PlaceOf(leaf.keys, k, pos) /\ Spliced(n.keys, leaf.keys, pos, k)
  BY DEF Enters
<1>2. leaf.keys \in Seq(Int) BY PageIs
<1>3. Sorted(n.keys) BY <1>1, <1>2, SortedSpliced
<1>4. ASSUME NEW ks, NEW i, Admits(leaf, ks, i), Bounded(ks, i, k),
             NEW j \in DOMAIN n.keys, n.keys[j] \in Key
      PROVE  Bounded(ks, i, n.keys[j])
  <2>1. n.keys[j] = k \/ \E m \in DOMAIN leaf.keys : n.keys[j] = leaf.keys[m]
    BY <1>1, SplicedFrom
  <2>2. CASE n.keys[j] = k BY <1>4, <2>2
  <2>3. CASE \E m \in DOMAIN leaf.keys : n.keys[j] = leaf.keys[m]
    BY <1>4, <2>3 DEF Admits
  <2> QED BY <2>1, <2>2, <2>3
<1> QED BY <1>3, <1>4 DEF Admits

\* A part of a leaf may be where the leaf may.
LEMMA PartAdmits ==
    ASSUME NEW t, NEW n, NEW a \in Nat, NEW b \in Nat, IsPart(t.keys, n.keys, a, b),
           Sorted(n.keys)
    PROVE  /\ Sorted(t.keys)
           /\ \A ks, i : Admits(n, ks, i) => Admits(t, ks, i)
<1>1. Sorted(t.keys) BY SortedPart
<1>2. \A j \in DOMAIN t.keys : \E m \in DOMAIN n.keys : t.keys[j] = n.keys[m]
  BY PartOf
<1> QED BY <1>1, <1>2 DEF Admits

\* The two parts of a leaf in order are divided by the first key of the second.
LEMMA HalvesDivide ==
    ASSUME NEW n, NEW left, NEW right, Halves(n, left, right), Sorted(n.keys)
    PROVE  /\ Sorted(left.keys) /\ Divided(left, right, right.keys[1])
           /\ \A ks, i : Admits(n, ks, i) => Admits(left, ks, i) /\ Admits(right, ks, i)
<1>1. PICK m, len \in Nat \ {0} :
          /\ m < len /\ DOMAIN n.keys = 1..len
          /\ IsPart(left.keys, n.keys, 1, m) /\ IsPart(right.keys, n.keys, m + 1, len)
  BY DEF Halves
<1>2. PICK a \in Nat : a = m + 1 BY <1>1
<1>3. 1 \in Nat /\ m \in Nat /\ len \in Nat /\ IsPart(right.keys, n.keys, a, len)
  BY <1>1, <1>2
<1>4. Sorted(left.keys) /\ \A ks, i : Admits(n, ks, i) => Admits(left, ks, i)
  BY <1>1, <1>3, PartAdmits
<1>5. Sorted(right.keys) /\ \A ks, i : Admits(n, ks, i) => Admits(right, ks, i)
  BY <1>2, <1>3, PartAdmits
<1>6. 1 \in DOMAIN right.keys /\ right.keys[1] = n.keys[a] /\ a \in DOMAIN n.keys
  <2>1. 1 \in 1..(len - a + 1) /\ a + 1 - 1 = a /\ a \in DOMAIN n.keys BY <1>1, <1>2
  <2>2. DOMAIN right.keys = 1..(len - a + 1) /\ right.keys[1] = n.keys[a + 1 - 1]
    BY <1>3, <2>1 DEF IsPart
  <2> QED BY <2>1, <2>2
<1>7. ASSUME NEW j \in DOMAIN left.keys PROVE left.keys[j] =< right.keys[1]
  <2>1. j \in 1..m /\ 1 + j - 1 = j
    <3>1. j \in 1..(m - 1 + 1) BY <1>1 DEF IsPart
    <3> QED BY <1>1, <3>1
  <2>2. j \in DOMAIN n.keys /\ left.keys[j] = n.keys[j]
    <3>1. j \in 1..(m - 1 + 1) BY <1>1 DEF IsPart
    <3>2. 1 + j - 1 \in DOMAIN n.keys /\ left.keys[j] = n.keys[1 + j - 1]
      BY <1>1, <3>1 DEF IsPart
    <3> QED BY <2>1, <3>2
  <2>3. j =< a BY <1>1, <1>2, <2>1
  <2>4. n.keys[j] =< n.keys[a] BY <1>6, <2>2, <2>3 DEF Sorted
  <2> QED BY <1>6, <2>2, <2>4
<1> QED BY <1>4, <1>5, <1>6, <1>7 DEF Divided

\* The leaves stay arranged when they stay as they are, or are where they may be.
LEMMA ArrangedStays ==
    ASSUME NEW ks, NEW cs, Arranged(ks, cs),
           \A i \in DOMAIN cs : cs[i] \in DOMAIN pages' /\ pages'[cs[i]].kind = "leaf" =>
              \/ cs[i] \in DOMAIN pages /\ pages'[cs[i]] = pages[cs[i]]
              \/ Admits(pages'[cs[i]], ks, i)
    PROVE  Arranged(ks, cs)'
<1>1. ASSUME NEW i \in DOMAIN cs, cs[i] \in DOMAIN pages', pages'[cs[i]].kind = "leaf"
      PROVE  Admits(pages'[cs[i]], ks, i)
  BY <1>1 DEF Arranged
<1> QED BY <1>1 DEF Arranged, Admits

\* The order does not depend on other pages than those of the tree.
LEMMA OrderedStays ==
    ASSUME Ordered, root' = root, pages'[root] = pages[root],
           \A q \in DOMAIN pages' : pages'[q].kind = "leaf" =>
              q \in DOMAIN pages /\ pages'[q] = pages[q]
    PROVE  Ordered'
<1>1. PICK ks, cs : ks = pages[root].keys /\ cs = pages[root].children OBVIOUS
<1>2. pages'[root'] = pages[root] OBVIOUS
<1>3. ASSUME pages[root].kind = "internal" PROVE Arranged(ks, cs)'
  <2>1. Arranged(ks, cs) BY <1>1, <1>3 DEF Ordered
  <2> QED BY <2>1, ArrangedStays
<1>4. ks = pages'[root'].keys /\ cs = pages'[root'].children BY <1>1, <1>2
<1>5. Arranged(ks, cs)' => Arranged(pages[root].keys, pages[root].children)'
  BY <1>4 DEF Arranged
<1> QED BY <1>2, <1>3, <1>5 DEF Ordered

\* The leaf of an insert is written over, with no key out of order.
LEMMA OrderedLeaf ==
    ASSUME BInv, TInv, Ordered, op.at = "leaf", root' = root,
           NEW left, pages'[op.page] = left, left.kind = "leaf", Sorted(left.keys),
           \A ks, i : Admits(pages[op.page], ks, i) /\ Bounded(ks, i, op.key)
                         => Admits(left, ks, i),
           \A q \in DOMAIN pages : q \in DOMAIN pages' /\ (q # op.page => pages'[q] = pages[q]),
           \A q \in DOMAIN pages' : q \in DOMAIN pages \/ q = NewPage
    PROVE  Ordered'
<1>1. /\ Filed /\ op.page \in DOMAIN pages /\ pages[op.page].kind = "leaf" /\ op.key \in Int
  BY AtLeaf
<1>2. root \in DOMAIN pages /\ root \in Nat /\ NewPage \notin DOMAIN pages
  BY <1>1, FiledIs DEF Filed
<1>3. CASE op.page = root
  <2>1. pages'[root'] = left BY <1>3
  <2> QED BY <2>1 DEF Ordered
<1>4. CASE op.page # root
  <2>1. pages'[root] = pages[root] BY <1>2, <1>4
  <2>2. RootTree /\ Taken(op.page) BY <1>4, LeafReached
  <2>3. PICK ks, cs, k : ks = pages[root].keys /\ cs = pages[root].children /\ k = op.key
    OBVIOUS
  <2>4. Arranged(ks, cs) BY <2>2, <2>3 DEF Ordered, RootTree
  <2>5. PICK p, old : p = op.page /\ old = pages[p] OBVIOUS
  <2>6. PICK pos : pos = FindChild(ks, k) OBVIOUS
  <2>7. pos \in DOMAIN cs /\ p = cs[pos] BY <1>1, <2>2, <2>3, <2>5, <2>6, TakenIs
  <2>8. Admits(left, ks, pos)
    <3>1. Admits(old, ks, pos) BY <1>1, <2>4, <2>5, <2>7 DEF Arranged
    <3>2. ks \in Seq(Int)
      BY <1>1, <1>2, <2>2, <2>3, FiledIs, PageIs DEF RootTree
    <3>3. PlaceOf(ks, k, pos) BY <1>1, <2>3, <2>6, <3>2, PlaceFound
    <3>4. Bounded(ks, pos, k) BY <1>1, <2>3, <3>2, <3>3, PlaceBounded
    <3> QED BY <2>3, <2>5, <3>1, <3>4
  <2>9. ASSUME NEW i \in DOMAIN cs, cs[i] \in DOMAIN pages', pages'[cs[i]].kind = "leaf"
        PROVE  \/ cs[i] \in DOMAIN pages /\ pages'[cs[i]] = pages[cs[i]]
               \/ Admits(pages'[cs[i]], ks, i)
    <3>1. ChildOfRoot(cs[i]) BY <2>2, <2>3 DEF RootTree
    <3>2. cs[i] \in DOMAIN pages BY <3>1 DEF ChildOfRoot
    <3>3. CASE cs[i] # p BY <2>5, <3>2, <3>3
    <3>4. CASE cs[i] = p
      <4>1. PlacedOnce(cs) BY <2>2, <2>3 DEF RootTree
      <4>2. i = pos BY <2>7, <3>2, <3>4, <4>1 DEF PlacedOnce
      <4>3. pages'[cs[i]] = left BY <2>5, <3>4
      <4> QED BY <2>8, <4>2, <4>3
    <3> QED BY <3>3, <3>4
  <2>10. Arranged(ks, cs)' BY <2>4, <2>9, ArrangedStays
  <2>11. pages'[root'] = pages[root] BY <2>1
  <2>12. ks = pages'[root'].keys /\ cs = pages'[root'].children BY <2>3, <2>11
  <2>13. Arranged(pages[root].keys, pages[root].children)' BY <2>10, <2>12 DEF Arranged
  <2>14. pages'[root'].kind = "internal" BY <2>2, <2>11 DEF RootTree
  <2> QED BY <2>13, <2>14 DEF Ordered
<1> QED BY <1>3, <1>4

\* An insert that ends with the keys in order.
LEMMA OOver ==
    ASSUME Ordered', op' = NoOp
    PROVE  OInv'
<1>1. ~Rising' BY OverIs DEF Rising
<1> QED BY <1>1 DEF OInv, SplitInOrder

\* BTree::new.
LEMMA OInit == ASSUME Init PROVE OInv
<1>1. pages = <<Leaf(None, None, <<>>, <<>>)>> /\ root = 1 /\ op = NoOp BY DEF Init
<1>2. pages[1] = Leaf(None, None, <<>>, <<>>) BY <1>1
<1>3. pages[root].kind = "leaf" /\ pages[root].keys = <<>> BY <1>1, <1>2 DEF Leaf
<1>4. Ordered BY <1>3 DEF Ordered, Sorted
<1>5. ~Rising BY <1>1, OverIs DEF Rising
<1> QED BY <1>4, <1>5 DEF OInv, SplitInOrder

\* The engine's data page is added.
LEMMA OInsert ==
    ASSUME BInv, OInv, NEW k \in Key, Insert(k)
    PROVE  OInv'
<1>1. /\ op = NoOp /\ pages' = Append(pages, Data) /\ root' = root
      /\ op' = [at |-> "descend", key |-> k, value |-> NewPage, page |-> root]
  BY DEF Insert
<1>2. /\ Filed /\ pages \in Seq(PageSet) /\ Len(pages) \in Nat
      /\ DOMAIN pages = 1..Len(pages) /\ root \in DOMAIN pages
  BY FiledIs DEF BInv, Filed
<1>3. /\ pages' \in Seq(PageSet) /\ Len(pages') = Len(pages) + 1
      /\ \A q \in 1..Len(pages) : pages'[q] = pages[q]
      /\ pages'[Len(pages) + 1] = Data
  BY <1>1, <1>2, DataMade, AppendProperties
<1>4. DOMAIN pages' = 1..(Len(pages) + 1) BY <1>3, LenProperties
<1>5. pages'[root] = pages[root] BY <1>2, <1>3
<1>6. ASSUME NEW q \in DOMAIN pages', pages'[q].kind = "leaf"
      PROVE  q \in DOMAIN pages /\ pages'[q] = pages[q]
  <2>1. q # Len(pages) + 1 BY <1>3, <1>6 DEF Data
  <2> QED BY <1>2, <1>3, <1>4, <2>1
<1>7. Ordered' BY <1>1, <1>5, <1>6, OrderedStays DEF OInv
<1>8. op'.at = "descend" BY <1>1
<1>9. ~Rising' BY <1>8 DEF Rising
<1> QED BY <1>7, <1>9 DEF OInv, SplitInOrder

\* No page changes.
LEMMA OUnmoved ==
    ASSUME OInv, pages' = pages, root' = root,
           Rising' => Rising /\ op'.left = op.left /\ op'.right = op.right
                             /\ op'.sep = op.sep /\ op'.key = op.key
    PROVE  OInv'
<1>1. Ordered' BY OrderedStays DEF OInv
<1>2. SplitInOrder'
  <2> SUFFICES ASSUME Rising', pages'[op'.right].kind = "leaf" PROVE SplitInOrder'
    BY DEF SplitInOrder
  <2>1. /\ Divided(pages[op.left], pages[op.right], op.sep)
        /\ op.left # root =>
              Admits(pages[op.right], pages[root].keys, FindChild(pages[root].keys, op.key))
    BY DEF OInv, SplitInOrder
  <2> QED BY <2>1 DEF SplitInOrder
<1> QED BY <1>1, <1>2 DEF OInv

\* find_leaf.
LEMMA ODescend ==
    ASSUME BInv, OInv, Descend
    PROVE  OInv'
<1>1. op.at = "descend" /\ UNCHANGED <<pages, root>> BY DEF Descend
<1>2. op'.at \in {"descend", "leaf", "idle"}
  <2>1. /\ op = [at |-> op.at, key |-> op.key, value |-> op.value, page |-> op.page]
    BY <1>1, DownIs
  <2>2. PICK c : \/ op' = [op EXCEPT !.page = c]
                 \/ op' = [op EXCEPT !.at = "leaf"]
                 \/ op' = NoOp
    BY DEF Descend
  <2>3. CASE op' = [op EXCEPT !.page = c] BY <1>1, <2>1, <2>3
  <2>4. CASE op' = [op EXCEPT !.at = "leaf"] BY <2>1, <2>4
  <2>5. CASE op' = NoOp BY <2>5 DEF NoOp
  <2> QED BY <2>2, <2>3, <2>4, <2>5
<1>3. ~Rising' BY <1>2 DEF Rising
<1> QED BY <1>1, <1>3, OUnmoved

\* insert_into_parent finds no parent.
LEMMA ONoParent ==
    ASSUME BInv, OInv, NoParent
    PROVE  OInv'
<1>1. /\ op.at = "parent" /\ UNCHANGED <<pages, root>> /\ op' = [op EXCEPT !.at = "new_root"]
  BY DEF NoParent
<1>2. op = [at |-> op.at, key |-> op.key, value |-> op.value,
            left |-> op.left, sep |-> op.sep, right |-> op.right]
  BY <1>1, UpIs
<1>3. /\ op'.left = op.left /\ op'.right = op.right /\ op'.key = op.key /\ op'.sep = op.sep
  BY <1>1, <1>2
<1> QED BY <1>1, <1>3, OUnmoved DEF Rising

\* The leaf that an insert has reached is in order.
LEMMA LeafSorted ==
    ASSUME BInv, TInv, Ordered, op.at = "leaf"
    PROVE  Sorted(pages[op.page].keys)
<1>1. /\ Filed /\ op.page \in DOMAIN pages /\ pages[op.page].kind = "leaf" /\ op.key \in Int
  BY AtLeaf
<1>2. CASE op.page = root /\ RootLeaf BY <1>2 DEF Ordered, RootLeaf
<1>3. CASE op.page # root /\ Taken(op.page) /\ RootTree
  <2>1. PICK ks, cs, i : /\ ks = pages[root].keys /\ cs = pages[root].children
                         /\ i = FindChild(ks, op.key)
    OBVIOUS
  <2>2. i \in DOMAIN cs /\ op.page = cs[i] BY <1>1, <1>3, <2>1, TakenIs
  <2>3. Arranged(ks, cs) BY <1>3, <2>1 DEF Ordered, RootTree
  <2>4. Admits(pages[cs[i]], ks, i) BY <1>1, <2>2, <2>3 DEF Arranged
  <2> QED BY <2>2, <2>4 DEF Admits
<1> QED BY <1>2, <1>3, LeafReached

\* insert into a leaf.
LEMMA OLeaf ==
    ASSUME BInv, TInv, OInv, InsertIntoLeaf
    PROVE  OInv'
<1>1. op.at = "leaf" /\ root' = root BY DEF InsertIntoLeaf
<1>2. /\ op.page \in DOMAIN pages /\ op.key \in Int
      /\ pages[op.page] \in PageSet /\ pages[op.page].kind = "leaf"
  BY <1>1, AtLeaf
<1>3. PICK old, k, v : old = pages[op.page] /\ k = op.key /\ v = op.value OBVIOUS
<1>4. PICK n : /\ Enters(n, old, k, v)
               /\ \/ Writes(op.page, n) /\ op' = NoOp
                  \/ Failed /\ pages' = pages
  BY <1>3, LeafWrites DEF Ends
<1>5. CASE Failed /\ pages' = pages
  <2>1. op' = NoOp BY <1>5 DEF Failed
  <2>2. ~Rising' BY <2>1, OverIs DEF Rising
  <2> QED BY <1>1, <1>5, <2>2, OUnmoved
<1>6. CASE Writes(op.page, n) /\ op' = NoOp
  <2>1. Sorted(old.keys) BY <1>1, <1>3, LeafSorted DEF OInv
  <2>2. /\ Sorted(n.keys)
        /\ \A ks, i : Admits(old, ks, i) /\ Bounded(ks, i, k) => Admits(n, ks, i)
    BY <1>2, <1>3, <1>4, <2>1, EnteredAdmits
  <2>3. /\ pages'[op.page] = n
        /\ \A q \in DOMAIN pages : q \in DOMAIN pages' /\ (q # op.page => pages'[q] = pages[q])
        /\ \A q \in DOMAIN pages' : q \in DOMAIN pages \/ q = NewPage
    BY <1>6 DEF Writes
  <2>4. n.kind = "leaf" BY <1>4 DEF Enters
  <2>5. \A ks, i : Admits(pages[op.page], ks, i) /\ Bounded(ks, i, op.key) => Admits(n, ks, i)
    BY <1>3, <2>2
  <2>6. Ordered' BY <1>1, <2>2, <2>3, <2>4, <2>5, OrderedLeaf DEF OInv
  <2> QED BY <1>6, <2>6, OOver
<1> QED BY <1>4, <1>5, <1>6

\* split_leaf.
LEMMA OSplitLeaf ==
    ASSUME BInv, TInv, OInv, SplitLeaf
    PROVE  OInv'
<1>1. op.at = "leaf" /\ root' = root BY DEF SplitLeaf
<1>2. /\ Filed /\ op.page \in DOMAIN pages /\ op.key \in Int
      /\ pages[op.page] \in PageSet /\ pages[op.page].kind = "leaf"
  BY <1>1, AtLeaf
<1>3. PICK old, k, v, p : old = pages[op.page] /\ k = op.key /\ v = op.value /\ p = op.page
  OBVIOUS
<1>4. PICK n, left, right :
              /\ Enters(n, old, k, v)
              /\ Halves(n, left, right)
              /\ \/ /\ Splits(op.page, left, right) /\ faults' = faults
                    /\ op' = [at |-> "parent", key |-> k, value |-> v,
                              left |-> p, sep |-> right.keys[1], right |-> NewPage]
                 \/ Failed /\ pages' = pages
                 \/ Failed /\ Writes(op.page, left)
                 \/ Failed /\ Splits(op.page, left, right)
  BY <1>3, SplitLeafWrites
<1>5. Sorted(old.keys) BY <1>1, <1>3, LeafSorted DEF OInv
<1>6. /\ Sorted(n.keys)
      /\ \A ks, i : Admits(old, ks, i) /\ Bounded(ks, i, k) => Admits(n, ks, i)
  BY <1>2, <1>3, <1>4, <1>5, EnteredAdmits
<1>7. /\ Sorted(left.keys) /\ Divided(left, right, right.keys[1])
      /\ \A ks, i : Admits(n, ks, i) => Admits(left, ks, i) /\ Admits(right, ks, i)
  BY <1>4, <1>6, HalvesDivide
<1>8. \A ks, i : Admits(pages[op.page], ks, i) /\ Bounded(ks, i, op.key) => Admits(left, ks, i)
  BY <1>3, <1>6, <1>7
<1>9. left.kind = "leaf" BY <1>4 DEF Halves
<1>10. CASE Failed /\ pages' = pages
  <2>1. op' = NoOp BY <1>10 DEF Failed
  <2>2. ~Rising' BY <2>1, OverIs DEF Rising
  <2> QED BY <1>1, <1>10, <2>2, OUnmoved
<1>11. CASE Failed /\ (Writes(op.page, left) \/ Splits(op.page, left, right))
  <2>1. /\ pages'[op.page] = left
        /\ \A q \in DOMAIN pages : q \in DOMAIN pages' /\ (q # op.page => pages'[q] = pages[q])
        /\ \A q \in DOMAIN pages' : q \in DOMAIN pages \/ q = NewPage
    BY <1>11 DEF Writes, Splits
  <2>2. Ordered' BY <1>1, <1>7, <1>8, <1>9, <2>1, OrderedLeaf DEF OInv
  <2> QED BY <1>11, <2>2, OOver DEF Failed
<1>12. CASE /\ Splits(op.page, left, right)
            /\ op' = [at |-> "parent", key |-> k, value |-> v,
                      left |-> p, sep |-> right.keys[1], right |-> NewPage]
  <2>1. /\ pages'[op.page] = left /\ pages'[NewPage] = right
        /\ \A q \in DOMAIN pages : q \in DOMAIN pages' /\ (q # op.page => pages'[q] = pages[q])
        /\ \A q \in DOMAIN pages' : q \in DOMAIN pages \/ q = NewPage
    BY <1>12 DEF Splits
  <2>2. Ordered' BY <1>1, <1>7, <1>8, <1>9, <2>1, OrderedLeaf DEF OInv
  <2>3. /\ op'.key = k /\ op'.left = p /\ op'.sep = right.keys[1] /\ op'.right = NewPage
    BY <1>12
  <2>4. pages'[op'.left] = left /\ pages'[op'.right] = right BY <1>3, <2>1, <2>3
  <2>5. ASSUME p # root
        PROVE  Admits(right, pages'[root'].keys, FindChild(pages'[root'].keys, k))
    <3>1. Taken(op.page) /\ RootTree BY <1>1, <1>3, <2>5, LeafReached
    <3>2. PICK ks, cs, i : /\ ks = pages[root].keys /\ cs = pages[root].children
                           /\ i = FindChild(ks, k)
      OBVIOUS
    <3>3. i \in DOMAIN cs /\ p = cs[i] BY <1>2, <1>3, <3>1, <3>2, TakenIs
    <3>4. Arranged(ks, cs) BY <3>1, <3>2 DEF OInv, Ordered, RootTree
    <3>5. Admits(old, ks, i) BY <1>2, <1>3, <3>3, <3>4 DEF Arranged
    <3>6. root \in DOMAIN pages BY <1>2 DEF Filed
    <3>7. ks \in Seq(Int) BY <1>2, <3>1, <3>2, <3>6, FiledIs, PageIs DEF RootTree
    <3>8. PlaceOf(ks, k, i) BY <1>2, <1>3, <3>2, <3>7, PlaceFound
    <3>9. Bounded(ks, i, k) BY <1>2, <1>3, <3>7, <3>8, PlaceBounded
    <3>10. Admits(right, ks, i) BY <1>6, <1>7, <3>5, <3>9
    <3>11. pages'[root'].keys = ks BY <1>1, <1>3, <2>1, <2>5, <3>2, <3>6
    <3> QED BY <3>2, <3>10, <3>11
  <2>6. SplitInOrder' BY <1>1, <1>7, <2>3, <2>4, <2>5 DEF SplitInOrder
  <2> QED BY <2>2, <2>6 DEF OInv
<1> QED BY <1>4, <1>10, <1>11, <1>12

\* The root with the new leaf behind it.
LEMMA RootGrown ==
    ASSUME BInv, TInv, OInv, op.at = "parent", BelowRoot, NEW n,
           Adopts(n, pages[root], op.sep, op.right)
    PROVE  Arranged(n.keys, n.children)
<1>1. /\ op.left \in DOMAIN pages /\ op.right \in DOMAIN pages /\ op.key \in Int
      /\ op.sep \in Int /\ root \in DOMAIN pages /\ Filed /\ op.left # root
  BY UpReached
<1>2. /\ RootTree /\ Taken(op.left) /\ pages[root].kind = "internal"
      /\ pages[op.left].kind = "leaf" /\ pages[op.right].kind = "leaf"
  BY DEF BelowRoot, RootTree
<1>3. PICK ks, cs, k, sep, l, r, i :
         /\ ks = pages[root].keys /\ cs = pages[root].children /\ k = op.key /\ sep = op.sep
         /\ l = pages[op.left] /\ r = pages[op.right] /\ i = FindChild(ks, k)
  OBVIOUS
<1>4. i \in DOMAIN cs /\ op.left = cs[i] BY <1>1, <1>2, <1>3, TakenIs
<1>5. Divided(l, r, sep) /\ Admits(r, ks, i)
  BY <1>1, <1>2, <1>3 DEF OInv, SplitInOrder, Rising
<1>6. Arranged(ks, cs) BY <1>2, <1>3 DEF OInv, Ordered
<1>7. ks \in Seq(Int) BY <1>1, <1>2, <1>3, FiledIs, PageIs
<1>8. i \in 1..(Len(ks) + 1)
  <2>1. PlaceOf(ks, k, i) BY <1>1, <1>3, <1>7, PlaceFound
  <2> QED BY <2>1 DEF PlaceOf
<1>9. PICK nk, nc : nk = n.keys /\ nc = n.children OBVIOUS
<1>10. PICK pos : /\ PlaceOf(ks, sep, pos) /\ Spliced(nk, ks, pos, sep)
                  /\ Spliced(nc, cs, pos + 1, op.right)
  BY <1>3, <1>9 DEF Adopts
<1>11. Grown(nk, ks, sep, pos) BY <1>1, <1>3, <1>6, <1>7, <1>10 DEF Grown, Arranged
<1>12. sep \in Key => Bounded(ks, i, sep) BY <1>5 DEF Divided, Admits
<1>13. Sorted(nk) BY <1>1, <1>3, <1>6, <1>7, <1>10, SortedSpliced DEF Arranged
<1>14. pos \in Int /\ Len(ks) \in Nat BY <1>11, GrownIs
<1>15. r.keys \in Seq(Int) /\ l.keys \in Seq(Int) BY <1>1, <1>2, <1>3, FiledIs, PageIs
<1>16. ASSUME NEW j \in DOMAIN nc, nc[j] \in DOMAIN pages, pages[nc[j]].kind = "leaf"
       PROVE  Admits(pages[nc[j]], nk, j)
  <2>1. \/ j = pos + 1 /\ nc[j] = op.right
        \/ j < pos + 1 /\ j \in DOMAIN cs /\ nc[j] = cs[j]
        \/ pos + 1 < j /\ j - 1 \in DOMAIN cs /\ nc[j] = cs[j - 1]
    BY <1>10, SplicedFrom
  <2>2. j \in Int BY <1>10 DEF Spliced
  <2>3. PICK leaf : leaf = pages[nc[j]] OBVIOUS
  <2>4. CASE j = pos + 1 /\ nc[j] = op.right
    <3>1. leaf = r BY <1>3, <2>3, <2>4
    <3>2. ASSUME NEW m \in DOMAIN r.keys, r.keys[m] \in Key PROVE Bounded(nk, j, r.keys[m])
      <4>1. Bounded(ks, i, r.keys[m]) BY <1>5, <3>2 DEF Admits
      <4>2. sep =< r.keys[m]
        <5>1. 1 \in DOMAIN r.keys /\ sep = r.keys[1] /\ Sorted(r.keys) BY <1>5 DEF Divided
        <5>2. 1 =< m BY <1>15, LenProperties
        <5> QED BY <5>1, <5>2 DEF Sorted
      <4>3. Bounded(nk, pos + 1, r.keys[m]) BY <1>8, <1>11, <1>12, <4>1, <4>2, BoundedRight
      <4> QED BY <2>4, <4>3
    <3>3. Sorted(r.keys) BY <1>5 DEF Divided
    <3> QED BY <2>3, <3>1, <3>2, <3>3 DEF Admits
  <2>5. CASE j < pos + 1 /\ j \in DOMAIN cs /\ nc[j] = cs[j]
    <3>1. Admits(leaf, ks, j) BY <1>6, <1>16, <2>3, <2>5 DEF Arranged
    <3>2. ASSUME NEW m \in DOMAIN leaf.keys, leaf.keys[m] \in Key
          PROVE  Bounded(nk, j, leaf.keys[m])
      <4>1. Bounded(ks, j, leaf.keys[m]) BY <3>1, <3>2 DEF Admits
      <4>2. CASE j < pos BY <1>11, <2>2, <4>1, <4>2, BoundedBefore
      <4>3. CASE j = pos
        <5>1. ASSUME pos = i PROVE leaf.keys[m] =< sep
          <6>1. leaf = l BY <1>3, <1>4, <2>3, <2>5, <4>3, <5>1
          <6> QED BY <1>5, <3>2, <6>1 DEF Divided
        <5>2. Bounded(nk, pos, leaf.keys[m])
          BY <1>8, <1>11, <1>12, <4>1, <4>3, <5>1, BoundedLeft
        <5> QED BY <4>3, <5>2
      <4> QED BY <1>14, <2>2, <2>5, <4>2, <4>3
    <3> QED BY <2>3, <3>1, <3>2 DEF Admits
  <2>6. CASE pos + 1 < j /\ j - 1 \in DOMAIN cs /\ nc[j] = cs[j - 1]
    <3>1. PICK h : h = j - 1 OBVIOUS
    <3>2. Admits(leaf, ks, h) BY <1>6, <1>16, <2>3, <2>6, <3>1 DEF Arranged
    <3>3. ASSUME NEW m \in DOMAIN leaf.keys, leaf.keys[m] \in Key
          PROVE  Bounded(nk, j, leaf.keys[m])
      <4>1. Bounded(ks, j - 1, leaf.keys[m]) BY <3>1, <3>2, <3>3 DEF Admits
      <4> QED BY <1>11, <2>2, <2>6, <4>1, BoundedBehind
    <3> QED BY <2>3, <3>2, <3>3 DEF Admits
  <2> QED BY <2>1, <2>4, <2>5, <2>6
<1> QED BY <1>9, <1>13, <1>16 DEF Arranged

\* The root is written over, with its leaves in order.
LEMMA OrderedRoot ==
    ASSUME root' = root, NEW n, pages'[root] = n, n.kind = "internal",
           Arranged(n.keys, n.children),
           \A q \in DOMAIN n.children : n.children[q] # NewPage,
           \A q \in DOMAIN pages : q # root => pages'[q] = pages[q],
           \A q \in DOMAIN pages' : q \in DOMAIN pages \/ q = NewPage
    PROVE  Ordered'
<1>1. PICK ks, cs : ks = n.keys /\ cs = n.children OBVIOUS
<1>2. Arranged(ks, cs) BY <1>1
<1>3. ASSUME NEW i \in DOMAIN cs, cs[i] \in DOMAIN pages', pages'[cs[i]].kind = "leaf"
      PROVE  cs[i] \in DOMAIN pages /\ pages'[cs[i]] = pages[cs[i]]
  <2>1. cs[i] # root BY <1>3
  <2>2. cs[i] # NewPage BY <1>1
  <2> QED BY <1>3, <2>1, <2>2
<1>4. Arranged(ks, cs)' BY <1>2, <1>3, ArrangedStays
<1>5. pages'[root'] = n OBVIOUS
<1>6. ks = pages'[root'].keys /\ cs = pages'[root'].children BY <1>1, <1>5
<1>7. Arranged(pages[root].keys, pages[root].children)' BY <1>4, <1>6 DEF Arranged
<1> QED BY <1>5, <1>7 DEF Ordered

\* A child of the root is not a page that is not there.
LEMMA ChildNotNew ==
    ASSUME BInv, NEW c, ChildOfRoot(c)
    PROVE  c # NewPage
<1>1. NewPage \notin DOMAIN pages BY FiledIs DEF BInv
<1> QED BY <1>1 DEF ChildOfRoot

\* The root is a leaf, and stays as it is.
LEMMA OrderedBeside ==
    ASSUME Ordered, root' = root, pages'[root] = pages[root], RootLeaf
    PROVE  Ordered'
BY DEF Ordered, RootLeaf

\* insert_into_parent, into the root.
LEMMA OParentRoot ==
    ASSUME BInv, TInv, OInv, InsertIntoParent, BelowRoot, pages[op.left].parent = root
    PROVE  OInv'
<1>1. op.at = "parent" /\ root' = root BY DEF InsertIntoParent
<1>2. BelowRoot OBVIOUS
<1>3. PICK n : /\ Adopts(n, pages[root], op.sep, op.right)
               /\ \/ Writes(root, n) /\ op' = NoOp
                  \/ Failed /\ pages' = pages
  BY ParentWrites DEF Ends
<1>4. CASE Failed /\ pages' = pages
  <2>1. op' = NoOp BY <1>4 DEF Failed
  <2>2. ~Rising' BY <2>1, OverIs DEF Rising
  <2> QED BY <1>1, <1>4, <2>2, OUnmoved
<1>5. CASE Writes(root, n) /\ op' = NoOp
  <2>1. Arranged(n.keys, n.children) BY <1>1, <1>2, <1>3, RootGrown
  <2>2. n.kind = "internal" /\ \A i \in DOMAIN n.children : ChildOfRoot(n.children[i])
    BY <1>1, <1>2, <1>3, RootAdopts
  <2>3. \A i \in DOMAIN n.children : n.children[i] # NewPage BY <2>2, ChildNotNew
  <2>4. Ordered' BY <1>1, <1>5, <2>1, <2>2, <2>3, OrderedRoot DEF Writes
  <2> QED BY <1>5, <2>4, OOver
<1> QED BY <1>3, <1>4, <1>5

\* insert_into_parent.
LEMMA OParent ==
    ASSUME BInv, TInv, OInv, ~Misread, InsertIntoParent
    PROVE  OInv'
<1>1. root' = root BY DEF InsertIntoParent
<1>2. CASE BelowRoot /\ pages[op.left].parent = root BY <1>2, OParentRoot
<1>3. CASE RootLeaf /\ pages'[root] = pages[root]
  <2>1. Ordered' BY <1>1, <1>3, OrderedBeside DEF OInv
  <2>2. op' = NoOp BY ParentWrites DEF Ends, Failed
  <2> QED BY <2>1, <2>2, OOver
<1> QED BY <1>2, <1>3, TParent

\* The first separators and children of a node are arranged as in the node.
LEMMA PartArranged ==
    ASSUME NEW ks, NEW cs, Arranged(ks, cs), NEW m \in Nat, NEW lk, NEW lc,
           IsPart(lk, ks, 1, m), IsPart(lc, cs, 1, m + 1),
           NEW len \in Nat, DOMAIN ks = 1..len
    PROVE  Arranged(lk, lc)
<1>1. Sorted(lk)
  <2>1. Sorted(ks) /\ 1 \in Nat BY DEF Arranged
  <2> QED BY <2>1, SortedPart
<1>2. /\ DOMAIN lk = 1..m
      /\ \A j \in 1..m : j \in DOMAIN ks /\ lk[j] = ks[j]
  <2>1. m - 1 + 1 = m /\ \A j \in 1..m : 1 + j - 1 = j OBVIOUS
  <2> QED BY <2>1 DEF IsPart
<1>3. \A j \in DOMAIN lc : j \in 1..(m + 1) /\ j \in DOMAIN cs /\ lc[j] = cs[j]
  <2>1. (m + 1) - 1 + 1 = m + 1 /\ \A j \in 1..(m + 1) : 1 + j - 1 = j OBVIOUS
  <2> QED BY <2>1 DEF IsPart
<1>4. ASSUME NEW i \in 1..(m + 1), NEW k, Bounded(ks, i, k) PROVE Bounded(lk, i, k)
  <2>1. ASSUME i - 1 \in DOMAIN lk PROVE lk[i - 1] =< k
    <3>1. i - 1 \in DOMAIN ks /\ lk[i - 1] = ks[i - 1] BY <1>2, <2>1
    <3> QED BY <1>4, <3>1 DEF Bounded
  <2>2. ASSUME i \in DOMAIN lk, Clean(lk, i) PROVE k =< lk[i]
    <3>1. i \in DOMAIN ks /\ lk[i] = ks[i] /\ i \in 1..m BY <1>2, <2>2
    <3>2. ASSUME NEW a \in DOMAIN ks, a =< i
          PROVE  ks[a] \in Key /\ \A b \in DOMAIN ks : b < a => ks[b] < ks[a]
      <4>1. a \in 1..m BY <3>1, <3>2
      <4>2. a \in DOMAIN lk /\ lk[a] = ks[a] BY <1>2, <4>1
      <4>3. ASSUME NEW b \in DOMAIN ks, b < a PROVE ks[b] < ks[a]
        <5>1. b \in 1..m BY <4>1, <4>3
        <5>2. b \in DOMAIN lk /\ lk[b] = ks[b] BY <1>2, <5>1
        <5>3. lk[b] < lk[a] BY <2>2, <3>2, <4>2, <4>3, <5>2 DEF Clean
        <5> QED BY <4>2, <5>2, <5>3
      <4> QED BY <2>2, <3>2, <4>2, <4>3 DEF Clean
    <3>3. Clean(ks, i) BY <3>2 DEF Clean
    <3> QED BY <1>4, <3>1, <3>3 DEF Bounded
  <2> QED BY <2>1, <2>2 DEF Bounded
<1>5. ASSUME NEW i \in DOMAIN lc, lc[i] \in DOMAIN pages, pages[lc[i]].kind = "leaf"
      PROVE  Admits(pages[lc[i]], lk, i)
  <2>1. i \in 1..(m + 1) /\ i \in DOMAIN cs /\ lc[i] = cs[i] BY <1>3
  <2>2. Admits(pages[lc[i]], ks, i) BY <1>5, <2>1 DEF Arranged
  <2> QED BY <1>4, <2>1, <2>2 DEF Admits
<1> QED BY <1>1, <1>5 DEF Arranged

\* split_internal, of the root.
LEMMA OSplitRoot ==
    ASSUME BInv, TInv, OInv, SplitInternal, BelowRoot, pages[op.left].parent = root
    PROVE  OInv'
<1>1. op.at = "parent" /\ root' = root BY DEF SplitInternal
<1>2. BelowRoot OBVIOUS
<1>3. PICK n, left, right, sep :
            /\ Adopts(n, pages[root], op.sep, op.right)
            /\ Parts(n, left, right)
            /\ \/ /\ Splits(root, left, right) /\ faults' = faults
                  /\ op' = [at |-> "parent", key |-> op.key, value |-> op.value,
                            left |-> root, sep |-> sep, right |-> NewPage]
               \/ Failed /\ pages' = pages
               \/ Failed /\ Writes(root, left)
               \/ Failed /\ Splits(root, left, right)
  BY SplitInternalWrites
<1>4. Arranged(n.keys, n.children) BY <1>1, <1>2, <1>3, RootGrown
<1>5. PICK m, len \in Nat \ {0} :
          /\ DOMAIN n.keys = 1..len
          /\ IsPart(left.keys, n.keys, 1, m) /\ IsPart(left.children, n.children, 1, m + 1)
  BY <1>3 DEF Parts
<1>6. left.kind = "internal" /\ right.kind = "internal" BY <1>3 DEF Parts
<1>7. Arranged(left.keys, left.children)
  <2>1. m \in Nat /\ len \in Nat BY <1>5
  <2> QED BY <1>4, <1>5, <2>1, PartArranged
<1>8. \A i \in DOMAIN left.children : left.children[i] # NewPage
  <2>1. \A i \in DOMAIN n.children : ChildOfRoot(n.children[i])
    BY <1>1, <1>2, <1>3, RootAdopts
  <2>2. PICK lc, nc, c : lc = left.children /\ nc = n.children /\ c = m + 1 OBVIOUS
  <2>3. 1 \in Nat /\ c \in Nat /\ IsPart(lc, nc, 1, c) BY <1>5, <2>2
  <2>4. \A i \in DOMAIN lc : \E j \in DOMAIN nc : lc[i] = nc[j]
    BY ONLY <2>3, PartOf
  <2> QED BY <2>1, <2>2, <2>4, ChildNotNew
<1>9. CASE Failed /\ pages' = pages
  <2>1. op' = NoOp BY <1>9 DEF Failed
  <2>2. ~Rising' BY <2>1, OverIs DEF Rising
  <2> QED BY <1>1, <1>9, <2>2, OUnmoved
<1>10. CASE Failed /\ (Writes(root, left) \/ Splits(root, left, right))
  <2>1. Ordered' BY <1>1, <1>6, <1>7, <1>8, <1>10, OrderedRoot DEF Writes, Splits
  <2> QED BY <1>10, <2>1, OOver DEF Failed
<1>11. CASE /\ Splits(root, left, right)
            /\ op' = [at |-> "parent", key |-> op.key, value |-> op.value,
                      left |-> root, sep |-> sep, right |-> NewPage]
  <2>1. Ordered' BY <1>1, <1>6, <1>7, <1>8, <1>11, OrderedRoot DEF Splits
  <2>2. op'.right = NewPage BY <1>11
  <2>3. pages'[op'.right].kind = "internal" BY <1>6, <1>11, <2>2 DEF Splits
  <2>4. SplitInOrder' BY <2>3 DEF SplitInOrder
  <2> QED BY <2>1, <2>4 DEF OInv
<1> QED BY <1>3, <1>9, <1>10, <1>11

\* split_internal.
LEMMA OSplitInternal ==
    ASSUME BInv, TInv, OInv, ~Misread, SplitInternal
    PROVE  OInv'
<1>1. root' = root /\ op.at = "parent" BY DEF SplitInternal
<1>2. CASE BelowRoot /\ pages[op.left].parent = root BY <1>2, OSplitRoot
<1>3. CASE RootLeaf /\ pages'[root] = pages[root]
  <2>1. Ordered' BY <1>1, <1>3, OrderedBeside DEF OInv
  <2>2. CASE op' = NoOp BY <2>1, <2>2, OOver
  <2>3. ASSUME NEW p, NEW left, NEW right, NEW sep, NEW n, Parts(n, left, right),
               Splits(p, left, right),
               op' = [at |-> "parent", key |-> op.key, value |-> op.value,
                      left |-> p, sep |-> sep, right |-> NewPage]
        PROVE  OInv'
    <3>1. op'.right = NewPage BY <2>3
    <3>2. pages'[op'.right].kind = "internal" BY <2>3, <3>1 DEF Splits, Parts
    <3>3. SplitInOrder' BY <3>2 DEF SplitInOrder
    <3> QED BY <2>1, <3>3 DEF OInv
  <2> QED BY <2>2, <2>3, SplitInternalWrites DEF Failed
<1> QED BY <1>2, <1>3, TSplitInternal

\* What write_parent makes of a node without parent: its keys, or one junk key.
LEMMA ParentGarbles ==
    ASSUME NEW node, node.kind \in {"leaf", "internal"}, node.parent = None,
           NEW p \in Nat, NEW n \in WriteParent(node, p), n.kind # "unreadable"
    PROVE  /\ n.kind = node.kind
           /\ \/ node.kind = "leaf" /\ node.next # None /\ n.keys = node.keys
              \/ \E j \in JunkKey : \A i \in DOMAIN n.keys : n.keys[i] = j
<1>1. CASE node.kind = "leaf" /\ node.next # None
  <2>1. n = Leaf(p, None, node.keys, node.values) BY <1>1, ParentKeeps
  <2>2. n.kind = "leaf" /\ n.keys = node.keys BY <2>1 DEF Leaf
  <2> QED BY <1>1, <2>2
<1>2. CASE ~(node.kind = "leaf" /\ node.next # None)
  <2>1. n \in Garble(node, p) BY <1>2 DEF WriteParent, IsLeaf
  <2>2. n # Unreadable(p) BY DEF Unreadable
  <2>3. CASE node.kind = "leaf"
    <3>1. PICK j \in JunkKey, next \in Stray \cup {None} :
             n = Leaf(p, next, [i \in DOMAIN node.keys |-> j], [i \in DOMAIN node.keys |-> 0])
      BY <2>1, <2>2, <2>3 DEF Garble, IsLeaf
    <3> DEFINE ks == [i \in DOMAIN node.keys |-> j]
               vs == [i \in DOMAIN node.keys |-> 0]
    <3>2. \A i \in DOMAIN ks : ks[i] = j OBVIOUS
    <3>3. n = Leaf(p, next, ks, vs) BY <3>1
    <3> HIDE DEF ks, vs
    <3>4. n.kind = "leaf" /\ n.keys = ks BY <3>3 DEF Leaf
    <3> QED BY <2>3, <3>2, <3>4
  <2>4. CASE node.kind = "internal"
    <3>1. PICK j \in JunkKey, cs \in [DOMAIN node.children -> Stray] :
             n = Internal(p, [i \in DOMAIN node.keys |-> j], cs)
      BY <2>1, <2>2, <2>4 DEF Garble, IsLeaf
    <3> DEFINE ks == [i \in DOMAIN node.keys |-> j]
    <3>2. \A i \in DOMAIN ks : ks[i] = j OBVIOUS
    <3>3. n = Internal(p, ks, cs) BY <3>1
    <3> HIDE DEF ks
    <3>4. n.kind = "internal" /\ n.keys = ks BY <3>3 DEF Internal
    <3> QED BY <2>4, <3>2, <3>4
  <2> QED BY <2>3, <2>4
<1> QED BY <1>1, <1>2

\* One key, however often, is in order.
LEMMA JunkSorted ==
    ASSUME NEW s, NEW j \in JunkKey, \A i \in DOMAIN s : s[i] = j
    PROVE  Sorted(s)
<1>1. j \in Int BY BTreeAssumption
<1> QED BY <1>1 DEF Sorted

\* new_root beside a root leaf.
LEMMA ONewRootBeside ==
    ASSUME BInv, OInv, op.at = "new_root", op' = NoOp, BesideRoot,
           \/ root' = root /\ pages'[root] = pages[root]
           \/ /\ RootTree' /\ pages'[root'].keys = <<op.sep>>
              /\ \A i \in DOMAIN pages'[root'].children :
                    pages'[pages'[root'].children[i]].kind = "unreadable"
    PROVE  OInv'
<1>1. CASE root' = root /\ pages'[root] = pages[root]
  <2>1. Ordered' BY <1>1, OrderedBeside DEF OInv, BesideRoot
  <2> QED BY <2>1, OOver
<1>2. CASE /\ RootTree' /\ pages'[root'].keys = <<op.sep>>
           /\ \A i \in DOMAIN pages'[root'].children :
                 pages'[pages'[root'].children[i]].kind = "unreadable"
  <2>1. PICK sep, ks : sep = op.sep /\ ks = <<sep>> OBVIOUS
  <2>2. sep \in Int BY <2>1, UpIs
  <2>3. DOMAIN ks = {1} /\ ks[1] = sep BY <2>1
  <2>4. Sorted(ks) BY <2>2, <2>3 DEF Sorted
  <2>5. pages'[root'].keys = ks /\ pages'[root'].kind = "internal" BY <1>2, <2>1 DEF RootTree
  <2>6. Arranged(pages[root].keys, pages[root].children)' BY <1>2, <2>4, <2>5 DEF Arranged
  <2>7. Ordered' BY <2>5, <2>6 DEF Ordered
  <2> QED BY <2>7, OOver
<1> QED BY <1>1, <1>2

\* new_root.
LEMMA ONewRoot ==
    ASSUME BInv, TInv, OInv, ~Misread, ~Misread', NewRoot, JunkKey \cap Key = {}
    PROVE  OInv'
<1>0. CASE ~AtRoot
  <2>1. op.at = "new_root" BY DEF NewRoot
  <2> QED BY <1>0, <2>1, TNewRoot, ONewRootBeside
<1> SUFFICES ASSUME AtRoot PROVE OInv' BY <1>0
<1>1. op.at = "new_root" BY DEF NewRoot
<1>2. /\ Ascending /\ op # NoOp /\ Filed /\ op.sep \in Int BY <1>1, UpIs DEF BInv
<1>3. PICK a, b, sep : a = op.left /\ b = op.right /\ sep = op.sep OBVIOUS
<1>4. /\ a \in DOMAIN pages /\ b \in DOMAIN pages /\ a # b
      /\ pages[a].kind \in {"leaf", "internal"} /\ pages[b].kind \in {"leaf", "internal"}
      /\ pages[a].parent = None /\ pages[b].parent = None
  BY <1>1, <1>2, <1>3 DEF Ascending
<1>5. /\ a = root /\ pages[b].kind = pages[a].kind
      /\ pages[a].kind = "leaf" => pages[a].next # None
  BY <1>3 DEF AtRoot
<1>6. /\ pages[a] \in PageSet /\ pages[b] \in PageSet /\ NewPage \in Nat
      /\ NewPage \notin DOMAIN pages
  BY <1>2, <1>4, FiledIs
<1>7. PICK new \in Nat : new = NewPage BY <1>6
<1>8. PICK l \in WriteParent(pages[a], new), r \in WriteParent(pages[b], new) :
                 \/ /\ WritesBoth(a, l, b, r)
                    /\ DOMAIN pages' = DOMAIN pages \cup {new}
                    /\ pages'[new] = Internal(None, <<op.sep>>, <<a, b>>)
                    /\ op' = NoOp /\ faults' = faults /\ root' = new
                 \/ Failed /\ root' = root /\ pages' = pages
                 \/ Failed /\ root' = root /\ pages'[a] = l /\ a \in DOMAIN pages'
  BY <1>3, <1>4, <1>7, NewRootWrites DEF WritesRoot, WritesBoth, Writes
<1>9. PICK x, y : x = pages[a] /\ y = pages[b] OBVIOUS
<1>10. Adopted(x, new, l) BY <1>4, <1>6, <1>7, <1>8, <1>9, ParentWritten
<1>11. l.kind # "unreadable" =>
          /\ l.kind = x.kind
          /\ \/ x.kind = "leaf" /\ x.next # None /\ l.keys = x.keys
             \/ \E j \in JunkKey : \A i \in DOMAIN l.keys : l.keys[i] = j
  BY <1>4, <1>8, <1>9, ParentGarbles
<1>12. r.kind # "unreadable" =>
          /\ r.kind = y.kind
          /\ \/ y.kind = "leaf" /\ y.next # None /\ r.keys = y.keys
             \/ \E j \in JunkKey : \A i \in DOMAIN r.keys : r.keys[i] = j
  BY <1>4, <1>8, <1>9, ParentGarbles
<1>13. x.kind = "leaf" => Sorted(x.keys) BY <1>5, <1>9 DEF OInv, Ordered
<1>14. y.kind = "leaf" => Divided(x, y, sep)
  BY <1>1, <1>3, <1>9 DEF OInv, SplitInOrder, Rising
<1>15. l.kind # "unreadable" => Sorted(l.keys) BY <1>11, <1>13, JunkSorted
<1>16. CASE /\ WritesBoth(a, l, b, r)
            /\ DOMAIN pages' = DOMAIN pages \cup {new}
            /\ pages'[new] = Internal(None, <<op.sep>>, <<a, b>>)
            /\ op' = NoOp /\ faults' = faults /\ root' = new
  <2>1. PICK top : top = pages'[root'] OBVIOUS
  <2>2. PICK ks, cs : ks = <<sep>> /\ cs = <<a, b>> OBVIOUS
  <2>3. top.kind = "internal" /\ top.keys = ks /\ top.children = cs
    BY <1>3, <1>16, <2>1, <2>2 DEF Internal
  <2>4. DOMAIN cs = {1, 2} /\ cs[1] = a /\ cs[2] = b BY <2>2
  <2>5. DOMAIN ks = {1} /\ ks[1] = sep /\ sep \in Int BY <1>2, <1>3, <2>2
  <2>6. pages'[a] = l /\ pages'[b] = r BY <1>16 DEF WritesBoth
  <2>7. Sorted(ks) BY <2>5 DEF Sorted
  <2>8. ASSUME l.kind = "leaf" PROVE Admits(l, ks, 1)
    <3>1. x.kind = "leaf" /\ x.next # None BY <1>5, <1>9, <1>11, <2>8
    <3>2. l = Leaf(new, None, x.keys, x.values) BY <1>4, <1>8, <1>9, <3>1, ParentKeeps
    <3>3. l.keys = x.keys BY <3>2 DEF Leaf
    <3>4. Divided(x, y, sep) BY <1>5, <1>9, <1>14, <3>1
    <3>5. \A j \in DOMAIN l.keys : l.keys[j] =< sep BY <3>3, <3>4 DEF Divided
    <3>6. 1 - 1 \notin DOMAIN ks BY <2>5
    <3> QED BY <1>15, <2>5, <2>8, <3>5, <3>6 DEF Admits, Bounded
  <2>9. ASSUME r.kind = "leaf" PROVE Admits(r, ks, 2)
    <3>1. y.kind = "leaf" BY <1>12, <2>9
    <3>2. Divided(x, y, sep) BY <1>14, <3>1
    <3>3. 2 - 1 = 1 /\ 2 \notin DOMAIN ks BY <2>5
    <3>4. CASE r.keys = y.keys
      <4>1. y.keys \in Seq(Int) BY <1>6, <1>9, <3>1, PageIs
      <4>2. ASSUME NEW j \in DOMAIN y.keys PROVE sep =< y.keys[j]
        <5>1. 1 =< j BY <4>1, LenProperties
        <5> QED BY <3>2, <5>1 DEF Divided, Sorted
      <4>3. Sorted(y.keys) BY <3>2 DEF Divided
      <4> QED BY <2>5, <3>3, <3>4, <4>2, <4>3 DEF Admits, Bounded
    <3>5. CASE \E j \in JunkKey : \A i \in DOMAIN r.keys : r.keys[i] = j
      <4>1. Sorted(r.keys) BY <3>5, JunkSorted
      <4>2. \A i \in DOMAIN r.keys : r.keys[i] \notin Key BY <3>5
      <4> QED BY <4>1, <4>2 DEF Admits
    <3> QED BY <1>12, <2>9, <3>4, <3>5
  <2>10. ASSUME NEW i \in DOMAIN cs, pages'[cs[i]].kind = "leaf"
         PROVE  Admits(pages'[cs[i]], ks, i)
    <3>1. CASE i = 1 BY <2>4, <2>6, <2>8, <2>10, <3>1
    <3>2. CASE i = 2 BY <2>4, <2>6, <2>9, <2>10, <3>2
    <3> QED BY <2>4, <3>1, <3>2
  <2>11. Arranged(ks, cs)' BY <2>7, <2>10 DEF Arranged, Admits
  <2>12. Arranged(pages[root].keys, pages[root].children)' BY <2>1, <2>3, <2>11 DEF Arranged
  <2>13. Ordered' BY <2>1, <2>3, <2>12 DEF Ordered
  <2> QED BY <1>16, <2>13, OOver
<1>17. CASE Failed /\ root' = root /\ pages' = pages
  <2>1. op' = NoOp BY <1>17 DEF Failed
  <2>2. ~Rising' BY <2>1, OverIs DEF Rising
  <2> QED BY <1>17, <2>2, OUnmoved
<1>18. CASE Failed /\ root' = root /\ pages'[a] = l /\ a \in DOMAIN pages'
  <2>1. pages'[root'] = l BY <1>5, <1>18
  <2>2. l.kind # "internal"
    <3>1. l.parent # None BY <1>7, <1>10, BTreeAssumption DEF Adopted
    <3> QED BY <1>18, <3>1 DEF Misread, IsInternal
  <2>3. Ordered' BY <1>15, <2>1, <2>2 DEF Ordered
  <2>4. op' = NoOp BY <1>18 DEF Failed
  <2> QED BY <2>3, <2>4, OOver
<1> QED BY <1>8, <1>16, <1>17, <1>18

\* The keys of a leaf stay in order, and, up to the first separator that is a
\* misread key or there already, within the separators insert_into_parent has put
\* around the leaf, until an internal node is misread.
THEOREM OrderInvariance ==
    ASSUME JunkKey \cap Key = {}
    PROVE  Spec => [](~Misread => OInv)
<1>1. Init => OInv BY OInit
<1>2. ASSUME BInv, TInv, OInv, ~Misread, ~Misread', [Next]_vars PROVE OInv'
  <2>1. ASSUME NEW k \in Key, Insert(k) PROVE OInv' BY <1>2, <2>1, OInsert
  <2>2. CASE Descend BY <1>2, <2>2, ODescend
  <2>3. CASE InsertIntoLeaf BY <1>2, <2>3, OLeaf
  <2>4. CASE SplitLeaf BY <1>2, <2>4, OSplitLeaf
  <2>5. CASE NoParent BY <1>2, <2>5, ONoParent
  <2>6. CASE BadParent
    <3>1. op' = NoOp /\ pages' = pages /\ root' = root BY <1>2, <2>6, TBadParent DEF BadParent
    <3>2. ~Rising' BY <3>1, OverIs DEF Rising
    <3> QED BY <1>2, <3>1, <3>2, OUnmoved
  <2>7. CASE InsertIntoParent BY <1>2, <2>7, OParent
  <2>8. CASE SplitInternal BY <1>2, <2>8, OSplitInternal
  <2>9. CASE NewRoot BY <1>2, <2>9, ONewRoot
  <2>10. CASE UNCHANGED vars
    <3>1. pages' = pages /\ root' = root /\ op' = op BY <2>10 DEF vars
    <3> QED BY <1>2, <3>1, OUnmoved DEF Rising
  <2> QED BY <1>2, <2>1, <2>2, <2>3, <2>4, <2>5, <2>6, <2>7, <2>8, <2>9, <2>10 DEF Next
<1>3. BInv /\ (~Misread => TInv) /\ (~Misread => OInv) /\ [Next]_vars => (~Misread => OInv)'
  BY <1>2, MisreadStays
<1> QED BY <1>1, <1>3, Invariance, ShapeInvariance, PTL DEF Spec

\* A leaf of the tree is the root, or a child of the root.
LEMMA LeafPlaced ==
    ASSUME BInv, TInv, NEW p \in LeavesBelow(root)
    PROVE  /\ p \in DOMAIN pages /\ Read(p) = pages[p] /\ pages[p].kind = "leaf"
           /\ \/ p = root
              \/ RootTree /\ \E i \in DOMAIN pages[root].children : p = pages[root].children[i]
<1>1. Filed /\ root \in DOMAIN pages /\ root \in Nat /\ Read(root) = pages[root]
  BY FiledIs DEF BInv, Filed, Read
<1>2. p \in Below(root) /\ IsLeaf(Read(p)) BY DEF LeavesBelow
<1>3. p \in DOMAIN pages /\ Read(p) = pages[p] /\ pages[p].kind = "leaf"
  BY <1>2 DEF Read, IsLeaf, Unreadable
<1>4. CASE RootTree
  <2> DEFINE C == {pages[root].children[i] : i \in DOMAIN pages[root].children}
             S == {root} \cup C
  <2>1. \A q \in C : ~IsInternal(Read(q))
    BY <1>4 DEF RootTree, ChildOfRoot, Read
  <2>2. ToSet(Read(root).children) \subseteq S BY <1>1 DEF ToSet
  <2>3. ChildrenOf(S) \subseteq S
    <3>1. ASSUME NEW q \in S, IsInternal(Read(q)) PROVE ToSet(Read(q).children) \subseteq S
      BY <2>1, <2>2, <3>1
    <3> HIDE DEF S
    <3> QED BY <3>1 DEF ChildrenOf
  <2>4. root \in S OBVIOUS
  <2> HIDE DEF S
  <2>5. p \in S BY <1>1, <1>2, <2>3, <2>4, BelowWithin
  <2> QED BY <1>3, <1>4, <2>5 DEF S
<1>5. CASE ~RootTree
  <2> DEFINE S == {root}
  <2>1. ~IsInternal(Read(root)) BY <1>1, <1>5 DEF TInv, Shape, RootLeaf, RootDead, IsInternal
  <2>2. ChildrenOf(S) \subseteq S BY <2>1 DEF ChildrenOf
  <2>3. root \in S OBVIOUS
  <2> HIDE DEF S
  <2>4. p \in S BY <1>1, <1>2, <2>2, <2>3, BelowWithin
  <2> QED BY <1>3, <2>4 DEF S
<1> QED BY <1>4, <1>5

\* Between separators that are in order a key has one place.
LEMMA BoundedPlace ==
    ASSUME NEW ks \in Seq(Int), Sorted(ks), \A i, j \in DOMAIN ks : ks[i] = ks[j] => i = j,
           \A i \in DOMAIN ks : ks[i] \in Key, NEW k \in Int, \A i \in DOMAIN ks : ks[i] # k,
           NEW i \in 1..(Len(ks) + 1), Bounded(ks, i, k)
    PROVE  FindChild(ks, k) = i
<1>1. Len(ks) \in Nat /\ DOMAIN ks = 1..Len(ks) /\ \A j \in DOMAIN ks : ks[j] \in Int
  BY LenProperties
<1>2. ASSUME NEW j \in DOMAIN ks, NEW m \in DOMAIN ks, j < m PROVE ks[j] < ks[m]
  <2>1. j =< m /\ j # m BY <1>1, <1>2
  <2>2. ks[j] =< ks[m] /\ ks[j] # ks[m] BY <2>1 DEF Sorted
  <2>3. ks[j] \in Int /\ ks[m] \in Int BY <1>1
  <2> QED BY <2>2, <2>3
<1>3. Clean(ks, i) BY <1>2 DEF Clean
<1>4. ASSUME NEW j \in 1..Len(ks), j < i PROVE ks[j] =< k
  <2>1. j \in DOMAIN ks /\ i - 1 \in DOMAIN ks /\ j =< i - 1 BY <1>1, <1>4
  <2>2. ks[j] =< ks[i - 1] BY <2>1 DEF Sorted
  <2>3. ks[i - 1] =< k BY <2>1 DEF Bounded
  <2>4. ks[j] \in Int /\ ks[i - 1] \in Int BY <1>1, <2>1
  <2> QED BY <2>2, <2>3, <2>4
<1>5. ASSUME i =< Len(ks) PROVE k < ks[i]
  <2>1. i \in DOMAIN ks BY <1>1, <1>5
  <2>2. k =< ks[i] /\ ks[i] # k /\ ks[i] \in Int BY <1>1, <1>3, <2>1 DEF Bounded
  <2> QED BY <2>2
<1>6. PlaceOf(ks, k, i) BY <1>4, <1>5 DEF PlaceOf
<1>7. PlaceOf(ks, k, FindChild(ks, k)) BY PlaceFound
<1> QED BY <1>6, <1>7, OnePlace

\* The search tree property: find_leaf ends in the leaf that has the key, when the
\* separators are keys that were inserted, all different.  No misread key may equal
\* an inserted one: read in a leaf, it would count as an entry.
THEOREM RoutedCorrect ==
    ASSUME JunkKey \cap Key = {}
    PROVE  Spec => []Routed
<1>1. BInv /\ (~Misread => TInv) /\ (~Misread => OInv) => Routed
  <2> SUFFICES ASSUME BInv, TInv, OInv, Separators \subseteq Key, SeparatorsDiffer,
                      NEW p \in LeavesBelow(root), NEW k \in Key \cap ToSet(Read(p).keys),
                      k \notin Separators
               PROVE  FindLeaf(k) = p
    BY DEF Routed, Searched
  <2>1. /\ p \in DOMAIN pages /\ Read(p) = pages[p] /\ pages[p].kind = "leaf"
        /\ \/ p = root
           \/ RootTree /\ \E i \in DOMAIN pages[root].children : p = pages[root].children[i]
    BY LeafPlaced
  <2>2. /\ Filed /\ root \in DOMAIN pages /\ root \in Nat /\ Read(root) = pages[root]
    BY FiledIs DEF BInv, Filed, Read
  <2>3. k \in Int /\ ~IsInternal(Read(p)) BY <2>1, BTreeAssumption DEF IsInternal
  <2>4. CASE p = root BY <2>2, <2>3, <2>4, FindLeafIs
  <2>5. CASE RootTree /\ \E i \in DOMAIN pages[root].children : p = pages[root].children[i]
    <3>1. PICK ks, cs : ks = pages[root].keys /\ cs = pages[root].children OBVIOUS
    <3>2. PICK i \in DOMAIN cs : p = cs[i] BY <2>5, <3>1
    <3>3. IsInternal(Read(root)) BY <2>2, <2>5 DEF RootTree, IsInternal
    <3>4. /\ ks \in Seq(Int) /\ cs \in Seq(Nat) /\ Len(cs) = Len(ks) + 1
      BY <2>2, <2>5, <3>1, FiledIs, PageIs DEF RootTree
    <3>5. i \in 1..(Len(ks) + 1) BY <3>2, <3>4, LenProperties
    <3>6. root \in InternalBelow(root)
      <4>1. root \in Below(root) BY <2>2, BelowHolds DEF NodesAt
      <4> QED BY <3>3, <4>1 DEF InternalBelow
    <3>7. ToSet(ks) \subseteq Separators BY <2>2, <3>1, <3>6 DEF Separators
    <3>8. \A j \in DOMAIN ks : ks[j] \in Key /\ ks[j] # k
      <4>1. \A j \in DOMAIN ks : ks[j] \in ToSet(ks) BY DEF ToSet
      <4> QED BY <3>7, <4>1
    <3>9. \A j, m \in DOMAIN ks : ks[j] = ks[m] => j = m
      <4>1. IsInjective(ks) BY <2>2, <3>1, <3>6 DEF SeparatorsDiffer
      <4> QED BY <4>1 DEF IsInjective
    <3>10. Arranged(ks, cs) BY <2>5, <3>1 DEF OInv, Ordered, RootTree
    <3>11. Sorted(ks) /\ Admits(pages[p], ks, i) BY <2>1, <3>2, <3>10 DEF Arranged
    <3>12. Bounded(ks, i, k)
      <4>1. PICK j \in DOMAIN pages[p].keys : k = pages[p].keys[j] BY <2>1 DEF ToSet
      <4> QED BY <3>11, <4>1 DEF Admits
    <3>13. FindChild(ks, k) = i
      BY <2>3, <3>4, <3>5, <3>8, <3>9, <3>11, <3>12, BoundedPlace
    <3>14. p = Follow(root, k) BY <2>2, <3>1, <3>2, <3>3, <3>13 DEF Follow
    <3> QED BY <2>2, <2>3, <3>14, FindLeafIs
  <2> QED BY <2>1, <2>4, <2>5
<1> QED BY <1>1, Invariance, ShapeInvariance, OrderInvariance, PTL

==============================================================================
