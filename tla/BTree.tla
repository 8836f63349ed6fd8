-------------------------------- MODULE BTree --------------------------------
(***************************************************************************)
(* sabi-storage/src/btree.rs over page_file.rs: the primary index as it is *)
(* on disk.  One operation runs at a time, in the steps in which the code  *)
(* reads and writes pages: down from the root, into the leaf, and, when a  *)
(* node overflows, up through split_leaf, insert_into_parent,              *)
(* split_internal and new_root.  write_page writes and then syncs: one     *)
(* that fails (MaxFaults) ends the operation and leaves the writes before  *)
(* it on disk, and perhaps its own, when it was the sync that failed.      *)
(*                                                                         *)
(* A page is what deserialize_btree makes of its bytes.  write_parent      *)
(* stores the parent at bytes 2 to 11 of the payload, whether or not the   *)
(* node was serialized with room for it:                                   *)
(*   - a node that has a parent gets the new one;                          *)
(*   - in a leaf without parent and with a next pointer the parent goes    *)
(*     over that pointer, whose last byte, a zero, then reads as "no next" *)
(*     and leaves the entries aligned;                                     *)
(*   - in any other node it goes over the entries, and what is read back   *)
(*     is misaligned: an error, or a node whose keys and pointers are made *)
(*     of the bytes of its entries.                                        *)
(* JunkKey and Stray hold keys and page ids that such a misreading may     *)
(* produce.  (A misread page id may be so large that read_page overflows,  *)
(* which panics where overflow is checked; like the error of a page that   *)
(* is not there, this ends the operation.)                                 *)
(*                                                                         *)
(* Page ids count from 1.  Keys are short enough for MaxKeys entries to    *)
(* fit in a page.  The log record that insert writes first is in the       *)
(* module StorageEngine.                                                   *)
(***************************************************************************)
EXTENDS Integers, Sequences, SequencesExt, FiniteSets

CONSTANTS
    Key,            \* keys, integers for their order
    JunkKey,        \* keys read from a misaligned node
    Stray,          \* page ids read from a misaligned node
    MaxKeys,        \* MAX_KEYS
    None,           \* Option::None
    MaxInserts,     \* bound: inserts
    MaxFaults       \* bound: failed writes

ASSUME BTreeAssumption ==
    /\ Key \subseteq Int /\ JunkKey \subseteq Int /\ Stray \subseteq Nat
    /\ MaxKeys \in Nat \ {0, 1} /\ MaxInserts \in Nat /\ MaxFaults \in Nat
    /\ None \notin Int

VARIABLES
    pages,      \* the page file
    root,       \* BTree.root
    op,         \* the insert in progress
    inserts,    \* inserts begun
    faults,     \* failed writes
    entries,    \* history: <<key, page>> of the inserts that returned Ok
    garbled     \* history: entries on pages that set_parent misaligned

vars == <<pages, root, op, inserts, faults, entries, garbled>>

Leaf(parent, next, keys, values) ==
    [kind |-> "leaf", parent |-> parent, next |-> next, keys |-> keys,
     values |-> values]
Internal(parent, keys, children) ==
    [kind |-> "internal", parent |-> parent, keys |-> keys,
     children |-> children]
Data == [kind |-> "data", parent |-> None]
Unreadable(parent) == [kind |-> "unreadable", parent |-> parent]

NoOp == [at |-> "idle"]
Panic == [at |-> "panic"]

\* read_page and deserialize_btree: a page beyond the end of the file, a data
\* page and a misaligned page are errors.
Read(p) == IF p \in DOMAIN pages THEN pages[p] ELSE Unreadable(None)
IsLeaf(n) == n.kind = "leaf"
IsInternal(n) == n.kind = "internal"

\* parent_of and read_parent: a data page has none; an unreadable node still has
\* the bytes of its parent.
ParentOf(p) == Read(p).parent

\* The first position whose key is greater than k.
FindChild(keys, k) ==
    LET greater == {i \in DOMAIN keys : k < keys[i]}
    IN  IF greater = {} THEN Len(keys) + 1
        ELSE CHOOSE i \in greater : \A j \in greater : i =< j

\* insert_sorted.
WithEntry(leaf, k, v) ==
    LET pos == FindChild(leaf.keys, k)
    IN  Leaf(leaf.parent, leaf.next, InsertAt(leaf.keys, pos, k),
             InsertAt(leaf.values, pos, v))

\* Mutation: the new child goes to the left of its separator.
WithChild_Left(node, k, child) ==
    LET pos == FindChild(node.keys, k)
    IN  Internal(node.parent, InsertAt(node.keys, pos, k),
                 InsertAt(node.children, pos, child))

\* The insertion of a separator and the child to its right.
WithChild(node, k, child) ==
    LET pos == FindChild(node.keys, k)
    IN  Internal(node.parent, InsertAt(node.keys, pos, k),
                 InsertAt(node.children, pos + 1, child))

\* What a misaligned node may read as: its pointers lead anywhere.  (Where they
\* go matters, and how its keys compare with others; that the keys of one node
\* are all equal, and its values 0, does not.)
Garble(node, p) ==
    LET keys(j) == [i \in DOMAIN node.keys |-> j]
    IN  {Unreadable(p)} \cup
        IF IsLeaf(node)
        THEN {Leaf(p, next, keys(j), keys(0)) : j \in JunkKey, next \in Stray \cup {None}}
        ELSE {Internal(p, keys(j), children) :
                 j \in JunkKey, children \in [DOMAIN node.children -> Stray]}

\* What a node may read as after write_parent(p).
WriteParent(node, p) ==
    IF node.parent # None THEN {[node EXCEPT !.parent = p]}
    ELSE IF IsLeaf(node) /\ node.next # None
         THEN {Leaf(p, None, node.keys, node.values)}
         ELSE Garble(node, p)

EntriesOf(node) ==
    IF IsLeaf(node) THEN {<<node.keys[i], node.values[i]>> : i \in DOMAIN node.keys}
    ELSE {}

\* A page id is the length of the file: a write either replaces a page or
\* extends the file by one.
Stored(file, p, node) ==
    IF p \in DOMAIN file THEN [file EXCEPT ![p] = node] ELSE Append(file, node)

\* Mutation: allocate_page is off by one.
NewPage_Last == Len(pages)

\* allocate_page.
NewPage == Len(pages) + 1

\* Page writes one after the other, after which the page file is each of `files',
\* then the step `next'; or one of them fails, in its write or in its sync, and
\* ends the insert with an error.
WriteAll(files, next) ==
    \/ /\ pages' = files[Len(files)]
       /\ op' = next
       /\ UNCHANGED faults
    \/ /\ faults < MaxFaults
       /\ faults' = faults + 1
       /\ \E n \in 0..Len(files) : pages' = IF n = 0 THEN pages ELSE files[n]
       /\ op' = NoOp

\* The history of an insert that returns Ok.
Succeeds == entries' = IF op' = NoOp /\ faults' = faults
                       THEN entries \cup {<<op.key, op.value>>} ELSE entries

------------------------------------------------------------------------------
\* BTree::new
Init ==
    /\ pages = <<Leaf(None, None, <<>>, <<>>)>>
    /\ root = 1
    /\ op = NoOp
    /\ inserts = 0 /\ faults = 0
    /\ entries = {} /\ garbled = {}

\* StorageEngine::insert has written the data page; find_leaf starts.
Insert(k) ==
    /\ op = NoOp /\ inserts < MaxInserts
    /\ inserts' = inserts + 1
    /\ pages' = Append(pages, Data)
    /\ op' = [at |-> "descend", key |-> k, value |-> NewPage, page |-> root]
    /\ UNCHANGED <<root, faults, entries, garbled>>

\* find_leaf, one node.
Descend ==
    /\ op.at = "descend"
    /\ LET node == Read(op.page)
       IN  op' = IF IsInternal(node)
                 THEN [op EXCEPT !.page = node.children[FindChild(node.keys, op.key)]]
                 ELSE IF IsLeaf(node) THEN [op EXCEPT !.at = "leaf"]
                 ELSE NoOp
    /\ UNCHANGED <<pages, root, inserts, faults, entries, garbled>>

\* Mutation: one entry more than fits.
InsertIntoLeaf_OneMore ==
    /\ op.at = "leaf"
    /\ LET leaf == WithEntry(Read(op.page), op.key, op.value)
       IN  /\ Len(leaf.keys) =< MaxKeys + 1
           /\ WriteAll(<<Stored(pages, op.page, leaf)>>, NoOp)
    /\ Succeeds
    /\ UNCHANGED <<root, inserts, garbled>>

\* The rest of insert, when the leaf has room.
InsertIntoLeaf ==
    /\ op.at = "leaf"
    /\ LET leaf == WithEntry(Read(op.page), op.key, op.value)
       IN  /\ Len(leaf.keys) =< MaxKeys
           /\ WriteAll(<<Stored(pages, op.page, leaf)>>, NoOp)
    /\ Succeeds
    /\ UNCHANGED <<root, inserts, garbled>>

\* Mutation: the middle entry is in neither half.
SplitLeaf_DropsMiddle ==
    /\ op.at = "leaf"
    /\ LET leaf == WithEntry(Read(op.page), op.key, op.value)
           mid == Len(leaf.keys) \div 2
           left == Leaf(leaf.parent, NewPage, SubSeq(leaf.keys, 1, mid - 1),
                        SubSeq(leaf.values, 1, mid - 1))
           right == Leaf(leaf.parent, leaf.next, SubSeq(leaf.keys, mid + 1, Len(leaf.keys)),
                         SubSeq(leaf.values, mid + 1, Len(leaf.values)))
           halved == Stored(pages, op.page, left)
       IN  /\ Len(leaf.keys) > MaxKeys
           /\ WriteAll(<<halved, Stored(halved, NewPage, right)>>,
                       [at |-> "parent", key |-> op.key, value |-> op.value,
                        left |-> op.page, sep |-> right.keys[1], right |-> NewPage])
    /\ UNCHANGED <<root, inserts, entries, garbled>>

\* split_leaf: the left half stays in the page, the right half goes to a new
\* one; the left is written first.
SplitLeaf ==
    /\ op.at = "leaf"
    /\ LET leaf == WithEntry(Read(op.page), op.key, op.value)
           mid == Len(leaf.keys) \div 2
           left == Leaf(leaf.parent, NewPage, SubSeq(leaf.keys, 1, mid),
                        SubSeq(leaf.values, 1, mid))
           right == Leaf(leaf.parent, leaf.next, SubSeq(leaf.keys, mid + 1, Len(leaf.keys)),
                         SubSeq(leaf.values, mid + 1, Len(leaf.values)))
           halved == Stored(pages, op.page, left)
       IN  /\ Len(leaf.keys) > MaxKeys
           /\ WriteAll(<<halved, Stored(halved, NewPage, right)>>,
                       [at |-> "parent", key |-> op.key, value |-> op.value,
                        left |-> op.page, sep |-> right.keys[1], right |-> NewPage])
    /\ UNCHANGED <<root, inserts, entries, garbled>>

\* insert_into_parent when read_parent finds no parent: new_root is next.
NoParent ==
    /\ op.at = "parent" /\ ParentOf(op.left) = None
    /\ op' = [op EXCEPT !.at = "new_root"]
    /\ UNCHANGED <<pages, root, inserts, faults, entries, garbled>>

\* insert_into_parent when the parent cannot be read (an error) or is a leaf
\* (unreachable!(), a panic).
BadParent ==
    /\ op.at = "parent" /\ ParentOf(op.left) # None
    /\ LET parent == Read(ParentOf(op.left))
       IN  /\ ~IsInternal(parent)
           /\ op' = IF IsLeaf(parent) THEN Panic ELSE NoOp
    /\ UNCHANGED <<pages, root, inserts, faults, entries, garbled>>

\* insert_into_parent when the parent has room.
InsertIntoParent ==
    /\ op.at = "parent" /\ ParentOf(op.left) # None
    /\ LET p == ParentOf(op.left)
           node == WithChild(Read(p), op.sep, op.right)
       IN  /\ IsInternal(Read(p))
           /\ Len(node.keys) =< MaxKeys
           /\ WriteAll(<<Stored(pages, p, node)>>, NoOp)
    /\ Succeeds
    /\ UNCHANGED <<root, inserts, garbled>>

\* insert_into_parent and split_internal: the middle key moves up.  The
\* children that move to the new node keep their parent pointers.
SplitInternal ==
    /\ op.at = "parent" /\ ParentOf(op.left) # None
    /\ LET p == ParentOf(op.left)
           node == WithChild(Read(p), op.sep, op.right)
           mid == Len(node.keys) \div 2
           left == Internal(node.parent, SubSeq(node.keys, 1, mid),
                            SubSeq(node.children, 1, mid + 1))
           right == Internal(node.parent, SubSeq(node.keys, mid + 2, Len(node.keys)),
                             SubSeq(node.children, mid + 2, Len(node.children)))
           halved == Stored(pages, p, left)
       IN  /\ IsInternal(Read(p))
           /\ Len(node.keys) > MaxKeys
           /\ WriteAll(<<halved, Stored(halved, NewPage, right)>>,
                       [op EXCEPT !.left = p, !.sep = node.keys[mid + 1],
                                  !.right = NewPage])
    /\ UNCHANGED <<root, inserts, entries, garbled>>

------------------------------------------------------------------------------
(* What is below a page                                                    *)

\* No path down is longer than there are internal nodes, and no chain of next
\* pointers longer than there are leaves.
Pages(kind) == Cardinality({p \in DOMAIN pages : pages[p].kind = kind})

\* The pages reachable from p along children.
Below(p) ==
    LET level[d \in 0..Pages("internal")] ==
            IF d = 0 THEN {p}
            ELSE UNION {ToSet(Read(q).children) : q \in
                           {q \in level[d - 1] : IsInternal(Read(q))}}
    IN  UNION {level[d] : d \in 0..Pages("internal")}

AllBelow(p) == UNION {EntriesOf(Read(q)) : q \in Below(p)}

\* Does write_parent misalign this node?
Misaligns(node) == node.parent = None /\ ~(IsLeaf(node) /\ node.next # None)

\* Mutation: the left child gets its sibling as parent.
NewRoot_Sibling ==
    /\ op.at = "new_root"
    /\ \E l \in WriteParent(Read(op.left), op.right),
          r \in WriteParent(Read(op.right), NewPage) :
          LET first == Stored(pages, op.left, l)
              second == Stored(first, op.right, r)
              top == Internal(None, <<op.sep>>, <<op.left, op.right>>)
          IN  WriteAll(<<first, second, Stored(second, NewPage, top)>>, NoOp)
    /\ root' = IF faults' = faults THEN NewPage ELSE root
    /\ garbled' = garbled \cup
          UNION {AllBelow(p) : p \in {q \in {op.left, op.right} :
                    Misaligns(Read(q)) /\ pages'[q] # pages[q]}}
    /\ Succeeds
    /\ UNCHANGED inserts

\* new_root: the children get their parent, then the root is written, then it
\* becomes the root.
NewRoot ==
    /\ op.at = "new_root"
    /\ \E l \in WriteParent(Read(op.left), NewPage),
          r \in WriteParent(Read(op.right), NewPage) :
          LET first == Stored(pages, op.left, l)
              second == Stored(first, op.right, r)
              top == Internal(None, <<op.sep>>, <<op.left, op.right>>)
          IN  WriteAll(<<first, second, Stored(second, NewPage, top)>>, NoOp)
    /\ root' = IF faults' = faults THEN NewPage ELSE root
    /\ garbled' = garbled \cup
          UNION {AllBelow(p) : p \in {q \in {op.left, op.right} :
                    Misaligns(Read(q)) /\ pages'[q] # pages[q]}}
    /\ Succeeds
    /\ UNCHANGED inserts

Next ==
    \/ \E k \in Key : Insert(k)
    \/ Descend
    \/ InsertIntoLeaf
    \/ SplitLeaf
    \/ NoParent
    \/ BadParent
    \/ InsertIntoParent
    \/ SplitInternal
    \/ NewRoot

Spec == Init /\ [][Next]_vars

------------------------------------------------------------------------------
(* Properties                                                              *)

WellFormed(node) ==
    CASE IsLeaf(node) ->
            Len(node.keys) = Len(node.values) /\ Len(node.keys) =< MaxKeys
      [] IsInternal(node) ->
            Len(node.children) = Len(node.keys) + 1 /\ Len(node.keys) \in 1..MaxKeys
      [] OTHER -> node.kind \in {"data", "unreadable"}

\* Type invariant: every page is a data page or a node within its limits.
TypeOK ==
    /\ \A p \in DOMAIN pages : WellFormed(pages[p])
    /\ root \in DOMAIN pages
    /\ op.at \in {"idle", "panic", "descend", "leaf", "parent", "new_root"}
    /\ inserts \in 0..MaxInserts /\ faults \in 0..MaxFaults

\* find_leaf: where the search for k ends.
FindLeaf(k) ==
    LET at[d \in 0..Pages("internal")] ==
            IF d = 0 THEN root
            ELSE LET node == Read(at[d - 1])
                 IN  IF IsInternal(node) THEN node.children[FindChild(node.keys, k)]
                     ELSE at[d - 1]
    IN  at[Pages("internal")]

\* insert_into_parent marks a leaf as parent as unreachable!() (btree.rs:681).
\* However splits cascade, whichever write fails, and wherever the pointers of a
\* misread node lead an insert, it is not met.  (A split or a new_root that failed
\* half-way leaves a pointer to a page that does not exist yet; the next page to be
\* allocated is a data page, because the engine writes one before it turns to the
\* index.)
NoPanic == op # Panic

\* An internal node that has a parent was misread: the one it was written with had
\* none, and set_parent went over its entries.
Misread == \E p \in DOMAIN pages : IsInternal(pages[p]) /\ pages[p].parent # None

LeavesBelow(p) == {q \in Below(p) : IsLeaf(Read(q))}
InternalBelow(p) == {q \in Below(p) : IsInternal(Read(q))}
Separators == UNION {ToSet(Read(q).keys) : q \in InternalBelow(root)}

\* No node has the same separator twice.  It can have, when two leaves are split at
\* the same key: insert_into_parent places a new leaf by its separator, and not
\* next to the leaf it was split from, so that the second new leaf comes to stand
\* behind the first, which has the greater keys.
SeparatorsDiffer == \A q \in InternalBelow(root) : IsInjective(Read(q).keys)

\* A key in a leaf of the tree is searched for in that leaf, unless it equals a
\* separator (then its duplicates may have been split apart, and the search goes
\* to the right).
Searched == \A p \in LeavesBelow(root) : \A k \in Key \cap ToSet(Read(p).keys) :
               FindLeaf(k) = p \/ k \in Separators

\* The search tree property, as long as the separators are in order: no internal
\* node was misread, no misread key has become a separator, and no node has one
\* twice.
Routed == op = NoOp /\ ~Misread /\ Separators \subseteq Key /\ SeparatorsDiffer => Searched

\* While no write fails, and until set_parent leaves an internal node that is
\* misread, an entry whose insert returned Ok is in a leaf of the tree, or was on a
\* page that set_parent misaligned: nothing else in the split of leaves and
\* internal nodes loses an entry.
EntriesKept ==
    op = NoOp /\ faults = 0 /\ ~Misread => entries \subseteq garbled \cup AllBelow(root)

\* The engine and the tree allocate pages from the same file, each with a
\* PageFile of its own: the tree never writes over a data page, and no data
\* page becomes a node of the tree, in the part of it that is reachable or not.
\* (A misread node, which has a parent, may point at a data page; find_leaf
\* refuses it.)
DataPagesKept ==
    /\ \A e \in entries : pages[e[2]] = Data
    /\ Read(root).kind # "data"
    /\ \A p \in DOMAIN pages : IsInternal(pages[p]) /\ pages[p].parent = None =>
          \A i \in DOMAIN pages[p].children : Read(pages[p].children[i]).kind # "data"

------------------------------------------------------------------------------
(* What comments say and the tree does not do                              *)

\* BTree::get: the page of the first entry with the key.
Get(k) ==
    LET leaf == Read(FindLeaf(k))
        at == IF IsLeaf(leaf) THEN {i \in DOMAIN leaf.keys : leaf.keys[i] = k} ELSE {}
    IN  IF at = {} THEN None
        ELSE leaf.values[CHOOSE i \in at : \A j \in at : i =< j]

\* btree.rs:545, on get: "PageId where data is stored for a given key".
InsertedFound == op = NoOp => \A e \in entries : <<e[1], Get(e[1])>> \in entries

==============================================================================
