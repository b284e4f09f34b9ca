--------------------------- MODULE ConsistentHash ---------------------------
(***************************************************************************)
(* ConsistentHash of pkg/hash/consisten_hash.go: the ring of nodes, changed *)
(* by Add and Remove, one insertion or removal at a time, while a Get looks *)
(* a key up in two steps, findIndex and get, under two separate read locks. *)
(*                                                                         *)
(* There is one writer: Add and Remove write nodeMap without a lock, so    *)
(* that callers have to take turns.  findIndex and the insertion or removal *)
(* that follows are then one step, as nobody else changes the ring.        *)
(***************************************************************************)
EXTENDS Integers, Sequences, FiniteSets, SequencesExt

CONSTANTS Node,      \* ids of nodes
          Virtual,   \* virtual nodes per node, 100 in the code
          Hashes,    \* the functions Hash may be on the entries' names
          Keys       \* the hashes of the keys looked up

\* An entry of the ring: a node (number 0) or one of its virtual nodes.
Entry == Node \X (0..Virtual)

VARIABLES
  hash,     \* Hash on the entries' names, chosen once
  nodes,    \* ConsistentHash.nodes
  nodeMap,  \* nodeMap: the virtual nodes recorded for each node in it
  writer,   \* the Add or Remove under way: op, node and the entries to go
  get,      \* the Get under way or answered: its key, index and answer
  raced     \* history: what the writer did to the ring during the Get

vars == <<hash, nodes, nodeMap, writer, get, raced>>

Idle == [op |-> "idle"]
NoGet == [at |-> "none"]

Init ==
  /\ hash \in Hashes
  /\ nodes = <<>>
  /\ nodeMap = <<>>
  /\ writer = Idle
  /\ get = NoGet
  /\ raced = {}

-----------------------------------------------------------------------------
\* findIndex(h): the loop from (left, right, exist); the index after the last
\* hash that is not above h, and whether h itself was met.  In a variant the
\* search stops before an equal hash.
SearchBefore(h, ring) ==
  LET n == Len(ring)
      loop[left \in 0..n, right \in 0..n, exist \in BOOLEAN] ==
        IF left >= right THEN <<left, exist>>
        ELSE LET middle == (left + right) \div 2
                 x == hash[ring[middle + 1]]
             IN IF x < h THEN loop[middle + 1, right, exist]
                ELSE loop[left, middle, exist \/ x = h]
  IN loop[0, n, FALSE]

findIndex(h, ring) ==
  LET n == Len(ring)
      loop[left \in 0..n, right \in 0..n, exist \in BOOLEAN] ==
        IF left >= right THEN <<left, exist>>
        ELSE LET middle == (left + right) \div 2
                 x == hash[ring[middle + 1]]
             IN IF x <= h THEN loop[middle + 1, right, exist \/ x = h]
                ELSE loop[left, middle, exist]
  IN loop[0, n, FALSE]

\* addNode; removeIndex.
addNode(e) == InsertAt(nodes, findIndex(hash[e], nodes)[1] + 1, e)
removeIndex(index) == RemoveAt(nodes, index + 1)

Entries(n, last) == [j \in 1..(last + 1) |-> <<n, j - 1>>]

\* Add(n): the node is put in the map first; then come its entries.
AddCall(n) ==
  /\ writer = Idle
  /\ n \notin DOMAIN nodeMap
  /\ nodeMap' = [m \in DOMAIN nodeMap \cup {n} |-> IF m = n THEN {} ELSE nodeMap[m]]
  /\ writer' = [op |-> "add", node |-> n, todo |-> Entries(n, Virtual)]
  /\ UNCHANGED <<hash, nodes, get, raced>>

\* addNode, and the virtual node is recorded in the map.
AddEntry ==
  /\ writer.op = "add"
  /\ LET e == Head(writer.todo)
         rest == Tail(writer.todo)
     IN /\ nodes' = addNode(e)
        /\ nodeMap' = IF e[2] = 0 THEN nodeMap
                      ELSE [nodeMap EXCEPT ![e[1]] = @ \cup {e[2]}]
        /\ writer' = IF rest = <<>> THEN Idle ELSE [writer EXCEPT !.todo = rest]
  /\ raced' = raced \cup {"add"}
  /\ UNCHANGED <<hash, get>>

\* Remove(n): the virtual nodes in the order they were added, then the node.
RemoveCall(n) ==
  /\ writer = Idle
  /\ n \in DOMAIN nodeMap
  /\ writer' = [op |-> "remove", node |-> n,
                todo |-> Append(Tail(Entries(n, Virtual)), <<n, 0>>)]
  /\ UNCHANGED <<hash, nodes, nodeMap, get, raced>>

\* Variant: the index findIndex gives is used as it is.
RemoveEntryNext ==
  /\ writer.op = "remove"
  /\ LET e == Head(writer.todo)
         rest == Tail(writer.todo)
         index == findIndex(hash[e], nodes)[1]
     IN /\ nodes' = IF index < Len(nodes) THEN removeIndex(index) ELSE Front(nodes)
        /\ nodeMap' = IF rest # <<>> THEN nodeMap
                      ELSE [m \in DOMAIN nodeMap \ {e[1]} |-> nodeMap[m]]
        /\ writer' = IF rest = <<>> THEN Idle ELSE [writer EXCEPT !.todo = rest]
  /\ raced' = raced \cup {"remove"}
  /\ UNCHANGED <<hash, get>>

\* One entry is looked up by its hash and removed.  When no such hash is found
\* Remove gives up, with the node still in the map.
RemoveEntry ==
  /\ writer.op = "remove"
  /\ LET e == Head(writer.todo)
         rest == Tail(writer.todo)
         found == findIndex(hash[e], nodes)
     IN IF ~found[2]
        THEN writer' = [op |-> "failed"] /\ UNCHANGED <<nodes, nodeMap>>
        ELSE /\ nodes' = removeIndex(found[1] - 1)
             /\ nodeMap' = IF rest # <<>> THEN nodeMap
                           ELSE [m \in DOMAIN nodeMap \ {e[1]} |-> nodeMap[m]]
             /\ writer' = IF rest = <<>> THEN Idle ELSE [writer EXCEPT !.todo = rest]
  /\ raced' = raced \cup {"remove"}
  /\ UNCHANGED <<hash, get>>

\* Get(key): findIndex.
GetIndex(k) ==
  /\ get.at # "found"
  /\ get' = [at |-> "found", key |-> k, index |-> findIndex(k, nodes)[1]]
  /\ raced' = {}
  /\ UNCHANGED <<hash, nodes, nodeMap, writer>>

\* Variant: the entry before the index answers.
LookupBefore(index) ==
  CASE nodes = <<>> -> "none"
    [] nodes # <<>> /\ index = 0 -> Head(nodes)[1]
    [] nodes # <<>> /\ index \in 1..Len(nodes) -> nodes[index][1]
    [] nodes # <<>> /\ index > Len(nodes) -> "panic"

\* get(index): an index behind the last node means the last node; one still
\* further behind is out of range.  The answer is the real node of the entry.
Lookup(index) ==
  CASE nodes = <<>> -> "none"
    [] nodes # <<>> /\ index = Len(nodes) -> Last(nodes)[1]
    [] nodes # <<>> /\ index < Len(nodes) -> nodes[index + 1][1]
    [] nodes # <<>> /\ index > Len(nodes) -> "panic"

GetNode ==
  /\ get.at = "found"
  /\ get' = [at |-> "answered", key |-> get.key, node |-> Lookup(get.index)]
  /\ UNCHANGED <<hash, nodes, nodeMap, writer, raced>>

Next ==
  \/ \E n \in Node : AddCall(n) \/ RemoveCall(n)
  \/ AddEntry
  \/ RemoveEntry
  \/ \E k \in Keys : GetIndex(k)
  \/ GetNode

-----------------------------------------------------------------------------
Distinct == \A e, f \in Entry : e # f => hash[e] # hash[f]

\* The node a key belongs to: that of the least hash above the key's, or of the
\* greatest hash of all when there is none (the ring is not closed).
Owner(k, entries) ==
  LET above == {e \in entries : hash[e] > k}
  IN IF above # {}
     THEN (CHOOSE e \in above : \A f \in above : hash[e] <= hash[f])[1]
     ELSE (CHOOSE e \in entries : \A f \in entries : hash[e] >= hash[f])[1]

\* Every variable has its type, and the ring never has more entries than there
\* are names.
TypeOK ==
  /\ hash \in Hashes
  /\ \A i \in DOMAIN nodes : nodes[i] \in Entry
  /\ Len(nodes) <= Cardinality(Entry)
  /\ DOMAIN nodeMap \subseteq Node
  /\ \A n \in DOMAIN nodeMap : nodeMap[n] \subseteq 1..Virtual
  /\ writer.op \in {"idle", "add", "remove", "failed"}
  /\ get.at \in {"none", "found", "answered"}
  /\ raced \subseteq {"add", "remove"}

\* The state is well typed.  The ring is always sorted by hash, also when names
\* have equal hashes; between two calls it has as many entries as the nodes of
\* the map should have, and when all hashes differ these are their entries and
\* no others.  Remove of a node in the map never fails (Add, Remove, addNode,
\* findIndex).
RingMatchesMap ==
  /\ TypeOK
  /\ \A i \in 1..(Len(nodes) - 1) : hash[nodes[i]] <= hash[nodes[i + 1]]
  /\ writer.op # "failed"
  /\ writer = Idle =>
       /\ Len(nodes) = Cardinality(DOMAIN nodeMap) * (Virtual + 1)
       /\ \A n \in DOMAIN nodeMap : nodeMap[n] = 1..Virtual
       /\ Distinct => ToSet(nodes) = (DOMAIN nodeMap) \X (0..Virtual)

\* A Get during which the ring did not change answers the key's owner.  One that
\* only an Add overtook still answers a node of the ring, though maybe another
\* one; the index of one that a Remove overtook may be out of range (Get, get).
GetReturnsOwner ==
  get.at = "answered" /\ nodes # <<>> =>
    /\ raced = {} /\ Distinct => get.node = Owner(get.key, ToSet(nodes))
    /\ raced \subseteq {"add"} /\ get.node # "none" => get.node \in Node

\* An insertion moves keys to the node that is added only, and a removal moves
\* the keys of the node that is removed only; with equal hashes a removal may
\* take the entry of another node (Remove finds entries by their hash).
MovesOnlyItsKeys ==
  [][nodes # nodes' /\ nodes # <<>> /\ nodes' # <<>> /\ Distinct =>
       \A k \in Keys :
         LET before == Owner(k, ToSet(nodes))
             after == Owner(k, ToSet(nodes'))
         IN before # after =>
              \/ writer.op = "add" /\ after = writer.node
              \/ writer.op = "remove" /\ before = writer.node]_vars
=============================================================================
