----------------------------- MODULE MCRouting -----------------------------
(***************************************************************************)
(* The two ways the repository has of choosing a server, for TLC: the      *)
(* consistent hash of pkg/hash and the selectors of pkg/rpc.  They share   *)
(* nothing; a behaviour exercises one of them, chosen at the start.        *)
(***************************************************************************)
EXTENDS Integers, Sequences, FiniteSets, TLC

CONSTANTS Node, Virtual, Server, Tag

VARIABLES hash, nodes, nodeMap, writer, get, raced,
          metadata, servers, i, services, tags, picks, asked, chosen,
          part

\* Hash on the entries of the ring: without collisions, in every order; and with
\* collisions of all entries, or of all real and of all virtual ones.  A key is
\* before, between or behind the entries.
Entries == Node \X (0..Virtual)
Size == Cardinality(Entries)
Hashes == {f \in [Entries -> 1..Size] : \A e, g \in Entries : e # g => f[e] # f[g]}
          \cup {[e \in Entries |-> IF e[2] = 0 THEN x ELSE y] : x, y \in 1..2}
Keys == {0, 1, Size \div 2, Size}

hashVars == <<hash, nodes, nodeMap, writer, get, raced>>
routeVars == <<metadata, servers, i, services, tags, picks, asked, chosen>>

Hash == INSTANCE ConsistentHash
Route == INSTANCE Selector

Init ==
  /\ part \in {"hash", "selector"}
  /\ Hash!Init
  /\ Route!Init
  /\ part = "hash" => ~metadata /\ tags = [t \in Tag |-> CHOOSE s \in Server : TRUE]
  /\ part = "selector" => hash = [e \in Entries |-> 1]

Next ==
  \/ part = "hash" /\ Hash!Next /\ UNCHANGED <<routeVars, part>>
  \/ part = "selector" /\ Route!Next /\ UNCHANGED <<hashVars, part>>

Spec == Init /\ [][Next]_<<hashVars, routeVars, part>>

\* The ring is well typed and sorted and holds the entries of the nodes in the map; Remove of a
\* node in the map never fails.
RingMatchesMap == Hash!RingMatchesMap

\* A Get during which the ring did not change answers the key's owner, and one
\* that only an Add overtook a node of the ring.
GetReturnsOwner == Hash!GetReturnsOwner

\* An insertion moves keys to the node that is added, a removal those of the
\* node that is removed, and no others.
MovesOnlyItsKeys == Hash!MovesOnlyItsKeys

\* A call goes where its metadata says, else to a server of the last list, in
\* turns; without metadata the selector that reads it panics.
RoutedAsAsked == Route!RoutedAsAsked

Symmetry == Permutations(Node)
=============================================================================
