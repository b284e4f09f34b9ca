------------------------------ MODULE Selector ------------------------------
(***************************************************************************)
(* The selectors of pkg/rpc that choose the server of a call: the          *)
(* round-robin one BaseClient uses by default (service_router.go) and the   *)
(* one that routes by a target or a tag in the request's metadata          *)
(* (selector.go), which falls back on round robin and cannot do without    *)
(* metadata.  The rpcx client calls Select and UpdateServer under its own  *)
(* lock, one at a time.                                                    *)
(***************************************************************************)
EXTENDS Integers, Sequences, FiniteSets, SequencesExt

CONSTANTS Server,   \* addresses of servers
          Tag       \* tags a caller may put in the metadata

VARIABLES
  metadata,  \* the client's selector is the one of selector.go
  servers,   \* RoundRobinSelector.servers
  i,         \* RoundRobinSelector.i
  services,  \* selector.services: the keys
  tags,      \* selector.tags
  picks,     \* history: what round robin chose since the last update, as many
             \* as there are servers at most
  asked,     \* history: the metadata of the last Select, NoMeta without any
  chosen     \* history: and what it returned, Panic if it did not return

vars == <<metadata, servers, i, services, tags, picks, asked, chosen>>

None == "none"
NoMeta == [target |-> "no metadata", tag |-> None]
NoServer == ""
Panic == "panic"

\* Nothing in the package writes tags: they are what the selector was given.
Init ==
  /\ metadata \in BOOLEAN
  /\ servers = <<>>
  /\ i = 0
  /\ services = {}
  /\ tags \in [Tag -> Server]
  /\ picks = <<>>
  /\ asked = NoMeta
  /\ chosen = NoServer

-----------------------------------------------------------------------------
\* UpdateServer of both: the list is replaced, in the order of a Go map; the
\* services, which only selector has, only grow.  The round-robin index is kept.
UpdateServer(new) ==
  /\ servers' \in SetToSeqs(new)
  /\ services' = IF metadata THEN services \cup new ELSE services
  /\ picks' = <<>>
  /\ UNCHANGED <<metadata, i, tags, asked, chosen>>

\* RoundRobinSelector.SelectNext.
SelectNext ==
  LET n == Len(servers)
      k == i % n
  IN IF n = 0 THEN i' = i /\ chosen' = NoServer /\ UNCHANGED picks
     ELSE /\ i' = k + 1
          /\ chosen' = servers[k + 1]
          /\ picks' = Append(IF Len(picks) < n THEN picks ELSE Tail(picks), chosen')

\* The tag names a known server.
ByTag(tag) == tag # None /\ tags[tag] \in services

\* RoundRobinSelector.Select: the context is not looked at.
RoundRobin(meta) ==
  /\ ~metadata
  /\ asked' = meta
  /\ SelectNext
  /\ UNCHANGED <<metadata, servers, services, tags>>

\* Variant: the tag goes before the target.
SelectTagFirst(meta) ==
  /\ metadata
  /\ asked' = meta
  /\ \/ /\ meta # NoMeta /\ ByTag(meta.tag)
        /\ chosen' = tags[meta.tag] /\ UNCHANGED <<i, picks>>
     \/ /\ meta # NoMeta /\ ~ByTag(meta.tag)
        /\ meta.target \in services
        /\ chosen' = meta.target /\ UNCHANGED <<i, picks>>
     \/ /\ meta # NoMeta /\ ~ByTag(meta.tag)
        /\ meta.target \notin services
        /\ SelectNext
     \/ /\ meta = NoMeta
        /\ chosen' = Panic /\ UNCHANGED <<i, picks>>
  /\ UNCHANGED <<metadata, servers, services, tags>>

\* selector.Select: the target if it is known, else the tag's server if that is
\* known, else round robin.  A context without metadata, which is what the
\* clients of this repository pass, fails the type assertion of its first line.
Select(meta) ==
  /\ metadata
  /\ asked' = meta
  /\ \/ /\ meta # NoMeta /\ meta.target \in services
        /\ chosen' = meta.target /\ UNCHANGED <<i, picks>>
     \/ /\ meta # NoMeta /\ meta.target \notin services
        /\ ByTag(meta.tag)
        /\ chosen' = tags[meta.tag] /\ UNCHANGED <<i, picks>>
     \/ /\ meta # NoMeta /\ meta.target \notin services
        /\ ~ByTag(meta.tag)
        /\ SelectNext
     \/ /\ meta = NoMeta
        /\ chosen' = Panic /\ UNCHANGED <<i, picks>>
  /\ UNCHANGED <<metadata, servers, services, tags>>

Meta == [target : Server \cup {None}, tag : Tag \cup {None}] \cup {NoMeta}

Next ==
  \/ \E new \in SUBSET Server : UpdateServer(new)
  \/ \E meta \in Meta : RoundRobin(meta)
  \/ \E meta \in Meta : Select(meta)

-----------------------------------------------------------------------------
\* Where a call may go.  With the metadata selector, one without metadata goes
\* nowhere, and no other panics; one with a known target goes there; a server
\* missing from the last list is chosen only if the caller named it, by target or
\* by tag, and some earlier list had it (services never shrinks: such a server may
\* be gone).  With the default selector no metadata reaches a server that is not
\* in the last list.  Either returns none only when the list is empty.  Round
\* robin takes turns: as many choices in a row as there are servers, with calls
\* routed by metadata or panicking in between, go to different servers, whatever
\* the index was when the list was replaced (SelectNext).
RoutedAsAsked ==
  [][asked' # asked \/ chosen' # chosen =>
       /\ chosen' = Panic <=> metadata /\ asked' = NoMeta
       /\ metadata /\ asked'.target \in services => chosen' = asked'.target
       /\ IsInjective(picks')
       /\ \/ chosen' = Panic
          \/ chosen' \in ToSet(servers)
          \/ /\ metadata /\ chosen' \in services
             /\ \/ chosen' = asked'.target
                \/ asked'.tag # None /\ chosen' = tags[asked'.tag]
          \/ chosen' = NoServer /\ servers = <<>>]_vars
=============================================================================
