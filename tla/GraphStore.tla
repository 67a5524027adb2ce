----------------------------- MODULE GraphStore -----------------------------
(***************************************************************************)
(* The knowledge graph of one vault: entities scoped to a boundary,        *)
(* bi-temporal relationships between them, and the two ways the read path  *)
(* asks for what is connected - the recursive traversal of graph_store.rs  *)
(* and the graph channel of strategies/graph.rs.  All work goes through    *)
(* one connection behind a mutex, so every operation is one step.          *)
(*                                                                         *)
(* Identifiers, names and memories are model values.  A relationship's     *)
(* identifier is its position in rels; time is a small number, 0 stands    *)
(* for SQL NULL in `until'.                                                *)
(***************************************************************************)
EXTENDS Naturals, Sequences, FiniteSets

CONSTANTS
  GEntities,       \* entity ids callers may insert
  GKeyOf,          \* their (name, entity_type)
  GBoundaryOf,     \* their boundary
  GProposals,      \* the relationships callers may ask for: from, to, type, src
  GAliases,        \* CROSS_BOUNDARY_RELATION_TYPES
  GNoMemory,       \* a NULL source_memory_id
  GMaxRels,        \* bound: rows ever inserted in relationships
  GMaxTime         \* bound: the clock

ASSUME GraphAssumption ==
  /\ GMaxRels \in Nat
  /\ GMaxTime \in Nat
  /\ \A p \in GProposals : p.from \in GEntities /\ p.to \in GEntities

VARIABLES
  ents,            \* rows of entities
  rels,            \* rows of relationships, in order of insertion
  gnow             \* Utc::now()

graphVars == <<ents, rels, gnow>>

GBoundaries == {GBoundaryOf[e] : e \in GEntities}
Live(r) == r.until = 0

GraphTypeOK ==
  /\ ents \subseteq GEntities
  /\ rels \in Seq([from : GEntities, to : GEntities,
                   type : {p.type : p \in GProposals}, bnd : GBoundaries,
                   vfrom : 1..GMaxTime, until : 0..GMaxTime,
                   src : {p.src : p \in GProposals}])
  /\ gnow \in 1..GMaxTime

GraphInit == /\ ents = {}
             /\ rels = <<>>
             /\ gnow = 1

-----------------------------------------------------------------------------
\* Writes.

\* Insert under a pre-flight duplicate check in the same transaction.
CreateEntity(e) ==
  /\ e \notin ents
  /\ \A d \in ents : <<GKeyOf[d], GBoundaryOf[d]>> # <<GKeyOf[e], GBoundaryOf[e]>>
  /\ ents' = ents \cup {e}
  /\ UNCHANGED <<rels, gnow>>

\* Both endpoints exist, and only an alias may span boundaries (ADR-015).
MayRelate(p) ==
  /\ {p.from, p.to} \subseteq ents
  /\ GBoundaryOf[p.from] # GBoundaryOf[p.to] => p.type \in GAliases

\* The row inserted for a proposal; the boundary column is the from-side's.
NewRow(p, at) ==
  [from |-> p.from, to |-> p.to, type |-> p.type, bnd |-> GBoundaryOf[p.from],
   vfrom |-> at, until |-> 0, src |-> p.src]

CreateRelationship(p) ==
  /\ Len(rels) < GMaxRels
  /\ MayRelate(p)
  /\ rels' = Append(rels, NewRow(p, gnow))
  /\ UNCHANGED <<ents, gnow>>

\* The caller built the new relationship at time `at', possibly before the old
\* row's valid_from; then, and when the old row is already closed, the
\* transaction is dropped and nothing changes.
Supersede(old, p, at) ==
  /\ Len(rels) < GMaxRels
  /\ Live(rels[old])
  /\ MayRelate(p)
  /\ rels[old].vfrom <= at
  /\ rels' = Append([rels EXCEPT ![old].until = at], NewRow(p, at))
  /\ UNCHANGED <<ents, gnow>>

\* One UPDATE over the live rows of the memory; a row that would end before it
\* begins fails the CHECK and with it the whole statement.
Retires(m) == {i \in DOMAIN rels : Live(rels[i]) /\ rels[i].src = m /\ m # GNoMemory}

RetireForMemory(m) ==
  /\ Retires(m) # {}
  /\ \A i \in Retires(m) : rels[i].vfrom <= gnow
  /\ rels' = [i \in DOMAIN rels |->
                IF i \in Retires(m) THEN [rels[i] EXCEPT !.until = gnow] ELSE rels[i]]
  /\ UNCHANGED <<ents, gnow>>

\* The wall clock; it may be set back.
Clock == /\ gnow' \in 1..GMaxTime
         /\ gnow' # gnow
         /\ UNCHANGED <<ents, rels>>

GraphNext ==
  \/ \E e \in GEntities : CreateEntity(e)
  \/ \E p \in GProposals : CreateRelationship(p)
  \/ \E old \in DOMAIN rels, p \in GProposals, at \in 1..gnow : Supersede(old, p, at)
  \/ \E p \in GProposals : RetireForMemory(p.src)
  \/ Clock

GraphSpec == GraphInit /\ [][GraphNext]_graphVars

-----------------------------------------------------------------------------
\* Reads.

\* Mutant: the rows' boundary is not checked, only the last entity's.
FollowableAnywhere(auth, aliases) ==
  {i \in DOMAIN rels : Live(rels[i]) /\ (aliases \/ rels[i].type \notin GAliases)}

\* Rows a traversal may follow: live, in an authorized boundary, and no alias
\* unless aliases are followed.
Followable(auth, aliases) ==
  {i \in DOMAIN rels : /\ Live(rels[i])
                       /\ rels[i].bnd \in auth
                       /\ aliases \/ rels[i].type \notin GAliases}

\* The entities of a walk over rows, its start first (entity_path).
Visited(w) == {rels[w[1]].from} \cup {rels[w[k]].to : k \in DOMAIN w}
EndOf(w) == rels[w[Len(w)]].to

\* The recursive CTE: all walks of d rows from an entity that enter no entity
\* of the path a second time.
Walks(from, auth, aliases, hops) ==
  LET rows == Followable(auth, aliases)
      W[d \in 1..hops] ==
        IF d = 1
        THEN {<<i>> : i \in {j \in rows : rels[j].from = from}}
        ELSE UNION {{Append(w, i) : i \in {j \in rows : /\ rels[j].from = EndOf(w)
                                                         /\ rels[j].to \notin Visited(w)}}
                    : w \in W[d - 1]}
  IN  UNION {W[d] : d \in 1..hops}

\* One of the shortest walks per entity whose own boundary is authorized.
Traverse(from, auth, aliases, hops) ==
  IF auth = {} \/ hops = 0 THEN {}
  ELSE LET ws == {w \in Walks(from, auth, aliases, hops) : GBoundaryOf[EndOf(w)] \in auth}
       IN  {CHOOSE w \in ws : /\ EndOf(w) = e
                              /\ \A v \in ws : EndOf(v) = e => Len(w) <= Len(v)
            : e \in {EndOf(w) : w \in ws}}

\* relationships_for_entity: the live rows touching an entity on either side.
RelationshipsFor(e, auth) ==
  {i \in DOMAIN rels : /\ Live(rels[i])
                       /\ rels[i].bnd \in auth
                       /\ e \in {rels[i].from, rels[i].to}}

\* The graph channel of the read path: the memories behind the rows touching a
\* matched entity and behind the rows of the paths that leave it.
MaxHops == 2
GraphHits(e, auth) ==
  LET rows == RelationshipsFor(e, auth) \cup
              UNION {{w[k] : k \in DOMAIN w} : w \in Traverse(e, auth, FALSE, MaxHops)}
  IN  {rels[i].src : i \in rows} \ {GNoMemory}

-----------------------------------------------------------------------------
\* Properties.

\* Reference for the traversal: the entities at most d rows away, by steps.
Within(from, auth, aliases, hops) ==
  LET rows == Followable(auth, aliases)
      R[d \in 0..hops] ==
        IF d = 0 THEN {from}
        ELSE R[d - 1] \cup {rels[i].to : i \in {j \in rows : rels[j].from \in R[d - 1]}}
  IN  R

\* What the read side finds is what steps over rows of the caller's boundaries reach.
\* Nothing of another boundary, the entities a path only passes through included, and
\* nothing that was retired: the traversal checks the boundary column of the rows and the
\* boundary of the last entity, never that of the others.  And every authorized entity
\* within the hop limit, by a shortest path, although the CTE enumerates only cycle-free
\* walks and the code keeps the first row it sees per entity; the graph channel offers,
\* for each entity one or two rows away, a memory whose row leads there.
TraversalIsReach ==
  \A from \in ents, auth \in (SUBSET GBoundaries) \ {{}} :
    /\ \A aliases \in BOOLEAN :
         LET R  == Within(from, auth, aliases, 3)
             ws == Traverse(from, auth, aliases, 3)
         IN  /\ \A e \in {x \in R[3] : GBoundaryOf[x] \in auth} \ {from} :
                  \E w \in ws : EndOf(w) = e /\ e \notin R[Len(w) - 1]
             /\ \A w \in ws : /\ EndOf(w) \in R[Len(w)]
                            /\ \A e \in Visited(w) : GBoundaryOf[e] \in auth
                            /\ \A k \in DOMAIN w : Live(rels[w[k]])
    /\ \A m \in GraphHits(from, auth) :
         \E i \in Followable(auth, TRUE) : rels[i].src = m
    /\ LET R == Within(from, auth, FALSE, MaxHops)
       IN  \A x \in {y \in R[MaxHops] : GBoundaryOf[y] \in auth} \ {from} :
             \E i \in Followable(auth, FALSE) :
               /\ rels[i].to = x
               /\ rels[i].from \in R[MaxHops - 1]
               /\ rels[i].src \in GraphHits(from, auth) \cup {GNoMemory}
=============================================================================
