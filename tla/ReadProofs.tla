---------------------------- MODULE ReadProofs -----------------------------
(***************************************************************************)
(* What the read side finds, for any vault and any caller: the recursive   *)
(* traversal of graph_store.rs with the graph channel built on it, and a   *)
(* query through the channels of hybrid search, fusion and rank.           *)
(***************************************************************************)
EXTENDS GraphStore, Retrieval, FiniteSetTheorems, WellFoundedInduction, TLAPS

LEMMA LeastNumber ==
  ASSUME NEW S \in SUBSET Nat, S # {}
  PROVE  \E x \in S : \A y \in S : x <= y
<1>1. IsWellFoundedOn(OpToRel(<, Nat), Nat)
  BY NatLessThanWellFounded
<1>2. PICK x \in S : \A y \in S : <<y, x>> \notin OpToRel(<, Nat)
  BY <1>1, WFMin
<1>3. \A y \in S : ~ (y < x)
  BY <1>2 DEF OpToRel
<1>4. \A y \in S : x <= y
  BY <1>3
<1> QED BY <1>4

-----------------------------------------------------------------------------
(***************************************************************************)
(* The graph.  A row's boundary column is its from-side's, which is all    *)
(* the traversal has to go by for the entities a path passes through.      *)
(***************************************************************************)

GraphInv ==
  /\ ents \subseteq GEntities
  /\ rels \in Seq([from : GEntities, to : GEntities,
                   type : {p.type : p \in GProposals}, bnd : GBoundaries,
                   vfrom : Nat, until : Nat,
                   src : {p.src : p \in GProposals}])
  /\ \A i \in DOMAIN rels : rels[i].bnd = GBoundaryOf[rels[i].from]
  /\ gnow \in Nat

Rows == [from : GEntities, to : GEntities, type : {p.type : p \in GProposals},
         bnd : GBoundaries, vfrom : Nat, until : Nat, src : {p.src : p \in GProposals}]

LEMMA NewRowFits ==
  ASSUME NEW p \in GProposals, NEW at \in Nat
  PROVE  NewRow(p, at) \in Rows /\ NewRow(p, at).bnd = GBoundaryOf[NewRow(p, at).from]
  BY GraphAssumption DEF NewRow, Rows, GraphAssumption, GBoundaries

LEMMA ClosedRowFits ==
  ASSUME NEW r \in Rows, NEW at \in Nat
  PROVE  [r EXCEPT !.until = at] \in Rows /\ [r EXCEPT !.until = at].bnd = r.bnd
         /\ [r EXCEPT !.until = at].from = r.from
  BY DEF Rows

LEMMA GraphInvariant == GraphSpec => []GraphInv
<1>1. GraphInit => GraphInv
  BY DEF GraphInit, GraphInv
<1>2. GraphInv /\ [GraphNext]_graphVars => GraphInv'
  <2> SUFFICES ASSUME GraphInv, [GraphNext]_graphVars PROVE GraphInv'
    OBVIOUS
  <2> DEFINE Fits(s) == s \in Seq(Rows) /\ \A i \in DOMAIN s : s[i].bnd = GBoundaryOf[s[i].from]
  <2>0. Fits(rels) /\ gnow \in Nat /\ ents \subseteq GEntities
    BY DEF GraphInv, Rows
  <2>1. SUFFICES Fits(rels') /\ gnow' \in Nat /\ (ents \subseteq GEntities)'
    BY DEF GraphInv, Rows
  <2>2. CASE \E e \in GEntities : CreateEntity(e)
    BY <2>0, <2>2 DEF CreateEntity
  <2>3. CASE \E p \in GProposals : CreateRelationship(p)
    <3>1. PICK p \in GProposals : CreateRelationship(p)
      BY <2>3
    <3>2. PICK r \in Rows : r = NewRow(p, gnow) /\ r.bnd = GBoundaryOf[r.from]
      BY <2>0, NewRowFits
    <3>3. rels' = Append(rels, r) /\ UNCHANGED <<ents, gnow>>
      BY <3>1, <3>2 DEF CreateRelationship
    <3> QED BY <2>0, <3>2, <3>3
  <2>4. CASE \E old \in DOMAIN rels, p \in GProposals, at \in 1..gnow : Supersede(old, p, at)
    <3>1. PICK old \in DOMAIN rels, p \in GProposals, at \in 1..gnow : Supersede(old, p, at)
      BY <2>4
    <3>2. PICK r \in Rows : r = NewRow(p, at) /\ r.bnd = GBoundaryOf[r.from]
      BY <2>0, NewRowFits
    <3>3. PICK o \in Rows : /\ o = [rels[old] EXCEPT !.until = at]
                            /\ o.bnd = GBoundaryOf[o.from]
      <4>1. PICK r0 \in Rows : r0 = rels[old] /\ r0.bnd = GBoundaryOf[r0.from]
        BY <2>0
      <4>2. at \in Nat
        BY <2>0
      <4>3. PICK o \in Rows : o = [r0 EXCEPT !.until = at] /\ o.bnd = r0.bnd /\ o.from = r0.from
        BY <4>2, ClosedRowFits
      <4> QED BY <4>1, <4>3
    <3>4. rels' = Append([rels EXCEPT ![old] = o], r) /\ UNCHANGED <<ents, gnow>>
      BY <3>1, <3>2, <3>3 DEF Supersede
    <3>5. PICK s : s = [rels EXCEPT ![old] = o]
      OBVIOUS
    <3>6. s \in Seq(Rows) /\ DOMAIN s = DOMAIN rels
          /\ \A i \in DOMAIN s : s[i] = IF i = old THEN o ELSE rels[i]
      BY <2>0, <3>5
    <3>7. Fits(s)
      BY <2>0, <3>3, <3>6
    <3> QED BY <2>0, <3>2, <3>4, <3>5, <3>7
  <2>5. CASE \E p \in GProposals : RetireForMemory(p.src)
    <3>1. PICK m : RetireForMemory(m)
      BY <2>5
    <3>2. /\ rels' = [i \in DOMAIN rels |->
                        IF i \in Retires(m) THEN [rels[i] EXCEPT !.until = gnow] ELSE rels[i]]
          /\ UNCHANGED <<ents, gnow>>
      BY <3>1 DEF RetireForMemory
    <3>3. \A i \in DOMAIN rels : /\ [rels[i] EXCEPT !.until = gnow] \in Rows
                                 /\ [rels[i] EXCEPT !.until = gnow].bnd = rels[i].bnd
                                 /\ [rels[i] EXCEPT !.until = gnow].from = rels[i].from
      BY <2>0, ClosedRowFits
    <3>4. PICK g : g = [i \in DOMAIN rels |-> [rels[i] EXCEPT !.until = gnow]]
      OBVIOUS
    <3>5. \A i \in DOMAIN rels : g[i] \in Rows /\ g[i].bnd = rels[i].bnd /\ g[i].from = rels[i].from
      BY <3>3, <3>4
    <3>6. rels' = [i \in DOMAIN rels |-> IF i \in Retires(m) THEN g[i] ELSE rels[i]]
      BY <3>2, <3>4
    <3>7. \A i \in DOMAIN rels : /\ rels'[i] \in Rows
                                 /\ rels'[i].bnd = GBoundaryOf[rels'[i].from]
      BY <2>0, <3>5, <3>6
    <3>8. DOMAIN rels' = 1..Len(rels) /\ DOMAIN rels = 1..Len(rels) /\ Len(rels) \in Nat
      BY <2>0, <3>6
    <3>9. rels' = [i \in 1..Len(rels) |-> rels'[i]]
      BY <3>6, <3>8
    <3>10. rels' \in Seq(Rows)
      BY <3>7, <3>8, <3>9
    <3> QED BY <2>0, <3>2, <3>7, <3>8, <3>10
  <2>6. CASE Clock
    BY <2>0, <2>6, GraphAssumption DEF Clock, GraphAssumption
  <2>7. CASE UNCHANGED graphVars
    BY <2>0, <2>7 DEF graphVars
  <2> QED BY <2>2, <2>3, <2>4, <2>5, <2>6, <2>7 DEF GraphNext
<1> QED BY <1>1, <1>2, PTL DEF GraphSpec
-----------------------------------------------------------------------------
(* Steps and walks over any rows. *)

Steps(from, rows, hops, R) ==
  R = [d \in 0..hops |->
         IF d = 0 THEN {from}
         ELSE R[d - 1] \cup {rels[i].to : i \in {j \in rows : rels[j].from \in R[d - 1]}}]

Chain(w, from, rows) ==
  /\ w \in Seq(rows) /\ w # <<>>
  /\ rels[w[1]].from = from
  /\ \A k \in 2..Len(w) : rels[w[k]].from = rels[w[k - 1]].to

CycleFree(w, from) ==
  \A k \in 2..Len(w) : /\ rels[w[k]].to # from
                       /\ \A j \in 1..(k - 1) : rels[w[k]].to # rels[w[j]].to

Unfolds(from, rows, hops, R) ==
  /\ R[0] = {from}
  /\ \A d \in 1..hops : /\ d - 1 \in 0..hops
                        /\ R[d - 1] \subseteq R[d]
                        /\ \A e : e \in R[d] <=>
                             \/ e \in R[d - 1]
                             \/ \E i \in rows : rels[i].from \in R[d - 1] /\ rels[i].to = e

LEMMA StepsUnfold ==
  ASSUME NEW from, NEW rows, NEW hops \in Nat, NEW R, Steps(from, rows, hops, R)
  PROVE  Unfolds(from, rows, hops, R)
<1>1. R[0] = {from}
  BY DEF Steps
<1>2. ASSUME NEW d \in 1..hops
      PROVE  /\ d - 1 \in 0..hops
             /\ R[d] = R[d - 1] \cup {rels[i].to : i \in {j \in rows : rels[j].from \in R[d - 1]}}
  <2>1. d \in 0..hops /\ d # 0 /\ d - 1 \in 0..hops
    OBVIOUS
  <2>2. R[d] = IF d = 0 THEN {from}
               ELSE R[d - 1] \cup {rels[i].to : i \in {j \in rows : rels[j].from \in R[d - 1]}}
    BY <2>1, Zenon DEF Steps
  <2> QED BY <2>1, <2>2
<1>3. ASSUME NEW d \in 1..hops
      PROVE  \A e : e \in R[d] <=>
               \/ e \in R[d - 1]
               \/ \E i \in rows : rels[i].from \in R[d - 1] /\ rels[i].to = e
  BY <1>2
<1> QED BY <1>1, <1>2, <1>3 DEF Unfolds

LEMMA ChainExtends ==
  ASSUME NEW from, NEW rows, NEW v, Chain(v, from, rows),
         NEW i \in rows, rels[i].from = EndOf(v)
  PROVE  /\ Chain(Append(v, i), from, rows) /\ EndOf(Append(v, i)) = rels[i].to
         /\ Len(Append(v, i)) = Len(v) + 1
         /\ \A k \in 1..Len(v) : Append(v, i)[k] = v[k]
  BY DEF Chain, EndOf

LEMMA OneRowChain ==
  ASSUME NEW from, NEW rows, NEW i \in rows, rels[i].from = from
  PROVE  Chain(<<i>>, from, rows) /\ EndOf(<<i>>) = rels[i].to /\ Len(<<i>>) = 1
  BY DEF Chain, EndOf

LEMMA ChainPrefix ==
  ASSUME NEW from, NEW rows, NEW w, Chain(w, from, rows), NEW n \in 1..Len(w)
  PROVE  /\ Chain(SubSeq(w, 1, n), from, rows) /\ Len(SubSeq(w, 1, n)) = n
         /\ EndOf(SubSeq(w, 1, n)) = rels[w[n]].to
         /\ \A k \in 1..n : SubSeq(w, 1, n)[k] = w[k]
<1>1. PICK v : v = SubSeq(w, 1, n)
  OBVIOUS
<1>2. n \in Nat /\ n >= 1 /\ w \in Seq(rows)
  BY DEF Chain
<1>3. v \in Seq(rows) /\ Len(v) = n /\ v # <<>> /\ \A k \in 1..n : v[k] = w[k]
  BY <1>1, <1>2
<1>4. EndOf(v) = rels[w[n]].to
  <2>1. v[Len(v)] = w[n]
    BY <1>2, <1>3
  <2> QED BY <2>1 DEF EndOf
<1>5. /\ rels[w[1]].from = from /\ Len(w) \in Nat
      /\ \A k \in 2..Len(w) : rels[w[k]].from = rels[w[k - 1]].to
  BY DEF Chain
<1>6. rels[v[1]].from = from
  BY <1>2, <1>3, <1>5
<1>7. \A k \in 2..n : k \in 2..Len(w) /\ v[k] = w[k] /\ v[k - 1] = w[k - 1]
  BY <1>2, <1>3, <1>5
<1>8. \A k \in 2..Len(v) : rels[v[k]].from = rels[v[k - 1]].to
  BY <1>3, <1>5, <1>7
<1> QED BY <1>1, <1>3, <1>4, <1>6, <1>8 DEF Chain

\* The entities a chain of at most d rows ends in, the start included.
Ends(from, rows, d) ==
  {from} \cup {EndOf(w) : w \in {v \in Seq(rows) : Chain(v, from, rows) /\ Len(v) <= d}}

LEMMA EndsStep ==
  ASSUME NEW from, NEW rows, NEW d \in Nat \ {0}
  PROVE  Ends(from, rows, d) =
           Ends(from, rows, d - 1) \cup
           {rels[i].to : i \in {j \in rows : rels[j].from \in Ends(from, rows, d - 1)}}
<1> DEFINE C(n) == {v \in Seq(rows) : Chain(v, from, rows) /\ Len(v) <= n}
           E(n) == Ends(from, rows, n)
<1>1. \A n, e : e \in E(n) <=> e = from \/ \E w : /\ Chain(w, from, rows)
                                                  /\ Len(w) <= n /\ EndOf(w) = e
  BY DEF Ends, Chain
<1>2. \A w : Chain(w, from, rows) => Len(w) \in Nat /\ Len(w) >= 1
  BY DEF Chain
<1> HIDE DEF E
<1>3. ASSUME NEW e \in E(d)
      PROVE  e \in E(d - 1) \/ \E i \in rows : rels[i].from \in E(d - 1) /\ rels[i].to = e
  <2>1. CASE e = from
    BY <1>1, <2>1
  <2>2. CASE \E w : Chain(w, from, rows) /\ Len(w) <= d /\ EndOf(w) = e
    <3>1. PICK w : Chain(w, from, rows) /\ Len(w) <= d /\ EndOf(w) = e
      BY <2>2
    <3>2. CASE Len(w) <= d - 1
      BY <1>1, <3>1, <3>2
    <3>3. CASE Len(w) = d /\ d = 1
      <4>1. w[1] \in rows /\ rels[w[1]].from = from /\ rels[w[1]].to = e
        BY <3>1, <3>3 DEF Chain, EndOf
      <4> QED BY <1>1, <4>1
    <3>4. CASE Len(w) = d /\ d > 1
      <4>1. /\ w[d] \in rows /\ rels[w[d]].from = rels[w[d - 1]].to /\ rels[w[d]].to = e
            /\ d - 1 \in 1..Len(w)
        BY <3>1, <3>4 DEF Chain, EndOf
      <4>2. PICK v : Chain(v, from, rows) /\ Len(v) = d - 1 /\ EndOf(v) = rels[w[d - 1]].to
        <5>1. /\ Chain(SubSeq(w, 1, d - 1), from, rows) /\ Len(SubSeq(w, 1, d - 1)) = d - 1
              /\ EndOf(SubSeq(w, 1, d - 1)) = rels[w[d - 1]].to
          BY <3>1, <4>1, ChainPrefix
        <5> QED BY <5>1, Zenon
      <4>3. rels[w[d]].from \in E(d - 1)
        BY <1>1, <4>1, <4>2
      <4> QED BY <4>1, <4>3
    <3> QED BY <1>2, <3>1, <3>2, <3>3, <3>4
  <2> QED BY <1>1, <2>1, <2>2
<1>4. ASSUME NEW e \in E(d - 1) PROVE e \in E(d)
  <2>1. \A w : Chain(w, from, rows) /\ Len(w) <= d - 1 => Len(w) <= d
    BY <1>2
  <2> QED BY <1>1, <2>1
<1>5. ASSUME NEW i \in rows, rels[i].from \in E(d - 1) PROVE rels[i].to \in E(d)
  <2>1. CASE rels[i].from = from
    <3>1. Chain(<<i>>, from, rows) /\ EndOf(<<i>>) = rels[i].to /\ Len(<<i>>) <= d
      BY <2>1, OneRowChain
    <3> QED BY <1>1, <3>1
  <2>2. CASE \E w : Chain(w, from, rows) /\ Len(w) <= d - 1 /\ EndOf(w) = rels[i].from
    <3>1. PICK w : Chain(w, from, rows) /\ Len(w) <= d - 1 /\ EndOf(w) = rels[i].from
      BY <2>2
    <3>2. /\ Chain(Append(w, i), from, rows) /\ EndOf(Append(w, i)) = rels[i].to
          /\ Len(Append(w, i)) = Len(w) + 1
      BY <3>1, ChainExtends
    <3>3. Len(Append(w, i)) <= d
      BY <1>2, <3>1, <3>2
    <3> QED BY <1>1, <3>2, <3>3
  <2> QED BY <1>1, <1>5, <2>1, <2>2
<1>6. E(d) = E(d - 1) \cup {rels[i].to : i \in {j \in rows : rels[j].from \in E(d - 1)}}
  BY <1>3, <1>4, <1>5
<1> QED BY <1>6 DEF E

\* Within is what the steps yield: the recursion has a solution to choose.
LEMMA WithinIsSteps ==
  ASSUME NEW from, NEW auth, NEW aliases, NEW hops \in Nat
  PROVE  Steps(from, Followable(auth, aliases), hops, Within(from, auth, aliases, hops))
<1>1. PICK rows : rows = Followable(auth, aliases)
  OBVIOUS
<1>2. PICK G : G = [d \in 0..hops |-> Ends(from, rows, d)]
  OBVIOUS
<1>3. ASSUME NEW d \in 0..hops
      PROVE  G[d] = IF d = 0 THEN {from}
                    ELSE G[d - 1] \cup {rels[i].to : i \in {j \in rows : rels[j].from \in G[d - 1]}}
  <2>1. CASE d = 0
    <3>1. \A v : Chain(v, from, rows) => ~ (Len(v) <= 0)
      BY DEF Chain
    <3>2. Ends(from, rows, 0) = {from}
      BY <3>1 DEF Ends
    <3> QED BY <1>2, <2>1, <3>2
  <2>2. CASE d # 0
    <3>1. d \in Nat \ {0} /\ d - 1 \in 0..hops
      BY <2>2
    <3>2. G[d] = Ends(from, rows, d) /\ G[d - 1] = Ends(from, rows, d - 1)
      BY <1>2, <3>1
    <3> QED BY <2>2, <3>1, <3>2, EndsStep
  <2> QED BY <2>1, <2>2
<1>4. DOMAIN G = 0..hops /\ G = [d \in 0..hops |-> G[d]]
  BY <1>2
<1>5. Steps(from, rows, hops, G)
  BY <1>3, <1>4, Zenon DEF Steps
<1>6. \E R : Steps(from, Followable(auth, aliases), hops, R)
  BY <1>1, <1>5
<1> QED BY <1>6, Zenon DEF Within, Steps

LEMMA StepsGrow ==
  ASSUME NEW from, NEW rows, NEW hops \in Nat, NEW R, Steps(from, rows, hops, R)
  PROVE  \A j \in 0..hops : \A i \in 0..j : R[i] \subseteq R[j]
<1> SUFFICES ASSUME NEW i \in 0..hops, {j \in i..hops : ~ (R[i] \subseteq R[j])} # {}
             PROVE  FALSE
  OBVIOUS
<1> DEFINE Less == {j \in i..hops : ~ (R[i] \subseteq R[j])}
<1>1. Less \in SUBSET Nat /\ Less # {}
  OBVIOUS
<1>2. PICK j \in Less : \A n \in Less : j <= n
  <2> HIDE DEF Less
  <2> QED BY <1>1, LeastNumber
<1>3. j \in i..hops /\ ~ (R[i] \subseteq R[j]) /\ j # i
  BY <1>2
<1>4. j \in 1..hops /\ j - 1 \in i..hops /\ j - 1 \notin Less
  BY <1>2, <1>3
<1>5. R[j - 1] \subseteq R[j]
  BY <1>4, StepsUnfold DEF Unfolds
<1> QED BY <1>3, <1>4, <1>5

\* A chain is never ahead of the steps.
LEMMA ChainReaches ==
  ASSUME NEW from, NEW rows, NEW hops \in Nat, NEW R, Steps(from, rows, hops, R),
         NEW w, Chain(w, from, rows), Len(w) <= hops
  PROVE  \A k \in 1..Len(w) : rels[w[k]].to \in R[k] /\ rels[w[k]].from \in R[k - 1]
<1> DEFINE Ahead == {k \in 1..Len(w) : ~ (rels[w[k]].to \in R[k] /\ rels[w[k]].from \in R[k - 1])}
<1> SUFFICES ASSUME Ahead # {} PROVE FALSE
  OBVIOUS
<1>U. Unfolds(from, rows, hops, R)
  BY StepsUnfold
<1>1. Ahead \in SUBSET Nat /\ w \in Seq(rows) /\ Len(w) \in Nat
  BY DEF Chain
<1>2. PICK k \in Ahead : \A n \in Ahead : k <= n
  BY <1>1, LeastNumber
<1>3. k \in 1..hops /\ k \in 1..Len(w) /\ w[k] \in rows
  BY <1>1, <1>2
<1>4. rels[w[k]].from \in R[k - 1]
  <2>1. CASE k = 1
    BY <1>U, <2>1 DEF Chain, Unfolds
  <2>2. CASE k # 1
    <3>1. k \in 2..Len(w) /\ k - 1 \in 1..Len(w) /\ k - 1 \notin Ahead
      BY <1>2, <1>3, <2>2
    <3> QED BY <3>1 DEF Chain
  <2> QED BY <2>1, <2>2
<1>5. rels[w[k]].to \in R[k]
  BY <1>U, <1>3, <1>4 DEF Unfolds
<1> QED BY <1>2, <1>4, <1>5

\* What the steps reach at the d-th and not before, a chain of d rows reaches that
\* gains a step with each row, and therefore enters no entity twice.
Gaining(w, R) == \A k \in 1..Len(w) : rels[w[k]].to \in R[k] /\ rels[w[k]].to \notin R[k - 1]

Gained(d, from, rows, R) ==
  \A e \in R[d] \ R[d - 1] :
    \E w : Chain(w, from, rows) /\ Gaining(w, R) /\ Len(w) = d /\ EndOf(w) = e

LEMMA ChainGains ==
  ASSUME NEW from, NEW rows, NEW hops \in Nat, NEW R, Steps(from, rows, hops, R)
  PROVE  \A d \in 1..hops : Gained(d, from, rows, R)
<1> DEFINE Lacking == {d \in 1..hops : ~ Gained(d, from, rows, R)}
<1> SUFFICES ASSUME Lacking # {} PROVE FALSE
  OBVIOUS
<1>U. Unfolds(from, rows, hops, R)
  BY StepsUnfold
<1>0. Lacking \in SUBSET Nat /\ Lacking # {}
  OBVIOUS
<1>1. PICK d \in Lacking : \A n \in Lacking : d <= n
  <2> HIDE DEF Lacking
  <2> QED BY <1>0, LeastNumber
<1>2. PICK e \in R[d] \ R[d - 1] :
        ~ \E w : Chain(w, from, rows) /\ Gaining(w, R) /\ Len(w) = d /\ EndOf(w) = e
  BY <1>1 DEF Gained
<1>3. d \in 1..hops
  BY <1>1
<1>4. PICK i \in rows : rels[i].from \in R[d - 1] /\ rels[i].to = e
  BY <1>U, <1>2, <1>3 DEF Unfolds
<1>5. CASE d = 1
  <2>1. Chain(<<i>>, from, rows) /\ EndOf(<<i>>) = e /\ Len(<<i>>) = 1 /\ <<i>>[1] = i
    BY <1>U, <1>4, <1>5, OneRowChain DEF Unfolds
  <2>2. Gaining(<<i>>, R)
    BY <1>2, <1>4, <1>5, <2>1 DEF Gaining
  <2> QED BY <1>2, <1>5, <2>1, <2>2
<1>6. CASE d # 1
  <2>1. d - 1 \in 1..hops /\ Gained(d - 1, from, rows, R)
    BY <1>1, <1>3, <1>6
  <2>2. rels[i].from \notin R[(d - 1) - 1]
    <3>1. d - 1 \in 1..hops
      BY <2>1
    <3>2. rels[i].from \in R[(d - 1) - 1] => rels[i].to \in R[d - 1]
      BY <1>U, <3>1 DEF Unfolds
    <3> QED BY <1>2, <1>4, <3>2
  <2>3. PICK w : /\ Chain(w, from, rows) /\ Gaining(w, R)
                 /\ Len(w) = d - 1 /\ EndOf(w) = rels[i].from
    BY <1>4, <2>1, <2>2 DEF Gained
  <2>4. PICK v : /\ Chain(v, from, rows) /\ EndOf(v) = e /\ Len(v) = d
                 /\ \A k \in 1..(d - 1) : v[k] = w[k]
    <3>1. /\ Chain(Append(w, i), from, rows) /\ EndOf(Append(w, i)) = rels[i].to
          /\ Len(Append(w, i)) = Len(w) + 1
          /\ \A k \in 1..Len(w) : Append(w, i)[k] = w[k]
      BY <1>4, <2>3, ChainExtends
    <3>2. Len(Append(w, i)) = d
      BY <1>3, <2>3, <3>1
    <3> QED BY <1>4, <2>3, <3>1, <3>2
  <2>5. rels[v[d]].to = e
    BY <2>4 DEF EndOf
  <2>6. Gaining(v, R)
    <3>1. \A k \in 1..Len(v) : k = d \/ (k \in 1..(d - 1) /\ k \in 1..Len(w))
      BY <1>3, <2>3, <2>4
    <3>2. \A k \in 1..(d - 1) : rels[v[k]].to \in R[k] /\ rels[v[k]].to \notin R[k - 1]
      BY <2>3, <2>4 DEF Gaining
    <3>3. rels[v[d]].to \in R[d] /\ rels[v[d]].to \notin R[d - 1]
      BY <1>2, <2>5
    <3> QED BY <3>1, <3>2, <3>3 DEF Gaining
  <2> QED BY <1>2, <2>4, <2>6
<1> QED BY <1>5, <1>6

LEMMA GainingIsCycleFree ==
  ASSUME NEW from, NEW rows, NEW hops \in Nat, NEW R, Steps(from, rows, hops, R),
         NEW w, Chain(w, from, rows), Gaining(w, R), Len(w) <= hops
  PROVE  CycleFree(w, from)
<1>U. Unfolds(from, rows, hops, R)
  BY StepsUnfold
<1>S. \A j \in 0..hops : \A i \in 0..j : R[i] \subseteq R[j]
  BY StepsGrow
<1>1. Len(w) \in Nat
  BY DEF Chain
<1>2. ASSUME NEW k \in 2..Len(w) PROVE rels[w[k]].to # from
  <2>1. from \in R[0] /\ R[0] \subseteq R[k - 1] /\ rels[w[k]].to \notin R[k - 1]
    <3>1. k - 1 \in 0..hops /\ 0 \in 0..(k - 1) /\ k \in 1..Len(w)
      BY <1>1
    <3> QED BY <1>U, <1>S, <3>1 DEF Gaining, Unfolds
  <2> QED BY <2>1
<1>3. ASSUME NEW k \in 2..Len(w), NEW j \in 1..(k - 1) PROVE rels[w[k]].to # rels[w[j]].to
  <2>1. rels[w[j]].to \in R[j] /\ rels[w[k]].to \notin R[k - 1]
    BY <1>1 DEF Gaining
  <2>2. R[j] \subseteq R[k - 1]
    <3>1. k - 1 \in 0..hops /\ j \in 0..(k - 1)
      BY <1>1
    <3> QED BY <1>S, <3>1
  <2> QED BY <2>1, <2>2
<1> QED BY <1>2, <1>3 DEF CycleFree

\* The walks of the recursive query are the cycle-free chains, of which its
\* recursion has all of a length at a time.
WalkSteps(from, rows, hops, W) ==
  W = [d \in 1..hops |->
         IF d = 1
         THEN {<<i>> : i \in {j \in rows : rels[j].from = from}}
         ELSE UNION {{Append(w, i) : i \in {j \in rows : /\ rels[j].from = EndOf(w)
                                                          /\ rels[j].to \notin Visited(w)}}
                     : w \in W[d - 1]}]

Walk(w, from, rows, d) == Chain(w, from, rows) /\ CycleFree(w, from) /\ Len(w) = d

LEMMA VisitedBy ==
  ASSUME NEW from, NEW rows, NEW w, Chain(w, from, rows)
  PROVE  \A e : e \in Visited(w) <=> e = from \/ \E k \in 1..Len(w) : rels[w[k]].to = e
  BY DEF Visited, Chain

LEMMA WalkExtends ==
  ASSUME NEW from, NEW rows, NEW d \in Nat \ {0}, NEW v, Walk(v, from, rows, d),
         NEW i \in rows, rels[i].from = EndOf(v), rels[i].to \notin Visited(v)
  PROVE  Walk(Append(v, i), from, rows, d + 1)
<1>1. PICK w : w = Append(v, i)
  OBVIOUS
<1>2. /\ Chain(w, from, rows) /\ Len(w) = d + 1
      /\ \A k \in 1..d : w[k] = v[k]
      /\ rels[w[d + 1]].to = rels[i].to
  BY <1>1, ChainExtends DEF Walk, EndOf
<1>3. rels[i].to # from /\ \A k \in 1..d : rels[v[k]].to # rels[i].to
  BY VisitedBy DEF Walk
<1>4. CycleFree(w, from)
  <2> SUFFICES ASSUME NEW k \in 2..(d + 1), NEW j \in 1..(k - 1)
               PROVE  rels[w[k]].to # from /\ rels[w[k]].to # rels[w[j]].to
    BY <1>2 DEF CycleFree
  <2>1. CASE k = d + 1
    BY <1>2, <1>3, <2>1
  <2>2. CASE k \in 2..d
    BY <1>2, <2>2 DEF Walk, CycleFree
  <2> QED BY <2>1, <2>2
<1> QED BY <1>1, <1>2, <1>4 DEF Walk

LEMMA WalkPrefix ==
  ASSUME NEW from, NEW rows, NEW d \in Nat \ {0}, NEW w, Walk(w, from, rows, d + 1)
  PROVE  /\ w[d + 1] \in rows /\ Walk(SubSeq(w, 1, d), from, rows, d)
         /\ w = Append(SubSeq(w, 1, d), w[d + 1])
         /\ rels[w[d + 1]].from = EndOf(SubSeq(w, 1, d))
         /\ rels[w[d + 1]].to \notin Visited(SubSeq(w, 1, d))
<1>1. w \in Seq(rows) /\ Len(w) = d + 1 /\ d \in 1..Len(w) /\ d + 1 \in 2..Len(w)
  BY DEF Walk, Chain
<1>0. PICK v : v = SubSeq(w, 1, d)
  OBVIOUS
<1>2. /\ Chain(v, from, rows) /\ Len(v) = d /\ EndOf(v) = rels[w[d]].to
      /\ \A k \in 1..d : v[k] = w[k]
  <2>1. Chain(w, from, rows)
    BY DEF Walk
  <2>2. /\ Chain(SubSeq(w, 1, d), from, rows) /\ Len(SubSeq(w, 1, d)) = d
        /\ EndOf(SubSeq(w, 1, d)) = rels[w[d]].to
        /\ \A k \in 1..d : SubSeq(w, 1, d)[k] = w[k]
    BY <1>1, <2>1, ChainPrefix
  <2> QED BY <1>0, <2>2
<1>3. PICK i \in rows : i = w[d + 1]
  BY <1>1
<1>4. w = Append(v, i)
  <2>1. v \in Seq(rows)
    BY <1>2 DEF Chain
  <2> QED BY <1>1, <1>2, <1>3, <2>1
<1>5. CycleFree(v, from)
  BY <1>1, <1>2 DEF Walk, CycleFree
<1>6. rels[i].from = EndOf(v)
  BY <1>1, <1>2, <1>3 DEF Walk, Chain
<1>7. rels[i].to \notin Visited(v)
  <2>1. rels[i].to # from /\ \A k \in 1..d : rels[i].to # rels[w[k]].to
    BY <1>1, <1>3 DEF Walk, CycleFree
  <2>2. \A e : e \in Visited(v) <=> e = from \/ \E k \in 1..Len(v) : rels[v[k]].to = e
    BY <1>2, VisitedBy
  <2> QED BY <1>2, <2>1, <2>2
<1> QED BY <1>0, <1>2, <1>3, <1>4, <1>5, <1>6, <1>7 DEF Walk

LEMMA FirstWalks ==
  ASSUME NEW from, NEW rows
  PROVE  \A w : Walk(w, from, rows, 1) <=> \E i \in rows : rels[i].from = from /\ w = <<i>>
<1>1. ASSUME NEW i \in rows, rels[i].from = from PROVE Walk(<<i>>, from, rows, 1)
  BY <1>1, OneRowChain DEF Walk, CycleFree
<1>2. ASSUME NEW w, Walk(w, from, rows, 1) PROVE \E i \in rows : rels[i].from = from /\ w = <<i>>
  <2>1. w \in Seq(rows) /\ Len(w) = 1 /\ rels[w[1]].from = from
    BY <1>2 DEF Walk, Chain
  <2>2. PICK i \in rows : i = w[1]
    <3>1. w \in Seq(rows)
      BY <2>1
    <3>2. \A k \in 1..Len(w) : w[k] \in rows
      BY <3>1
    <3>3. w[1] \in rows
      BY <2>1, <3>2
    <3> QED BY <3>3
  <2>3. PICK v : v = <<i>>
    OBVIOUS
  <2>4. Len(v) = 1 /\ v[1] = w[1] /\ v \in Seq(rows)
    BY <2>2, <2>3
  <2>5. w = v
    BY <2>1, <2>4
  <2> QED BY <2>1, <2>2, <2>3, <2>5
<1> QED BY <1>1, <1>2

AllWalks(from, rows, d) == {w \in Seq(rows) : Walk(w, from, rows, d)}

LEMMA WalksStep ==
  ASSUME NEW from, NEW rows, NEW d \in Nat \ {0}
  PROVE  AllWalks(from, rows, d) =
           IF d = 1
           THEN {<<i>> : i \in {j \in rows : rels[j].from = from}}
           ELSE UNION {{Append(w, i) : i \in {j \in rows : /\ rels[j].from = EndOf(w)
                                                            /\ rels[j].to \notin Visited(w)}}
                       : w \in AllWalks(from, rows, d - 1)}
<1>1. \A w, n : w \in AllWalks(from, rows, n) <=> Walk(w, from, rows, n)
  BY DEF AllWalks, Walk, Chain
<1>2. CASE d = 1
  BY <1>1, <1>2, FirstWalks
<1>3. CASE d # 1
  <2>1. PICK n \in Nat \ {0} : n = d - 1 /\ d = n + 1
    BY <1>3
  <2>2. \A w : Walk(w, from, rows, n + 1) <=>
          \E v : \E i \in rows : /\ Walk(v, from, rows, n) /\ w = Append(v, i)
                                 /\ rels[i].from = EndOf(v) /\ rels[i].to \notin Visited(v)
    <3>1. ASSUME NEW w, Walk(w, from, rows, n + 1)
          PROVE  \E v : \E i \in rows :
                   /\ Walk(v, from, rows, n) /\ w = Append(v, i)
                   /\ rels[i].from = EndOf(v) /\ rels[i].to \notin Visited(v)
      <4>0. PICK v : v = SubSeq(w, 1, n)
        OBVIOUS
      <4>1. PICK i \in rows : i = w[n + 1]
        BY <3>1, WalkPrefix
      <4>2. /\ Walk(v, from, rows, n) /\ w = Append(v, i)
            /\ rels[i].from = EndOf(v) /\ rels[i].to \notin Visited(v)
        BY <3>1, <4>0, <4>1, WalkPrefix
      <4> QED BY <4>2
    <3>2. ASSUME NEW v, NEW i \in rows, Walk(v, from, rows, n),
                 rels[i].from = EndOf(v), rels[i].to \notin Visited(v)
          PROVE  Walk(Append(v, i), from, rows, n + 1)
      BY <3>2, WalkExtends, Zenon
    <3> QED BY <3>1, <3>2
  <2>3. \A w : w \in AllWalks(from, rows, d) <=>
          \E v \in AllWalks(from, rows, d - 1) : \E i \in rows :
            w = Append(v, i) /\ rels[i].from = EndOf(v) /\ rels[i].to \notin Visited(v)
    BY <1>1, <2>1, <2>2
  <2> QED BY <1>3, <2>3
<1> QED BY <1>2, <1>3

LEMMA WalksAreAll ==
  ASSUME NEW from, NEW auth, NEW aliases, NEW hops \in Nat
  PROVE  \A w : w \in Walks(from, auth, aliases, hops) <=>
                  \E d \in 1..hops : Walk(w, from, Followable(auth, aliases), d)
<1> DEFINE rows == Followable(auth, aliases)
<1> HIDE DEF rows
<1>1. \E W : WalkSteps(from, rows, hops, W)
  <2>1. PICK W : W = [d \in 1..hops |-> AllWalks(from, rows, d)]
    OBVIOUS
  <2>2. ASSUME NEW d \in 1..hops
        PROVE  W[d] = IF d = 1
                      THEN {<<i>> : i \in {j \in rows : rels[j].from = from}}
                      ELSE UNION {{Append(w, i) : i \in {j \in rows : /\ rels[j].from = EndOf(w)
                                                                       /\ rels[j].to \notin Visited(w)}}
                                  : w \in W[d - 1]}
    <3>1. CASE d = 1
      BY <2>1, <3>1, WalksStep
    <3>2. CASE d # 1
      <4>1. d \in Nat \ {0} /\ W[d] = AllWalks(from, rows, d) /\ W[d - 1] = AllWalks(from, rows, d - 1)
        BY <2>1, <3>2
      <4> QED BY <3>2, <4>1, WalksStep
    <3> QED BY <3>1, <3>2
  <2>3. PICK H : H = [d \in 1..hops |->
                       IF d = 1
                       THEN {<<i>> : i \in {j \in rows : rels[j].from = from}}
                       ELSE UNION {{Append(w, i) : i \in {j \in rows : /\ rels[j].from = EndOf(w)
                                                                        /\ rels[j].to \notin Visited(w)}}
                                   : w \in W[d - 1]}]
    OBVIOUS
  <2>4. \A d \in 1..hops : H[d] = W[d]
    BY <2>2, <2>3, Zenon
  <2>5. DOMAIN H = 1..hops /\ DOMAIN W = 1..hops /\ H = [d \in 1..hops |-> H[d]]
        /\ W = [d \in 1..hops |-> W[d]]
    <3>1. DOMAIN H = 1..hops /\ H = [d \in 1..hops |-> H[d]]
      BY <2>3, Zenon
    <3> QED BY <2>1, <3>1, Zenon
  <2>6. H = W
    BY <2>4, <2>5
  <2> QED BY <2>3, <2>6, Zenon DEF WalkSteps
<1>2. PICK W : /\ WalkSteps(from, rows, hops, W)
               /\ Walks(from, auth, aliases, hops) = UNION {W[d] : d \in 1..hops}
  <2>1. \E W : WalkSteps(from, Followable(auth, aliases), hops, W)
    BY <1>1 DEF rows
  <2>2. PICK W : W = CHOOSE V : WalkSteps(from, Followable(auth, aliases), hops, V)
    OBVIOUS
  <2>3. Walks(from, auth, aliases, hops) = UNION {W[d] : d \in 1..hops}
    BY <2>2, Zenon DEF Walks, WalkSteps
  <2>4. WalkSteps(from, Followable(auth, aliases), hops, W)
    BY <2>1, <2>2, Zenon
  <2> QED BY <2>3, <2>4 DEF rows
<1>3. \A d \in 1..hops : W[d] = AllWalks(from, rows, d)
  <2> DEFINE Other == {d \in 1..hops : W[d] # AllWalks(from, rows, d)}
  <2> SUFFICES ASSUME Other # {} PROVE FALSE
    OBVIOUS
  <2>1. Other \in SUBSET Nat
    OBVIOUS
  <2>2. PICK d \in Other : \A n \in Other : d <= n
    <3> HIDE DEF Other
    <3> QED BY <2>1, LeastNumber
  <2>3. d \in 1..hops /\ d \in Nat \ {0} /\ W[d] # AllWalks(from, rows, d)
    BY <2>2
  <2>4. d # 1 => W[d - 1] = AllWalks(from, rows, d - 1)
    <3>1. d # 1 => d - 1 \in 1..hops /\ d - 1 \notin Other
      BY <2>2, <2>3
    <3> QED BY <3>1
  <2>5. W[d] = IF d = 1
               THEN {<<i>> : i \in {j \in rows : rels[j].from = from}}
               ELSE UNION {{Append(w, i) : i \in {j \in rows : /\ rels[j].from = EndOf(w)
                                                                /\ rels[j].to \notin Visited(w)}}
                           : w \in W[d - 1]}
    BY <1>2, <2>3, Zenon DEF WalkSteps
  <2> QED BY <2>3, <2>4, <2>5, WalksStep
<1>4. \A w, n : w \in AllWalks(from, rows, n) <=> Walk(w, from, rows, n)
  BY DEF AllWalks, Walk, Chain
<1> QED BY <1>2, <1>3, <1>4 DEF rows

-----------------------------------------------------------------------------
(* What a traversal returns. *)

LEMMA WalkIsChain ==
  ASSUME NEW from, NEW auth, NEW aliases, NEW hops \in Nat,
         NEW w \in Walks(from, auth, aliases, hops)
  PROVE  /\ Chain(w, from, Followable(auth, aliases))
         /\ Len(w) \in 1..hops
  BY WalksAreAll DEF Walk

LEMMA TraverseIn ==
  ASSUME NEW from, NEW auth, NEW aliases, NEW hops \in Nat,
         NEW w \in Traverse(from, auth, aliases, hops)
  PROVE  w \in Walks(from, auth, aliases, hops) /\ GBoundaryOf[EndOf(w)] \in auth
<1> DEFINE ws == {v \in Walks(from, auth, aliases, hops) : GBoundaryOf[EndOf(v)] \in auth}
<1>1. PICK e \in {EndOf(v) : v \in ws} :
        w = CHOOSE v \in ws : /\ EndOf(v) = e
                              /\ \A u \in ws : EndOf(u) = e => Len(v) <= Len(u)
  BY DEF Traverse
<1>2. \E v \in ws : EndOf(v) = e /\ \A u \in ws : EndOf(u) = e => Len(v) <= Len(u)
  <2> DEFINE Lengths == {Len(v) : v \in {u \in ws : EndOf(u) = e}}
  <2>1. \A v \in ws : Len(v) \in Nat
    BY WalkIsChain
  <2>2. Lengths \in SUBSET Nat /\ Lengths # {}
    BY <1>1, <2>1
  <2>3. PICK n \in Lengths : \A m \in Lengths : n <= m
    <3> HIDE DEF Lengths
    <3> QED BY <2>2, LeastNumber
  <2> QED BY <2>3
<1> HIDE DEF ws
<1>3. w \in ws
  BY <1>1, <1>2, Zenon
<1> QED BY <1>3 DEF ws

LEMMA TraverseFinds ==
  ASSUME NEW from, NEW auth, auth # {}, NEW aliases, NEW hops \in Nat \ {0},
         NEW v \in Walks(from, auth, aliases, hops), GBoundaryOf[EndOf(v)] \in auth
  PROVE  \E w \in Traverse(from, auth, aliases, hops) :
           EndOf(w) = EndOf(v) /\ Len(w) <= Len(v)
<1> DEFINE ws == {u \in Walks(from, auth, aliases, hops) : GBoundaryOf[EndOf(u)] \in auth}
           Least(w, e) == EndOf(w) = e /\ \A u \in ws : EndOf(u) = e => Len(w) <= Len(u)
<1>1. PICK e : e = EndOf(v) /\ v \in ws
  OBVIOUS
<1>2. \E w \in ws : Least(w, e)
  <2> DEFINE Lengths == {Len(w) : w \in {u \in ws : EndOf(u) = e}}
  <2>1. \A w \in ws : Len(w) \in Nat
    BY WalkIsChain
  <2>2. Lengths \in SUBSET Nat /\ Lengths # {}
    BY <1>1, <2>1
  <2>3. PICK n \in Lengths : \A m \in Lengths : n <= m
    <3> HIDE DEF Lengths
    <3> QED BY <2>2, LeastNumber
  <2> QED BY <2>3
<1>3. Traverse(from, auth, aliases, hops) =
        {CHOOSE w \in ws : Least(w, x) : x \in {EndOf(w) : w \in ws}}
  BY Zenon DEF Traverse
<1>4. PICK w : w = CHOOSE u \in ws : Least(u, e)
  OBVIOUS
<1>5. w \in ws /\ Least(w, e)
  BY <1>2, <1>4, Zenon
<1>6. w \in Traverse(from, auth, aliases, hops)
  <2>1. e \in {EndOf(u) : u \in ws}
    BY <1>1
  <2>2. \A x \in {EndOf(u) : u \in ws} :
          (CHOOSE u \in ws : Least(u, x)) \in Traverse(from, auth, aliases, hops)
    <3> HIDE DEF ws, Least
    <3> QED BY <1>3
  <2> HIDE DEF ws, Least
  <2> QED BY <1>4, <2>1, <2>2
<1> QED BY <1>1, <1>5, <1>6

\* With no boundary to read, or no hop to take, it returns nothing.
LEMMA FollowableRows ==
  ASSUME NEW auth, NEW aliases
  PROVE  \A i \in Followable(auth, aliases) :
           i \in DOMAIN rels /\ Live(rels[i]) /\ rels[i].bnd \in auth
  BY DEF Followable

\* A path passes through entities of the caller's boundaries only.
LEMMA TraverseIsAuthorized ==
  ASSUME GraphInv, NEW from, NEW auth, NEW aliases, NEW hops \in Nat,
         NEW w \in Traverse(from, auth, aliases, hops)
  PROVE  /\ \A e \in Visited(w) : GBoundaryOf[e] \in auth
         /\ \A k \in DOMAIN w : Live(rels[w[k]])
<1>1. /\ Chain(w, from, Followable(auth, aliases)) /\ Len(w) \in 1..hops
      /\ GBoundaryOf[EndOf(w)] \in auth
  BY TraverseIn, WalkIsChain
<1>2. w \in Seq(Followable(auth, aliases)) /\ DOMAIN w = 1..Len(w) /\ Len(w) \in Nat
  BY <1>1 DEF Chain
<1>3. \A k \in 1..Len(w) : /\ w[k] \in DOMAIN rels /\ Live(rels[w[k]])
                           /\ GBoundaryOf[rels[w[k]].from] \in auth
  <2>1. \A k \in 1..Len(w) : w[k] \in Followable(auth, aliases)
    BY <1>2
  <2> QED BY <2>1, FollowableRows DEF GraphInv
<1>4. ASSUME NEW k \in 1..Len(w) PROVE GBoundaryOf[rels[w[k]].to] \in auth
  <2>1. CASE k = Len(w)
    BY <1>1, <2>1 DEF EndOf
  <2>2. CASE k # Len(w)
    <3>0. Len(w) \in Nat
      BY <1>2
    <3>1. k + 1 \in 2..Len(w) /\ (k + 1) - 1 = k /\ k + 1 \in 1..Len(w)
      BY <3>0, <2>2
    <3>2. rels[w[k + 1]].from = rels[w[k]].to
      BY <1>1, <3>1 DEF Chain
    <3> QED BY <1>3, <3>1, <3>2
  <2> QED BY <2>1, <2>2
<1>5. GBoundaryOf[from] \in auth
  <2>1. rels[w[1]].from = from /\ 1 \in 1..Len(w)
    BY <1>1 DEF Chain
  <2> QED BY <1>3, <2>1
<1>6. \A e \in Visited(w) : e = from \/ \E k \in 1..Len(w) : rels[w[k]].to = e
  BY <1>1, VisitedBy
<1> QED BY <1>2, <1>3, <1>4, <1>5, <1>6

\* Every entity within reach is found, by a path no step is ahead of.
LEMMA TraverseReaches ==
  ASSUME NEW from, NEW auth, auth # {}, NEW aliases, NEW hops \in Nat \ {0},
         NEW R, R = Within(from, auth, aliases, hops),
         NEW e \in R[hops], e # from, GBoundaryOf[e] \in auth
  PROVE  \E w \in Traverse(from, auth, aliases, hops) : EndOf(w) = e /\ e \notin R[Len(w) - 1]
<1> DEFINE rows == Followable(auth, aliases)
<1> HIDE DEF rows
<1>1. Steps(from, rows, hops, R) /\ hops \in Nat
  BY WithinIsSteps DEF rows
<1>2. Unfolds(from, rows, hops, R) /\ \A j \in 0..hops : \A i \in 0..j : R[i] \subseteq R[j]
  BY <1>1, StepsUnfold, StepsGrow
<1>3. PICK d \in 1..hops : e \in R[d] \ R[d - 1]
  <2> DEFINE At == {d \in 0..hops : e \in R[d]}
  <2>1. At \in SUBSET Nat /\ At # {}
    OBVIOUS
  <2>2. PICK d \in At : \A n \in At : d <= n
    <3> HIDE DEF At
    <3> QED BY <2>1, LeastNumber
  <2>3. d # 0
    BY <1>2, <2>2 DEF Unfolds
  <2>4. d \in 1..hops /\ d - 1 \in 0..hops /\ d - 1 \notin At
    BY <2>2, <2>3
  <2> QED BY <2>2, <2>4
<1>4. PICK v : Chain(v, from, rows) /\ Gaining(v, R) /\ Len(v) = d /\ EndOf(v) = e
  <2>1. Gained(d, from, rows, R)
    BY <1>1, ChainGains
  <2> QED BY <1>3, <2>1, Zenon DEF Gained
<1>5. v \in Walks(from, auth, aliases, hops)
  <2>1. Walk(v, from, rows, d)
    <3>1. Len(v) <= hops
      BY <1>4
    <3> QED BY <1>1, <1>4, <3>1, GainingIsCycleFree DEF Walk
  <2> QED BY <2>1, WalksAreAll DEF rows
<1>6. PICK w \in Traverse(from, auth, aliases, hops) : EndOf(w) = e /\ Len(w) <= d
  BY <1>4, <1>5, TraverseFinds
<1>7. Len(w) \in 1..hops
  BY TraverseIn, WalkIsChain
<1>8. R[Len(w) - 1] \subseteq R[d - 1]
  <2>1. d - 1 \in 0..hops /\ Len(w) - 1 \in 0..(d - 1)
    BY <1>6, <1>7
  <2> QED BY <1>2, <2>1
<1> QED BY <1>3, <1>6, <1>8

LEMMA SeqElements ==
  ASSUME NEW S, NEW s \in Seq(S)
  PROVE  \A k \in DOMAIN s : s[k] \in S
  OBVIOUS

LEMMA OnPaths ==
  ASSUME NEW T
  PROVE  \A i : i \in UNION {{w[k] : k \in DOMAIN w} : w \in T} <=>
                 \E w \in T : \E k \in DOMAIN w : i = w[k]
<1> DEFINE On(w) == {w[k] : k \in DOMAIN w}
<1>1. \A w, i : i \in On(w) <=> \E k \in DOMAIN w : i = w[k]
  OBVIOUS
<1>2. \A i : i \in UNION {On(w) : w \in T} <=> \E w \in T : i \in On(w)
  <2> HIDE DEF On
  <2> QED OBVIOUS
<1> QED BY <1>1, <1>2

LEMMA TraverseStaysWithin ==
  ASSUME NEW from, NEW auth, NEW aliases, NEW hops \in Nat,
         NEW R, R = Within(from, auth, aliases, hops),
         NEW w \in Traverse(from, auth, aliases, hops)
  PROVE  \A k \in 1..Len(w) : rels[w[k]].to \in R[k] /\ rels[w[k]].from \in R[k - 1]
<1>1. Chain(w, from, Followable(auth, aliases)) /\ Len(w) \in 1..hops
  BY TraverseIn, WalkIsChain
<1>2. Steps(from, Followable(auth, aliases), hops, R) /\ Len(w) <= hops
  BY <1>1, WithinIsSteps
<1> QED BY <1>1, <1>2, ChainReaches

LEMMA ReadsAreReach == GraphInv => TraversalIsReach
<1> SUFFICES ASSUME GraphInv, NEW from \in ents, NEW auth \in (SUBSET GBoundaries) \ {{}}
             PROVE
    /\ \A aliases \in BOOLEAN :
         LET R  == Within(from, auth, aliases, 3)
             ws == Traverse(from, auth, aliases, 3)
         IN  /\ \A e \in {x \in R[3] : GBoundaryOf[x] \in auth} \ {from} :
                  \E w \in ws : EndOf(w) = e /\ e \notin R[Len(w) - 1]
             /\ \A w \in ws : /\ EndOf(w) \in R[Len(w)]
                            /\ \A e \in Visited(w) : GBoundaryOf[e] \in auth
                            /\ \A k \in DOMAIN w : Live(rels[w[k]])
    /\ \A m \in GraphHits(from, auth) :
         \E i \in Followable(auth, TRUE) : rels[i].src = m
    /\ LET R == Within(from, auth, FALSE, MaxHops)
       IN  \A x \in {y \in R[MaxHops] : GBoundaryOf[y] \in auth} \ {from} :
             \E i \in Followable(auth, FALSE) :
               /\ rels[i].to = x
               /\ rels[i].from \in R[MaxHops - 1]
               /\ rels[i].src \in GraphHits(from, auth) \cup {GNoMemory}
  BY Zenon DEF TraversalIsReach
<1>1. auth # {} /\ 3 \in Nat \ {0} /\ 3 \in Nat /\ MaxHops = 2 /\ 2 \in Nat \ {0} /\ 2 \in Nat
  BY DEF MaxHops
<1>2. ASSUME NEW aliases \in BOOLEAN,
             NEW e \in {x \in Within(from, auth, aliases, 3)[3] : GBoundaryOf[x] \in auth} \ {from}
      PROVE  \E w \in Traverse(from, auth, aliases, 3) :
               EndOf(w) = e /\ e \notin Within(from, auth, aliases, 3)[Len(w) - 1]
  BY <1>1, TraverseReaches
<1>3. ASSUME NEW aliases \in BOOLEAN, NEW w \in Traverse(from, auth, aliases, 3)
      PROVE  /\ EndOf(w) \in Within(from, auth, aliases, 3)[Len(w)]
             /\ \A e \in Visited(w) : GBoundaryOf[e] \in auth
             /\ \A k \in DOMAIN w : Live(rels[w[k]])
  <2>1. Len(w) \in 1..3
    BY <1>1, TraverseIn, WalkIsChain
  <2>2. \A k \in 1..Len(w) : rels[w[k]].to \in Within(from, auth, aliases, 3)[k]
    BY <1>1, TraverseStaysWithin
  <2>3. EndOf(w) \in Within(from, auth, aliases, 3)[Len(w)]
    <3>1. Len(w) \in 1..Len(w)
      BY <2>1
    <3> QED BY <2>2, <3>1, Zenon DEF EndOf
  <2> QED BY <1>1, <2>3, TraverseIsAuthorized
<1>4. ASSUME NEW w \in Traverse(from, auth, FALSE, MaxHops)
      PROVE  Len(w) \in 1..MaxHops /\ \A k \in DOMAIN w : w[k] \in Followable(auth, FALSE)
  <2>1. Chain(w, from, Followable(auth, FALSE)) /\ Len(w) \in 1..MaxHops
    BY <1>1, TraverseIn, WalkIsChain
  <2>2. w \in Seq(Followable(auth, FALSE))
    BY <2>1, Zenon DEF Chain
  <2>3. \A k \in DOMAIN w : w[k] \in Followable(auth, FALSE)
    BY <2>2, SeqElements, Zenon
  <2> QED BY <2>1, <2>3
<1>5. ASSUME NEW m \in GraphHits(from, auth)
      PROVE  \E i \in Followable(auth, TRUE) : rels[i].src = m
  <2>1. PICK i : /\ rels[i].src = m
                 /\ \/ i \in RelationshipsFor(from, auth)
                    \/ \E w \in Traverse(from, auth, FALSE, MaxHops) : \E k \in DOMAIN w : i = w[k]
    <3>1. PICK T : T = Traverse(from, auth, FALSE, MaxHops)
      OBVIOUS
    <3>2. m \in {rels[i].src : i \in RelationshipsFor(from, auth)
                                  \cup UNION {{w[k] : k \in DOMAIN w} : w \in T}}
      BY <3>1, Zenon DEF GraphHits
    <3>3. PICK i \in RelationshipsFor(from, auth)
                     \cup UNION {{w[k] : k \in DOMAIN w} : w \in T} : rels[i].src = m
      BY <3>2, Zenon
    <3>4. \/ i \in RelationshipsFor(from, auth)
          \/ \E w \in T : \E k \in DOMAIN w : i = w[k]
      BY <3>3, OnPaths, Zenon
    <3> QED BY <3>1, <3>3, <3>4, Zenon
  <2>2. i \in RelationshipsFor(from, auth) \/ i \in Followable(auth, FALSE)
    BY <1>4, <2>1
  <2> QED BY <2>1, <2>2 DEF RelationshipsFor, Followable
<1>6. ASSUME NEW x \in {y \in Within(from, auth, FALSE, MaxHops)[MaxHops] :
                          GBoundaryOf[y] \in auth} \ {from}
      PROVE  \E i \in Followable(auth, FALSE) :
               /\ rels[i].to = x
               /\ rels[i].from \in Within(from, auth, FALSE, MaxHops)[MaxHops - 1]
               /\ rels[i].src \in GraphHits(from, auth) \cup {GNoMemory}
  <2>1. PICK R : R = Within(from, auth, FALSE, MaxHops)
    OBVIOUS
  <2>2. PICK w \in Traverse(from, auth, FALSE, MaxHops) : EndOf(w) = x
    <3>1. MaxHops \in Nat \ {0} /\ x \in R[MaxHops] /\ x # from /\ GBoundaryOf[x] \in auth
      BY <1>1, <2>1
    <3>2. \E w \in Traverse(from, auth, FALSE, MaxHops) :
            EndOf(w) = x /\ x \notin R[Len(w) - 1]
      BY <1>1, <2>1, <3>1, TraverseReaches
    <3> QED BY <3>2
  <2>3. PICK i : i = w[Len(w)]
    OBVIOUS
  <2>4. Len(w) \in 1..MaxHops /\ Len(w) \in DOMAIN w /\ i \in Followable(auth, FALSE)
        /\ rels[i].to = x
    <3>1. Chain(w, from, Followable(auth, FALSE)) /\ Len(w) \in 1..MaxHops
      BY <1>1, TraverseIn, WalkIsChain
    <3>2. w \in Seq(Followable(auth, FALSE))
      BY <3>1, Zenon DEF Chain
    <3>3. Len(w) \in DOMAIN w
      BY <3>1, <3>2
    <3>4. rels[w[Len(w)]].to = x
      BY <2>2 DEF EndOf
    <3> QED BY <1>4, <2>3, <3>1, <3>3, <3>4
  <2>5. rels[i].from \in R[MaxHops - 1]
    <3>1. rels[i].from \in R[Len(w) - 1]
      <4>1. \A k \in 1..Len(w) : rels[w[k]].from \in R[k - 1]
        BY <1>1, <2>1, TraverseStaysWithin
      <4>2. Len(w) \in 1..Len(w)
        BY <2>4, <1>1
      <4> QED BY <2>3, <4>1, <4>2
    <3>2. R[0] \subseteq R[1]
      <4>1. Steps(from, Followable(auth, FALSE), 2, R)
        BY <1>1, <2>1, WithinIsSteps
      <4>2. \A j \in 0..2 : \A n \in 0..j : R[n] \subseteq R[j]
        BY <4>1, StepsGrow
      <4> QED BY <4>2
    <3>3. (Len(w) - 1 = 0 \/ Len(w) - 1 = 1) /\ MaxHops - 1 = 1
      BY <1>1, <2>4
    <3> QED BY <3>1, <3>2, <3>3
  <2>6. rels[i].src \in GraphHits(from, auth) \cup {GNoMemory}
    <3>1. PICK T : T = Traverse(from, auth, FALSE, MaxHops)
      OBVIOUS
    <3>2. GraphHits(from, auth) =
            {rels[j].src : j \in RelationshipsFor(from, auth)
                                   \cup UNION {{v[k] : k \in DOMAIN v} : v \in T}} \ {GNoMemory}
      BY <3>1, Zenon DEF GraphHits
    <3>3. i \in UNION {{v[k] : k \in DOMAIN v} : v \in T}
      <4>1. \E v \in T : \E k \in DOMAIN v : i = v[k]
        BY <2>3, <2>4, <3>1, Zenon
      <4> QED BY <4>1, OnPaths, Zenon
    <3> QED BY <3>2, <3>3
  <2> QED BY <2>1, <2>4, <2>5, <2>6
<1> QED BY <1>2, <1>3, <1>5, <1>6

\* What the read side finds of the graph is what steps over live rows of the caller's
\* boundaries reach: no path passes through an entity of another boundary, each entity
\* within the hops is found by a shortest path, and the graph channel offers the
\* memories on the way.  For any graph the writes can have left behind.
THEOREM TraversalIsExact == GraphSpec => []TraversalIsReach
  BY GraphInvariant, ReadsAreReach, PTL

-----------------------------------------------------------------------------
(* Lists in which nothing occurs twice. *)

\* The sequence lists elements of S, none twice.
OnceIn(s, S) == s \in Seq(S) /\ \A i, j \in DOMAIN s : s[i] = s[j] => i = j

\* It lists all of S.
Lists(s, S) == OnceIn(s, S) /\ ToSet(s) = S /\ Len(s) = Cardinality(S)

Orders(R, S) ==
  /\ \A a \in S : <<a, a>> \notin R
  /\ \A a, b, c \in S : <<a, b>> \in R /\ <<b, c>> \in R => <<a, c>> \in R
  /\ \A a, b \in S : a = b \/ <<a, b>> \in R \/ <<b, a>> \in R

\* Whoever comes earlier has fewer before it, so each place is somebody's.
LEMMA ListedLists ==
  ASSUME NEW S, IsFiniteSet(S), NEW R, Orders(R, S)
  PROVE  Lists(Listed(S, R), S)
<1> DEFINE Ahead(m) == {n \in S : <<n, m>> \in R}
           N == Cardinality(S)
           place == [m \in S |-> Cardinality(Ahead(m))]
           list == [k \in 1..N |-> CHOOSE m \in S : Cardinality(Ahead(m)) = k - 1]
<1>1. N \in Nat /\ \A m \in S : IsFiniteSet(Ahead(m)) /\ Cardinality(Ahead(m)) \in Nat
  BY FS_Subset, FS_CardinalityType
<1>2. \A m \in S : Cardinality(Ahead(m)) < N
  <2> SUFFICES ASSUME NEW m \in S PROVE Cardinality(Ahead(m)) < N
    OBVIOUS
  <2>1. Ahead(m) \in SUBSET S /\ Ahead(m) # S
    BY DEF Orders
  <2> HIDE DEF Ahead
  <2> QED BY <1>1, <2>1, FS_Subset
<1>3. \A m, n \in S : <<m, n>> \in R => Cardinality(Ahead(m)) < Cardinality(Ahead(n))
  <2> SUFFICES ASSUME NEW m \in S, NEW n \in S, <<m, n>> \in R
               PROVE  Cardinality(Ahead(m)) < Cardinality(Ahead(n))
    OBVIOUS
  <2>1. Ahead(m) \in SUBSET Ahead(n)
    BY DEF Orders
  <2>2. Ahead(m) # Ahead(n)
    <3>1. m \in Ahead(n) /\ m \notin Ahead(m)
      BY DEF Orders
    <3> QED BY <3>1
  <2> HIDE DEF Ahead
  <2> QED BY <1>1, <2>1, <2>2, FS_Subset
<1>4. \A m, n \in S : Cardinality(Ahead(m)) = Cardinality(Ahead(n)) => m = n
  <2> SUFFICES ASSUME NEW m \in S, NEW n \in S, Cardinality(Ahead(m)) = Cardinality(Ahead(n))
               PROVE  m = n
    OBVIOUS
  <2>1. m = n \/ <<m, n>> \in R \/ <<n, m>> \in R
    BY DEF Orders
  <2> HIDE DEF Ahead
  <2> QED BY <1>1, <1>3, <2>1
<1>5. \A k \in 1..N : \E m \in S : Cardinality(Ahead(m)) = k - 1
  <2>1. place \in [S -> 0..(N - 1)] /\ \A m \in S : place[m] = Cardinality(Ahead(m))
    <3> HIDE DEF Ahead, N
    <3> QED BY <1>1, <1>2
  <2> HIDE DEF place, Ahead
  <2>2. place \in Injection(S, 0..(N - 1))
    BY <1>4, <2>1 DEF Injection, IsInjective
  <2>3. IsFiniteSet(0..(N - 1)) /\ Cardinality(0..(N - 1)) = N
    <3> HIDE DEF N
    <3>1. 0 \in Int /\ N - 1 \in Int
      BY <1>1
    <3> QED BY <1>1, <3>1, FS_Interval
  <2>4. place \in Surjection(S, 0..(N - 1))
    BY <2>2, <2>3, FS_Injection
  <2>5. \A t \in 0..(N - 1) : \E m \in S : place[m] = t
    BY <2>4 DEF Surjection
  <2>6. \A k \in 1..N : k - 1 \in 0..(N - 1)
    <3> HIDE DEF N
    <3> QED BY <1>1
  <2> QED BY <2>1, <2>5, <2>6
<1> HIDE DEF Ahead, N
<1>6. \A k \in 1..N : list[k] \in S /\ Cardinality(Ahead(list[k])) = k - 1
  <2> SUFFICES ASSUME NEW k \in 1..N PROVE list[k] \in S /\ Cardinality(Ahead(list[k])) = k - 1
    OBVIOUS
  <2>1. list[k] = CHOOSE m \in S : Cardinality(Ahead(m)) = k - 1
    OBVIOUS
  <2> HIDE DEF list
  <2> QED BY <1>5, <2>1
<1>7. DOMAIN list = 1..N /\ list = [k \in 1..N |-> list[k]]
  OBVIOUS
<1>8. list = Listed(S, R)
  BY DEF Listed, Ahead, N
<1> HIDE DEF list
<1>9. list \in Seq(S) /\ Len(list) = N
  BY <1>1, <1>6, <1>7
<1>10. \A i, j \in 1..N : list[i] = list[j] => i = j
  <2> SUFFICES ASSUME NEW i \in 1..N, NEW j \in 1..N, list[i] = list[j] PROVE i = j
    OBVIOUS
  <2>1. i - 1 = j - 1
    BY <1>6
  <2> QED BY <1>1, <2>1
<1>11. \A m \in S : \E k \in 1..N : list[k] = m
  <2> SUFFICES ASSUME NEW m \in S PROVE \E k \in 1..N : list[k] = m
    OBVIOUS
  <2>1. PICK k \in 1..N : k = Cardinality(Ahead(m)) + 1
    BY <1>1, <1>2
  <2>2. Cardinality(Ahead(list[k])) = Cardinality(Ahead(m))
    BY <1>1, <1>6, <2>1
  <2> QED BY <1>4, <1>6, <2>2
<1>12. ToSet(list) = S
  BY <1>6, <1>7, <1>11 DEF ToSet
<1> QED BY <1>7, <1>8, <1>9, <1>10, <1>12 DEF Lists, OnceIn, N

LEMMA ByDistanceLists ==
  ASSUME NEW S \in SUBSET Nat, IsFiniteSet(S)
  PROVE  Lists(ByDistance(S), S)
<1> DEFINE R == {r \in S \X S : r[1] < r[2]}
<1>1. \A a, b \in S : <<a, b>> \in R <=> a < b
  OBVIOUS
<1>2. Orders(R, S)
  <2> HIDE DEF R
  <2> QED BY <1>1 DEF Orders
<1> HIDE DEF R
<1>3. Lists(Listed(S, R), S)
  BY <1>2, ListedLists
<1> QED BY <1>3 DEF ByDistance, R

LEMMA OnceElements ==
  ASSUME NEW S, NEW s, OnceIn(s, S)
  PROVE  /\ Len(s) \in Nat /\ DOMAIN s = 1..Len(s)
         /\ \A k \in 1..Len(s) : s[k] \in S
         /\ ToSet(s) \in SUBSET S
         /\ \A m : m \in ToSet(s) <=> \E k \in 1..Len(s) : s[k] = m
  BY DEF OnceIn, ToSet

\* A list is what it lists, and no longer than it.
LEMMA OnceOf ==
  ASSUME NEW S, NEW n \in Nat, NEW s \in [1..n -> S],
         \A i, j \in 1..n : s[i] = s[j] => i = j
  PROVE  OnceIn(s, S) /\ Len(s) = n
  BY DEF OnceIn

LEMMA KeepLists ==
  ASSUME NEW S, NEW s, OnceIn(s, S), NEW T
  PROVE  /\ OnceIn(Keep(s, T), S \cap T)
         /\ ToSet(Keep(s, T)) = ToSet(s) \cap T
         /\ Len(Keep(s, T)) <= Len(s)
<1> DEFINE I == {i \in DOMAIN s : s[i] \in T}
           at == ByDistance(I)
           kept == [k \in DOMAIN at |-> s[at[k]]]
<1>1. /\ Len(s) \in Nat /\ DOMAIN s = 1..Len(s) /\ \A k \in 1..Len(s) : s[k] \in S
      /\ \A m : m \in ToSet(s) <=> \E k \in 1..Len(s) : s[k] = m
  BY OnceElements
<1>2. I \in SUBSET Nat /\ IsFiniteSet(I) /\ Cardinality(I) \in Nat /\ Cardinality(I) <= Len(s)
  <2>1. IsFiniteSet(1..Len(s)) /\ Cardinality(1..Len(s)) = Len(s) /\ I \in SUBSET (1..Len(s))
    <3>1. 1 \in Int /\ Len(s) \in Int
      BY <1>1
    <3>2. IsFiniteSet(1..Len(s)) /\ Cardinality(1..Len(s)) = IF 1 > Len(s) THEN 0 ELSE Len(s)-1+1
      BY <3>1, FS_Interval
    <3> QED BY <1>1, <3>2
  <2>2. I \in SUBSET Nat
    BY <1>1
  <2> HIDE DEF I
  <2>3. IsFiniteSet(I) /\ Cardinality(I) <= Cardinality(1..Len(s))
    BY <2>1, FS_Subset
  <2> QED BY <2>1, <2>2, <2>3, FS_CardinalityType
<1>3. \A i : i \in I <=> i \in 1..Len(s) /\ s[i] \in T
  BY <1>1
<1>4. Keep(s, T) = kept
  BY DEF Keep
<1> HIDE DEF I, at
<1>5. Lists(at, I)
  BY <1>2, ByDistanceLists DEF at
<1>6. /\ Len(at) = Cardinality(I) /\ DOMAIN at = 1..Cardinality(I)
      /\ \A k \in 1..Cardinality(I) : at[k] \in I
      /\ \A i, j \in 1..Cardinality(I) : at[i] = at[j] => i = j
      /\ \A i \in I : \E k \in 1..Cardinality(I) : at[k] = i
  <2>1. OnceIn(at, I) /\ ToSet(at) = I /\ Len(at) = Cardinality(I)
    BY <1>5 DEF Lists
  <2>2. /\ DOMAIN at = 1..Len(at) /\ \A k \in 1..Len(at) : at[k] \in I
        /\ \A m : m \in ToSet(at) <=> \E k \in 1..Len(at) : at[k] = m
    BY <2>1, OnceElements
  <2>3. \A i, j \in DOMAIN at : at[i] = at[j] => i = j
    BY <2>1 DEF OnceIn
  <2> QED BY <2>1, <2>2, <2>3
<1>7. /\ DOMAIN kept = 1..Cardinality(I)
      /\ \A k \in 1..Cardinality(I) : kept[k] = s[at[k]]
      /\ kept = [k \in 1..Cardinality(I) |-> kept[k]]
  BY <1>6
<1> HIDE DEF kept
<1>8. \A k \in 1..Cardinality(I) : kept[k] \in S \cap T
  BY <1>1, <1>3, <1>6, <1>7
<1>9. \A i, j \in 1..Cardinality(I) : kept[i] = kept[j] => i = j
  <2> SUFFICES ASSUME NEW i \in 1..Cardinality(I), NEW j \in 1..Cardinality(I), kept[i] = kept[j]
               PROVE  i = j
    OBVIOUS
  <2>1. at[i] \in DOMAIN s /\ at[j] \in DOMAIN s /\ s[at[i]] = s[at[j]]
    BY <1>1, <1>3, <1>6, <1>7
  <2>2. at[i] = at[j]
    BY <2>1 DEF OnceIn
  <2> QED BY <1>6, <2>2
<1>10. OnceIn(kept, S \cap T) /\ Len(kept) = Cardinality(I)
  <2>1. kept \in [1..Cardinality(I) -> S \cap T]
    BY <1>7, <1>8
  <2> QED BY <1>2, <1>9, <2>1, OnceOf
<1>11. ToSet(kept) = ToSet(s) \cap T
  <2>1. \A m : m \in ToSet(kept) <=> \E k \in 1..Cardinality(I) : kept[k] = m
    BY <1>7 DEF ToSet
  <2>2. ASSUME NEW m \in ToSet(s) \cap T PROVE m \in ToSet(kept)
    <3>1. PICK i \in I : s[i] = m
      BY <1>1, <1>3
    <3>2. PICK k \in 1..Cardinality(I) : at[k] = i
      BY <1>6
    <3> QED BY <1>7, <2>1, <3>1, <3>2
  <2>3. ASSUME NEW m \in ToSet(kept) PROVE m \in ToSet(s) \cap T
    <3>1. PICK k \in 1..Cardinality(I) : kept[k] = m
      BY <2>1
    <3>2. at[k] \in 1..Len(s) /\ s[at[k]] \in T /\ s[at[k]] = m
      BY <1>3, <1>6, <1>7, <3>1
    <3> QED BY <1>1, <3>2
  <2> QED BY <2>2, <2>3
<1> QED BY <1>2, <1>4, <1>10, <1>11

LEMMA CutLists ==
  ASSUME NEW S, NEW s, OnceIn(s, S), NEW n \in Nat
  PROVE  /\ OnceIn(Cut(s, n), S)
         /\ ToSet(Cut(s, n)) \in SUBSET ToSet(s)
         /\ Len(Cut(s, n)) <= n
         /\ Len(s) <= n => Cut(s, n) = s
         /\ \A k \in 1..n : k <= Len(s) => s[k] \in ToSet(Cut(s, n))
<1>1. s \in Seq(S) /\ DOMAIN s = 1..Len(s) /\ Len(s) \in Nat
  BY DEF OnceIn
<1>0. PICK l \in Nat : l = Len(s)
  BY <1>1, Zenon
<1>2. PICK m \in Nat : /\ m = (IF l < n THEN l ELSE n)
                       /\ m <= n /\ m <= l /\ (l <= n => m = l)
  <2>1. CASE l < n
    BY <2>1
  <2>2. CASE ~ (l < n)
    BY <2>2
  <2> QED BY <2>1, <2>2
<1>3. \A k \in 1..m : k \in 1..l
  BY <1>2
<1>4. PICK t : t = SubSeq(s, 1, m) /\ t = Cut(s, n)
  BY <1>0, <1>2 DEF Cut
<1>5. t \in Seq(S) /\ Len(t) = m /\ DOMAIN t = 1..m /\ \A k \in 1..m : t[k] = s[k]
  <2>1. \A k \in 1..m : s[k] \in S
    BY <1>0, <1>1, <1>3
  <2>2. Len(t) = m /\ t = [k \in 1..m |-> s[k]]
    BY <1>0, <1>1, <1>2, <1>4
  <2> QED BY <2>1, <2>2
<1>6. l <= n => t = s
  <2> SUFFICES ASSUME l <= n PROVE t = s
    OBVIOUS
  <2>1. DOMAIN t = DOMAIN s /\ \A k \in DOMAIN s : t[k] = s[k]
    BY <1>0, <1>1, <1>2, <1>5
  <2> QED BY <1>1, <1>5, <2>1
<1>7. OnceIn(t, S)
  <2>1. \A k \in 1..m : k \in DOMAIN s /\ t[k] = s[k]
    BY <1>0, <1>1, <1>3, <1>5
  <2>2. \A i, j \in DOMAIN s : s[i] = s[j] => i = j
    BY DEF OnceIn
  <2> QED BY <1>5, <2>1, <2>2 DEF OnceIn
<1>8. \A x : x \in ToSet(t) <=> \E k \in 1..m : t[k] = x
  BY <1>5 DEF ToSet
<1>9. \A x : x \in ToSet(s) <=> \E k \in 1..l : s[k] = x
  BY <1>0, <1>1 DEF ToSet
<1>10. ToSet(t) \in SUBSET ToSet(s)
  BY <1>3, <1>5, <1>8, <1>9
<1>11. ASSUME NEW k \in 1..n, k <= l PROVE s[k] \in ToSet(t)
  <2>1. k \in 1..m
    BY <1>2, <1>11
  <2> QED BY <1>5, <1>8, <2>1
<1> QED BY <1>0, <1>2, <1>4, <1>5, <1>6, <1>7, <1>10, <1>11

LEMMA JoinLists ==
  ASSUME NEW S, NEW s, OnceIn(s, S), NEW t, OnceIn(t, S), ToSet(s) \cap ToSet(t) = {}
  PROVE  /\ OnceIn(s \o t, S)
         /\ ToSet(s \o t) = ToSet(s) \cup ToSet(t)
         /\ Len(s \o t) = Len(s) + Len(t)
         /\ \A k \in 1..Len(s) : (s \o t)[k] = s[k]
<1>1. s \in Seq(S) /\ Len(s) \in Nat /\ DOMAIN s = 1..Len(s)
      /\ t \in Seq(S) /\ Len(t) \in Nat /\ DOMAIN t = 1..Len(t)
  BY DEF OnceIn
<1>2. PICK u : u = s \o t
  OBVIOUS
<1>3. /\ u \in Seq(S) /\ Len(u) = Len(s) + Len(t) /\ DOMAIN u = 1..Len(u)
      /\ \A k \in 1..Len(u) : u[k] = IF k <= Len(s) THEN s[k] ELSE t[k - Len(s)]
  BY <1>1, <1>2
<1>4. \A x : /\ x \in ToSet(s) <=> \E k \in 1..Len(s) : s[k] = x
             /\ x \in ToSet(t) <=> \E k \in 1..Len(t) : t[k] = x
             /\ x \in ToSet(u) <=> \E k \in 1..Len(u) : u[k] = x
  BY <1>1, <1>3 DEF ToSet
<1>5. ASSUME NEW i \in 1..Len(u), NEW j \in 1..Len(u), u[i] = u[j] PROVE i = j
  <2>1. CASE i <= Len(s) /\ j <= Len(s)
    <3>1. i \in 1..Len(s) /\ j \in 1..Len(s) /\ s[i] = s[j]
      BY <1>1, <1>3, <1>5, <2>1
    <3> QED BY <1>1, <3>1 DEF OnceIn
  <2>2. CASE i > Len(s) /\ j > Len(s)
    <3>1. i - Len(s) \in 1..Len(t) /\ j - Len(s) \in 1..Len(t) /\ t[i - Len(s)] = t[j - Len(s)]
      BY <1>1, <1>3, <1>5, <2>2
    <3>2. i - Len(s) = j - Len(s)
      BY <1>1, <3>1 DEF OnceIn
    <3> QED BY <1>1, <1>3, <3>2
  <2>3. CASE i <= Len(s) /\ j > Len(s)
    <3>1. i \in 1..Len(s) /\ j - Len(s) \in 1..Len(t) /\ s[i] = t[j - Len(s)]
      BY <1>1, <1>3, <1>5, <2>3
    <3> QED BY <1>4, <3>1
  <2>4. CASE i > Len(s) /\ j <= Len(s)
    <3>1. j \in 1..Len(s) /\ i - Len(s) \in 1..Len(t) /\ s[j] = t[i - Len(s)]
      BY <1>1, <1>3, <1>5, <2>4
    <3> QED BY <1>4, <3>1
  <2> QED BY <1>1, <1>3, <2>1, <2>2, <2>3, <2>4
<1>6. ASSUME NEW x \in ToSet(s) \cup ToSet(t) PROVE x \in ToSet(u)
  <2>1. CASE x \in ToSet(s)
    <3>1. PICK k \in 1..Len(s) : s[k] = x
      BY <1>4, <2>1
    <3>2. k \in 1..Len(u) /\ u[k] = x
      BY <1>1, <1>3, <3>1
    <3> QED BY <1>4, <3>2
  <2>2. CASE x \in ToSet(t)
    <3>1. PICK k \in 1..Len(t) : t[k] = x
      BY <1>4, <2>2
    <3>2. k + Len(s) \in 1..Len(u) /\ u[k + Len(s)] = x
      BY <1>1, <1>3, <3>1
    <3> QED BY <1>4, <3>2
  <2> QED BY <2>1, <2>2
<1>7. ASSUME NEW x \in ToSet(u) PROVE x \in ToSet(s) \cup ToSet(t)
  <2>1. PICK k \in 1..Len(u) : u[k] = x
    BY <1>4
  <2>2. CASE k <= Len(s)
    <3>1. k \in 1..Len(s) /\ s[k] = x
      BY <1>1, <1>3, <2>1, <2>2
    <3> QED BY <1>4, <3>1
  <2>3. CASE k > Len(s)
    <3>1. k - Len(s) \in 1..Len(t) /\ t[k - Len(s)] = x
      BY <1>1, <1>3, <2>1, <2>3
    <3> QED BY <1>4, <3>1
  <2> QED BY <1>1, <1>3, <2>1, <2>2, <2>3
<1>8. OnceIn(u, S)
  BY <1>3, <1>5 DEF OnceIn
<1>9. \A k \in 1..Len(s) : u[k] = s[k]
  BY <1>1, <1>3
<1>10. ToSet(u) = ToSet(s) \cup ToSet(t)
  BY <1>6, <1>7
<1> QED BY <1>2, <1>3, <1>8, <1>9, <1>10

LEMMA ReverseLists ==
  ASSUME NEW S, NEW s, OnceIn(s, S)
  PROVE  /\ OnceIn(Reverse(s), S) /\ ToSet(Reverse(s)) = ToSet(s) /\ Len(Reverse(s)) = Len(s)
<1>1. s \in Seq(S) /\ Len(s) \in Nat /\ DOMAIN s = 1..Len(s)
  BY DEF OnceIn
<1>2. PICK u : u = [i \in 1..Len(s) |-> s[(Len(s) - i) + 1]]
  OBVIOUS
<1>3. \A i \in 1..Len(s) : (Len(s) - i) + 1 \in 1..Len(s) /\ u[i] = s[(Len(s) - i) + 1]
  BY <1>1, <1>2
<1>4. u \in Seq(S) /\ Len(u) = Len(s) /\ DOMAIN u = 1..Len(s)
  BY <1>1, <1>2, <1>3
<1>5. OnceIn(u, S)
  <2> SUFFICES ASSUME NEW i \in 1..Len(s), NEW j \in 1..Len(s), u[i] = u[j] PROVE i = j
    BY <1>4 DEF OnceIn
  <2>1. (Len(s) - i) + 1 = (Len(s) - j) + 1
    BY <1>1, <1>3 DEF OnceIn
  <2> QED BY <1>1, <2>1
<1>6. \A x : x \in ToSet(u) <=> \E k \in 1..Len(s) : u[k] = x
  BY <1>4 DEF ToSet
<1>7. \A x : x \in ToSet(s) <=> \E k \in 1..Len(s) : s[k] = x
  BY <1>1 DEF ToSet
<1>8. \A k \in 1..Len(s) : u[(Len(s) - k) + 1] = s[k]
  <2> SUFFICES ASSUME NEW k \in 1..Len(s) PROVE u[(Len(s) - k) + 1] = s[k]
    OBVIOUS
  <2>1. PICK i \in 1..Len(s) : i = (Len(s) - k) + 1 /\ (Len(s) - i) + 1 = k
    BY <1>1
  <2> QED BY <1>3, <2>1
<1>9. ToSet(u) = ToSet(s)
  <2>1. ASSUME NEW x \in ToSet(u) PROVE x \in ToSet(s)
    BY <1>3, <1>6, <1>7
  <2>2. ASSUME NEW x \in ToSet(s) PROVE x \in ToSet(u)
    BY <1>3, <1>6, <1>7, <1>8
  <2> QED BY <2>1, <2>2
<1>10. u = Reverse(s)
  BY <1>2 DEF Reverse
<1> QED BY <1>4, <1>5, <1>9, <1>10

LEMMA OnceAmong ==
  ASSUME NEW S, NEW T, S \subseteq T, NEW s, OnceIn(s, S)
  PROVE  OnceIn(s, T)
  BY DEF OnceIn

LEMMA OnceEmpty ==
  ASSUME NEW S
  PROVE  OnceIn(<<>>, S) /\ ToSet(<<>>) = {} /\ Len(<<>>) = 0
  BY DEF OnceIn, ToSet

LEMMA OnceNone ==
  ASSUME NEW S, NEW s, OnceIn(s, S)
  PROVE  s = <<>> <=> ToSet(s) = {}
<1>1. s \in Seq(S) /\ DOMAIN s = 1..Len(s) /\ Len(s) \in Nat
  BY DEF OnceIn
<1>2. \A x : x \in ToSet(s) <=> \E k \in 1..Len(s) : s[k] = x
  BY <1>1 DEF ToSet
<1>3. CASE s = <<>>
  BY <1>3, OnceEmpty
<1>4. CASE s # <<>>
  <2>1. 1 \in 1..Len(s)
    BY <1>1, <1>4
  <2> QED BY <1>2, <1>4, <2>1
<1> QED BY <1>3, <1>4

-----------------------------------------------------------------------------
(* The lists of a query. *)

LEMMA ReadConstants ==
  /\ RMems \subseteq Nat \ {0} /\ IsFiniteSet(RMems) /\ RAuth \subseteq RMems
  /\ RFanout \in Nat \ {0} /\ RTop \in Nat \ {0} /\ RScale \in Nat
  /\ RLimits \subseteq Nat \ {0}
  /\ \A o \in RKeywordOrders : OnceIn(o, RMems)
  BY RetrievalAssumption DEF RetrievalAssumption, OnceIn

LEMMA VectorsListed ==
  ASSUME NEW n \in Nat
  PROVE  /\ OnceIn(VectorSearch(n), RAuth) /\ Len(VectorSearch(n)) <= n
         /\ n # 0 /\ RAuth # {} => ToSet(VectorSearch(n)) # {}
<1>1. RAuth \in SUBSET Nat /\ IsFiniteSet(RAuth)
  BY ReadConstants, FS_Subset
<1>2. PICK s : s = ByDistance(RAuth) /\ OnceIn(s, RAuth) /\ ToSet(s) = RAuth
  BY <1>1, ByDistanceLists DEF Lists
<1>3. VectorSearch(n) = Cut(s, n)
  BY <1>2 DEF VectorSearch
<1>4. /\ OnceIn(Cut(s, n), RAuth) /\ Len(Cut(s, n)) <= n
      /\ \A k \in 1..n : k <= Len(s) => s[k] \in ToSet(Cut(s, n))
  BY <1>2, CutLists
<1>5. n # 0 /\ RAuth # {} => 1 \in 1..n /\ 1 <= Len(s)
  BY <1>2, OnceElements
<1> QED BY <1>3, <1>4, <1>5

LEMMA ShareIsNumber ==
  ASSUME NEW S, NEW s, OnceIn(s, S), NEW m
  PROVE  Share(s, m) \in Nat
<1>1. CASE m \in ToSet(s)
  <2>1. \E i \in DOMAIN s : s[i] = m
    BY <1>1 DEF ToSet
  <2>2. PICK i : i = (CHOOSE j \in DOMAIN s : s[j] = m)
    OBVIOUS
  <2>3. i \in DOMAIN s
    BY <2>1, <2>2, Zenon
  <2>4. i \in Nat
    BY <2>3 DEF OnceIn
  <2>5. RScale \div (60 + i) \in Nat
    BY <2>4, ReadConstants
  <2> QED BY <1>1, <2>2, <2>5 DEF Share
<1>2. CASE m \notin ToSet(s)
  BY <1>2 DEF Share
<1> QED BY <1>1, <1>2

LEMMA FusedLists ==
  ASSUME OnceIn(q.sem, RAuth), OnceIn(q.kw, RAuth)
  PROVE  OnceIn(Fused, RAuth) /\ ToSet(Fused) = ToSet(q.sem) \cup ToSet(q.kw)
<1> DEFINE S == ToSet(q.sem) \cup ToSet(q.kw)
           R == {r \in S \X S : \/ Rrf(r[1]) > Rrf(r[2])
                                \/ Rrf(r[1]) = Rrf(r[2]) /\ r[1] > r[2]}
<1>1. S \subseteq RAuth /\ S \subseteq Nat /\ IsFiniteSet(S)
  <2>0. ToSet(q.sem) \in SUBSET RAuth /\ ToSet(q.kw) \in SUBSET RAuth
    BY OnceElements
  <2>1. S \in SUBSET RMems /\ S \subseteq RAuth
    BY <2>0, ReadConstants
  <2> HIDE DEF S
  <2> QED BY <2>1, ReadConstants, FS_Subset
<1>2. \A m : Rrf(m) \in Nat
  <2> SUFFICES ASSUME NEW m PROVE Rrf(m) \in Nat
    OBVIOUS
  <2>1. Share(q.sem, m) \in Nat /\ Share(q.kw, m) \in Nat
    BY ShareIsNumber
  <2> QED BY <2>1 DEF Rrf
<1>3. \A a, b \in S : <<a, b>> \in R <=> Rrf(a) > Rrf(b) \/ (Rrf(a) = Rrf(b) /\ a > b)
  <2> HIDE DEF S
  <2> QED OBVIOUS
<1>4. Orders(R, S)
  <2> HIDE DEF R, S
  <2>1. \A a, b \in S : Rrf(a) \in Nat /\ Rrf(b) \in Nat /\ a \in Nat /\ b \in Nat
    BY <1>1, <1>2
  <2> QED BY <1>3, <2>1 DEF Orders
<1>5. Fused = Listed(S, R)
  BY DEF Fused
<1> HIDE DEF S, R
<1>6. Lists(Fused, S)
  BY <1>1, <1>4, <1>5, ListedLists
<1> QED BY <1>1, <1>6, OnceAmong DEF Lists, S

LEMMA WithoutLists ==
  ASSUME NEW s, OnceIn(s, RAuth), NEW t
  PROVE  /\ OnceIn(Without(s, t), RAuth) /\ ToSet(Without(s, t)) = ToSet(s) \ ToSet(t)
         /\ Len(Without(s, t)) <= Len(s)
<1>1. PICK T : T = RMems \ ToSet(t)
  OBVIOUS
<1>2. /\ OnceIn(Keep(s, T), RAuth \cap T) /\ ToSet(Keep(s, T)) = ToSet(s) \cap T
      /\ Len(Keep(s, T)) <= Len(s)
  BY KeepLists
<1>3. ToSet(s) \subseteq RMems
  BY OnceElements, ReadConstants
<1>4. OnceIn(Keep(s, T), RAuth)
  BY <1>2, OnceAmong
<1>5. Without(s, t) = Keep(s, T)
  BY <1>1 DEF Without
<1> QED BY <1>1, <1>2, <1>3, <1>4, <1>5

LEMMA KeptLists ==
  ASSUME NEW s, OnceIn(s, RAuth), NEW T
  PROVE  OnceIn(Keep(s, T), RAuth) /\ ToSet(Keep(s, T)) = ToSet(s) \cap T /\ Len(Keep(s, T)) <= Len(s)
<1>1. /\ OnceIn(Keep(s, T), RAuth \cap T) /\ ToSet(Keep(s, T)) = ToSet(s) \cap T
      /\ Len(Keep(s, T)) <= Len(s)
  BY KeepLists
<1> QED BY <1>1, OnceAmong

\* One list after another, without what the first has.
LEMMA ThenLists ==
  ASSUME NEW s, OnceIn(s, RAuth), NEW t, OnceIn(t, RAuth)
  PROVE  LET u == s \o Without(t, s)
         IN  /\ OnceIn(u, RAuth) /\ ToSet(u) = ToSet(s) \cup ToSet(t)
             /\ Len(u) <= Len(s) + Len(t) /\ Len(u) >= Len(s)
             /\ \A k \in 1..Len(s) : u[k] = s[k]
<1>1. PICK w : w = Without(t, s)
  OBVIOUS
<1>2. OnceIn(w, RAuth) /\ ToSet(w) = ToSet(t) \ ToSet(s) /\ Len(w) <= Len(t)
  BY <1>1, WithoutLists
<1>3. /\ OnceIn(s \o w, RAuth) /\ ToSet(s \o w) = ToSet(s) \cup ToSet(w)
      /\ Len(s \o w) = Len(s) + Len(w) /\ \A k \in 1..Len(s) : (s \o w)[k] = s[k]
  BY <1>2, JoinLists
<1>4. Len(s) \in Nat /\ Len(t) \in Nat /\ Len(w) \in Nat
  BY <1>2, OnceElements
<1>5. ToSet(s) \cup ToSet(w) = ToSet(s) \cup ToSet(t)
  BY <1>2
<1>6. Len(s \o w) <= Len(s) + Len(t) /\ Len(s \o w) >= Len(s)
  BY <1>2, <1>3, <1>4
<1> QED BY <1>1, <1>3, <1>5, <1>6

\* The first n of a list have what its first k have, for k up to n.
LEMMA PrefixCut ==
  ASSUME NEW s, OnceIn(s, RAuth), NEW u, OnceIn(u, RAuth), NEW n \in Nat,
         Len(s) <= n, Len(s) <= Len(u), \A k \in 1..Len(s) : u[k] = s[k]
  PROVE  ToSet(s) \subseteq ToSet(Cut(u, n))
<1>1. /\ Len(s) \in Nat /\ Len(u) \in Nat
      /\ \A m : m \in ToSet(s) <=> \E k \in 1..Len(s) : s[k] = m
  BY OnceElements
<1>2. \A k \in 1..n : k <= Len(u) => u[k] \in ToSet(Cut(u, n))
  BY CutLists
<1>3. \A k \in 1..Len(s) : k \in 1..n /\ k <= Len(u)
  BY <1>1
<1> QED BY <1>1, <1>2, <1>3

\* Everything found is in the pool; what the recall channels found, in a read
\* everything, is in the part of it that is scored.
LEMMA PoolLists ==
  ASSUME OnceIn(q.base, RAuth), OnceIn(q.graph, RAuth), OnceIn(q.recall, RAuth),
         Len(q.base) <= RFanout, Len(q.graph) <= RFanout, Len(q.recall) <= RFanout
  PROVE  /\ OnceIn(Pool, RAuth) /\ OnceIn(Batch, RAuth)
         /\ ToSet(q.base) \subseteq ToSet(Pool)
         /\ ToSet(Pool) \subseteq ToSet(q.base) \cup ToSet(q.graph) \cup ToSet(q.recall)
         /\ ToSet(Batch) \subseteq ToSet(Pool)
         /\ ToSet(q.recall) \subseteq ToSet(Batch)
         /\ q.kind # "read" => ToSet(q.graph) \subseteq ToSet(Batch)
         /\ q.kind = "read" => ToSet(q.base) \subseteq ToSet(Batch)
         /\ Pool # <<>> => Batch # <<>>
<1>1. PICK b, g, r : b = q.base /\ g = q.graph /\ r = q.recall
  OBVIOUS
<1>2. /\ OnceIn(b, RAuth) /\ OnceIn(g, RAuth) /\ OnceIn(r, RAuth)
      /\ Len(b) <= RFanout /\ Len(g) <= RFanout /\ Len(r) <= RFanout
      /\ Len(b) \in Nat /\ Len(g) \in Nat /\ Len(r) \in Nat
  BY <1>1, OnceElements
<1>3. PICK p : p = Pool
  OBVIOUS
<1>4. PICK n \in Nat : n = RerankCap /\ n = 2 * RFanout /\ n # 0
  BY ReadConstants DEF RerankCap
<1>5. Batch = Cut(p, n)
  BY <1>3, <1>4 DEF Batch
<1>6. /\ OnceIn(p, RAuth)
      /\ ToSet(b) \subseteq ToSet(p)
      /\ ToSet(p) \subseteq ToSet(b) \cup ToSet(g) \cup ToSet(r)
      /\ ToSet(r) \subseteq ToSet(Cut(p, n))
      /\ q.kind # "read" => ToSet(g) \subseteq ToSet(Cut(p, n))
      /\ q.kind = "read" => ToSet(b) \subseteq ToSet(Cut(p, n))
  <2>1. CASE q.kind = "read"
    <3>1. p = b \o Without(r, b)
      BY <1>1, <1>3, <2>1 DEF Pool
    <3>2. /\ OnceIn(p, RAuth) /\ ToSet(p) = ToSet(b) \cup ToSet(r)
          /\ Len(p) <= Len(b) + Len(r) /\ Len(p) \in Nat
      BY <1>2, <3>1, ThenLists, OnceElements
    <3>3. Len(p) <= n
      BY <1>2, <1>4, <3>2, ReadConstants
    <3>4. Cut(p, n) = p
      BY <3>2, <3>3, CutLists
    <3> QED BY <2>1, <3>2, <3>4
  <2>2. CASE q.kind # "read"
    <3>1. PICK h : h = g \o Without(r, g)
      OBVIOUS
    <3>2. p = h \o Without(b, h)
      BY <1>1, <1>3, <2>2, <3>1 DEF Pool
    <3>3. /\ OnceIn(h, RAuth) /\ ToSet(h) = ToSet(g) \cup ToSet(r)
          /\ Len(h) <= Len(g) + Len(r) /\ Len(h) \in Nat
      BY <1>2, <3>1, ThenLists, OnceElements
    <3>4. /\ OnceIn(p, RAuth) /\ ToSet(p) = ToSet(h) \cup ToSet(b)
          /\ Len(p) >= Len(h) /\ Len(p) \in Nat
          /\ \A k \in 1..Len(h) : p[k] = h[k]
      <4>1. /\ OnceIn(p, RAuth) /\ ToSet(p) = ToSet(h) \cup ToSet(b)
            /\ Len(p) >= Len(h)
            /\ \A k \in 1..Len(h) : p[k] = h[k]
        BY <1>2, <3>2, <3>3, ThenLists
      <4> QED BY <4>1, OnceElements
    <3>5. Len(h) <= n /\ Len(h) <= Len(p)
      BY <1>2, <1>4, <3>3, <3>4, ReadConstants
    <3>6. ToSet(h) \subseteq ToSet(Cut(p, n))
      BY <3>3, <3>4, <3>5, PrefixCut
    <3> QED BY <2>2, <3>3, <3>4, <3>6
  <2> QED BY <2>1, <2>2
<1>7. OnceIn(Cut(p, n), RAuth) /\ ToSet(Cut(p, n)) \subseteq ToSet(p)
  BY <1>6, CutLists
<1>8. p # <<>> => Cut(p, n) # <<>>
  <2>1. p # <<>> => 1 \in 1..n /\ 1 <= Len(p)
    BY <1>4, <1>6 DEF OnceIn
  <2>2. p # <<>> => p[1] \in ToSet(Cut(p, n))
    BY <1>6, <2>1, CutLists
  <2> QED BY <1>7, <2>2, OnceNone
<1> QED BY <1>1, <1>3, <1>5, <1>6, <1>7, <1>8

LEMMA RankedLists ==
  ASSUME OnceIn(Batch, RAuth)
  PROVE  OnceIn(Ranked, RAuth) /\ ToSet(Ranked) = ToSet(Batch)
<1>1. PICK b, x : b = Batch /\ x = q.best
  OBVIOUS
<1>2. PICK k, w : k = Keep(b, {x}) /\ w = Without(b, <<x>>)
  OBVIOUS
<1>3. OnceIn(k, RAuth) /\ ToSet(k) = ToSet(b) \cap {x}
  BY <1>1, <1>2, KeptLists
<1>4. ToSet(<<x>>) = {x}
  BY DEF ToSet
<1>5. OnceIn(w, RAuth) /\ ToSet(w) = ToSet(b) \ {x}
  BY <1>1, <1>2, <1>4, WithoutLists
<1>6. OnceIn(k \o w, RAuth) /\ ToSet(k \o w) = ToSet(k) \cup ToSet(w)
  BY <1>3, <1>5, JoinLists
<1>7. Ranked = k \o w
  BY <1>1, <1>2 DEF Ranked
<1> QED BY <1>1, <1>3, <1>5, <1>6, <1>7

LEMMA ReplyLists ==
  ASSUME NEW list, OnceIn(list, RAuth), NEW ranked, q.limit \in Nat \ {0}
  PROVE  /\ OnceIn(Reply(list, ranked), RAuth)
         /\ ToSet(Reply(list, ranked)) \subseteq ToSet(list)
         /\ q.kind = "read" => Reply(list, ranked) = list
         /\ list # <<>> /\ ~ q.picky => Reply(list, ranked) # <<>>
<1>1. CASE q.kind = "read"
  BY <1>1 DEF Reply
<1>2. CASE q.kind # "read"
  <2>1. PICK n \in Nat : n = q.limit /\ n # 0
    OBVIOUS
  <2>2. PICK s : /\ s = (IF q.picky THEN Keep(list, Clears(ranked)) ELSE list)
                 /\ OnceIn(s, RAuth) /\ ToSet(s) \subseteq ToSet(list)
    <3>1. OnceIn(Keep(list, Clears(ranked)), RAuth)
          /\ ToSet(Keep(list, Clears(ranked))) \subseteq ToSet(list)
      BY KeptLists
    <3> QED BY <3>1
  <2>3. Reply(list, ranked) = Cut(s, n)
    BY <1>2, <2>1, <2>2 DEF Reply
  <2>4. OnceIn(Cut(s, n), RAuth) /\ ToSet(Cut(s, n)) \subseteq ToSet(s)
    BY <2>2, CutLists
  <2>5. s # <<>> => Cut(s, n) # <<>>
    <3>1. s # <<>> => 1 \in 1..n /\ 1 <= Len(s)
      BY <2>1, <2>2 DEF OnceIn
    <3>2. s # <<>> => s[1] \in ToSet(Cut(s, n))
      BY <2>2, <3>1, CutLists
    <3> QED BY <2>4, <3>2, OnceNone
  <2> QED BY <1>2, <2>2, <2>3, <2>4, <2>5
<1> QED BY <1>1, <1>2

-----------------------------------------------------------------------------
(* What each step of a query changes. *)

\* What was asked, and the standings, stay; so does the shape of a query.
Carried ==
  /\ UNCHANGED <<q.kind, q.model, q.limit, q.picky, q.near, q.best, q.bm25, q.offer>>
  /\ DOMAIN q' = DOMAIN q
  /\ UNCHANGED <<rstand, valid, steady>>

LEMMA GateSearchDoes ==
  ASSUME DOMAIN q = DOMAIN NoQuery, GateSearch
  PROVE  /\ q.at = "gate" /\ Carried
         /\ q'.sem = VectorSearch(1)
         /\ q'.at = "gaterows"
         /\ UNCHANGED <<q.kw, q.base, q.graph, q.recall, q.scored, q.answer, q.how>>
  BY DEF GateSearch, Step, NoQuery, Carried

LEMMA GateFetchDoes ==
  ASSUME DOMAIN q = DOMAIN NoQuery, GateFetch
  PROVE  /\ q.at = "gaterows" /\ Carried
         /\ q'.sem = <<>>
         /\ UNCHANGED <<q.kw, q.base, q.graph, q.recall, q.scored, q.answer>>
         /\ \/ SemanticRows(q.sem) # <<>> /\ q.near /\ q'.at = "sem" /\ q'.how = q.how
            \/ ~ (SemanticRows(q.sem) # <<>> /\ q.near) /\ q'.at = "done" /\ q'.how = "gated"
  BY DEF GateFetch, Step, NoQuery, Carried

LEMMA SemanticSearchDoes ==
  ASSUME DOMAIN q = DOMAIN NoQuery, SemanticSearch
  PROVE  /\ q.at = "sem" /\ Carried
         /\ q'.sem = VectorSearch(RTop)
         /\ q'.at = "semrows"
         /\ UNCHANGED <<q.kw, q.base, q.graph, q.recall, q.scored, q.answer, q.how>>
  BY DEF SemanticSearch, Step, NoQuery, Carried

LEMMA SemanticFetchDoes ==
  ASSUME DOMAIN q = DOMAIN NoQuery, SemanticFetch
  PROVE  /\ q.at = "semrows" /\ Carried
         /\ q'.sem = HybridRows
         /\ q'.at = "kw"
         /\ UNCHANGED <<q.kw, q.base, q.graph, q.recall, q.scored, q.answer, q.how>>
  BY DEF SemanticFetch, Step, NoQuery, Carried

LEMMA KeywordSearchDoes ==
  ASSUME DOMAIN q = DOMAIN NoQuery, KeywordSearch
  PROVE  /\ q.at = "kw" /\ Carried
         /\ q'.kw = Cut(q.bm25, RTop)
         /\ q'.at = "kwrows"
         /\ UNCHANGED <<q.sem, q.base, q.graph, q.recall, q.scored, q.answer, q.how>>
  BY DEF KeywordSearch, Step, NoQuery, Carried

LEMMA KeywordFetchDoes ==
  ASSUME DOMAIN q = DOMAIN NoQuery, KeywordFetch
  PROVE  /\ q.at = "kwrows" /\ Carried
         /\ q'.kw = KeywordRows(q.kw)
         /\ q'.at = "fuse"
         /\ UNCHANGED <<q.sem, q.base, q.graph, q.recall, q.scored, q.answer, q.how>>
  BY DEF KeywordFetch, Step, NoQuery, Carried

LEMMA FuseDoes ==
  ASSUME DOMAIN q = DOMAIN NoQuery, Fuse
  PROVE  /\ q.at = "fuse" /\ Carried
         /\ q'.base = Cut(Fused, Limit)
         /\ q'.sem = <<>>
         /\ q'.kw = <<>>
         /\ q'.at = (IF ~ q.model THEN "rank" ELSE IF q.kind = "search" THEN "graph" ELSE "recall")
         /\ UNCHANGED <<q.graph, q.recall, q.scored, q.answer, q.how>>
  BY DEF Fuse, Step, NoQuery, Carried

LEMMA GraphRecallDoes ==
  ASSUME DOMAIN q = DOMAIN NoQuery, GraphRecall
  PROVE  /\ q.at = "graph" /\ Carried
         /\ q'.graph = Cut(Reverse(ByDistance(q.offer \cap InForce \cap RAuth)), RFanout)
         /\ q'.at = "recall"
         /\ UNCHANGED <<q.sem, q.kw, q.base, q.recall, q.scored, q.answer, q.how>>
  BY DEF GraphRecall, Step, NoQuery, Carried

LEMMA RecallSearchDoes ==
  ASSUME DOMAIN q = DOMAIN NoQuery, RecallSearch
  PROVE  /\ q.at = "recall" /\ Carried
         /\ q'.recall = VectorSearch(RFanout)
         /\ q'.at = "recallrows"
         /\ UNCHANGED <<q.sem, q.kw, q.base, q.graph, q.scored, q.answer, q.how>>
  BY DEF RecallSearch, Step, NoQuery, Carried

LEMMA RecallFetchDoes ==
  ASSUME DOMAIN q = DOMAIN NoQuery, RecallFetch
  PROVE  /\ q.at = "recallrows" /\ Carried
         /\ q'.recall = SemanticRows(q.recall)
         /\ q'.at = "rank"
         /\ UNCHANGED <<q.sem, q.kw, q.base, q.graph, q.scored, q.answer, q.how>>
  BY DEF RecallFetch, Step, NoQuery, Carried

LEMMA RankDoes ==
  ASSUME DOMAIN q = DOMAIN NoQuery, q.model \in BOOLEAN, NEW outcome, Rank(outcome)
  PROVE  /\ q.at = "rank" /\ Carried /\ q'.at = "done"
         /\ UNCHANGED <<q.sem, q.kw, q.base, q.graph, q.recall>>
         /\ \/ ~ q.model /\ q'.answer = q.base /\ q'.how = "plain"
            \/ /\ q.model /\ q'.scored = Batch /\ q'.answer = Reply(Ranked, TRUE)
               /\ q'.how = "ranked"
            \/ /\ q.model /\ Pool # <<>>
               /\ q'.answer = Reply(Pool, FALSE) /\ q'.how = "degraded"
            \/ q'.answer = q.answer /\ q'.how = "failed"
<1>1. q.at = "rank" /\ UNCHANGED <<rstand, valid, steady>>
  BY DEF Rank, Step
<1>2. \/ ~ q.model /\ q' = [q EXCEPT !.answer = q.base, !.how = "plain", !.at = "done"]
      \/ /\ q.model
         /\ q' = [q EXCEPT !.scored = Batch, !.answer = Reply(Ranked, TRUE),
                           !.how = "ranked", !.at = "done"]
      \/ /\ q.model /\ Pool # <<>>
         /\ q' = [q EXCEPT !.answer = Reply(Pool, FALSE), !.how = "degraded", !.at = "done"]
      \/ q' = [q EXCEPT !.how = "failed", !.at = "done"]
  <2>1. CASE ~ q.model
    BY <2>1 DEF Rank, Step
  <2>2. CASE q.model /\ (outcome = "scores" \/ Pool = <<>>)
    BY <2>2 DEF Rank, Step
  <2>3. CASE q.model /\ ~ (outcome = "scores" \/ Pool = <<>>) /\ outcome = "unavailable"
    BY <2>3 DEF Rank, Step
  <2>4. CASE q.model /\ ~ (outcome = "scores" \/ Pool = <<>>) /\ outcome # "unavailable"
    BY <2>4 DEF Rank, Step
  <2> QED BY <2>1, <2>2, <2>3, <2>4
<1>3. CASE ~ q.model /\ q' = [q EXCEPT !.answer = q.base, !.how = "plain", !.at = "done"]
  BY <1>1, <1>3 DEF NoQuery, Carried
<1>4. CASE /\ q.model
           /\ q' = [q EXCEPT !.scored = Batch, !.answer = Reply(Ranked, TRUE),
                             !.how = "ranked", !.at = "done"]
  BY <1>1, <1>4 DEF NoQuery, Carried
<1>5. CASE /\ q.model /\ Pool # <<>>
           /\ q' = [q EXCEPT !.answer = Reply(Pool, FALSE), !.how = "degraded", !.at = "done"]
  BY <1>1, <1>5 DEF NoQuery, Carried
<1>6. CASE q' = [q EXCEPT !.how = "failed", !.at = "done"]
  BY <1>1, <1>6 DEF NoQuery, Carried
<1> QED BY <1>2, <1>3, <1>4, <1>5, <1>6

LEMMA AskDoes ==
  ASSUME NEW kind, NEW model, NEW limit, NEW picky, NEW near, NEW best, NEW bm25, NEW offer,
         Ask(kind, model, limit, picky, near, best, bm25, offer)
  PROVE  /\ RAuth # {}
         /\ DOMAIN q' = DOMAIN NoQuery
         /\ q'.kind = kind /\ q'.model = model /\ q'.limit = limit /\ q'.picky = picky
         /\ q'.bm25 = bm25
         /\ q'.at = (IF kind = "read" /\ ~ model THEN "gate" ELSE "sem")
         /\ q'.sem = <<>> /\ q'.kw = <<>> /\ q'.base = <<>> /\ q'.graph = <<>>
         /\ q'.recall = <<>> /\ q'.answer = <<>> /\ q'.how = "none"
         /\ valid' = InForce /\ steady' = InForce /\ rstand' = rstand
  BY DEF Ask, NoQuery

LEMMA NothingAsked ==
  /\ NoQuery.at = "idle" /\ NoQuery.kind = "search" /\ NoQuery.model = TRUE /\ NoQuery.limit = 1
  /\ NoQuery.bm25 = <<>> /\ NoQuery.sem = <<>> /\ NoQuery.kw = <<>> /\ NoQuery.base = <<>>
  /\ NoQuery.graph = <<>> /\ NoQuery.recall = <<>> /\ NoQuery.answer = <<>>
  /\ NoQuery.how = "none"
  BY DEF NoQuery

-----------------------------------------------------------------------------
(***************************************************************************)
(* The invariant of a query.  Rows change between the search of an index   *)
(* and the fetch of the rows, so what a list holds depends on how far its  *)
(* channel has come.                                                       *)
(***************************************************************************)

Standings == {"active", "retired", "archived", "gone"}

ReadShape ==
  /\ rstand \in [RMems -> Standings]
  /\ DOMAIN q = DOMAIN NoQuery
  /\ q.kind \in {"search", "read"} /\ q.model \in BOOLEAN /\ q.limit \in Nat \ {0}
  /\ OnceIn(q.bm25, RMems) /\ OnceIn(q.kw, IF q.at = "kwrows" THEN RMems ELSE RAuth)
  /\ OnceIn(q.sem, RAuth) /\ OnceIn(q.base, RAuth) /\ OnceIn(q.graph, RAuth)
  /\ OnceIn(q.recall, RAuth) /\ OnceIn(q.answer, RAuth)

\* In force at some moment, or archived and let through by the keyword channel.
Known(m) == m \in valid \/ (m \in ToSet(q.bm25) /\ rstand[m] \in {"archived", "gone"})

StandingsSeen ==
  /\ q.at # "idle" => InForce \subseteq valid /\ steady \subseteq InForce /\ RAuth # {}
  /\ q.at \notin {"gaterows", "semrows"} => ToSet(q.sem) \subseteq valid
  /\ q.at # "recallrows" => ToSet(q.recall) \subseteq valid
  /\ ToSet(q.graph) \subseteq valid
  /\ q.at = "kwrows" => ToSet(q.kw) \subseteq ToSet(q.bm25)
  /\ q.at # "kwrows" => \A m \in ToSet(q.kw) : Known(m)
  /\ \A m \in ToSet(q.base) \cup ToSet(q.answer) : Known(m)

\* The memories on account of which the answer may not be empty.
Owed == steady \cap ToSet(VectorSearch(RTop))

OwedFound ==
  /\ q.at = "gaterows" => q.sem = VectorSearch(1)
  /\ q.at = "semrows" => q.sem = VectorSearch(RTop)
  /\ q.at \in {"kw", "kwrows", "fuse"} => q.picky \/ Owed \subseteq ToSet(q.sem)
  /\ q.at \in {"graph", "recall", "recallrows", "rank"} => q.picky \/ Owed = {} \/ q.base # <<>>
  /\ NeverFalseEmpty

PoolFits ==
  /\ q.at # "done" => q.how = "none"
  /\ q.model => Len(q.base) <= RFanout
  /\ Len(q.graph) <= RFanout /\ Len(q.recall) <= RFanout
  /\ q.kind = "read" => q.graph = <<>> /\ q.at # "graph"
  /\ RecallHitsScored

ReadInv == ReadShape /\ StandingsSeen /\ OwedFound /\ PoolFits

LEMMA CarriedStays ==
  ASSUME Carried
  PROVE  /\ InForce' = InForce /\ Owed' = Owed
         /\ \A m : Known(m)' <=> Known(m)
  BY DEF Carried, InForce, Owed, Known, VectorSearch, Cut, ByDistance, Listed, ToSet

LEMMA ReadInit0 == ReadInit => ReadInv
<1> SUFFICES ASSUME ReadInit PROVE ReadInv
  OBVIOUS
<1>1. q = NoQuery /\ rstand \in [RMems -> Standings] /\ valid = {} /\ steady = {}
  BY DEF ReadInit, Standings
<1>2. \A S : OnceIn(<<>>, S) /\ ToSet(<<>>) = {} /\ Len(<<>>) = 0
  BY OnceEmpty
<1>3. ReadShape
  <2>1. /\ DOMAIN q = DOMAIN NoQuery /\ q.at # "kwrows" /\ q.kind = "search" /\ q.model = TRUE
        /\ q.limit = 1 /\ q.bm25 = <<>> /\ q.sem = <<>> /\ q.kw = <<>> /\ q.base = <<>>
        /\ q.graph = <<>> /\ q.recall = <<>> /\ q.answer = <<>>
    BY <1>1, NothingAsked
  <2>2. /\ OnceIn(<<>>, RMems) /\ OnceIn(<<>>, RAuth) /\ 1 \in Nat \ {0}
    BY <1>2
  <2>3. OnceIn(q.bm25, RMems) /\ OnceIn(q.kw, IF q.at = "kwrows" THEN RMems ELSE RAuth)
    BY <2>1, <2>2
  <2>4. /\ OnceIn(q.sem, RAuth) /\ OnceIn(q.base, RAuth) /\ OnceIn(q.graph, RAuth)
        /\ OnceIn(q.recall, RAuth) /\ OnceIn(q.answer, RAuth)
    BY <2>1, <2>2
  <2>5. q.kind \in {"search", "read"} /\ q.limit \in Nat \ {0}
    BY <2>1
  <2>6. q.model \in BOOLEAN
    BY <2>1, Zenon
  <2> QED BY <1>1, <2>1, <2>3, <2>4, <2>5, <2>6 DEF ReadShape
<1>4. StandingsSeen
  BY <1>1, <1>2, NothingAsked DEF StandingsSeen
<1>5. OwedFound
  BY <1>1, NothingAsked DEF OwedFound, NeverFalseEmpty
<1>6. PoolFits
  BY <1>1, <1>2, NothingAsked, ReadConstants DEF PoolFits, RecallHitsScored
<1> QED BY <1>3, <1>4, <1>5, <1>6 DEF ReadInv

LEMMA AnsweredKeeps ==
  ASSUME ReadInv, Answered
  PROVE  ReadInv'
<1>1. q' = NoQuery /\ rstand' = rstand /\ rstand \in [RMems -> Standings] /\ valid' = {} /\ steady' = {}
  BY DEF Answered, ReadInv, ReadShape
<1>2. \A S : OnceIn(<<>>, S) /\ ToSet(<<>>) = {} /\ Len(<<>>) = 0
  BY OnceEmpty
<1>3. ReadShape'
  <2>1. /\ DOMAIN q' = DOMAIN NoQuery /\ q'.at # "kwrows" /\ q'.kind = "search" /\ q'.model = TRUE
        /\ q'.limit = 1 /\ q'.bm25 = <<>> /\ q'.sem = <<>> /\ q'.kw = <<>> /\ q'.base = <<>>
        /\ q'.graph = <<>> /\ q'.recall = <<>> /\ q'.answer = <<>>
    BY <1>1, NothingAsked
  <2>2. /\ OnceIn(<<>>, RMems) /\ OnceIn(<<>>, RAuth) /\ 1 \in Nat \ {0}
    BY <1>2
  <2>3. OnceIn(q'.bm25, RMems) /\ OnceIn(q'.kw, IF q'.at = "kwrows" THEN RMems ELSE RAuth)
    BY <2>1, <2>2
  <2>4. /\ OnceIn(q'.sem, RAuth) /\ OnceIn(q'.base, RAuth) /\ OnceIn(q'.graph, RAuth)
        /\ OnceIn(q'.recall, RAuth) /\ OnceIn(q'.answer, RAuth)
    BY <2>1, <2>2
  <2>5. q'.kind \in {"search", "read"} /\ q'.limit \in Nat \ {0}
    BY <2>1
  <2>6. q'.model \in BOOLEAN
    BY <2>1, Zenon
  <2> QED BY <1>1, <2>1, <2>3, <2>4, <2>5, <2>6 DEF ReadShape
<1>4. StandingsSeen'
  BY <1>1, <1>2, NothingAsked DEF StandingsSeen
<1>5. OwedFound'
  BY <1>1, NothingAsked DEF OwedFound, NeverFalseEmpty
<1>6. PoolFits'
  BY <1>1, <1>2, NothingAsked, ReadConstants DEF PoolFits, RecallHitsScored
<1> QED BY <1>3, <1>4, <1>5, <1>6 DEF ReadInv

LEMMA AskKeeps ==
  ASSUME ReadInv, NEW kind \in {"search", "read"}, NEW model \in BOOLEAN, NEW limit \in RLimits,
         NEW picky, NEW near, NEW best, NEW bm25 \in RKeywordOrders, NEW offer,
         Ask(kind, model, limit, picky, near, best, bm25, offer)
  PROVE  ReadInv'
<1>1. /\ RAuth # {}
      /\ DOMAIN q' = DOMAIN NoQuery
      /\ q'.kind = kind /\ q'.model = model /\ q'.limit = limit
      /\ q'.bm25 = bm25
      /\ q'.at \in {"gate", "sem"}
      /\ q'.sem = <<>> /\ q'.kw = <<>> /\ q'.base = <<>> /\ q'.graph = <<>>
      /\ q'.recall = <<>> /\ q'.answer = <<>> /\ q'.how = "none"
      /\ valid' = InForce /\ steady' = InForce /\ rstand' = rstand
  BY AskDoes
<1>2. \A S : OnceIn(<<>>, S) /\ ToSet(<<>>) = {} /\ Len(<<>>) = 0
  BY OnceEmpty
<1>3. ReadShape'
  <2>1. OnceIn(bm25, RMems) /\ limit \in Nat \ {0} /\ rstand \in [RMems -> Standings]
    BY ReadConstants DEF ReadInv, ReadShape
  <2> QED BY <1>1, <1>2, <2>1 DEF ReadShape
<1>4. StandingsSeen'
  <2>1. InForce' = InForce
    BY <1>1 DEF InForce
  <2> QED BY <1>1, <1>2, <2>1 DEF StandingsSeen
<1>5. OwedFound'
  BY <1>1 DEF OwedFound, NeverFalseEmpty
<1>6. PoolFits'
  BY <1>1, <1>2, ReadConstants DEF PoolFits, RecallHitsScored
<1> QED BY <1>3, <1>4, <1>5, <1>6 DEF ReadInv

LEMMA ChangeKeeps ==
  ASSUME ReadInv, NEW m \in RMems, Change(m)
  PROVE  ReadInv'
<1>1. /\ q' = q /\ valid' = valid /\ steady' = steady \ {m}
      /\ \E s \in {"retired", "archived", "gone"} : rstand' = [rstand EXCEPT ![m] = s]
      /\ rstand[m] \in {"archived", "gone"} => rstand' = [rstand EXCEPT ![m] = "gone"]
  BY DEF Change
<1>2. rstand \in [RMems -> Standings]
  BY DEF ReadInv, ReadShape
<1>3. rstand' \in [RMems -> Standings] /\ \A n \in RMems : n # m => rstand'[n] = rstand[n]
  BY <1>1, <1>2 DEF Standings
<1>4. rstand'[m] # "active" /\ (rstand[m] \in {"archived", "gone"} => rstand'[m] = "gone")
  BY <1>1, <1>2
<1>5. InForce' = InForce \ {m}
  BY <1>3, <1>4 DEF InForce
<1>6. \A n \in RMems : rstand[n] \in {"archived", "gone"} => rstand'[n] \in {"archived", "gone"}
  BY <1>3, <1>4
<1>7. ReadShape'
  BY <1>1, <1>3 DEF ReadInv, ReadShape
<1>8. \A n : Known(n) => Known(n)'
  <2>1. ToSet(q.bm25) \subseteq RMems
    BY OnceElements DEF ReadInv, ReadShape
  <2> QED BY <1>1, <1>6, <2>1 DEF Known
<1>9. StandingsSeen'
  BY <1>1, <1>5, <1>8 DEF ReadInv, StandingsSeen
<1>10. Owed' \subseteq Owed
  BY <1>1 DEF Owed, VectorSearch, Cut, ByDistance, Listed, ToSet
<1>11. NeverFalseEmpty'
  <2>1. NeverFalseEmpty
    BY DEF ReadInv, OwedFound
  <2>2. VectorSearch(1)' = VectorSearch(1)
    BY DEF VectorSearch, Cut, ByDistance, Listed
  <2>3. (steady \cap ToSet(VectorSearch(RTop)) = {}) => (steady \cap ToSet(VectorSearch(RTop)) = {})'
    BY <1>10 DEF Owed
  <2>4. ~ (ToSet(VectorSearch(1)) \subseteq steady) => ~ (ToSet(VectorSearch(1)) \subseteq steady)'
    BY <1>1, <2>2 DEF ToSet
  <2> QED BY <1>1, <2>1, <2>3, <2>4 DEF NeverFalseEmpty
<1>12. OwedFound'
  <2>1. VectorSearch(1)' = VectorSearch(1) /\ VectorSearch(RTop)' = VectorSearch(RTop)
    BY DEF VectorSearch, Cut, ByDistance, Listed
  <2> QED BY <1>1, <1>10, <1>11, <2>1 DEF ReadInv, OwedFound
<1>13. PoolFits'
  BY <1>1 DEF ReadInv, PoolFits, RecallHitsScored
<1> QED BY <1>7, <1>9, <1>12, <1>13 DEF ReadInv

\* The lists as they stand before a step.
LEMMA Shape ==
  ASSUME ReadInv
  PROVE  /\ DOMAIN q = DOMAIN NoQuery
         /\ q.model \in BOOLEAN /\ q.limit \in Nat \ {0}
         /\ OnceIn(q.bm25, RMems)
         /\ q.at = "kwrows" => OnceIn(q.kw, RMems)
         /\ q.at # "kwrows" => OnceIn(q.kw, RAuth)
         /\ OnceIn(q.sem, RAuth) /\ OnceIn(q.base, RAuth) /\ OnceIn(q.graph, RAuth)
         /\ OnceIn(q.recall, RAuth) /\ OnceIn(q.answer, RAuth)
  BY DEF ReadInv, ReadShape

\* A step of the query keeps its shape when it keeps its lists.
LEMMA ShapeStays ==
  ASSUME ReadInv, Carried,
         q'.at # "kwrows" => OnceIn(q'.kw, RAuth), q'.at = "kwrows" => OnceIn(q'.kw, RMems),
         OnceIn(q'.sem, RAuth), OnceIn(q'.base, RAuth), OnceIn(q'.graph, RAuth),
         OnceIn(q'.recall, RAuth), OnceIn(q'.answer, RAuth)
  PROVE  ReadShape'
<1>1. /\ rstand' = rstand /\ DOMAIN q' = DOMAIN q
      /\ q'.kind = q.kind /\ q'.model = q.model /\ q'.limit = q.limit /\ q'.bm25 = q.bm25
  BY DEF Carried
<1>2. /\ rstand \in [RMems -> Standings] /\ DOMAIN q = DOMAIN NoQuery
      /\ q.kind \in {"search", "read"} /\ q.model \in BOOLEAN /\ q.limit \in Nat \ {0}
      /\ OnceIn(q.bm25, RMems)
  BY DEF ReadInv, ReadShape
<1>3. OnceIn(q'.kw, IF q'.at = "kwrows" THEN RMems ELSE RAuth)
  <2>1. CASE q'.at = "kwrows"
    BY <2>1
  <2>2. CASE q'.at # "kwrows"
    BY <2>2
  <2> QED BY <2>1, <2>2
<1> QED BY <1>1, <1>2, <1>3 DEF ReadShape

\* Before its end a query owes no answer.
LEMMA NotDone ==
  ASSUME q'.at # "done", q'.how = "none"
  PROVE  NeverFalseEmpty' /\ RecallHitsScored'
  BY DEF NeverFalseEmpty, RecallHitsScored

LEMMA Fits ==
  ASSUME ReadInv, Carried, q'.at # "done", q'.how = "none", q'.at # "graph",
         q.model => Len(q'.base) <= RFanout, Len(q'.graph) <= RFanout, Len(q'.recall) <= RFanout,
         q.kind = "read" => q'.graph = <<>>
  PROVE  PoolFits'
<1>1. q'.kind = q.kind /\ q'.model = q.model
  BY DEF Carried
<1> QED BY <1>1, NotDone DEF PoolFits

\* A memory in force and among the first of the index is among the rows.
LEMMA RowsKept ==
  ASSUME NEW s, OnceIn(s, RAuth)
  PROVE  OnceIn(SemanticRows(s), RAuth) /\ ToSet(SemanticRows(s)) = ToSet(s) \cap InForce
         /\ Len(SemanticRows(s)) <= Len(s)
  BY KeptLists DEF SemanticRows

LEMMA GateSearchKeeps ==
  ASSUME ReadInv, GateSearch
  PROVE  ReadInv'
<1>1. /\ q.at = "gate" /\ Carried
      /\ q'.sem = VectorSearch(1)
      /\ q'.at = "gaterows"
      /\ q'.kw = q.kw /\ q'.base = q.base /\ q'.graph = q.graph /\ q'.recall = q.recall
      /\ q'.answer = q.answer /\ q'.how = q.how
  BY Shape, GateSearchDoes
<1>2. /\ InForce' = InForce /\ Owed' = Owed /\ (\A m : Known(m)' <=> Known(m))
      /\ valid' = valid /\ steady' = steady /\ q'.bm25 = q.bm25
  BY <1>1, CarriedStays DEF Carried
<1>3. OnceIn(VectorSearch(1), RAuth) /\ VectorSearch(1)' = VectorSearch(1)
  <2>1. 1 \in Nat
    OBVIOUS
  <2> QED BY <2>1, VectorsListed DEF VectorSearch, Cut, ByDistance, Listed
<1>4. ReadShape'
  BY <1>1, <1>3, Shape, ShapeStays
<1>5. StandingsSeen'
  BY <1>1, <1>2 DEF ReadInv, StandingsSeen
<1>6. q'.how = "none" /\ PoolFits'
  <2>1. /\ q.how = "none" /\ (q.model => Len(q.base) <= RFanout) /\ Len(q.graph) <= RFanout
        /\ Len(q.recall) <= RFanout /\ (q.kind = "read" => q.graph = <<>>)
    BY <1>1 DEF ReadInv, PoolFits
  <2> QED BY <1>1, <2>1, Fits
<1>7. OwedFound'
  BY <1>1, <1>3, <1>6, NotDone DEF OwedFound
<1> QED BY <1>4, <1>5, <1>6, <1>7 DEF ReadInv

LEMMA GateFetchKeeps ==
  ASSUME ReadInv, GateFetch
  PROVE  ReadInv'
<1>1. /\ q.at = "gaterows" /\ Carried
      /\ q'.sem = <<>>
      /\ q'.kw = q.kw /\ q'.base = q.base /\ q'.graph = q.graph /\ q'.recall = q.recall
      /\ q'.answer = q.answer
      /\ \/ q'.at = "sem" /\ q'.how = q.how
         \/ ~ (SemanticRows(q.sem) # <<>> /\ q.near) /\ q'.at = "done" /\ q'.how = "gated"
  BY Shape, GateFetchDoes
<1>2. /\ InForce' = InForce /\ Owed' = Owed /\ (\A m : Known(m)' <=> Known(m))
      /\ valid' = valid /\ steady' = steady /\ q'.bm25 = q.bm25
      /\ q'.kind = q.kind /\ q'.model = q.model /\ q'.near = q.near
  BY <1>1, CarriedStays DEF Carried
<1>3. OnceIn(<<>>, RAuth) /\ ToSet(<<>>) = {}
  BY OnceEmpty
<1>4. ReadShape'
  BY <1>1, <1>3, Shape, ShapeStays
<1>5. StandingsSeen'
  BY <1>1, <1>2, <1>3 DEF ReadInv, StandingsSeen
<1>6. PoolFits'
  <2>1. /\ q.how = "none" /\ (q.model => Len(q.base) <= RFanout) /\ Len(q.graph) <= RFanout
        /\ Len(q.recall) <= RFanout /\ (q.kind = "read" => q.graph = <<>>)
    BY <1>1 DEF ReadInv, PoolFits
  <2>2. RecallHitsScored'
    BY <1>1, <2>1 DEF RecallHitsScored
  <2> QED BY <1>1, <1>2, <2>1, <2>2 DEF PoolFits
<1>7. NeverFalseEmpty'
  <2>1. CASE q'.at = "sem"
    BY <2>1 DEF NeverFalseEmpty
  <2>2. CASE ~ (SemanticRows(q.sem) # <<>> /\ q.near) /\ q'.at = "done" /\ q'.how = "gated"
    <3>1. VectorSearch(1)' = VectorSearch(1)
      BY DEF VectorSearch, Cut, ByDistance, Listed
    <3>2. q.near => ~ (ToSet(VectorSearch(1)) \subseteq steady)
      <4> SUFFICES ASSUME q.near PROVE ~ (ToSet(VectorSearch(1)) \subseteq steady)
        OBVIOUS
      <4>1. q.sem = VectorSearch(1)
        BY <1>1 DEF ReadInv, OwedFound
      <4>2. ToSet(SemanticRows(q.sem)) = {}
        BY <2>2, Shape, RowsKept, OnceNone
      <4>3. ToSet(VectorSearch(1)) \cap InForce = {}
        BY <4>1, <4>2, Shape, RowsKept
      <4>4. steady \subseteq InForce /\ RAuth # {}
        BY <1>1 DEF ReadInv, StandingsSeen
      <4>5. ToSet(VectorSearch(1)) # {}
        <5>1. 1 \in Nat /\ 1 # 0
          OBVIOUS
        <5> QED BY <4>4, <5>1, VectorsListed
      <4> QED BY <4>3, <4>4, <4>5
    <3>3. (q'.how = "gated" /\ (~ q'.near \/ ~ (ToSet(VectorSearch(1)) \subseteq steady)'))
      <4>1. ToSet(VectorSearch(1))' = ToSet(VectorSearch(1))
        BY <3>1 DEF ToSet
      <4> QED BY <1>2, <2>2, <3>2, <4>1
    <3> QED BY <3>3 DEF NeverFalseEmpty
  <2> QED BY <1>1, <2>1, <2>2
<1>8. OwedFound'
  BY <1>1, <1>7 DEF OwedFound
<1> QED BY <1>4, <1>5, <1>6, <1>8 DEF ReadInv

LEMMA SemanticSearchKeeps ==
  ASSUME ReadInv, SemanticSearch
  PROVE  ReadInv'
<1>1. /\ q.at = "sem" /\ Carried
      /\ q'.sem = VectorSearch(RTop)
      /\ q'.at = "semrows"
      /\ q'.kw = q.kw /\ q'.base = q.base /\ q'.graph = q.graph /\ q'.recall = q.recall
      /\ q'.answer = q.answer /\ q'.how = q.how
  BY Shape, SemanticSearchDoes
<1>2. /\ InForce' = InForce /\ Owed' = Owed /\ (\A m : Known(m)' <=> Known(m))
      /\ valid' = valid /\ steady' = steady /\ q'.bm25 = q.bm25
  BY <1>1, CarriedStays DEF Carried
<1>3. OnceIn(VectorSearch(RTop), RAuth) /\ VectorSearch(RTop)' = VectorSearch(RTop)
  BY ReadConstants, VectorsListed DEF VectorSearch, Cut, ByDistance, Listed
<1>4. ReadShape'
  BY <1>1, <1>3, Shape, ShapeStays
<1>5. StandingsSeen'
  BY <1>1, <1>2 DEF ReadInv, StandingsSeen
<1>6. q'.how = "none" /\ PoolFits'
  <2>1. /\ q.how = "none" /\ (q.model => Len(q.base) <= RFanout) /\ Len(q.graph) <= RFanout
        /\ Len(q.recall) <= RFanout /\ (q.kind = "read" => q.graph = <<>>)
    BY <1>1 DEF ReadInv, PoolFits
  <2> QED BY <1>1, <2>1, Fits
<1>7. OwedFound'
  BY <1>1, <1>3, <1>6, NotDone DEF OwedFound
<1> QED BY <1>4, <1>5, <1>6, <1>7 DEF ReadInv

LEMMA SemanticFetchKeeps ==
  ASSUME ReadInv, SemanticFetch
  PROVE  ReadInv'
<1>1. /\ q.at = "semrows" /\ Carried
      /\ q'.sem = HybridRows
      /\ q'.at = "kw"
      /\ q'.kw = q.kw /\ q'.base = q.base /\ q'.graph = q.graph /\ q'.recall = q.recall
      /\ q'.answer = q.answer /\ q'.how = q.how
  BY Shape, SemanticFetchDoes
<1>2. /\ InForce' = InForce /\ Owed' = Owed /\ (\A m : Known(m)' <=> Known(m))
      /\ valid' = valid /\ steady' = steady /\ q'.bm25 = q.bm25 /\ q'.picky = q.picky
  BY <1>1, CarriedStays DEF Carried
<1>3. InForce \subseteq valid /\ steady \subseteq InForce
  BY <1>1 DEF ReadInv, StandingsSeen
<1>4. PICK r : r = SemanticRows(q.sem) /\ OnceIn(r, RAuth) /\ ToSet(r) = ToSet(q.sem) \cap InForce
  BY Shape, RowsKept
<1>5. /\ OnceIn(HybridRows, RAuth) /\ ToSet(HybridRows) \subseteq ToSet(r)
      /\ q.picky \/ HybridRows = r
  <2>1. OnceIn(Keep(r, Nearest), RAuth) /\ ToSet(Keep(r, Nearest)) \subseteq ToSet(r)
    BY <1>4, KeptLists
  <2> QED BY <1>4, <2>1 DEF HybridRows
<1>6. ReadShape'
  BY <1>1, <1>5, Shape, ShapeStays
<1>7. StandingsSeen'
  BY <1>1, <1>2, <1>3, <1>4, <1>5 DEF ReadInv, StandingsSeen
<1>8. q'.how = "none" /\ PoolFits'
  <2>1. /\ q.how = "none" /\ (q.model => Len(q.base) <= RFanout) /\ Len(q.graph) <= RFanout
        /\ Len(q.recall) <= RFanout /\ (q.kind = "read" => q.graph = <<>>)
    BY <1>1 DEF ReadInv, PoolFits
  <2> QED BY <1>1, <2>1, Fits
<1>9. q.picky \/ Owed \subseteq ToSet(HybridRows)
  <2>1. q.sem = VectorSearch(RTop)
    BY <1>1 DEF ReadInv, OwedFound
  <2> QED BY <1>3, <1>4, <1>5, <2>1 DEF Owed
<1>10. OwedFound'
  BY <1>1, <1>2, <1>8, <1>9, NotDone DEF OwedFound
<1> QED BY <1>6, <1>7, <1>8, <1>10 DEF ReadInv

LEMMA KeywordSearchKeeps ==
  ASSUME ReadInv, KeywordSearch
  PROVE  ReadInv'
<1>1. /\ q.at = "kw" /\ Carried
      /\ q'.kw = Cut(q.bm25, RTop)
      /\ q'.at = "kwrows"
      /\ q'.sem = q.sem /\ q'.base = q.base /\ q'.graph = q.graph /\ q'.recall = q.recall
      /\ q'.answer = q.answer /\ q'.how = q.how
  BY Shape, KeywordSearchDoes
<1>2. /\ InForce' = InForce /\ Owed' = Owed /\ (\A m : Known(m)' <=> Known(m))
      /\ valid' = valid /\ steady' = steady /\ q'.bm25 = q.bm25 /\ q'.picky = q.picky
  BY <1>1, CarriedStays DEF Carried
<1>3. OnceIn(Cut(q.bm25, RTop), RMems) /\ ToSet(Cut(q.bm25, RTop)) \subseteq ToSet(q.bm25)
  <2>1. PICK b : b = q.bm25 /\ OnceIn(b, RMems)
    BY Shape
  <2>2. OnceIn(Cut(b, RTop), RMems) /\ ToSet(Cut(b, RTop)) \in SUBSET ToSet(b)
    BY <2>1, ReadConstants, CutLists
  <2> QED BY <2>1, <2>2
<1>4. ReadShape'
  BY <1>1, <1>3, Shape, ShapeStays
<1>5. StandingsSeen'
  BY <1>1, <1>2, <1>3 DEF ReadInv, StandingsSeen
<1>6. q'.how = "none" /\ PoolFits'
  <2>1. /\ q.how = "none" /\ (q.model => Len(q.base) <= RFanout) /\ Len(q.graph) <= RFanout
        /\ Len(q.recall) <= RFanout /\ (q.kind = "read" => q.graph = <<>>)
    BY <1>1 DEF ReadInv, PoolFits
  <2> QED BY <1>1, <2>1, Fits
<1>7. OwedFound'
  BY <1>1, <1>2, <1>6, NotDone DEF ReadInv, OwedFound
<1> QED BY <1>4, <1>5, <1>6, <1>7 DEF ReadInv

\* The keyword channel lets active and archived rows of the authorized boundaries through.
LEMMA KeywordFetchKeeps ==
  ASSUME ReadInv, KeywordFetch
  PROVE  ReadInv'
<1>1. /\ q.at = "kwrows" /\ Carried
      /\ q'.kw = KeywordRows(q.kw)
      /\ q'.at = "fuse"
      /\ q'.sem = q.sem /\ q'.base = q.base /\ q'.graph = q.graph /\ q'.recall = q.recall
      /\ q'.answer = q.answer /\ q'.how = q.how
  BY Shape, KeywordFetchDoes
<1>2. /\ InForce' = InForce /\ Owed' = Owed /\ (\A m : Known(m)' <=> Known(m))
      /\ valid' = valid /\ steady' = steady /\ q'.bm25 = q.bm25 /\ q'.picky = q.picky
  BY <1>1, CarriedStays DEF Carried
<1>3. PICK T : T = {m \in RAuth : rstand[m] \in {"active", "archived"}}
  OBVIOUS
<1>4. PICK k : k = KeywordRows(q.kw) /\ OnceIn(k, RMems \cap T) /\ ToSet(k) = ToSet(q.kw) \cap T
  <2>1. PICK w : w = q.kw /\ OnceIn(w, RMems)
    BY <1>1, Shape
  <2>2. OnceIn(Keep(w, T), RMems \cap T) /\ ToSet(Keep(w, T)) = ToSet(w) \cap T
    BY <2>1, KeepLists
  <2>3. KeywordRows(w) = Keep(w, T)
    BY <1>3 DEF KeywordRows
  <2> QED BY <2>1, <2>2, <2>3
<1>5. OnceIn(k, RAuth)
  <2>1. RMems \cap T \subseteq RAuth
    BY <1>3
  <2> QED BY <1>4, <2>1, OnceAmong
<1>6. ReadShape'
  BY <1>1, <1>4, <1>5, Shape, ShapeStays
<1>7. \A m \in ToSet(k) : Known(m)
  <2> SUFFICES ASSUME NEW m \in ToSet(k) PROVE Known(m)
    OBVIOUS
  <2>1. m \in ToSet(q.bm25) /\ InForce \subseteq valid
    BY <1>1, <1>4 DEF ReadInv, StandingsSeen
  <2>2. m \in RMems /\ rstand[m] \in {"active", "archived"}
    BY <1>3, <1>4, ReadConstants
  <2> QED BY <2>1, <2>2 DEF Known, InForce
<1>8. StandingsSeen'
  BY <1>1, <1>2, <1>4, <1>7 DEF ReadInv, StandingsSeen
<1>9. q'.how = "none" /\ PoolFits'
  <2>1. /\ q.how = "none" /\ (q.model => Len(q.base) <= RFanout) /\ Len(q.graph) <= RFanout
        /\ Len(q.recall) <= RFanout /\ (q.kind = "read" => q.graph = <<>>)
    BY <1>1 DEF ReadInv, PoolFits
  <2> QED BY <1>1, <2>1, Fits
<1>10. OwedFound'
  BY <1>1, <1>2, <1>9, NotDone DEF ReadInv, OwedFound
<1> QED BY <1>6, <1>8, <1>9, <1>10 DEF ReadInv

LEMMA CutSome ==
  ASSUME NEW S, NEW s, OnceIn(s, S), NEW n \in Nat \ {0}, s # <<>>
  PROVE  Cut(s, n) # <<>>
<1>1. Len(s) \in Nat /\ Len(s) # 0
  BY DEF OnceIn
<1>2. 1 \in 1..n /\ 1 <= Len(s)
  BY <1>1
<1>3. s[1] \in ToSet(Cut(s, n)) /\ OnceIn(Cut(s, n), S)
  BY <1>2, CutLists
<1> QED BY <1>3, OnceNone

LEMMA FuseKeeps ==
  ASSUME ReadInv, Fuse
  PROVE  ReadInv'
<1>1. /\ q.at = "fuse" /\ Carried
      /\ q'.base = Cut(Fused, Limit)
      /\ q'.sem = <<>> /\ q'.kw = <<>>
      /\ q'.at = (IF ~ q.model THEN "rank" ELSE IF q.kind = "search" THEN "graph" ELSE "recall")
      /\ q'.graph = q.graph /\ q'.recall = q.recall
      /\ q'.answer = q.answer /\ q'.how = q.how
  BY Shape, FuseDoes
<1>2. /\ InForce' = InForce /\ Owed' = Owed /\ (\A m : Known(m)' <=> Known(m))
      /\ valid' = valid /\ steady' = steady /\ q'.bm25 = q.bm25 /\ q'.picky = q.picky
      /\ q'.kind = q.kind /\ q'.model = q.model
  BY <1>1, CarriedStays DEF Carried
<1>3. PICK f : f = Fused /\ OnceIn(f, RAuth) /\ ToSet(f) = ToSet(q.sem) \cup ToSet(q.kw)
  BY <1>1, Shape, FusedLists
<1>4. PICK l \in Nat \ {0} : l = Limit /\ (q.model => l = RFanout)
  BY Shape, ReadConstants DEF Limit
<1>5. PICK b : /\ b = Cut(f, l) /\ OnceIn(b, RAuth) /\ ToSet(b) \subseteq ToSet(f)
               /\ Len(b) <= l /\ (f # <<>> => b # <<>>)
  BY <1>3, CutLists, CutSome
<1>6. q'.base = b
  BY <1>1, <1>3, <1>4, <1>5
<1>7. q'.at \in {"rank", "graph", "recall"} /\ (q.kind = "read" => q'.at # "graph")
  BY <1>1
<1>8. OnceIn(<<>>, RAuth) /\ ToSet(<<>>) = {}
  BY OnceEmpty
<1>9. ReadShape'
  BY <1>1, <1>5, <1>6, <1>7, <1>8, Shape, ShapeStays
<1>10. StandingsSeen'
  <2>1. \A m \in ToSet(b) : Known(m)
    BY <1>1, <1>3, <1>5 DEF ReadInv, StandingsSeen, Known
  <2> QED BY <1>1, <1>2, <1>6, <1>7, <1>8, <2>1 DEF ReadInv, StandingsSeen
<1>11. q'.how = "none" /\ PoolFits'
  <2>1. /\ q.how = "none" /\ Len(q.graph) <= RFanout
        /\ Len(q.recall) <= RFanout /\ (q.kind = "read" => q.graph = <<>>)
    BY <1>1 DEF ReadInv, PoolFits
  <2>2. NeverFalseEmpty' /\ RecallHitsScored'
    BY <1>1, <1>7, <2>1, NotDone
  <2>3. q.model => Len(b) <= RFanout
    BY <1>4, <1>5
  <2> QED BY <1>1, <1>2, <1>6, <1>7, <2>1, <2>2, <2>3 DEF PoolFits
<1>12. q.picky \/ Owed = {} \/ b # <<>>
  <2>1. q.picky \/ Owed \subseteq ToSet(f)
    BY <1>1, <1>3 DEF ReadInv, OwedFound
  <2> QED BY <1>3, <1>5, <2>1, OnceNone
<1>13. OwedFound'
  BY <1>2, <1>6, <1>7, <1>11, <1>12, NotDone DEF OwedFound
<1> QED BY <1>9, <1>10, <1>11, <1>13 DEF ReadInv

LEMMA GraphRecallKeeps ==
  ASSUME ReadInv, GraphRecall
  PROVE  ReadInv'
<1>1. /\ q.at = "graph" /\ Carried
      /\ q'.graph = Cut(Reverse(ByDistance(q.offer \cap InForce \cap RAuth)), RFanout)
      /\ q'.at = "recall"
      /\ q'.sem = q.sem /\ q'.kw = q.kw /\ q'.base = q.base /\ q'.recall = q.recall
      /\ q'.answer = q.answer /\ q'.how = q.how
  BY Shape, GraphRecallDoes
<1>2. /\ InForce' = InForce /\ Owed' = Owed /\ (\A m : Known(m)' <=> Known(m))
      /\ valid' = valid /\ steady' = steady /\ q'.bm25 = q.bm25 /\ q'.picky = q.picky
      /\ q'.kind = q.kind /\ q'.model = q.model
  BY <1>1, CarriedStays DEF Carried
<1>3. PICK S : S = q.offer \cap InForce \cap RAuth
  OBVIOUS
<1>4. S \in SUBSET Nat /\ S \in SUBSET RMems /\ S \subseteq RAuth /\ S \subseteq InForce
  BY <1>3, ReadConstants
<1>5. IsFiniteSet(S)
  BY <1>4, ReadConstants, FS_Subset
<1>6. OnceIn(ByDistance(S), S)
  BY <1>4, <1>5, ByDistanceLists DEF Lists
<1>7. OnceIn(Reverse(ByDistance(S)), S)
  BY <1>6, ReverseLists
<1>8. PICK g : /\ g = Cut(Reverse(ByDistance(S)), RFanout)
               /\ OnceIn(g, S) /\ Len(g) <= RFanout
  BY <1>7, ReadConstants, CutLists
<1>9. q'.graph = g /\ OnceIn(g, RAuth) /\ ToSet(g) \subseteq S
  <2>1. q'.graph = g
    BY <1>1, <1>3, <1>8
  <2>2. OnceIn(g, RAuth)
    BY <1>4, <1>8, OnceAmong
  <2>3. ToSet(g) \in SUBSET S
    BY <1>8, OnceElements
  <2> QED BY <2>1, <2>2, <2>3
<1>10. ReadShape'
  BY <1>1, <1>9, Shape, ShapeStays
<1>11. StandingsSeen'
  BY <1>1, <1>2, <1>4, <1>9 DEF ReadInv, StandingsSeen
<1>12. q'.how = "none" /\ PoolFits'
  <2>1. /\ q.how = "none" /\ (q.model => Len(q.base) <= RFanout)
        /\ Len(q.recall) <= RFanout /\ q.kind # "read"
    BY <1>1 DEF ReadInv, PoolFits
  <2> QED BY <1>1, <1>8, <1>9, <2>1, Fits
<1>13. OwedFound'
  BY <1>1, <1>2, <1>12, NotDone DEF ReadInv, OwedFound
<1> QED BY <1>10, <1>11, <1>12, <1>13 DEF ReadInv

LEMMA RecallSearchKeeps ==
  ASSUME ReadInv, RecallSearch
  PROVE  ReadInv'
<1>1. /\ q.at = "recall" /\ Carried
      /\ q'.recall = VectorSearch(RFanout)
      /\ q'.at = "recallrows"
      /\ q'.sem = q.sem /\ q'.kw = q.kw /\ q'.base = q.base /\ q'.graph = q.graph
      /\ q'.answer = q.answer /\ q'.how = q.how
  BY Shape, RecallSearchDoes
<1>2. /\ InForce' = InForce /\ Owed' = Owed /\ (\A m : Known(m)' <=> Known(m))
      /\ valid' = valid /\ steady' = steady /\ q'.bm25 = q.bm25 /\ q'.picky = q.picky
  BY <1>1, CarriedStays DEF Carried
<1>3. OnceIn(VectorSearch(RFanout), RAuth) /\ Len(VectorSearch(RFanout)) <= RFanout
  BY ReadConstants, VectorsListed
<1>4. ReadShape'
  BY <1>1, <1>3, Shape, ShapeStays
<1>5. StandingsSeen'
  BY <1>1, <1>2 DEF ReadInv, StandingsSeen
<1>6. q'.how = "none" /\ PoolFits'
  <2>1. /\ q.how = "none" /\ (q.model => Len(q.base) <= RFanout) /\ Len(q.graph) <= RFanout
        /\ (q.kind = "read" => q.graph = <<>>)
    BY <1>1 DEF ReadInv, PoolFits
  <2> QED BY <1>1, <1>3, <2>1, Fits
<1>7. OwedFound'
  BY <1>1, <1>2, <1>6, NotDone DEF ReadInv, OwedFound
<1> QED BY <1>4, <1>5, <1>6, <1>7 DEF ReadInv

LEMMA RecallFetchKeeps ==
  ASSUME ReadInv, RecallFetch
  PROVE  ReadInv'
<1>1. /\ q.at = "recallrows" /\ Carried
      /\ q'.recall = SemanticRows(q.recall)
      /\ q'.at = "rank"
      /\ q'.sem = q.sem /\ q'.kw = q.kw /\ q'.base = q.base /\ q'.graph = q.graph
      /\ q'.answer = q.answer /\ q'.how = q.how
  BY Shape, RecallFetchDoes
<1>2. /\ InForce' = InForce /\ Owed' = Owed /\ (\A m : Known(m)' <=> Known(m))
      /\ valid' = valid /\ steady' = steady /\ q'.bm25 = q.bm25 /\ q'.picky = q.picky
  BY <1>1, CarriedStays DEF Carried
<1>3. PICK r : /\ r = SemanticRows(q.recall) /\ OnceIn(r, RAuth)
               /\ ToSet(r) \subseteq InForce /\ Len(r) <= Len(q.recall)
  BY Shape, RowsKept
<1>4. ReadShape'
  BY <1>1, <1>3, Shape, ShapeStays
<1>5. StandingsSeen'
  BY <1>1, <1>2, <1>3 DEF ReadInv, StandingsSeen
<1>6. q'.how = "none" /\ PoolFits'
  <2>1. /\ q.how = "none" /\ (q.model => Len(q.base) <= RFanout) /\ Len(q.graph) <= RFanout
        /\ Len(q.recall) <= RFanout /\ (q.kind = "read" => q.graph = <<>>)
    BY <1>1 DEF ReadInv, PoolFits
  <2>2. Len(r) <= RFanout
    <3>1. Len(r) \in Nat /\ Len(q.recall) \in Nat
      BY <1>3, Shape, OnceElements
    <3> QED BY <1>3, <2>1, <3>1, ReadConstants
  <2> QED BY <1>1, <1>3, <2>1, <2>2, Fits
<1>7. OwedFound'
  BY <1>1, <1>2, <1>6, NotDone DEF ReadInv, OwedFound
<1> QED BY <1>4, <1>5, <1>6, <1>7 DEF ReadInv

\* Everything the channels found is in the pool, and what the reply leaves of the
\* pool it lists once.
LEMMA RankKeeps ==
  ASSUME ReadInv, NEW outcome, Rank(outcome)
  PROVE  ReadInv'
<1>1. /\ q.at = "rank" /\ Carried /\ q'.at = "done"
      /\ q'.sem = q.sem /\ q'.kw = q.kw /\ q'.base = q.base /\ q'.graph = q.graph
      /\ q'.recall = q.recall
      /\ \/ ~ q.model /\ q'.answer = q.base /\ q'.how = "plain"
         \/ /\ q.model /\ q'.scored = Batch /\ q'.answer = Reply(Ranked, TRUE)
            /\ q'.how = "ranked"
         \/ /\ q.model /\ Pool # <<>>
            /\ q'.answer = Reply(Pool, FALSE) /\ q'.how = "degraded"
         \/ q'.answer = q.answer /\ q'.how = "failed"
  BY Shape, RankDoes
<1>2. /\ InForce' = InForce /\ Owed' = Owed /\ (\A m : Known(m)' <=> Known(m))
      /\ valid' = valid /\ steady' = steady /\ q'.bm25 = q.bm25 /\ q'.picky = q.picky
      /\ q'.kind = q.kind /\ q'.model = q.model
  BY <1>1, CarriedStays DEF Carried
<1>3. /\ q.how = "none" /\ (q.model => Len(q.base) <= RFanout) /\ Len(q.graph) <= RFanout
      /\ Len(q.recall) <= RFanout /\ (q.kind = "read" => q.graph = <<>>)
  BY <1>1 DEF ReadInv, PoolFits
<1>4. /\ \A m \in ToSet(q.base) \cup ToSet(q.graph) \cup ToSet(q.recall) \cup ToSet(q.answer) :
           Known(m)
  BY <1>1 DEF ReadInv, StandingsSeen, Known
<1>5. q.picky \/ Owed = {} \/ q.base # <<>>
  BY <1>1 DEF ReadInv, OwedFound
<1>6. ASSUME q.model
      PROVE  /\ OnceIn(Pool, RAuth) /\ OnceIn(Batch, RAuth)
             /\ ToSet(q.base) \subseteq ToSet(Pool)
             /\ ToSet(Pool) \subseteq ToSet(q.base) \cup ToSet(q.graph) \cup ToSet(q.recall)
             /\ ToSet(Batch) \subseteq ToSet(Pool)
             /\ ToSet(q.recall) \subseteq ToSet(Batch)
             /\ q.kind # "read" => ToSet(q.graph) \subseteq ToSet(Batch)
             /\ q.kind = "read" => ToSet(q.base) \subseteq ToSet(Batch)
             /\ Pool # <<>> => Batch # <<>>
  BY <1>3, <1>6, Shape, PoolLists
\* What is replied, whichever way.
<1>7. /\ OnceIn(q'.answer, RAuth)
      /\ ToSet(q'.answer) \subseteq ToSet(q.base) \cup ToSet(q.graph) \cup ToSet(q.recall)
                                      \cup ToSet(q.answer)
      /\ q'.how = "failed" \/ q.picky \/ (q.base # <<>> => q'.answer # <<>>)
  <2>1. CASE ~ q.model /\ q'.answer = q.base /\ q'.how = "plain"
    BY <2>1, Shape
  <2>2. CASE q.model /\ q'.scored = Batch /\ q'.answer = Reply(Ranked, TRUE) /\ q'.how = "ranked"
    <3>1. OnceIn(Ranked, RAuth) /\ ToSet(Ranked) = ToSet(Batch)
      BY <1>6, <2>2, RankedLists
    <3>2. PICK l : l = Ranked
      OBVIOUS
    <3>3. /\ OnceIn(Reply(l, TRUE), RAuth) /\ ToSet(Reply(l, TRUE)) \subseteq ToSet(l)
          /\ l # <<>> /\ ~ q.picky => Reply(l, TRUE) # <<>>
      BY <3>1, <3>2, Shape, ReplyLists
    <3>4. q.base # <<>> => l # <<>>
      <4>1. q.base # <<>> => Pool # <<>>
        BY <1>6, <2>2, Shape, OnceNone
      <4>2. Batch # <<>> => Ranked # <<>>
        BY <1>6, <2>2, <3>1, OnceNone
      <4> QED BY <1>6, <2>2, <3>2, <4>1, <4>2
    <3> QED BY <1>6, <2>2, <3>1, <3>2, <3>3, <3>4
  <2>3. CASE q.model /\ Pool # <<>> /\ q'.answer = Reply(Pool, FALSE) /\ q'.how = "degraded"
    <3>1. PICK l : l = Pool /\ OnceIn(l, RAuth)
      BY <1>6, <2>3
    <3>2. /\ OnceIn(Reply(l, FALSE), RAuth) /\ ToSet(Reply(l, FALSE)) \subseteq ToSet(l)
          /\ l # <<>> /\ ~ q.picky => Reply(l, FALSE) # <<>>
      BY <3>1, Shape, ReplyLists
    <3> QED BY <1>6, <2>3, <3>1, <3>2
  <2>4. CASE q'.answer = q.answer /\ q'.how = "failed"
    BY <2>4, Shape
  <2> QED BY <1>1, <2>1, <2>2, <2>3, <2>4
<1>8. ReadShape'
  BY <1>1, <1>7, Shape, ShapeStays
<1>9. StandingsSeen'
  <2>1. \A m \in ToSet(q'.base) \cup ToSet(q'.answer) : Known(m)'
    BY <1>1, <1>2, <1>4, <1>7
  <2>2. /\ InForce \subseteq valid /\ steady \subseteq InForce /\ RAuth # {}
        /\ ToSet(q.sem) \subseteq valid /\ ToSet(q.recall) \subseteq valid
        /\ ToSet(q.graph) \subseteq valid /\ \A m \in ToSet(q.kw) : Known(m)
    BY <1>1 DEF ReadInv, StandingsSeen
  <2>3. \A m \in ToSet(q'.kw) : Known(m)'
    BY <1>1, <1>2, <2>2
  <2> QED BY <1>1, <1>2, <2>1, <2>2, <2>3 DEF StandingsSeen
<1>10. NeverFalseEmpty'
  <2>1. (steady \cap ToSet(VectorSearch(RTop)) = {})' <=> Owed = {}
    BY <1>2 DEF Owed
  <2> QED BY <1>1, <1>2, <1>5, <1>7, <2>1 DEF NeverFalseEmpty
<1>11. OwedFound'
  BY <1>1, <1>10 DEF OwedFound
<1>12. RecallHitsScored'
  <2> SUFFICES ASSUME q'.how = "ranked"
               PROVE  /\ ToSet(q'.graph) \cup ToSet(q'.recall) \subseteq ToSet(q'.scored)
                      /\ q'.kind = "read" => ToSet(q'.base) \subseteq ToSet(q'.answer)
    BY DEF RecallHitsScored, ToSet
  <2>1. q.model /\ q'.scored = Batch /\ q'.answer = Reply(Ranked, TRUE)
    BY <1>1
  <2>2. ToSet(q.graph) \subseteq ToSet(Batch)
    BY <1>3, <1>6, <2>1, OnceEmpty
  <2>3. q.kind = "read" => ToSet(q.base) \subseteq ToSet(Reply(Ranked, TRUE))
    <3>1. OnceIn(Ranked, RAuth) /\ ToSet(Ranked) = ToSet(Batch)
      BY <1>6, <2>1, RankedLists
    <3>2. q.kind = "read" => Reply(Ranked, TRUE) = Ranked
      BY DEF Reply
    <3> QED BY <1>6, <2>1, <3>1, <3>2
  <2> QED BY <1>1, <1>2, <1>6, <2>1, <2>2, <2>3
<1>13. PoolFits'
  BY <1>1, <1>2, <1>3, <1>12 DEF PoolFits
<1> QED BY <1>8, <1>9, <1>11, <1>13 DEF ReadInv

LEMMA ReadStutters ==
  ASSUME ReadInv, UNCHANGED readVars
  PROVE  ReadInv'
<1>1. /\ q' = q /\ rstand' = rstand /\ valid' = valid /\ steady' = steady
  BY DEF readVars
<1>2. /\ VectorSearch(1)' = VectorSearch(1) /\ VectorSearch(RTop)' = VectorSearch(RTop)
  BY DEF VectorSearch, Cut, ByDistance, Listed
<1>3. ReadShape'
  BY <1>1 DEF ReadInv, ReadShape
<1>4. StandingsSeen'
  BY <1>1 DEF ReadInv, StandingsSeen, Known, InForce
<1>5. NeverFalseEmpty'
  BY <1>1, <1>2 DEF ReadInv, OwedFound, NeverFalseEmpty, ToSet
<1>6. OwedFound'
  BY <1>1, <1>2, <1>5 DEF ReadInv, OwedFound, Owed, ToSet
<1>7. PoolFits'
  BY <1>1 DEF ReadInv, PoolFits, RecallHitsScored
<1> QED BY <1>3, <1>4, <1>6, <1>7 DEF ReadInv

LEMMA ReadStep ==
  ASSUME ReadInv, [ReadNext]_readVars
  PROVE  ReadInv'
<1>1. ASSUME NEW m \in RMems, Change(m) PROVE ReadInv'
  BY <1>1, ChangeKeeps
<1>2. ASSUME NEW kind \in {"search", "read"}, NEW model \in BOOLEAN, NEW picky \in BOOLEAN,
             NEW near \in BOOLEAN, NEW limit \in RLimits, NEW best \in RMems,
             NEW bm25 \in RKeywordOrders, NEW offer \in ROffers,
             Ask(kind, model, limit, picky, near, best, bm25, offer)
      PROVE  ReadInv'
  BY <1>2, AskKeeps
<1>3. ASSUME NEW outcome \in {"scores", "unavailable", "error"}, Rank(outcome) PROVE ReadInv'
  BY <1>3, RankKeeps
<1> QED BY <1>1, <1>2, <1>3, GateSearchKeeps, GateFetchKeeps, SemanticSearchKeeps,
           SemanticFetchKeeps, KeywordSearchKeeps, KeywordFetchKeeps, FuseKeeps,
           GraphRecallKeeps, RecallSearchKeeps, RecallFetchKeeps, AnsweredKeeps, ReadStutters
        DEF ReadNext

\* The invariant of the read side: what the lists of a query hold at each of its
\* steps, and what that makes of the answer.
THEOREM ReadInvariant == ReadSpec => []ReadInv
<1>1. ReadInit => ReadInv
  BY ReadInit0
<1>2. ReadInv /\ [ReadNext]_readVars => ReadInv'
  BY ReadStep
<1> QED BY <1>1, <1>2, PTL DEF ReadSpec

\* Whatever is retired, archived or deleted between the search of an index and the
\* fetch of its rows, and however long the lists: memory_search and memory_read
\* answer with each memory once, from boundaries the query may read, and with none
\* that was out of force all the time but an archived one of the keyword channel.
THEOREM AnswersOnce == ReadSpec => []AnswerOnceInForce
<1>1. ReadInv => AnswerOnceInForce
  <2> SUFFICES ASSUME ReadInv PROVE AnswerOnceInForce
    OBVIOUS
  <2>1. OnceIn(q.answer, RAuth)
    BY Shape
  <2>2. ToSet(q.answer) \subseteq RAuth
    BY <2>1, OnceElements
  <2>3. \A m \in ToSet(q.answer) : Known(m)
    BY DEF ReadInv, StandingsSeen
  <2> QED BY <2>1, <2>2, <2>3 DEF AnswerOnceInForce, OnceIn, Known
<1> QED BY <1>1, ReadInvariant, PTL

\* The cap on what the reranker scores (2 * DEFAULT_MAX_CANDIDATES) never reaches
\* what the graph and the vectors found, and a read drops nothing, whatever the
\* sizes of the fan-out and of the vault.
THEOREM RecallIsScored == ReadSpec => []RecallHitsScored
<1>1. ReadInv => RecallHitsScored
  BY DEF ReadInv, PoolFits
<1> QED BY <1>1, ReadInvariant, PTL

\* Never a false empty: a memory in force throughout and among the nearest RTop keeps
\* the answer from being empty, through both hybrids, the fusion's cut, the rank and
\* its fallback; the gate of a read without a model is the named exception.
THEOREM NoFalseEmpty == ReadSpec => []NeverFalseEmpty
<1>1. ReadInv => NeverFalseEmpty
  BY DEF ReadInv, OwedFound
<1> QED BY <1>1, ReadInvariant, PTL

=============================================================================
