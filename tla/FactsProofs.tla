---------------------------- MODULE FactsProofs -----------------------------
(***************************************************************************)
(* What holds of the facts the nightly passes read and rewrite, for any    *)
(* facts, clients and contents: enrichment (fingerprints, decay, the       *)
(* graph's edges and the keyword index), and the candidates a              *)
(* consolidation run compares.                                             *)
(***************************************************************************)
EXTENDS Enrichment, Candidates, FiniteSetTheorems, WellFoundedInduction, TLAPS

-----------------------------------------------------------------------------
(***************************************************************************)
(* Enrichment: GraphFollowsFacts, IndexFollowsRows and                     *)
(* DeletedStaysDeleted.                                                    *)
(*                                                                         *)
(* A pass reads a row once and comes back to it later, so the invariant    *)
(* says what the earlier reading is still good for: a content it saw was   *)
(* committed, a fingerprint speaks for the content it was taken of, and    *)
(* whoever changed a row still owes the index and the graph what they have *)
(* not been told.                                                          *)
(***************************************************************************)

Asked == [op : {"update", "index", "unindex"}, f : EFacts, saw : Rows]

\* Rows without a content, and what a request or a pass may write back.
RowsInOrder ==
  /\ \A f \in EFacts :
       /\ row[f].c <= written /\ row[f].fp <= written
       /\ seen[f].c <= written /\ seen[f].fp <= written
       /\ ~ Exists(f) => row[f].c = 0
       /\ Exists(f) => row[f].c # 0
  /\ \A k \in EClients : req[k].op = "update" =>
       /\ req[k].saw.st \notin {"absent", "deleted"}
       /\ req[k].saw.fp <= written
  /\ phase \in {"decay", "facts"} => \A f \in todo :
       seen[f].st = "active" /\ seen[f].c # 0

\* What the index serves is the row, or somebody is about to tell it.
IndexTold ==
  \A f \in EFacts \ stale :
    \/ row[f].st \notin {"active", "deleted"}
    \/ kw[f] = row[f].c
    \/ \E k \in EClients : req[k].op \in {"index", "unindex"} /\ req[k].f = f

\* A fact without a row has no edges, in memory or on disk.
NoEdgesWithout == \A f \in EFacts : row[f].st = "absent" => edges[f] = {} /\ sealed[f] = {}

\* A fingerprint that is current speaks for the graph.
FingerprintSpeaks ==
  \A f \in EFacts \ lost : row[f].st = "active" /\ Current(row[f]) => edges[f] = {row[f].c}

\* Nor does decay give a row a fingerprint of a content it did not have.
DecayHolds ==
  phase = "decay" => \A f \in todo :
    /\ f \notin lost /\ Current(seen[f]) => edges[f] = {seen[f].c}
    /\ Exists(f) => row[f].c = seen[f].c \/ row[f].c # seen[f].fp

\* A fact that came back into force during the pass is not extracted yet.
ComesBackUnread ==
  phase \in {"facts", "reconcile"} => \A f \in EFacts :
    row[f].st = "active" /\ seen[f].st # "active" => ~ Current(row[f])

InGraph(f) == edges[f] = IF row[f].st = "active" THEN {row[f].c} ELSE {}

\* How far the pass has come, if nothing changed under it.
PassFollows ==
  settled =>
    /\ phase \in {"facts", "reconcile", "flush"} =>
         \A f \in EFacts : row[f].c = seen[f].c /\ row[f].st = seen[f].st
    /\ phase = "facts" => \A f \in todo : row[f] = seen[f]
    /\ phase \in {"facts", "reconcile"} =>
         \A f \in EFacts \ lost :
           (phase = "facts" => f \notin todo) /\ row[f].st = "active" => InGraph(f)
    /\ phase \in {"flush", "idle", "decay"} =>
         \A f \in EFacts \ lost : row[f].st # "deleted" => InGraph(f)

EnrichInv ==
  /\ EnrichTypeOK /\ RowsInOrder /\ IndexTold /\ NoEdgesWithout /\ FingerprintSpeaks
  /\ DecayHolds /\ ComesBackUnread /\ PassFollows

LEMMA EnrichStarts == EnrichInit => EnrichInv
<1> SUFFICES ASSUME EnrichInit PROVE EnrichInv
  OBVIOUS
<1>1. EMaxContent \in Nat /\ EMaxContent >= 1 /\ EMaxCrash \in Nat
  BY EnrichAssumption DEF EnrichAssumption
<1>2. NoRow \in Rows /\ [c |-> 1, fp |-> 1, st |-> "active"] \in Rows
  BY <1>1 DEF NoRow, Rows, Standings
<1>3. /\ \A f \in EFacts : row[f] \in Rows /\ edges[f] \in SUBSET Contents
      /\ row \in [EFacts -> Rows] /\ edges \in [EFacts -> SUBSET Contents]
      /\ written \in 0..EMaxContent
  BY <1>1, <1>2 DEF EnrichInit, Contents
<1>4. kw \in [EFacts -> 0..EMaxContent]
  BY <1>3 DEF EnrichInit, Rows
<1>5. EnrichTypeOK
  <2>1. sealed \in [EFacts -> SUBSET Contents] /\ seen \in [EFacts -> Rows]
    BY <1>2 DEF EnrichInit
  <2>2. req \in [EClients -> {NoReq} \cup [op : {"update", "index", "unindex"}, f : EFacts, saw : Rows]]
    BY DEF EnrichInit
  <2>3. restarts \in 0..EMaxCrash
    BY <1>1 DEF EnrichInit
  <2> QED BY <1>3, <1>4, <2>1, <2>2, <2>3 DEF EnrichInit, EnrichTypeOK
<1>6. \A f \in EFacts :
        \/ row[f] = NoRow /\ edges[f] = {}
        \/ row[f] = [c |-> 1, fp |-> 1, st |-> "active"] /\ edges[f] = {1} /\ written = 1
  BY DEF EnrichInit
<1>7. RowsInOrder
  BY <1>3, <1>6 DEF EnrichInit, RowsInOrder, Exists, NoRow, NoReq
<1>8. IndexTold /\ NoEdgesWithout /\ FingerprintSpeaks
  BY <1>6 DEF EnrichInit, IndexTold, NoEdgesWithout, FingerprintSpeaks, NoRow
<1> QED
  BY <1>5, <1>7, <1>8 DEF EnrichInit, EnrichInv, DecayHolds, ComesBackUnread, PassFollows

\* The facts every step starts from.
LEMMA EnrichFacts ==
  ASSUME EnrichTypeOK
  PROVE  /\ EMaxContent \in Nat /\ EMaxContent >= 1 /\ EMaxCrash \in Nat
         /\ written \in Nat /\ written <= EMaxContent
         /\ \A f \in EFacts : /\ row[f] \in Rows /\ row[f].c \in Nat /\ row[f].fp \in Nat
                              /\ seen[f] \in Rows /\ seen[f].c \in Nat /\ seen[f].fp \in Nat
         /\ \A k \in EClients : req[k].op # "none" =>
              req[k] \in Asked /\ req[k].f \in EFacts /\ req[k].saw \in Rows
                /\ req[k].saw.c \in Nat /\ req[k].saw.fp \in Nat
         /\ \A k \in EClients : req[k] # NoReq => req[k].op # "none"
<1> USE EnrichAssumption DEF EnrichAssumption
<1>1. /\ EMaxContent \in Nat /\ EMaxContent >= 1 /\ EMaxCrash \in Nat
      /\ written \in Nat /\ written <= EMaxContent
  BY DEF EnrichTypeOK
<1>2. \A f \in EFacts : /\ row[f] \in Rows /\ row[f].c \in Nat /\ row[f].fp \in Nat
                        /\ seen[f] \in Rows /\ seen[f].c \in Nat /\ seen[f].fp \in Nat
  BY <1>1 DEF EnrichTypeOK, Rows
<1>3. ASSUME NEW k \in EClients, req[k].op # "none" 
      PROVE req[k] \in Asked /\ req[k].f \in EFacts /\ req[k].saw \in Rows
            /\ req[k].saw.c \in Nat /\ req[k].saw.fp \in Nat
  <2>1. req[k] \in {NoReq} \cup Asked
    BY DEF EnrichTypeOK, Asked
  <2>2. req[k] \in Asked
    BY <2>1, <1>3 DEF NoReq
  <2> QED BY <1>1, <2>2 DEF Asked, Rows
<1>4. ASSUME NEW k \in EClients, req[k] # NoReq PROVE req[k].op # "none"
  BY <1>4 DEF EnrichTypeOK
<1> QED BY <1>1, <1>2, <1>3, <1>4

\* A row is written.
LEMMA RowWritten ==
  ASSUME EnrichTypeOK, NEW f \in EFacts, NEW r \in Rows, row' = [row EXCEPT ![f] = r]
  PROVE  /\ row' \in [EFacts -> Rows] /\ row'[f] = r
         /\ \A g \in EFacts \ {f} : row'[g] = row[g]
  BY DEF EnrichTypeOK

\* A request moves on.
LEMMA ReqMoves ==
  ASSUME EnrichTypeOK, NEW k \in EClients, NEW r \in {NoReq} \cup Asked,
         req' = [req EXCEPT ![k] = r]
  PROVE  /\ req' \in [EClients -> {NoReq} \cup [op : {"update", "index", "unindex"}, f : EFacts, saw : Rows]]
         /\ req'[k] = r /\ \A j \in EClients \ {k} : req'[j] = req[j]
  BY DEF EnrichTypeOK, Asked

-----------------------------------------------------------------------------
\* The clients' steps.  What they do to a row starts the account of the pass anew.

\* A client gives a row a new content, and is going to tell the index.
LEMMA Rewritten ==
  ASSUME EnrichInv, NEW k \in EClients, NEW f \in EFacts, NEW r \in Rows, NEW q \in Asked,
         r.c = written + 1, r.fp <= written, r.st \notin {"absent", "deleted"},
         q.op = "index", q.f = f, req[k].op \notin {"index", "unindex"},
         written' = written + 1, written < EMaxContent, settled' = FALSE,
         row' = [row EXCEPT ![f] = r], req' = [req EXCEPT ![k] = q],
         UNCHANGED <<kw, edges, sealed, phase, seen, todo, restarts, lost, stale>>
  PROVE  EnrichInv'
<1>0. EnrichTypeOK
  BY DEF EnrichInv
<1>1. written' \in Nat /\ written' <= EMaxContent /\ written \in Nat
  BY <1>0, EnrichFacts
<1>2. row'[f] = r /\ row' \in [EFacts -> Rows] /\ \A g \in EFacts \ {f} : row'[g] = row[g]
  BY <1>0, RowWritten
<1>3. /\ req' \in [EClients -> {NoReq} \cup [op : {"update", "index", "unindex"}, f : EFacts, saw : Rows]]
      /\ req'[k] = q /\ \A j \in EClients \ {k} : req'[j] = req[j]
  BY <1>0, ReqMoves
<1>4. EnrichTypeOK'
  <2>1. written' \in 0..EMaxContent
    BY <1>1
  <2> QED BY <1>0, <1>2, <1>3, <2>1 DEF EnrichTypeOK
<1>5. RowsInOrder'
  <2>1. \A g \in EFacts : /\ row'[g].c <= written' /\ row'[g].fp <= written'
                          /\ seen[g].c <= written' /\ seen[g].fp <= written'
    <3>1. \A g \in EFacts : /\ row[g].c <= written /\ row[g].fp <= written
                            /\ seen[g].c <= written /\ seen[g].fp <= written
      BY DEF EnrichInv, RowsInOrder
    <3>2. \A g \in EFacts : /\ row[g].c \in Nat /\ row[g].fp \in Nat
                            /\ seen[g].c \in Nat /\ seen[g].fp \in Nat
      BY <1>0, EnrichFacts
    <3>3. r.c \in Nat /\ r.fp \in Nat
      BY <1>1 DEF Rows
    <3> QED BY <1>1, <1>2, <3>1, <3>2, <3>3
  <2>2. \A g \in EFacts : row'[g].st \notin {"absent", "deleted"} <=> row'[g].c # 0
    BY <1>0, <1>1, <1>2, EnrichFacts DEF EnrichInv, RowsInOrder, Exists
  <2>3. \A j \in EClients : req'[j].op = "update" =>
          req'[j].saw.st \notin {"absent", "deleted"} /\ req'[j].saw.fp <= written'
    BY <1>0, <1>1, <1>3, EnrichFacts DEF EnrichInv, RowsInOrder
  <2> QED BY <2>1, <2>2, <2>3 DEF EnrichInv, RowsInOrder, Exists
<1>6. IndexTold'
  <2> SUFFICES ASSUME NEW g \in EFacts \ stale
               PROVE  \/ row'[g].st \notin {"active", "deleted"}
                      \/ kw[g] = row'[g].c
                      \/ \E j \in EClients : req'[j].op \in {"index", "unindex"} /\ req'[j].f = g
    BY DEF IndexTold
  <2>1. CASE g = f
    BY <1>3, <2>1
  <2>2. CASE g # f
    BY <1>2, <1>3, <2>2 DEF EnrichInv, IndexTold
  <2> QED BY <2>1, <2>2
<1>7. r.c # r.fp /\ ~ Current(r)
  BY <1>0, <1>1 DEF Current, Rows
<1>8. NoEdgesWithout'
  BY <1>2 DEF EnrichInv, NoEdgesWithout
<1>9. FingerprintSpeaks'
  BY <1>2, <1>7 DEF EnrichInv, FingerprintSpeaks, Current
<1>10. ComesBackUnread'
  BY <1>2, <1>7 DEF EnrichInv, ComesBackUnread, Current
<1>11. DecayHolds'
  <2>1. \A g \in EFacts : seen[g].fp # written + 1
    BY <1>0, <1>1, EnrichFacts DEF EnrichInv, RowsInOrder
  <2> QED BY <1>2, <2>1, <1>0 DEF EnrichInv, DecayHolds, Exists, EnrichTypeOK
<1> QED BY <1>4, <1>5, <1>6, <1>8, <1>9, <1>10, <1>11 DEF EnrichInv, PassFollows

LEMMA ClientWriteKeeps ==
  ASSUME EnrichInv, NEW k \in EClients, NEW f \in EFacts, ClientWrite(k, f)
  PROVE  EnrichInv'
<1> DEFINE r == [c |-> written + 1, fp |-> 0, st |-> "active"]
           q == [op |-> "index", f |-> f, saw |-> r]
<1>0. EnrichTypeOK /\ written \in Nat /\ EMaxContent \in Nat
  BY EnrichFacts DEF EnrichInv
<1>1. written' = written + 1 /\ written < EMaxContent
  BY DEF ClientWrite
<1>2. r \in Rows /\ r.c = written + 1 /\ r.fp = 0 /\ r.st = "active"
  BY <1>0, <1>1 DEF Rows, Standings
<1>3. row' = [row EXCEPT ![f] = r]
  BY <1>1 DEF ClientWrite
<1>4. row'[f] = r
  BY <1>0, <1>2, <1>3, RowWritten
<1>5. q \in Asked /\ q.op = "index" /\ q.f = f
  BY <1>2 DEF Asked
<1>6. req' = [req EXCEPT ![k] = q]
  BY <1>4 DEF ClientWrite
<1>7. /\ req[k].op = "none" /\ settled' = FALSE
      /\ UNCHANGED <<kw, edges, sealed, phase, seen, todo, restarts, lost, stale>>
  BY DEF ClientWrite, graphMem, passVars, NoReq
<1> HIDE DEF r, q
<1>8. r.fp <= written /\ r.st \notin {"absent", "deleted"} /\ req[k].op \notin {"index", "unindex"}
  BY <1>0, <1>2, <1>7
<1> QED BY <1>1, <1>2, <1>3, <1>5, <1>6, <1>7, <1>8, Rewritten

\* Nothing but a request changes, and it was not going to tell the index anything.
LEMMA OnlyAsks ==
  ASSUME EnrichInv, NEW k \in EClients, req[k].op \notin {"index", "unindex"},
         req' \in [EClients -> {NoReq} \cup [op : {"update", "index", "unindex"}, f : EFacts, saw : Rows]],
         \A j \in EClients \ {k} : req'[j] = req[j],
         req'[k].op = "update" =>
           req'[k].saw.st \notin {"absent", "deleted"} /\ req'[k].saw.fp <= written,
         UNCHANGED <<row, kw, edges, sealed, phase, seen, todo, written, restarts, lost, stale, settled>>
  PROVE  EnrichInv'
<1>1. EnrichTypeOK'
  BY DEF EnrichInv, EnrichTypeOK
<1>2. RowsInOrder'
  BY DEF EnrichInv, RowsInOrder, Exists
<1>3. IndexTold'
  BY DEF EnrichInv, IndexTold
<1> QED
  BY <1>1, <1>2, <1>3
     DEF EnrichInv, NoEdgesWithout, FingerprintSpeaks, DecayHolds, ComesBackUnread, PassFollows,
         InGraph, Current, Exists

LEMMA ClientUpdateKeeps ==
  ASSUME EnrichInv, NEW k \in EClients, ClientUpdate(k)
  PROVE  EnrichInv'
<1> DEFINE f == req[k].f
           saw == req[k].saw
<1>0. /\ EnrichTypeOK /\ written \in Nat /\ EMaxContent \in Nat
      /\ req[k].op = "update" /\ f \in EFacts /\ saw \in Rows
  BY EnrichFacts DEF EnrichInv, ClientUpdate
<1>1. saw.st \notin {"absent", "deleted"} /\ saw.fp <= written
  BY <1>0 DEF EnrichInv, RowsInOrder
<1>2. UNCHANGED <<kw, edges, sealed, phase, seen, todo, restarts, lost, stale>>
  BY DEF ClientUpdate, graphMem, passVars
<1>3. CASE Exists(f)
  <2> DEFINE r == [c |-> written + 1, fp |-> saw.fp,
                   st |-> IF saw.st = "archived" THEN "active" ELSE saw.st]
             q == [op |-> "index", f |-> f, saw |-> r]
  <2>1. written' = written + 1 /\ written < EMaxContent /\ settled' = FALSE
    BY <1>3 DEF ClientUpdate
  <2>2. /\ r \in Rows /\ r.c = written + 1 /\ r.fp <= written
        /\ r.st \notin {"absent", "deleted"}
    BY <1>0, <1>1, <2>1 DEF Rows, Standings
  <2>3. row' = [row EXCEPT ![f] = r]
    BY <1>3, <2>1 DEF ClientUpdate, Patched
  <2>4. row'[f] = r
    BY <1>0, <2>2, <2>3, RowWritten
  <2>5. q \in Asked /\ q.op = "index" /\ q.f = f
    BY <1>0, <2>2 DEF Asked
  <2>6. req' = [req EXCEPT ![k] = q]
    BY <1>3, <2>4 DEF ClientUpdate
  <2>7. req[k].op \notin {"index", "unindex"}
    BY <1>0
  <2> HIDE DEF r, q, f
  <2> QED BY <1>0, <1>2, <2>1, <2>2, <2>3, <2>5, <2>6, <2>7, Rewritten
<1>4. CASE ~ Exists(f)
  <2>1. req' = [req EXCEPT ![k] = NoReq] /\ UNCHANGED <<row, written, settled>>
    BY <1>4 DEF ClientUpdate
  <2>2. /\ req' \in [EClients -> {NoReq} \cup [op : {"update", "index", "unindex"}, f : EFacts, saw : Rows]]
        /\ req'[k] = NoReq /\ \A j \in EClients \ {k} : req'[j] = req[j]
    BY <1>0, <2>1, ReqMoves
  <2>3. req[k].op \notin {"index", "unindex"} /\ req'[k].op # "update"
    BY <1>0, <2>2 DEF NoReq
  <2> QED BY <1>0, <1>2, <2>1, <2>2, <2>3, OnlyAsks
<1> QED BY <1>3, <1>4

LEMMA ClientReadKeeps ==
  ASSUME EnrichInv, NEW k \in EClients, NEW f \in EFacts, ClientRead(k, f)
  PROVE  EnrichInv'
<1> DEFINE q == [op |-> "update", f |-> f, saw |-> row[f]]
<1>1. EnrichTypeOK /\ row[f] \in Rows /\ Exists(f) /\ row[f].fp <= written
  BY EnrichFacts DEF EnrichInv, RowsInOrder, ClientRead
<1>2. q \in Asked /\ q.saw = row[f]
  BY <1>1 DEF Asked
<1>3. /\ req' = [req EXCEPT ![k] = q] /\ req[k].op = "none"
      /\ UNCHANGED <<row, kw, edges, sealed, phase, seen, todo, written, restarts, lost, stale, settled>>
  BY DEF ClientRead, graphMem, passVars, bounds, NoReq
<1> HIDE DEF q
<1>4. /\ req' \in [EClients -> {NoReq} \cup [op : {"update", "index", "unindex"}, f : EFacts, saw : Rows]]
      /\ req'[k] = q /\ \A j \in EClients \ {k} : req'[j] = req[j]
  BY <1>1, <1>2, <1>3, ReqMoves
<1>5. req[k].op \notin {"index", "unindex"}
  BY <1>3
<1>6. req'[k].saw.st \notin {"absent", "deleted"} /\ req'[k].saw.fp <= written
  BY <1>1, <1>2, <1>4 DEF Exists
<1> QED BY <1>3, <1>4, <1>5, <1>6, OnlyAsks

LEMMA ClientDeleteKeeps ==
  ASSUME EnrichInv, NEW k \in EClients, NEW f \in EFacts, ClientDelete(k, f)
  PROVE  EnrichInv'
<1> DEFINE r == [c |-> 0, fp |-> 0, st |-> "deleted"]
           q == [op |-> "unindex", f |-> f, saw |-> NoRow]
<1>0. EnrichTypeOK /\ EMaxContent \in Nat /\ written \in Nat
  BY EnrichFacts DEF EnrichInv
<1>1. r \in Rows /\ r.c = 0 /\ r.fp = 0 /\ r.st = "deleted"
  BY <1>0 DEF Rows, Standings
<1>2. q \in Asked /\ q.op = "unindex" /\ q.f = f
  BY <1>0 DEF Asked, NoRow, Rows, Standings
<1>3. /\ row' = [row EXCEPT ![f] = r] /\ req' = [req EXCEPT ![k] = q]
      /\ req[k].op = "none" /\ Exists(f) /\ settled' = FALSE
      /\ UNCHANGED <<kw, edges, sealed, phase, seen, todo, written, restarts, lost, stale>>
  BY DEF ClientDelete, graphMem, passVars, bounds, NoReq
<1> HIDE DEF r, q
<1>4. row'[f] = r /\ row' \in [EFacts -> Rows] /\ \A g \in EFacts \ {f} : row'[g] = row[g]
  BY <1>0, <1>1, <1>3, RowWritten
<1>5. /\ req' \in [EClients -> {NoReq} \cup [op : {"update", "index", "unindex"}, f : EFacts, saw : Rows]]
      /\ req'[k] = q /\ \A j \in EClients \ {k} : req'[j] = req[j]
  BY <1>0, <1>2, <1>3, ReqMoves
<1>6. EnrichTypeOK'
  BY <1>0, <1>3, <1>4, <1>5 DEF EnrichTypeOK
<1>7. RowsInOrder'
  BY <1>0, <1>1, <1>2, <1>3, <1>4, <1>5 DEF EnrichInv, RowsInOrder, Exists
<1>8. IndexTold'
  <2> SUFFICES ASSUME NEW g \in EFacts \ stale
               PROVE  \/ row'[g].st \notin {"active", "deleted"}
                      \/ kw[g] = row'[g].c
                      \/ \E j \in EClients : req'[j].op \in {"index", "unindex"} /\ req'[j].f = g
    BY <1>3 DEF IndexTold
  <2>1. CASE g = f
    BY <1>2, <1>5, <2>1
  <2>2. CASE g # f
    BY <1>3, <1>4, <1>5, <2>2 DEF EnrichInv, IndexTold
  <2> QED BY <2>1, <2>2
<1>9. NoEdgesWithout' /\ FingerprintSpeaks' /\ ComesBackUnread'
  BY <1>1, <1>3, <1>4 DEF EnrichInv, NoEdgesWithout, FingerprintSpeaks, ComesBackUnread
<1>10. DecayHolds' /\ PassFollows'
  BY <1>1, <1>3, <1>4 DEF EnrichInv, DecayHolds, PassFollows, Exists
<1> QED BY <1>6, <1>7, <1>8, <1>9, <1>10 DEF EnrichInv

LEMMA IndexKeeps ==
  ASSUME EnrichInv, NEW k \in EClients, Index(k)
  PROVE  EnrichInv'
<1> DEFINE f == req[k].f
           c == req[k].saw.c
<1>0. EnrichTypeOK /\ req[k].op \in {"index", "unindex"} /\ f \in EFacts /\ c \in Nat
      /\ req[k].saw \in Rows
  BY EnrichFacts DEF EnrichInv, Index
<1>1. /\ kw' = [kw EXCEPT ![f] = c] /\ req' = [req EXCEPT ![k] = NoReq]
      /\ stale' = IF row[f].c = c THEN stale \ {f} ELSE stale \cup {f}
      /\ UNCHANGED <<row, edges, sealed, phase, seen, todo, written, restarts, lost, settled>>
  BY DEF Index, graphMem, passVars, bounds
<1>2. c \in 0..EMaxContent
  BY <1>0 DEF Rows
<1> HIDE DEF f, c
<1>3. kw' \in [EFacts -> 0..EMaxContent] /\ kw'[f] = c /\ \A g \in EFacts \ {f} : kw'[g] = kw[g]
  BY <1>0, <1>1, <1>2 DEF EnrichTypeOK
<1>4. /\ req' \in [EClients -> {NoReq} \cup [op : {"update", "index", "unindex"}, f : EFacts, saw : Rows]]
      /\ req'[k] = NoReq /\ \A j \in EClients \ {k} : req'[j] = req[j]
  BY <1>0, <1>1, ReqMoves
<1>5. EnrichTypeOK'
  BY <1>0, <1>1, <1>3, <1>4 DEF EnrichTypeOK
<1>6. RowsInOrder'
  BY <1>1, <1>4 DEF EnrichInv, RowsInOrder, Exists, NoReq
<1>7. IndexTold'
  <2> SUFFICES ASSUME NEW g \in EFacts \ stale'
               PROVE  \/ row[g].st \notin {"active", "deleted"}
                      \/ kw'[g] = row[g].c
                      \/ \E j \in EClients : req'[j].op \in {"index", "unindex"} /\ req'[j].f = g
    BY <1>1 DEF IndexTold
  <2>1. CASE g = f
    BY <1>1, <1>3, <2>1
  <2>2. CASE g # f
    <3>1. req[k].f # g /\ g \notin stale
      BY <1>1, <2>2 DEF f
    <3> QED BY <1>3, <1>4, <2>2, <3>1 DEF EnrichInv, IndexTold
  <2> QED BY <2>1, <2>2
<1> QED
  BY <1>1, <1>5, <1>6, <1>7
     DEF EnrichInv, NoEdgesWithout, FingerprintSpeaks, DecayHolds, ComesBackUnread, PassFollows,
         InGraph, Current, Exists

LEMMA LeaveKeeps ==
  ASSUME EnrichInv, NEW f \in EFacts, NEW st \in {"retired", "archived"}, Leave(f, st)
  PROVE  EnrichInv'
<1> DEFINE r == [row[f] EXCEPT !.st = st]
<1>0. EnrichTypeOK /\ row[f] \in Rows
  BY EnrichFacts DEF EnrichInv
<1>1. r \in Rows /\ r.c = row[f].c /\ r.fp = row[f].fp /\ r.st = st
  BY <1>0 DEF Rows, Standings
<1>2. /\ row' = [row EXCEPT ![f] = r] /\ phase = "idle" /\ row[f].st = "active" /\ settled' = FALSE
      /\ UNCHANGED <<kw, edges, sealed, phase, seen, todo, req, written, restarts, lost, stale>>
  BY DEF Leave, graphMem, passVars, bounds
<1> HIDE DEF r
<1>3. row'[f] = r /\ row' \in [EFacts -> Rows] /\ \A g \in EFacts \ {f} : row'[g] = row[g]
  BY <1>0, <1>1, <1>2, RowWritten
<1>4. EnrichTypeOK'
  BY <1>0, <1>2, <1>3 DEF EnrichTypeOK
<1>5. RowsInOrder'
  BY <1>1, <1>2, <1>3 DEF EnrichInv, RowsInOrder, Exists
<1>6. IndexTold'
  BY <1>1, <1>2, <1>3 DEF EnrichInv, IndexTold
<1>7. NoEdgesWithout' /\ FingerprintSpeaks'
  BY <1>1, <1>2, <1>3 DEF EnrichInv, NoEdgesWithout, FingerprintSpeaks, Current
<1> QED
  BY <1>2, <1>4, <1>5, <1>6, <1>7 DEF EnrichInv, DecayHolds, ComesBackUnread, PassFollows

-----------------------------------------------------------------------------
\* The decay and the enrichment.

LEMMA DecayBeginKeeps ==
  ASSUME EnrichInv, NEW plan \in SUBSET EFacts, DecayBegin(plan)
  PROVE  EnrichInv'
<1>0. EnrichTypeOK
  BY DEF EnrichInv
<1>1. /\ phase = "idle" /\ phase' = "decay" /\ seen' = row /\ todo' = plan
      /\ \A f \in plan : row[f].st = "active"
      /\ UNCHANGED <<row, kw, edges, sealed, req, written, restarts, lost, stale, settled>>
  BY DEF DecayBegin, Active, graphMem, bounds
<1>2. EnrichTypeOK'
  BY <1>0, <1>1 DEF EnrichTypeOK
<1>3. RowsInOrder'
  BY <1>1 DEF EnrichInv, RowsInOrder, Exists
<1>4. IndexTold' /\ NoEdgesWithout' /\ FingerprintSpeaks'
  BY <1>1 DEF EnrichInv, IndexTold, NoEdgesWithout, FingerprintSpeaks, Current
<1>5. DecayHolds'
  BY <1>1 DEF EnrichInv, DecayHolds, FingerprintSpeaks, Current
<1>6. ComesBackUnread' /\ PassFollows'
  BY <1>1 DEF EnrichInv, ComesBackUnread, PassFollows, InGraph
<1> QED BY <1>2, <1>3, <1>4, <1>5, <1>6 DEF EnrichInv

LEMMA DecayFactKeeps ==
  ASSUME EnrichInv, NEW f \in EFacts, NEW ok \in BOOLEAN, DecayFact(f, ok)
  PROVE  EnrichInv'
<1> DEFINE r == [row[f] EXCEPT !.fp = seen[f].fp]
<1>0. EnrichTypeOK /\ row[f] \in Rows /\ seen[f] \in Rows
  BY EnrichFacts DEF EnrichInv
<1>1. r \in Rows /\ r.c = row[f].c /\ r.fp = seen[f].fp /\ r.st = row[f].st
  BY <1>0 DEF Rows
<1>2. /\ phase = "decay" /\ f \in todo /\ todo' = todo \ {f}
      /\ row' = row \/ (row' = [row EXCEPT ![f] = r] /\ Exists(f))
      /\ UNCHANGED <<kw, edges, sealed, phase, seen, req, written, restarts, lost, stale, settled>>
  BY DEF DecayFact, graphMem, bounds
<1> HIDE DEF r
<1>3. /\ row' \in [EFacts -> Rows]
      /\ row'[f] = row[f] \/ (row'[f] = r /\ Exists(f))
      /\ \A g \in EFacts \ {f} : row'[g] = row[g]
  BY <1>0, <1>1, <1>2, RowWritten DEF EnrichTypeOK
<1>4. \A g \in EFacts : row'[g].c = row[g].c /\ row'[g].st = row[g].st
  BY <1>1, <1>3
<1>5. EnrichTypeOK'
  BY <1>0, <1>2, <1>3 DEF EnrichTypeOK
<1>6. RowsInOrder'
  BY <1>1, <1>2, <1>3, <1>4 DEF EnrichInv, RowsInOrder, Exists
<1>7. IndexTold' /\ NoEdgesWithout'
  BY <1>2, <1>4 DEF EnrichInv, IndexTold, NoEdgesWithout
<1>8. FingerprintSpeaks'
  <2> SUFFICES ASSUME NEW g \in EFacts \ lost, row'[g].st = "active", row'[g].fp = row'[g].c
               PROVE  edges[g] = {row[g].c}
    BY <1>2, <1>4 DEF FingerprintSpeaks, Current
  <2>1. CASE row'[g] = row[g]
    BY <2>1 DEF EnrichInv, FingerprintSpeaks, Current
  <2>2. CASE g = f /\ row'[f] = r /\ Exists(f)
    <3>1. seen[f].fp = row[f].c
      BY <1>1, <2>2
    <3>2. row[f].c = seen[f].c
      BY <1>2, <2>2, <3>1 DEF EnrichInv, DecayHolds
    <3> QED BY <1>2, <2>2, <3>1, <3>2 DEF EnrichInv, DecayHolds, Current
  <2> QED BY <1>3, <2>1, <2>2
<1>9. DecayHolds'
  <2> SUFFICES ASSUME NEW g \in todo \ {f}
               PROVE  /\ g \notin lost /\ Current(seen[g]) => edges[g] = {seen[g].c}
                      /\ row'[g].st \notin {"absent", "deleted"} =>
                           row'[g].c = seen[g].c \/ row'[g].c # seen[g].fp
    BY <1>2 DEF DecayHolds, Exists, Current
  <2>1. g \in EFacts
    BY <1>0 DEF EnrichTypeOK
  <2> QED BY <1>2, <1>4, <2>1 DEF EnrichInv, DecayHolds, Exists
<1>10. ComesBackUnread' /\ PassFollows'
  BY <1>2, <1>4 DEF EnrichInv, ComesBackUnread, PassFollows, InGraph
<1> QED BY <1>5, <1>6, <1>7, <1>8, <1>9, <1>10 DEF EnrichInv

\* No row, edge or request is touched by a step from one phase to the next.
LEMMA DecayEndsKeeps ==
  ASSUME EnrichInv, DecayEnds
  PROVE  EnrichInv'
<1>0. EnrichTypeOK /\ EMaxContent \in Nat /\ written \in Nat /\ NoRow \in Rows
  BY EnrichFacts DEF EnrichInv, NoRow, Rows, Standings
<1>1. /\ phase = "decay" /\ todo = {} /\ phase' = "idle" /\ seen' = [f \in EFacts |-> NoRow]
      /\ UNCHANGED <<row, kw, edges, sealed, todo, req, written, restarts, lost, stale, settled>>
  BY DEF DecayEnds, graphMem, bounds
<1>2. EnrichTypeOK'
  BY <1>0, <1>1 DEF EnrichTypeOK
<1>3. RowsInOrder'
  BY <1>0, <1>1 DEF EnrichInv, RowsInOrder, Exists, NoRow
<1>4. IndexTold' /\ NoEdgesWithout' /\ FingerprintSpeaks'
  BY <1>1 DEF EnrichInv, IndexTold, NoEdgesWithout, FingerprintSpeaks, Current
<1> QED
  BY <1>1, <1>2, <1>3, <1>4 DEF EnrichInv, DecayHolds, ComesBackUnread, PassFollows, InGraph

LEMMA PassBeginKeeps ==
  ASSUME EnrichInv, PassBegin
  PROVE  EnrichInv'
<1>0. EnrichTypeOK
  BY DEF EnrichInv
<1>1. /\ phase = "idle" /\ phase' = "facts" /\ seen' = row /\ settled' = TRUE
      /\ todo' = {f \in EFacts : row[f].st = "active"}
      /\ UNCHANGED <<row, kw, edges, sealed, req, written, restarts, lost, stale>>
  BY DEF PassBegin, Active, graphMem, bounds
<1>2. EnrichTypeOK'
  BY <1>0, <1>1 DEF EnrichTypeOK
<1>3. RowsInOrder'
  BY <1>1 DEF EnrichInv, RowsInOrder, Exists
<1>4. IndexTold' /\ NoEdgesWithout' /\ FingerprintSpeaks'
  BY <1>1 DEF EnrichInv, IndexTold, NoEdgesWithout, FingerprintSpeaks, Current
<1>5. PassFollows'
  BY <1>1 DEF PassFollows
<1> QED
  BY <1>1, <1>2, <1>3, <1>4, <1>5 DEF EnrichInv, DecayHolds, ComesBackUnread

LEMMA EnrichNothingKeeps ==
  ASSUME EnrichInv, NEW f \in EFacts, EnrichNothing(f)
  PROVE  EnrichInv'
<1>0. EnrichTypeOK
  BY DEF EnrichInv
<1>1. /\ phase = "facts" /\ f \in todo /\ todo' = todo \ {f}
      /\ settled' = (settled /\ Current(seen[f]))
      /\ UNCHANGED <<row, kw, edges, sealed, phase, seen, req, written, restarts, lost, stale>>
  BY DEF EnrichNothing, graphMem, bounds
<1>2. EnrichTypeOK'
  <2>1. settled' \in BOOLEAN
    BY <1>1
  <2> QED BY <1>0, <1>1, <2>1 DEF EnrichTypeOK
<1>3. RowsInOrder'
  BY <1>1 DEF EnrichInv, RowsInOrder, Exists
<1>4. IndexTold' /\ NoEdgesWithout' /\ FingerprintSpeaks'
  BY <1>1 DEF EnrichInv, IndexTold, NoEdgesWithout, FingerprintSpeaks, Current
<1>5. PassFollows'
  <2> SUFFICES ASSUME settled, Current(seen[f]) PROVE PassFollows'
    BY <1>1 DEF PassFollows
  <2>1. row[f] = seen[f]
    BY <1>1 DEF EnrichInv, PassFollows
  <2>2. f \notin lost /\ row[f].st = "active" => InGraph(f)
    BY <2>1 DEF EnrichInv, FingerprintSpeaks, InGraph, Current
  <2> QED BY <1>1, <2>2 DEF EnrichInv, PassFollows, InGraph
<1> QED
  BY <1>1, <1>2, <1>3, <1>4, <1>5 DEF EnrichInv, DecayHolds, ComesBackUnread, Current

LEMMA EnrichStoreKeeps ==
  ASSUME EnrichInv, NEW f \in EFacts, NEW fails \in {"no", "retire", "write"},
         EnrichStore(f, fails)
  PROVE  EnrichInv'
<1> DEFINE r == [seen[f] EXCEPT !.fp = seen[f].c]
<1>0. /\ EnrichTypeOK /\ row[f] \in Rows /\ seen[f] \in Rows /\ seen[f].c \in Nat
      /\ seen[f].st = "active" /\ EMaxContent \in Nat
  BY EnrichFacts DEF EnrichInv, RowsInOrder, EnrichStore
<1>1. r \in Rows /\ r.c = seen[f].c /\ r.fp = seen[f].c /\ r.st = "active"
  BY <1>0 DEF Rows
<1>2. /\ phase = "facts" /\ f \in todo /\ todo' = todo \ {f}
      /\ UNCHANGED <<kw, sealed, phase, seen, req, written, restarts>>
  BY DEF EnrichStore, bounds
<1>3. CASE Exists(f)
  <2>1. /\ row' = [row EXCEPT ![f] = r]
        /\ edges' = [edges EXCEPT ![f] = Extracted(f, fails)]
        /\ lost' = IF edges'[f] = {seen[f].c} THEN lost \ {f} ELSE lost \cup {f}
        /\ stale' = IF row[f] # seen[f] THEN stale \cup {f} ELSE stale
        /\ settled' = settled
    BY <1>3 DEF EnrichStore, Regraph
  <2>2. seen[f].c \in Contents
    <3>1. seen[f].c # 0
      BY <1>2 DEF EnrichInv, RowsInOrder
    <3> QED BY <1>0, <3>1 DEF Rows, Contents
  <2> HIDE DEF r
  <2>3. row'[f] = r /\ row' \in [EFacts -> Rows] /\ \A g \in EFacts \ {f} : row'[g] = row[g]
    BY <1>0, <1>1, <2>1, RowWritten
  <2>4. edges' \in [EFacts -> SUBSET Contents] /\ \A g \in EFacts \ {f} : edges'[g] = edges[g]
    <3>1. Extracted(f, fails) \subseteq Contents
      BY <1>0, <2>2 DEF Extracted, EnrichTypeOK
    <3> QED BY <1>0, <2>1, <3>1 DEF EnrichTypeOK
  <2>5. EnrichTypeOK'
    BY <1>0, <1>2, <2>1, <2>3, <2>4 DEF EnrichTypeOK
  <2>6. RowsInOrder'
    BY <1>0, <1>1, <1>2, <2>1, <2>2, <2>3
       DEF EnrichInv, RowsInOrder, Exists, Contents
  <2>7. IndexTold'
    BY <1>0, <1>1, <1>2, <1>3, <2>1, <2>3 DEF EnrichInv, IndexTold, Exists
  <2>8. NoEdgesWithout'
    BY <1>1, <1>2, <2>3, <2>4 DEF EnrichInv, NoEdgesWithout
  <2>9. f \notin lost' => edges'[f] = {seen[f].c}
    BY <2>1
  <2>10. \A g \in EFacts \ {f} : g \in lost' <=> g \in lost
    BY <2>1
  <2>11. FingerprintSpeaks'
    BY <1>1, <2>3, <2>4, <2>9, <2>10 DEF EnrichInv, FingerprintSpeaks, Current
  <2>12. ComesBackUnread' /\ DecayHolds'
    BY <1>0, <1>2, <2>3 DEF EnrichInv, ComesBackUnread, DecayHolds, Current
  <2>13. PassFollows'
    <3> SUFFICES ASSUME settled PROVE PassFollows'
      BY <2>1 DEF PassFollows
    <3>1. \A g \in EFacts : row'[g].c = seen[g].c /\ row'[g].st = seen[g].st
      BY <1>0, <1>1, <1>2, <2>3 DEF EnrichInv, PassFollows
    <3>2. \A g \in todo' : row'[g] = seen[g]
      BY <1>0, <1>2, <2>3 DEF EnrichInv, PassFollows, EnrichTypeOK
    <3>3. ASSUME NEW g \in EFacts \ lost', g \notin todo', row'[g].st = "active"
          PROVE  edges'[g] = {row'[g].c}
      <4>1. CASE g = f
        BY <1>1, <2>3, <2>9, <4>1
      <4>2. CASE g # f
        BY <1>2, <2>3, <2>4, <2>10, <3>3, <4>2 DEF EnrichInv, PassFollows, InGraph
      <4> QED BY <4>1, <4>2
    <3> QED BY <1>2, <3>1, <3>2, <3>3 DEF PassFollows, InGraph
  <2> QED BY <2>5, <2>6, <2>7, <2>8, <2>11, <2>12, <2>13 DEF EnrichInv
<1>4. CASE ~ Exists(f)
  <2>1. UNCHANGED <<row, edges, lost, stale>> /\ settled' = FALSE
    BY <1>4 DEF EnrichStore
  <2>2. EnrichTypeOK' /\ RowsInOrder'
    BY <1>0, <1>2, <2>1 DEF EnrichInv, EnrichTypeOK, RowsInOrder, Exists
  <2> QED
    BY <1>2, <2>1, <2>2
       DEF EnrichInv, IndexTold, NoEdgesWithout, FingerprintSpeaks, DecayHolds, ComesBackUnread,
           PassFollows, Current
<1> QED BY <1>3, <1>4

LEMMA FactsDoneKeeps ==
  ASSUME EnrichInv, FactsDone
  PROVE  EnrichInv'
<1>1. /\ phase = "facts" /\ todo = {} /\ phase' = "reconcile"
      /\ UNCHANGED <<row, kw, edges, sealed, seen, todo, req, written, restarts, lost, stale, settled>>
  BY DEF FactsDone, graphMem, bounds
<1>2. EnrichTypeOK' /\ RowsInOrder'
  BY <1>1 DEF EnrichInv, EnrichTypeOK, RowsInOrder, Exists
<1>3. IndexTold' /\ NoEdgesWithout' /\ FingerprintSpeaks' /\ ComesBackUnread'
  BY <1>1 DEF EnrichInv, IndexTold, NoEdgesWithout, FingerprintSpeaks, ComesBackUnread, Current
<1>4. PassFollows'
  BY <1>1 DEF EnrichInv, PassFollows, InGraph
<1> QED BY <1>1, <1>2, <1>3, <1>4 DEF EnrichInv, DecayHolds

LEMMA ReconcileKeeps ==
  ASSUME EnrichInv, Reconcile
  PROVE  EnrichInv'
<1>0. EnrichTypeOK
  BY DEF EnrichInv
<1>1. /\ phase = "reconcile" /\ phase' = "flush"
      /\ edges' = [f \in EFacts |-> IF Exists(f) /\ seen[f].st # "active" THEN {} ELSE edges[f]]
      /\ UNCHANGED <<row, kw, sealed, seen, todo, req, written, restarts, lost, stale, settled>>
  BY DEF Reconcile, bounds
<1>2. edges' \in [EFacts -> SUBSET Contents]
  BY <1>0, <1>1 DEF EnrichTypeOK
<1>3. EnrichTypeOK' /\ RowsInOrder'
  BY <1>0, <1>1, <1>2 DEF EnrichInv, EnrichTypeOK, RowsInOrder, Exists
<1>4. IndexTold'
  BY <1>1 DEF EnrichInv, IndexTold
<1>5. NoEdgesWithout'
  BY <1>1 DEF EnrichInv, NoEdgesWithout
<1>6. FingerprintSpeaks'
  BY <1>1 DEF EnrichInv, FingerprintSpeaks, ComesBackUnread, Current
<1>7. PassFollows'
  <2> SUFFICES ASSUME settled, NEW f \in EFacts \ lost, row[f].st # "deleted"
               PROVE  edges'[f] = IF row[f].st = "active" THEN {row[f].c} ELSE {}
    BY <1>1 DEF EnrichInv, PassFollows, InGraph
  <2>1. seen[f].st = row[f].st
    BY <1>1 DEF EnrichInv, PassFollows
  <2>2. CASE row[f].st = "active"
    BY <1>1, <2>1, <2>2 DEF EnrichInv, PassFollows, InGraph
  <2>3. CASE row[f].st = "absent"
    BY <1>1, <2>3 DEF EnrichInv, NoEdgesWithout
  <2>4. CASE row[f].st \notin {"active", "absent"}
    BY <1>1, <2>1, <2>4 DEF Exists
  <2> QED BY <2>2, <2>3, <2>4
<1> QED
  BY <1>1, <1>3, <1>4, <1>5, <1>6, <1>7 DEF EnrichInv, DecayHolds, ComesBackUnread

LEMMA FlushKeeps ==
  ASSUME EnrichInv, NEW ok \in BOOLEAN, Flush(ok)
  PROVE  EnrichInv'
<1>0. EnrichTypeOK /\ EMaxContent \in Nat /\ written \in Nat /\ NoRow \in Rows
  BY EnrichFacts DEF EnrichInv, NoRow, Rows, Standings
<1>1. /\ phase = "flush" /\ phase' = "idle" /\ seen' = [f \in EFacts |-> NoRow]
      /\ sealed' = IF ok THEN edges ELSE sealed
      /\ UNCHANGED <<row, kw, edges, todo, req, written, restarts, lost, stale, settled>>
  BY DEF Flush, bounds
<1>2. EnrichTypeOK'
  BY <1>0, <1>1 DEF EnrichTypeOK
<1>3. RowsInOrder'
  BY <1>0, <1>1 DEF EnrichInv, RowsInOrder, Exists, NoRow
<1>4. IndexTold' /\ NoEdgesWithout' /\ FingerprintSpeaks'
  BY <1>1 DEF EnrichInv, IndexTold, NoEdgesWithout, FingerprintSpeaks, Current
<1> QED
  BY <1>1, <1>2, <1>3, <1>4 DEF EnrichInv, DecayHolds, ComesBackUnread, PassFollows, InGraph

\* Of the graph what was sealed is left; where that is something else, it is noted.
LEMMA RestartKeeps ==
  ASSUME EnrichInv, Restart
  PROVE  EnrichInv'
<1>0. /\ EnrichTypeOK /\ EMaxContent \in Nat /\ EMaxCrash \in Nat /\ written \in Nat
      /\ NoRow \in Rows /\ restarts \in 0..EMaxCrash
  BY EnrichFacts DEF EnrichInv, EnrichTypeOK, NoRow, Rows, Standings
<1>1. /\ restarts' = restarts + 1 /\ restarts < EMaxCrash
      /\ edges' = sealed /\ lost' = lost \cup {f \in EFacts : sealed[f] # edges[f]}
      /\ kw' = [f \in EFacts |-> IF row[f].st \in {"active", "retired"} THEN row[f].c ELSE 0]
      /\ stale' = {} /\ phase' = "idle" /\ todo' = {} /\ seen' = [f \in EFacts |-> NoRow]
      /\ req' = [k \in EClients |-> NoReq] /\ settled' = FALSE
      /\ UNCHANGED <<row, sealed, written>>
  BY DEF Restart
<1>2. kw' \in [EFacts -> 0..EMaxContent]
  BY <1>0, <1>1 DEF EnrichTypeOK, Rows
<1>3. req' \in [EClients -> {NoReq} \cup [op : {"update", "index", "unindex"}, f : EFacts, saw : Rows]]
  BY <1>1
<1>4. EnrichTypeOK'
  <2>1. restarts' \in 0..EMaxCrash
    BY <1>0, <1>1
  <2> QED BY <1>0, <1>1, <1>2, <1>3, <2>1 DEF EnrichTypeOK
<1>5. RowsInOrder'
  BY <1>0, <1>1 DEF EnrichInv, RowsInOrder, Exists, NoRow, NoReq
<1>6. IndexTold'
  BY <1>1 DEF EnrichInv, IndexTold, RowsInOrder, Exists
<1>7. NoEdgesWithout' /\ FingerprintSpeaks'
  BY <1>1 DEF EnrichInv, NoEdgesWithout, FingerprintSpeaks, Current
<1> QED
  BY <1>1, <1>4, <1>5, <1>6, <1>7 DEF EnrichInv, DecayHolds, ComesBackUnread, PassFollows

LEMMA EnrichStep == EnrichInv /\ [EnrichNext]_enrichVars => EnrichInv'
<1> SUFFICES ASSUME EnrichInv, [EnrichNext]_enrichVars PROVE EnrichInv'
  OBVIOUS
<1>1. CASE ClientNext
  BY <1>1, ClientWriteKeeps, ClientReadKeeps, ClientDeleteKeeps, ClientUpdateKeeps, IndexKeeps
     DEF ClientNext
<1>2. CASE PassNext
  BY <1>2, DecayBeginKeeps, DecayFactKeeps, DecayEndsKeeps, PassBeginKeeps, EnrichNothingKeeps,
     EnrichStoreKeeps, FactsDoneKeeps, ReconcileKeeps, FlushKeeps
     DEF PassNext
<1>3. ASSUME NEW f \in EFacts, NEW st \in {"retired", "archived"}, Leave(f, st) PROVE EnrichInv'
  BY <1>3, LeaveKeeps
<1>4. CASE Restart
  BY <1>4, RestartKeeps
<1>5. CASE UNCHANGED enrichVars
  BY <1>5
     DEF enrichVars, EnrichInv, EnrichTypeOK, RowsInOrder, IndexTold, NoEdgesWithout,
         FingerprintSpeaks, DecayHolds, ComesBackUnread, PassFollows, InGraph, Current, Exists
<1> QED BY <1>1, <1>2, <1>3, <1>4, <1>5 DEF EnrichNext

LEMMA EnrichmentInvariant == EnrichSpec => []EnrichInv
BY EnrichStarts, EnrichStep, PTL DEF EnrichSpec

\* After a pass under which nothing changed the live edges are those of the facts in
\* force, but for the facts deleted or with a lost extraction.
THEOREM GraphIsOfFacts == EnrichSpec => []GraphFollowsFacts
<1>1. EnrichInv => GraphFollowsFacts
  BY DEF EnrichInv, PassFollows, GraphFollowsFacts, InGraph
<1> QED BY <1>1, EnrichmentInvariant, PTL

\* With no request in flight the index serves the stored text, but for the rows written
\* and indexed in different orders.
THEOREM IndexIsOfRows == EnrichSpec => []IndexFollowsRows
<1>1. EnrichInv => IndexFollowsRows
  BY DEF EnrichInv, IndexTold, IndexFollowsRows, NoReq
<1> QED BY <1>1, EnrichmentInvariant, PTL

\* What a step may do to the row of one fact.
RowMoves(f) ==
  /\ row[f].st = "deleted" => row'[f].st \in {"deleted"}
  /\ row[f].st = "retired" /\ row'[f].st = "active" =>
       \/ phase = "facts" /\ f \in todo /\ seen[f].st = "active"
       \/ \E k \in EClients : req[k].op = "update" /\ req[k].f = f
                              /\ req[k].saw.st \in {"active", "archived"}

LEMMA RowMovesAsToldByClients ==
  ASSUME EnrichInv, ClientNext, NEW f \in EFacts
  PROVE  RowMoves(f)
<1>0. EnrichTypeOK /\ EMaxContent \in Nat
  BY EnrichFacts DEF EnrichInv
<1>1. ASSUME NEW k \in EClients, NEW g \in EFacts, ClientWrite(k, g) PROVE RowMoves(f)
  BY <1>0, <1>1 DEF ClientWrite, RowMoves, EnrichTypeOK
<1>2. ASSUME NEW k \in EClients, NEW g \in EFacts, ClientDelete(k, g) PROVE RowMoves(f)
  BY <1>0, <1>2 DEF ClientDelete, RowMoves, EnrichTypeOK
<1>3. ASSUME NEW k \in EClients, ClientUpdate(k) PROVE RowMoves(f)
  <2>1. CASE row'[f] = row[f]
    BY <2>1 DEF RowMoves
  <2>2. CASE row'[f] # row[f]
    <3>1. Exists(req[k].f) /\ row' = [row EXCEPT ![req[k].f] = Patched(req[k].saw, written')]
      BY <1>3, <2>2 DEF ClientUpdate
    <3>2. req[k].f = f
      BY <1>0, <2>2, <3>1 DEF EnrichTypeOK
    <3>3. row'[f] = Patched(req[k].saw, written')
      BY <1>0, <3>1, <3>2 DEF EnrichTypeOK
    <3> QED BY <1>3, <3>1, <3>2, <3>3 DEF RowMoves, Patched, Exists, ClientUpdate
  <2> QED BY <2>1, <2>2
<1> QED
  BY <1>1, <1>2, <1>3 DEF ClientNext, ClientRead, Index, RowMoves

LEMMA RowMovesAsTheRunMeant ==
  ASSUME EnrichInv, NEW f \in EFacts,
         PassNext \/ (\E g \in EFacts, st \in {"retired", "archived"} : Leave(g, st))
  PROVE  RowMoves(f)
<1>0. EnrichTypeOK /\ \A g \in EFacts : row[g] \in Rows /\ seen[g] \in Rows
  BY EnrichFacts DEF EnrichInv
<1>1. ASSUME NEW g \in EFacts, NEW st \in {"retired", "archived"}, Leave(g, st) PROVE RowMoves(f)
  <2>1. row'[f].st = row[f].st \/ row[f].st = "active"
    BY <1>0, <1>1 DEF Leave, EnrichTypeOK
  <2> QED BY <2>1 DEF RowMoves
<1>2. ASSUME NEW g \in EFacts, NEW ok \in BOOLEAN, DecayFact(g, ok) PROVE RowMoves(f)
  <2>1. row'[f].st = row[f].st
    <3> DEFINE r == [row[g] EXCEPT !.fp = seen[g].fp]
    <3>1. r.st = row[g].st
      BY <1>0 DEF Rows
    <3>2. row' = row \/ row' = [row EXCEPT ![g] = r]
      BY <1>2 DEF DecayFact
    <3> HIDE DEF r
    <3> QED BY <1>0, <3>1, <3>2 DEF EnrichTypeOK
  <2> QED BY <2>1 DEF RowMoves
<1>3. ASSUME NEW g \in EFacts, NEW fails \in {"no", "retire", "write"}, EnrichStore(g, fails)
      PROVE  RowMoves(f)
  <2>1. CASE row'[f] = row[f]
    BY <2>1 DEF RowMoves
  <2>2. CASE row'[f] # row[f]
    <3> DEFINE r == [seen[g] EXCEPT !.fp = seen[g].c]
    <3>1. Exists(g) /\ row' = [row EXCEPT ![g] = r]
      BY <1>3, <2>2 DEF EnrichStore
    <3> HIDE DEF r
    <3>2. g = f
      BY <1>0, <2>2, <3>1 DEF EnrichTypeOK
    <3>3. phase = "facts" /\ f \in todo /\ seen[f].st = "active"
      BY <1>3, <3>2 DEF EnrichStore, EnrichInv, RowsInOrder
    <3> QED BY <3>1, <3>2, <3>3 DEF RowMoves, Exists
  <2> QED BY <2>1, <2>2
<1> QED
  BY <1>1, <1>2, <1>3
     DEF PassNext, DecayBegin, DecayEnds, PassBegin, EnrichNothing, FactsDone, Reconcile, Flush,
         RowMoves

\* A deleted row stays deleted, and a retired one comes back into force only by a write
\* that had read it before.
THEOREM DeletedForGood == EnrichSpec => DeletedStaysDeleted
<1>1. EnrichInv /\ [EnrichNext]_enrichVars => [\A f \in EFacts : RowMoves(f)]_enrichVars
  <2> SUFFICES ASSUME EnrichInv, EnrichNext, NEW f \in EFacts PROVE RowMoves(f)
    OBVIOUS
  <2>1. CASE Restart
    BY <2>1 DEF Restart, RowMoves
  <2> QED BY <2>1, RowMovesAsToldByClients, RowMovesAsTheRunMeant DEF EnrichNext
<1>2. EnrichSpec => [][\A f \in EFacts : RowMoves(f)]_enrichVars
  BY <1>1, EnrichmentInvariant, PTL DEF EnrichSpec
<1> QED
  BY <1>2 DEF DeletedStaysDeleted, RowMoves

-----------------------------------------------------------------------------
(***************************************************************************)
(* Candidates: NewestStays, for any facts, distances and models. What a    *)
(* pass finds stale it finds so against a newer fact, and the newest is    *)
(* kept.                                                                   *)
(*                                                                         *)
(* What makes it true for chains of contradictions is that a pair always   *)
(* gives up its older side: among the facts newer than a stale one there   *)
(* is a latest, as they are finitely many, and nothing is newer that could *)
(* have made it stale.                                                     *)
(***************************************************************************)

\* A finite, non-empty set of facts has a latest one.
LEMMA LatestExists ==
  ASSUME fact \in CVaults, NEW S \in SUBSET CFacts, S # {}
  PROVE  \E k \in S : \A n \in S : fact[n].from <= fact[k].from
<1> DEFINE After(k) == {n \in S : fact[n].from > fact[k].from}
           Tails    == {After(k) : k \in S}
<1>1. IsFiniteSet(S)
  BY CandidatesAssumption, FS_Subset DEF CandidatesAssumption
<1>2. IsWellFoundedOn(StrictSubsetOrdering(S), SUBSET S)
  BY <1>1, FS_FiniteSubsetsOfFinite, FS_StrictSubsetOrderingWellFounded
<1>3. Tails \subseteq SUBSET S /\ Tails # {}
  OBVIOUS
<1>4. \E T \in Tails : \A U \in Tails : ~ (<<U, T>> \in StrictSubsetOrdering(S))
  <2> HIDE DEF Tails
  <2> QED BY <1>2, <1>3, WFMin, Zenon
<1>5. PICK k \in S : \A n \in S : ~ (<<After(n), After(k)>> \in StrictSubsetOrdering(S))
  BY <1>4
<1>6. \A n \in S : fact[n].from \in Nat
  BY CandidatesAssumption DEF CandidatesAssumption
<1>7. ASSUME NEW n \in S, fact[n].from > fact[k].from PROVE FALSE
  <2>1. After(n) \subseteq After(k) /\ n \in After(k) /\ n \notin After(n)
    BY <1>6, <1>7
  <2>2. <<After(n), After(k)>> \in StrictSubsetOrdering(S)
    BY <2>1 DEF StrictSubsetOrdering
  <2> QED BY <1>5, <2>2
<1> QED BY <1>6, <1>7

\* The place of a pass in the phase it runs.
InPhase ==
  /\ DOMAIN pass = {"at", "phase", "full", "seeds", "active", "todo", "edges", "left",
                    "groups", "clashes", "stale"}
  /\ pass.phase \in {"merge", "contradict"}
  /\ pass.active \subseteq CFacts
  /\ pass.at = "judge" => pass.phase = "contradict"
  /\ pass.at \in {"idle", "seeds", "active"} =>
       pass.edges = {} /\ pass.left = {} /\ pass.clashes = {} /\ pass.stale = {}

\* What phase 2b works on, it listed as active.
PairsListed ==
  /\ pass.phase = "contradict" => \A e \in pass.edges \cup pass.left : e \subseteq pass.active
  /\ \A e \in pass.clashes : e \subseteq pass.active

\* What is found stale contradicts a newer fact.
StaleIsOlder ==
  \A m \in pass.stale :
    \E n \in CFacts : {m, n} \in pass.clashes /\ fact[n].from > fact[m].from

CandInv == fact \in CVaults /\ InPhase /\ PairsListed /\ StaleIsOlder

LEMMA CandStarts == CandInit => CandInv
  BY DEF CandInit, CandInv, NoPass, InPhase, PairsListed, StaleIsOlder

\* The pass goes on and keeps the pairs and findings it has.
LEMMA Onward ==
  ASSUME CandInv, UNCHANGED fact, DOMAIN pass' = DOMAIN pass, pass'.phase = pass.phase,
         pass'.active = pass.active, pass'.edges = pass.edges, pass'.left \subseteq pass.left,
         pass'.clashes = pass.clashes, pass'.stale = pass.stale,
         pass'.at \notin {"idle", "seeds", "active"}, pass'.at = "judge" => pass.at = "judge"
  PROVE  CandInv'
  BY DEF CandInv, InPhase, PairsListed, StaleIsOlder

\* The pass lists what it will work on: there are no pairs yet.
LEMMA Lists ==
  ASSUME CandInv, UNCHANGED fact, pass.at \in {"seeds", "active"}, DOMAIN pass' = DOMAIN pass,
         pass'.phase = pass.phase, pass'.active \subseteq CFacts, pass'.edges = pass.edges,
         pass'.left = pass.left, pass'.clashes = pass.clashes, pass'.stale = pass.stale,
         pass'.at # "judge"
  PROVE  CandInv'
  BY DEF CandInv, InPhase, PairsListed, StaleIsOlder

LEMMA SearchKeeps ==
  ASSUME CandInv, NEW s \in pass.todo, SearchSeed(s)
  PROVE  CandInv'
<1> PICK hits \in Hits(s) :
       LET kept  == {h \in hits \ {s} : Near(s, h) /\ h \in pass.active}
           found == IF pass.phase = "contradict" /\ s \notin pass.active THEN {}
                    ELSE {{s, h} : h \in kept}
           all   == pass.edges \cup found
       IN  Proceeds([pass EXCEPT
             !.todo = @ \ {s}, !.edges = all,
             !.left = IF pass.todo = {s} THEN all ELSE {},
             !.at = IF pass.todo # {s} THEN "search"
                    ELSE IF pass.phase = "merge" THEN "join" ELSE "judge"])
  BY DEF SearchSeed
<1> DEFINE kept  == {h \in hits \ {s} : Near(s, h) /\ h \in pass.active}
           found == IF pass.phase = "contradict" /\ s \notin pass.active THEN {}
                    ELSE {{s, h} : h \in kept}
<1>1. pass.phase = "contradict" => \A e \in found : e \subseteq pass.active
  OBVIOUS
<1> HIDE DEF kept, found
<1>2. /\ DOMAIN pass' = DOMAIN pass /\ pass'.phase = pass.phase /\ pass'.active = pass.active
      /\ pass'.edges = pass.edges \cup found
      /\ pass'.left = IF pass.todo = {s} THEN pass.edges \cup found ELSE {}
      /\ pass'.clashes = pass.clashes /\ pass'.stale = pass.stale
      /\ pass'.at = IF pass.todo # {s} THEN "search"
                    ELSE IF pass.phase = "merge" THEN "join" ELSE "judge"
      /\ fact' = fact
  BY DEF Proceeds, CandInv, InPhase, kept, found
<1>3. InPhase'
  BY <1>2 DEF CandInv, InPhase
<1>4. PairsListed'
  BY <1>1, <1>2 DEF CandInv, PairsListed
<1>5. StaleIsOlder'
  BY <1>2 DEF CandInv, StaleIsOlder
<1> QED BY <1>2, <1>3, <1>4, <1>5 DEF CandInv

LEMMA ClashKeeps ==
  ASSUME CandInv, NEW a \in CFacts, NEW b \in CFacts, JudgeClash(a, b)
  PROVE  CandInv'
<1>1. /\ pass.at = "judge" /\ pass.phase = "contradict" /\ {a, b} \in pass.left
      /\ {a, b} \subseteq pass.active
  BY DEF JudgeClash, CandInv, InPhase, PairsListed
<1>2. CASE StaleSide(a, b) = {} /\ Proceeds([pass EXCEPT !.left = @ \ {{a, b}}])
  BY <1>1, <1>2, Onward DEF Proceeds, CandInv, InPhase
<1>3. ASSUME NEW m \in StaleSide(a, b),
             Proceeds([pass EXCEPT !.left = @ \ {{a, b}}, !.clashes = @ \cup {{a, b}},
                                   !.stale = @ \cup {m}])
      PROVE  CandInv'
  <2>1. /\ DOMAIN pass' = DOMAIN pass /\ pass'.phase = pass.phase /\ pass'.at = pass.at
        /\ pass'.active = pass.active /\ pass'.edges = pass.edges
        /\ pass'.left = pass.left \ {{a, b}} /\ pass'.clashes = pass.clashes \cup {{a, b}}
        /\ pass'.stale = pass.stale \cup {m} /\ fact' = fact
    BY <1>3 DEF Proceeds, CandInv, InPhase
  <2>2. \E n \in CFacts : {m, n} = {a, b} /\ fact[n].from > fact[m].from
    <3>1. \A n \in CFacts : fact[n].from \in Nat
      BY CandidatesAssumption DEF CandidatesAssumption, CandInv
    <3>2. CASE m = a /\ fact[a].from < fact[b].from
      BY <3>1, <3>2
    <3>3. CASE m = b /\ fact[a].from > fact[b].from
      BY <3>1, <3>3
    <3> QED BY <3>2, <3>3 DEF StaleSide
  <2>3. InPhase'
    BY <1>1, <2>1 DEF CandInv, InPhase
  <2>4. PairsListed'
    BY <1>1, <2>1 DEF CandInv, PairsListed
  <2>5. StaleIsOlder'
    BY <2>1, <2>2 DEF CandInv, StaleIsOlder
  <2> QED BY <2>1, <2>3, <2>4, <2>5 DEF CandInv
<1> QED BY <1>2, <1>3 DEF JudgeClash

LEMMA CandKeeps ==
  ASSUME CandInv, [CandNext]_candVars
  PROVE  CandInv'
<1> USE DEF Proceeds
<1>0. InPhase /\ fact \in CVaults
  BY DEF CandInv
<1>1. CASE UNCHANGED <<fact, pass>>
  BY <1>1 DEF CandInv, InPhase, PairsListed, StaleIsOlder
<1>2. ASSUME NEW kind \in {"merge", "contradict"}, NEW full \in BOOLEAN, Begin(kind, full)
      PROVE  CandInv'
  BY <1>2 DEF Begin, NoPass, CandInv, InPhase, PairsListed, StaleIsOlder
<1>3. CASE ListSeeds
  <2>1. ActiveFacts \subseteq CFacts /\ SeedFacts \subseteq CFacts
    BY DEF ActiveFacts, SeedFacts
  <2> QED BY <1>0, <1>3, <2>1, Lists DEF ListSeeds, InPhase
<1>4. CASE ListActive
  <2>1. ActiveFacts \subseteq CFacts
    BY DEF ActiveFacts
  <2> QED BY <1>0, <1>4, <2>1, Lists DEF ListActive, InPhase
<1>5. ASSUME NEW a \in CFacts, NEW b \in CFacts, JoinEdge(a, b) \/ JudgeApart(a, b)
      PROVE  CandInv'
  BY <1>0, <1>5, Onward DEF JoinEdge, JudgeApart, InPhase
<1>6. CASE Group
  BY <1>0, <1>6, Onward DEF Group, InPhase
<1>7. CASE Judged
  BY <1>0, <1>7, Onward DEF Judged, InPhase
<1>8. ASSUME NEW m \in CFacts,
             Write(m) \/ VectorArrives(m) \/ RetireRow(m) \/ Delete(m) \/ VectorLeaves(m)
      PROVE  UNCHANGED <<fact, pass>>
  BY <1>8 DEF Write, VectorArrives, RetireRow, Delete, VectorLeaves, Beside
<1> QED
  BY <1>1, <1>2, <1>3, <1>4, <1>5, <1>6, <1>7, <1>8, SearchKeeps, ClashKeeps
     DEF CandNext, candVars

LEMMA CandInvariant == CandSpec => []CandInv
<1>1. CandInv /\ [CandNext]_candVars => CandInv'
  BY CandKeeps
<1> QED BY <1>1, CandStarts, PTL DEF CandSpec

\* Of a chain of contradictions the latest fact is never retired, and no fact is
\* retired but for a newer one.
THEOREM LatestIsKept == CandSpec => []NewestStays
<1>1. CandInv => NewestStays
  <2> SUFFICES ASSUME CandInv, NEW m \in pass.stale
              PROVE  /\ \E n \in CFacts : {m, n} \in pass.clashes /\ fact[n].from > fact[m].from
                     /\ \E k \in pass.active \ pass.stale : fact[k].from > fact[m].from
    BY DEF NewestStays
  <2> DEFINE Newer == {n \in pass.active : fact[n].from > fact[m].from}
  <2>1. PICK n \in CFacts : {m, n} \in pass.clashes /\ fact[n].from > fact[m].from
    BY DEF CandInv, StaleIsOlder
  <2>2. m \in pass.active /\ n \in Newer
    BY <2>1 DEF CandInv, PairsListed
  <2>3. Newer \in SUBSET CFacts /\ \A x \in CFacts : fact[x].from \in Nat
    BY CandidatesAssumption DEF CandInv, InPhase, CandidatesAssumption
  <2>4. PICK k \in Newer : \A x \in Newer : fact[x].from <= fact[k].from
    BY <2>2, <2>3, LatestExists DEF CandInv
  <2>5. k \notin pass.stale
    <3> SUFFICES ASSUME k \in pass.stale PROVE FALSE
      OBVIOUS
    <3>1. PICK x \in CFacts : {k, x} \in pass.clashes /\ fact[x].from > fact[k].from
      BY DEF CandInv, StaleIsOlder
    <3>2. x \in pass.active
      BY <3>1 DEF CandInv, PairsListed
    <3>3. x \in Newer
      BY <2>2, <2>3, <3>1, <3>2 DEF CandInv, InPhase
    <3> QED BY <2>3, <2>4, <3>1, <3>3
  <2> QED BY <2>1, <2>4, <2>5
<1> QED BY <1>1, CandInvariant, PTL

-----------------------------------------------------------------------------
(***************************************************************************)
(* Candidates: SeedsMeetNeighbours.                                        *)
(*                                                                         *)
(* The forest first: parents are never later than their children, so the   *)
(* way up ends at one root; compressing a path changes no root, and        *)
(* linking two roots merges their trees.  The trees are therefore the      *)
(* components of the edges joined so far, in whatever order they come.     *)
(***************************************************************************)

Forest(p) == p \in [CFacts -> CFacts] /\ \A m \in CFacts : p[m] <= m

LEMMA FactsAreNumbers == CFacts \subseteq Nat /\ IsFiniteSet(CFacts)
  BY CandidatesAssumption DEF CandidatesAssumption

LEMMA EarliestExists ==
  ASSUME NEW S \in SUBSET CFacts, S # {}
  PROVE  \E x \in S : \A y \in S : x <= y
<1>1. IsWellFoundedOn(OpToRel(<, Nat), Nat)
  BY NatLessThanWellFounded
<1>2. S \subseteq Nat
  BY FactsAreNumbers
<1>3. PICK x \in S : \A y \in S : <<y, x>> \notin OpToRel(<, Nat)
  BY <1>1, <1>2, WFMin
<1>4. \A y \in S : ~ (y < x)
  BY <1>2, <1>3 DEF OpToRel
<1> QED BY <1>2, <1>4

LEMMA AscentCloses ==
  ASSUME NEW p \in [CFacts -> CFacts], NEW m \in CFacts
  PROVE  /\ m \in Ascent(p, m) /\ Ascent(p, m) \subseteq CFacts
         /\ \A n \in Ascent(p, m) : p[n] \in Ascent(p, m)
         /\ \A C \in SUBSET CFacts :
              m \in C /\ (\A c \in C : p[c] \in C) => Ascent(p, m) \subseteq C
  BY DEF Ascent

LEMMA RootExists ==
  ASSUME NEW p, Forest(p), NEW m \in CFacts
  PROVE  RootOf(p, m) \in Ascent(p, m) /\ p[RootOf(p, m)] = RootOf(p, m)
<1>1. p \in [CFacts -> CFacts] /\ \A n \in CFacts : p[n] <= n /\ p[n] \in Nat /\ n \in Nat
  BY FactsAreNumbers DEF Forest
<1>2. PICK r \in Ascent(p, m) : \A n \in Ascent(p, m) : r <= n
  BY <1>1, AscentCloses, EarliestExists
<1>3. p[r] \in Ascent(p, m) /\ r \in CFacts
  BY <1>1, AscentCloses
<1>4. p[r] = r
  BY <1>1, <1>2, <1>3
<1> QED BY <1>4 DEF RootOf

\* By the least fact that had two.
LEMMA RootIsOne ==
  ASSUME NEW p, Forest(p), NEW m \in CFacts,
         NEW r \in Ascent(p, m), NEW q \in Ascent(p, m), p[r] = r, p[q] = q
  PROVE  r = q
<1> DEFINE Two(n) == \E x, y \in Ascent(p, n) : p[x] = x /\ p[y] = y /\ x # y
           twos   == {n \in CFacts : Two(n)}
<1>0. p \in [CFacts -> CFacts] /\ \A n \in CFacts : p[n] <= n /\ p[n] \in Nat /\ n \in Nat
  BY FactsAreNumbers DEF Forest
<1> SUFFICES ASSUME twos # {} PROVE FALSE
  OBVIOUS
<1>1. PICK n \in twos : \A k \in twos : n <= k
  BY EarliestExists
<1>2. PICK x, y \in Ascent(p, n) : p[x] = x /\ p[y] = y /\ x # y
  BY <1>1
<1>3. CASE p[n] = n
  <2>1. Ascent(p, n) \subseteq {n}
    <3>1. {n} \in SUBSET CFacts /\ n \in {n} /\ \A c \in {n} : p[c] \in {n}
      BY <1>1, <1>3
    <3> QED BY <1>0, <1>1, <3>1, AscentCloses
  <2> QED BY <1>2, <2>1
<1>4. CASE p[n] # n
  <2>1. p[n] \in CFacts
    BY <1>0, <1>1
  <2>2. Ascent(p, n) \subseteq {n} \cup Ascent(p, p[n])
    <3> DEFINE C == {n} \cup Ascent(p, p[n])
    <3>1. C \in SUBSET CFacts /\ n \in C /\ \A c \in C : p[c] \in C
      BY <1>0, <1>1, <2>1, AscentCloses
    <3> HIDE DEF C
    <3>2. Ascent(p, n) \subseteq C
      BY <1>0, <1>1, <3>1, AscentCloses
    <3> QED BY <3>2 DEF C
  <2>3. x \in Ascent(p, p[n]) /\ y \in Ascent(p, p[n])
    BY <1>2, <1>4, <2>2
  <2>4. p[n] \in twos
    BY <1>2, <2>1, <2>3
  <2>5. ~ (n <= p[n])
    BY <1>0, <1>1, <1>4
  <2> QED BY <1>1, <2>4, <2>5
<1> QED BY <1>3, <1>4

\* A root is its own, and a parent has its child's.
LEMMA RootSteps ==
  ASSUME NEW p, Forest(p), NEW m \in CFacts
  PROVE  /\ RootOf(p, m) \in CFacts /\ p[m] \in CFacts
         /\ p[RootOf(p, m)] = RootOf(p, m)
         /\ RootOf(p, p[m]) = RootOf(p, m)
         /\ p[m] = m => RootOf(p, m) = m
         /\ RootOf(p, RootOf(p, m)) = RootOf(p, m)
<1>1. p \in [CFacts -> CFacts] /\ p[m] \in CFacts
  BY DEF Forest
<1>2. RootOf(p, m) \in CFacts /\ p[RootOf(p, m)] = RootOf(p, m)
  BY <1>1, RootExists, AscentCloses
<1>3. Ascent(p, p[m]) \subseteq Ascent(p, m)
  BY <1>1, AscentCloses
<1>4. RootOf(p, p[m]) = RootOf(p, m)
  BY <1>1, <1>3, RootExists, RootIsOne
<1>5. \A n \in CFacts : p[n] = n => RootOf(p, n) = n
  BY <1>1, RootExists, AscentCloses, RootIsOne
<1> QED BY <1>1, <1>2, <1>4, <1>5

\* What agrees along every edge of the forest, and is the root at a root, is the root.
LEMMA RootIs ==
  ASSUME NEW p, Forest(p), NEW R,
         \A n \in CFacts : p[n] = n => R[n] = n,
         \A n \in CFacts : R[p[n]] = R[n]
  PROVE  \A m \in CFacts : RootOf(p, m) = R[m]
<1> SUFFICES ASSUME NEW m \in CFacts PROVE RootOf(p, m) = R[m]
  OBVIOUS
<1> DEFINE C == {n \in CFacts : R[n] = R[m]}
<1>1. p \in [CFacts -> CFacts]
  BY DEF Forest
<1>2. C \in SUBSET CFacts /\ m \in C /\ \A c \in C : p[c] \in C
  BY <1>1
<1>3. Ascent(p, m) \subseteq C
  <2> HIDE DEF C
  <2> QED BY <1>1, <1>2, AscentCloses
<1>4. R[RootOf(p, m)] = R[m] /\ R[RootOf(p, m)] = RootOf(p, m)
  BY <1>3, RootExists, RootSteps
<1> QED BY <1>4

LEMMA CompressKeeps ==
  ASSUME NEW p, Forest(p), NEW x \in CFacts
  PROVE  /\ Forest(Compressed(p, x))
         /\ \A m \in CFacts : RootOf(Compressed(p, x), m) = RootOf(p, m)
<1> DEFINE R == [m \in CFacts |-> RootOf(p, m)]
<1>0. p \in [CFacts -> CFacts] /\ \A n \in CFacts : p[n] <= n /\ p[n] \in Nat /\ n \in Nat
  BY FactsAreNumbers DEF Forest
<1>1. \A n \in Ascent(p, x) : RootOf(p, n) = RootOf(p, x)
  <2> DEFINE C == {n \in CFacts : RootOf(p, n) = RootOf(p, x)}
  <2>1. C \in SUBSET CFacts /\ x \in C /\ \A c \in C : p[c] \in C
    BY RootSteps
  <2> HIDE DEF C
  <2>2. Ascent(p, x) \subseteq C
    BY <1>0, <2>1, AscentCloses
  <2> QED BY <2>2 DEF C
<1>2. \A n \in CFacts : RootOf(p, n) <= n
  <2> TAKE n \in CFacts
  <2> DEFINE C == {k \in CFacts : k <= n}
  <2>1. C \in SUBSET CFacts /\ n \in C /\ \A c \in C : p[c] \in C
    BY <1>0
  <2> HIDE DEF C
  <2>2. RootOf(p, n) \in C
    BY <1>0, <2>1, AscentCloses, RootExists
  <2> QED BY <2>2 DEF C
<1> PICK c : c = Compressed(p, x)
  OBVIOUS
<1>3. c = [n \in CFacts |-> IF n \in Ascent(p, x) THEN RootOf(p, x) ELSE p[n]]
  BY DEF Compressed
<1>4. Forest(c)
  BY <1>0, <1>1, <1>2, <1>3, RootSteps DEF Forest
<1>5. \A n \in CFacts : RootOf(p, n) \in CFacts /\ R[n] = RootOf(p, n)
  BY RootSteps
<1>6. \A n \in CFacts : c[n] = n => R[n] = n
  BY <1>1, <1>3, <1>5, RootSteps
<1>7. \A n \in CFacts : R[c[n]] = R[n]
  BY <1>0, <1>1, <1>3, <1>5, RootSteps
<1>8. \A m \in CFacts : RootOf(c, m) = R[m]
  <2> HIDE DEF R
  <2> QED BY <1>4, <1>6, <1>7, RootIs
<1> QED BY <1>4, <1>5, <1>8

LEMMA LinkJoins ==
  ASSUME NEW p, Forest(p), NEW a \in CFacts, NEW b \in CFacts
  PROVE  /\ Forest(Link(p, a, b))
         /\ \E lo \in {RootOf(p, a), RootOf(p, b)} : \A m \in CFacts :
              RootOf(Link(p, a, b), m) = IF RootOf(p, m) \in {RootOf(p, a), RootOf(p, b)}
                                         THEN lo ELSE RootOf(p, m)
<1> PICK ra, rb, flat : /\ ra = RootOf(p, a) /\ rb = RootOf(p, b)
                        /\ flat = Compressed(Compressed(p, a), b)
  OBVIOUS
<1>1. /\ Forest(flat) /\ \A m \in CFacts : RootOf(flat, m) = RootOf(p, m)
  BY CompressKeeps
<1>2. ra \in CFacts /\ rb \in CFacts /\ ra \in Nat /\ rb \in Nat
  BY RootSteps, FactsAreNumbers
<1> PICK lo, hi : lo = Min({ra, rb}) /\ hi = Max({ra, rb})
  OBVIOUS
<1>3. lo \in {ra, rb} /\ hi \in {ra, rb} /\ lo <= hi /\ {lo, hi} = {ra, rb}
  <2>1. \E x \in {ra, rb} : \A y \in {ra, rb} : x <= y
    BY <1>2
  <2>2. \E x \in {ra, rb} : \A y \in {ra, rb} : x >= y
    BY <1>2
  <2>3. lo \in {ra, rb} /\ \A y \in {ra, rb} : lo <= y
    BY <2>1 DEF Min
  <2>4. hi \in {ra, rb} /\ \A y \in {ra, rb} : hi >= y
    BY <2>2 DEF Max
  <2> QED BY <1>2, <2>3, <2>4
<1> PICK l : l = Link(p, a, b)
  OBVIOUS
<1>4. l = [flat EXCEPT ![hi] = lo]
  BY DEF Link
<1>5. flat \in [CFacts -> CFacts] /\ \A n \in CFacts : flat[n] <= n
  BY <1>1 DEF Forest
<1>6. l \in [CFacts -> CFacts] /\ \A n \in CFacts : l[n] = IF n = hi THEN lo ELSE flat[n]
  BY <1>2, <1>3, <1>4, <1>5
<1>7. Forest(l)
  BY <1>3, <1>5, <1>6 DEF Forest
<1> DEFINE R == [m \in CFacts |-> IF RootOf(p, m) \in {ra, rb} THEN lo ELSE RootOf(p, m)]
<1>8. RootOf(p, lo) = lo /\ RootOf(p, hi) = hi
  BY <1>3, RootSteps
<1>9. \A n \in CFacts : /\ flat[n] \in CFacts /\ RootOf(p, flat[n]) = RootOf(p, n)
                        /\ flat[n] = n => RootOf(p, n) = n
  BY <1>1, RootSteps
<1>10. \A n \in CFacts : l[n] = n => R[n] = n
  BY <1>3, <1>6, <1>8, <1>9
<1>11. \A n \in CFacts : R[l[n]] = R[n]
  BY <1>2, <1>3, <1>6, <1>8, <1>9
<1>12. \A m \in CFacts : RootOf(l, m) = R[m]
  <2> HIDE DEF R
  <2> QED BY <1>7, <1>10, <1>11, RootIs
<1> QED BY <1>3, <1>7, <1>12

-----------------------------------------------------------------------------
LEMMA ConnectedCloses ==
  ASSUME NEW E \in SUBSET SUBSET CFacts, NEW m \in CFacts
  PROVE  /\ m \in ConnectedBy(E, m) /\ ConnectedBy(E, m) \subseteq CFacts
         /\ \A e \in E : e \cap ConnectedBy(E, m) # {} => e \subseteq ConnectedBy(E, m)
         /\ \A C \in SUBSET CFacts :
              m \in C /\ (\A e \in E : e \cap C # {} => e \subseteq C)
                => ConnectedBy(E, m) \subseteq C
  BY DEF ConnectedBy

\* The trees are the components.
Partitions(p, E) ==
  \A m, n \in CFacts : n \in ConnectedBy(E, m) <=> RootOf(p, n) = RootOf(p, m)

LEMMA AloneAtFirst == Forest([m \in CFacts |-> m]) /\ Partitions([m \in CFacts |-> m], {})
<1> PICK p : p = [m \in CFacts |-> m]
  OBVIOUS
<1>1. Forest(p)
  BY FactsAreNumbers DEF Forest
<1>2. \A m \in CFacts : RootOf(p, m) = m
  BY <1>1, RootSteps
<1>3. \A m \in CFacts : ConnectedBy({}, m) = {m}
  <2> TAKE m \in CFacts
  <2>1. ConnectedBy({}, m) \subseteq {m} /\ m \in ConnectedBy({}, m)
    <3>1. {m} \in SUBSET CFacts /\ m \in {m} /\ {} \in SUBSET SUBSET CFacts
      OBVIOUS
    <3> QED BY <3>1 DEF ConnectedBy
  <2> QED BY <2>1
<1> QED BY <1>1, <1>2, <1>3 DEF Partitions

LEMMA JoinPartitions ==
  ASSUME NEW p, Forest(p), NEW E \in SUBSET SUBSET CFacts, Partitions(p, E),
         NEW a \in CFacts, NEW b \in CFacts
  PROVE  Forest(Link(p, a, b)) /\ Partitions(Link(p, a, b), E \cup {{a, b}})
<1> PICK l, F : l = Link(p, a, b) /\ F = E \cup {{a, b}}
  OBVIOUS
<1> DEFINE ra == RootOf(p, a)
           rb == RootOf(p, b)
<1>1. Forest(l)
  BY LinkJoins
<1>2. \E lo \in {ra, rb} : \A m \in CFacts :
        RootOf(l, m) = IF RootOf(p, m) \in {ra, rb} THEN lo ELSE RootOf(p, m)
  <2>1. \E lo \in {ra, rb} : \A m \in CFacts :
          RootOf(Link(p, a, b), m) = IF RootOf(p, m) \in {ra, rb} THEN lo ELSE RootOf(p, m)
    BY LinkJoins, Zenon
  <2> QED BY <2>1, Zenon
<1> HIDE DEF ra, rb
<1>3. F \in SUBSET SUBSET CFacts
  OBVIOUS
<1>4. \A x, y \in CFacts : RootOf(p, x) = RootOf(p, y) => y \in ConnectedBy(E, x)
  BY DEF Partitions
<1>5. ASSUME NEW m \in CFacts PROVE ConnectedBy(F, m) \subseteq {n \in CFacts : RootOf(l, n) = RootOf(l, m)}
  <2> DEFINE C == {n \in CFacts : RootOf(l, n) = RootOf(l, m)}
  <2>1. ASSUME NEW e \in E, NEW x \in e, x \in C, NEW y \in e PROVE y \in C
    <3>1. x \in CFacts /\ y \in CFacts /\ y \in ConnectedBy(E, x)
      BY <2>1, ConnectedCloses
    <3>2. RootOf(p, y) = RootOf(p, x)
      BY <3>1 DEF Partitions
    <3> QED BY <1>2, <2>1, <3>1, <3>2
  <2>2. RootOf(l, a) = RootOf(l, b)
    BY <1>2 DEF ra, rb
  <2>3. \A e \in F : e \cap C # {} => e \subseteq C
    BY <2>1, <2>2
  <2>4. m \in C /\ C \in SUBSET CFacts
    OBVIOUS
  <2> HIDE DEF C
  <2>5. ConnectedBy(F, m) \subseteq C
    BY <1>3, <2>3, <2>4, ConnectedCloses
  <2> QED BY <2>5 DEF C
<1>6. ASSUME NEW m \in CFacts, NEW n \in CFacts, RootOf(l, n) = RootOf(l, m)
      PROVE  n \in ConnectedBy(F, m)
  <2> PICK C : C = ConnectedBy(F, m)
    OBVIOUS
  <2>1. m \in C /\ C \subseteq CFacts /\ \A e \in F : e \cap C # {} => e \subseteq C
    BY <1>3, ConnectedCloses
  <2>2. \A c \in C, y \in CFacts : RootOf(p, c) = RootOf(p, y) => y \in C
    <3> TAKE c \in C, y \in CFacts
    <3>1. ConnectedBy(E, c) \subseteq C
      BY <2>1, ConnectedCloses
    <3> QED BY <1>4, <2>1, <3>1
  <2>3. a \in C <=> b \in C
    <3>1. {a, b} \in F
      OBVIOUS
    <3> QED BY <2>1, <3>1
  <2>4. RootOf(p, n) = RootOf(p, m) \/ (RootOf(p, n) \in {ra, rb} /\ RootOf(p, m) \in {ra, rb})
    BY <1>2, <1>6
  <2> QED BY <2>1, <2>2, <2>3, <2>4 DEF ra, rb
<1>7. Partitions(l, F)
  BY <1>3, <1>5, <1>6 DEF Partitions
<1> QED BY <1>1, <1>7

-----------------------------------------------------------------------------
(***************************************************************************)
(* Then the search: whoever is not among the hits lies no nearer than any  *)
(* of them, so a seed misses a near fact only where it is crowded out; and *)
(* what crowds it out when it is searched still does when the pass ends.   *)
(***************************************************************************)

\* The forest is that of the edges joined so far, and the groups are its trees.
TreesGrow ==
  /\ Forest(parentOf)
  /\ pass.left \subseteq pass.edges
  /\ \A e \in pass.edges : \E a, b \in CFacts : a # b /\ e = {a, b}
  /\ pass.at \notin {"join", "done"} => parentOf = [m \in CFacts |-> m]
  /\ pass.at \in {"idle", "seeds", "active"} => pass.groups = {}
  /\ pass.at = "join" => Partitions(parentOf, pass.edges \ pass.left)
  /\ pass.at = "done" /\ pass.phase = "merge" =>
       pass.groups = {Connected(m) : m \in UNION pass.edges}

\* What is in force all the time is in both stores, and among what the pass lists.
ConstantListed ==
  /\ vectorOf \subseteq CFacts /\ indexed \subseteq CFacts /\ constant \subseteq vectorOf
  /\ \A m \in constant : rowOf[m] = "active"
  /\ pass.at # "idle" => vectorOf \subseteq indexed
  /\ \/ pass.at = "search"
     \/ pass.at = "seeds" /\ pass.phase = "contradict"
     => constant \subseteq pass.active

Meets(s, m) == s # m /\ Near(s, m) /\ ~ CrowdedOut(s, m) => {s, m} \in pass.edges

\* The seeds that were searched have met their neighbours.
SearchedMet ==
  /\ pass.todo \subseteq pass.seeds /\ pass.seeds \subseteq CFacts
  /\ pass.at = "seeds" \/ (pass.at = "active" /\ pass.phase = "contradict") =>
       pass.seeds = {}
  /\ pass.at = "active" => pass.todo = pass.seeds
  /\ pass.at = "search" =>
       \A s \in (pass.seeds \ pass.todo) \cap constant, m \in constant : Meets(s, m)
  /\ pass.at \in {"join", "judge", "done"} =>
       \A s \in pass.seeds \cap constant, m \in constant : Meets(s, m)

MeetInv == TreesGrow /\ ConstantListed /\ SearchedMet

LEMMA MeetStarts == CandInit => MeetInv
<1> SUFFICES ASSUME CandInit PROVE MeetInv
  OBVIOUS
<1>1. TreesGrow
  BY AloneAtFirst DEF CandInit, NoPass, TreesGrow
<1>2. ConstantListed
  BY DEF CandInit, NoPass, ConstantListed
<1>3. SearchedMet
  BY DEF CandInit, NoPass, SearchedMet
<1> QED BY <1>1, <1>2, <1>3 DEF MeetInv

\* A crowd that grows still crowds out.
LEMMA StillCrowded ==
  ASSUME UNCHANGED fact, Searched \subseteq Searched', Searched' \subseteq CFacts, NEW s, NEW m, CrowdedOut(s, m)
  PROVE  CrowdedOut(s, m)'
<1> DEFINE crowd(S) == {v \in S \ {m} : Apart(s, v) <= Apart(s, m)}
<1>1. crowd(Searched)' = {v \in Searched' \ {m} : Apart(s, v) <= Apart(s, m)}
  BY DEF Apart
<1>2. crowd(Searched) \subseteq crowd(Searched)' /\ crowd(Searched)' \subseteq CFacts
  BY <1>1
<1>3. Cardinality(crowd(Searched)) <= Cardinality(crowd(Searched)')
  BY <1>2, FactsAreNumbers, FS_Subset
<1>4. Cardinality(crowd(Searched)) \in Nat /\ Cardinality(crowd(Searched)') \in Nat
  BY <1>2, FactsAreNumbers, FS_Subset, FS_CardinalityType
<1> QED BY <1>3, <1>4, CandidatesAssumption DEF CrowdedOut, CandidatesAssumption

\* Who is in force, near and not among the hits is crowded out.
LEMMA MissedIsCrowded ==
  ASSUME CandInv, ConstantListed, pass.at = "search", NEW s \in constant, NEW m \in constant,
         s # m, NEW hits \in Hits(s), m \notin hits
  PROVE  CrowdedOut(s, m)
<1> DEFINE crowd == {v \in Searched \ {m} : Apart(s, v) <= Apart(s, m)}
<1>1. /\ s \in CFacts /\ m \in CFacts /\ s \in vectorOf /\ m \in vectorOf
      /\ vectorOf \subseteq indexed /\ indexed \subseteq CFacts
      /\ s \in pass.active /\ m \in pass.active /\ pass.active \subseteq CFacts
  BY DEF ConstantListed, CandInv, InPhase
<1>2. /\ CTopK \in Nat /\ IsFiniteSet(CFacts)
      /\ \A v \in CFacts : fact[v].place \in Nat
  BY CandidatesAssumption DEF CandidatesAssumption, CandInv
<1>3. Searched \subseteq CFacts
  BY <1>1 DEF Searched
<1>4. IsFiniteSet(crowd) /\ Cardinality(crowd) \in Nat
  BY <1>2, <1>3, FS_Subset, FS_CardinalityType
<1>5. ASSUME NEW n \in Nat, NEW among \in SUBSET CFacts, hits \in NearestOf(s, n, among), m \in among
      PROVE  /\ hits \subseteq among /\ IsFiniteSet(hits) /\ Cardinality(hits) = n
             /\ \A h \in hits : h # m /\ Apart(s, h) <= Apart(s, m)
  <2>1. /\ hits \in SUBSET among
        /\ Cardinality(hits) = IF Cardinality(among) < n THEN Cardinality(among) ELSE n
        /\ \A h \in hits : Apart(s, h) <= Apart(s, m)
    BY <1>5 DEF NearestOf
  <2>2. IsFiniteSet(among) /\ IsFiniteSet(hits)
    BY <1>2, <2>1, FS_Subset
  <2>3. Cardinality(hits) # Cardinality(among)
    BY <1>5, <2>1, <2>2, FS_Subset
  <2> QED BY <2>1, <2>2, <2>3
<1>6. CASE pass.phase = "contradict" /\ pass.full
  <2>1. /\ hits \subseteq pass.active \ {s} /\ IsFiniteSet(hits) /\ Cardinality(hits) = CTopK
        /\ \A h \in hits : h # m /\ Apart(s, h) <= Apart(s, m)
    BY <1>1, <1>2, <1>5, <1>6 DEF Hits
  <2>2. Searched = pass.active
    BY <1>6 DEF Searched
  <2>3. Apart(s, s) <= Apart(s, m)
    BY <1>1, <1>2 DEF Apart
  <2>4. hits \cup {s} \in SUBSET crowd
    BY <1>1, <2>1, <2>2, <2>3
  <2>5. Cardinality(hits \cup {s}) = CTopK + 1
    BY <2>1, FS_AddElement
  <2>6. Cardinality(hits \cup {s}) <= Cardinality(crowd)
    BY <1>4, <2>4, FS_Subset
  <2> QED BY <1>2, <1>4, <2>5, <2>6 DEF CrowdedOut
<1>7. CASE ~ (pass.phase = "contradict" /\ pass.full)
  <2>1. /\ hits \subseteq vectorOf /\ IsFiniteSet(hits) /\ Cardinality(hits) = CTopK + 1
        /\ \A h \in hits : h # m /\ Apart(s, h) <= Apart(s, m)
    BY <1>1, <1>2, <1>5, <1>7 DEF Hits
  <2>2. Searched = indexed
    BY <1>7 DEF Searched
  <2>3. hits \in SUBSET crowd
    BY <1>1, <2>1, <2>2
  <2>4. Cardinality(hits) <= Cardinality(crowd)
    BY <1>4, <2>3, FS_Subset
  <2> QED BY <1>2, <1>4, <2>1, <2>4 DEF CrowdedOut
<1> QED BY <1>6, <1>7

\* What has met stays met, whoever leaves.
LEMMA MetStays ==
  ASSUME UNCHANGED fact, Searched \subseteq Searched', Searched' \subseteq CFacts,
         pass.edges \subseteq pass'.edges, NEW s, NEW m, Meets(s, m)
  PROVE  Meets(s, m)'
<1>1. Near(s, m)' = Near(s, m)
  BY DEF Near, Apart
<1>2. CASE CrowdedOut(s, m)
  BY <1>2, StillCrowded DEF Meets
<1>3. CASE ~ CrowdedOut(s, m)
  BY <1>1, <1>3 DEF Meets
<1> QED BY <1>2, <1>3

\* Clients change neither the pass nor the forest.
LEMMA ClientsMeet ==
  ASSUME CandInv, MeetInv, NEW m \in CFacts, NEW state,
         NEW vectors \in SUBSET CFacts, Beside(m, state, vectors)
  PROVE  MeetInv'
<1>1. /\ pass' = pass /\ parentOf' = parentOf /\ fact' = fact
      /\ vectorOf' = vectors /\ indexed' = indexed \cup vectors
      /\ constant' = constant \ {n \in CFacts : rowOf'[n] # "active" \/ n \notin vectors}
  BY DEF Beside
<1>2. TreesGrow'
  BY <1>1 DEF MeetInv, TreesGrow, Connected
<1>3. ConstantListed'
  <2>1. constant' \subseteq constant /\ constant \subseteq CFacts
    BY <1>1 DEF MeetInv, ConstantListed
  <2>2. \A n \in constant' : rowOf'[n] = "active" /\ n \in vectors
    BY <1>1, <2>1
  <2> QED BY <1>1, <2>1, <2>2 DEF MeetInv, ConstantListed
<1>4. Searched \subseteq Searched' /\ Searched' \subseteq CFacts /\ constant' \subseteq constant
  BY <1>1 DEF Searched, CandInv, InPhase, MeetInv, ConstantListed
<1>5. \A s, n : Meets(s, n) => Meets(s, n)'
  BY <1>1, <1>4, MetStays
<1>6. SearchedMet'
  BY <1>1, <1>4, <1>5 DEF MeetInv, SearchedMet
<1> QED BY <1>2, <1>3, <1>6 DEF MeetInv

LEMMA BeginMeets ==
  ASSUME CandInv, MeetInv, NEW kind \in {"merge", "contradict"}, NEW full, Begin(kind, full)
  PROVE  MeetInv'
<1>1. /\ pass.at = "idle" /\ pass'.at \in {"seeds", "active"}
      /\ pass'.at = "active" <=> kind = "contradict"
      /\ pass'.phase = kind /\ pass'.todo = {} /\ pass'.seeds = {} /\ pass'.edges = {} /\ pass'.left = {}
      /\ pass'.groups = {}
      /\ indexed' = vectorOf /\ constant' = ActiveFacts \cap vectorOf
      /\ UNCHANGED <<fact, rowOf, vectorOf, parentOf>>
  BY DEF Begin, NoPass
<1>2. TreesGrow'
  BY <1>1 DEF MeetInv, TreesGrow
<1>3. ConstantListed'
  BY <1>1 DEF MeetInv, ConstantListed, ActiveFacts
<1>4. SearchedMet'
  BY <1>1 DEF SearchedMet
<1> QED BY <1>2, <1>3, <1>4 DEF MeetInv

\* The listings find nothing to search, or all that is in force.
LEMMA ListsMeet ==
  ASSUME CandInv, MeetInv, ListSeeds \/ ListActive
  PROVE  MeetInv'
<1>0. /\ pass.phase \in {"merge", "contradict"} /\ pass.edges = {} /\ pass.left = {}
      /\ DOMAIN pass = {"at", "phase", "full", "seeds", "active", "todo", "edges", "left",
                        "groups", "clashes", "stale"}
  BY DEF CandInv, InPhase, ListSeeds, ListActive
<1>1. /\ pass.at \in {"seeds", "active"} /\ pass'.at \in {"seeds", "active", "search", "done"}
      /\ pass'.phase = pass.phase /\ pass'.edges = {} /\ pass'.left = {} /\ pass'.groups = pass.groups
      /\ UNCHANGED <<fact, rowOf, vectorOf, parentOf, indexed, constant>>
  BY <1>0 DEF ListSeeds, ListActive, Proceeds
<1>2. TreesGrow'
  <2>1. UNION pass'.edges = {} /\ pass'.groups = {}
    BY <1>1 DEF MeetInv, TreesGrow
  <2> QED BY <1>1, <2>1 DEF MeetInv, TreesGrow
<1>3. constant \subseteq ActiveFacts /\ IsFiniteSet(ActiveFacts)
  BY FactsAreNumbers, FS_Subset DEF MeetInv, ConstantListed, ActiveFacts
<1>4. ASSUME NEW S, ActiveFacts \subseteq S, S \subseteq CFacts, Cardinality(S) < 2,
             NEW s \in constant, NEW m \in constant
      PROVE  s = m
  <2>1. IsFiniteSet(S) /\ IsFiniteSet({s, m}) /\ {s, m} \in SUBSET S
    BY <1>3, <1>4, FactsAreNumbers, FS_Subset
  <2>2. Cardinality({s, m}) <= Cardinality(S) /\ Cardinality(S) \in Nat
    BY <2>1, FS_Subset, FS_CardinalityType
  <2>3. s # m => Cardinality({s} \cup {m}) = 2
    <3>1. IsFiniteSet({s}) /\ Cardinality({s}) = 1
      BY FS_Singleton
    <3> QED BY <3>1, FS_AddElement
  <2>4. {s} \cup {m} = {s, m}
    OBVIOUS
  <2> QED BY <1>4, <2>2, <2>3, <2>4
<1>5. ActiveFacts \subseteq CFacts /\ (pass.full => SeedFacts = ActiveFacts)
  BY DEF ActiveFacts, SeedFacts
<1>6. CASE ListSeeds
  <2> DEFINE listed == IF pass.phase # "merge" /\ pass.full THEN pass.active ELSE SeedFacts
  <2>1. pass.at = "seeds" /\ pass.seeds = {}
    BY <1>6 DEF ListSeeds, MeetInv, SearchedMet
  <2>2. CASE listed = {}
    <3>1. pass'.at = "done" /\ pass'.seeds = {}
      BY <1>0, <1>6, <2>1, <2>2 DEF ListSeeds, Proceeds
    <3>2. ConstantListed'
      BY <1>1, <2>1, <3>1 DEF MeetInv, ConstantListed
    <3>3. pass'.todo = pass.todo
      BY <1>0, <1>6, <2>2 DEF ListSeeds, Proceeds
    <3>4. SearchedMet'
      BY <2>1, <3>1, <3>3 DEF SearchedMet, MeetInv
    <3> QED BY <1>2, <3>2, <3>4 DEF MeetInv
  <2>3. CASE listed # {}
    <3>1. /\ pass'.seeds = listed /\ pass'.todo = listed
          /\ pass'.active = IF pass.phase = "merge" /\ pass.full THEN listed ELSE pass.active
          /\ pass'.at = IF pass.phase # "merge" THEN "search"
                        ELSE IF ~ pass.full THEN "active"
                        ELSE IF Cardinality(listed) < 2 THEN "done" ELSE "search"
      BY <1>0, <1>6, <2>3 DEF ListSeeds, Proceeds
    <3>2. ConstantListed'
      <4>1. pass'.at = "search" => constant \subseteq pass'.active
        BY <1>0, <1>3, <1>5, <2>1, <3>1 DEF MeetInv, ConstantListed
      <4> QED BY <1>1, <2>1, <3>1, <4>1 DEF MeetInv, ConstantListed
    <3>3. pass'.at = "done" => \A s, m \in constant : s = m
      BY <1>0, <1>3, <1>4, <1>5, <3>1
    <3>4. SearchedMet'
      <4>1. listed \subseteq CFacts
        BY <1>5 DEF SeedFacts, CandInv, InPhase
      <4> HIDE DEF listed
      <4> QED BY <1>0, <1>1, <3>1, <3>3, <4>1 DEF SearchedMet, Meets
    <3> QED BY <1>2, <3>2, <3>4 DEF MeetInv
  <2> QED BY <2>2, <2>3
<1>7. CASE ListActive
  <2>1. pass.at = "active" /\ pass.todo = pass.seeds
    BY <1>7 DEF ListActive, MeetInv, SearchedMet
  <2>2. CASE Cardinality(ActiveFacts) < 2
    <3>1. pass'.at = "done" /\ pass'.todo = pass.todo /\ pass'.seeds = pass.seeds
      BY <1>0, <1>7, <2>2 DEF ListActive, Proceeds
    <3>2. \A s, m \in constant : s = m
      BY <1>3, <1>4, <1>5, <2>2
    <3>3. ConstantListed'
      BY <1>1, <2>1, <3>1 DEF MeetInv, ConstantListed
    <3>4. SearchedMet'
      BY <1>1, <3>1, <3>2 DEF MeetInv, SearchedMet, Meets
    <3> QED BY <1>2, <3>3, <3>4 DEF MeetInv
  <2>3. CASE ~ Cardinality(ActiveFacts) < 2
    <3>1. /\ pass'.active = ActiveFacts /\ pass'.seeds = pass.seeds /\ pass'.todo = pass.todo
          /\ pass'.at = IF pass.phase = "merge" THEN "search" ELSE "seeds"
      BY <1>0, <1>7, <2>3 DEF ListActive, Proceeds
    <3>2. ConstantListed'
      BY <1>1, <1>3, <2>1, <3>1 DEF MeetInv, ConstantListed
    <3>3. SearchedMet'
      BY <1>0, <1>1, <2>1, <3>1 DEF MeetInv, SearchedMet
    <3> QED BY <1>2, <3>2, <3>3 DEF MeetInv
  <2> QED BY <2>2, <2>3
<1> QED BY <1>6, <1>7

LEMMA SearchMeets ==
  ASSUME CandInv, MeetInv, NEW s \in pass.todo, SearchSeed(s)
  PROVE  MeetInv'
<1> PICK hits \in Hits(s) :
       LET kept  == {h \in hits \ {s} : Near(s, h) /\ h \in pass.active}
           found == IF pass.phase = "contradict" /\ s \notin pass.active THEN {}
                    ELSE {{s, h} : h \in kept}
           all   == pass.edges \cup found
       IN  Proceeds([pass EXCEPT
             !.todo = @ \ {s}, !.edges = all,
             !.left = IF pass.todo = {s} THEN all ELSE {},
             !.at = IF pass.todo # {s} THEN "search"
                    ELSE IF pass.phase = "merge" THEN "join" ELSE "judge"])
  BY DEF SearchSeed
<1> DEFINE kept  == {h \in hits \ {s} : Near(s, h) /\ h \in pass.active}
           found == IF pass.phase = "contradict" /\ s \notin pass.active THEN {}
                    ELSE {{s, h} : h \in kept}
<1>0. /\ pass.phase \in {"merge", "contradict"} /\ pass.active \subseteq CFacts
      /\ DOMAIN pass = {"at", "phase", "full", "seeds", "active", "todo", "edges", "left",
                        "groups", "clashes", "stale"}
  BY DEF CandInv, InPhase
<1>1. /\ pass.at = "search" /\ parentOf' = parentOf
      /\ pass'.phase = pass.phase /\ pass'.full = pass.full /\ pass'.active = pass.active
      /\ pass'.seeds = pass.seeds /\ pass'.todo = pass.todo \ {s}
      /\ pass'.edges = pass.edges \cup found
      /\ pass'.left = IF pass.todo = {s} THEN pass'.edges ELSE {}
      /\ pass'.at = IF pass.todo # {s} THEN "search"
                    ELSE IF pass.phase = "merge" THEN "join" ELSE "judge"
      /\ UNCHANGED <<fact, rowOf, vectorOf, indexed, constant>>
  <2> HIDE DEF found
  <2> QED BY <1>0 DEF SearchSeed, Proceeds, found
<1>2. \A m \in constant : s \in constant /\ s # m /\ Near(s, m) /\ ~ CrowdedOut(s, m) => {s, m} \in found
  <2>1. constant \subseteq pass.active
    BY <1>1 DEF MeetInv, ConstantListed
  <2> QED BY <1>1, <2>1, MissedIsCrowded DEF MeetInv
<1>3. s \in CFacts /\ \A e \in found : \E a, b \in CFacts : a # b /\ e = {a, b}
  BY <1>0 DEF MeetInv, SearchedMet
<1> HIDE DEF found
<1>4. TreesGrow'
  <2>1. pass'.left \subseteq pass'.edges
    BY <1>1
  <2>2. \A e \in pass'.edges : \E a, b \in CFacts : a # b /\ e = {a, b}
    BY <1>1, <1>3 DEF MeetInv, TreesGrow
  <2>3. parentOf = [m \in CFacts |-> m] /\ Forest(parentOf')
    BY <1>1 DEF MeetInv, TreesGrow
  <2>4. pass'.at = "join" => Partitions(parentOf', pass'.edges \ pass'.left)
    <3>1. pass'.at = "join" => pass'.edges \ pass'.left = {}
      BY <1>1
    <3> QED BY <1>1, <2>3, <3>1, AloneAtFirst
  <2>5. pass'.at \notin {"idle", "seeds", "active", "done"} /\ parentOf' = [m \in CFacts |-> m]
    BY <1>1, <2>3
  <2> QED BY <2>1, <2>2, <2>3, <2>4, <2>5 DEF TreesGrow
<1>5. ConstantListed'
  BY <1>1 DEF MeetInv, ConstantListed
<1>6. Searched' = Searched /\ Searched \subseteq CFacts
  BY <1>0, <1>1 DEF Searched, MeetInv, ConstantListed
<1>7. \A n, m : Meets(n, m) => Meets(n, m)'
  BY <1>1, <1>6, MetStays
<1>8. \A m \in constant : s \in constant => Meets(s, m)'
  <2> SUFFICES ASSUME NEW m \in constant, s \in constant, s # m, Near(s, m)', ~ CrowdedOut(s, m)'
               PROVE  {s, m} \in pass'.edges
    BY DEF Meets
  <2>1. Near(s, m)
    BY <1>1 DEF Near, Apart
  <2>2. ~ CrowdedOut(s, m)
    BY <1>1, <1>6, StillCrowded
  <2> QED BY <1>1, <1>2, <2>1, <2>2
<1>9. \A n \in (pass'.seeds \ pass'.todo) \cap constant', m \in constant' : Meets(n, m)'
  BY <1>1, <1>7, <1>8 DEF MeetInv, SearchedMet
<1>10. pass'.at # "search" => pass'.todo = {}
  BY <1>1
<1>11. SearchedMet'
  BY <1>1, <1>9, <1>10 DEF MeetInv, SearchedMet
<1> QED BY <1>4, <1>5, <1>11 DEF MeetInv

\* The pass goes on with the edges it has.
LEMMA GoesOnMeeting ==
  ASSUME CandInv, MeetInv, pass.at \in {"join", "judge"}, pass'.at \in {"join", "judge", "done"},
         pass'.edges = pass.edges, pass'.active = pass.active, pass'.seeds = pass.seeds,
         pass'.todo = pass.todo, pass'.phase = pass.phase, pass'.full = pass.full,
         UNCHANGED <<fact, rowOf, vectorOf, cchanges, indexed, constant>>
  PROVE  ConstantListed' /\ SearchedMet'
<1>1. Searched' = Searched /\ Searched \subseteq CFacts
  BY DEF Searched, MeetInv, ConstantListed, CandInv, InPhase
<1>2. \A n, m : Meets(n, m) => Meets(n, m)'
  BY <1>1, MetStays
<1>3. ConstantListed'
  BY DEF MeetInv, ConstantListed
<1>4. SearchedMet'
  BY <1>2 DEF MeetInv, SearchedMet
<1> QED BY <1>3, <1>4

LEMMA JoinMeets ==
  ASSUME CandInv, MeetInv, NEW a \in CFacts, NEW b \in CFacts, JoinEdge(a, b)
  PROVE  MeetInv'
<1>1. /\ pass.at = "join" /\ {a, b} \in pass.left /\ parentOf' = Link(parentOf, a, b)
      /\ pass'.at = "join" /\ pass'.left = pass.left \ {{a, b}}
      /\ pass'.edges = pass.edges /\ pass'.active = pass.active /\ pass'.seeds = pass.seeds
      /\ pass'.todo = pass.todo /\ pass'.phase = pass.phase /\ pass'.full = pass.full
      /\ pass'.groups = pass.groups
      /\ UNCHANGED <<fact, rowOf, vectorOf, cchanges, indexed, constant>>
  BY DEF JoinEdge, Proceeds, CandInv, InPhase
<1>2. ConstantListed' /\ SearchedMet'
  BY <1>1, GoesOnMeeting
<1>3. /\ pass'.edges \ pass'.left = (pass.edges \ pass.left) \cup {{a, b}}
      /\ Forest(parentOf) /\ Partitions(parentOf, pass.edges \ pass.left)
  BY <1>1 DEF MeetInv, TreesGrow
<1>4. Forest(parentOf') /\ Partitions(parentOf', pass'.edges \ pass'.left)
  <2>1. pass.edges \ pass.left \in SUBSET SUBSET CFacts
    <3>1. \A e \in pass.edges : e \subseteq CFacts
      BY DEF MeetInv, TreesGrow
    <3> QED BY <3>1
  <2>2. /\ Forest(Link(parentOf, a, b))
        /\ Partitions(Link(parentOf, a, b), (pass.edges \ pass.left) \cup {{a, b}})
    BY <1>3, <2>1, JoinPartitions
  <2> QED BY <1>1, <1>3, <2>2
<1>5. TreesGrow'
  BY <1>1, <1>4 DEF MeetInv, TreesGrow
<1> QED BY <1>2, <1>5 DEF MeetInv

\* Who shares a root with another is connected to it by edges of the pass.
LEMMA GroupMeets ==
  ASSUME CandInv, MeetInv, Group
  PROVE  MeetInv'
<1> DEFINE nodes == pass.seeds \cup UNION pass.edges
           Of(r) == {m \in nodes : RootOf(parentOf, m) = r}
<1>1. /\ pass.at = "join" /\ pass.left = {} /\ parentOf' = parentOf
      /\ pass'.at = "done" /\ pass'.left = pass.left
      /\ pass'.edges = pass.edges /\ pass'.active = pass.active /\ pass'.seeds = pass.seeds
      /\ pass'.todo = pass.todo /\ pass'.phase = pass.phase /\ pass'.full = pass.full
      /\ pass'.groups = {Of(r) : r \in {x \in CFacts : Cardinality(Of(x)) > 1}}
      /\ UNCHANGED <<fact, rowOf, vectorOf, cchanges, indexed, constant>>
  BY DEF Group, Proceeds, CandInv, InPhase
<1>2. ConstantListed' /\ SearchedMet'
  BY <1>1, GoesOnMeeting
<1>3. /\ pass.edges \in SUBSET SUBSET CFacts /\ nodes \subseteq CFacts
      /\ Forest(parentOf) /\ Partitions(parentOf, pass.edges)
      /\ \A e \in pass.edges : \E a, b \in CFacts : a # b /\ e = {a, b}
  <2>1. pass.edges \ pass.left = pass.edges
    BY <1>1
  <2> QED BY <1>1, <2>1 DEF MeetInv, TreesGrow, SearchedMet
<1>4. \A m \in CFacts : /\ m \in Connected(m) /\ Connected(m) \subseteq CFacts
                        /\ \A e \in pass.edges : e \cap Connected(m) # {} => e \subseteq Connected(m)
                        /\ \A n \in CFacts : n \in Connected(m) <=> RootOf(parentOf, n) = RootOf(parentOf, m)
  BY <1>3, ConnectedCloses DEF Connected, Partitions
<1>5. ASSUME NEW m \in UNION pass.edges PROVE Connected(m) \subseteq UNION pass.edges
  <2> DEFINE C == UNION pass.edges
  <2>1. C \in SUBSET CFacts /\ m \in C /\ m \in CFacts
        /\ \A e \in pass.edges : e \cap C # {} => e \subseteq C
    BY <1>3
  <2> HIDE DEF C
  <2>2. Connected(m) \subseteq C
    BY <1>3, <2>1, ConnectedCloses DEF Connected
  <2> QED BY <2>2 DEF C
<1>6. ASSUME NEW m \in UNION pass.edges PROVE Connected(m) = Of(RootOf(parentOf, m))
  <2>1. m \in CFacts
    BY <1>3
  <2> QED BY <1>3, <1>4, <1>5, <2>1
<1>7. ASSUME NEW r \in CFacts, Cardinality(Of(r)) > 1
      PROVE  \E m \in UNION pass.edges : Of(r) = Connected(m)
  <2> PICK c : c = Of(r)
    OBVIOUS
  <2>1. IsFiniteSet(c) /\ Cardinality(c) > 1
    BY <1>3, <1>7, FactsAreNumbers, FS_Subset
  <2>2. c # {} /\ \A x : c # {x}
    BY <2>1, FS_EmptySet, FS_Singleton
  <2>3. PICK x, y \in Of(r) : x # y
    BY <2>2
  <2>4. x \in CFacts /\ y \in Connected(x)
    BY <1>3, <1>4, <2>3
  <2>5. x \in UNION pass.edges
    <3> SUFFICES ASSUME x \notin UNION pass.edges PROVE FALSE
      OBVIOUS
    <3>1. {x} \in SUBSET CFacts /\ x \in {x} /\ \A e \in pass.edges : e \cap {x} # {} => e \subseteq {x}
      BY <2>4
    <3>2. Connected(x) \subseteq {x}
      BY <1>3, <2>4, <3>1, ConnectedCloses DEF Connected
    <3> QED BY <2>3, <2>4, <3>2
  <2>6. Connected(x) = Of(r)
    BY <1>6, <2>3, <2>5
  <2> QED BY <2>5, <2>6
<1>8. ASSUME NEW m \in UNION pass.edges
      PROVE  \E r \in CFacts : Cardinality(Of(r)) > 1 /\ Of(r) = Connected(m)
  <2>0. PICK e \in pass.edges : m \in e
    OBVIOUS
  <2>1. \E a, b \in CFacts : a # b /\ e = {a, b}
    BY <1>3
  <2> PICK a, b \in CFacts : a # b /\ e = {a, b}
    BY <2>1
  <2>2. m \in CFacts /\ RootOf(parentOf, m) \in CFacts
    BY <1>3, <2>0, RootSteps
  <2>3. {a, b} \in SUBSET Connected(m) /\ IsFiniteSet(Connected(m))
    BY <1>4, <2>0, <2>2, FactsAreNumbers, FS_Subset
  <2>4. Cardinality({a, b}) <= Cardinality(Connected(m)) /\ Cardinality(Connected(m)) \in Nat
    BY <2>3, FS_Subset, FS_CardinalityType
  <2>5. Cardinality({a} \cup {b}) = 2
    <3>1. IsFiniteSet({a}) /\ Cardinality({a}) = 1
      BY FS_Singleton
    <3> QED BY <3>1, FS_AddElement
  <2>6. {a} \cup {b} = {a, b}
    OBVIOUS
  <2>7. Cardinality(Connected(m)) > 1
    BY <2>4, <2>5, <2>6
  <2> QED BY <1>6, <2>2, <2>7
<1>9. pass'.groups = {Connected(m) : m \in UNION pass.edges}
  <2> HIDE DEF Of, nodes
  <2> QED BY <1>1, <1>7, <1>8
<1>10. TreesGrow'
  <2>1. pass'.groups = {ConnectedBy(pass'.edges, m) : m \in UNION pass'.edges}
    BY <1>1, <1>9 DEF Connected
  <2>2. Forest(parentOf') /\ pass'.left \subseteq pass'.edges
    BY <1>1, <1>3
  <2>3. \A e \in pass'.edges : \E a, b \in CFacts : a # b /\ e = {a, b}
    BY <1>1, <1>3
  <2>4. pass'.at = "done"
    BY <1>1
  <2> QED BY <2>1, <2>2, <2>3, <2>4 DEF TreesGrow, Connected
<1> QED BY <1>2, <1>10 DEF MeetInv

LEMMA JudgeMeets ==
  ASSUME CandInv, MeetInv,
         \/ \E a, b \in CFacts : JudgeApart(a, b) \/ JudgeClash(a, b)
         \/ Judged
  PROVE  MeetInv'
<1>1. /\ pass.at = "judge" /\ pass.phase = "contradict" /\ parentOf' = parentOf
      /\ pass'.at \in {"judge", "done"} /\ pass'.left \subseteq pass.left
      /\ pass'.edges = pass.edges /\ pass'.active = pass.active /\ pass'.seeds = pass.seeds
      /\ pass'.todo = pass.todo /\ pass'.phase = pass.phase /\ pass'.full = pass.full
      /\ UNCHANGED <<fact, rowOf, vectorOf, cchanges, indexed, constant>>
  <2>1. CASE Judged
    BY <2>1 DEF Judged, Proceeds, CandInv, InPhase
  <2>2. ASSUME NEW a \in CFacts, NEW b \in CFacts, JudgeApart(a, b) PROVE <1>1!:
    BY <2>2 DEF JudgeApart, Proceeds, CandInv, InPhase
  <2>3. ASSUME NEW a \in CFacts, NEW b \in CFacts, JudgeClash(a, b) PROVE <1>1!:
    BY <2>3 DEF JudgeClash, Proceeds, CandInv, InPhase
  <2> QED BY <2>1, <2>2, <2>3
<1>2. ConstantListed' /\ SearchedMet'
  BY <1>1, GoesOnMeeting
<1>3. TreesGrow'
  BY <1>1 DEF MeetInv, TreesGrow
<1> QED BY <1>2, <1>3 DEF MeetInv

LEMMA MeetKeeps ==
  ASSUME CandInv, MeetInv, [CandNext]_candVars
  PROVE  MeetInv'
<1>1. CASE UNCHANGED candVars
  <2>1. UNCHANGED <<fact, rowOf, vectorOf, pass, parentOf, indexed, constant>>
    BY <1>1 DEF candVars
  <2>2. Searched' = Searched /\ Searched \subseteq CFacts
    BY <2>1 DEF Searched, MeetInv, ConstantListed, CandInv, InPhase
  <2>3. \A n, m : Meets(n, m) => Meets(n, m)'
    BY <2>1, <2>2, MetStays
  <2>4. TreesGrow'
    BY <2>1 DEF MeetInv, TreesGrow, Connected
  <2>5. ConstantListed' /\ SearchedMet'
    BY <2>1, <2>3 DEF MeetInv, ConstantListed, SearchedMet
  <2> QED BY <2>4, <2>5 DEF MeetInv
<1>2. ASSUME NEW m \in CFacts,
             Write(m) \/ VectorArrives(m) \/ RetireRow(m) \/ Delete(m) \/ VectorLeaves(m)
      PROVE  MeetInv'
  <2>1. vectorOf \subseteq CFacts
    BY DEF MeetInv, ConstantListed
  <2>2. \E state : \E vectors \in SUBSET CFacts : Beside(m, state, vectors)
    BY <1>2, <2>1 DEF Write, VectorArrives, RetireRow, Delete, VectorLeaves
  <2> QED BY <2>2, ClientsMeet
<1> QED
  BY <1>1, <1>2, BeginMeets, ListsMeet, SearchMeets, JoinMeets, GroupMeets, JudgeMeets
     DEF CandNext

\* For any facts, places, thresholds and clients: a seed and a near fact that are in
\* force, with their vectors, from the beginning of a pass to its end meet in a cluster
\* or in a pair that is judged, unless more than K vectors lie as near; and the
\* clusters are the components of the edges found, in whatever order these are joined.
THEOREM NeighboursMeet == CandSpec => []SeedsMeetNeighbours
<1>1. CandSpec => [](CandInv /\ MeetInv)
  <2>1. CandInv /\ MeetInv /\ [CandNext]_candVars => CandInv' /\ MeetInv'
    BY CandKeeps, MeetKeeps
  <2> QED BY <2>1, CandStarts, MeetStarts, PTL DEF CandSpec
<1>2. CandInv /\ MeetInv => SeedsMeetNeighbours
  <2> SUFFICES ASSUME CandInv, MeetInv, pass.at = "done"
               PROVE  SeedsMeetNeighbours
    BY DEF SeedsMeetNeighbours
  <2>1. pass.phase = "merge" => pass.groups = {Connected(m) : m \in UNION pass.edges}
    BY DEF MeetInv, TreesGrow
  <2>2. ASSUME NEW s \in pass.seeds \cap constant, NEW m \in constant,
               s # m, Near(s, m), ~ CrowdedOut(s, m)
        PROVE  IF pass.phase = "merge" THEN \E g \in pass.groups : {s, m} \subseteq g
               ELSE {s, m} \in pass.edges
    <3>1. {s, m} \in pass.edges
      BY <2>2 DEF MeetInv, SearchedMet, Meets
    <3>2. s \in CFacts /\ pass.edges \in SUBSET SUBSET CFacts
      BY DEF MeetInv, SearchedMet, TreesGrow
    <3>3. {s, m} \subseteq Connected(s)
      BY <3>1, <3>2, ConnectedCloses DEF Connected
    <3> QED BY <2>1, <3>1, <3>3
  <2> QED BY <2>1, <2>2 DEF SeedsMeetNeighbours
<1> QED BY <1>1, <1>2, PTL
=============================================================================
