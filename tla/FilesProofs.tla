---------------------------- MODULE FilesProofs -----------------------------
(***************************************************************************)
(* What holds of the files a vault keeps beside its databases, for any     *)
(* number of processes: the reranking model and the REPORT of a boundary.  *)
(***************************************************************************)
EXTENDS ModelFiles, Reports, FiniteSetTheorems, WellFoundedInduction, TLAPS

-----------------------------------------------------------------------------
(***************************************************************************)
(* The model's files: ModelsWhole for any number of processes and fetches. *)
(*                                                                         *)
(* As long as no two downloads overlap: a process that streams owns the    *)
(* inode the partial name leads to, what it hashed right it also wrote     *)
(* right, and that inode is not the one in place.                          *)
(***************************************************************************)

Fetches == [at : {"idle", "bad", "get", "stream", "ready"},
            ino : Inodes \cup {NoFile}, pos : 0..2, clean : BOOLEAN]

\* The inodes in use are those handed out so far.
Drawn == placed <= fetches + 1 /\ partial <= fetches + 1

\* One download at a time, on the inode at the partial name, which is not in place.
OneStream ==
  /\ partial # NoFile => partial # placed
  /\ \A p \in FProcs : Streaming(p) => fetch[p].ino = partial /\ partial # NoFile
  /\ \A p, q \in FProcs : Streaming(p) /\ Streaming(q) => p = q

\* The hash speaks for the file: what came by right is on the disk.
HashOfFile ==
  \A p \in FProcs : Streaming(p) /\ fetch[p].clean =>
    \A c \in Chunks : c <= fetch[p].pos => disk[fetch[p].ino][c] = "right"

FileInv == /\ FileTypeOK /\ Drawn
           /\ ~ crossed => OneStream /\ HashOfFile
           /\ ModelsWhole

LEMMA FileStarts == FileInit => FileInv
<1> SUFFICES ASSUME FileInit PROVE FileInv
  OBVIOUS
<1>1. Inodes \subseteq Nat /\ 1 \in Inodes /\ 0 \in 0..FMaxFetches
  BY FilesAssumption DEF FilesAssumption, Inodes
<1>2. Whole \in [Chunks -> {"none", "right", "wrong"}]
      /\ Empty \in [Chunks -> {"none", "right", "wrong"}]
      /\ [Whole EXCEPT ![2] = "wrong"] \in [Chunks -> {"none", "right", "wrong"}]
  BY DEF Whole, Empty, Chunks
<1>3. disk \in [Inodes -> [Chunks -> {"none", "right", "wrong"}]]
  BY <1>2 DEF FileInit
<1>4. NotFetching \in [at : {"idle", "bad", "get", "stream", "ready"},
                       ino : Inodes \cup {NoFile}, pos : 0..2, clean : BOOLEAN]
  BY DEF NotFetching
<1>5. FileTypeOK
  BY <1>1, <1>3, <1>4 DEF FileInit, FileTypeOK, NoFile
<1> QED
  BY <1>1, <1>5
     DEF FileInit, FileInv, Drawn, OneStream, HashOfFile, ModelsWhole, Streaming, NotFetching, NoFile

\* Facts every step starts from.
LEMMA FileFacts ==
  ASSUME FileTypeOK
  PROVE  /\ FMaxFetches \in Nat /\ fetches \in Nat /\ crossed \in BOOLEAN
         /\ placed \in Nat /\ partial \in Nat /\ 1 \in Inodes /\ Inodes \subseteq Nat \ {0}
         /\ DOMAIN fetch = FProcs /\ DOMAIN disk = Inodes
         /\ \A i \in Inodes : DOMAIN disk[i] = Chunks
         /\ \A p \in FProcs : fetch[p] \in Fetches /\ fetch[p].pos \in Nat
  BY FilesAssumption DEF FileTypeOK, FilesAssumption, Inodes, NoFile, Fetches

\* A process moves, but not to or from the stream, and nothing else changes; it may
\* become ready only when what is in place is whole.
LEMMA OneMoves ==
  ASSUME FileInv, NEW p \in FProcs, NEW r \in Fetches, fetch' = [fetch EXCEPT ![p] = r],
         r.at # "stream", r.at = "ready" => placed = NoFile \/ disk[placed] = Whole,
         UNCHANGED <<disk, fetches, crossed>>,
         placed' = placed \/ placed' = NoFile,
         partial' = partial \/ (partial' = NoFile /\ (~ crossed => \A q \in FProcs \ {p} : ~ Streaming(q)))
  PROVE  FileInv'
<1>0. FileTypeOK
  BY DEF FileInv
<1>1. FileTypeOK'
  BY <1>0 DEF FileTypeOK, Fetches, NoFile
<1>2. fetch'[p] = r /\ \A q \in FProcs \ {p} : fetch'[q] = fetch[q]
  BY <1>0, FileFacts
<1>3. Drawn'
  BY <1>0, FileFacts DEF FileInv, Drawn, NoFile
<1>4. \A q \in FProcs : Streaming(q)' => q # p /\ Streaming(q) /\ fetch'[q] = fetch[q]
  BY <1>2 DEF Streaming
<1>5. ~ crossed' => OneStream' /\ HashOfFile'
  BY <1>2, <1>4 DEF FileInv, OneStream, HashOfFile, NoFile
<1>6. ModelsWhole'
  BY <1>2 DEF FileInv, ModelsWhole, NoFile
<1> QED BY <1>1, <1>3, <1>5, <1>6 DEF FileInv

\* A download begins on a truncated inode of its own, if it is the only one.
LEMMA GetKeeps ==
  ASSUME FileInv, NEW p \in FProcs, Get(p)
  PROVE  FileInv'
<1>0. FileTypeOK
  BY DEF FileInv
<1> DEFINE i == IF partial = NoFile THEN FreshInode ELSE partial
           r == [at |-> "stream", ino |-> i, pos |-> 0, clean |-> TRUE]
<1>1. i \in Inodes /\ i <= fetches' + 1 /\ fetches' = fetches + 1 /\ fetches' \in 0..FMaxFetches
  BY <1>0, FileFacts DEF Get, FileInv, FileTypeOK, Drawn, FreshInode, Inodes, NoFile
<1>2. disk' = [disk EXCEPT ![i] = Empty] /\ partial' = i /\ placed' = placed
      /\ fetch' = [fetch EXCEPT ![p] = r]
      /\ crossed' = (crossed \/ \E q \in FProcs : Streaming(q))
      /\ fetch[p].at = "get"
  BY DEF Get
<1>3. Empty \in [Chunks -> {"none", "right", "wrong"}] /\ r \in Fetches
  BY <1>1 DEF Empty, Fetches
<1>4. crossed' \in BOOLEAN
  BY <1>2, Zenon
<1> HIDE DEF i, r
<1>5. FileTypeOK'
  BY <1>0, <1>1, <1>2, <1>3, <1>4 DEF FileTypeOK, Fetches
<1>6. fetch'[p] = r /\ \A q \in FProcs \ {p} : fetch'[q] = fetch[q]
  BY <1>0, <1>2, FileFacts
<1>7. Drawn'
  BY <1>0, <1>1, <1>2, FileFacts DEF FileInv, Drawn
<1>8. SUFFICES ASSUME ~ crossed'
              PROVE  OneStream' /\ HashOfFile' /\ ModelsWhole'
  BY <1>5, <1>7 DEF FileInv, ModelsWhole
<1>9. ~ crossed /\ \A q \in FProcs : ~ Streaming(q)
  BY <1>2, <1>8, Zenon
<1>10. \A q \in FProcs : Streaming(q)' => q = p
  BY <1>6, <1>9 DEF Streaming
<1>11. i # placed /\ i # NoFile /\ r.ino = i /\ r.pos = 0 /\ r.at = "stream"
  BY <1>0, <1>9, FileFacts DEF i, r, FileInv, OneStream, Drawn, FreshInode, NoFile
<1>12. OneStream'
  BY <1>2, <1>6, <1>10, <1>11 DEF OneStream
<1>13. HashOfFile'
  BY <1>6, <1>10, <1>11 DEF HashOfFile, Chunks
<1>14. ModelsWhole'
  <2> SUFFICES ASSUME NEW q \in FProcs, fetch'[q].at = "ready", placed # NoFile
              PROVE  disk'[placed] = Whole
    BY <1>2 DEF ModelsWhole
  <2>1. fetch[q].at = "ready"
    BY <1>6, <1>11
  <2>2. disk[placed] = Whole /\ placed \in Inodes
    BY <1>0, <1>9, <2>1 DEF FileInv, ModelsWhole, FileTypeOK
  <2> QED BY <1>0, <1>2, <1>11, <2>2, FileFacts
<1> QED BY <1>12, <1>13, <1>14

\* A chunk is hashed and written to the same place.
LEMMA ChunkKeeps ==
  ASSUME FileInv, NEW p \in FProcs, NEW c \in {"right", "wrong"}, Chunk(p, c)
  PROVE  FileInv'
<1>0. FileTypeOK
  BY DEF FileInv
<1> DEFINE i == fetch[p].ino
           n == fetch[p].pos + 1
<1>b. PICK b \in BOOLEAN : b = (fetch[p].clean /\ c = "right")
  OBVIOUS
<1> DEFINE r == [fetch[p] EXCEPT !.pos = n, !.clean = b]
<1>1. /\ Streaming(p) /\ n \in Chunks /\ i \in Inodes \cup {NoFile}
      /\ disk' = [disk EXCEPT ![i][n] = c]
      /\ UNCHANGED <<placed, partial, fetches, crossed>>
  BY <1>0, FileFacts DEF Chunk, Chunks, Fetches, FileTypeOK
<1>1a. fetch' = [fetch EXCEPT ![p] = r]
  <2>1. fetch' = [fetch EXCEPT ![p] = [fetch[p] EXCEPT !.pos = n,
                                         !.clean = fetch[p].clean /\ c = "right"]]
    BY DEF Chunk
  <2> QED BY <1>b, <2>1, Zenon
<1>2. r.at = "stream" /\ r.ino = i /\ r.pos = n /\ r.clean = b
  BY <1>0, <1>1, FileFacts DEF Streaming, Fetches
<1>2a. r.clean => fetch[p].clean /\ c = "right"
  BY <1>b, <1>2, Zenon
<1>3. r \in Fetches
  <2>1. n \in 0..2
    BY <1>1 DEF Chunks
  <2> QED BY <1>0, <2>1, FileFacts DEF Fetches
<1>4. disk' \in [Inodes -> [Chunks -> {"none", "right", "wrong"}]]
  BY <1>0, <1>1 DEF FileTypeOK
<1> HIDE DEF r, i
<1>5. FileTypeOK'
  BY <1>0, <1>1, <1>1a, <1>3, <1>4 DEF FileTypeOK, Fetches
<1>6. fetch'[p] = r /\ \A q \in FProcs \ {p} : fetch'[q] = fetch[q]
  BY <1>0, <1>1a, FileFacts
<1>7. SUFFICES ASSUME ~ crossed PROVE OneStream' /\ HashOfFile' /\ ModelsWhole'
  BY <1>1, <1>5 DEF FileInv, Drawn, ModelsWhole
<1>8. i = partial /\ i # placed /\ i \in Inodes
  BY <1>1, <1>7 DEF i, FileInv, OneStream
<1>9. \A q \in FProcs : Streaming(q)' => Streaming(q) /\ q = p
  BY <1>1, <1>6, <1>7 DEF FileInv, OneStream, Streaming
<1>10. OneStream'
  BY <1>1, <1>2, <1>6, <1>7, <1>8, <1>9 DEF OneStream, FileInv
<1>11. HashOfFile'
  <2> SUFFICES ASSUME fetch'[p].clean, NEW k \in Chunks, k <= fetch'[p].pos
              PROVE  disk'[fetch'[p].ino][k] = "right"
    BY <1>9 DEF HashOfFile
  <2>1. fetch[p].clean /\ c = "right" /\ k <= n /\ fetch'[p].ino = i
    BY <1>2, <1>2a, <1>6
  <2>2. CASE k = n
    BY <1>0, <1>1, <1>8, <2>1, <2>2, FileFacts
  <2>3. CASE k # n
    <3>1. k <= fetch[p].pos
      BY <1>0, <2>1, <2>3, FileFacts DEF Chunks
    <3>2. disk[i][k] = "right"
      BY <1>1, <1>7, <2>1, <3>1 DEF FileInv, HashOfFile, i
    <3> QED BY <1>0, <1>1, <1>8, <2>1, <2>3, <3>2, FileFacts
  <2> QED BY <2>2, <2>3
<1>12. ModelsWhole'
  <2> SUFFICES ASSUME NEW q \in FProcs, fetch'[q].at = "ready", placed # NoFile
              PROVE  disk'[placed] = Whole
    BY <1>1 DEF ModelsWhole
  <2>1. fetch[q].at = "ready"
    BY <1>2, <1>6
  <2>2. disk[placed] = Whole /\ placed \in Inodes
    BY <1>0, <1>7, <2>1 DEF FileInv, ModelsWhole, FileTypeOK
  <2> QED BY <1>0, <1>1, <1>8, <2>2, FileFacts
<1> QED BY <1>10, <1>11, <1>12

\* A stream whose hash is right is renamed into place: alone, it was the file's.
LEMMA FinishKeeps ==
  ASSUME FileInv, NEW p \in FProcs, Streaming(p), fetch[p].pos = 2, fetch[p].clean, Rename(p),
         UNCHANGED <<disk, fetches, crossed>>
  PROVE  FileInv'
<1>0. FileTypeOK
  BY DEF FileInv
<1>1. partial' = NoFile /\ placed' \in {placed, partial}
  BY DEF Rename
<1>2. PICK r \in Fetches : fetch' = [fetch EXCEPT ![p] = r] /\ r.at \in {"idle", "ready"}
  <2>1. [fetch[p] EXCEPT !.at = "ready"] \in Fetches /\ NotFetching \in Fetches
    BY <1>0, FileFacts DEF Fetches, NotFetching
  <2>2. [fetch[p] EXCEPT !.at = "ready"].at = "ready" /\ NotFetching.at = "idle"
    BY <1>0, FileFacts DEF Fetches, NotFetching
  <2> QED BY <2>1, <2>2 DEF Rename, Fails, FetchAt
<1>3. FileTypeOK'
  BY <1>0, <1>1, <1>2 DEF FileTypeOK, Fetches, NoFile
<1>4. fetch'[p] = r /\ \A q \in FProcs \ {p} : fetch'[q] = fetch[q]
  BY <1>0, <1>2, FileFacts
<1>5. Drawn'
  BY <1>0, <1>1, FileFacts DEF FileInv, Drawn, NoFile
<1>6. SUFFICES ASSUME ~ crossed PROVE OneStream' /\ HashOfFile' /\ ModelsWhole'
  BY <1>3, <1>5 DEF FileInv, ModelsWhole
<1>7. \A q \in FProcs : ~ Streaming(q)'
  BY <1>2, <1>4, <1>6 DEF FileInv, OneStream, Streaming
<1>8. placed' = fetch[p].ino /\ placed' \in Inodes
  BY <1>0, <1>6 DEF Rename, FileInv, OneStream, FileTypeOK
<1>9. disk[placed'] = Whole
  <2>1. \A c \in Chunks : disk[fetch[p].ino][c] = "right"
    BY <1>6 DEF FileInv, HashOfFile, Chunks
  <2>2. disk[fetch[p].ino] \in [Chunks -> {"none", "right", "wrong"}]
    BY <1>0, <1>8 DEF FileTypeOK
  <2> QED BY <1>8, <2>1, <2>2 DEF Whole
<1> QED BY <1>1, <1>7, <1>9 DEF OneStream, HashOfFile, ModelsWhole

LEMMA FileKeeps ==
  ASSUME FileInv, [FileNext]_fileVars
  PROVE  FileInv'
<1>0. FileTypeOK
  BY DEF FileInv
<1>m. ASSUME NEW p \in FProcs, NEW where \in {"idle", "bad", "get", "ready"}
      PROVE  /\ NotFetching \in Fetches /\ NotFetching.at = "idle"
             /\ [fetch[p] EXCEPT !.at = where] \in Fetches
             /\ [fetch[p] EXCEPT !.at = where].at = where
  BY <1>0, FileFacts DEF Fetches, NotFetching
<1>1. CASE UNCHANGED fileVars
  BY <1>1 DEF fileVars, FileInv, FileTypeOK, Drawn, OneStream, HashOfFile, ModelsWhole, Streaming
<1>2. ASSUME NEW p \in FProcs, Ensure(p) PROVE FileInv'
  <2>1. CASE placed = NoFile
    BY <1>2, <1>m, <2>1, OneMoves DEF Ensure, FetchAt
  <2>2. CASE placed # NoFile /\ disk[placed] = Whole
    BY <1>2, <1>m, <2>2, OneMoves DEF Ensure, FetchAt
  <2>3. CASE placed # NoFile /\ disk[placed] # Whole
    BY <1>2, <1>m, <2>3, OneMoves DEF Ensure, FetchAt
  <2> QED BY <2>1, <2>2, <2>3
<1>3. ASSUME NEW p \in FProcs, RemoveBad(p) PROVE FileInv'
  <2>1. CASE placed = NoFile
    BY <1>3, <1>m, <2>1, OneMoves DEF RemoveBad, Fails
  <2>2. CASE placed # NoFile
    BY <1>3, <1>m, <2>2, OneMoves DEF RemoveBad, FetchAt
  <2> QED BY <2>1, <2>2
<1>4. ASSUME NEW p \in FProcs, GetFails(p) \/ Break(p) PROVE FileInv'
  BY <1>4, <1>m, OneMoves DEF GetFails, Break, Fails
<1>5. ASSUME NEW p \in FProcs, Finish(p) PROVE FileInv'
  <2>1. CASE fetch[p].pos = 2 /\ fetch[p].clean /\ Rename(p)
    BY <1>5, <2>1, FinishKeeps DEF Finish
  <2>2. CASE partial' = NoFile /\ Fails(p) /\ UNCHANGED placed
    <3>1. ~ crossed => \A q \in FProcs \ {p} : ~ Streaming(q)
      BY <1>5 DEF Finish, FileInv, OneStream
    <3> QED BY <1>5, <1>m, <2>2, <3>1, OneMoves DEF Finish, Fails
  <2> QED BY <1>5, <2>1, <2>2 DEF Finish
<1> QED BY <1>1, <1>2, <1>3, <1>4, <1>5, GetKeeps, ChunkKeeps DEF FileNext

\* A model that was ensured is whole where its caller loads it, for any number of
\* processes, streams that break and leftovers, unless two downloads overlapped.
THEOREM EnsuredIsWhole == FileSpec => []ModelsWhole
<1>1. FileInv /\ [FileNext]_fileVars => FileInv'
  BY FileKeeps
<1>2. FileInv => ModelsWhole
  BY DEF FileInv
<1> QED BY <1>1, <1>2, FileStarts, PTL DEF FileSpec

-----------------------------------------------------------------------------
(***************************************************************************)
(* The REPORT: ReportsMoveForward and ReportComplete, for any number of    *)
(* processes, facts and runs, any distances and any names.                 *)
(*                                                                         *)
(* As long as no two processes had the temporary file open, it holds what  *)
(* its one writer has written, and a run's REPORT is newer than what it    *)
(* replaces because the run holds the lock from before it was numbered.    *)
(* That a REPORT is complete rests on two facts of its own: the components *)
(* of the topic edges partition the facts, and of the topics that share a  *)
(* name the one that stays has the greatest first fact.                    *)
(***************************************************************************)

\* Who has the file open is writing, and what it writes is an old file or the REPORT of
\* the run that holds the lock.
DesksInOrder ==
  \A h \in PHosts :
    /\ desk[h].at \in {"off", "up", "generated", "settled"} => desk[h].todo = {}
    /\ desk[h].at \in {"opened", "written"} <=> desk[h].fd # "closed"
    /\ \/ desk[h].at \in {"generated", "settled"}
       \/ desk[h].at \in {"opened", "written"} /\ desk[h].todo = {}
       => holder = h
    /\ holder = h => runs > 0
    /\ desk[h].at \in {"opened", "written"} =>
         IF desk[h].todo = {} THEN desk[h].bytes = ReportOfGen(2 + runs)
         ELSE desk[h].bytes.gen <= 2

\* As long as no two had the temporary file open, what was written is what it holds,
\* and the run under way brings a REPORT newer than what is there.
OneWriter ==
  ~ mixed =>
    /\ \A h \in PHosts : desk[h].fd \in {"closed", "tmp"}
    /\ \A h, k \in PHosts : desk[h].fd = "tmp" /\ desk[k].fd = "tmp" => h = k
    /\ \A h \in PHosts : desk[h].at = "opened" => reportTmp = Broken
    /\ \A h \in PHosts : desk[h].at = "written" => reportTmp = desk[h].bytes
    /\ reportFile.gen <= 2 + runs
    /\ \A h \in PHosts : \/ desk[h].at = "generated"
                         \/ desk[h].at \in {"opened", "written"} /\ desk[h].todo = {}
                         => reportFile.gen < 2 + runs

ReportInv == ReportTypeOK /\ DesksInOrder /\ OneWriter

Desks == [at : {"off", "next", "opened", "written", "remove", "up", "generated", "settled"},
          todo : SUBSET {"json", "tmp"}, entry : {"json", "tmp"},
          bytes : FileStates, fd : {"closed", "tmp", "final", "gone"}]

LEMMA ReportConstants ==
  /\ PNoHost \notin PHosts /\ PMaxRuns \in Nat /\ PMaxStarts \in Nat
  /\ PListings \subseteq SUBSET PFacts
  /\ Missing \in FileStates /\ Broken \in FileStates /\ Garbled \in FileStates
  /\ \A g \in 1..(2 + PMaxRuns) : ReportOfGen(g) \in FileStates
  /\ Missing.gen = 0 /\ Broken.gen = 0 /\ Garbled.gen = 0
  /\ \A g \in Nat : ReportOfGen(g).gen = g /\ ReportOfGen(g).kind = "whole"
  /\ \A f \in FileStates : f.gen \in Nat
<1>1. PNoHost \notin PHosts /\ PMaxRuns \in Nat /\ PMaxStarts \in Nat /\ PListings \subseteq SUBSET PFacts
  BY ReportsAssumption DEF ReportsAssumption
<1>2. Missing.gen = 0 /\ Broken.gen = 0 /\ Garbled.gen = 0
  BY DEF Missing, Broken, Garbled
<1>3. \A g \in Nat : ReportOfGen(g).gen = g /\ ReportOfGen(g).kind = "whole"
  BY DEF ReportOfGen
<1>4. Missing \in FileStates /\ Broken \in FileStates /\ Garbled \in FileStates
      /\ \A g \in 1..(2 + PMaxRuns) : ReportOfGen(g) \in FileStates
  BY DEF FileStates
<1>5. ASSUME NEW f \in FileStates PROVE f.gen \in Nat
  <2>1. 1..(2 + PMaxRuns) \subseteq Nat
    BY <1>1
  <2>2. f \in {Missing, Broken, Garbled} \/ \E g \in 1..(2 + PMaxRuns) : f = ReportOfGen(g)
    BY DEF FileStates
  <2> QED
    BY <1>2, <1>3, <2>1, <2>2
<1> QED
  BY <1>1, <1>2, <1>3, <1>4, <1>5

LEMMA ReportTyped ==
  ASSUME ReportTypeOK
  PROVE  /\ places \in PPlaces /\ plain \in [{"json", "tmp"} -> {"none", "whole", "torn"}]
         /\ DOMAIN plain = {"json", "tmp"}
         /\ reportFile \in FileStates /\ reportTmp \in FileStates
         /\ reportFile.gen \in Nat /\ reportTmp.gen \in Nat
         /\ desk \in [PHosts -> Desks]
         /\ holder \in PHosts \cup {PNoHost}
         /\ report.says \subseteq DOMAIN report.label /\ report.listed \subseteq PFacts
         /\ runs \in 0..PMaxRuns /\ runs \in Nat /\ pstarts \in 0..PMaxStarts /\ mixed \in BOOLEAN
<1>1. DOMAIN plain = {"json", "tmp"}
  BY DEF ReportTypeOK
<1>2. desk \in [PHosts -> Desks]
  BY <1>1 DEF ReportTypeOK, Desks
<1>3. runs \in Nat
  BY ReportConstants DEF ReportTypeOK
<1> QED
  BY <1>1, <1>2, <1>3, ReportConstants DEF ReportTypeOK

LEMMA ReportTypes ==
  ASSUME places' \in PPlaces, plain' \in [{"json", "tmp"} -> {"none", "whole", "torn"}],
         reportFile' \in FileStates, reportTmp' \in FileStates, desk' \in [PHosts -> Desks],
         holder' \in PHosts \cup {PNoHost},
         report'.says \subseteq DOMAIN report'.label, report'.listed \subseteq PFacts,
         runs' \in 0..PMaxRuns, pstarts' \in 0..PMaxStarts, mixed' \in BOOLEAN
  PROVE  ReportTypeOK'
<1>1. DOMAIN plain' = {"json", "tmp"}
  OBVIOUS
<1> QED
  BY <1>1 DEF ReportTypeOK, Desks

LEMMA OffDesk ==
  /\ Off \in Desks /\ Off.at = "off" /\ Off.todo = {} /\ Off.fd = "closed"
  /\ Nothing.says = {} /\ Nothing.listed = {}
<1>1. Off \in Desks /\ Off.at = "off" /\ Off.todo = {} /\ Off.fd = "closed"
  BY ReportConstants DEF Off, Desks
<1>2. Nothing.says = {} /\ Nothing.listed = {}
  BY DEF Nothing
<1> QED
  BY <1>1, <1>2

LEMMA ReportStarts == ReportInit => ReportInv
<1> SUFFICES ASSUME ReportInit PROVE ReportInv
  OBVIOUS
<1>0. /\ plain \in [{"json", "tmp"} -> {"none", "whole", "torn"}] /\ places \in PPlaces
      /\ reportFile = Missing /\ reportTmp = Missing /\ desk = [h \in PHosts |-> Off]
      /\ holder = PNoHost /\ report = Nothing /\ runs = 0 /\ pstarts = 0 /\ mixed = FALSE
  BY DEF ReportInit
<1>1. ReportTypeOK
  <2>1. DOMAIN plain = {"json", "tmp"}
    BY <1>0
  <2>2. desk \in [PHosts -> Desks]
    BY <1>0, OffDesk
  <2>3. /\ reportFile \in FileStates /\ reportTmp \in FileStates /\ holder \in PHosts \cup {PNoHost}
        /\ report.says \subseteq DOMAIN report.label /\ report.listed \subseteq PFacts
        /\ runs \in 0..PMaxRuns /\ pstarts \in 0..PMaxStarts
    BY <1>0, OffDesk, ReportConstants
  <2>4. mixed \in BOOLEAN
    BY <1>0
  <2> QED
    BY <1>0, <2>1, <2>2, <2>3, <2>4 DEF ReportTypeOK, Desks
<1>2. DesksInOrder
  BY <1>0, OffDesk, ReportConstants DEF DesksInOrder
<1>3. OneWriter
  BY <1>0, OffDesk, ReportConstants DEF OneWriter
<1> QED
  BY <1>1, <1>2, <1>3 DEF ReportInv

-----------------------------------------------------------------------------
\* The steps of one process.

LEMMA DeskPut ==
  ASSUME ReportTypeOK, NEW h \in PHosts, NEW next \in Desks, desk' = [desk EXCEPT ![h] = next]
  PROVE  /\ desk' \in [PHosts -> Desks] /\ desk'[h] = next
         /\ \A k \in PHosts : k # h => desk'[k] = desk[k]
  BY ReportTyped

\* The temporary file is opened by one who has something to write.
LEMMA OpenKeeps ==
  ASSUME ReportInv, NEW h \in PHosts, NEW next \in Desks, OpenTemporary(h, next),
         IF next.todo = {}
         THEN /\ next.bytes = ReportOfGen(2 + runs) /\ holder = h
              /\ ~ mixed => reportFile.gen < 2 + runs
         ELSE next.bytes.gen <= 2,
         report'.says \subseteq DOMAIN report'.label, report'.listed \subseteq PFacts,
         UNCHANGED <<places, plain, holder, runs, pstarts>>
  PROVE  ReportInv'
<1> DEFINE r == [next EXCEPT !.at = "opened", !.fd = "tmp"]
<1>0. ReportTypeOK /\ DesksInOrder /\ OneWriter
  BY DEF ReportInv
<1>1. r \in Desks /\ r.at = "opened" /\ r.fd = "tmp" /\ r.todo = next.todo /\ r.bytes = next.bytes
  BY DEF Desks
<1>2. /\ desk' = [desk EXCEPT ![h] = r] /\ reportTmp' = Broken /\ reportFile' = reportFile
      /\ mixed' = (mixed \/ OpenSpare(h) # {})
  BY DEF OpenTemporary
<1> HIDE DEF r
<1>3. /\ desk' \in [PHosts -> Desks] /\ desk'[h] = r
      /\ \A k \in PHosts : k # h => desk'[k] = desk[k]
  BY <1>0, <1>1, <1>2, DeskPut
<1>4. ReportTypeOK'
  <2>1. mixed' \in BOOLEAN
    BY <1>2
  <2>2. reportTmp' \in FileStates
    BY <1>2, ReportConstants
  <2> QED
    BY <1>0, <1>2, <1>3, <2>1, <2>2, ReportTyped, ReportTypes
<1>5. DesksInOrder'
  BY <1>0, <1>1, <1>3, ReportTyped DEF DesksInOrder
<1>6. OneWriter'
  <2>1. SUFFICES ASSUME ~ mixed' PROVE OneWriter'
    BY DEF OneWriter
  <2>2. ~ mixed /\ \A k \in PHosts : k # h => desk[k].fd # "tmp"
    BY <1>2, <2>1 DEF OpenSpare
  <2>3. \A k \in PHosts : k # h => desk'[k].fd = "closed" /\ desk'[k].at \notin {"opened", "written"}
    BY <1>0, <1>3, <2>2 DEF OneWriter, DesksInOrder
  <2> QED
    BY <1>0, <1>1, <1>2, <1>3, <2>2, <2>3 DEF OneWriter
<1> QED
  BY <1>4, <1>5, <1>6 DEF ReportInv

\* A process comes to another step, without the file.
LEMMA MoveKeeps ==
  ASSUME ReportInv, NEW h \in PHosts, NEW next \in Desks, desk' = [desk EXCEPT ![h] = next],
         next.fd = "closed", next.at \notin {"opened", "written", "generated"},
         next.at \in {"off", "up", "settled"} => next.todo = {},
         next.at = "settled" => holder = h,
         plain' \in [{"json", "tmp"} -> {"none", "whole", "torn"}],
         pstarts' \in 0..PMaxStarts,
         \/ UNCHANGED <<holder, report>>
         \/ holder = h /\ holder' = PNoHost /\ report' = Nothing /\ next.at # "settled",
         UNCHANGED <<places, reportFile, reportTmp, runs, mixed>>
  PROVE  ReportInv'
<1>0. ReportTypeOK /\ DesksInOrder /\ OneWriter
  BY DEF ReportInv
<1>1. /\ desk' \in [PHosts -> Desks] /\ desk'[h] = next
      /\ \A k \in PHosts : k # h => desk'[k] = desk[k]
  BY <1>0, DeskPut
<1>2. ReportTypeOK'
  BY <1>0, <1>1, OffDesk, ReportTyped, ReportTypes
<1>3. DesksInOrder'
  BY <1>0, <1>1, ReportConstants DEF DesksInOrder
<1>4. OneWriter'
  BY <1>0, <1>1 DEF OneWriter
<1> QED
  BY <1>2, <1>3, <1>4 DEF ReportInv

LEMMA PastKeeps ==
  ASSUME ReportInv, NEW h \in PHosts, NEW e, Past(h, e),
         plain' \in [{"json", "tmp"} -> {"none", "whole", "torn"}],
         UNCHANGED <<places, reportFile, reportTmp, holder, report, runs, pstarts, mixed>>
  PROVE  ReportInv'
<1> DEFINE left == desk[h].todo \ {e}
           next == [Off EXCEPT !.at = IF left = {} THEN "up" ELSE "next", !.todo = left]
<1>0. desk[h] \in Desks /\ pstarts' \in 0..PMaxStarts
  BY ReportTyped DEF ReportInv
<1>1. left \in SUBSET {"json", "tmp"}
  BY <1>0 DEF Desks
<1>2. next \in Desks /\ next.fd = "closed" /\ next.at = (IF left = {} THEN "up" ELSE "next") /\ next.todo = left
  BY <1>1, OffDesk DEF Desks
<1>3. desk' = [desk EXCEPT ![h] = next]
  BY DEF Past
<1> HIDE DEF next, left
<1> QED
  BY <1>0, <1>2, <1>3, MoveKeeps

LEMMA StartKeeps ==
  ASSUME ReportInv, NEW h \in PHosts, Start(h)
  PROVE  ReportInv'
<1> DEFINE found == {e \in DOMAIN plain : plain[e] # "none"}
           next == [Off EXCEPT !.at = IF found = {} THEN "up" ELSE "next", !.todo = found]
<1>0. ReportTypeOK /\ DOMAIN plain = {"json", "tmp"}
  BY ReportTyped DEF ReportInv
<1>1. next \in Desks /\ next.fd = "closed" /\ next.at = (IF found = {} THEN "up" ELSE "next") /\ next.todo = found
  BY <1>0, OffDesk DEF Desks
<1>2. /\ desk' = [desk EXCEPT ![h] = next] /\ pstarts < PMaxStarts /\ pstarts' = pstarts + 1
      /\ UNCHANGED <<places, plain, reportFile, reportTmp, holder, report, runs, mixed>>
  BY DEF Start
<1> HIDE DEF found, next
<1>3. pstarts' \in 0..PMaxStarts /\ plain' \in [{"json", "tmp"} -> {"none", "whole", "torn"}]
  BY <1>0, <1>2, ReportTyped, ReportConstants
<1> QED
  BY <1>1, <1>2, <1>3, MoveKeeps

LEMMA MigrateKeeps ==
  ASSUME ReportInv, NEW h \in PHosts, MigrateEntry(h)
  PROVE  ReportInv'
<1>0. ReportTypeOK /\ desk[h] \in Desks
  BY ReportTyped DEF ReportInv
<1>1. PICK e \in desk[h].todo :
        \/ plain[e] # "none" /\ OpenTemporary(h, [desk[h] EXCEPT !.entry = e, !.bytes = BytesOf(e)])
        \/ Past(h, e) /\ UNCHANGED <<reportFile, reportTmp, mixed>>
  BY DEF MigrateEntry
<1>2. UNCHANGED <<places, plain, holder, report, runs, pstarts>>
  BY DEF MigrateEntry
<1>3. CASE OpenTemporary(h, [desk[h] EXCEPT !.entry = e, !.bytes = BytesOf(e)])
  <2> DEFINE next == [desk[h] EXCEPT !.entry = e, !.bytes = BytesOf(e)]
  <2>1. BytesOf(e) \in FileStates /\ BytesOf(e).gen <= 2
    <3>1. 1 \in 1..(2 + PMaxRuns) /\ 2 \in 1..(2 + PMaxRuns)
      BY ReportConstants
    <3> QED
      BY <3>1, ReportConstants DEF BytesOf
  <2>2. next \in Desks /\ next.todo # {} /\ next.bytes = BytesOf(e)
    BY <1>0, <1>1, <2>1 DEF Desks
  <2>3. OpenTemporary(h, next)
    BY <1>3
  <2> HIDE DEF next
  <2> QED
    BY <1>0, <1>2, <2>1, <2>2, <2>3, OpenKeeps, ReportTyped
<1>4. CASE Past(h, e) /\ UNCHANGED <<reportFile, reportTmp, mixed>>
  BY <1>0, <1>2, <1>4, PastKeeps, ReportTyped
<1> QED
  BY <1>1, <1>3, <1>4

LEMMA RemoveKeeps ==
  ASSUME ReportInv, NEW h \in PHosts, RemovePlain(h)
  PROVE  ReportInv'
<1>1. plain' \in [{"json", "tmp"} -> {"none", "whole", "torn"}]
  BY ReportTyped DEF ReportInv, RemovePlain
<1> QED
  BY <1>1, PastKeeps DEF RemovePlain

LEMMA GenerateKeeps ==
  ASSUME ReportInv, NEW h \in PHosts, Generate(h)
  PROVE  ReportInv'
<1>0. ReportTypeOK /\ DesksInOrder /\ OneWriter /\ holder = PNoHost
      /\ runs \in Nat /\ runs' = runs + 1 /\ runs < PMaxRuns /\ runs' \in 0..PMaxRuns
      /\ UNCHANGED <<places, plain, reportFile, reportTmp, pstarts, mixed>>
  BY ReportTyped, ReportConstants DEF ReportInv, Generate
<1>1. \A k \in PHosts : ~ (\/ desk[k].at \in {"generated", "settled"}
                           \/ desk[k].at \in {"opened", "written"} /\ desk[k].todo = {})
  BY <1>0, ReportConstants DEF DesksInOrder
<1>2. PICK F \in PListings :
        IF F = {} THEN UNCHANGED <<desk, holder, report>>
        ELSE /\ holder' = h /\ desk' = [desk EXCEPT ![h].at = "generated"]
             /\ \E label \in Labellings(F) : report' = ReportOf(F, label)
  BY DEF Generate
<1>3. reportFile.gen \in Nat /\ reportFile'.gen \in Nat
  BY <1>0, ReportTyped
<1>4. CASE F = {}
  <2>1. UNCHANGED <<desk, holder, report>>
    BY <1>2, <1>4
  <2>2. ReportTypeOK'
    BY <1>0, <2>1, ReportTyped, ReportTypes
  <2>3. DesksInOrder'
    BY <1>0, <1>1, <2>1, ReportConstants DEF DesksInOrder
  <2>4. OneWriter'
    BY <1>0, <1>1, <1>3, <2>1 DEF OneWriter
  <2> QED
    BY <2>2, <2>3, <2>4 DEF ReportInv
<1>5. CASE F # {}
  <2> DEFINE next == [desk[h] EXCEPT !.at = "generated"]
  <2>0. desk[h] \in Desks /\ desk[h].at = "up" /\ desk[h].todo = {} /\ desk[h].fd = "closed"
    BY <1>0, ReportTyped DEF DesksInOrder, Generate
  <2>1. next \in Desks /\ next.at = "generated" /\ next.todo = {} /\ next.fd = "closed"
    BY <2>0 DEF Desks
  <2>2. holder' = h /\ desk' = [desk EXCEPT ![h] = next]
    BY <1>2, <1>5
  <2>3. PICK label \in Labellings(F) : report' = ReportOf(F, label)
    BY <1>2, <1>5
  <2> HIDE DEF next
  <2>4. /\ desk' \in [PHosts -> Desks] /\ desk'[h] = next
        /\ \A k \in PHosts : k # h => desk'[k] = desk[k]
    BY <1>0, <2>1, <2>2, DeskPut
  <2>5. report'.says \subseteq DOMAIN report'.label /\ report'.listed \subseteq PFacts
    BY <2>3, ReportConstants DEF ReportOf
  <2>6. ReportTypeOK'
    BY <1>0, <2>2, <2>4, <2>5, ReportTyped, ReportTypes
  <2>7. DesksInOrder'
    BY <1>0, <1>1, <2>1, <2>2, <2>4, ReportConstants DEF DesksInOrder
  <2>8. OneWriter'
    BY <1>0, <1>1, <1>3, <2>1, <2>4 DEF OneWriter
  <2> QED
    BY <2>6, <2>7, <2>8 DEF ReportInv
<1> QED
  BY <1>4, <1>5

LEMMA WriteReportKeeps ==
  ASSUME ReportInv, NEW h \in PHosts, WriteReport(h)
  PROVE  ReportInv'
<1> DEFINE next == [desk[h] EXCEPT !.bytes = ReportOfGen(2 + runs)]
<1>0. ReportTypeOK /\ DesksInOrder /\ OneWriter /\ desk[h] \in Desks /\ desk[h].at = "generated"
      /\ runs \in 0..PMaxRuns
  BY ReportTyped DEF ReportInv, WriteReport
<1>1. desk[h].todo = {} /\ holder = h /\ (~ mixed => reportFile.gen < 2 + runs)
  BY <1>0 DEF DesksInOrder, OneWriter
<1>2. ReportOfGen(2 + runs) \in FileStates
  <2>1. 2 + runs \in 1..(2 + PMaxRuns)
    BY <1>0, ReportConstants
  <2> QED
    BY <2>1, ReportConstants
<1>3. next \in Desks /\ next.todo = {} /\ next.bytes = ReportOfGen(2 + runs)
  BY <1>0, <1>1, <1>2 DEF Desks
<1>4. OpenTemporary(h, next) /\ report' = Nothing /\ UNCHANGED <<places, plain, holder, runs, pstarts>>
  BY DEF WriteReport
<1> HIDE DEF next
<1>5. report'.says \subseteq DOMAIN report'.label /\ report'.listed \subseteq PFacts
  BY <1>4, OffDesk
<1> QED
  BY <1>1, <1>3, <1>4, <1>5, OpenKeeps

LEMMA EndRunKeeps ==
  ASSUME ReportInv, NEW h \in PHosts, EndRun(h)
  PROVE  ReportInv'
<1> DEFINE next == [Off EXCEPT !.at = "up"]
<1>0. ReportTypeOK /\ DesksInOrder
  BY DEF ReportInv
<1>1. next \in Desks /\ next.at = "up" /\ next.fd = "closed" /\ next.todo = {}
  BY OffDesk DEF Desks
<1>2. /\ desk' = [desk EXCEPT ![h] = next] /\ holder' = PNoHost /\ report' = Nothing
      /\ UNCHANGED <<places, plain, reportFile, reportTmp, runs, pstarts, mixed>>
  BY DEF EndRun
<1>3. holder = h
  BY <1>0 DEF EndRun, DesksInOrder
<1> HIDE DEF next
<1> QED
  BY <1>0, <1>1, <1>2, <1>3, MoveKeeps, ReportTyped

LEMMA KillKeeps ==
  ASSUME ReportInv, NEW h \in PHosts, Kill(h)
  PROVE  ReportInv'
<1>0. ReportTypeOK
  BY DEF ReportInv
<1>1. /\ desk' = [desk EXCEPT ![h] = Off]
      /\ holder' = IF holder = h THEN PNoHost ELSE holder
      /\ report' = IF holder = h THEN Nothing ELSE report
      /\ UNCHANGED <<places, plain, reportFile, reportTmp, runs, pstarts, mixed>>
  BY DEF Kill
<1> QED
  BY <1>0, <1>1, MoveKeeps, OffDesk, ReportTyped

LEMMA SettledDesk ==
  ASSUME ReportInv, NEW h \in PHosts, desk[h].at \in {"opened", "written"}
  PROVE  /\ Settled(h) \in Desks /\ Settled(h).fd = "closed" /\ Settled(h).todo = desk[h].todo
         /\ Settled(h).at \in {"remove", "settled"}
         /\ Settled(h).at = "settled" => desk[h].todo = {} /\ holder = h
<1>0. desk[h] \in Desks /\ DesksInOrder
  BY ReportTyped DEF ReportInv
<1>1. desk[h].todo = {} => holder = h
  BY <1>0 DEF DesksInOrder
<1>2. /\ Settled(h) \in Desks /\ Settled(h).fd = "closed" /\ Settled(h).todo = desk[h].todo
      /\ Settled(h).at = IF desk[h].todo # {} THEN "remove" ELSE "settled"
  BY <1>0 DEF Settled, Desks
<1> QED
  BY <1>1, <1>2

LEMMA WriteFailsKeeps ==
  ASSUME ReportInv, NEW h \in PHosts, WriteFails(h)
  PROVE  ReportInv'
<1>0. ReportTypeOK
  BY DEF ReportInv
<1>1. /\ desk' = [desk EXCEPT ![h] = Settled(h)] /\ desk[h].at \in {"opened", "written"}
      /\ UNCHANGED <<places, plain, reportFile, reportTmp, holder, report, runs, pstarts, mixed>>
  BY DEF WriteFails
<1> QED
  BY <1>0, <1>1, SettledDesk, MoveKeeps, ReportTyped

LEMMA BytesKeep ==
  ASSUME ReportInv, NEW h \in PHosts, WriteBytes(h)
  PROVE  ReportInv' /\ (~ mixed => reportFile' = reportFile)
<1> DEFINE next == [desk[h] EXCEPT !.at = "written"]
<1>0. ReportTypeOK /\ DesksInOrder /\ OneWriter /\ desk[h] \in Desks /\ desk[h].at = "opened"
      /\ desk[h].bytes \in FileStates
  BY ReportTyped DEF ReportInv, WriteBytes, Desks
<1>1. /\ next \in Desks /\ next.at = "written" /\ next.todo = desk[h].todo
      /\ next.bytes = desk[h].bytes /\ next.fd = desk[h].fd
  BY <1>0 DEF Desks
<1>2. /\ desk' = [desk EXCEPT ![h] = next]
      /\ UNCHANGED <<places, plain, holder, report, runs, pstarts, mixed>>
  BY DEF WriteBytes
<1> HIDE DEF next
<1>3. /\ desk' \in [PHosts -> Desks] /\ desk'[h] = next
      /\ \A k \in PHosts : k # h => desk'[k] = desk[k]
  BY <1>0, <1>1, <1>2, DeskPut
<1>4. reportFile' \in FileStates /\ reportTmp' \in FileStates
  BY <1>0, ReportTyped, ReportConstants DEF WriteBytes, Land
<1>5. ReportTypeOK'
  BY <1>0, <1>2, <1>3, <1>4, ReportTyped, ReportTypes
<1>6. DesksInOrder'
  BY <1>0, <1>1, <1>2, <1>3 DEF DesksInOrder
<1>7. ASSUME ~ mixed
      PROVE  /\ reportFile' = reportFile /\ reportTmp' = desk[h].bytes
             /\ \A k \in PHosts : k # h => desk[k].at \notin {"opened", "written"}
  <2>1. desk[h].fd = "tmp" /\ reportTmp = Broken
    BY <1>0, <1>7 DEF OneWriter, DesksInOrder
  <2>2. reportFile' = reportFile /\ reportTmp' = desk[h].bytes
    BY <2>1 DEF WriteBytes, Land
  <2>3. ASSUME NEW k \in PHosts, k # h PROVE desk[k].at \notin {"opened", "written"}
    BY <1>0, <1>7, <2>1, <2>3 DEF OneWriter, DesksInOrder
  <2> QED
    BY <2>2, <2>3
<1>8. OneWriter'
  <2>1. SUFFICES ASSUME ~ mixed PROVE OneWriter'
    BY <1>2 DEF OneWriter
  <2> QED
    BY <1>0, <1>1, <1>2, <1>3, <1>7, <2>1 DEF OneWriter
<1> QED
  BY <1>5, <1>6, <1>7, <1>8 DEF ReportInv

\* The rename: alone on the temporary file, a process puts its own bytes in place.
LEMMA RenameKeeps ==
  ASSUME ReportInv, NEW h \in PHosts, RenameReport(h)
  PROVE  /\ ReportInv'
         /\ ~ mixed => /\ reportFile' = desk[h].bytes
                       /\ desk[h].todo = {} => /\ reportFile'.kind = "whole"
                                               /\ reportFile'.gen > reportFile.gen
<1>0. ReportTypeOK /\ DesksInOrder /\ OneWriter /\ desk[h] \in Desks /\ desk[h].at = "written"
      /\ reportFile.gen \in Nat /\ runs \in Nat
  BY ReportTyped DEF ReportInv, RenameReport
<1>1. /\ reportFile' = reportTmp /\ reportTmp' = Missing /\ desk' = AfterRename(h)
      /\ UNCHANGED <<places, plain, holder, report, runs, pstarts, mixed>>
  BY DEF RenameReport
<1>2. /\ Settled(h) \in Desks /\ Settled(h).fd = "closed" /\ Settled(h).todo = desk[h].todo
      /\ Settled(h).at \in {"remove", "settled"}
      /\ Settled(h).at = "settled" => desk[h].todo = {} /\ holder = h
  BY <1>0, SettledDesk
<1>3. desk'[h] = Settled(h)
  BY <1>1 DEF AfterRename
<1>4. ASSUME NEW k \in PHosts, k # h
      PROVE  /\ desk'[k] \in Desks /\ desk'[k].at = desk[k].at /\ desk'[k].todo = desk[k].todo
             /\ desk'[k].bytes = desk[k].bytes /\ (desk'[k].fd = "closed" <=> desk[k].fd = "closed")
  <2>1. desk[k] \in Desks
    BY <1>0, ReportTyped
  <2> DEFINE new == CASE desk[k].fd = "tmp" -> "final"
                      [] desk[k].fd = "final" -> "gone"
                      [] OTHER -> desk[k].fd
  <2>2. new \in {"closed", "final", "gone"} /\ (new = "closed" <=> desk[k].fd = "closed")
    BY <2>1 DEF Desks
  <2>3. desk'[k] = [desk[k] EXCEPT !.fd = new]
    BY <1>1, <1>4 DEF AfterRename
  <2> HIDE DEF new
  <2> QED
    BY <2>1, <2>2, <2>3 DEF Desks
<1>5. desk' \in [PHosts -> Desks]
  <2>1. desk' = [k \in PHosts |-> desk'[k]]
    BY <1>1 DEF AfterRename
  <2> QED
    BY <1>2, <1>3, <1>4, <2>1
<1>6. ReportTypeOK'
  BY <1>0, <1>1, <1>5, ReportTyped, ReportConstants, ReportTypes
<1>7. DesksInOrder'
  BY <1>0, <1>1, <1>2, <1>3, <1>4 DEF DesksInOrder
<1>8. ASSUME ~ mixed
      PROVE  /\ reportFile' = desk[h].bytes
             /\ \A k \in PHosts : k # h => desk[k].at \notin {"opened", "written"} /\ desk[k].fd = "closed"
             /\ IF desk[h].todo = {} THEN /\ holder = h /\ reportFile'.kind = "whole"
                                          /\ reportFile'.gen = 2 + runs
                                          /\ reportFile.gen < 2 + runs
                ELSE reportFile'.gen <= 2
  <2>1. desk[h].fd = "tmp" /\ reportTmp = desk[h].bytes
    BY <1>0, <1>8 DEF OneWriter, DesksInOrder
  <2>2. ASSUME NEW k \in PHosts, k # h
        PROVE  desk[k].at \notin {"opened", "written"} /\ desk[k].fd = "closed"
    BY <1>0, <1>8, <2>1, <2>2 DEF OneWriter, DesksInOrder
  <2>3. IF desk[h].todo = {} THEN desk[h].bytes = ReportOfGen(2 + runs) /\ holder = h
        ELSE desk[h].bytes.gen <= 2
    BY <1>0 DEF DesksInOrder
  <2>4. desk[h].todo = {} => reportFile.gen < 2 + runs
    BY <1>0, <1>8 DEF OneWriter
  <2>5. 2 + runs \in Nat
    BY <1>0
  <2> QED
    BY <1>1, <2>1, <2>2, <2>3, <2>4, <2>5, ReportConstants
<1>9. OneWriter'
  <2>1. SUFFICES ASSUME ~ mixed PROVE OneWriter'
    BY <1>1 DEF OneWriter
  <2>2. reportFile'.gen \in Nat
    BY <1>6, ReportConstants DEF ReportTypeOK
  <2>3. reportFile'.gen <= 2 + runs'
    BY <1>0, <1>1, <1>8, <2>1, <2>2
  <2>4. ASSUME NEW k \in PHosts, desk'[k].at = "generated"
        PROVE  reportFile'.gen < 2 + runs'
    <3>1. k # h /\ desk[k].at = "generated"
      BY <1>2, <1>3, <1>4, <2>4
    <3>2. holder = k /\ runs > 0 /\ desk[h].todo # {}
      BY <1>0, <3>1 DEF DesksInOrder
    <3> QED
      BY <1>0, <1>1, <1>8, <2>1, <2>2, <3>2
  <2>5. \A k \in PHosts : desk'[k].fd = "closed" /\ desk'[k].at \notin {"opened", "written"}
    BY <1>2, <1>3, <1>4, <1>8, <2>1
  <2> QED
    BY <2>3, <2>4, <2>5 DEF OneWriter
<1>10. ~ mixed => /\ reportFile' = desk[h].bytes
                  /\ desk[h].todo = {} => reportFile'.kind = "whole" /\ reportFile'.gen > reportFile.gen
  BY <1>0, <1>8
<1> QED
  BY <1>6, <1>7, <1>9, <1>10 DEF ReportInv

-----------------------------------------------------------------------------
LEMMA ReportStep == ReportInv /\ [ReportNext]_reportVars => ReportInv'
<1> SUFFICES ASSUME ReportInv, [ReportNext]_reportVars PROVE ReportInv'
  OBVIOUS
<1>1. CASE ReportNext
  BY <1>1, StartKeeps, MigrateKeeps, RemoveKeeps, GenerateKeeps, WriteReportKeeps, EndRunKeeps,
     BytesKeep, RenameKeeps, WriteFailsKeeps, KillKeeps DEF ReportNext
<1>2. CASE UNCHANGED reportVars
  BY <1>2 DEF reportVars, ReportInv, ReportTypeOK, DesksInOrder, OneWriter
<1> QED
  BY <1>1, <1>2

LEMMA ReportInvariant == ReportSpec => []ReportInv
  BY ReportStarts, ReportStep, PTL DEF ReportSpec

\* The step of ReportsMoveForward.
MovesForward ==
  reportFile' # reportFile =>
    \/ mixed
    \/ /\ reportFile'.kind = "whole" /\ reportFile'.gen > reportFile.gen
    \/ \E h \in PHosts : desk[h].todo # {} /\ reportFile' = desk[h].bytes

LEMMA StepForward == ReportInv /\ [ReportNext]_reportVars => MovesForward
<1> SUFFICES ASSUME ReportInv, [ReportNext]_reportVars, reportFile' # reportFile PROVE MovesForward
  BY DEF MovesForward
<1>1. \E h \in PHosts : WriteBytes(h) \/ RenameReport(h)
  BY DEF ReportNext, reportVars, Start, MigrateEntry, OpenTemporary, RemovePlain, Generate,
         WriteReport, EndRun, WriteFails, Kill
<1>2. ASSUME NEW h \in PHosts, WriteBytes(h) PROVE mixed
  BY <1>2, BytesKeep
<1>3. ASSUME NEW h \in PHosts, RenameReport(h), ~ mixed
      PROVE  \/ reportFile'.kind = "whole" /\ reportFile'.gen > reportFile.gen
             \/ desk[h].todo # {} /\ reportFile' = desk[h].bytes
  BY <1>3, RenameKeeps
<1> QED
  BY <1>1, <1>2, <1>3 DEF MovesForward

\* What a read finds under the REPORT's name is replaced by a whole and newer REPORT
\* only, whichever step a process dies at, an old file's and a shared temporary
\* file apart.
THEOREM ReportsGoForward == ReportSpec => ReportsMoveForward
<1>1. ReportInv /\ [ReportNext]_reportVars => [MovesForward]_reportVars
  BY StepForward
<1>2. ReportSpec => [][MovesForward]_reportVars
  BY <1>1, ReportInvariant, PTL DEF ReportSpec
<1> QED
  BY <1>2 DEF ReportsMoveForward, MovesForward

-----------------------------------------------------------------------------
\* What the REPORT says.

\* A set of natural numbers has a least element, a finite one a greatest.
LEMMA LeastOf ==
  ASSUME NEW S \in SUBSET Nat, S # {}
  PROVE  \E x \in S : \A y \in S : x <= y
<1>1. IsWellFoundedOn(OpToRel(<, Nat), Nat)
  BY NatLessThanWellFounded
<1>2. PICK x \in S : \A y \in S : <<y, x>> \notin OpToRel(<, Nat)
  BY <1>1, WFMin
<1>3. \A y \in S : ~ (y < x)
  BY <1>2 DEF OpToRel
<1> QED
  BY <1>3

LEMMA MinIsLeast ==
  ASSUME NEW S \in SUBSET Nat, S # {}
  PROVE  Min(S) \in S /\ \A y \in S : Min(S) <= y
  BY LeastOf DEF Min

LEMMA GreatestOf ==
  ASSUME NEW S \in SUBSET Nat, S # {}, IsFiniteSet(S)
  PROVE  \E x \in S : \A y \in S : y <= x
<1> DEFINE above(x) == {y \in S : y > x}
<1>1. ASSUME NEW x \in S
      PROVE  IsFiniteSet(above(x)) /\ Cardinality(above(x)) \in Nat
  BY FS_Subset, FS_CardinalityType
<1>2. PICK x \in S : \A y \in S : Cardinality(above(x)) <= Cardinality(above(y))
  <2> DEFINE sizes == {Cardinality(above(y)) : y \in S}
  <2>1. sizes \in SUBSET Nat /\ sizes # {}
    BY <1>1
  <2>2. PICK n \in sizes : \A m \in sizes : n <= m
    BY <2>1, LeastOf
  <2> QED
    BY <2>2
<1>3. ASSUME NEW y \in S, y > x PROVE FALSE
  <2>0. x \in Nat /\ y \in Nat /\ \A z \in S : z \in Nat
    OBVIOUS
  <2>1. above(y) \in SUBSET above(x) /\ y \in above(x) /\ y \notin above(y)
    <3>1. \A z \in S : z > y => z > x
      BY <1>3, <2>0
    <3>2. ~ (y > y)
      BY <2>0
    <3> QED
      BY <1>3, <3>1, <3>2
  <2>2. Cardinality(above(y)) <= Cardinality(above(x)) /\ Cardinality(above(x)) # Cardinality(above(y))
    BY <1>1, <2>1, FS_Subset
  <2> QED
    BY <1>1, <1>2, <2>2
<1> QED
  BY <1>3

\* The components of a graph on F cover it and do not overlap.
LEMMA ComponentsPartition ==
  ASSUME NEW F
  PROVE  /\ \A T \in Components(F) : T \subseteq F /\ T # {}
         /\ \A i \in F : \E T \in Components(F) : i \in T
         /\ \A T, U \in Components(F) : T = U \/ T \cap U = {}
<1> DEFINE edges == TopicEdges(F)
           closed == {S \in SUBSET F : \A e \in edges : e \cap S # {} => e \subseteq S}
           reach(i) == {j \in F : \A S \in closed : i \in S => j \in S}
<1>0. Components(F) = {reach(i) : i \in F}
  BY DEF Components
<1>1. \A e \in edges : e \subseteq F
  BY DEF TopicEdges
<1> HIDE DEF edges
<1>2. \A S \in closed : F \ S \in closed
  <2>1. SUFFICES ASSUME NEW S \in closed, NEW e \in edges, e \cap (F \ S) # {} PROVE e \subseteq F \ S
    OBVIOUS
  <2>2. e \cap S = {}
    BY <2>1
  <2> QED
    BY <1>1, <2>2
<1>3. \A i \in F : i \in reach(i)
  OBVIOUS
<1>4. ASSUME NEW i \in F, NEW j \in F, j \in reach(i)
      PROVE  reach(j) = reach(i)
  <2>1. \A S \in closed : i \in S => j \in S
    BY <1>4
  <2>2. \A S \in closed : j \in S => i \in S
    <3>1. SUFFICES ASSUME NEW S \in closed, j \in S, i \notin S PROVE FALSE
      OBVIOUS
    <3>2. F \ S \in closed /\ i \in F \ S /\ j \notin F \ S
      BY <1>2, <3>1
    <3> QED
      BY <2>1, <3>2
  <2> QED
    BY <2>1, <2>2
<1> HIDE DEF closed, reach
<1>5. \A T \in Components(F) : T \subseteq F /\ T # {}
  BY <1>0, <1>3 DEF reach
<1>6. ASSUME NEW T \in Components(F), NEW U \in Components(F), T \cap U # {}
      PROVE  T = U
  <2>1. PICK i \in F, j \in F : T = reach(i) /\ U = reach(j)
    BY <1>0
  <2>2. PICK k \in F : k \in reach(i) /\ k \in reach(j)
    BY <1>5, <1>6, <2>1
  <2> QED
    BY <1>4, <2>1, <2>2
<1> QED
  BY <1>0, <1>3, <1>5, <1>6

LEMMA TopicsPartition ==
  ASSUME NEW F, F # {}
  PROVE  /\ \A T \in Topics(F) : T \subseteq F /\ T # {}
         /\ \A i \in F : \E T \in Topics(F) : i \in T
         /\ \A T, U \in Topics(F) : T = U \/ T \cap U = {}
  BY ComponentsPartition DEF Topics

\* What ReportComplete asks, of any REPORT.
Complete(r) ==
  /\ \A f \in r.listed \ UNION r.says :
       \E T \in DOMAIN r.label, U \in r.says : f \in T /\ T # U /\ r.label[T] = r.label[U]
  /\ \A T, U \in r.says : T = U \/ T \cap U = {}
  /\ \A T \in r.says : r.label[T][1] = "topic" => r.fallback

\* Whatever the topics are called, what is left out was overwritten by its namesake.
LEMMA ReportSaysAll ==
  ASSUME NEW F \in SUBSET PFacts, F # {}, NEW label, DOMAIN label = Topics(F)
  PROVE  Complete(ReportOf(F, label))
<1> DEFINE r == ReportOf(F, label)
<1>0. /\ r.label = label /\ r.listed = F
      /\ r.says = {T \in Topics(F) : \A U \in Topics(F) : label[U] = label[T] => Min(U) <= Min(T)}
      /\ r.fallback = (\E T \in Topics(F) : label[T][1] = "topic")
  BY DEF ReportOf
<1> HIDE DEF r
<1>1. F \in SUBSET Nat /\ IsFiniteSet(F)
  BY ReportsAssumption, FS_Subset DEF ReportsAssumption
<1>2. \A T \in Topics(F) : T \subseteq F /\ T # {} /\ Min(T) \in F
  BY <1>1, TopicsPartition, MinIsLeast
<1>3. ASSUME NEW f \in F, f \notin UNION r.says
      PROVE  \E T \in DOMAIN r.label, U \in r.says :
               f \in T /\ T # U /\ r.label[T] = r.label[U]
  <2>1. PICK T \in Topics(F) : f \in T
    BY TopicsPartition
  <2> DEFINE same == {U \in Topics(F) : label[U] = label[T]}
             mins == {Min(U) : U \in same}
  <2>2. mins \in SUBSET F /\ Min(T) \in mins
    BY <1>2
  <2>3. PICK m \in mins : \A n \in mins : n <= m
    BY <1>1, <2>2, GreatestOf, FS_Subset
  <2>4. PICK U \in same : m = Min(U)
    BY <2>3
  <2>5. U \in r.says
    BY <1>0, <2>3, <2>4
  <2> QED
    BY <1>0, <1>3, <2>1, <2>5
<1>4. \A T, U \in r.says : T = U \/ T \cap U = {}
  BY <1>0, TopicsPartition
<1>5. \A T \in r.says : r.label[T][1] = "topic" => r.fallback
  BY <1>0
<1> QED
  BY <1>0, <1>3, <1>4, <1>5 DEF Complete, r

LEMMA LabelsTopics ==
  ASSUME NEW F, F # {}, NEW label \in Labellings(F)
  PROVE  DOMAIN label = Topics(F)
<1>1. CASE Cardinality(F) < 3
  <2>1. label \in {[T \in {F} |-> <<PGeneral, 0>>]}
    BY <1>1 DEF Labellings
  <2>2. DOMAIN label = {F}
    BY <2>1
  <2> QED
    BY <1>1, <2>2 DEF Topics
<1>2. CASE ~ (Cardinality(F) < 3)
  <2>1. PICK names : label \in [Topics(F) -> names]
    BY <1>2 DEF Labellings
  <2> QED
    BY <2>1
<1> QED
  BY <1>1, <1>2

LEMMA ReportStaysComplete == ReportComplete /\ [ReportNext]_reportVars => ReportComplete'
<1> SUFFICES ASSUME Complete(report), [ReportNext]_reportVars PROVE Complete(report')
  BY DEF ReportComplete, Complete
<1>1. report' = report \/ report' = Nothing \/ \E h \in PHosts : Generate(h)
  BY DEF ReportNext, reportVars, Start, MigrateEntry, RemovePlain, WriteReport, EndRun, WriteBytes,
         RenameReport, WriteFails, Kill
<1>2. CASE report' = Nothing
  BY <1>2 DEF Nothing, Complete
<1>3. ASSUME NEW h \in PHosts, Generate(h) PROVE Complete(report')
  <2>1. PICK F \in PListings :
          IF F = {} THEN report' = report
          ELSE \E label \in Labellings(F) : report' = ReportOf(F, label)
    BY <1>3 DEF Generate
  <2>2. F \in SUBSET PFacts
    BY ReportConstants
  <2>3. CASE F = {}
    BY <2>1, <2>3
  <2>4. CASE F # {}
    BY <2>1, <2>2, <2>4, LabelsTopics, ReportSaysAll
  <2> QED
    BY <2>3, <2>4
<1> QED
  BY <1>1, <1>2, <1>3

\* A REPORT names every fact that was in force when its run listed them, and each once,
\* the facts of a topic whose label a later topic got too apart; and a label that is
\* no name is announced.
THEOREM ReportsComplete == ReportSpec => []ReportComplete
<1>1. ReportInit => ReportComplete
  BY DEF ReportInit, ReportComplete, Nothing
<1> QED
  BY <1>1, ReportStaysComplete, PTL DEF ReportSpec
=============================================================================
