------------------------------ MODULE Reports ------------------------------
(***************************************************************************)
(* The REPORT of one boundary: its topics (topics.rs), its file and the    *)
(* migration of the plaintext files of earlier versions (report.rs), who       *)
(* writes them (application.rs) and what a read makes of them              *)
(* (report_io.rs).  The migration runs at every start, without the         *)
(* consolidation lock, and writes the same temporary file as the run.      *)
(*                                                                         *)
(* A file is known by the generation of its REPORT; 1 and 2 are an old     *)
(* version's, the second still under its temporary name.                   *)
(***************************************************************************)
EXTENDS Naturals, FiniteSets, FiniteSetsExt

CONSTANTS
  PFacts,          \* ids, in their order
  PPlaces,         \* where their embeddings may lie
  PListings,       \* the facts that may be in force when a run lists them
  PNear,           \* 1 - TOPIC_NN_SIMILARITY_FLOOR
  PTopK,           \* TOPIC_NN_TOP_K
  PLabels,         \* what the model may answer
  PGeneral,        \* "general"
  PHosts,          \* processes
  PNoHost,
  PMaxRuns, PMaxStarts             \* bounds

ASSUME ReportsAssumption ==
  /\ PFacts \subseteq Nat /\ IsFiniteSet(PFacts)
  /\ PPlaces \subseteq [PFacts -> Nat]
  /\ PNear \in Nat /\ PTopK \in Nat
  /\ PNoHost \notin PHosts /\ PGeneral \notin PLabels
  /\ PListings \subseteq SUBSET PFacts
  /\ PMaxRuns \in Nat /\ PMaxStarts \in Nat

VARIABLES
  places,
  plain,           \* "json" or "tmp" -> the earlier version's file: "none", "whole" or "torn"
  reportFile, reportTmp,   \* <boundary>.report.sealed and its .tmp
  desk,            \* process -> what it is at
  holder,          \* of the consolidation lock
  report,          \* what the run under way has generated, until it is bytes
  runs, pstarts,
  \* history
  mixed            \* two processes had the temporary file open at once

reportVars == <<places, plain, reportFile, reportTmp, desk, holder, report, runs, pstarts,
                mixed>>

Missing == [kind |-> "absent", gen |-> 0]
Broken == [kind |-> "broken", gen |-> 0]       \* does not unseal
Garbled == [kind |-> "garbled", gen |-> 0]     \* unseals, and is not a REPORT
ReportOfGen(g) == [kind |-> "whole", gen |-> g]

Nothing == [says |-> {}, label |-> <<>>, listed |-> {}, fallback |-> FALSE]
Off == [at |-> "off", todo |-> {}, entry |-> "json", bytes |-> Missing, fd |-> "closed"]

FileStates == {Missing, Broken, Garbled} \cup {ReportOfGen(g) : g \in 1..(2 + PMaxRuns)}

ReportTypeOK ==
  /\ places \in PPlaces
  /\ plain \in [{"json", "tmp"} -> {"none", "whole", "torn"}]
  /\ reportFile \in FileStates /\ reportTmp \in FileStates
  /\ desk \in [PHosts -> [at : {"off", "next", "opened", "written", "remove", "up",
                                 "generated", "settled"},
                          todo : SUBSET DOMAIN plain, entry : DOMAIN plain,
                          bytes : FileStates, fd : {"closed", "tmp", "final", "gone"}]]
  /\ holder \in PHosts \cup {PNoHost}
  /\ report.says \subseteq DOMAIN report.label /\ report.listed \subseteq PFacts
  /\ runs \in 0..PMaxRuns /\ pstarts \in 0..PMaxStarts /\ mixed \in BOOLEAN

ReportInit ==
  /\ places \in PPlaces
  /\ plain \in [{"json", "tmp"} -> {"none", "whole", "torn"}] /\ plain["json"] # "torn"
  /\ reportFile = Missing /\ reportTmp = Missing
  /\ desk = [h \in PHosts |-> Off]
  /\ holder = PNoHost
  /\ report = Nothing
  /\ runs = 0 /\ pstarts = 0
  /\ mixed = FALSE

-----------------------------------------------------------------------------
\* discover_topics and generate_report.

Between(i, j) == IF places[i] > places[j] THEN places[i] - places[j]
                 ELSE places[j] - places[i]
Closer(i, a, b) ==
  \/ Between(i, a) < Between(i, b)
  \/ Between(i, a) = Between(i, b) /\ a < b

TopOf(i, F) ==
  {j \in F \ {i} : /\ Between(i, j) <= PNear
                   /\ Cardinality({k \in F \ {i, j} : Closer(i, k, j)}) < PTopK}

\* Each among the other's nearest.
TopicEdges(F) ==
  LET top == [i \in F |-> TopOf(i, F)]
  IN  {{p[1], p[2]} : p \in {q \in F \X F : q[2] \in top[q[1]] /\ q[1] \in top[q[2]]}}

\* The transitive closure of the edges.
Components(F) ==
  LET edges == TopicEdges(F)
      closed == {S \in SUBSET F : \A e \in edges : e \cap S # {} => e \subseteq S}
  IN  {{j \in F : \A S \in closed : i \in S => j \in S} : i \in F}

\* Mutant: a fact without a neighbour is no topic, as phase 1 has it.
TopicsOfMany(F) == {T \in Components(F) : Cardinality(T) > 1}

\* With fewer than three facts there is one topic and the model is not asked.
Topics(F) == IF Cardinality(F) < 3 THEN {F} ELSE Components(F)

\* The topics are numbered by their first fact.  One name for each comes from the model,
\* or is topic_<n> where that fails.
Labellings(F) ==
  LET topics == Topics(F)
      Placeholder(T) == <<"topic", Cardinality({U \in topics : Min(U) < Min(T)})>>
      names == {<<x, 0>> : x \in PLabels} \cup {Placeholder(T) : T \in topics}
  IN  IF Cardinality(F) < 3 THEN {[T \in {F} |-> <<PGeneral, 0>>]}
      ELSE {l \in [topics -> names] : \A T \in topics : l[T][1] = "topic" => l[T] = Placeholder(T)}

\* The facts go into a map by label: of two topics with one label the last stays.
ReportOf(F, label) ==
  LET topics == DOMAIN label
  IN  [says |-> {T \in topics : \A U \in topics : label[U] = label[T] => Min(U) <= Min(T)},
       label |-> label, listed |-> F,
       fallback |-> \E T \in topics : label[T][1] = "topic"]

-----------------------------------------------------------------------------
\* One atomic write, by a run or by a migration: open, write, rename.

OpenSpare(h) == {k \in PHosts : desk[k].fd = "tmp"} \ {h}

\* Mutant: the REPORT is written in place.
OpenInPlace(h, next) ==
  /\ reportFile' = Broken /\ UNCHANGED <<reportTmp, mixed>>
  /\ desk' = [desk EXCEPT ![h] = [next EXCEPT !.at = "opened", !.fd = "final"]]

\* Opening truncates.
OpenTemporary(h, next) ==
  /\ reportTmp' = Broken
  /\ mixed' = (mixed \/ OpenSpare(h) # {})
  /\ desk' = [desk EXCEPT ![h] = [next EXCEPT !.at = "opened", !.fd = "tmp"]]
  /\ UNCHANGED reportFile

\* The bytes go where the open file is now; over another's bytes a tail may remain.
Land(old, bytes) == IF old = Broken THEN {bytes} ELSE {bytes, Broken}

WriteBytes(h) ==
  /\ desk[h].at = "opened"
  /\ desk' = [desk EXCEPT ![h].at = "written"]
  /\ \/ desk[h].fd = "tmp"  /\ reportTmp' \in Land(reportTmp, desk[h].bytes) /\ UNCHANGED reportFile
     \/ desk[h].fd = "final" /\ reportFile' \in Land(reportFile, desk[h].bytes) /\ UNCHANGED reportTmp
     \/ desk[h].fd = "gone"   /\ UNCHANGED <<reportFile, reportTmp>>
  /\ UNCHANGED <<places, plain, holder, report, runs, pstarts, mixed>>

\* What follows the write: a migration removes the plaintext, sealed or not.
Settled(h) == [desk[h] EXCEPT !.at = IF desk[h].todo # {} THEN "remove" ELSE "settled",
                              !.fd = "closed"]

\* The temporary file takes the REPORT's name; who has either open keeps it open.
AfterRename(h) ==
  [k \in PHosts |-> IF k = h THEN Settled(h)
                    ELSE [desk[k] EXCEPT !.fd = CASE @ = "tmp" -> "final"
                                                  [] @ = "final" -> "gone"
                                                  [] OTHER -> @]]

RenameReport(h) ==
  /\ desk[h].at = "written" /\ reportTmp # Missing
  /\ reportFile' = reportTmp /\ reportTmp' = Missing
  /\ desk' = AfterRename(h)
  /\ UNCHANGED <<places, plain, holder, report, runs, pstarts, mixed>>

\* The file cannot be opened or written, or is gone when it is to be renamed.
WriteFails(h) ==
  /\ desk[h].at \in {"opened", "written"}
  /\ desk' = [desk EXCEPT ![h] = Settled(h)]
  /\ UNCHANGED <<places, plain, reportFile, reportTmp, holder, report, runs, pstarts, mixed>>

-----------------------------------------------------------------------------
\* migrate_plaintext_reports, at the start.

Start(h) ==
  /\ desk[h].at = "off" /\ pstarts < PMaxStarts
  /\ pstarts' = pstarts + 1
  /\ LET found == {e \in DOMAIN plain : plain[e] # "none"}
     IN  desk' = [desk EXCEPT ![h] = [Off EXCEPT !.at = IF found = {} THEN "up" ELSE "next",
                                                 !.todo = found]]
  /\ UNCHANGED <<places, plain, reportFile, reportTmp, holder, report, runs, mixed>>

BytesOf(e) == IF plain[e] = "torn" THEN Garbled ELSE ReportOfGen(IF e = "json" THEN 1 ELSE 2)

\* One entry is dealt with.
Past(h, e) ==
  LET left == desk[h].todo \ {e}
  IN  desk' = [desk EXCEPT ![h] = [Off EXCEPT !.at = IF left = {} THEN "up" ELSE "next",
                                              !.todo = left]]

\* The entries in the order of the directory; one that is gone is passed over.
MigrateEntry(h) ==
  /\ desk[h].at = "next"
  /\ \E e \in desk[h].todo :
       \/ /\ plain[e] # "none"
          /\ OpenTemporary(h, [desk[h] EXCEPT !.entry = e, !.bytes = BytesOf(e)])
       \/ /\ plain[e] = "none"
          /\ Past(h, e) /\ UNCHANGED <<reportFile, reportTmp, mixed>>
  /\ UNCHANGED <<places, plain, holder, report, runs, pstarts>>

\* The removal may fail, and the start goes on.
RemovePlain(h) ==
  /\ desk[h].at = "remove"
  /\ plain' \in {plain, [plain EXCEPT ![desk[h].entry] = "none"]}
  /\ Past(h, desk[h].entry)
  /\ UNCHANGED <<places, reportFile, reportTmp, holder, report, runs, pstarts, mixed>>

-----------------------------------------------------------------------------
\* The run's last part, under the consolidation lock.

\* list_memories, without the retired, then the topics.  A boundary without facts gets
\* no REPORT, and keeps the one it had.
Generate(h) ==
  /\ desk[h].at = "up" /\ holder = PNoHost /\ runs < PMaxRuns
  /\ runs' = runs + 1
  /\ \E F \in PListings :
       IF F = {} THEN UNCHANGED <<desk, holder, report>>
       ELSE /\ holder' = h
            /\ desk' = [desk EXCEPT ![h].at = "generated"]
            /\ \E label \in Labellings(F) : report' = ReportOf(F, label)
  /\ UNCHANGED <<places, plain, reportFile, reportTmp, pstarts, mixed>>

\* write_report_atomic; only what it is written under matters from here.
WriteReport(h) ==
  /\ desk[h].at = "generated"
  /\ report' = Nothing
  /\ OpenTemporary(h, [desk[h] EXCEPT !.bytes = ReportOfGen(2 + runs)])
  /\ UNCHANGED <<places, plain, holder, runs, pstarts>>

\* Written, or failed and logged; or timed out with nothing written.
EndRun(h) ==
  /\ desk[h].at \in {"settled", "generated"}
  /\ desk' = [desk EXCEPT ![h] = [Off EXCEPT !.at = "up"]]
  /\ holder' = PNoHost /\ report' = Nothing
  /\ UNCHANGED <<places, plain, reportFile, reportTmp, runs, pstarts, mixed>>

\* At any step; the lock is left to be reclaimed.
Kill(h) ==
  /\ desk[h].at # "off"
  /\ desk' = [desk EXCEPT ![h] = Off]
  /\ holder' = IF holder = h THEN PNoHost ELSE holder
  /\ report' = IF holder = h THEN Nothing ELSE report
  /\ UNCHANGED <<places, plain, reportFile, reportTmp, runs, pstarts, mixed>>

ReportNext ==
  \E h \in PHosts :
    \/ Start(h) \/ MigrateEntry(h) \/ RemovePlain(h)
    \/ Generate(h) \/ WriteReport(h) \/ EndRun(h)
    \/ WriteBytes(h) \/ RenameReport(h) \/ WriteFails(h) \/ Kill(h)

ReportSpec == ReportInit /\ [][ReportNext]_reportVars

-----------------------------------------------------------------------------
\* Properties.

\* A REPORT names every fact that was in force when its run listed them, and each once,
\* so that a read labels every fact it returns.  Left out are the facts of a topic
\* whose label a later topic got too: they share a key of the map and are overwritten.
\* And a label that is no name is announced (TOPIC_NAMES_UNAVAILABLE).
ReportComplete ==
  /\ \A f \in report.listed \ UNION report.says :
       \E T \in DOMAIN report.label, U \in report.says :
         f \in T /\ T # U /\ report.label[T] = report.label[U]
  /\ \A T, U \in report.says : T = U \/ T \cap U = {}
  /\ \A T \in report.says : report.label[T][1] = "topic" => report.fallback

\* What a read finds under the REPORT's name is replaced by a whole and newer REPORT
\* only, whichever step a process dies at ("Atomic-rename guarantees the previous
\* REPORT file is untouched", report.rs).  Two things break it and are named here: an
\* earlier version's file, sealed again over what is there when it is torn or could not be
\* removed before; and two processes in the one temporary file.
ReportsMoveForward ==
  [][reportFile' # reportFile =>
       \/ mixed
       \/ /\ reportFile'.kind = "whole" /\ reportFile'.gen > reportFile.gen
       \/ \E h \in PHosts : desk[h].todo # {} /\ reportFile' = desk[h].bytes]_reportVars
=============================================================================
