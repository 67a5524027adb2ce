----------------------------- MODULE ModelFiles -----------------------------
(***************************************************************************)
(* How a model file gets to its place (vault-llm/model_loader.rs, called   *)
(* by Phi4MiniProvider::new in the nightly run and by the desktop app's    *)
(* model_fetch): hash the file that is there, or stream it into            *)
(* `<file>.partial' and rename.  Several processes do so on one directory, *)
(* without a lock.                                                         *)
(*                                                                         *)
(* A file is an inode with a number of chunks; a name leads to an inode or *)
(* to none.  A process that streams keeps its handle on the inode,         *)
(* whatever becomes of the name.                                           *)
(***************************************************************************)
EXTENDS Naturals

CONSTANTS
  FProcs,          \* processes that ensure the model
  FMaxFetches      \* bound: streams begun

ASSUME FilesAssumption == FMaxFetches \in Nat

Chunks == 1..2
Inodes == 1..(FMaxFetches + 1)
NoFile == 0

VARIABLES
  disk,            \* inode -> chunk -> "none", "right" or "wrong"
  placed,          \* the inode the final name leads to
  partial,         \* the inode `<file>.partial' leads to
  fetch,           \* process -> where it is, its inode, its position, its hash so far
  fetches,
  crossed          \* history: two streams were open at the same time

fileVars == <<disk, placed, partial, fetch, fetches, crossed>>

Whole == [c \in Chunks |-> "right"]
Empty == [c \in Chunks |-> "none"]
NotFetching  == [at |-> "idle", ino |-> NoFile, pos |-> 0, clean |-> TRUE]

FileTypeOK ==
  /\ disk \in [Inodes -> [Chunks -> {"none", "right", "wrong"}]]
  /\ placed \in Inodes \cup {NoFile} /\ partial \in Inodes \cup {NoFile}
  /\ fetch \in [FProcs -> [at : {"idle", "bad", "get", "stream", "ready"},
                           ino : Inodes \cup {NoFile}, pos : 0..2, clean : BOOLEAN]]
  /\ fetches \in 0..FMaxFetches
  /\ crossed \in BOOLEAN

\* Nothing is there, or a file the user put there, which may be damaged.
FileInit ==
  /\ \/ placed = NoFile /\ disk = [i \in Inodes |-> Empty]
     \/ /\ placed = 1
        /\ \E c \in {Whole, [Whole EXCEPT ![2] = "wrong"], Empty} :
             disk = [i \in Inodes |-> IF i = 1 THEN c ELSE Empty]
  /\ partial = NoFile
  /\ fetch = [p \in FProcs |-> NotFetching]
  /\ fetches = 0 /\ crossed = FALSE

FetchAt(p, where) == fetch' = [fetch EXCEPT ![p] = [@ EXCEPT !.at = where]]
Fails(p)     == fetch' = [fetch EXCEPT ![p] = NotFetching]

Streaming(p) == fetch[p].at = "stream"

\* ensure_model_at_path: hash what is there.
Ensure(p) ==
  /\ fetch[p].at = "idle"
  /\ FetchAt(p, IF placed = NoFile THEN "get"
           ELSE IF disk[placed] = Whole THEN "ready" ELSE "bad")
  /\ UNCHANGED <<disk, placed, partial, fetches, crossed>>

\* remove_file(path): whatever the name leads to by now.
RemoveBad(p) ==
  /\ fetch[p].at = "bad"
  /\ placed' = NoFile
  /\ IF placed = NoFile THEN Fails(p) ELSE FetchAt(p, "get")
  /\ UNCHANGED <<disk, partial, fetches, crossed>>

FreshInode == 2 + fetches

\* The request succeeds; File::create truncates the inode an earlier or another
\* download left at the name.
Get(p) ==
  /\ fetch[p].at = "get" /\ fetches < FMaxFetches
  /\ LET i == IF partial = NoFile THEN FreshInode ELSE partial IN
       /\ disk' = [disk EXCEPT ![i] = Empty]
       /\ partial' = i
       /\ fetch' = [fetch EXCEPT ![p] = [at |-> "stream", ino |-> i, pos |-> 0, clean |-> TRUE]]
  /\ fetches' = fetches + 1
  /\ crossed' = (crossed \/ \E q \in FProcs : Streaming(q))
  /\ UNCHANGED placed

\* No answer, an error status, or a length wildly off.
GetFails(p) ==
  /\ fetch[p].at = "get"
  /\ Fails(p)
  /\ UNCHANGED <<disk, placed, partial, fetches, crossed>>

\* A chunk arrives; it is hashed and written at the handle's own position.
Chunk(p, c) ==
  /\ Streaming(p) /\ fetch[p].pos < 2
  /\ disk' = [disk EXCEPT ![fetch[p].ino][fetch[p].pos + 1] = c]
  /\ fetch' = [fetch EXCEPT ![p] = [@ EXCEPT !.pos = fetch[p].pos + 1,
                                             !.clean = fetch[p].clean /\ c = "right"]]
  /\ UNCHANGED <<placed, partial, fetches, crossed>>

\* The stream breaks, or the process dies: the partial file stays.
Break(p) ==
  /\ fetch[p].at # "idle"
  /\ Fails(p)
  /\ UNCHANGED <<disk, placed, partial, fetches, crossed>>

\* rename(partial, path): whatever the name leads to by now.
Rename(p) ==
  /\ placed' = IF partial = NoFile THEN placed ELSE partial
  /\ partial' = NoFile
  /\ IF partial = NoFile THEN Fails(p) ELSE FetchAt(p, "ready")

\* Mutant: the hash is not compared.
FinishTrusting(p) ==
  /\ Streaming(p)
  /\ Rename(p)
  /\ UNCHANGED <<disk, fetches, crossed>>

\* The stream ended, at its end or before: the hash of what came by decides.
Finish(p) ==
  /\ Streaming(p)
  /\ \/ fetch[p].pos = 2 /\ fetch[p].clean /\ Rename(p)
     \/ ~ (fetch[p].pos = 2 /\ fetch[p].clean) /\ partial' = NoFile /\ Fails(p) /\ UNCHANGED placed
  /\ UNCHANGED <<disk, fetches, crossed>>

FileNext == \E p \in FProcs :
  \/ Ensure(p) \/ RemoveBad(p) \/ Get(p) \/ GetFails(p)
  \/ \E c \in {"right", "wrong"} : Chunk(p, c)
  \/ Break(p) \/ Finish(p)

FileSpec == FileInit /\ [][FileNext]_fileVars

\* "[A] partial or unverified file is never left at the final path"
\* (model_fetch.rs): when ensure_model returned Ok, the file its caller loads next
\* is whole or has gone again; so it is through broken streams, wrong bytes, dead
\* processes and their leftovers, as long as no two downloads overlap.  Two that do
\* write one partial file, and each hashes its own stream only.
ModelsWhole ==
  ~ crossed => \A p \in FProcs :
     fetch[p].at = "ready" /\ placed # NoFile => disk[placed] = Whole
=============================================================================
