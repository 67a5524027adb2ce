------------------------------ MODULE KeyCustody ------------------------------
(***************************************************************************)
(* The master key in the Windows credential store and the database it      *)
(* opens: first run (read_or_init_inner), the bridge that re-encrypts a    *)
(* V0.1 vault in place (run_v0_1_bridge, ADR-041), and cryptographic       *)
(* erasure (erase_vault, ADR-SEC-008).  The desktop app takes the bridge,  *)
(* vault-cli only the first-run path; both may start at any time.          *)
(*                                                                         *)
(* A key is a number: 1 is the V0.1 passphrase, which the user keeps, the  *)
(* others are generated.  A file is the key that opens it.                 *)
(***************************************************************************)
EXTENDS Naturals

CONSTANTS
  KProcs,          \* starts of the desktop app or vault-cli that may overlap
  KMaxKeys,        \* bound: keys
  KMaxStarts       \* bound: processes started

ASSUME CustodyAssumption == KMaxKeys \in Nat \ {0} /\ KMaxStarts \in Nat

NoKey == 0           \* no entry, or no file
V01   == 1
Torn  == KMaxKeys + 1 \* a file that no key opens
Keys  == 0..KMaxKeys
Files == 0..Torn

VARIABLES
  entry,           \* the credential
  db,              \* vault.db
  snap,            \* vault.db.pre_v0_2_bridge
  issued,          \* the last key generated
  starts,
  start,           \* KProcs -> where a process is, and the key it has in hand
  \* history
  gone,            \* keys whose erasure was reported to the user
  mishaps          \* what has happened that the code does not recover from

keyVars == <<entry, db, snap, issued, starts, start, gone, mishaps>>
keyHist == <<starts, gone, mishaps>>

Steps == {"out", "probe", "init", "store", "verify", "write", "snapshot", "rekey",
          "restore", "discard", "rollback", "clean", "open", "using", "erasing"}
Bridging == {"verify", "write", "snapshot", "rekey", "restore", "discard", "rollback", "clean"}
Setting == Bridging \cup {"init", "store"}
Mishaps == {"overlap", "cli", "crash", "rollback", "restore", "unread", "left"}

KeyTypeOK ==
  /\ entry \in Keys /\ db \in Files /\ snap \in Files
  /\ issued \in 1..KMaxKeys /\ starts \in 0..KMaxStarts
  /\ start \in [KProcs -> [at : Steps, cli : BOOLEAN, key : Keys]]
  /\ gone \subseteq Keys /\ mishaps \subseteq Mishaps

\* A fresh installation, or a V0.1 vault.
KeyInit ==
  /\ entry = NoKey /\ db \in {NoKey, V01} /\ snap = NoKey
  /\ issued = V01 /\ starts = 0
  /\ start = [p \in KProcs |-> [at |-> "out", cli |-> FALSE, key |-> NoKey]]
  /\ gone = {} /\ mishaps = {}

At(p, s) == start[p].at = s
Others(p, s) == \E q \in KProcs \ {p} : start[q].at \in s
Go(p, s) == start' = [start EXCEPT ![p].at = s]
GoWith(p, s, k) == start' = [start EXCEPT ![p].at = s, ![p].key = k]
Stop(p) == GoWith(p, "out", NoKey)
Note(names) == mishaps' = mishaps \cup names

\* A process starts while another sets the key up.
OverlapOf(p) == IF Others(p, Setting) THEN {"overlap"} ELSE {}

-----------------------------------------------------------------------------
\* Starting.

Launch(p, cli) ==
  /\ At(p, "out") /\ starts < KMaxStarts
  /\ starts' = starts + 1
  /\ start' = [start EXCEPT ![p].at = "probe", ![p].cli = cli]
  /\ UNCHANGED <<entry, db, snap, issued, gone, mishaps>>

\* bridge_or_init_inner: an entry is used as it is; without a database this is a
\* first run; with one the user must supply VAULT_KEY.  vault-cli does not look.
\* A read that fails otherwise stops the start.
Probe(p) ==
  /\ At(p, "probe")
  /\ \/ start[p].cli /\ Go(p, "init")
     \/ ~ start[p].cli /\ entry # NoKey /\ GoWith(p, "open", entry)
     \/ ~ start[p].cli /\ entry = NoKey /\ Go(p, IF db = NoKey THEN "init" ELSE "verify")
     \/ Stop(p)
  /\ Note(OverlapOf(p))
  /\ UNCHANGED <<entry, db, snap, issued, starts, gone>>

\* read_or_init_inner: read, and when there is no entry generate ...
InitRead(p) ==
  /\ At(p, "init")
  /\ IF entry # NoKey
     THEN GoWith(p, "open", entry) /\ Note(OverlapOf(p)) /\ UNCHANGED issued
     ELSE /\ issued < KMaxKeys
          /\ issued' = issued + 1
          /\ GoWith(p, "store", issued')
          /\ Note(IF db # NoKey THEN {"cli"} ELSE {})
  /\ UNCHANGED <<entry, db, snap, starts, gone>>

\* ... and store, over whatever entry there is by now.
InitStore(p, ok) ==
  /\ At(p, "store")
  /\ IF ok THEN entry' = start[p].key /\ Go(p, "open")
     ELSE UNCHANGED entry /\ Stop(p)
  /\ UNCHANGED <<db, snap, issued, keyHist>>

\* Application::new: the database opens with its key, or is created, or the start
\* fails.
OpenVault(p) ==
  /\ At(p, "open")
  /\ IF db \in {NoKey, start[p].key}
     THEN db' = start[p].key /\ Go(p, "using")
     ELSE UNCHANGED db /\ Stop(p)
  /\ UNCHANGED <<entry, snap, issued, keyHist>>

Quit(p) == /\ At(p, "using")
           /\ Stop(p)
           /\ UNCHANGED <<entry, db, snap, issued, keyHist>>

\* The process is killed, or the machine goes down.
Die(p) ==
  /\ start[p].at \notin {"out", "using"}
  /\ Stop(p)
  /\ Note(IF start[p].at \in Setting THEN {"crash"} ELSE {})
  /\ UNCHANGED <<entry, db, snap, issued, starts, gone>>

-----------------------------------------------------------------------------
\* run_v0_1_bridge.

BridgeVerify(p) ==
  /\ At(p, "verify")
  /\ IF db = V01
     THEN issued < KMaxKeys /\ issued' = issued + 1 /\ GoWith(p, "write", issued')
     ELSE UNCHANGED issued /\ Stop(p)
  /\ UNCHANGED <<entry, db, snap, keyHist>>

BridgeWriteEntry(p, ok) ==
  /\ At(p, "write")
  /\ IF ok THEN entry' = start[p].key /\ Go(p, "snapshot")
     ELSE UNCHANGED entry /\ Stop(p)
  /\ UNCHANGED <<db, snap, issued, keyHist>>

\* Mutant: a copy that fails leaves the entry.
SnapshotKeepsEntry(p, ok) ==
  /\ At(p, "snapshot")
  /\ IF ok THEN snap' = db /\ Go(p, "rekey")
     ELSE snap' \in {snap, Torn} /\ Stop(p)
  /\ UNCHANGED <<entry, db, issued, keyHist>>

BridgeSnapshot(p, ok) ==
  /\ At(p, "snapshot")
  /\ IF ok THEN snap' = db /\ Go(p, "rekey")
     ELSE snap' \in {snap, Torn} /\ Go(p, "rollback")
  /\ UNCHANGED <<entry, db, issued, keyHist>>

\* rekey_in_place opens with the old passphrase, rekeys in a transaction, and
\* verifies with the new one; an error may come before or after the commit.
BridgeRekey(p, ok) ==
  /\ At(p, "rekey")
  /\ \/ ok /\ db = V01 /\ db' = start[p].key /\ Go(p, "clean")
     \/ ~ ok /\ db' \in {db} \cup {k \in {start[p].key} : db = V01} /\ Go(p, "restore")
  /\ UNCHANGED <<entry, snap, issued, keyHist>>

\* Mutant: the error path discards the snapshot without copying it back.
DiscardWithoutRestore(p, ok) ==
  /\ At(p, "restore")
  /\ Go(p, "discard")
  /\ UNCHANGED <<entry, db, snap, issued, keyHist>>

\* The copy back truncates the database first.
BridgeRestore(p, ok) ==
  /\ At(p, "restore")
  /\ db' \in IF ok THEN {snap} ELSE {db, Torn}
  /\ Note(IF ok THEN {} ELSE {"restore"})
  /\ Go(p, "discard")
  /\ UNCHANGED <<entry, snap, issued, starts, gone>>

\* The snapshot is removed whether or not it could be restored.
BridgeDiscard(p, ok) ==
  /\ At(p, "discard")
  /\ snap' = IF ok THEN NoKey ELSE snap
  /\ Note(IF ok THEN {} ELSE {"left"})
  /\ Go(p, "rollback")
  /\ UNCHANGED <<entry, db, issued, starts, gone>>

\* rollback_keychain_entry deletes whatever entry there is, or warns.
BridgeRollback(p, ok) ==
  /\ At(p, "rollback")
  /\ entry' = IF ok THEN NoKey ELSE entry
  /\ Note(IF ok THEN {} ELSE {"rollback"})
  /\ Stop(p)
  /\ UNCHANGED <<db, snap, issued, starts, gone>>

BridgeClean(p, ok) ==
  /\ At(p, "clean")
  /\ snap' = IF ok THEN NoKey ELSE snap
  /\ Note(IF ok THEN {} ELSE {"left"})
  /\ Go(p, "open")
  /\ UNCHANGED <<entry, db, issued, starts, gone>>

-----------------------------------------------------------------------------
\* erase_everything, in the desktop app.

\* With the key the app works with, an entry written since goes as well.
Reported(p) == gone' = gone \cup ({start[p].key, entry} \ {NoKey})

\* Mutant: the delete is believed.
EraseKeyTrusting(p) ==
  /\ At(p, "using") /\ ~ start[p].cli
  /\ entry' \in {NoKey, entry}
  /\ Reported(p) /\ Go(p, "erasing")
  /\ UNCHANGED <<db, snap, issued, starts, mishaps>>

\* destroy_master_key_inner: any error of the first read counts as "no entry";
\* a delete that fails, or after which the key can still be read, aborts.
EraseKey(p) ==
  /\ At(p, "using") /\ ~ start[p].cli
  /\ \/ entry' = NoKey /\ Reported(p) /\ Go(p, "erasing") /\ UNCHANGED mishaps
     \/ entry # NoKey /\ UNCHANGED <<entry, start, keyHist>>
     \/ entry # NoKey /\ UNCHANGED entry /\ Reported(p) /\ Go(p, "erasing")
        /\ Note({"unread"})
  /\ UNCHANGED <<db, snap, issued, starts>>

\* The entries of VAULT_ENTRIES, each as far as it can be removed; the bridge's
\* snapshot is not among them.  Then the window closes.
EraseFiles(p, ok) ==
  /\ At(p, "erasing")
  /\ db' = IF ok THEN NoKey ELSE db
  /\ Stop(p)
  /\ UNCHANGED <<entry, snap, issued, keyHist>>

-----------------------------------------------------------------------------
BridgeNext(p, ok) ==
  \/ BridgeWriteEntry(p, ok) \/ BridgeSnapshot(p, ok) \/ BridgeRekey(p, ok)
  \/ BridgeRestore(p, ok) \/ BridgeDiscard(p, ok) \/ BridgeRollback(p, ok)
  \/ BridgeClean(p, ok)

KeyNext ==
  \E p \in KProcs :
    \/ \E cli \in BOOLEAN : Launch(p, cli)
    \/ Probe(p) \/ InitRead(p) \/ OpenVault(p) \/ Quit(p) \/ Die(p)
    \/ BridgeVerify(p)
    \/ EraseKey(p)
    \/ \E ok \in BOOLEAN : InitStore(p, ok) \/ BridgeNext(p, ok) \/ EraseFiles(p, ok)

KeySpec == KeyInit /\ [][KeyNext]_keyVars

-----------------------------------------------------------------------------
\* Properties.

\* The cross-store invariant of ADR-041, with what it does not say.  When nothing
\* is being set up, the key in the credential store opens the database, or there
\* is no entry and the V0.1 passphrase does: a failure of any one step of the
\* bridge is undone.  The exceptions: two processes set up at once, vault-cli was
\* started on a V0.1 vault, the process died in between, or the undoing failed.
KeyOpensVault ==
  /\ \A p \in KProcs : start[p].at \notin Setting
  /\ mishaps \cap {"overlap", "cli", "crash", "rollback", "restore", "unread"} = {}
  => \/ db \in {NoKey, entry}
     \/ db = V01 /\ entry = NoKey
     \/ db \in gone

\* Crashes at any step and failed clean-ups included, the database stays readable
\* with a key somebody has; no copy of it is needed for that.  Only two set-ups at
\* once or a restore that fails can end that, besides the user's erasing it.
DataSurvives ==
  mishaps \cap {"overlap", "restore", "unread"} = {} =>
    db \in {NoKey, V01, entry} \cup gone

\* Once the user was told that everything is erased, the credential store never
\* again holds the key of what is left, whatever starts afterwards; the files go
\* only after the key.  Not so when the first read of the entry failed for a
\* reason other than its absence.
ErasureIsFinal ==
  "unread" \notin mishaps =>
    /\ entry \notin gone
    /\ \A p \in KProcs : At(p, "erasing") => entry # start[p].key
=============================================================================
