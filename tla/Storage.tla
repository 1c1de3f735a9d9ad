------------------------------ MODULE Storage ------------------------------
(***************************************************************************)
(* storage.py in its two modes and tools/restore_backup.py.  File mode     *)
(* writes a temp file, syncs it, renames it over the state file and syncs  *)
(* the directory; the model keeps what a reader sees and what a power cut  *)
(* leaves of the two files.  SQLite commits snapshot and listing index in  *)
(* one transaction.  Every write first rotates the backups.  The restore   *)
(* tool probes the hub's lock and (its undo file left out) writes like the hub.  *)
(***************************************************************************)
EXTENDS Integers, Sequences, FiniteSets, SequencesExt

CONSTANTS
    Fsync,          \* HUB_FSYNC, on by default
    BackupKeep,     \* HUB_BACKUP_KEEP
    MaxWrites,      \* bound: snapshots
    MaxStops        \* bound: crashes, power cuts and failed writes

VARIABLES
    mode,           \* HUB_STORAGE_MODE, as the operator set it
    hub,            \* "down", "up" (holds the lock), or "dead" (exit 78)
    loaded,         \* the snapshot a hub last started from
    begun, returned,\* the newest snapshot written, and the newest acknowledged
    pc, by,         \* where the write in progress is, and whose it is
    tmp,            \* the temp file: content seen and content on the disk
    state, synced,  \* STATE_FILE or meta.snap: what is seen, what is durable
    backups,        \* the rotation, oldest first
    restoring,      \* the snapshot the tool is putting back
    origin,         \* what each snapshot was made from: itself, or a restored one
    put,            \* what the last restore said it put back, till the next write
    beside,         \* the hub started while the tool was writing
    stops

storageVars == <<mode, hub, loaded, begun, returned, pc, by, tmp, state, synced, backups,
                 restoring, origin, put, beside, stops>>

Part == -1          \* some of a snapshot's bytes
Snap == 0..MaxWrites

TypeOK ==
    /\ mode \in {"file", "sqlite"} /\ hub \in {"down", "up", "dead"}
    /\ {loaded, begun, returned} \subseteq Snap
    /\ pc \in {"idle", "backup", "dump", "sync", "replace", "syncdir", "done"}
    /\ by \in {"hub", "tool"}
    /\ {tmp.seen, tmp.disk, state, synced} \subseteq Snap \cup {Part}
    /\ backups \in Seq(Snap) /\ Len(backups) <= BackupKeep
    /\ restoring \in Snap /\ stops \in 0..MaxStops

Init ==
    /\ mode \in {"file", "sqlite"}
    /\ hub = "down" /\ loaded = 0 /\ begun = 0 /\ returned = 0
    /\ pc = "idle" /\ by = "hub" /\ tmp = [seen |-> 0, disk |-> 0]
    /\ state = 0 /\ synced = 0 /\ backups = <<>>
    /\ restoring = 0 /\ origin = [n \in 1..MaxWrites |-> n]
    /\ put = 0 /\ beside = FALSE /\ stops = 0

(***************************************************************************)
(* Start and load.                                                         *)
(***************************************************************************)
(* The hub takes the lock and holds it; a state that is there and does not *)
(* parse stops it, a missing one is a fresh start.                         *)
Start ==
    /\ hub = "down" /\ pc = "idle"
    /\ hub' = IF state = Part THEN "dead" ELSE "up"
    /\ loaded' = IF state = Part THEN loaded ELSE state
    /\ beside' = FALSE
    /\ UNCHANGED <<mode, begun, returned, pc, by, tmp, state, synced, backups, restoring,
                   origin, put, stops>>

(***************************************************************************)
(* write_snapshot, for a handler of the hub or for the tool.               *)
(***************************************************************************)
Begin(who, content) ==
    /\ pc = "idle" /\ begun < MaxWrites
    /\ pc' = "backup" /\ by' = who /\ begun' = begun + 1 /\ put' = 0
    /\ origin' = [origin EXCEPT ![begun + 1] = IF content = 0 THEN begun + 1
                                               ELSE origin[content]]

Persist ==
    /\ hub = "up" /\ Begin("hub", 0)
    /\ UNCHANGED <<mode, hub, loaded, returned, tmp, state, synced, backups, restoring,
                   beside, stops>>

(* _backup_locked, _backup_snap_locked: the snapshot that is there, before *)
(* it is overwritten; the tool rotates in SQLite mode only.  A rotation    *)
(* that fails does not stop the write.                                     *)
LastKept(list) == SubSeq(list, IF Len(list) > BackupKeep THEN Len(list) - BackupKeep + 1 ELSE 1, Len(list))
Backup ==
    /\ pc = "backup" /\ pc' = "dump"
    /\ \/ /\ state > 0 /\ (mode = "sqlite" \/ by = "hub")
          /\ backups' = LastKept(Append(backups, state))
       \/ backups' = backups
    /\ UNCHANGED <<mode, hub, loaded, begun, returned, by, tmp, state, synced,
                   restoring, origin, put, beside, stops>>

(* Mutant: the tool goes on when the database was locked.                  *)
CommitOrNot ==
    /\ mode = "sqlite" /\ pc = "dump" /\ pc' = "done"
    /\ \/ state' = begun /\ synced' = begun
       \/ by = "tool" /\ UNCHANGED <<state, synced>>
    /\ UNCHANGED <<mode, hub, loaded, begun, returned, by, tmp, backups, restoring,
                   origin, put, beside, stops>>
(* One transaction, or the bytes of the temp file; either may raise.       *)
Commit ==
    /\ mode = "sqlite" /\ pc = "dump" /\ pc' = "done"
    /\ state' = begun /\ synced' = begun
    /\ UNCHANGED <<mode, hub, loaded, begun, returned, by, tmp, backups, restoring,
                   origin, put, beside, stops>>
Dump ==
    /\ mode = "file" /\ pc = "dump" /\ pc' = "sync"
    /\ tmp' = [seen |-> begun, disk |-> Part]
    /\ UNCHANGED <<mode, hub, loaded, begun, returned, by, state, synced, backups,
                   restoring, origin, put, beside, stops>>
(* Mutant: the temp file is renamed without having been synced.            *)
SyncNothing ==
    /\ pc = "sync" /\ pc' = "replace"
    /\ UNCHANGED <<mode, hub, loaded, begun, returned, by, tmp, state, synced, backups,
                   restoring,
                   origin, put, beside, stops>>
SyncTmp ==
    /\ pc = "sync" /\ pc' = "replace"
    /\ tmp' = IF Fsync \/ by = "tool" THEN [tmp EXCEPT !.disk = tmp.seen] ELSE tmp
    /\ UNCHANGED <<mode, hub, loaded, begun, returned, by, state, synced, backups,
                   restoring, origin, put, beside, stops>>
(* The rename is seen at once, and reaches the disk when it will; what is  *)
(* then on the disk under the name is what the temp file has there.        *)
Replace ==
    /\ pc = "replace" /\ pc' = "syncdir"
    /\ state' = tmp.seen /\ synced' \in {synced, tmp.disk}
    /\ UNCHANGED <<mode, hub, loaded, begun, returned, by, tmp, backups, restoring,
                   origin, put, beside, stops>>
SyncDir ==
    /\ pc = "syncdir" /\ pc' = "done"
    /\ synced' = IF Fsync \/ by = "tool" THEN tmp.disk ELSE synced
    /\ UNCHANGED <<mode, hub, loaded, begun, returned, by, tmp, state, backups,
                   restoring, origin, put, beside, stops>>
Return ==
    /\ pc = "done" /\ pc' = "idle"
    /\ returned' = begun
    /\ put' = IF by = "tool" THEN origin[begun] ELSE 0
    /\ restoring' = 0
    /\ UNCHANGED <<mode, hub, loaded, begun, by, tmp, state, synced, backups, origin,
                   beside, stops>>

(* A full disk, a locked database: the hub answers 500 and goes on, the    *)
(* tool ends.                                                              *)
Raise ==
    /\ pc \in {"dump", "sync"} /\ stops < MaxStops /\ stops' = stops + 1
    /\ pc' = "idle" /\ restoring' = 0
    /\ tmp' = IF mode = "sqlite" THEN tmp ELSE [seen |-> Part, disk |-> Part]
    /\ UNCHANGED <<mode, hub, loaded, begun, returned, by, state, synced, backups,
                   origin, put, beside>>

(***************************************************************************)
(* Failures.                                                               *)
(***************************************************************************)
(* A process dies; what it wrote is seen by the next one.                  *)
Kill ==
    /\ hub = "up" \/ pc # "idle"
    /\ stops < MaxStops /\ stops' = stops + 1
    /\ hub' \in {"down"} \cup (IF by = "tool" THEN {hub} ELSE {})
    /\ pc' = "idle" /\ restoring' = 0
    /\ UNCHANGED <<mode, loaded, begun, returned, by, tmp, state, synced, backups,
                   origin, put, beside>>

(* What was not synced may be lost. *)
PowerCut ==
    /\ stops < MaxStops /\ stops' = stops + 1
    /\ hub' = "down" /\ pc' = "idle" /\ restoring' = 0
    /\ state' = synced /\ tmp' = [tmp EXCEPT !.seen = tmp.disk]
    /\ UNCHANGED <<mode, loaded, begun, returned, by, synced, backups, origin, put, beside>>

(***************************************************************************)
(* tools/restore_backup.py.                                                *)
(***************************************************************************)
(* The candidate is read and verified, the lock is probed and let go, the  *)
(* state that is there is copied to an undo file; then the write begins.   *)
Restore ==
    /\ hub # "up"
    /\ \E n \in Range(backups) :
          /\ restoring' = n /\ Begin("tool", n)
    /\ hub' = "down"
    /\ UNCHANGED <<mode, loaded, returned, tmp, state, synced, backups, beside, stops>>

(* Nothing keeps a hub from starting while the tool, past its probe, is    *)
(* writing: it loads what is there.                                        *)
StartBeside ==
    /\ hub = "down" /\ pc # "idle" /\ by = "tool" /\ state # Part
    /\ hub' = "up" /\ loaded' = state /\ beside' = TRUE
    /\ UNCHANGED <<mode, begun, returned, pc, by, tmp, state, synced, backups, restoring,
                   origin, put, stops>>

Next ==
    \/ Start \/ Persist \/ Backup \/ Commit \/ Dump \/ SyncTmp \/ Replace \/ SyncDir
    \/ Return \/ Raise \/ Kill \/ PowerCut \/ Restore \/ StartBeside

Spec == Init /\ [][Next]_storageVars

(***************************************************************************)
(* Properties.                                                             *)
(***************************************************************************)
(* The two modes are one durable store: through raised writes, kills and   *)
(* power cuts at every step the next start finds one whole snapshot, at    *)
(* least as new as the last whose write returned; no start ends in exit 78. *)
Store == INSTANCE DurableStore WITH running <- IF hub = "dead" THEN Part ELSE loaded
StoreKept == Store!Spec

(* A hub that starts once a restore has said it is done runs on what was   *)
(* restored, whatever was killed or cut before and after; excepted is the  *)
(* hub that started under the tool, between its probe and its end.         *)
RestoreSticks ==
    put # 0 /\ hub = "up" /\ ~beside => loaded # 0 /\ origin[loaded] = put
=============================================================================
