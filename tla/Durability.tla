------------------------------ MODULE Durability ------------------------------
(***************************************************************************)
(* The life of a write between its log record and its table file: the logs *)
(* (db_impl_write.cc, db_impl.cc), memtable switches, flushes and the list *)
(* of immutable memtables (memtable_list.cc, flush_job.cc), the MANIFEST   *)
(* (VersionSet::LogAndApply), deletion of obsolete logs (db_impl_files.cc),*)
(* crashes, and recovery (db_impl_open.cc).                                *)
(*                                                                         *)
(* One thread at a time is in the write thread; Jobs flush in background;  *)
(* one more thread calls SyncWAL.  An action is what a thread does between *)
(* two points where it releases mutex_, or one piece of I/O without it.    *)
(* The queue in front of the write thread is WriteThread's subject.  A     *)
(* table file is the set of writes in it.  Not modelled: two-phase commit, *)
(* recycled logs, manual_wal_flush, dropped column families, listeners.    *)
(***************************************************************************)
EXTENDS Naturals, Sequences, FiniteSets, SequencesExt, FiniteSetsExt, Functions, TLC

CONSTANTS
    CFs,            \* column families
    Jobs,           \* background flush threads
    Configs,        \* the ways the DB is opened and used, see ConfigTyped
    MaxWrites,
    MaxFile,        \* bound on the numbers of log files
    MaxImm,         \* bound on immutable memtables
    MaxCrashes,
    NULL

Modes == {"TolerateCorruptedTail", "AbsoluteConsistency", "PointInTime",
          "SkipAnyCorrupted"}

\* the end of a log: no trace of the next record, a part of it, or all of it
\* with a wrong checksum
Tails == {"clean", "short", "bad"}

\* mode            wal_recovery_mode
\* avoid_flush     avoid_flush_during_recovery
\* paranoid        paranoid_checks
\* power           crashes lose what was not synced, else only memory
\* tails           what a lost record may leave behind, see Tails
\* entries         a new file may vanish until its directory is synced
\* wal_dir         the logs have a directory of their own
\* sync_wal        SyncWAL is called
\* faults          I/O that may fail: "log", "sync", "table", "manifest"
\* batches, syncs  the column families and the sync option of a write
\* max_flushes     max_background_flushes
\* writes, files, crashes  how many of them are explored
ASSUME ConfigTyped ==
    \A c \in Configs :
        /\ c.mode \in Modes
        /\ {c.avoid_flush, c.paranoid, c.power, c.entries, c.wal_dir, c.sync_wal}
               \subseteq BOOLEAN
        /\ c.tails \subseteq Tails
        /\ c.faults \subseteq {"log", "sync", "table", "manifest"}
        /\ c.batches \subseteq (SUBSET CFs) \ {{}}
        /\ c.syncs \subseteq BOOLEAN
        /\ c.max_flushes \in Nat \ {0}
        /\ c.writes \in 0 .. MaxWrites /\ c.files \in 1 .. MaxFile
        /\ c.crashes \in 0 .. MaxCrashes

ASSUME BoundsAreNat == {MaxWrites, MaxFile, MaxImm, MaxCrashes} \subseteq Nat

VARIABLES
    config,
    (* on disk *)
    wal,              \* the log files
    manifest,         \* what the MANIFEST says of each column family
    manifest_seq,     \* and the last sequence in it
    edits,            \* MANIFEST records written and not yet synced
    (* in memory *)
    state,            \* "closed", "recovering", "opening", "open", "failed"
    unrecovered,      \* column families recovery has yet to write to the MANIFEST
    recover_flush,    \* RecoverLogFiles: flushed || !avoid_flush_during_recovery
    logfile_number, log_empty, log_dir_synced, next_file_number,
    logs,             \* logs_: number, getting_synced
    alive_log_files,  \* number, getting_flushed
    obsolete,         \* log files FindObsoleteFiles has chosen
    mem, imm, log_number, version, commit_in_progress,
    manifest_writers, bg_error, LastSequence,
    (* threads *)
    call,             \* the write or flush in the write thread
    jobs,
    syncer,           \* the caller of SyncWAL
    (* history *)
    issued,           \* the column families and first sequence of every write so far
    limbo,            \* items that may be found again: of writes that failed after
                      \* they were logged, and all of them after a crash
    promised,         \* items said to survive
    crashes

diskVars == <<wal, manifest, manifest_seq, edits>>
logVars == <<logfile_number, log_empty, log_dir_synced, logs, alive_log_files>>
cfVars == <<mem, imm, log_number, version, commit_in_progress>>
openVars == <<config, state, unrecovered, recover_flush, crashes>>
history == <<issued, limbo, promised>>
vars == <<diskVars, logVars, cfVars, openVars, history, next_file_number,
          obsolete, manifest_writers, bg_error, LastSequence, call, jobs, syncer>>

Idle == [pc |-> "idle"]

-----------------------------------------------------------------------------
(***************************************************************************)
(* Files.  A log record holds a batch: the write's number in the history,  *)
(* its first sequence number, its column families (one key each).          *)
(***************************************************************************)
NewLog == [recs |-> <<>>, synced |-> 0, entry |-> ~config.entries, tail |-> "clean"]

Items(id, cfs) == {id} \X cfs

\* file()->Sync of the logs with these numbers, and the directory's Fsync
Synced(files, numbers, dir) ==
    [n \in DOMAIN files |->
        [files[n] EXCEPT !.synced = IF n \in numbers THEN Len(files[n].recs) ELSE @,
                         !.entry = @ \/ dir]]

Numbers(s) == {s[i].number : i \in DOMAIN s}

\* applying MANIFEST records: files are added, log numbers only grow; gone
\* says that a file named in the MANIFEST has been deleted
Applied(m, es) ==
    [c \in CFs |->
        LET own == {i \in DOMAIN es : es[i].cf = c}
        IN  [log_number |-> Max({m[c].log_number} \cup {es[i].log_number : i \in own}),
             data |-> m[c].data \cup UNION {es[i].data : i \in own},
             gone |-> m[c].gone \/ \E i \in own : es[i].gone]]

\* faulty: passes over the last sequence in the records
IgnoresSequence(s, es) == s

\* ... and the last sequence is the largest of them
AppliedSeq(s, es) == Max({s} \cup {es[i].seq : i \in DOMAIN es})

-----------------------------------------------------------------------------
(***************************************************************************)
(* RecoverLogFiles up to the writes to the MANIFEST: a function of what is *)
(* on disk.  next = 0 stands for kMaxSequenceNumber.                       *)
(***************************************************************************)
ReplayStart == [next |-> 0, stop |-> FALSE, corrupted |-> 0, broken |-> FALSE,
                error |-> FALSE, mem |-> [c \in CFs |-> {}]]

\* InsertInto: a column family that has flushed this log skips the update
ReplayRecord(s, n, r) ==
    LET stop == s.stop /\ r.seq # s.next
    IN  IF s.broken THEN s
        ELSE IF stop THEN [s EXCEPT !.broken = TRUE]
        ELSE [s EXCEPT !.stop = FALSE, !.next = r.seq + Cardinality(r.cfs),
                       !.mem = [c \in CFs |->
                           IF c \in r.cfs /\ manifest[c].log_number <= n
                           THEN @[c] \cup {r.id} ELSE @[c]]]

ReplayLog(s, n) ==
    LET t == FoldLeft(LAMBDA a, r : ReplayRecord(a, n, r),
                      [s EXCEPT !.broken = FALSE], wal[n].recs)
        reported == /\ ~t.broken /\ config.paranoid
                    /\ \/ wal[n].tail = "bad"
                       \/ wal[n].tail = "short" /\ config.mode = "AbsoluteConsistency"
    IN  IF s.error THEN s
        ELSE CASE reported /\ config.mode = "PointInTime" ->
                      [t EXCEPT !.stop = TRUE, !.corrupted = n]
               [] reported /\ config.mode \in {"TolerateCorruptedTail",
                                              "AbsoluteConsistency"} ->
                      [t EXCEPT !.error = TRUE]
               [] OTHER -> t

Replay ==
    LET s == FoldLeft(ReplayLog, ReplayStart, SetToSortSeq(DOMAIN wal, <))
    IN  [s EXCEPT !.error =
            \/ @
            \/ s.stop /\ \E c \in CFs : manifest[c].log_number > s.corrupted
            \/ config.paranoid /\ \E c \in CFs : manifest[c].gone]

-----------------------------------------------------------------------------
(***************************************************************************)
(* A DB that has just been created: one empty log, nothing flushed.        *)
(***************************************************************************)
Init ==
    /\ config \in Configs
    /\ wal = (1 :> [NewLog EXCEPT !.entry = @ \/ ~config.wal_dir])
    /\ manifest = [c \in CFs |-> [log_number |-> 0, data |-> {}, gone |-> FALSE]]
    /\ manifest_seq = 0
    /\ edits = <<>>
    /\ state = "open" /\ unrecovered = {} /\ recover_flush = FALSE
    /\ logfile_number = 1 /\ log_empty = TRUE /\ log_dir_synced = FALSE
    /\ next_file_number = 2
    /\ logs = <<[number |-> 1, getting_synced |-> FALSE]>>
    /\ alive_log_files = <<[number |-> 1, getting_flushed |-> FALSE]>>
    /\ obsolete = {}
    /\ mem = [c \in CFs |-> {}]
    /\ imm = [c \in CFs |-> <<>>]
    /\ log_number = [c \in CFs |-> 0]
    /\ version = [c \in CFs |-> {}]
    /\ commit_in_progress = [c \in CFs |-> FALSE]
    /\ manifest_writers = <<>>
    /\ bg_error = FALSE
    /\ LastSequence = 0
    /\ call = NULL
    /\ jobs = [j \in Jobs |-> Idle]
    /\ syncer = Idle
    /\ issued = <<>> /\ limbo = {} /\ promised = {} /\ crashes = 0

\* what a reader of the open DB finds
Contents ==
    UNION {(mem[c] \cup version[c] \cup UNION {imm[c][i].data : i \in DOMAIN imm[c]})
               \X {c} : c \in CFs}

-----------------------------------------------------------------------------
(***************************************************************************)
(* logs_ and its getting_synced flags                                      *)
(***************************************************************************)
Marked(up_to) ==
    [i \in DOMAIN logs |->
        [logs[i] EXCEPT !.getting_synced = @ \/ logs[i].number <= up_to]]

Unmarked(up_to) ==
    [i \in DOMAIN logs |->
        [logs[i] EXCEPT !.getting_synced = @ /\ logs[i].number > up_to]]

\* faulty: forgets that the current log stays listed
DropAllSynced(up_to, synced_dir, ok) ==
    /\ log_dir_synced' = (log_dir_synced \/ (synced_dir /\ logfile_number = up_to /\ ok))
    /\ logs' = IF ok THEN SelectSeq(logs, LAMBDA l : l.number > up_to)
                     ELSE Unmarked(up_to)

\* MarkLogsSynced: a synced log leaves logs_, unless it is the only one
MarkLogsSynced(up_to, synced_dir, ok) ==
    /\ log_dir_synced' = (log_dir_synced \/ (synced_dir /\ logfile_number = up_to /\ ok))
    /\ logs' = LET rest == SelectSeq(logs, LAMBDA l : l.number > up_to)
               IN  IF ~ok THEN Unmarked(up_to)
                   ELSE IF rest # <<>> THEN rest
                   ELSE <<Last(Unmarked(up_to))>>

\* some file()->Sync failed, the ones before it went through; or all did, and
\* the directory's Fsync failed
SyncFails(numbers, dir) ==
    /\ "sync" \in config.faults
    /\ \/ \E n \in numbers : wal' = Synced(wal, {m \in numbers : m < n}, FALSE)
       \/ dir /\ wal' = Synced(wal, numbers, FALSE)

-----------------------------------------------------------------------------
(***************************************************************************)
(* The write thread.  A call is a Write or a FlushMemTable (no cfs); todo  *)
(* holds the column families whose memtable it still has to switch.        *)
(***************************************************************************)
Begin(cfs, sync, todo) ==
    /\ state = "open" /\ call = NULL
    /\ todo # {} => next_file_number <= config.files
    /\ \A c \in todo : Len(imm[c]) < MaxImm
    /\ call' = [pc |-> "switch", cfs |-> cfs, sync |-> sync,
                dir |-> sync /\ ~log_dir_synced, todo |-> todo, cf |-> NULL, log |-> 0]
    /\ UNCHANGED <<diskVars, cfVars, openVars, history, logfile_number, log_empty,
                   log_dir_synced, logs, next_file_number, obsolete,
                   manifest_writers, bg_error, LastSequence, jobs, syncer>>

IsWrite(cfs, sync) ==
    cfs \in config.batches /\ sync \in config.syncs /\ Len(issued) < config.writes

\* WriteImpl, with nothing to switch
Write(cfs, sync) ==
    /\ IsWrite(cfs, sync)
    /\ Begin(cfs, sync, {})
    /\ UNCHANGED alive_log_files

\* WriteImpl, total_log_size_ > GetMaxTotalWalSize(): SwitchWAL
WriteOverWalSize(cfs, sync) ==
    /\ IsWrite(cfs, sync)
    /\ ~log_empty \/ Len(alive_log_files) > 1
    /\ ~Head(alive_log_files).getting_flushed
    /\ alive_log_files' = [alive_log_files EXCEPT ![1].getting_flushed = TRUE]
    /\ Begin(cfs, sync, {c \in CFs : log_number[c] <= Head(alive_log_files).number})

\* WriteImpl, memtables are full: HandleWriteBufferFull and ScheduleFlushes
WriteOverBufferSize(cfs, sync, full) ==
    /\ IsWrite(cfs, sync)
    /\ full # {} /\ \A c \in full : mem[c] # {}
    /\ Begin(cfs, sync, full)
    /\ UNCHANGED alive_log_files

FlushMemTable(c) ==
    /\ mem[c] # {} \/ imm[c] # <<>>
    /\ Begin({}, FALSE, {c})
    /\ UNCHANGED alive_log_files

\* SwitchMemtable returned an error: the call ends, and WriteStatusCheck looks
\* at the error of a write
SwitchFails ==
    /\ "log" \in config.faults
    /\ call' = NULL
    /\ bg_error' = (bg_error \/ (config.paranoid /\ call.cfs # {}))

\* SwitchMemtable, the part without mutex_: a new log unless this one is empty
CreateLog(c) ==
    /\ call # NULL /\ call.pc = "switch" /\ c \in call.todo
    /\ \/ /\ log_empty
          /\ call' = [call EXCEPT !.pc = "install", !.cf = c, !.log = logfile_number]
          /\ UNCHANGED <<wal, next_file_number, bg_error>>
       \/ /\ ~log_empty
          /\ next_file_number' = next_file_number + 1
          /\ wal' = wal @@ (next_file_number :> NewLog)
          /\ call' = [call EXCEPT !.pc = "install", !.cf = c, !.log = next_file_number]
          /\ UNCHANGED bg_error
       \/ /\ ~log_empty
          /\ next_file_number' = next_file_number + 1
          /\ SwitchFails
          /\ UNCHANGED wal
    /\ UNCHANGED <<manifest, manifest_seq, edits, logVars, cfVars, openVars, history,
                   obsolete, manifest_writers, LastSequence, jobs, syncer>>

\* faulty: looks at the active memtable only
IgnoresImmutable(new_log) ==
    [d \in CFs |-> IF mem[d] = {} THEN new_log ELSE log_number[d]]

\* a column family with nothing in memory needs no log before the new one
AdvancedLogNumbers(new_log) ==
    [d \in CFs |-> IF mem[d] = {} /\ imm[d] = <<>> THEN new_log ELSE log_number[d]]

\* the new log is listed before WriteBuffer of the old one can fail the switch
SwitchMemtable(c) ==
    LET creating_new_log == call.log # logfile_number
    IN  /\ call # NULL /\ call.pc = "install" /\ c = call.cf
        /\ IF creating_new_log
           THEN /\ logfile_number' = call.log
                /\ log_empty' = TRUE
                /\ log_dir_synced' = FALSE
                /\ logs' = Append(logs, [number |-> call.log, getting_synced |-> FALSE])
                /\ alive_log_files' = Append(alive_log_files,
                       [number |-> call.log, getting_flushed |-> FALSE])
           ELSE UNCHANGED logVars
        /\ \/ /\ log_number' = IF creating_new_log THEN AdvancedLogNumbers(call.log)
                                                  ELSE log_number
              /\ imm' = [imm EXCEPT ![c] = Append(@,
                     [data |-> mem[c], next_log |-> call.log, job |-> NULL,
                      completed |-> FALSE, edit |-> NULL])]
              /\ mem' = [mem EXCEPT ![c] = {}]
              /\ call' = [call EXCEPT !.pc = "switch", !.todo = @ \ {c}, !.cf = NULL,
                                      !.log = 0]
              /\ UNCHANGED bg_error
           \/ /\ creating_new_log
              /\ SwitchFails
              /\ UNCHANGED <<log_number, imm, mem>>
        /\ UNCHANGED <<diskVars, version, commit_in_progress, openVars, history,
                       next_file_number, obsolete, manifest_writers, LastSequence,
                       jobs, syncer>>

\* the end of PreprocessWrite; with sync, after the syncs under way
PrepareWrite ==
    /\ call # NULL /\ call.pc = "switch" /\ call.todo = {}
    /\ IF call.cfs = {} \/ bg_error
       THEN call' = NULL /\ UNCHANGED logs
       ELSE /\ call' = [call EXCEPT !.pc = "append"]
            /\ call.sync => ~Head(logs).getting_synced
            /\ logs' = IF call.sync THEN Marked(logfile_number) ELSE logs
    /\ UNCHANGED <<diskVars, cfVars, openVars, history, logfile_number, log_empty,
                   log_dir_synced, alive_log_files, next_file_number, obsolete,
                   manifest_writers, bg_error, LastSequence, jobs, syncer>>

\* the end of a write that failed in WriteToWAL: MarkLogsSynced, WriteStatusCheck
WriteFails ==
    /\ IF call.sync THEN MarkLogsSynced(logfile_number, call.dir, FALSE)
                    ELSE UNCHANGED <<log_dir_synced, logs>>
    /\ bg_error' = (bg_error \/ config.paranoid)
    /\ call' = NULL

\* AddRecord.  When it fails, all of the record may be in the log, a part of it
\* (followed by nothing, if bg_error_ stops the writes) or none.
WriteToWAL ==
    /\ call # NULL /\ call.pc = "append"
    /\ log_empty' = FALSE
    /\ \/ /\ wal' = [wal EXCEPT ![logfile_number].recs = Append(@,
                 [id |-> Len(issued) + 1, seq |-> LastSequence + 1, cfs |-> call.cfs])]
          /\ issued' = Append(issued, [cfs |-> call.cfs, seq |-> LastSequence + 1])
          /\ \/ /\ call' = [call EXCEPT !.pc = IF call.sync THEN "sync" ELSE "insert"]
                /\ UNCHANGED <<log_dir_synced, logs, bg_error, limbo>>
             \/ /\ "log" \in config.faults
                /\ WriteFails
                /\ limbo' = limbo \cup Items(Len(issued) + 1, call.cfs)
       \/ /\ "log" \in config.faults
          /\ WriteFails
          /\ \E t \in {"clean"} \cup IF config.paranoid THEN {"short"} ELSE {} :
                 wal' = [wal EXCEPT ![logfile_number].tail = t]
          /\ UNCHANGED <<issued, limbo>>
    /\ UNCHANGED <<manifest, manifest_seq, edits, logfile_number, alive_log_files, cfVars,
                   openVars, promised, next_file_number, obsolete, manifest_writers,
                   LastSequence, jobs, syncer>>

\* faulty: syncs the current log only
SyncsCurrentLog ==
    /\ call # NULL /\ call.pc = "sync"
    /\ wal' = Synced(wal, {logfile_number}, call.dir)
    /\ call' = [call EXCEPT !.pc = "insert"]
    /\ UNCHANGED <<manifest, manifest_seq, edits, logVars, cfVars, openVars, history,
                   bg_error, next_file_number, obsolete, manifest_writers,
                   LastSequence, jobs, syncer>>

\* the syncs of WriteToWAL; a failed write has left its record in the log
SyncLogs ==
    /\ call # NULL /\ call.pc = "sync"
    /\ \/ /\ wal' = Synced(wal, Numbers(logs), call.dir)
          /\ call' = [call EXCEPT !.pc = "insert"]
          /\ UNCHANGED <<log_dir_synced, logs, bg_error, limbo>>
       \/ /\ SyncFails(Numbers(logs), call.dir)
          /\ WriteFails
          /\ limbo' = limbo \cup Items(Len(issued), call.cfs)
    /\ UNCHANGED <<manifest, manifest_seq, edits, logfile_number, log_empty,
                   alive_log_files, cfVars, openVars, issued, promised,
                   next_file_number, obsolete, manifest_writers, LastSequence,
                   jobs, syncer>>

\* faulty: passes over a column family that is being flushed
SkipsFlushing ==
    LET id == Len(issued)
    IN  /\ call # NULL /\ call.pc = "insert"
        /\ mem' = [c \in CFs |-> IF c \in call.cfs /\ imm[c] = <<>> THEN mem[c] \cup {id}
                                                                  ELSE mem[c]]
        /\ LastSequence' = LastSequence + Cardinality(call.cfs)
        /\ IF call.sync
           THEN /\ MarkLogsSynced(logfile_number, call.dir, TRUE)
                /\ promised' = promised \cup Contents
           ELSE UNCHANGED <<log_dir_synced, logs, promised>>
        /\ call' = NULL
        /\ UNCHANGED <<diskVars, imm, log_number, version, commit_in_progress, openVars,
                       issued, limbo, logfile_number, log_empty, alive_log_files,
                       next_file_number, obsolete, manifest_writers, bg_error, jobs,
                       syncer>>

\* memtable insert, MarkLogsSynced, SetLastSequence.  A synced write promises
\* itself and everything before it.
InsertAndPublish ==
    LET id == Len(issued)
    IN  /\ call # NULL /\ call.pc = "insert"
        /\ mem' = [c \in CFs |-> IF c \in call.cfs THEN mem[c] \cup {id} ELSE mem[c]]
        /\ LastSequence' = LastSequence + Cardinality(call.cfs)
        /\ IF call.sync
           THEN /\ MarkLogsSynced(logfile_number, call.dir, TRUE)
                /\ promised' = promised \cup Contents \cup Items(id, call.cfs)
           ELSE UNCHANGED <<log_dir_synced, logs, promised>>
        /\ call' = NULL
        /\ UNCHANGED <<diskVars, imm, log_number, version, commit_in_progress, openVars,
                       issued, limbo, logfile_number, log_empty, alive_log_files,
                       next_file_number, obsolete, manifest_writers, bg_error, jobs,
                       syncer>>

-----------------------------------------------------------------------------
(***************************************************************************)
(* SyncWAL: wait for the syncs under way, set the flags, sync without      *)
(* mutex_, reset the flags.  It promises what was written when it was      *)
(* called.                                                                 *)
(***************************************************************************)
SyncWALCall ==
    /\ config.sync_wal /\ state = "open" /\ syncer = Idle
    /\ syncer' = [pc |-> "wait", up_to |-> logfile_number, dir |-> FALSE,
                  goal |-> Contents]
    /\ UNCHANGED <<diskVars, logVars, cfVars, openVars, history, next_file_number,
                   obsolete, manifest_writers, bg_error, LastSequence, call, jobs>>

SyncWALStart ==
    /\ syncer.pc = "wait"
    /\ Head(logs).number <= syncer.up_to => ~Head(logs).getting_synced
    /\ logs' = Marked(syncer.up_to)
    /\ syncer' = [syncer EXCEPT !.pc = "sync", !.dir = ~log_dir_synced]
    /\ UNCHANGED <<diskVars, cfVars, openVars, history, logfile_number, log_empty,
                   log_dir_synced, alive_log_files, next_file_number, obsolete,
                   manifest_writers, bg_error, LastSequence, call, jobs>>

SyncWALFiles ==
    /\ syncer.pc = "sync"
    /\ LET numbers == {n \in Numbers(logs) : n <= syncer.up_to}
       IN  \/ /\ wal' = Synced(wal, numbers, syncer.dir)
              /\ syncer' = [syncer EXCEPT !.pc = "synced"]
           \/ /\ SyncFails(numbers, syncer.dir)
              /\ syncer' = [syncer EXCEPT !.pc = "failed"]
    /\ UNCHANGED <<manifest, manifest_seq, edits, logVars, cfVars, openVars, history,
                   next_file_number, obsolete, manifest_writers, bg_error,
                   LastSequence, call, jobs>>

SyncWALEnd ==
    /\ syncer.pc \in {"synced", "failed"}
    /\ MarkLogsSynced(syncer.up_to, syncer.dir, syncer.pc = "synced")
    /\ promised' = IF syncer.pc = "synced" THEN promised \cup syncer.goal ELSE promised
    /\ syncer' = Idle
    /\ UNCHANGED <<diskVars, logfile_number, log_empty, alive_log_files, cfVars, openVars,
                   issued, limbo, next_file_number, obsolete, manifest_writers,
                   bg_error, LastSequence, call, jobs>>

-----------------------------------------------------------------------------
(***************************************************************************)
(* Flush jobs                                                              *)
(***************************************************************************)
JobMoves(j, pc) == jobs' = [jobs EXCEPT ![j].pc = pc]

\* the memtables the job has picked and not yet completed
Mems(j, c) == {i \in DOMAIN imm[c] : imm[c][i].job = j /\ ~imm[c][i].completed}

\* imm with the memtables of c at the places DOMAIN new replaced by those of new
ImmWith(c, new) ==
    [imm EXCEPT ![c] = [i \in DOMAIN imm[c] |-> IF i \in DOMAIN new THEN new[i]
                                                               ELSE imm[c][i]]]

\* ready to be picked again
Reset(c, S) ==
    ImmWith(c, [i \in S |-> [imm[c][i] EXCEPT !.job = NULL, !.completed = FALSE,
                                              !.edit = NULL]])

\* FlushJob::PickMemTable: all that no job has, their edit in the oldest
PickMemTable(j, c) ==
    LET picked == {i \in DOMAIN imm[c] : imm[c][i].job = NULL}
        edit == [cf |-> c, log_number |-> imm[c][Max(picked)].next_log, data |-> {},
                 gone |-> FALSE]
    IN  /\ state = "open" /\ ~bg_error /\ jobs[j].pc = "idle"
        /\ Cardinality({k \in Jobs : jobs[k] # Idle}) < config.max_flushes
        /\ picked # {}
        /\ imm' = ImmWith(c, [i \in picked |->
                      [imm[c][i] EXCEPT !.job = j,
                                        !.edit = IF i = Min(picked) THEN edit ELSE NULL]])
        /\ jobs' = [jobs EXCEPT ![j] = [pc |-> "sync", cf |-> c, count |-> 0, del |-> {},
                                        up_to |-> logfile_number - 1]]
        /\ UNCHANGED <<diskVars, logVars, mem, log_number, version, commit_in_progress,
                       openVars, history, next_file_number, obsolete,
                       manifest_writers, bg_error, LastSequence, call, syncer>>

\* SyncClosedLogs: wait for and mark the logs closed when the job began
SyncClosedLogs(j) ==
    LET up_to == jobs[j].up_to
        closed == {n \in Numbers(logs) : n <= up_to}
    IN  /\ jobs[j].pc = "sync"
        /\ Head(logs).number <= up_to => ~Head(logs).getting_synced
        /\ logs' = Marked(up_to)
        /\ JobMoves(j, IF closed = {} THEN "build" ELSE "syncing")
        /\ UNCHANGED <<diskVars, logfile_number, log_empty, log_dir_synced,
                       alive_log_files, cfVars, openVars, history,
                       next_file_number, obsolete, manifest_writers, bg_error,
                       LastSequence, call, syncer>>

\* ... sync them; after an error Cancel leaves the memtables picked
ClosedLogsSynced(j) ==
    LET numbers == {n \in Numbers(logs) : n <= jobs[j].up_to}
        c == jobs[j].cf
    IN  /\ jobs[j].pc = "syncing"
        /\ \/ /\ wal' = Synced(wal, numbers, TRUE)
              /\ MarkLogsSynced(jobs[j].up_to, TRUE, TRUE)
              /\ JobMoves(j, "build")
              /\ UNCHANGED <<bg_error, imm>>
           \/ /\ SyncFails(numbers, TRUE)
              /\ MarkLogsSynced(jobs[j].up_to, TRUE, FALSE)
              /\ bg_error' = TRUE
              /\ imm' = ImmWith(c, [i \in Mems(j, c) |-> [imm[c][i] EXCEPT !.job = "nobody"]])
              /\ JobMoves(j, "cleanup")
        /\ UNCHANGED <<manifest, manifest_seq, edits, logfile_number, log_empty,
                       alive_log_files, mem, log_number, version, commit_in_progress,
                       openVars, history, next_file_number, obsolete,
                       manifest_writers, LastSequence, call, syncer>>

\* FlushJob::Run up to the commit loop: WriteLevel0Table, then
\* RollbackMemtableFlush or the start of InstallMemtableFlushResults
WriteLevel0Table(j) ==
    LET c == jobs[j].cf
        mems == Mems(j, c)
        table == UNION {imm[c][i].data : i \in mems}
    IN  /\ jobs[j].pc = "build"
        /\ \/ /\ imm' = ImmWith(c, [i \in mems |->
                            [imm[c][i] EXCEPT !.completed = TRUE,
                                 !.edit = IF @ = NULL THEN NULL ELSE [@ EXCEPT !.data = table]]])
              /\ commit_in_progress' = [commit_in_progress EXCEPT ![c] = TRUE]
              /\ JobMoves(j, IF commit_in_progress[c] THEN "cleanup" ELSE "commit")
              /\ UNCHANGED bg_error
           \/ /\ "table" \in config.faults
              /\ imm' = Reset(c, mems)
              /\ bg_error' = (bg_error \/ config.paranoid)
              /\ JobMoves(j, "cleanup")
              /\ UNCHANGED commit_in_progress
        /\ UNCHANGED <<diskVars, logVars, mem, log_number, version, openVars, history,
                       next_file_number, obsolete, manifest_writers,
                       LastSequence, call, syncer>>

\* InstallMemtableFlushResults, one turn of its loop: queue the edits of the
\* oldest completed memtables, or leave when the oldest is not completed
CommitFlushes(j) ==
    LET c == jobs[j].cf
        open == {i \in DOMAIN imm[c] : ~imm[c][i].completed}
        count == Min(open \cup {Len(imm[c]) + 1}) - 1
    IN  /\ jobs[j].pc = "commit"
        /\ IF count = 0
           THEN /\ commit_in_progress' = [commit_in_progress EXCEPT ![c] = FALSE]
                /\ JobMoves(j, "cleanup")
                /\ UNCHANGED manifest_writers
           ELSE /\ manifest_writers' = Append(manifest_writers, j)
                /\ jobs' = [jobs EXCEPT ![j].pc = "queued", ![j].count = count]
                /\ UNCHANGED commit_in_progress
        /\ UNCHANGED <<diskVars, logVars, mem, imm, log_number, version, openVars,
                       history, next_file_number, obsolete, bg_error, LastSequence,
                       call, syncer>>

\* the edits of the memtables a committing job has queued
Edits(j) ==
    LET c == jobs[j].cf
        first == SelectSeq(SubSeq(imm[c], 1, jobs[j].count), LAMBDA m : m.edit # NULL)
    IN  [i \in DOMAIN first |-> first[i].edit]

\* LogAndApply at the head of the queue: the records go to the MANIFEST
WriteManifest(j) ==
    /\ jobs[j].pc = "queued" /\ Head(manifest_writers) = j
    /\ edits' = edits \o [i \in DOMAIN Edits(j) |-> Edits(j)[i] @@ [seq |-> LastSequence]]
    /\ JobMoves(j, "manifest")
    /\ UNCHANGED <<wal, manifest, manifest_seq, logVars, cfVars, openVars, history,
                   next_file_number, obsolete, manifest_writers, bg_error,
                   LastSequence, call, syncer>>

\* ... which is synced, and the result installed.  A flush promises what it
\* wrote and every earlier write.
InstallFlush(j) ==
    LET c == jobs[j].cf
        es == Edits(j)
        flushed == UNION {es[i].data : i \in DOMAIN es}
    IN  /\ jobs[j].pc = "manifest"
        /\ manifest' = Applied(manifest, edits)
        /\ manifest_seq' = AppliedSeq(manifest_seq, edits)
        /\ edits' = <<>>
        /\ log_number' = [log_number EXCEPT ![c] = Max({es[i].log_number : i \in DOMAIN es})]
        /\ version' = [version EXCEPT ![c] = @ \cup flushed]
        /\ imm' = [imm EXCEPT ![c] = SubSeq(@, jobs[j].count + 1, Len(@))]
        /\ manifest_writers' = Tail(manifest_writers)
        /\ promised' = promised \cup
               {x \in Contents : \E id \in flushed : x[1] <= id}
        /\ jobs' = [jobs EXCEPT ![j].pc = "commit", ![j].count = 0]
        /\ UNCHANGED <<wal, logVars, mem, commit_in_progress, openVars, issued, limbo,
                       next_file_number, obsolete, bg_error, LastSequence, call,
                       syncer>>

\* ... or the write of the MANIFEST failed: some records may be in it, and
\* the table files they name are deleted
ManifestFails(j) ==
    LET c == jobs[j].cf
        own == Len(Edits(j))
    IN  /\ jobs[j].pc = "manifest" /\ "manifest" \in config.faults
        /\ \E kept \in 0 .. own :
               edits' = [i \in 1 .. (Len(edits) - own + kept) |->
                            [edits[i] EXCEPT !.data = {}, !.gone = TRUE]]
        /\ imm' = Reset(c, 1 .. jobs[j].count)
        /\ commit_in_progress' = [commit_in_progress EXCEPT ![c] = FALSE]
        /\ manifest_writers' = Tail(manifest_writers)
        /\ bg_error' = (bg_error \/ config.paranoid)
        /\ jobs' = [jobs EXCEPT ![j].pc = "cleanup", ![j].count = 0]
        /\ UNCHANGED <<wal, manifest, manifest_seq, logVars, mem, log_number, version,
                       openVars, history, next_file_number, obsolete, LastSequence,
                       call, syncer>>

-----------------------------------------------------------------------------
(***************************************************************************)
(* Obsolete logs                                                           *)
(***************************************************************************)
MinLogNumberToKeep == Min({log_number[c] : c \in CFs})

Kept(s, min) == SelectSeq(s, LAMBDA l : l.number >= min)

FindObsoleteFiles(j) ==
    LET min == MinLogNumberToKeep
    IN  /\ jobs[j].pc = "cleanup"
        /\ alive_log_files' = Kept(alive_log_files, min)
        /\ jobs' = [jobs EXCEPT ![j].pc = "trim", ![j].up_to = min,
               ![j].del = {n \in Numbers(alive_log_files) : n < min}]
        /\ UNCHANGED <<diskVars, logfile_number, log_empty, log_dir_synced, logs, cfVars,
                       openVars, history, next_file_number, obsolete,
                       manifest_writers, bg_error, LastSequence, call, syncer>>

\* ... then logs_, once nobody syncs them
TrimLogs(j) ==
    /\ jobs[j].pc = "trim"
    /\ Head(logs).number < jobs[j].up_to => ~Head(logs).getting_synced
    /\ logs' = Kept(logs, jobs[j].up_to)
    /\ obsolete' = obsolete \cup jobs[j].del
    /\ jobs' = [jobs EXCEPT ![j] = Idle]
    /\ UNCHANGED <<diskVars, logfile_number, log_empty, log_dir_synced, alive_log_files,
                   cfVars, openVars, history, next_file_number, manifest_writers,
                   bg_error, LastSequence, call, syncer>>

PurgeObsoleteFile(n) ==
    /\ n \in obsolete
    /\ obsolete' = obsolete \ {n}
    /\ wal' = Restrict(wal, DOMAIN wal \ {n})
    /\ UNCHANGED <<manifest, manifest_seq, edits, logVars, cfVars, openVars, history,
                   next_file_number, manifest_writers, bg_error, LastSequence,
                   call, jobs, syncer>>

-----------------------------------------------------------------------------
(***************************************************************************)
(* A crash keeps of every log a prefix with what was synced, and of the    *)
(* unsynced MANIFEST records a prefix.                                     *)
(***************************************************************************)
AfterCrash(f) ==
    IF ~config.power THEN {f}
    ELSE {[recs |-> SubSeq(f.recs, 1, n), synced |-> n, entry |-> TRUE, tail |-> t] :
              <<n, t>> \in {<<n, t>> \in (f.synced .. Len(f.recs)) \X Tails :
                  IF n = Len(f.recs) THEN t = f.tail ELSE t \in config.tails}}

\* every combination of what may be left of the files in S
Remains(S) ==
    FoldSet(LAMBDA n, acc : {g @@ (n :> f) : g \in acc, f \in AfterCrash(wal[n])},
            {<<>>}, S)

\* what the DB holds or is about to: the record of a write comes first
Accepted ==
    Contents \cup limbo \cup
        IF call # NULL /\ call.pc \in {"sync", "insert"} THEN Items(Len(issued), call.cfs)
                                                       ELSE {}

\* the end of the process, or of a DBImpl that failed to open
MemoryIsLost ==
    /\ state' = "closed"
    /\ unrecovered' = {} /\ recover_flush' = FALSE
    /\ logfile_number' = 0 /\ log_empty' = TRUE /\ log_dir_synced' = FALSE
    /\ logs' = <<>> /\ alive_log_files' = <<>> /\ obsolete' = {}
    /\ next_file_number' = 0
    /\ mem' = [c \in CFs |-> {}] /\ imm' = [c \in CFs |-> <<>>]
    /\ log_number' = [c \in CFs |-> 0] /\ version' = [c \in CFs |-> {}]
    /\ commit_in_progress' = [c \in CFs |-> FALSE] /\ manifest_writers' = <<>>
    /\ bg_error' = FALSE /\ LastSequence' = 0
    /\ call' = NULL /\ jobs' = [j \in Jobs |-> Idle] /\ syncer' = Idle
    /\ limbo' = Accepted
    /\ UNCHANGED <<config, issued>>

\* when only the process crashes, all that was written is promised
Crash ==
    /\ state \in {"recovering", "opening", "open"} /\ crashes < config.crashes
    /\ crashes' = crashes + 1
    /\ \E S \in SUBSET DOMAIN wal :
           /\ \A n \in DOMAIN wal \ S : ~wal[n].entry /\ config.power
           /\ wal' \in Remains(S)
    /\ \E k \in (IF config.power THEN 0 ELSE Len(edits)) .. Len(edits) :
           /\ manifest' = Applied(manifest, SubSeq(edits, 1, k))
           /\ manifest_seq' = AppliedSeq(manifest_seq, SubSeq(edits, 1, k))
    /\ edits' = <<>>
    /\ promised' = IF config.power THEN promised ELSE promised \cup Contents
    /\ MemoryIsLost

-----------------------------------------------------------------------------
(***************************************************************************)
(* DB::Open                                                                *)
(***************************************************************************)
MaxLog == Max(DOMAIN wal)

\* Recover and RecoverLogFiles up to the writes to the MANIFEST.  A memtable
\* that fills up on the way is flushed, and then all of them are.
Recover ==
    /\ state = "closed"
    /\ IF Replay.error
       THEN /\ state' = "failed"
            /\ UNCHANGED <<unrecovered, recover_flush, mem, log_number, version,
                           LastSequence, next_file_number, limbo>>
       ELSE /\ state' = "recovering"
            /\ limbo' = {}
            /\ mem' = Replay.mem
            /\ log_number' = [c \in CFs |-> manifest[c].log_number]
            /\ version' = [c \in CFs |-> manifest[c].data]
            /\ LastSequence' = Max({manifest_seq, Max({Replay.next, 1}) - 1})
            /\ unrecovered' = {c \in CFs : DOMAIN wal # {} /\ manifest[c].log_number <= MaxLog}
            /\ \/ recover_flush' = ~config.avoid_flush
               \/ (\E c \in CFs : Replay.mem[c] # {}) /\ recover_flush' = TRUE
            /\ next_file_number' =
                   Max({manifest[c].log_number : c \in CFs} \cup DOMAIN wal) + 1
    /\ UNCHANGED <<diskVars, logVars, imm, commit_in_progress, config, crashes, issued,
                   promised, obsolete, manifest_writers, bg_error, call, jobs, syncer>>

\* RecoverLogFiles, the flush and the MANIFEST record of one column family
RecoverColumnFamily(c) ==
    LET table == IF recover_flush THEN mem[c] ELSE {}
        number == IF recover_flush \/ mem[c] = {} THEN MaxLog + 1 ELSE log_number[c]
    IN  /\ state = "recovering" /\ c \in unrecovered
        /\ manifest' = [manifest EXCEPT ![c].log_number = number, ![c].data = @ \cup table]
        /\ manifest_seq' = Max({manifest_seq, LastSequence})
        /\ version' = [version EXCEPT ![c] = @ \cup table]
        /\ mem' = [mem EXCEPT ![c] = @ \ table]
        /\ log_number' = [log_number EXCEPT ![c] = number]
        /\ next_file_number' = Max({next_file_number, MaxLog + 2})
        /\ unrecovered' = unrecovered \ {c}
        /\ UNCHANGED <<wal, edits, logVars, imm, commit_in_progress, config, crashes,
                       state, recover_flush, history, obsolete, manifest_writers,
                       bg_error, LastSequence, call, jobs, syncer>>

\* the new log; the old ones stay alive if memtables depend on them
NewLogOnOpen ==
    LET n == next_file_number
        old == IF \E c \in CFs : mem[c] # {} THEN SetToSortSeq(DOMAIN wal, <) ELSE <<>>
        alive == [i \in 1 .. Len(old) + 1 |->
                     [number |-> Append(old, n)[i], getting_flushed |-> FALSE]]
    IN  /\ state = "recovering" /\ unrecovered = {} /\ n <= config.files
        /\ wal' = wal @@ (n :> NewLog)
        /\ logfile_number' = n
        /\ logs' = <<[number |-> n, getting_synced |-> FALSE]>>
        /\ alive_log_files' = Kept(alive, MinLogNumberToKeep)
        /\ obsolete' = {m \in DOMAIN wal : m < MinLogNumberToKeep}
        /\ next_file_number' = n + 1
        /\ state' = "opening" /\ recover_flush' = FALSE
        /\ UNCHANGED <<manifest, manifest_seq, edits, log_empty, log_dir_synced, cfVars,
                       config, crashes, unrecovered, history, manifest_writers,
                       bg_error, LastSequence, call, jobs, syncer>>

\* Fsync of the DB's directory, which is that of the logs unless wal_dir is set
FinishOpen ==
    /\ state = "opening" /\ obsolete = {}
    /\ state' = "open"
    /\ wal' = Synced(wal, {}, ~config.wal_dir)
    /\ UNCHANGED <<manifest, manifest_seq, edits, logVars, cfVars, config, crashes,
                   unrecovered, recover_flush, history, next_file_number, obsolete,
                   manifest_writers, bg_error, LastSequence, call, jobs, syncer>>

\* a table, a MANIFEST record, the new log or the Fsync fails: Open returns the
\* error and may be called again.  A failed record may be in the MANIFEST: this
\* is RecoverColumnFamily and then OpenFails.
OpenFails ==
    /\ state \in {"recovering", "opening"}
    /\ {"log", "sync", "table", "manifest"} \cap config.faults # {}
    /\ MemoryIsLost
    /\ UNCHANGED <<diskVars, promised, crashes>>

-----------------------------------------------------------------------------
WriterStep ==
    \/ \E c \in CFs : CreateLog(c) \/ SwitchMemtable(c)
    \/ PrepareWrite \/ WriteToWAL \/ SyncLogs \/ InsertAndPublish

JobStep(j) ==
    \/ SyncClosedLogs(j) \/ ClosedLogsSynced(j) \/ WriteLevel0Table(j)
    \/ CommitFlushes(j) \/ WriteManifest(j) \/ InstallFlush(j) \/ ManifestFails(j)
    \/ FindObsoleteFiles(j) \/ TrimLogs(j)

OpenStep ==
    \/ Recover \/ NewLogOnOpen \/ FinishOpen \/ OpenFails
    \/ \E c \in CFs : RecoverColumnFamily(c)

Next ==
    \/ \E cfs \in SUBSET CFs, sync \in BOOLEAN :
           \/ Write(cfs, sync) \/ WriteOverWalSize(cfs, sync)
           \/ \E full \in SUBSET CFs : WriteOverBufferSize(cfs, sync, full)
    \/ \E c \in CFs : FlushMemTable(c)
    \/ WriterStep
    \/ SyncWALCall \/ SyncWALStart \/ SyncWALFiles \/ SyncWALEnd
    \/ \E j \in Jobs, c \in CFs : PickMemTable(j, c)
    \/ \E j \in Jobs : JobStep(j)
    \/ \E n \in obsolete : PurgeObsoleteFile(n)
    \/ Crash
    \/ OpenStep

Spec == Init /\ [][Next]_vars

-----------------------------------------------------------------------------
(***************************************************************************)
(* Properties                                                              *)
(***************************************************************************)
Store == INSTANCE StableStore WITH
    used <- UNION {Items(i, issued[i].cfs) : i \in DOMAIN issued},
    accepted <- Accepted,
    stable <- promised

\* Whatever the interleaving of writers, flushes, MANIFEST writes, log deletions
\* and crashes, an item that a synced write, SyncWAL or a flush has promised is
\* never lost, and no lost item comes back.  If only the process crashes, all
\* that was written counts as promised.  Three combinations break it and are not
\* among the configurations: synced writes and a directory that forgets new
\* files (need_log_dir_sync is read before the log is switched), SyncWAL beside
\* a switch and a loss of power (see UnsyncedIsListed), and a MANIFEST write
\* that fails without paranoid_checks.
ImplementsStore == Store!Spec

\* A batch over several column families is there whole or not at all once the
\* DB is open, although its column families flush at different times
\* (FlushMemTableToOutputFile calls SyncClosedLogs for this).
BatchesStayWhole ==
    state = "open" /\ call = NULL =>
        \A i \in DOMAIN issued :
            {c \in issued[i].cfs : <<i, c>> \in Contents} \in {{}, issued[i].cfs}

\* Whatever is in a memtable is in a log that is not up for deletion and that
\* recovery would read for that column family (log_number, SetLogNumber of
\* empty column families, FindObsoleteFiles).  Not covered: a MANIFEST write that
\* fails without paranoid_checks, whose record may be there all the same.
UnflushedIsLogged ==
    state = "open" =>
        \A c \in CFs :
            \A id \in mem[c] \cup UNION {imm[c][i].data : i \in DOMAIN imm[c]} :
                \E n \in DOMAIN wal \ obsolete :
                    /\ n >= log_number[c] /\ n >= manifest[c].log_number
                    /\ \E r \in Range(wal[n].recs) : r.id = id /\ c \in r.cfs

\* What the code asserts or states of logs_: never empty, the current log is
\* its last, and getting_synced "is true for some prefix of logs_" (db_impl.h).
LogsListOK ==
    state = "open" =>
        /\ logs # <<>> /\ Last(logs).number = logfile_number
        /\ \A i, k \in DOMAIN logs : i < k => /\ logs[i].number < logs[k].number
                                              /\ logs[k].getting_synced => logs[i].getting_synced
        /\ Numbers(logs) \cap obsolete = {}
        /\ alive_log_files # <<>> /\ Last(alive_log_files).number = logfile_number

\* Two writes that readers find have different sequence numbers, and the next
\* write gets a greater one: LogAndApply stores LastSequence with every flush,
\* and recovery takes the larger of the MANIFEST's and the logs', although logs
\* were deleted, cut short or skipped.  Not so without paranoid_checks after a
\* failed append or sync: the number of the record left in the log is used again.
SequencesStayFresh ==
    /\ state = "open" /\ call = NULL
    /\ config.paranoid \/ config.faults \cap {"log", "sync"} = {}
    => LET found == {x[1] : x \in Contents}
           end(i) == issued[i].seq + Cardinality(issued[i].cfs) - 1
       IN  \A i \in found : /\ end(i) <= LastSequence
                            /\ \A k \in found : i < k => end(i) < issued[k].seq

\* "Log files that aren't fully synced, and the current log file." (logs_ in
\* db_impl.h): a log outside of logs_ holds nothing that is not synced.
UnsyncedIsListed ==
    state = "open" =>
        \A n \in DOMAIN wal \ (obsolete \cup Numbers(logs)) :
            wal[n].synced = Len(wal[n].recs)
=============================================================================
