----------------------------- MODULE StatsFile ------------------------------
(***************************************************************************)
(* The persistent counters: load_stats, save_stats and to_persisted in     *)
(* src/src/metrics.rs, the periodic save and the save at shutdown in       *)
(* run_serve (src/src/main.rs).                                            *)
(*                                                                         *)
(* A save writes a temporary file, whose name is always the same, and      *)
(* renames it.  The file system (external) is modelled by what the names   *)
(* refer to: std::fs::write opens and truncates the file the name refers   *)
(* to at that moment, and writes to that file even if it has been renamed  *)
(* since.  The periodic save runs on a blocking thread that shutdown does  *)
(* not stop, beside the final save.                                        *)
(*                                                                         *)
(* One counter stands for all; it only grows, so a newer text is never     *)
(* shorter than an older one.  The process may die at any point; the       *)
(* machine does not, so nothing written is lost.                           *)
(***************************************************************************)
EXTENDS Integers

CONSTANTS Files,        \* names for file bodies (inodes)
          MaxCount,     \* bound: the counter
          NoFile, NoValue, Garbage

Savers == {"periodic", "final"}

Values == 0 .. MaxCount

ASSUME StatsAssumption == /\ MaxCount \in Nat
                          /\ NoFile \notin Files
                          /\ {NoValue, Garbage} \cap Values = {}
                          /\ NoValue # Garbage

VARIABLES proc,       \* the process: down, running or stopping
          count,      \* the counter in memory
          pc,         \* where each save stands
          snap,       \* the PersistedMetrics it writes
          fd,         \* the file it has open
          tmp, path,  \* the files the two names refer to
          body,       \* NoValue where a file is empty
          saved,      \* history: the snapshot of the latest save that went well
          graceful,   \* history: the snapshot the shutdown has saved
          io_error,   \* history: a save of this process has met an I/O error
          overlap,    \* history: two saves were ever under way together
          unread      \* history: the process started without the file there was,
                      \* and has not replaced it yet

statsVars == <<proc, count, pc, snap, fd, tmp, path, body, saved, graceful, io_error,
               overlap, unread>>

disk    == <<tmp, path, body>>
history == <<saved, graceful, io_error, overlap, unread>>

StatsTypeOK == /\ proc \in {"down", "running", "stopping"}
               /\ count \in Values
               /\ pc \in [Savers -> {"idle", "open", "write", "rename"}]
               /\ snap \in [Savers -> Values]
               /\ fd \in [Savers -> Files \cup {NoFile}]
               /\ tmp \in Files \cup {NoFile} /\ path \in Files \cup {NoFile}
               /\ body \in [Files -> Values \cup {NoValue, Garbage}]
               /\ saved \in Values
               /\ graceful \in Values \cup {NoValue}
               /\ io_error \in BOOLEAN /\ overlap \in BOOLEAN /\ unread \in BOOLEAN

StatsInit == /\ proc = "down"
             /\ count = 0
             /\ pc = [s \in Savers |-> "idle"]
             /\ snap = [s \in Savers |-> 0]
             /\ fd = [s \in Savers |-> NoFile]
             /\ tmp = NoFile /\ path = NoFile
             /\ body = [f \in Files |-> NoValue]
             /\ saved = 0
             /\ graceful = NoValue
             /\ io_error = FALSE /\ overlap = FALSE /\ unread = FALSE

-----------------------------------------------------------------------------
\* Mutant: whatever the file holds is taken for counters.
Parses_Always(f) == TRUE

Parses(f) == body[f] \in Values

\* load_stats and from_persisted.  A file that does not parse is removed, if it
\* can be; one that cannot be read stays, and the counters start from zero.
Load == /\ proc = "down"
        /\ proc' = "running"
        /\ \/ /\ path # NoFile /\ Parses(path)
              /\ count' = body[path]
              /\ unread' = FALSE
              /\ UNCHANGED path
           \/ /\ path # NoFile => ~Parses(path)
              /\ count' = 0
              /\ unread' = FALSE
              /\ path' \in {NoFile, path}
           \/ /\ path # NoFile
              /\ count' = 0
              /\ unread' = TRUE
              /\ UNCHANGED path
        /\ graceful' = NoValue
        /\ io_error' = FALSE
        /\ UNCHANGED <<pc, snap, fd, tmp, body, saved, overlap>>

\* A query is counted; connections are served while the process is stopping.
Count == /\ proc # "down"
         /\ count < MaxCount
         /\ count' = count + 1
         /\ UNCHANGED <<proc, pc, snap, fd, disk, history>>

\* to_persisted, and save_stats begins.
Begin(s) == /\ pc[s] = "idle"
            /\ pc' = [pc EXCEPT ![s] = "open"]
            /\ snap' = [snap EXCEPT ![s] = count]
            /\ overlap' = (overlap \/ \E other \in Savers : pc[other] # "idle")
            /\ UNCHANGED <<count, fd, disk, saved, io_error, unread>>

\* The ticker of the periodic save.
Periodic == /\ proc # "down"
            /\ Begin("periodic")
            /\ UNCHANGED <<proc, graceful>>

\* SIGTERM or SIGINT.
Signal == /\ proc = "running"
          /\ proc' = "stopping"
          /\ Begin("final")
          /\ UNCHANGED graceful

\* A file that neither a name nor an open descriptor refers to.
Free(f) == f # tmp /\ f # path /\ \A s \in Savers : fd[s] # f

\* Mutant: the statistics are written in place.
Target_InPlace == path

\* The file save_stats writes to, if it exists.
Target == tmp

\* std::fs::write opens, and creates or truncates, the temporary file.
Open(s) ==
    /\ pc[s] = "open"
    /\ pc' = [pc EXCEPT ![s] = "write"]
    /\ \E f \in Files : /\ IF Target = NoFile THEN Free(f) ELSE f = Target
                        /\ fd' = [fd EXCEPT ![s] = f]
                        /\ body' = [body EXCEPT ![f] = NoValue]
                        /\ tmp' = IF Target = NoFile THEN f ELSE tmp
    /\ UNCHANGED <<proc, count, snap, path, history>>

\* What a file holds once v is written over u: an older, shorter text leaves a
\* tail of the newer one behind.
Overwritten(u, v) ==
    IF u = Garbage \/ (u \in Values /\ v < u) THEN {v, Garbage} ELSE {v}

\* std::fs::write writes to the file it has opened.
Write(s) ==
    /\ pc[s] = "write"
    /\ pc' = [pc EXCEPT ![s] = "rename"]
    /\ \E v \in Overwritten(body[fd[s]], snap[s]) : body' = [body EXCEPT ![fd[s]] = v]
    /\ fd' = [fd EXCEPT ![s] = NoFile]
    /\ UNCHANGED <<proc, count, snap, tmp, path, history>>

\* The save of s is over.
Finish(s) == /\ pc' = [pc EXCEPT ![s] = "idle"]
             /\ snap' = [snap EXCEPT ![s] = 0]
             /\ fd' = [fd EXCEPT ![s] = NoFile]

\* save_stats ends with the rename of whatever the temporary name refers to.
Rename(s) == /\ pc[s] = "rename"
             /\ tmp # NoFile
             /\ path' = tmp
             /\ tmp' = NoFile
             /\ saved' = snap[s]
             /\ graceful' = IF s = "final" THEN snap[s] ELSE graceful
             /\ unread' = FALSE
             /\ Finish(s)
             /\ UNCHANGED <<proc, count, body, io_error, overlap>>

\* Another save has renamed the temporary file: the rename fails.
RenameGone(s) == /\ pc[s] = "rename"
                 /\ tmp = NoFile
                 /\ Finish(s)
                 /\ UNCHANGED <<proc, count, disk, history>>

\* The open, the write or the rename fails: save_stats returns the error, which
\* is logged.
Fail(s) == /\ pc[s] # "idle"
           /\ Finish(s)
           /\ io_error' = TRUE
           /\ UNCHANGED <<proc, count, disk, saved, graceful, overlap, unread>>

\* run_serve returns and the runtime is dropped, once a save that has started
\* on a blocking thread is over.
Return == /\ proc = "stopping"
          /\ \A s \in Savers : pc[s] = "idle"
          /\ proc' = "down"
          /\ count' = 0
          /\ UNCHANGED <<pc, snap, fd, disk, history>>

\* The process dies.
Crash == /\ proc # "down"
         /\ proc' = "down"
         /\ count' = 0
         /\ pc' = [s \in Savers |-> "idle"]
         /\ snap' = [s \in Savers |-> 0]
         /\ fd' = [s \in Savers |-> NoFile]
         /\ graceful' = NoValue
         /\ UNCHANGED <<disk, saved, io_error, overlap, unread>>

StatsNext == \/ Load \/ Count \/ Periodic \/ Signal \/ Return \/ Crash
             \/ \E s \in Savers : \/ Open(s) \/ Write(s) \/ Rename(s)
                                  \/ RenameGone(s) \/ Fail(s)

StatsSpec == StatsInit /\ [][StatsNext]_statsVars

-----------------------------------------------------------------------------
\* As long as saves do not overlap, a counter never falls below its value at
\* the latest save that went well, over restarts too: wherever a save fails or the
\* process dies, the next start finds a file that parses, with that value.  The
\* exception is a start that cannot read the file (load_stats, any error but
\* NotFound): it counts from zero, and its own first save ends the exception by
\* replacing what the file held.
CountersNeverFallBack == ~overlap /\ ~unread /\ proc # "down" => count >= saved

\* examples/dotdns.toml: "Cumulative counters are saved here every 60 seconds
\* and on graceful shutdown so they survive restarts": after a shutdown
\* without any I/O error, the file holds what its save wrote.
ShutdownSaveSurvives ==
    proc = "down" /\ graceful # NoValue /\ ~io_error =>
        path # NoFile /\ body[path] = graceful
=============================================================================
