----------------------------- MODULE Blocklist ------------------------------
(***************************************************************************)
(* Downloading and swapping the blocklist: ReloadableBlocklist and         *)
(* RemoteBlocklists in src/src/blocklist.rs, called at startup and         *)
(* periodically by run_serve (src/src/main.rs) and by the blocklist reload *)
(* command of the management socket.                                       *)
(*                                                                         *)
(* A refresh downloads every block list to a temporary file, renames them  *)
(* all, does the same for the allow lists, reads all the files into a new  *)
(* engine and swaps it in; the first error ends it.  The content of a list *)
(* is abstracted to the number of the refresh that downloaded it.          *)
(***************************************************************************)
EXTENDS Integers, Sequences

CONSTANTS Timers,         \* the periodic refresh
          Commands,       \* reload commands on the management socket
          Startup,        \* run_serve, before it serves
          Block, Allow,   \* urls.len(), allowlist_urls.len()
          MaxRefreshes,   \* bound: refreshes in a behaviour
          NoOne

Refreshers == Timers \cup Commands \cup {Startup}

\* The lists, in the order they are refreshed and read: block lists first.
Lists == 1 .. Block + Allow

\* What Management.tla assumes of the constants.
BlocklistAssumption == /\ Timers \cap Commands = {}
                       /\ Startup \notin Timers \cup Commands
                       /\ Block \in Nat /\ Allow \in Nat
                       /\ Block + Allow > 0
                       /\ MaxRefreshes \in Nat
                       /\ NoOne \notin Refreshers

VARIABLES enabled,     \* config.enabled
          proc,        \* the process: down, starting or serving
          lock,        \* refresh_lock
          pc,          \* where each caller stands
          at,          \* the list it is at
          number,      \* history: the number of its refresh
          fresh,       \* the engine it is building
          staged,      \* the temporary files
          disk,        \* the downloaded files; 0 where there is none
          engine,      \* the lists the engine in use was built from
          refreshes    \* history: refreshes so far

vars == <<enabled, proc, lock, pc, at, number, fresh, staged, disk, engine, refreshes>>

Nothing == [l \in Lists |-> 0]

Versions == [Lists -> 0 .. MaxRefreshes]

TypeOK == /\ enabled \in BOOLEAN
          /\ proc \in {"down", "starting", "serving"}
          /\ lock \in Refreshers \cup {NoOne}
          /\ pc \in [Refreshers -> {"idle", "locking", "downloading", "renaming",
                                    "reading", "swapping"}]
          /\ at \in [Refreshers -> 0 .. Block + Allow]
          /\ number \in [Refreshers -> 0 .. MaxRefreshes]
          /\ fresh \in [Refreshers -> Versions]
          /\ staged \in Versions /\ disk \in Versions /\ engine \in Versions
          /\ refreshes \in 0 .. MaxRefreshes

Init == /\ enabled \in BOOLEAN
        /\ proc = "down"
        /\ lock = NoOne
        /\ pc = [c \in Refreshers |-> "idle"]
        /\ at = [c \in Refreshers |-> 0]
        /\ number = [c \in Refreshers |-> 0]
        /\ fresh = [c \in Refreshers |-> Nothing]
        /\ staged = Nothing
        /\ disk = Nothing
        /\ engine = Nothing
        /\ refreshes = 0

-----------------------------------------------------------------------------

Go(c, where, l) == /\ pc' = [pc EXCEPT ![c] = where]
                   /\ at' = [at EXCEPT ![c] = l]

\* Mutant: the guard outlives the call.
Return_KeepsLock(c) == /\ Go(c, "idle", 0)
                       /\ number' = [number EXCEPT ![c] = 0]
                       /\ fresh' = [fresh EXCEPT ![c] = Nothing]
                       /\ proc' = IF c = Startup THEN "serving" ELSE proc
                       /\ UNCHANGED lock

\* c returns, and its guard releases the lock.
Return(c) == /\ Go(c, "idle", 0)
             /\ number' = [number EXCEPT ![c] = 0]
             /\ fresh' = [fresh EXCEPT ![c] = Nothing]
             /\ lock' = IF lock = c THEN NoOne ELSE lock
             /\ proc' = IF c = Startup THEN "serving" ELSE proc

\* Somebody calls refresh_and_reload.
Call(c) == /\ pc[c] = "idle"
           /\ proc = "serving"
           /\ c \in Commands \/ (c \in Timers /\ enabled)
           /\ Go(c, "locking", 0)
           /\ UNCHANGED <<enabled, proc, lock, number, fresh, staged, disk, engine,
                          refreshes>>

\* Mutant: refreshes are not serialised.
LockFree_Always == TRUE

LockFree == lock = NoOne

\* Mutant: one list too many.
Last_OneMore(l) == IF l <= Block THEN Block ELSE Block + Allow + 1

\* The last list of the group of l, and the first.
Last(l) == IF l <= Block THEN Block ELSE Block + Allow

\* RemoteBlocklists::refresh of the lists from l on: the block lists, if there
\* are any, or the allow lists.  After them the files are read.
Refresh(c, l) == IF l <= Block + Allow THEN Go(c, "downloading", l)
                                       ELSE Go(c, "reading", 1)

Lock(c) == /\ pc[c] = "locking"
           /\ LockFree
           /\ refreshes < MaxRefreshes
           /\ lock' = c
           /\ refreshes' = refreshes + 1
           /\ number' = [number EXCEPT ![c] = refreshes']
           /\ Refresh(c, 1)
           /\ UNCHANGED <<enabled, proc, fresh, staged, disk, engine>>

First(l) == IF l <= Block THEN 1 ELSE Block + 1

\* A list is downloaded and written to its temporary file; after the last one
\* of the group the files are renamed.
Download(c) == /\ pc[c] = "downloading"
               /\ staged' = [staged EXCEPT ![at[c]] = number[c]]
               /\ IF at[c] < Last(at[c]) THEN Go(c, "downloading", at[c] + 1)
                                         ELSE Go(c, "renaming", First(at[c]))
               /\ UNCHANGED <<enabled, proc, lock, number, fresh, disk, engine, refreshes>>

\* A temporary file becomes the list; after the last one of the block lists
\* come the allow lists.
Rename(c) == /\ pc[c] = "renaming"
             /\ staged[at[c]] # 0
             /\ disk' = [disk EXCEPT ![at[c]] = staged[at[c]]]
             /\ staged' = [staged EXCEPT ![at[c]] = 0]
             /\ IF at[c] < Last(at[c]) THEN Go(c, "renaming", at[c] + 1)
                                       ELSE Refresh(c, at[c] + 1)
             /\ UNCHANGED <<enabled, proc, lock, number, fresh, engine, refreshes>>

\* from_sources reads one more file; after the last one the engine is ready.
Read(c) == /\ pc[c] = "reading"
           /\ disk[at[c]] # 0
           /\ fresh' = [fresh EXCEPT ![c][at[c]] = disk[at[c]]]
           /\ IF at[c] < Block + Allow THEN Go(c, "reading", at[c] + 1)
                                       ELSE Go(c, "swapping", 0)
           /\ UNCHANGED <<enabled, proc, lock, number, staged, disk, engine,
                          refreshes>>

\* The new engine is in use.
Swap(c) == /\ pc[c] = "swapping"
           /\ engine' = fresh[c]
           /\ Return(c)
           /\ UNCHANGED <<enabled, staged, disk, refreshes>>

\* Mutant: an error while the allow lists are refreshed is ignored.
Fail_AllowIgnored(c) ==
    /\ pc[c] \in {"downloading", "renaming", "reading"}
    /\ IF pc[c] # "reading" /\ at[c] > Block
       THEN Go(c, "reading", 1) /\ UNCHANGED <<proc, lock, number, fresh>>
       ELSE Return(c)
    /\ UNCHANGED <<enabled, staged, disk, engine, refreshes>>

\* A download, which has a timeout, a write, a rename or a read fails, and the
\* refresh ends there.
Fail(c) == /\ pc[c] \in {"downloading", "renaming", "reading"}
           /\ Return(c)
           /\ UNCHANGED <<enabled, staged, disk, engine, refreshes>>

\* run_serve starts with an empty engine; it calls refresh_and_reload before it
\* serves, if the blocklist is enabled.
Start == /\ proc = "down"
         /\ \/ /\ enabled
               /\ proc' = "starting"
               /\ Go(Startup, "locking", 0)
            \/ /\ ~enabled
               /\ proc' = "serving"
               /\ UNCHANGED <<pc, at>>
         /\ UNCHANGED <<enabled, lock, number, fresh, staged, disk, engine,
                        refreshes>>

\* The process dies or is stopped; the files stay.
Stop == /\ proc # "down"
        /\ proc' = "down"
        /\ lock' = NoOne
        /\ pc' = [c \in Refreshers |-> "idle"]
        /\ at' = [c \in Refreshers |-> 0]
        /\ number' = [c \in Refreshers |-> 0]
        /\ fresh' = [c \in Refreshers |-> Nothing]
        /\ engine' = Nothing
        /\ UNCHANGED <<enabled, staged, disk, refreshes>>

Work(c) == Lock(c) \/ Download(c) \/ Rename(c) \/ Read(c) \/ Swap(c) \/ Fail(c)

Next == \/ \E c \in Refreshers : Call(c) \/ Work(c)
        \/ Start
        \/ Stop

Spec == Init /\ [][Next]_vars

-----------------------------------------------------------------------------
\* The engine was built from the lists of one refresh, never from the block
\* lists of one and the allow lists of another, wherever a refresh fails or the
\* process dies.
EngineOfOneRefresh == \A l, m \in Lists : engine[l] = engine[m]

\* Overlapping refreshes never put an older engine in place of a newer one, and
\* a failed one leaves the rules alone: only the end of the process loses them.
EngineNeverGoesBack ==
    [][proc' # "down" => \A l \in Lists : engine'[l] >= engine[l]]_vars
=============================================================================
