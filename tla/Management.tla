----------------------------- MODULE Management -----------------------------
(***************************************************************************)
(* The management socket: ManagementServer and ManagementClient in         *)
(* src/src/management.rs, and the commands of src/src/main.rs that use it. *)
(* The server answers each line of a connection before it reads the next;  *)
(* connections run side by side.  A reload runs in the task of its         *)
(* connection, so this module composes Blocklist.tla: the connections are  *)
(* its commands.                                                           *)
(*                                                                         *)
(* A command of the program sends one line and waits for one reply, for as *)
(* long as it takes; other peers may send several lines, or nonsense.  Of  *)
(* the cache it matters whether entries from before a flush was sent are   *)
(* still there.                                                            *)
(***************************************************************************)
EXTENDS Integers, Sequences

CONSTANTS Clis,           \* runs of the program with a command
          Peers,          \* other programs that connect
          Asked,          \* what commands ask
          Lines,          \* what peers write
          MaxLines,       \* bound: lines of a peer on their way
          Timers, Startup, Block, Allow, MaxRefreshes, NoOne  \* of Blocklist

Conns == Clis \cup Peers

Requests == {"status", "tracking", "activity", "sources", "sourcestats", "clients",
             "cache_flush", "blocklist_reload"}

VARIABLES enabled, proc, lock, pc, at, number, fresh, staged, disk, engine, refreshes

listVars == <<enabled, proc, lock, pc, at, number, fresh, staged, disk, engine,
              refreshes>>

B == INSTANCE Blocklist WITH Commands <- Conns

ASSUME ManagementAssumption == /\ B!BlocklistAssumption
                               /\ Clis \cap Peers = {}
                               /\ Asked \subseteq Requests
                               /\ Lines \subseteq Requests \cup {"blank", "invalid"}
                               /\ MaxLines \in Nat \ {0}

VARIABLES listening,    \* the socket accepts connections
          link,         \* the client's side: new, open, or how it ended
          handler,      \* the server's side: off, reading, reloading or replying
          sent,         \* the lines not answered yet
          read,         \* how many of them are read
          reply,        \* the response to be written
          cache         \* the cache has entries

connVars == <<link, handler, sent, read, reply>>
vars == <<listVars, listening, connVars, cache>>

\* ManagementResponse, without the text of messages
Responses == [status : {"ok", "error"}, payload : {"none", "metrics", "upstreams", "clients"}]

ok(payload) == [status |-> "ok", payload |-> payload]
error == [status |-> "error", payload |-> "none"]

\* A line, and what its command must get rid of: rules of the refreshes so far, and
\* the entries the cache has now.
Sent(line) == [line |-> line,
               since |-> IF line = "blocklist_reload" THEN refreshes ELSE 0,
               old |-> line = "cache_flush" /\ cache]

TypeOK == /\ B!TypeOK
          /\ listening \in BOOLEAN
          /\ listening => proc = "serving"
          /\ link \in [Conns -> {"open", "answered", "closed"}]
          /\ handler \in [Conns -> {"off", "reading", "reloading", "replying"}]
          /\ \A c \in Conns : /\ read[c] \in 0 .. Len(sent[c])
                              /\ reply[c] \in Responses
                              /\ Len(sent[c]) <= MaxLines
                              /\ (pc[c] # "idle") <=> (handler[c] = "reloading")
          /\ cache \in BOOLEAN

Init == /\ B!Init
        /\ listening = FALSE
        /\ link = [c \in Conns |-> "closed"]
        /\ handler = [c \in Conns |-> "off"]
        /\ sent = [c \in Conns |-> <<>>]
        /\ read = [c \in Conns |-> 0]
        /\ reply = [c \in Conns |-> error]
        /\ cache = FALSE

\* The handlers of C end, and what was sent to them is lost.
Drop(C) == /\ handler' = [c \in Conns |-> IF c \in C THEN "off" ELSE handler[c]]
           /\ sent' = [c \in Conns |-> IF c \in C THEN <<>> ELSE sent[c]]
           /\ read' = [c \in Conns |-> IF c \in C THEN 0 ELSE read[c]]
           /\ reply' = [c \in Conns |-> IF c \in C THEN error ELSE reply[c]]

-----------------------------------------------------------------------------
\* The daemon starts: its blocklist first.
Start == B!Start /\ UNCHANGED <<listening, connVars, cache>>

\* run_unix: the file that an earlier process left is removed, and the socket bound.
Listen == /\ proc = "serving" /\ ~listening
          /\ listening' = TRUE
          /\ UNCHANGED <<listVars, connVars, cache>>

\* The process ends, one of its servers failing or not.  The file stays.
Stop == /\ B!Stop
        /\ listening' = FALSE
        /\ link' = [c \in Conns |-> IF c \in Peers THEN "closed" ELSE link[c]]
        /\ Drop(Conns)
        /\ cache' = FALSE

\* The timer's refreshes, and the one at startup.
Background(c) == /\ B!Call(c) \/ B!Work(c)
                 /\ UNCHANGED <<listening, connVars, cache>>

\* A query is answered, and the answer cached.
Insert == /\ proc = "serving"
          /\ cache' = TRUE
          /\ UNCHANGED <<listVars, listening, connVars>>

-----------------------------------------------------------------------------
\* c is not connected.
Idle(c) == link[c] = "closed" /\ handler[c] = "off"

\* exchange: the connection is there, and the line is written.
Open(c, line) == /\ link' = [link EXCEPT ![c] = "open"]
                 /\ handler' = [handler EXCEPT ![c] = "reading"]
                 /\ sent' = [sent EXCEPT ![c] = <<Sent(line)>>]
                 /\ UNCHANGED <<read, reply>>

\* The command exits, and its end of the connection is closed.
Exit(c) == /\ link' = [link EXCEPT ![c] = "closed"]
           /\ UNCHANGED <<handler, sent, read, reply>>

\* A command connects to the socket that load_mgmt_config finds; if that is not
\* this one, or nobody listens, it exits and nothing changes.
Command(c, line) == /\ c \in Clis /\ Idle(c) /\ listening
                    /\ Open(c, line)
                    /\ UNCHANGED <<listVars, listening, cache>>

\* The reply is read, or the server has closed the connection: the command prints
\* what it wanted, or the error, and exits.
Receive(c) == /\ c \in Clis
              /\ link[c] = "answered" \/ (link[c] = "open" /\ handler[c] = "off")
              /\ Exit(c)
              /\ UNCHANGED <<listVars, listening, cache>>

\* Any peer writes a line, the first when it connects.
Write(c, line) ==
    /\ c \in Peers
    /\ \/ /\ Idle(c) /\ listening
          /\ Open(c, line)
       \/ /\ link[c] = "open" /\ Len(sent[c]) < MaxLines
          /\ sent' = [sent EXCEPT ![c] = Append(@, Sent(line))]
          /\ UNCHANGED <<link, handler, read, reply>>
    /\ UNCHANGED <<listVars, listening, cache>>

\* A peer goes away; a command that is killed is such a peer.
Vanish(c) == /\ c \in Peers /\ link[c] = "open"
             /\ Exit(c)
             /\ UNCHANGED <<listVars, listening, cache>>

-----------------------------------------------------------------------------
\* Mutant: a task per line.
Ready_Pipelined(c) == handler[c] \in {"reading", "replying"}

\* The loop is at read_line.
Ready(c) == handler[c] = "reading"

Answer(c, r) == /\ handler' = [handler EXCEPT ![c] = "replying"]
                /\ reply' = [reply EXCEPT ![c] = r]

\* cache.flush: nothing that was there is left.
flush == /\ cache' = FALSE
         /\ sent' = [c \in Conns |-> [i \in DOMAIN sent[c] |->
                                         [sent[c][i] EXCEPT !.old = FALSE]]]

\* Mutant: a reload while another one runs is taken as done.
RefreshAndReload_Busy(c) ==
    IF lock # NoOne THEN Answer(c, ok("none")) /\ UNCHANGED listVars
                    ELSE /\ B!Call(c)
                         /\ handler' = [handler EXCEPT ![c] = "reloading"]
                         /\ UNCHANGED reply

\* The response waits for refresh_and_reload.
RefreshAndReload(c) == /\ B!Call(c)
                       /\ handler' = [handler EXCEPT ![c] = "reloading"]
                       /\ UNCHANGED reply

Snapshots == Requests \ {"cache_flush", "blocklist_reload"}

\* What a request that only reads returns.
Snapshot(line) == IF line \in {"status", "tracking", "activity"} THEN "metrics"
                  ELSE IF line = "clients" THEN "clients" ELSE "upstreams"

\* dispatch, or the answer to what is no request.
Dispatch(c, line) ==
    \/ line = "blocklist_reload" /\ RefreshAndReload(c) /\ UNCHANGED <<cache, sent>>
    \/ /\ \/ line = "cache_flush" /\ flush /\ Answer(c, ok("none"))
          \/ /\ \/ line = "invalid" /\ Answer(c, error)
                \/ line \in Snapshots /\ Answer(c, ok(Snapshot(line)))
             /\ UNCHANGED <<cache, sent>>
       /\ UNCHANGED listVars

\* A line is read; a blank one is skipped.
ReadLine(c) ==
    /\ Ready(c)
    /\ read[c] < Len(sent[c])
    /\ LET line == sent[c][read[c] + 1].line
       IN  \/ /\ line = "blank"
              /\ sent' = [sent EXCEPT ![c] = Tail(@)]
              /\ UNCHANGED <<read, handler, reply, cache, listVars>>
           \/ /\ line # "blank"
              /\ read' = [read EXCEPT ![c] = @ + 1]
              /\ Dispatch(c, line)
    /\ UNCHANGED <<listening, link>>

\* The reload of a connection takes a step; when it returns there is a response.
ReloadLock(c) == /\ handler[c] = "reloading"
                 /\ B!Lock(c)
                 /\ UNCHANGED <<listening, connVars, cache>>

Reload(c) ==
    /\ handler[c] = "reloading"
    /\ \/ /\ B!Download(c) \/ B!Rename(c) \/ B!Read(c)
          /\ UNCHANGED <<handler, reply>>
       \/ B!Swap(c) /\ Answer(c, ok("none"))
       \/ B!Fail(c) /\ Answer(c, error)
    /\ UNCHANGED <<listening, cache, link, sent, read>>

\* send_response; if the client is gone the write fails, which ends the loop, or is
\* lost, which over TCP goes unnoticed.
SendResponse(c) ==
    /\ handler[c] = "replying"
    /\ \/ /\ handler' = [handler EXCEPT ![c] = "reading"]
          /\ sent' = [sent EXCEPT ![c] = Tail(@)]
          /\ read' = [read EXCEPT ![c] = @ - 1]
          /\ reply' = [reply EXCEPT ![c] = error]
          /\ link' = [link EXCEPT ![c] = IF c \in Clis /\ @ = "open" THEN "answered" ELSE @]
       \/ /\ link[c] = "closed"
          /\ Drop({c})
          /\ UNCHANGED link
    /\ UNCHANGED <<listVars, listening, cache>>

\* The end of the input, or, from a peer, input that cannot be read.
EndOfInput(c) == /\ handler[c] = "reading"
                 /\ sent[c] = <<>>
                 /\ link[c] = "closed" \/ c \in Peers
                 /\ link' = [link EXCEPT ![c] = "closed"]
                 /\ Drop({c})
                 /\ UNCHANGED <<listVars, listening, cache>>

Handle(c) == ReadLine(c) \/ ReloadLock(c) \/ Reload(c) \/ SendResponse(c)

Next == \/ Start \/ Listen \/ Stop \/ Insert
        \/ \E c \in Timers \cup {Startup} : Background(c)
        \/ \E c \in Clis : (\E line \in Asked : Command(c, line)) \/ Receive(c)
        \/ \E c \in Peers : (\E line \in Lines : Write(c, line)) \/ Vanish(c)
        \/ \E c \in Conns : Handle(c) \/ EndOfInput(c)

Spec == Init /\ [][Next]_vars

\* Tasks are polled, downloads have a timeout, the refresh lock is handed over in
\* the order of waiting, and a command reads.
FairSpec ==
    /\ Spec
    /\ \A c \in Conns : WF_vars(Handle(c)) /\ SF_vars(ReloadLock(c))
    /\ \A c \in Timers \cup {Startup} :
           WF_vars(B!Work(c) /\ UNCHANGED <<listening, connVars, cache>>)
    /\ \A c \in Clis : WF_vars(Receive(c))

-----------------------------------------------------------------------------
\* The engine is never made of the lists of two refreshes.
EngineOfOneRefresh == B!EngineOfOneRefresh

\* Refreshes by commands, timer and startup never bring older rules back.
EngineNeverGoesBack == B!EngineNeverGoesBack

\* c gets a reply in this step.
Replied(c) == /\ handler[c] = "replying" /\ handler'[c] = "reading"
              /\ link[c] = "open"

\* When a reply of success is written, what was asked is done: the rules in use are
\* from a refresh that began after the reload was sent, not from one that was
\* already under way, and no entry cached before the flush was sent is left.
AcknowledgedIsDone ==
    [][\A c \in Conns :
           Replied(c) /\ reply[c].status = "ok" =>
               LET s == Head(sent[c])
               IN  /\ s.line = "blocklist_reload" => \A l \in B!Lists : engine[l] > s.since
                   /\ ~s.old]_vars

\* The part of the response that the client's method of a request returns.
Wanted(line) ==
    CASE line \in {"status", "tracking", "activity"} -> "metrics"
      [] line \in {"sources", "sourcestats"}         -> "upstreams"
      [] line = "clients"                            -> "clients"
      [] OTHER                                       -> "none"

\* However many lines are on their way, a reply is to the first that has none yet:
\* only a reload or nonsense is refused, and a success has what the client's method
\* for that request looks for.
RepliesInOrder ==
    [][\A c \in Conns :
           Replied(c) =>
               LET line == Head(sent[c]).line
               IN  IF reply[c].status = "ok"
                   THEN line # "invalid" /\ reply[c].payload = Wanted(line)
                   ELSE line \in {"invalid", "blocklist_reload"}]_vars

Busy(c) == handler[c] \in {"reloading", "replying"}

\* A command ends although it has no timeout of its own, and no connection is stuck
\* in a request, whichever step of whichever refresh fails and whenever the daemon
\* dies.  (The bound on refreshes is not a wait of the code.)
CommandsEnd ==
    /\ \A c \in Clis : link[c] = "open" ~> link[c] # "open" \/ refreshes = MaxRefreshes
    /\ \A c \in Peers : Busy(c) ~> ~Busy(c) \/ refreshes = MaxRefreshes
=============================================================================
