--------------------------- MODULE ManagementProofs -------------------------
(***************************************************************************)
(* Proofs about Management and the Blocklist it composes, for any commands *)
(* and peers, any number of lists, of refreshes and of lines on their way. *)
(* The invariant of a refresh says what its number has reached so far: the *)
(* temporary files, the lists, the new engine.  The invariant of a         *)
(* connection ties the handler's place and its reply to the first line     *)
(* that has no answer yet.                                                 *)
(***************************************************************************)
EXTENDS Management, SequenceTheorems, TLAPS

Lists == B!Lists
Refreshers == B!Refreshers

\* Only the holder of refresh_lock is at work, and its refresh is the latest.
Exclusive ==
    \A c \in Refreshers :
        /\ pc[c] \in {"downloading", "renaming", "reading", "swapping"} <=> lock = c
        /\ lock = c => number[c] = refreshes

\* How far the refresh of c has come: the lists before its place, of its group
\* or of all of them, are its own.
Progress ==
    \A c \in Refreshers :
        /\ pc[c] = "downloading" =>
               /\ at[c] \in Lists
               /\ \A l \in Lists :
                      /\ l < B!First(at[c]) => disk[l] = number[c]
                      /\ B!First(at[c]) <= l /\ l < at[c] => staged[l] = number[c]
        /\ pc[c] = "renaming" =>
               /\ at[c] \in Lists
               /\ \A l \in Lists :
                      /\ l < at[c] => disk[l] = number[c]
                      /\ at[c] <= l /\ l <= B!Last(at[c]) => staged[l] = number[c]
        /\ pc[c] = "reading" =>
               /\ at[c] \in Lists
               /\ \A l \in Lists : /\ disk[l] = number[c]
                                   /\ l < at[c] => fresh[c][l] = number[c]
        /\ pc[c] = "swapping" => \A l \in Lists : fresh[c][l] = number[c]

\* The engine in use is of one refresh, which is no later than the latest.
InUse == \A l, m \in Lists : engine[l] = engine[m] /\ engine[l] <= refreshes

\* Nobody refreshes when there is no process.
Quiet == proc = "down" => \A c \in Refreshers : pc[c] = "idle"

ListInv == B!TypeOK /\ Exclusive /\ Progress /\ InUse /\ Quiet

SentLines == [line : Requests \cup {"blank", "invalid"}, since : 0 .. MaxRefreshes,
              old : BOOLEAN]

ConnTypes == /\ listening \in BOOLEAN
             /\ link \in [Conns -> {"open", "answered", "closed"}]
             /\ handler \in [Conns -> {"off", "reading", "reloading", "replying"}]
             /\ sent \in [Conns -> Seq(SentLines)]
             /\ read \in [Conns -> {0, 1}]
             /\ reply \in [Conns -> Responses]
             /\ cache \in BOOLEAN

\* The reply r fits the line s and, if it is a success, what s asked is done.
Fits(r, s) ==
    /\ ~s.old
    /\ IF r.status = "ok" THEN s.line # "invalid" /\ r.payload = Wanted(s.line)
                          ELSE s.line \in {"invalid", "blocklist_reload"}
    /\ r.status = "ok" /\ s.line = "blocklist_reload" =>
           \A l \in Lists : engine[l] > s.since

\* The lines of a connection, how many are read, and where its handler is.
Reading(c) ==
    /\ Len(sent[c]) <= MaxLines
    /\ handler[c] = "off" => sent[c] = <<>>
    /\ c \in Peers /\ link[c] = "open" => handler[c] # "off"
    /\ IF handler[c] \in {"reloading", "replying"}
       THEN read[c] = 1 /\ sent[c] # <<>>
       ELSE read[c] = 0

\* What a line must get rid of is from before it was sent.
Asking(c) ==
    \A i \in DOMAIN sent[c] : /\ sent[c][i].since <= refreshes
                              /\ sent[c][i].old => sent[c][i].line = "cache_flush"

\* A handler that reloads does so for the first line, with a refresh that began
\* after it; one that replies has the answer to the first line.
Serving(c) ==
    /\ pc[c] # "idle" <=> handler[c] = "reloading"
    /\ handler[c] = "reloading" =>
           /\ sent[c][1].line = "blocklist_reload"
           /\ lock = c => sent[c][1].since < number[c]
    /\ handler[c] = "replying" => Fits(reply[c], sent[c][1])

ConnInv == /\ ConnTypes
           /\ listening => proc = "serving"
           /\ \A c \in Conns : Reading(c) /\ Asking(c) /\ Serving(c)

USE DEF Lists, Refreshers

-----------------------------------------------------------------------------
(* The lists and their groups.                                             *)

\* The constants are numbers, and the callers are told apart.
LEMMA Constants ==
    /\ Block \in Nat /\ Allow \in Nat /\ MaxRefreshes \in Nat
    /\ Block + Allow \in Nat /\ Block + Allow > 0
    /\ NoOne \notin Refreshers /\ Startup \in Refreshers
    /\ Conns \subseteq Refreshers /\ Startup \notin Conns
    /\ Timers \subseteq Refreshers /\ Timers \cap Conns = {}
PROOF
<1>1. B!BlocklistAssumption BY ManagementAssumption
<1>2. Block \in Nat /\ Allow \in Nat /\ MaxRefreshes \in Nat /\ Block + Allow > 0
  BY <1>1 DEF B!BlocklistAssumption
<1>3. Block + Allow \in Nat BY <1>2
<1> QED BY <1>1, <1>2, <1>3 DEF B!BlocklistAssumption, B!Refreshers, Conns

\* The groups: block lists first, then allow lists, either of which may be empty.
LEMMA Groups ==
    ASSUME NEW a \in Lists
    PROVE  /\ a \in Nat /\ B!First(a) \in Lists /\ B!Last(a) \in Lists
           /\ B!First(a) <= a /\ a <= B!Last(a)
           /\ B!First(B!First(a)) = B!First(a) /\ B!Last(B!First(a)) = B!Last(a)
           /\ a < B!Last(a) => /\ a + 1 \in Lists
                               /\ B!First(a + 1) = B!First(a)
                               /\ B!Last(a + 1) = B!Last(a)
           /\ ~(a < B!Last(a)) /\ a + 1 <= Block + Allow =>
                  a + 1 \in Lists /\ B!First(a + 1) = a + 1
           /\ ~(a < B!Last(a)) /\ ~(a + 1 <= Block + Allow) => a = Block + Allow
           /\ 1 \in Lists /\ B!First(1) = 1
PROOF
<1> USE Constants DEF B!Lists, B!First, B!Last
<1>1. a \in Int /\ 1 <= a /\ a <= Block + Allow OBVIOUS
<1> QED BY <1>1

LEMMA ListInit == ASSUME B!Init PROVE ListInv
PROOF
<1> USE Constants DEF B!Init, B!Nothing
<1>1. B!TypeOK BY DEF B!TypeOK, B!Versions
<1>2. Exclusive BY DEF Exclusive
<1>3. Progress BY DEF Progress
<1>4. InUse BY DEF InUse
<1>5. Quiet BY DEF Quiet
<1> QED BY <1>1, <1>2, <1>3, <1>4, <1>5 DEF ListInv

-----------------------------------------------------------------------------
(* The steps of a refresh.                                                 *)

\* Call, and Start when the blocklist is enabled.
LEMMA CallStep ==
    ASSUME ListInv, NEW c \in Refreshers, pc[c] = "idle", B!Go(c, "locking", 0),
           proc' \in {"starting", "serving"},
           UNCHANGED <<enabled, lock, number, fresh, staged, disk, engine, refreshes>>
    PROVE  ListInv'
PROOF
<1> USE Constants DEF ListInv, B!Go
<1>1. B!TypeOK' BY DEF B!TypeOK, B!Versions
<1>2. Exclusive' BY DEF Exclusive, B!TypeOK
<1>3. Progress' BY DEF Progress, B!TypeOK
<1>4. InUse' BY DEF InUse
<1>5. Quiet' BY DEF Quiet
<1> QED BY <1>1, <1>2, <1>3, <1>4, <1>5

\* The holder is the only one at work.
LEMMA OthersWait ==
    ASSUME ListInv, NEW c \in Refreshers, lock = c
    PROVE  \A d \in Refreshers \ {c} : pc[d] \in {"idle", "locking"}
PROOF BY DEF ListInv, Exclusive, B!TypeOK

LEMMA LockStep ==
    ASSUME ListInv, NEW c \in Refreshers, B!Lock(c)
    PROVE  ListInv'
PROOF
<1> USE Constants DEF ListInv
<1>1. /\ pc[c] = "locking" /\ lock = NoOne /\ lock' = c /\ refreshes < MaxRefreshes
      /\ refreshes' = refreshes + 1
      /\ number' = [number EXCEPT ![c] = refreshes + 1]
      /\ pc' = [pc EXCEPT ![c] = "downloading"] /\ at' = [at EXCEPT ![c] = 1]
      /\ UNCHANGED <<enabled, proc, fresh, staged, disk, engine>>
  BY DEF B!Lock, B!LockFree, B!Refresh, B!Go
<1>2. 1 \in Lists /\ 1 \in Nat BY DEF B!Lists
<1>3. refreshes + 1 \in 0 .. MaxRefreshes /\ 1 \in 0 .. Block + Allow
  BY <1>1 DEF B!TypeOK
<1>4. B!TypeOK' BY <1>1, <1>3 DEF B!TypeOK, B!Versions
<1>5. \A d \in Refreshers : pc[d] \in {"idle", "locking"}
  BY <1>1 DEF Exclusive, B!TypeOK
<1>6. Exclusive' BY <1>1, <1>5 DEF Exclusive, B!TypeOK
<1>7. Progress'
  <2>1. \A l \in Lists : ~(l < B!First(1)) /\ ~(l < 1)
    BY <1>2, Groups DEF B!Lists
  <2>2. pc'[c] = "downloading" /\ at'[c] = 1 /\ \A d \in Refreshers \ {c} : pc'[d] = pc[d]
    BY <1>1 DEF B!TypeOK
  <2> QED BY <1>2, <1>5, <2>1, <2>2 DEF Progress
<1>8. InUse'
  <2>1. \A l \in Lists : engine[l] \in Nat BY DEF B!TypeOK, B!Versions
  <2> QED BY <1>1, <2>1 DEF InUse, B!TypeOK
<1>9. Quiet' BY <1>1 DEF Quiet
<1> QED BY <1>4, <1>6, <1>7, <1>8, <1>9

LEMMA DownloadStep ==
    ASSUME ListInv, NEW c \in Refreshers, B!Download(c)
    PROVE  ListInv'
PROOF
<1> USE Constants DEF ListInv
<1> DEFINE a == at[c]
<1>1. /\ pc[c] = "downloading" /\ staged' = [staged EXCEPT ![a] = number[c]]
      /\ UNCHANGED <<enabled, proc, lock, number, fresh, disk, engine, refreshes>>
      /\ IF a < B!Last(a) THEN B!Go(c, "downloading", a + 1)
                          ELSE B!Go(c, "renaming", B!First(a))
  BY DEF B!Download
<1>2. lock = c /\ a \in Lists BY <1>1 DEF Exclusive, Progress
<1>3. \A l \in Lists : staged'[l] = IF l = a THEN number[c] ELSE staged[l]
  BY <1>1 DEF B!TypeOK, B!Versions
<1>4. PICK where \in {"downloading", "renaming"}, b \in Lists :
          /\ pc' = [pc EXCEPT ![c] = where] /\ at' = [at EXCEPT ![c] = b]
          /\ IF a < B!Last(a) THEN where = "downloading" /\ b = a + 1
                              ELSE where = "renaming" /\ b = B!First(a)
  BY <1>1, <1>2, Groups DEF B!Go
<1>5. /\ pc'[c] = where /\ at'[c] = b
      /\ \A d \in Refreshers \ {c} : pc'[d] = pc[d] /\ pc[d] \in {"idle", "locking"}
  BY <1>2, <1>4, OthersWait DEF B!TypeOK
<1>6. B!TypeOK'
  <2>1. staged' \in B!Versions BY <1>1 DEF B!TypeOK, B!Versions
  <2>2. b \in 0 .. Block + Allow BY DEF B!Lists
  <2> QED BY <1>1, <1>4, <2>1, <2>2 DEF B!TypeOK
<1>7. Exclusive' BY <1>1, <1>2, <1>5 DEF Exclusive
<1>8. Progress'
  <2>1. \A l \in Lists : /\ l < B!First(a) => disk[l] = number[c]
                         /\ B!First(a) <= l /\ l < a => staged[l] = number[c]
    BY <1>1 DEF Progress
  <2>2. CASE a < B!Last(a)
    <3>1. pc'[c] = "downloading" /\ at'[c] = a + 1 /\ B!First(a + 1) = B!First(a)
      BY <1>2, <1>4, <1>5, <2>2, Groups
    <3>2. \A l \in Lists : /\ l < B!First(a + 1) => disk'[l] = number'[c]
                           /\ B!First(a + 1) <= l /\ l < a + 1 => staged'[l] = number'[c]
      <4>1. a \in Nat /\ \A l \in Lists : l < a + 1 => l < a \/ l = a
        BY <1>2, Groups DEF B!Lists
      <4> HIDE DEF a
      <4> QED BY <1>1, <1>3, <2>1, <3>1, <4>1
    <3> QED BY <1>4, <1>5, <3>1, <3>2 DEF Progress
  <2>3. CASE ~(a < B!Last(a))
    <3>1. /\ pc'[c] = "renaming" /\ at'[c] = B!First(a)
          /\ B!Last(B!First(a)) = B!Last(a) /\ a = B!Last(a)
      BY <1>2, <1>4, <1>5, <2>3, Groups DEF B!Lists
    <3>2. \A l \in Lists :
              /\ l < B!First(a) => disk'[l] = number'[c]
              /\ B!First(a) <= l /\ l <= B!Last(B!First(a)) => staged'[l] = number'[c]
      BY <1>1, <1>2, <1>3, <2>1, <3>1, Groups DEF B!Lists
    <3> QED BY <1>4, <1>5, <3>1, <3>2 DEF Progress
  <2> QED BY <2>2, <2>3
<1>9. InUse' BY <1>1 DEF InUse
<1>10. Quiet' BY <1>1 DEF Quiet
<1> QED BY <1>6, <1>7, <1>8, <1>9, <1>10

LEMMA RenameStep ==
    ASSUME ListInv, NEW c \in Refreshers, B!Rename(c)
    PROVE  ListInv'
PROOF
<1> USE Constants DEF ListInv
<1> DEFINE a == at[c]
<1>1. /\ pc[c] = "renaming"
      /\ disk' = [disk EXCEPT ![a] = staged[a]] /\ staged' = [staged EXCEPT ![a] = 0]
      /\ UNCHANGED <<enabled, proc, lock, number, fresh, engine, refreshes>>
      /\ IF a < B!Last(a) THEN B!Go(c, "renaming", a + 1) ELSE B!Refresh(c, a + 1)
  BY DEF B!Rename
<1>2. /\ lock = c /\ a \in Lists
      /\ \A l \in Lists : /\ l < a => disk[l] = number[c]
                          /\ a <= l /\ l <= B!Last(a) => staged[l] = number[c]
  BY <1>1 DEF Exclusive, Progress
<1>3. \A l \in Lists : /\ disk'[l] = IF l = a THEN staged[a] ELSE disk[l]
                       /\ staged'[l] = IF l = a THEN 0 ELSE staged[l]
  BY <1>1 DEF B!TypeOK, B!Versions
<1>4. \A l \in Lists : l <= a => disk'[l] = number[c]
  BY <1>2, <1>3, Groups DEF B!Lists
<1>5. PICK where \in {"renaming", "downloading", "reading"}, b \in Lists :
          /\ pc' = [pc EXCEPT ![c] = where] /\ at' = [at EXCEPT ![c] = b]
          /\ IF a < B!Last(a) THEN where = "renaming" /\ b = a + 1
             ELSE IF a + 1 <= Block + Allow THEN where = "downloading" /\ b = a + 1
                                            ELSE where = "reading" /\ b = 1
  BY <1>1, <1>2, Groups DEF B!Go, B!Refresh
<1>6. /\ pc'[c] = where /\ at'[c] = b
      /\ \A d \in Refreshers \ {c} : pc'[d] = pc[d] /\ pc[d] \in {"idle", "locking"}
  BY <1>2, <1>5, OthersWait DEF B!TypeOK
<1>7. B!TypeOK'
  <2>1. staged' \in B!Versions /\ disk' \in B!Versions
    BY <1>1, <1>2 DEF B!TypeOK, B!Versions
  <2>2. b \in 0 .. Block + Allow BY DEF B!Lists
  <2> QED BY <1>1, <1>5, <2>1, <2>2 DEF B!TypeOK
<1>8. Exclusive' BY <1>1, <1>2, <1>6 DEF Exclusive
<1>9. Progress'
  <2>1. CASE a < B!Last(a)
    <3>1. pc'[c] = "renaming" /\ at'[c] = a + 1 /\ B!Last(a + 1) = B!Last(a)
      BY <1>2, <1>5, <1>6, <2>1, Groups
    <3>2. \A l \in Lists : /\ l < a + 1 => disk'[l] = number'[c]
                           /\ a + 1 <= l /\ l <= B!Last(a + 1) => staged'[l] = number'[c]
      BY <1>1, <1>2, <1>3, <1>4, <3>1, Groups DEF B!Lists
    <3> QED BY <1>5, <1>6, <3>1, <3>2 DEF Progress
  <2>2. CASE ~(a < B!Last(a)) /\ a + 1 <= Block + Allow
    <3>1. pc'[c] = "downloading" /\ at'[c] = a + 1 /\ B!First(a + 1) = a + 1
      BY <1>2, <1>5, <1>6, <2>2, Groups
    <3>2. \A l \in Lists : /\ l < B!First(a + 1) => disk'[l] = number'[c]
                           /\ ~(B!First(a + 1) <= l /\ l < a + 1)
      BY <1>1, <1>2, <1>4, <3>1, Groups DEF B!Lists
    <3> QED BY <1>5, <1>6, <3>1, <3>2 DEF Progress
  <2>3. CASE ~(a < B!Last(a)) /\ ~(a + 1 <= Block + Allow)
    <3>1. pc'[c] = "reading" /\ at'[c] = 1 /\ a = Block + Allow
      BY <1>2, <1>5, <1>6, <2>3, Groups
    <3>2. \A l \in Lists : disk'[l] = number'[c] /\ ~(l < 1)
      BY <1>1, <1>2, <1>4, <3>1, Groups DEF B!Lists
    <3> QED BY <1>5, <1>6, <3>1, <3>2 DEF Progress
  <2> QED BY <2>1, <2>2, <2>3
<1>10. InUse' BY <1>1 DEF InUse
<1>11. Quiet' BY <1>1 DEF Quiet
<1> QED BY <1>7, <1>8, <1>9, <1>10, <1>11

LEMMA ReadStep ==
    ASSUME ListInv, NEW c \in Refreshers, B!Read(c)
    PROVE  ListInv'
PROOF
<1> USE Constants DEF ListInv
<1> DEFINE a == at[c]
<1>1. /\ pc[c] = "reading" /\ fresh' = [fresh EXCEPT ![c][a] = disk[a]]
      /\ UNCHANGED <<enabled, proc, lock, number, staged, disk, engine, refreshes>>
      /\ IF a < Block + Allow THEN B!Go(c, "reading", a + 1) ELSE B!Go(c, "swapping", 0)
  BY DEF B!Read
<1>2. /\ lock = c /\ a \in Lists
      /\ \A l \in Lists : disk[l] = number[c] /\ (l < a => fresh[c][l] = number[c])
  BY <1>1 DEF Exclusive, Progress
<1>3. fresh[c] \in B!Versions BY DEF B!TypeOK
<1>4. \A l \in Lists : fresh'[c][l] = IF l = a THEN disk[a] ELSE fresh[c][l]
  BY <1>1, <1>3 DEF B!TypeOK, B!Versions
<1>5. \A l \in Lists : l <= a => fresh'[c][l] = number[c]
  BY <1>2, <1>4, Groups DEF B!Lists
<1>6. PICK where \in {"reading", "swapping"}, b \in 0 .. Block + Allow :
          /\ pc' = [pc EXCEPT ![c] = where] /\ at' = [at EXCEPT ![c] = b]
          /\ IF a < Block + Allow THEN where = "reading" /\ b = a + 1
                                  ELSE where = "swapping" /\ b = 0
  BY <1>1, <1>2, Groups DEF B!Go, B!Lists
<1>7. /\ pc'[c] = where /\ at'[c] = b
      /\ \A d \in Refreshers \ {c} : pc'[d] = pc[d] /\ pc[d] \in {"idle", "locking"}
  BY <1>2, <1>6, OthersWait DEF B!TypeOK
<1>8. B!TypeOK'
  <2>1. fresh' \in [Refreshers -> B!Versions]
    BY <1>1, <1>2, <1>3 DEF B!TypeOK, B!Versions
  <2> QED BY <1>1, <1>6, <2>1 DEF B!TypeOK
<1>9. Exclusive' BY <1>1, <1>2, <1>7 DEF Exclusive
<1>10. Progress'
  <2>1. CASE a < Block + Allow
    <3>1. pc'[c] = "reading" /\ at'[c] = a + 1 /\ a + 1 \in Lists
      BY <1>2, <1>6, <1>7, <2>1, Groups DEF B!Lists
    <3>2. \A l \in Lists : /\ disk'[l] = number'[c]
                           /\ l < a + 1 => fresh'[c][l] = number'[c]
      BY <1>1, <1>2, <1>5, Groups DEF B!Lists
    <3> QED BY <1>7, <3>1, <3>2 DEF Progress
  <2>2. CASE ~(a < Block + Allow)
    <3>1. pc'[c] = "swapping" BY <1>6, <1>7, <2>2
    <3>2. \A l \in Lists : fresh'[c][l] = number'[c]
      BY <1>1, <1>2, <1>5, <2>2, Groups DEF B!Lists
    <3> QED BY <1>7, <3>1, <3>2 DEF Progress
  <2> QED BY <2>1, <2>2
<1>11. InUse' BY <1>1 DEF InUse
<1>12. Quiet' BY <1>1 DEF Quiet
<1> QED BY <1>8, <1>9, <1>10, <1>11, <1>12

\* The engine a refresh swaps in is all of it, and later than any before.
LEMMA SwapStep ==
    ASSUME ListInv, NEW c \in Refreshers, B!Swap(c)
    PROVE  /\ ListInv'
           /\ \A l \in Lists : engine'[l] = number[c] /\ engine'[l] >= engine[l]
PROOF
<1> USE Constants DEF ListInv
<1>1. /\ pc[c] = "swapping" /\ engine' = fresh[c] /\ B!Return(c)
      /\ UNCHANGED <<enabled, staged, disk, refreshes>>
  BY DEF B!Swap
<1>2. /\ lock = c /\ number[c] = refreshes
      /\ \A l \in Lists : fresh[c][l] = number[c]
  BY <1>1 DEF Exclusive, Progress
<1>3. \A l \in Lists : engine'[l] = number[c] /\ engine'[l] >= engine[l]
  BY <1>1, <1>2 DEF InUse, B!TypeOK, B!Versions
<1>4. \A d \in Refreshers : pc'[d] \in {"idle", "locking"}
  BY <1>1, <1>2, OthersWait DEF B!Return, B!Go, B!TypeOK
<1>5. B!TypeOK'
  <2>1. [l \in B!Lists |-> 0] \in B!Versions BY DEF B!Versions
  <2> QED BY <1>1, <2>1 DEF B!TypeOK, B!Return, B!Go, B!Nothing
<1>6. Exclusive' BY <1>1, <1>2, <1>4 DEF Exclusive, B!Return
<1>7. Progress' BY <1>4 DEF Progress
<1>8. InUse' BY <1>1, <1>2, <1>3 DEF InUse, B!TypeOK
<1>9. Quiet' BY <1>1, <1>2 DEF Quiet, B!Return, B!Go, B!TypeOK
<1> QED BY <1>3, <1>5, <1>6, <1>7, <1>8, <1>9

LEMMA FailStep ==
    ASSUME ListInv, NEW c \in Refreshers, B!Fail(c)
    PROVE  ListInv'
PROOF
<1> USE Constants DEF ListInv
<1>1. /\ pc[c] \in {"downloading", "renaming", "reading"} /\ B!Return(c)
      /\ UNCHANGED <<enabled, staged, disk, engine, refreshes>>
  BY DEF B!Fail
<1>2. lock = c BY <1>1 DEF Exclusive
<1>3. \A d \in Refreshers : pc'[d] \in {"idle", "locking"}
  BY <1>1, <1>2, OthersWait DEF B!Return, B!Go, B!TypeOK
<1>4. B!TypeOK'
  <2>1. [l \in B!Lists |-> 0] \in B!Versions BY DEF B!Versions
  <2> QED BY <1>1, <2>1 DEF B!TypeOK, B!Return, B!Go, B!Nothing
<1>5. Exclusive' BY <1>1, <1>2, <1>3 DEF Exclusive, B!Return
<1>6. Progress' BY <1>3 DEF Progress
<1>7. InUse' BY <1>1 DEF InUse
<1>8. Quiet' BY <1>1 DEF Quiet, B!Return, B!Go, B!TypeOK
<1> QED BY <1>4, <1>5, <1>6, <1>7, <1>8

LEMMA StopStep ==
    ASSUME ListInv, B!Stop
    PROVE  ListInv'
PROOF
<1> USE Constants DEF ListInv, B!Stop, B!Nothing
<1>1. B!TypeOK' BY DEF B!TypeOK, B!Versions
<1>2. Exclusive' BY DEF Exclusive
<1>3. Progress' BY DEF Progress
<1>4. InUse' BY DEF InUse, B!TypeOK
<1>5. Quiet' BY DEF Quiet
<1> QED BY <1>1, <1>2, <1>3, <1>4, <1>5

LEMMA StartStep ==
    ASSUME ListInv, B!Start
    PROVE  ListInv'
PROOF
<1> USE Constants DEF ListInv
<1>1. \A c \in Refreshers : pc[c] = "idle" BY DEF B!Start, Quiet
<1>2. CASE enabled
  BY <1>1, <1>2, CallStep DEF B!Start
<1>3. CASE ~enabled
  <2> USE <1>3 DEF B!Start
  <2>1. B!TypeOK' BY DEF B!TypeOK, B!Versions
  <2>2. Exclusive' BY DEF Exclusive
  <2>3. Progress' BY DEF Progress
  <2>4. InUse' BY DEF InUse
  <2>5. Quiet' BY DEF Quiet
  <2> QED BY <2>1, <2>2, <2>3, <2>4, <2>5
<1> QED BY <1>2, <1>3

\* Every step of the blocklist: the invariant is kept, and only the end of the
\* process takes rules away.
LEMMA ListStep ==
    ASSUME ListInv, B!Next \/ UNCHANGED listVars
    PROVE  /\ ListInv'
           /\ proc' # "down" => \A l \in Lists : engine'[l] >= engine[l]
PROOF
<1>1. \A l \in Lists : engine[l] \in Nat /\ engine[l] >= engine[l]
  BY Constants DEF ListInv, B!TypeOK, B!Versions
<1>2. ASSUME NEW c \in Refreshers, B!Call(c) PROVE ListInv' /\ UNCHANGED engine
  BY <1>2, CallStep DEF B!Call
<1>3. ASSUME NEW c \in Refreshers, B!Work(c), ~B!Swap(c)
      PROVE  ListInv' /\ UNCHANGED engine
  <2>1. UNCHANGED engine
    BY <1>3 DEF B!Work, B!Lock, B!Download, B!Rename, B!Read, B!Fail
  <2> QED BY <1>3, <2>1, LockStep, DownloadStep, RenameStep, ReadStep, FailStep DEF B!Work
<1>4. CASE B!Start
  BY <1>1, <1>4, StartStep DEF B!Start
<1>5. CASE B!Stop
  BY <1>5, StopStep DEF B!Stop
<1>6. CASE UNCHANGED listVars
  <2> USE <1>6 DEF ListInv, listVars
  <2>1. B!TypeOK' BY DEF B!TypeOK, B!Versions
  <2>2. Exclusive' BY DEF Exclusive
  <2>3. Progress' BY DEF Progress
  <2>4. InUse' BY DEF InUse
  <2>5. Quiet' BY DEF Quiet
  <2> QED BY <1>1, <2>1, <2>2, <2>3, <2>4, <2>5
<1>7. ASSUME NEW c \in Refreshers, B!Swap(c)
      PROVE  ListInv' /\ \A l \in Lists : engine'[l] >= engine[l]
  BY <1>7, SwapStep
<1> QED BY <1>1, <1>2, <1>3, <1>4, <1>5, <1>6, <1>7 DEF B!Next

-----------------------------------------------------------------------------
(* The connections.                                                        *)

\* What a refresh of c that goes on does to the others, and to itself.
LEMMA GoingOn ==
    ASSUME ListInv, NEW c \in Refreshers,
           B!Lock(c) \/ B!Download(c) \/ B!Rename(c) \/ B!Read(c)
    PROVE  /\ pc[c] # "idle" /\ pc'[c] # "idle"
           /\ UNCHANGED <<proc, engine>> /\ refreshes' >= refreshes
           /\ \A d \in Refreshers \ {c} : /\ pc'[d] = pc[d] /\ number'[d] = number[d]
                                          /\ lock' = d => lock = d
           /\ lock' = c => \/ lock = c /\ number'[c] = number[c]
                           \/ number'[c] > refreshes
PROOF
<1> USE Constants DEF ListInv, B!TypeOK, B!Go
<1>1. CASE B!Lock(c) BY <1>1 DEF B!Lock, B!Refresh
<1>2. CASE B!Download(c) BY <1>2 DEF B!Download
<1>3. CASE B!Rename(c) BY <1>3 DEF B!Rename, B!Refresh
<1>4. CASE B!Read(c) BY <1>4 DEF B!Read
<1> QED BY <1>1, <1>2, <1>3, <1>4

\* The same for one that ends.
LEMMA Ending ==
    ASSUME ListInv, NEW c \in Refreshers, B!Swap(c) \/ B!Fail(c)
    PROVE  /\ pc[c] # "idle" /\ pc'[c] = "idle"
           /\ lock = c /\ proc' \in {proc, "serving"} /\ UNCHANGED refreshes
           /\ \A d \in Refreshers \ {c} : /\ pc'[d] = pc[d] /\ number'[d] = number[d]
                                          /\ lock' = d => lock = d
PROOF
<1> USE Constants DEF ListInv, B!TypeOK, B!Go, B!Return
<1>1. CASE B!Swap(c) BY <1>1 DEF B!Swap, Exclusive
<1>2. CASE B!Fail(c) BY <1>2 DEF B!Fail, Exclusive
<1> QED BY <1>1, <1>2

\* A step that does not go back, and leaves the refresh of d alone.
Undisturbed(d) == /\ pc'[d] = pc[d]
                  /\ lock' = d => lock = d /\ number'[d] = number[d]
                  /\ refreshes' >= refreshes
                  /\ \A l \in Lists : engine'[l] >= engine[l]

\* A connection that a step leaves alone stays as it was, whatever else went on.
LEMMA LeftAlone ==
    ASSUME ListInv, ListInv', ConnTypes, NEW d \in Conns,
           Reading(d), Asking(d), Serving(d), Undisturbed(d),
           link'[d] = link[d], handler'[d] = handler[d], sent'[d] = sent[d],
           read'[d] = read[d], reply'[d] = reply[d]
    PROVE  Reading(d)' /\ Asking(d)' /\ Serving(d)'
PROOF
<1> USE DEF Undisturbed
<1>1. \A i \in DOMAIN sent[d] : sent[d][i] \in SentLines /\ sent[d][i].since \in Nat
  <2>1. sent[d] \in Seq(SentLines) BY DEF ConnTypes
  <2>2. \A i \in DOMAIN sent[d] : sent[d][i] \in SentLines BY <2>1
  <2> QED BY <2>2, Constants DEF SentLines
<1>2. Reading(d)' BY DEF Reading
<1>3. Asking(d)'
  <2>1. refreshes \in Nat /\ refreshes' \in Nat BY Constants DEF ListInv, B!TypeOK
  <2>2. ASSUME NEW i \in DOMAIN sent[d]
        PROVE  /\ sent[d][i].since <= refreshes'
               /\ sent[d][i].old => sent[d][i].line = "cache_flush"
    <3>1. sent[d][i].since <= refreshes' BY <1>1, <2>1 DEF Asking
    <3>2. sent[d][i].old => sent[d][i].line = "cache_flush" BY Zenon DEF Asking
    <3> QED BY <3>1, <3>2
  <2> QED BY <2>2, Zenon DEF Asking
<1>4. Serving(d)'
  <2>1. handler[d] = "reloading" =>
            /\ sent[d][1].line = "blocklist_reload"
            /\ lock' = d => sent[d][1].since < number'[d]
    BY DEF Serving
  <2>2. ASSUME handler[d] = "replying" PROVE Fits(reply[d], sent[d][1])'
    <3>1. Fits(reply[d], sent[d][1]) BY <2>2 DEF Serving
    <3>2. 1 \in DOMAIN sent[d]
      <4>1. sent[d] \in Seq(SentLines) /\ sent[d] # <<>>
        BY <2>2 DEF ConnTypes, Reading
      <4> QED BY <4>1
    <3>3. sent[d][1].since \in Nat BY <1>1, <3>2
    <3>4. \A l \in Lists : engine[l] \in Nat /\ engine'[l] \in Nat
      BY Constants DEF ListInv, B!TypeOK, B!Versions
    <3>5. (\A l \in Lists : engine[l] > sent[d][1].since) =>
              \A l \in Lists : engine'[l] > sent[d][1].since
      BY <3>3, <3>4
    <3> QED BY <3>1, <3>5 DEF Fits
  <2> QED BY <2>1, <2>2 DEF Serving
<1> QED BY <1>2, <1>3, <1>4

LEMMA ConnInit == ASSUME Init PROVE ConnInv
PROOF
<1> USE DEF Init, B!Init
<1>1. error \in Responses BY DEF error, Responses
<1>2. <<>> \in Seq(SentLines) /\ Len(<<>>) = 0 OBVIOUS
<1>3. ConnTypes BY <1>1, <1>2 DEF ConnTypes
<1>4. MaxLines \in Nat BY ManagementAssumption
<1>5. ASSUME NEW c \in Conns PROVE Reading(c) /\ Asking(c) /\ Serving(c)
  <2>1. sent[c] = <<>> /\ handler[c] = "off" /\ link[c] = "closed" /\ read[c] = 0
    OBVIOUS
  <2>2. pc[c] = "idle" BY Constants
  <2> QED BY <1>2, <1>4, <2>1, <2>2 DEF Reading, Asking, Serving
<1> QED BY <1>3, <1>5 DEF ConnInv

-----------------------------------------------------------------------------
(* The steps of a connection.                                              *)

\* A line that is sent, and the lines of a connection.
LEMMA LineTypes ==
    ASSUME ConnTypes, NEW c \in Conns
    PROVE  /\ sent[c] \in Seq(SentLines) /\ Len(sent[c]) \in Nat
           /\ DOMAIN sent[c] = 1 .. Len(sent[c])
           /\ \A i \in DOMAIN sent[c] : sent[c][i] \in SentLines
           /\ sent[c] # <<>> => /\ 1 \in DOMAIN sent[c] /\ Len(sent[c]) > 0
                                /\ Head(sent[c]) = sent[c][1]
PROOF
<1>1. sent[c] \in Seq(SentLines) BY DEF ConnTypes
<1>2. Len(sent[c]) \in Nat /\ DOMAIN sent[c] = 1 .. Len(sent[c]) BY <1>1, LenProperties
<1> QED BY <1>1, <1>2

\* Popping the first line keeps what is said of the rest.
LEMMA PopLine ==
    ASSUME ConnTypes, NEW c \in Conns, sent[c] # <<>>
    PROVE  /\ Tail(sent[c]) \in Seq(SentLines)
           /\ Len(Tail(sent[c])) = Len(sent[c]) - 1
           /\ \A i \in DOMAIN Tail(sent[c]) :
                  i + 1 \in DOMAIN sent[c] /\ Tail(sent[c])[i] = sent[c][i + 1]
PROOF
<1> DEFINE s == sent[c]
<1>1. s \in Seq(SentLines) /\ s # <<>> BY DEF ConnTypes
<1> HIDE DEF s
<1>2. Len(s) \in Nat /\ DOMAIN s = 1 .. Len(s) /\ Len(s) > 0 BY <1>1
<1>3. Tail(s) \in Seq(SentLines) /\ Len(Tail(s)) = Len(s) - 1 BY <1>1
<1>4. DOMAIN Tail(s) = 1 .. Len(s) - 1 BY <1>2, <1>3, LenProperties
<1>5. \A i \in 1 .. Len(s) - 1 : Tail(s)[i] = s[i + 1] BY <1>1, <1>2
<1> QED BY <1>2, <1>3, <1>4, <1>5 DEF s

LEMMA SentIsLine ==
    ASSUME ListInv, ConnTypes, NEW line \in Requests \cup {"blank", "invalid"}
    PROVE  /\ Sent(line) \in SentLines /\ Sent(line).line = line
           /\ Sent(line).since <= refreshes
           /\ Sent(line).old => line = "cache_flush"
PROOF
<1>1. refreshes \in 0 .. MaxRefreshes /\ MaxRefreshes \in Nat
  BY Constants DEF ListInv, B!TypeOK
<1>2. (line = "cache_flush" /\ cache) \in BOOLEAN OBVIOUS
<1>3. Sent(line) \in SentLines /\ Sent(line).line = line /\ Sent(line).since <= refreshes
  BY <1>1, <1>2 DEF Sent, SentLines
<1>4. Sent(line).old => line = "cache_flush" BY DEF Sent
<1> QED BY <1>3, <1>4

\* A step that leaves the lists alone disturbs nobody.
LEMMA ListsAlone ==
    ASSUME ListInv, UNCHANGED listVars
    PROVE  ListInv' /\ \A d \in Conns : Undisturbed(d)
PROOF
<1>1. ListInv' BY ListStep
<1>2. refreshes \in Nat /\ \A l \in Lists : engine[l] \in Nat
  BY Constants DEF ListInv, B!TypeOK, B!Versions
<1> QED BY <1>1, <1>2 DEF Undisturbed, listVars

\* What a request that only reads gets is what its client wants.
LEMMA SnapshotIsWanted ==
    /\ \A line \in Snapshots : /\ Wanted(line) = Snapshot(line)
                               /\ ok(Snapshot(line)) \in Responses
    /\ Wanted("cache_flush") = "none" /\ Wanted("blocklist_reload") = "none"
    /\ ok("none") \in Responses /\ error \in Responses
PROOF
<1>1. \A line \in Snapshots : Wanted(line) = Snapshot(line)
                              /\ Snapshot(line) \in {"metrics", "upstreams", "clients"}
  BY DEF Snapshots, Requests, Wanted, Snapshot
<1>2. Wanted("cache_flush") = "none" /\ Wanted("blocklist_reload") = "none"
  BY DEF Wanted
<1> QED BY <1>1, <1>2 DEF ok, error, Responses

\* Start, the timer and the refresh at startup.
LEMMA BackgroundStep ==
    ASSUME ListInv, ConnInv,
           Start \/ \E c \in Timers \cup {Startup} : Background(c)
    PROVE  ListInv' /\ ConnInv'
PROOF
<1> USE Constants
<1>1. UNCHANGED <<listening, connVars, cache>> BY DEF Start, Background
<1>2. B!Next BY DEF Start, Background, B!Next, B!Work
<1>3. ListInv' BY <1>2, ListStep
<1>4. refreshes \in Nat /\ \A l \in Lists : engine[l] \in Nat
  BY DEF ListInv, B!TypeOK, B!Versions
<1>5. (\A d \in Conns : Undisturbed(d)) /\ (proc = "serving" => proc' = "serving")
  <2>1. CASE B!Start
    BY <1>4, <2>1 DEF B!Start, B!Go, Undisturbed, ListInv, B!TypeOK
  <2>2. ASSUME NEW c \in Refreshers \ Conns, B!Call(c)
        PROVE (\A d \in Conns : Undisturbed(d)) /\ proc' = proc
    BY <1>4, <2>2 DEF B!Call, B!Go, Undisturbed, ListInv, B!TypeOK
  <2>3. ASSUME NEW c \in Refreshers \ Conns,
               B!Lock(c) \/ B!Download(c) \/ B!Rename(c) \/ B!Read(c)
        PROVE (\A d \in Conns : Undisturbed(d)) /\ proc' = proc
    BY <1>4, <2>3, GoingOn DEF Undisturbed
  <2>4. ASSUME NEW c \in Refreshers \ Conns, B!Swap(c) \/ B!Fail(c)
        PROVE /\ \A d \in Conns : Undisturbed(d)
              /\ proc = "serving" => proc' = "serving"
    <3>1. proc' # "down" \/ ~(proc = "serving") BY <2>4, Ending
    <3>2. \A l \in Lists : engine'[l] >= engine[l]
      BY <1>4, <2>4, SwapStep DEF B!Fail
    <3> QED BY <1>4, <2>4, <3>2, Ending DEF Undisturbed
  <2> QED BY <2>1, <2>2, <2>3, <2>4 DEF Start, Background, B!Work
<1>6. ConnTypes' BY <1>1 DEF ConnInv, ConnTypes, connVars
<1>7. \A d \in Conns : Reading(d)' /\ Asking(d)' /\ Serving(d)'
  BY <1>1, <1>3, <1>5, LeftAlone DEF ConnInv, connVars
<1> QED BY <1>1, <1>3, <1>5, <1>6, <1>7 DEF ConnInv

\* The socket is bound, or a query is answered.
LEMMA ListenStep ==
    ASSUME ListInv, ConnInv, Listen \/ Insert
    PROVE  ListInv' /\ ConnInv'
PROOF
<1>1. UNCHANGED <<listVars, connVars>> BY DEF Listen, Insert
<1>2. ListInv' /\ \A d \in Conns : Undisturbed(d) BY <1>1, ListsAlone
<1>3. ConnTypes' BY <1>1 DEF ConnInv, ConnTypes, connVars, Listen, Insert
<1>4. \A d \in Conns : Reading(d)' /\ Asking(d)' /\ Serving(d)'
  BY <1>1, <1>2, LeftAlone DEF ConnInv, connVars
<1>5. listening' => proc' = "serving"
  BY <1>1 DEF Listen, Insert, ConnInv, listVars
<1> QED BY <1>2, <1>3, <1>4, <1>5 DEF ConnInv

\* The process ends, and every handler with it.
LEMMA StopsStep ==
    ASSUME ListInv, ConnInv, Stop
    PROVE  ListInv' /\ ConnInv'
PROOF
<1> USE DEF Stop
<1>1. ListInv' BY StopStep
<1>2. /\ handler' = [c \in Conns |-> "off"] /\ sent' = [c \in Conns |-> <<>>]
      /\ read' = [c \in Conns |-> 0] /\ reply' = [c \in Conns |-> error]
  BY DEF Drop
<1>3. ConnTypes'
  <2>1. error \in Responses BY SnapshotIsWanted
  <2>2. sent' \in [Conns -> Seq(SentLines)] BY <1>2
  <2> QED BY <1>2, <2>1, <2>2 DEF ConnInv, ConnTypes
<1>4. ASSUME NEW d \in Conns PROVE Reading(d)' /\ Asking(d)' /\ Serving(d)'
  <2>1. /\ handler'[d] = "off" /\ sent'[d] = <<>> /\ read'[d] = 0
        /\ d \in Peers => link'[d] = "closed"
    BY <1>2
  <2>2. Len(<<>>) = 0 /\ DOMAIN <<>> = {} /\ MaxLines \in Nat
    BY ManagementAssumption
  <2>3. pc'[d] = "idle" BY Constants DEF B!Stop
  <2> QED BY <2>1, <2>2, <2>3 DEF Reading, Asking, Serving
<1> QED BY <1>1, <1>3, <1>4 DEF ConnInv

\* A step of one connection: it is enough to look at that one.
LEMMA OneConnection ==
    ASSUME ListInv, ListInv', ConnInv, ConnTypes', NEW c \in Conns,
           listening' => proc' = "serving",
           \A d \in Conns \ {c} :
               /\ Undisturbed(d)
               /\ link'[d] = link[d] /\ handler'[d] = handler[d] /\ sent'[d] = sent[d]
               /\ read'[d] = read[d] /\ reply'[d] = reply[d],
           Reading(c)' /\ Asking(c)' /\ Serving(c)'
    PROVE  ConnInv'
PROOF
<1>1. ASSUME NEW d \in Conns \ {c} PROVE Reading(d)' /\ Asking(d)' /\ Serving(d)'
  BY LeftAlone DEF ConnInv
<1> QED BY <1>1 DEF ConnInv

\* A connection is opened with its first line.
LEMMA OpenStep ==
    ASSUME ListInv, ConnInv, NEW c \in Conns,
           NEW line \in Requests \cup {"blank", "invalid"}, Idle(c), Open(c, line),
           UNCHANGED <<listVars, listening, cache>>
    PROVE  ListInv' /\ ConnInv'
PROOF
<1> USE DEF ConnInv
<1>1. ListInv' /\ \A d \in Conns : Undisturbed(d) BY ListsAlone
<1>2. /\ Sent(line) \in SentLines /\ Sent(line).since <= refreshes
      /\ Sent(line).old => Sent(line).line = "cache_flush"
  BY SentIsLine
<1>3. <<Sent(line)>> \in Seq(SentLines) /\ Len(<<Sent(line)>>) = 1
  BY <1>2
<1>4. ConnTypes' BY <1>3 DEF ConnTypes, Open
<1>5. Reading(c)' /\ Asking(c)' /\ Serving(c)'
  <2>1. /\ handler'[c] = "reading" /\ sent'[c] = <<Sent(line)>> /\ read'[c] = read[c]
        /\ handler[c] = "off"
    BY DEF ConnTypes, Open, Idle
  <2>2. read[c] = 0 /\ pc[c] = "idle" BY <2>1 DEF Reading, Serving
  <2>3. MaxLines \in Nat \ {0} BY ManagementAssumption
  <2>4. Reading(c)' BY <1>3, <2>1, <2>2, <2>3 DEF Reading
  <2>5. \A i \in DOMAIN <<Sent(line)>> : <<Sent(line)>>[i] = Sent(line) OBVIOUS
  <2>6. Asking(c)' BY <1>2, <2>1, <2>5 DEF Asking, listVars
  <2>7. Serving(c)' BY <2>1, <2>2 DEF Serving, listVars
  <2> QED BY <2>4, <2>6, <2>7
<1>6. \A d \in Conns \ {c} :
          /\ link'[d] = link[d] /\ handler'[d] = handler[d] /\ sent'[d] = sent[d]
          /\ read'[d] = read[d] /\ reply'[d] = reply[d]
  BY DEF ConnTypes, Open
<1>7. listening' => proc' = "serving" BY DEF listVars
<1> QED BY <1>1, <1>4, <1>5, <1>6, <1>7, OneConnection

\* A peer writes one more line.
LEMMA WriteStep ==
    ASSUME ListInv, ConnInv, NEW c \in Conns,
           NEW line \in Requests \cup {"blank", "invalid"},
           c \in Peers, link[c] = "open", Len(sent[c]) < MaxLines,
           sent' = [sent EXCEPT ![c] = Append(@, Sent(line))],
           UNCHANGED <<link, handler, read, reply, listVars, listening, cache>>
    PROVE  ListInv' /\ ConnInv'
PROOF
<1> USE DEF ConnInv
<1>1. ListInv' /\ \A d \in Conns : Undisturbed(d) BY ListsAlone
<1>2. /\ Sent(line) \in SentLines /\ Sent(line).since <= refreshes
      /\ Sent(line).old => Sent(line).line = "cache_flush"
  BY SentIsLine
<1> DEFINE s == sent[c]
           t == Append(s, Sent(line))
<1>3. s \in Seq(SentLines) /\ Len(s) \in Nat /\ DOMAIN s = 1 .. Len(s) BY LineTypes
<1>4. sent'[c] = t /\ \A d \in Conns \ {c} : sent'[d] = sent[d]
  BY DEF ConnTypes
<1> HIDE DEF s
<1>5. /\ t \in Seq(SentLines) /\ Len(t) = Len(s) + 1
      /\ \A i \in 1 .. Len(s) : t[i] = s[i]
      /\ t[Len(s) + 1] = Sent(line)
  BY <1>2, <1>3, AppendProperties
<1>6. DOMAIN t = 1 .. Len(s) + 1 BY <1>5, LenProperties
<1> HIDE DEF t
<1>7. ConnTypes'
  <2>1. sent' \in [Conns -> Seq(SentLines)] BY <1>5 DEF ConnTypes, t, s
  <2> QED BY <2>1 DEF ConnTypes
<1>8. Reading(c)'
  <2>1. handler[c] # "off" BY DEF Reading
  <2>2. Len(t) <= MaxLines BY <1>3, <1>5, ManagementAssumption DEF s
  <2>3. t # <<>> BY <1>3, <1>5
  <2> QED BY <1>4, <2>1, <2>2, <2>3 DEF Reading
<1>9. Asking(c)'
  <2>1. ASSUME NEW i \in DOMAIN t
        PROVE  t[i].since <= refreshes /\ (t[i].old => t[i].line = "cache_flush")
    <3>1. CASE i \in 1 .. Len(s)
      <4>1. t[i] = s[i] /\ i \in DOMAIN s BY <1>3, <1>5, <3>1
      <4> QED BY <4>1 DEF Asking, s
    <3>2. CASE i = Len(s) + 1 BY <1>2, <1>5, <3>2
    <3> QED BY <1>3, <1>6, <3>1, <3>2
  <2> QED BY <1>4, <2>1 DEF Asking, listVars
<1>10. Serving(c)'
  <2>1. CASE handler[c] \in {"reloading", "replying"}
    <3>1. s # <<>> BY <2>1 DEF Reading, s
    <3>2. t[1] = s[1] BY <1>3, <1>5, <3>1
    <3>3. Serving(c) BY DEF ConnInv
    <3> QED BY <1>4, <3>2, <3>3 DEF Serving, Fits, listVars, s
  <2>2. CASE handler[c] \notin {"reloading", "replying"}
    BY <2>2 DEF Serving, listVars
  <2> QED BY <2>1, <2>2
<1>11. listening' => proc' = "serving" BY DEF listVars
<1> QED BY <1>1, <1>4, <1>7, <1>8, <1>9, <1>10, <1>11, OneConnection

\* A client has its reply, or goes away.
LEMMA ExitStep ==
    ASSUME ListInv, ConnInv, NEW c \in Conns, Exit(c),
           UNCHANGED <<listVars, listening, cache>>
    PROVE  ListInv' /\ ConnInv'
PROOF
<1> USE DEF ConnInv, Exit
<1>1. ListInv' /\ \A d \in Conns : Undisturbed(d) BY ListsAlone
<1>2. ConnTypes' BY DEF ConnTypes
<1>3. \A d \in Conns : link'[d] = IF d = c THEN "closed" ELSE link[d]
  BY DEF ConnTypes
<1>4. Reading(c)' BY <1>3 DEF Reading
<1>5. Asking(c)' BY DEF Asking, listVars
<1>6. Serving(c)' BY DEF Serving, Fits, listVars
<1>7. listening' => proc' = "serving" BY DEF listVars
<1> QED BY <1>1, <1>2, <1>3, <1>4, <1>5, <1>6, <1>7, OneConnection

\* A reply is written, and the line it answers is done with; or the handler ends.
LEMMA DoneStep ==
    ASSUME ListInv, ConnInv, NEW c \in Conns, SendResponse(c) \/ EndOfInput(c)
    PROVE  ListInv' /\ ConnInv'
PROOF
<1> USE DEF ConnInv
<1>1. ListInv' /\ \A d \in Conns : Undisturbed(d)
  BY ListsAlone DEF SendResponse, EndOfInput
<1>2. UNCHANGED <<listVars, listening, cache>> BY DEF SendResponse, EndOfInput
<1>3. listening' => proc' = "serving" BY <1>2 DEF listVars
<1>4. error \in Responses BY SnapshotIsWanted
<1>5. pc[c] = "idle" BY DEF SendResponse, EndOfInput, Serving
<1>6. CASE /\ Drop({c})
           /\ \/ link' = [link EXCEPT ![c] = "closed"]
              \/ link[c] = "closed" /\ UNCHANGED link
  <2>1. /\ handler'[c] = "off" /\ sent'[c] = <<>> /\ read'[c] = 0
        /\ link'[c] = "closed"
        /\ \A d \in Conns \ {c} :
               /\ link'[d] = link[d] /\ handler'[d] = handler[d] /\ sent'[d] = sent[d]
               /\ read'[d] = read[d] /\ reply'[d] = reply[d]
    BY <1>6 DEF Drop, ConnTypes
  <2>2. ConnTypes'
    <3>1. sent' \in [Conns -> Seq(SentLines)] BY <1>6 DEF Drop, ConnTypes
    <3> QED BY <1>2, <1>4, <1>6, <3>1 DEF Drop, ConnTypes
  <2>3. Len(<<>>) = 0 /\ DOMAIN <<>> = {} /\ MaxLines \in Nat
    BY ManagementAssumption
  <2>4. Reading(c)' /\ Asking(c)' /\ Serving(c)'
    BY <1>2, <1>5, <2>1, <2>3 DEF Reading, Asking, Serving, listVars
  <2> QED BY <1>1, <1>3, <2>1, <2>2, <2>4, OneConnection
<1>7. CASE /\ handler[c] = "replying"
           /\ handler' = [handler EXCEPT ![c] = "reading"]
           /\ sent' = [sent EXCEPT ![c] = Tail(@)]
           /\ read' = [read EXCEPT ![c] = @ - 1]
           /\ reply' = [reply EXCEPT ![c] = error]
           /\ link' = [link EXCEPT ![c] = IF c \in Clis /\ @ = "open" THEN "answered" ELSE @]
  <2>1. read[c] = 1 /\ sent[c] # <<>> BY <1>7 DEF Reading
  <2>2. /\ Tail(sent[c]) \in Seq(SentLines)
        /\ Len(Tail(sent[c])) = Len(sent[c]) - 1
        /\ \A i \in DOMAIN Tail(sent[c]) :
               i + 1 \in DOMAIN sent[c] /\ Tail(sent[c])[i] = sent[c][i + 1]
    BY <2>1, PopLine
  <2>3. /\ handler'[c] = "reading" /\ sent'[c] = Tail(sent[c]) /\ read'[c] = 0
        /\ \A d \in Conns \ {c} :
               /\ link'[d] = link[d] /\ handler'[d] = handler[d] /\ sent'[d] = sent[d]
               /\ read'[d] = read[d] /\ reply'[d] = reply[d]
    BY <1>7, <2>1 DEF ConnTypes
  <2>4. ConnTypes'
    <3>1. sent' \in [Conns -> Seq(SentLines)] BY <1>7, <2>2 DEF ConnTypes
    <3>2. read' \in [Conns -> {0, 1}] BY <1>7, <2>1 DEF ConnTypes
    <3>3. link' \in [Conns -> {"open", "answered", "closed"}] BY <1>7 DEF ConnTypes
    <3> QED BY <1>2, <1>4, <1>7, <3>1, <3>2, <3>3 DEF ConnTypes
  <2>5. Reading(c)'
    <3>1. Len(Tail(sent[c])) <= MaxLines
      BY <2>2, LineTypes, ManagementAssumption DEF Reading
    <3> QED BY <2>3, <3>1 DEF Reading
  <2>6. Asking(c)' BY <1>2, <2>2, <2>3 DEF Asking, listVars
  <2>7. Serving(c)' BY <1>2, <1>5, <2>3 DEF Serving, listVars
  <2> QED BY <1>1, <1>3, <2>3, <2>4, <2>5, <2>6, <2>7, OneConnection
<1> HIDE DEF ConnInv
<1>8. CASE EndOfInput(c)
  <2>1. Drop({c}) /\ link' = [link EXCEPT ![c] = "closed"] BY <1>8 DEF EndOfInput
  <2> QED BY <1>6, <2>1, Zenon
<1>9. CASE SendResponse(c) BY <1>6, <1>7, <1>9, Zenon DEF SendResponse
<1> QED BY <1>8, <1>9

\* A blank line is skipped.
LEMMA BlankStep ==
    ASSUME ListInv, ConnInv, NEW c \in Conns, handler[c] = "reading", sent[c] # <<>>,
           sent' = [sent EXCEPT ![c] = Tail(@)],
           UNCHANGED <<link, handler, read, reply, listVars, listening, cache>>
    PROVE  ListInv' /\ ConnInv'
PROOF
<1> USE DEF ConnInv
<1>1. ListInv' /\ \A d \in Conns : Undisturbed(d) BY ListsAlone
<1>2. /\ Tail(sent[c]) \in Seq(SentLines)
      /\ Len(Tail(sent[c])) = Len(sent[c]) - 1
      /\ \A i \in DOMAIN Tail(sent[c]) :
             i + 1 \in DOMAIN sent[c] /\ Tail(sent[c])[i] = sent[c][i + 1]
  BY PopLine
<1>3. sent'[c] = Tail(sent[c]) /\ \A d \in Conns \ {c} : sent'[d] = sent[d]
  BY DEF ConnTypes
<1>4. ConnTypes'
  <2>1. sent' \in [Conns -> Seq(SentLines)] BY <1>2 DEF ConnTypes
  <2> QED BY <2>1 DEF ConnTypes
<1>5. Reading(c)'
  <2>1. Len(Tail(sent[c])) <= MaxLines
    BY <1>2, LineTypes, ManagementAssumption DEF Reading
  <2> QED BY <1>3, <2>1 DEF Reading
<1>6. Asking(c)' BY <1>2, <1>3 DEF Asking, listVars
<1>7. Serving(c)' BY DEF Serving, listVars
<1>8. listening' => proc' = "serving" BY DEF listVars
<1> QED BY <1>1, <1>3, <1>4, <1>5, <1>6, <1>7, <1>8, OneConnection

\* An answer is ready for the line that was read.
LEMMA AnswerStep ==
    ASSUME ListInv, ListInv', ConnInv, NEW c \in Conns, NEW r \in Responses,
           Answer(c, r), sent[c] # <<>>, read'[c] = 1, read' \in [Conns -> {0, 1}],
           pc'[c] = "idle", Fits(r, sent[c][1])', refreshes' >= refreshes,
           listening' => proc' = "serving",
           \A d \in Conns \ {c} : Undisturbed(d) /\ read'[d] = read[d],
           UNCHANGED <<link, sent, listening, cache>>
    PROVE  ConnInv'
PROOF
<1> USE DEF ConnInv, Answer
<1>1. ConnTypes' BY DEF ConnTypes
<1>2. /\ handler'[c] = "replying" /\ reply'[c] = r
      /\ \A d \in Conns \ {c} : handler'[d] = handler[d] /\ reply'[d] = reply[d]
  BY DEF ConnTypes
<1>3. Reading(c)' BY <1>2 DEF Reading
<1>4. Asking(c)'
  <2>1. refreshes \in Nat /\ refreshes' \in Nat BY Constants DEF ListInv, B!TypeOK
  <2>2. \A i \in DOMAIN sent[c] : sent[c][i].since \in Nat
    BY LineTypes, Constants DEF SentLines
  <2>3. \A i \in DOMAIN sent[c] : sent[c][i].since <= refreshes'
    BY <2>1, <2>2 DEF Asking
  <2> QED BY <2>3 DEF Asking
<1>5. Serving(c)' BY <1>2 DEF Serving, Fits
<1> QED BY <1>1, <1>2, <1>3, <1>4, <1>5, OneConnection

\* A flush: the entries from before are gone for every line on its way.
LEMMA FlushStep ==
    ASSUME ListInv, ConnInv, NEW c \in Conns, handler[c] = "reading", sent[c] # <<>>,
           sent[c][1].line = "cache_flush", flush, Answer(c, ok("none")),
           read' = [read EXCEPT ![c] = @ + 1],
           UNCHANGED <<listVars, listening, link>>
    PROVE  ListInv' /\ ConnInv'
PROOF
<1> USE DEF ConnInv
<1>1. ListInv' BY ListsAlone
<1>2. read[c] = 0 /\ pc[c] = "idle" BY DEF Reading, Serving
<1>3. /\ handler'[c] = "replying" /\ reply'[c] = ok("none") /\ read'[c] = 1
      /\ \A d \in Conns \ {c} : /\ handler'[d] = handler[d] /\ reply'[d] = reply[d]
                                /\ read'[d] = read[d]
  BY <1>2 DEF Answer, ConnTypes
<1>4. ASSUME NEW d \in Conns
      PROVE  /\ sent'[d] \in Seq(SentLines) /\ Len(sent'[d]) = Len(sent[d])
             /\ DOMAIN sent'[d] = DOMAIN sent[d]
             /\ sent[d] = <<>> <=> sent'[d] = <<>>
             /\ \A i \in DOMAIN sent[d] : /\ sent'[d][i].line = sent[d][i].line
                                          /\ sent'[d][i].since = sent[d][i].since
                                          /\ sent'[d][i].old = FALSE
  <2> DEFINE n == Len(sent[d])
             t == [i \in 1 .. n |-> [sent[d][i] EXCEPT !.old = FALSE]]
  <2>1. n \in Nat /\ DOMAIN sent[d] = 1 .. n /\ sent[d] \in Seq(SentLines)
        /\ \A i \in 1 .. n : sent[d][i] \in SentLines
    BY LineTypes
  <2>2. sent'[d] = t BY <2>1 DEF flush
  <2>3. \A i \in 1 .. n : /\ t[i] \in SentLines
                          /\ t[i].line = sent[d][i].line
                          /\ t[i].since = sent[d][i].since
                          /\ t[i].old = FALSE
    BY <2>1 DEF SentLines
  <2> HIDE DEF n
  <2>4. t \in Seq(SentLines) /\ Len(t) = n /\ DOMAIN t = 1 .. n BY <2>1, <2>3
  <2>5. sent[d] = <<>> <=> n = 0 BY <2>1 DEF n
  <2>6. t = <<>> <=> n = 0 BY <2>1, <2>4
  <2> HIDE DEF t
  <2> QED BY <2>1, <2>2, <2>3, <2>4, <2>5, <2>6 DEF n
<1>5. ConnTypes'
  <2>1. sent' \in [Conns -> Seq(SentLines)] BY <1>4 DEF flush
  <2>2. read' \in [Conns -> {0, 1}] BY <1>2 DEF ConnTypes
  <2>3. ok("none") \in Responses BY SnapshotIsWanted
  <2> QED BY <2>1, <2>2, <2>3 DEF ConnTypes, Answer, flush
<1>6. ASSUME NEW d \in Conns PROVE Reading(d)' /\ Asking(d)' /\ Serving(d)'
  <2>1. Reading(d)'
    <3>1. CASE d = c BY <1>3, <1>4, <3>1 DEF Reading
    <3>2. CASE d # c BY <1>3, <1>4, <3>2 DEF Reading
    <3> QED BY <3>1, <3>2
  <2>2. Asking(d)' BY <1>4 DEF Asking, listVars
  <2>3. Serving(d)'
    <3>1. CASE d = c
      <4>1. 1 \in DOMAIN sent[c] BY LineTypes
      <4>2. Fits(ok("none"), sent[c][1])'
        BY <1>4, <4>1, SnapshotIsWanted DEF Fits, ok
      <4> QED BY <1>2, <1>3, <3>1, <4>2 DEF Serving, listVars, Fits
    <3>2. CASE d # c
      <4>1. CASE handler[d] = "replying"
        <5>1. 1 \in DOMAIN sent[d] BY <4>1, LineTypes DEF Reading
        <5>2. Fits(reply[d], sent[d][1]) BY <4>1 DEF Serving
        <5>3. Fits(reply[d], sent[d][1])'
          BY <1>3, <1>4, <3>2, <5>1, <5>2 DEF Fits, listVars
        <5> QED BY <1>3, <3>2, <4>1, <5>3 DEF Serving, listVars
      <4>2. CASE handler[d] = "reloading"
        <5>1. 1 \in DOMAIN sent[d] BY <4>2, LineTypes DEF Reading
        <5> QED BY <1>3, <1>4, <3>2, <4>2, <5>1 DEF Serving, listVars
      <4>3. CASE handler[d] \notin {"replying", "reloading"}
        BY <1>3, <3>2, <4>3 DEF Serving, listVars
      <4> QED BY <4>1, <4>2, <4>3
    <3> QED BY <3>1, <3>2
  <2> QED BY <2>1, <2>2, <2>3
<1> QED BY <1>1, <1>5, <1>6 DEF listVars

\* dispatch: a reload waits, a flush is done, the others are answered.
LEMMA ReadLineStep ==
    ASSUME ListInv, ConnInv, NEW c \in Conns, ReadLine(c)
    PROVE  ListInv' /\ ConnInv'
PROOF
<1> DEFINE line == sent[c][1].line
<1>1. handler[c] = "reading" /\ read[c] = 0
  BY DEF ReadLine, Ready, ConnInv, Reading
<1>2. sent[c] # <<>> /\ 1 \in DOMAIN sent[c]
  <2>1. Len(sent[c]) > 0 BY <1>1, LineTypes DEF ReadLine, ConnInv
  <2> QED BY <2>1, LineTypes DEF ConnInv
<1>3. sent[c][read[c] + 1].line = line BY <1>1
<1>4. UNCHANGED <<listening, link>> BY DEF ReadLine
<1>5. pc[c] = "idle" BY <1>1 DEF ConnInv, Serving
<1>6. listening => proc = "serving" BY DEF ConnInv
<1> HIDE DEF line
<1>7. CASE /\ sent' = [sent EXCEPT ![c] = Tail(@)]
           /\ UNCHANGED <<read, handler, reply, cache, listVars>>
  BY <1>1, <1>2, <1>4, <1>7, BlankStep
<1>8. CASE read' = [read EXCEPT ![c] = @ + 1] /\ Dispatch(c, line)
  <2>1. read'[c] = 1 /\ read' \in [Conns -> {0, 1}] /\ \A d \in Conns \ {c} : read'[d] = read[d]
    BY <1>1, <1>8 DEF ConnInv, ConnTypes
  <2>2. CASE line = "blocklist_reload" /\ RefreshAndReload(c) /\ UNCHANGED <<cache, sent>>
    <3>1. /\ B!Call(c) /\ handler' = [handler EXCEPT ![c] = "reloading"]
          /\ UNCHANGED <<reply, cache, sent>>
      BY <2>2 DEF RefreshAndReload
    <3>2. ListInv' BY <3>1, Constants, ListStep DEF B!Next
    <3>3. /\ pc'[c] = "locking" /\ UNCHANGED <<proc, lock, number, refreshes, engine>>
          /\ \A d \in Conns \ {c} : pc'[d] = pc[d]
      BY <3>1, Constants DEF B!Call, B!Go, ListInv, B!TypeOK
    <3>4. \A d \in Conns \ {c} : Undisturbed(d)
      <4>1. refreshes \in Nat /\ \A l \in Lists : engine[l] \in Nat
        BY Constants DEF ListInv, B!TypeOK, B!Versions
      <4> QED BY <3>3, <4>1 DEF Undisturbed
    <3>5. ConnTypes' BY <1>4, <2>1, <3>1 DEF ConnInv, ConnTypes
    <3>6. handler'[c] = "reloading" /\ \A d \in Conns \ {c} : handler'[d] = handler[d]
      BY <3>1 DEF ConnInv, ConnTypes
    <3>7. Reading(c)' BY <1>2, <1>4, <2>1, <3>1, <3>6 DEF ConnInv, Reading
    <3>8. Asking(c)' BY <3>1, <3>3 DEF ConnInv, Asking
    <3>9. lock # c
      BY <1>5, Constants DEF ListInv, Exclusive
    <3>10. Serving(c)' BY <2>2, <3>1, <3>3, <3>6, <3>9 DEF Serving, line
    <3> QED BY <1>4, <1>6, <2>1, <3>1, <3>2, <3>3, <3>4, <3>5, <3>6, <3>7, <3>8, <3>10,
               OneConnection
  <2>3. CASE line = "cache_flush" /\ flush /\ Answer(c, ok("none")) /\ UNCHANGED listVars
    BY <1>1, <1>2, <1>4, <1>8, <2>3, FlushStep DEF line
  <2>4. ASSUME NEW r \in Responses, Answer(c, r),
               \/ line = "invalid" /\ r = error
               \/ line \in Snapshots /\ r = ok(Snapshot(line)),
               UNCHANGED <<cache, sent, listVars>>
        PROVE  ListInv' /\ ConnInv'
    <3>1. ListInv' /\ \A d \in Conns : Undisturbed(d) BY <2>4, ListsAlone
    <3>2. ~sent[c][1].old
      <4>1. line # "cache_flush" BY <2>4 DEF Snapshots
      <4> QED BY <1>2, <4>1 DEF line, ConnInv, Asking
    <3>3. line # "blocklist_reload" BY <2>4 DEF Snapshots
    <3>4. IF r.status = "ok" THEN line # "invalid" /\ r.payload = Wanted(line)
                             ELSE line \in {"invalid", "blocklist_reload"}
      BY <2>4, SnapshotIsWanted DEF ok, error, Snapshots, Requests
    <3>5. Fits(r, sent[c][1])' BY <2>4, <3>2, <3>3, <3>4 DEF Fits, line
    <3>6. pc'[c] = "idle" /\ refreshes' >= refreshes /\ (listening' => proc' = "serving")
      BY <1>4, <1>5, <1>6, <2>4, <3>1 DEF listVars, Undisturbed
    <3> QED BY <1>2, <1>4, <2>1, <2>4, <3>1, <3>5, <3>6, AnswerStep
  <2>5. CASE line = "invalid" /\ Answer(c, error) /\ UNCHANGED <<cache, sent, listVars>>
    BY <2>4, <2>5, SnapshotIsWanted
  <2>6. CASE /\ line \in Snapshots /\ Answer(c, ok(Snapshot(line)))
             /\ UNCHANGED <<cache, sent, listVars>>
    BY <2>4, <2>6, SnapshotIsWanted
  <2> QED BY <1>8, <2>2, <2>3, <2>5, <2>6 DEF Dispatch
<1> QED BY <1>3, <1>7, <1>8 DEF ReadLine

\* A reload takes the lock, goes on, or ends with its answer.
LEMMA ReloadStep ==
    ASSUME ListInv, ConnInv, NEW c \in Conns, ReloadLock(c) \/ Reload(c)
    PROVE  ListInv' /\ ConnInv'
PROOF
<1> USE Constants
<1>1. handler[c] = "reloading" /\ UNCHANGED <<listening, cache, link, sent, read>>
  BY DEF ReloadLock, Reload, connVars
<1>2. B!Next BY DEF ReloadLock, Reload, B!Next, B!Work
<1>3. ListInv' BY <1>2, ListStep
<1>4. refreshes \in Nat /\ \A l \in Lists : engine[l] \in Nat /\ engine'[l] \in Nat
  BY <1>3 DEF ListInv, B!TypeOK, B!Versions
<1>5. /\ read[c] = 1 /\ sent[c] # <<>> /\ 1 \in DOMAIN sent[c]
      /\ sent[c][1].line = "blocklist_reload"
      /\ lock = c => sent[c][1].since < number[c]
  BY <1>1, LineTypes DEF ConnInv, Reading, Serving
<1>6. /\ sent[c][1].since \in Nat /\ sent[c][1].since <= refreshes /\ ~sent[c][1].old
  BY <1>5, LineTypes DEF ConnInv, Asking, SentLines
<1>7. CASE /\ B!Lock(c) \/ B!Download(c) \/ B!Rename(c) \/ B!Read(c)
           /\ UNCHANGED <<handler, reply>>
  <2>1. /\ pc'[c] # "idle"
        /\ UNCHANGED <<proc, engine>> /\ refreshes' >= refreshes
        /\ \A d \in Refreshers \ {c} : /\ pc'[d] = pc[d] /\ number'[d] = number[d]
                                       /\ lock' = d => lock = d
        /\ lock' = c => \/ lock = c /\ number'[c] = number[c]
                        \/ number'[c] > refreshes
    BY <1>7, GoingOn
  <2>2. \A d \in Conns \ {c} : Undisturbed(d) BY <1>4, <2>1 DEF Undisturbed
  <2>3. ConnTypes' BY <1>1, <1>7 DEF ConnInv, ConnTypes
  <2>4. Reading(c)' BY <1>1, <1>7 DEF ConnInv, Reading
  <2>5. refreshes' \in Nat /\ number'[c] \in Nat BY <1>3 DEF ListInv, B!TypeOK
  <2>6. Asking(c)'
    <3>1. \A i \in DOMAIN sent[c] : sent[c][i].since \in Nat
      BY LineTypes DEF ConnInv, SentLines
    <3>2. \A i \in DOMAIN sent[c] : sent[c][i].since <= refreshes'
      BY <1>4, <2>1, <2>5, <3>1 DEF ConnInv, Asking
    <3> QED BY <1>1, <3>2 DEF ConnInv, Asking
  <2>7. Serving(c)'
    <3>1. lock' = c => sent[c][1].since < number'[c]
      BY <1>4, <1>5, <1>6, <2>1, <2>5
    <3> QED BY <1>1, <1>5, <1>7, <2>1, <3>1 DEF Serving
  <2>8. listening' => proc' = "serving" BY <1>1, <2>1 DEF ConnInv
  <2> QED BY <1>1, <1>3, <1>7, <2>2, <2>3, <2>4, <2>6, <2>7, <2>8, OneConnection
<1>8. ASSUME NEW r \in Responses, Answer(c, r),
             \/ B!Swap(c) /\ r = ok("none")
             \/ B!Fail(c) /\ r = error
      PROVE  ListInv' /\ ConnInv'
  <2>1. /\ pc'[c] = "idle" /\ lock = c
        /\ proc' \in {proc, "serving"} /\ UNCHANGED refreshes
        /\ \A d \in Refreshers \ {c} : /\ pc'[d] = pc[d] /\ number'[d] = number[d]
                                       /\ lock' = d => lock = d
    BY <1>8, Ending
  <2>2. \A l \in Lists : engine'[l] >= engine[l]
    BY <1>4, <1>8, SwapStep DEF B!Fail
  <2>3. \A d \in Conns \ {c} : Undisturbed(d) BY <1>4, <2>1, <2>2 DEF Undisturbed
  <2>4. Fits(r, sent[c][1])'
    <3>1. CASE B!Swap(c) /\ r = ok("none")
      <4>1. \A l \in Lists : engine'[l] = number[c] BY <3>1, SwapStep
      <4>2. \A l \in Lists : engine'[l] > sent[c][1].since
        BY <1>4, <1>5, <1>6, <2>1, <4>1
      <4> QED BY <1>1, <1>5, <1>6, <3>1, <4>2, SnapshotIsWanted DEF Fits, ok
    <3>2. CASE r = error
      BY <1>1, <1>5, <1>6, <3>2 DEF Fits, error
    <3> QED BY <1>8, <3>1, <3>2
  <2>5. listening' => proc' = "serving" BY <1>1, <2>1 DEF ConnInv
  <2>6. read'[c] = 1 /\ read' \in [Conns -> {0, 1}]
    BY <1>1, <1>5 DEF ConnInv, ConnTypes
  <2>7. refreshes' >= refreshes BY <1>4, <2>1
  <2> QED BY <1>1, <1>3, <1>5, <1>8, <2>1, <2>3, <2>4, <2>5, <2>6, <2>7, AnswerStep
<1>9. CASE ReloadLock(c) BY <1>7, <1>9 DEF ReloadLock, connVars
<1>10. CASE Reload(c) BY <1>7, <1>8, <1>10, SnapshotIsWanted DEF Reload
<1> QED BY <1>9, <1>10

-----------------------------------------------------------------------------
(* The results.                                                            *)

LEMMA InitInv == Init => ListInv /\ ConnInv
PROOF BY ListInit, ConnInit DEF Init

LEMMA NextInv == ListInv /\ ConnInv /\ [Next]_vars => ListInv' /\ ConnInv'
PROOF
<1> SUFFICES ASSUME ListInv, ConnInv, [Next]_vars PROVE ListInv' /\ ConnInv' OBVIOUS
<1>1. Clis \subseteq Conns /\ Peers \subseteq Conns BY DEF Conns
<1>2. CASE Start \/ \E c \in Timers \cup {Startup} : Background(c)
  BY <1>2, BackgroundStep
<1>3. CASE Listen \/ Insert BY <1>3, ListenStep
<1>4. CASE Stop BY <1>4, StopsStep
<1>5. ASSUME NEW c \in Clis, NEW line \in Asked, Command(c, line)
      PROVE  ListInv' /\ ConnInv'
  BY <1>1, <1>5, OpenStep, ManagementAssumption DEF Command
<1>6. ASSUME NEW c \in Peers, NEW line \in Lines, Write(c, line)
      PROVE  ListInv' /\ ConnInv'
  <2>1. c \in Conns /\ line \in Requests \cup {"blank", "invalid"}
    BY <1>1, ManagementAssumption
  <2>2. CASE Idle(c) /\ Open(c, line)
    BY <1>6, <2>1, <2>2, OpenStep DEF Write
  <2>3. CASE ~(Idle(c) /\ Open(c, line))
    <3>1. /\ link[c] = "open" /\ Len(sent[c]) < MaxLines
          /\ sent' = [sent EXCEPT ![c] = Append(@, Sent(line))]
          /\ UNCHANGED <<link, handler, read, reply, listVars, listening, cache>>
      BY <1>6, <2>3 DEF Write
    <3> QED BY <2>1, <3>1, WriteStep
  <2> QED BY <2>2, <2>3
<1>7. ASSUME NEW c \in Conns, Receive(c) \/ Vanish(c) PROVE ListInv' /\ ConnInv'
  BY <1>7, ExitStep DEF Receive, Vanish
<1>8. ASSUME NEW c \in Conns, Handle(c) \/ EndOfInput(c) PROVE ListInv' /\ ConnInv'
  BY <1>8, ReadLineStep, ReloadStep, DoneStep DEF Handle
<1>9. CASE UNCHANGED vars
  <2>1. UNCHANGED <<listVars, listening, connVars, cache>> BY <1>9 DEF vars
  <2>2. ListInv' /\ \A d \in Conns : Undisturbed(d) BY <2>1, ListsAlone
  <2>3. ConnTypes' BY <2>1 DEF ConnInv, ConnTypes, connVars
  <2>4. \A d \in Conns : Reading(d)' /\ Asking(d)' /\ Serving(d)'
    BY <2>1, <2>2, LeftAlone DEF ConnInv, connVars
  <2> QED BY <2>1, <2>2, <2>3, <2>4 DEF ConnInv, listVars
<1> QED BY <1>1, <1>2, <1>3, <1>4, <1>5, <1>6, <1>7, <1>8, <1>9 DEF Next

LEMMA Invariance == Spec => [](ListInv /\ ConnInv)
PROOF BY InitInv, NextInv, PTL DEF Spec

\* What a step of the program is to the blocklist.
LEMMA StepImplements == [Next]_vars => [B!Next]_listVars
PROOF
<1> SUFFICES ASSUME [Next]_vars PROVE B!Next \/ UNCHANGED listVars OBVIOUS
<1> USE Constants
<1>1. CASE Start \/ \E c \in Timers \cup {Startup} : Background(c)
  BY <1>1 DEF Start, Background, B!Next
<1>2. CASE Listen \/ Insert \/ Stop BY <1>2 DEF Listen, Insert, Stop, B!Next
<1>3. ASSUME NEW c \in Clis, NEW line \in Asked, Command(c, line)
      PROVE  UNCHANGED listVars
  BY <1>3 DEF Command
<1>4. ASSUME NEW c \in Peers, NEW line \in Lines, Write(c, line)
      PROVE  UNCHANGED listVars
  BY <1>4 DEF Write
<1>5. ASSUME NEW c, Receive(c) \/ Vanish(c) PROVE UNCHANGED listVars
  BY <1>5 DEF Receive, Vanish
<1>6. ASSUME NEW c \in Conns, Handle(c) \/ EndOfInput(c)
      PROVE  B!Next \/ UNCHANGED listVars
  <2>1. CASE ReadLine(c)
    BY <2>1 DEF ReadLine, Dispatch, RefreshAndReload, B!Next
  <2>2. CASE ReloadLock(c) \/ Reload(c)
    BY <2>2 DEF ReloadLock, Reload, B!Next, B!Work
  <2>3. CASE SendResponse(c) \/ EndOfInput(c)
    BY <2>3 DEF SendResponse, EndOfInput
  <2> QED BY <1>6, <2>1, <2>2, <2>3 DEF Handle
<1>7. CASE UNCHANGED vars BY <1>7 DEF vars
<1> QED BY <1>1, <1>2, <1>3, <1>4, <1>5, <1>6, <1>7 DEF Next

\* The daemon with its management socket implements Blocklist: whatever commands,
\* peers, timer and startup do, refresh_and_reload takes the steps of that module
\* and no other, with a command of it for every connection.
THEOREM ImplementsBlocklist == Spec => B!Spec
PROOF
<1>1. Init => B!Init BY DEF Init
<1>2. [Next]_vars => [B!Next]_B!vars BY StepImplements DEF listVars, B!vars
<1> QED BY <1>1, <1>2, PTL DEF Spec, B!Spec

\* Every variable has its type: no connection has read more than one line that it
\* has not answered, and its handler waits for a reload as long as that runs.
THEOREM TypeCorrect == Spec => []TypeOK
PROOF
<1>1. ListInv /\ ConnInv => TypeOK
  <2> SUFFICES ASSUME ListInv, ConnInv PROVE TypeOK OBVIOUS
  <2>1. ASSUME NEW c \in Conns
        PROVE  /\ read[c] \in 0 .. Len(sent[c]) /\ reply[c] \in Responses
               /\ Len(sent[c]) <= MaxLines
               /\ (pc[c] # "idle") <=> (handler[c] = "reloading")
    <3>1. read[c] \in 0 .. Len(sent[c])
      BY LineTypes DEF ConnInv, ConnTypes, Reading
    <3> QED BY <3>1 DEF ConnInv, ConnTypes, Reading, Serving
  <2> QED BY <2>1 DEF TypeOK, ListInv, ConnInv, ConnTypes
<1> QED BY <1>1, Invariance, PTL

\* The engine in use is made of the lists of one refresh: the lock keeps others
\* out until Swap, and a refresh that fails or dies swaps nothing in.
THEOREM EngineIsOfOneRefresh == Spec => []EngineOfOneRefresh
PROOF
<1>1. ListInv => EngineOfOneRefresh
  BY DEF ListInv, InUse, EngineOfOneRefresh, B!EngineOfOneRefresh
<1> QED BY <1>1, Invariance, PTL

\* As long as the process lives, a swap never brings back older rules.
THEOREM EngineGoesForward == Spec => EngineNeverGoesBack
PROOF
<1>1. ListInv /\ [Next]_vars =>
          [proc' # "down" => \A l \in B!Lists : engine'[l] >= engine[l]]_B!vars
  BY StepImplements, ListStep DEF B!vars, listVars
<1> QED BY <1>1, Invariance, PTL DEF Spec, EngineNeverGoesBack, B!EngineNeverGoesBack

\* A reply of success means done: a reload is answered after a refresh that began
\* when it had been sent, not by one that was under way, and a flush after nothing
\* from before it is left.
THEOREM RepliesMeanDone == Spec => AcknowledgedIsDone
PROOF
<1>1. ConnInv /\ [Next]_vars =>
          [\A c \in Conns :
              Replied(c) /\ reply[c].status = "ok" =>
                  LET s == Head(sent[c])
                  IN  /\ s.line = "blocklist_reload" => \A l \in B!Lists : engine[l] > s.since
                      /\ ~s.old]_vars
  <2> SUFFICES ASSUME ConnInv, NEW c \in Conns, Replied(c), reply[c].status = "ok"
               PROVE  /\ Head(sent[c]).line = "blocklist_reload" =>
                            \A l \in B!Lists : engine[l] > Head(sent[c]).since
                      /\ ~Head(sent[c]).old
    OBVIOUS
  <2>1. Fits(reply[c], sent[c][1]) /\ sent[c] # <<>>
    BY DEF Replied, ConnInv, Serving, Reading
  <2>2. Head(sent[c]) = sent[c][1] BY <2>1, LineTypes DEF ConnInv
  <2> QED BY <2>1, <2>2 DEF Fits
<1> QED BY <1>1, Invariance, PTL DEF Spec, AcknowledgedIsDone

\* Replies come in the order of the lines, and each has what the client's method
\* for that request takes from it.
THEOREM RepliesAreInOrder == Spec => RepliesInOrder
PROOF
<1>1. ConnInv /\ [Next]_vars =>
          [\A c \in Conns :
              Replied(c) =>
                  LET line == Head(sent[c]).line
                  IN  IF reply[c].status = "ok"
                      THEN line # "invalid" /\ reply[c].payload = Wanted(line)
                      ELSE line \in {"invalid", "blocklist_reload"}]_vars
  <2> SUFFICES ASSUME ConnInv, NEW c \in Conns, Replied(c)
               PROVE  IF reply[c].status = "ok"
                      THEN /\ Head(sent[c]).line # "invalid"
                           /\ reply[c].payload = Wanted(Head(sent[c]).line)
                      ELSE Head(sent[c]).line \in {"invalid", "blocklist_reload"}
    OBVIOUS
  <2>1. Fits(reply[c], sent[c][1]) /\ sent[c] # <<>>
    BY DEF Replied, ConnInv, Serving, Reading
  <2>2. Head(sent[c]) = sent[c][1] BY <2>1, LineTypes DEF ConnInv
  <2> QED BY <2>1, <2>2 DEF Fits
<1> QED BY <1>1, Invariance, PTL DEF Spec, RepliesInOrder
=============================================================================
