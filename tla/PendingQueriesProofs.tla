------------------------ MODULE PendingQueriesProofs ------------------------
(***************************************************************************)
(* Proofs about PendingQueries, for any number of requests, keys and       *)
(* channels.                                                               *)
(*                                                                         *)
(* The argument: Structure ties the four places a channel can be seen in   *)
(* (the map, a task, a receiver, the value it holds) to each other, and is *)
(* kept by every step.  The safety properties follow from it; the gauges   *)
(* are then counted along, and the refinement holds step by step.          *)
(***************************************************************************)
EXTENDS PendingQueries, FiniteSetTheorems, TLAPS

IndInv == TypeOK /\ Structure /\ GaugesExact

\* A request joins under a key: it leads, with a channel of its own, or follows.
LEMMA JoinKey ==
    ASSUME NEW r \in Requests, Join(r)
    PROVE  \E k \in Keys : \/ \E c \in Channels : JoinAsLeader(r, k, c)
                           \/ JoinAsFollower(r, k)
PROOF
<1>1. \A q \in Questions : <<MapOf(r), q>> \in Keys BY DEF Keys, Maps, MapOf
<1> QED BY <1>1 DEF Join

-----------------------------------------------------------------------------
\* Structure is kept by every step: of the requests, of the tasks, and by a
\* request future that is dropped.
LEMMA StructureStep ==
    ASSUME TypeOK, Structure, [Next]_vars PROVE Structure'
PROOF
<1> USE PendingAssumption DEF TypeOK, Structure, reqVars, taskVars, gauges
<1> USE DEF RequestsWellFormed, EntriesWellFormed, TasksWellFormed,
            LeadersWellFormed, WaitersWellFormed, EntryHasOwner
<1>1. ASSUME NEW r \in Requests, NEW k \in Keys, NEW c \in Channels,
             JoinAsLeader(r, k, c)
      PROVE Structure'
  <2>1. RequestsWellFormed'
    BY <1>1 DEF JoinAsLeader, Hold, NoEntry, Unused
  <2>2. EntriesWellFormed'
    BY <1>1 DEF JoinAsLeader, Hold, NoEntry, Unused
  <2>3. TasksWellFormed'
    BY <1>1 DEF JoinAsLeader, Hold, NoEntry, Unused
  <2>4. LeadersWellFormed'
    BY <1>1 DEF JoinAsLeader, Hold, NoEntry, Unused
  <2>5. WaitersWellFormed'
    BY <1>1 DEF JoinAsLeader, Hold, NoEntry, Unused
  <2>6. EntryHasOwner'
    BY <1>1 DEF JoinAsLeader, Hold, NoEntry, Unused
  <2> QED BY <2>1, <2>2, <2>3, <2>4, <2>5, <2>6
<1>2. ASSUME NEW r \in Requests, NEW k \in Keys,
             JoinAsFollower(r, k)
      PROVE Structure'
  <2>1. RequestsWellFormed'
    BY <1>2 DEF JoinAsFollower, Hold, NoEntry
  <2>2. EntriesWellFormed'
    BY <1>2 DEF JoinAsFollower, Hold, NoEntry
  <2>3. TasksWellFormed'
    BY <1>2 DEF JoinAsFollower, Hold, NoEntry
  <2>4. LeadersWellFormed'
    BY <1>2 DEF JoinAsFollower, Hold, NoEntry
  <2>5. WaitersWellFormed'
    BY <1>2 DEF JoinAsFollower, Hold, NoEntry
  <2>6. EntryHasOwner'
    BY <1>2 DEF JoinAsFollower, Hold, NoEntry
  <2> QED BY <2>1, <2>2, <2>3, <2>4, <2>5, <2>6
<1>3. ASSUME NEW r \in Requests,
             Lead(r)
      PROVE Structure'
  <2>1. RequestsWellFormed'
    BY <1>3 DEF Lead
  <2>2. EntriesWellFormed'
    BY <1>3 DEF Lead
  <2>3. TasksWellFormed'
    BY <1>3 DEF Lead
  <2>4. LeadersWellFormed'
    BY <1>3 DEF Lead
  <2>5. WaitersWellFormed'
    BY <1>3 DEF Lead
  <2>6. EntryHasOwner'
    BY <1>3 DEF Lead
  <2> QED BY <2>1, <2>2, <2>3, <2>4, <2>5, <2>6
<1>4. ASSUME NEW r \in Requests,
             Follow(r)
      PROVE Structure'
  BY <1>4 DEF Follow
<1>5. ASSUME NEW r \in Requests,
             Resolve(r)
      PROVE Structure'
  BY <1>5 DEF Resolve, Waiting, Return
<1>6. ASSUME NEW r \in Requests,
             Timeout(r)
      PROVE Structure'
  BY <1>6 DEF Timeout, Waiting, Return
<1>7. ASSUME NEW r \in Requests,
             Drop(r)
      PROVE Structure'
  BY <1>7 DEF Drop, Waiting, Return
<1>8. ASSUME NEW c \in Channels, NEW o \in Outcomes,
             PoolAnswers(c, o)
      PROVE Structure'
  BY <1>8 DEF PoolAnswers
<1>9. ASSUME NEW c \in Channels,
             RemoveEntry(c)
      PROVE Structure'
  <2>1. RequestsWellFormed'
    BY <1>9 DEF RemoveEntry, Sender
  <2>2. EntriesWellFormed'
    BY <1>9 DEF RemoveEntry, Sender
  <2>3. TasksWellFormed'
    BY <1>9 DEF RemoveEntry, Sender
  <2>4. LeadersWellFormed'
    BY <1>9 DEF RemoveEntry, Sender
  <2>5. WaitersWellFormed'
    BY <1>9 DEF RemoveEntry, Sender
  <2>6. EntryHasOwner'
    BY <1>9 DEF RemoveEntry, Sender
  <2> QED BY <2>1, <2>2, <2>3, <2>4, <2>5, <2>6
<1>10. ASSUME NEW c \in Channels,
             SendResult(c)
      PROVE Structure'
  <2>1. RequestsWellFormed'
    BY <1>10 DEF SendResult
  <2>2. EntriesWellFormed'
    BY <1>10 DEF SendResult
  <2>3. TasksWellFormed'
    BY <1>10 DEF SendResult
  <2>4. LeadersWellFormed'
    BY <1>10 DEF SendResult
  <2>5. WaitersWellFormed'
    BY <1>10 DEF SendResult
  <2>6. EntryHasOwner'
    BY <1>10 DEF SendResult
  <2> QED BY <2>1, <2>2, <2>3, <2>4, <2>5, <2>6
<1>11. CASE UNCHANGED vars
  BY <1>11 DEF vars
<1> QED
  BY <1>1, <1>2, <1>3, <1>4, <1>5, <1>6, <1>7, <1>8, <1>9, <1>10, <1>11, JoinKey
  DEF Next, TaskStep

-----------------------------------------------------------------------------
\* The sets the gauges count are finite.
LEMMA CountedFinite ==
    /\ IsFiniteSet(Calling) /\ Cardinality(Calling) \in Nat
    /\ IsFiniteSet(Followers) /\ Cardinality(Followers) \in Nat
PROOF
<1>1. Calling \in SUBSET Channels /\ Followers \in SUBSET Requests
  BY DEF Calling, Followers
<1> QED BY <1>1, FiniteAssumption, FS_Subset, FS_CardinalityType

\* The gauges follow the sets they count: the leader of a spawned task is
\* counted once and discounted once, by the task; a follower leaves the gauge
\* when it returns and stays in it, as a drop, when its future is dropped.
LEMMA GaugesStep ==
    ASSUME TypeOK, Structure, GaugesExact, [Next]_vars PROVE GaugesExact'
PROOF
<1> USE DEF TypeOK, GaugesExact, reqVars, taskVars, gauges
<1> USE CountedFinite
<1>1. ASSUME Calling' = Calling, Followers' = Followers,
             UNCHANGED <<pending_leaders, pending_followers, drops>>
      PROVE GaugesExact'
  BY <1>1
<1>2. ASSUME NEW r \in Requests, Join(r) PROVE GaugesExact'
  BY <1>1, <1>2 DEF Join, JoinAsLeader, JoinAsFollower, Hold, Calling, Followers
<1>3. ASSUME NEW r \in Requests, Lead(r) PROVE GaugesExact'
  <2>1. rx[r] \in Channels \ Calling
    BY <1>3 DEF Lead, Structure, RequestsWellFormed, LeadersWellFormed, Calling
  <2>2. Calling' = Calling \cup {rx[r]} /\ Followers' = Followers
    BY <1>3, <2>1 DEF Lead, Calling, Followers
  <2>3. Cardinality(Calling') = Cardinality(Calling) + 1
    BY <2>1, <2>2, FS_AddElement
  <2> QED BY <1>3, <2>2, <2>3 DEF Lead
<1>4. ASSUME NEW r \in Requests, Follow(r) PROVE GaugesExact'
  <2>1. r \notin Followers /\ Followers' = Followers \cup {r} /\ Calling' = Calling
    BY <1>4 DEF Follow, Calling, Followers
  <2>2. Cardinality(Followers') = Cardinality(Followers) + 1
    BY <2>1, FS_AddElement
  <2> QED BY <1>4, <2>1, <2>2 DEF Follow
<1>5. ASSUME NEW r \in Requests, Resolve(r) \/ Timeout(r) PROVE GaugesExact'
  <2>1. Followers' = Followers \ {r} /\ Calling' = Calling
    BY <1>5 DEF Resolve, Timeout, Return, Calling, Followers
  <2>2. pending_followers' = IF r \in Followers THEN pending_followers - 1
                                                ELSE pending_followers
    BY <1>5 DEF Resolve, Timeout, FollowerDone, Followers
  <2>3. Cardinality(Followers') = IF r \in Followers
                                  THEN Cardinality(Followers) - 1
                                  ELSE Cardinality(Followers)
    BY <2>1, FS_RemoveElement
  <2> QED BY <1>5, <2>1, <2>2, <2>3 DEF Resolve, Timeout
<1>6. ASSUME NEW r \in Requests, Drop(r) PROVE GaugesExact'
  <2>1. Followers' = Followers \ {r} /\ Calling' = Calling
    BY <1>6 DEF Drop, Return, Calling, Followers
  <2>2. drops' = IF r \in Followers THEN drops + 1 ELSE drops
    BY <1>6 DEF Drop, Followers
  <2>3. Cardinality(Followers') = IF r \in Followers
                                  THEN Cardinality(Followers) - 1
                                  ELSE Cardinality(Followers)
    BY <2>1, FS_RemoveElement
  <2> QED BY <1>6, <2>1, <2>2, <2>3 DEF Drop
<1>7. ASSUME NEW c \in Channels, NEW o \in Outcomes, PoolAnswers(c, o)
      PROVE GaugesExact'
  <2>1. c \in Calling /\ Calling' = Calling \ {c} /\ Followers' = Followers
    BY <1>7 DEF PoolAnswers, Calling, Followers
  <2>2. Cardinality(Calling') = Cardinality(Calling) - 1
    BY <2>1, FS_RemoveElement
  <2> QED BY <1>7, <2>1, <2>2 DEF PoolAnswers
<1>8. ASSUME NEW c \in Channels, RemoveEntry(c) \/ SendResult(c)
      PROVE GaugesExact'
  BY <1>1, <1>8 DEF RemoveEntry, SendResult, Calling, Followers
<1>9. CASE UNCHANGED vars
  BY <1>1, <1>9 DEF vars, Calling, Followers
<1> QED
  BY <1>2, <1>3, <1>4, <1>5, <1>6, <1>7, <1>8, <1>9 DEF Next, TaskStep

\* Types are kept; the gauges never wrap below zero, because a request or a
\* task that discounts itself is still counted.
LEMMA TypeStep ==
    ASSUME TypeOK, Structure, GaugesExact, [Next]_vars PROVE TypeOK'
PROOF
<1> USE PendingAssumption DEF TypeOK, reqVars, taskVars, gauges
<1>1. ASSUME NEW r \in Requests, Join(r) PROVE TypeOK'
  BY <1>1, JoinKey DEF JoinAsLeader, JoinAsFollower, Hold, NoEntry
<1>2. ASSUME NEW r \in Requests, Lead(r) \/ Follow(r) PROVE TypeOK'
  BY <1>2 DEF Lead, Follow
<1>3. ASSUME NEW r \in Requests, Resolve(r) \/ Timeout(r) PROVE TypeOK'
  <2>1. pc[r] = "following" => pending_followers > 0
    <3> HAVE pc[r] = "following"
    <3>1. Followers # {} BY DEF Followers
    <3> QED BY <3>1, CountedFinite, FS_EmptySet DEF GaugesExact
  <2>2. pending_followers' \in Nat
    BY <1>3, <2>1 DEF Resolve, Timeout, FollowerDone
  <2>3. rx[r] \in Channels
    BY <1>3 DEF Resolve, Timeout, Waiting, Structure, RequestsWellFormed
  <2> QED BY <1>3, <2>2, <2>3 DEF Resolve, Timeout, Return
<1>4. ASSUME NEW r \in Requests, Drop(r) PROVE TypeOK'
  BY <1>4 DEF Drop, Return
<1>5. ASSUME NEW c \in Channels, NEW o \in Outcomes, PoolAnswers(c, o)
      PROVE TypeOK'
  <2>1. Calling # {} BY <1>5 DEF PoolAnswers, Calling
  <2>2. pending_leaders > 0
    BY <2>1, CountedFinite, FS_EmptySet DEF GaugesExact
  <2> QED BY <1>5, <2>2 DEF PoolAnswers
<1>6. ASSUME NEW c \in Channels, RemoveEntry(c) \/ SendResult(c) PROVE TypeOK'
  BY <1>6 DEF RemoveEntry, Sender, SendResult, Structure, TasksWellFormed
<1>7. CASE UNCHANGED vars
  BY <1>7 DEF vars
<1> QED
  BY <1>1, <1>2, <1>3, <1>4, <1>5, <1>6, <1>7 DEF Next, TaskStep

LEMMA IndInvInit == Init => IndInv
PROOF
<1> SUFFICES ASSUME Init PROVE IndInv OBVIOUS
<1> USE PendingAssumption DEF Init
<1>1. TypeOK BY DEF TypeOK
<1>2. Structure
  BY DEF Structure, RequestsWellFormed, EntriesWellFormed, TasksWellFormed,
         LeadersWellFormed, WaitersWellFormed, EntryHasOwner
<1>3. Calling = {} /\ Followers = {} BY DEF Calling, Followers
<1>4. GaugesExact BY <1>3, FS_EmptySet DEF GaugesExact
<1> QED BY <1>1, <1>2, <1>4 DEF IndInv

LEMMA IndInvAlways == Spec => []IndInv
PROOF
<1>1. IndInv /\ [Next]_vars => IndInv'
  BY StructureStep, GaugesStep, TypeStep DEF IndInv
<1> QED BY <1>1, IndInvInit, PTL DEF Spec

-----------------------------------------------------------------------------
\* Type correctness of PendingQueries: in particular neither gauge ever wraps
\* below zero.
THEOREM TypeCorrect == Spec => []TypeOK
PROOF
<1>1. IndInv => TypeOK BY DEF IndInv
<1> QED BY <1>1, IndInvAlways, PTL

\* A server never asks the pool the same question twice at a time.
THEOREM Coalesces == Spec => []OneCallPerKey
PROOF
<1>1. IndInv => OneCallPerKey
  BY DEF IndInv, Structure, TasksWellFormed, OneCallPerKey, Calling, TypeOK
<1> QED BY <1>1, IndInvAlways, PTL

\* Whoever is dropped or times out, nobody waits on a channel whose sender is
\* gone.
THEOREM NoOrphans == Spec => []NoOrphanWaiter
PROOF
<1>1. ASSUME IndInv, NEW r \in Requests, pc[r] # "idle", chan[rx[r]] = NoOutcome
      PROVE SenderAlive(rx[r])
  <2> USE <1>1 DEF IndInv, Structure, TypeOK
  <2>1. key[r] \in Keys /\ rx[r] \in Channels
    BY PendingAssumption DEF RequestsWellFormed
  <2>2. inner[key[r]] = rx[r] \/ task[rx[r]] = "sending"
    BY DEF WaitersWellFormed
  <2> QED BY <2>1, <2>2 DEF TasksWellFormed, SenderAlive
<1>2. IndInv => NoOrphanWaiter BY <1>1 DEF NoOrphanWaiter
<1> QED BY <1>2, IndInvAlways, PTL

\* A dropped leader cannot poison its key: every entry of the map has a task,
\* or a leader about to spawn it, that will take it out.
THEOREM EntriesOwned == Spec => []EntryHasOwner
PROOF
<1>1. IndInv => EntryHasOwner BY DEF IndInv, Structure
<1> QED BY <1>1, IndInvAlways, PTL

\* The gauges are exact, up to the followers that were dropped.
THEOREM GaugesCorrect == Spec => []GaugesExact
PROOF
<1>1. IndInv => GaugesExact BY DEF IndInv
<1> QED BY <1>1, IndInvAlways, PTL

-----------------------------------------------------------------------------
\* What a request's channel carries is an outcome or nothing, and a request
\* whose channel carries nothing finds its key in the map.
LEMMA CarriesFacts ==
    ASSUME TypeOK, Structure, NEW r \in Requests, pc[r] # "idle"
    PROVE  /\ key[r] \in Keys /\ rx[r] \in Channels
           /\ readyBar[r] = Carries(rx[r])
           /\ Carries(rx[r]) = NoOutcome => inner[key[r]] = rx[r]
           /\ inner[key[r]] = rx[r] => Carries(rx[r]) = NoOutcome
PROOF
<1>1. key[r] \in Keys /\ rx[r] \in Channels
  BY DEF Structure, RequestsWellFormed
<1>2. readyBar[r] = Carries(rx[r])
  BY DEF readyBar
<1>3. Carries(rx[r]) = NoOutcome => inner[key[r]] = rx[r]
  BY <1>1 DEF Carries, Structure, WaitersWellFormed, TasksWellFormed
<1>4. inner[key[r]] = rx[r] => Carries(rx[r]) = NoOutcome
  BY <1>1, PendingAssumption DEF Carries, Structure, EntriesWellFormed
<1> QED BY <1>1, <1>2, <1>3, <1>4

\* Every step of PendingQueries is a step of SingleFlight, or changes nothing
\* that SingleFlight sees.
LEMMA SingleFlightStep ==
    ASSUME TypeOK, Structure, TypeOK', Structure', [Next]_vars
    PROVE  [SF!Next]_(SF!vars)
PROOF
<1> USE PendingAssumption DEF TypeOK, SF!vars, reqVars, taskVars, gauges
<1>1. ASSUME NEW r \in Requests, NEW k \in Keys, NEW c \in Channels,
             JoinAsLeader(r, k, c)
      PROVE SF!Ask(r, k)
  <2>1. readyBar' = readyBar
    BY <1>1 DEF JoinAsLeader, Hold, Unused, readyBar, Carries
  <2>2. {l \in Keys : inner'[l] # NoChannel} =
            {l \in Keys : inner[l] # NoChannel} \cup {k}
    BY <1>1 DEF JoinAsLeader
  <2> QED BY <1>1, <2>1, <2>2
          DEF JoinAsLeader, Hold, SF!Ask, Structure, RequestsWellFormed
<1>2. ASSUME NEW r \in Requests, NEW k \in Keys, JoinAsFollower(r, k)
      PROVE SF!Ask(r, k)
  <2>1. Carries(inner[k]) = NoOutcome
    BY <1>2 DEF JoinAsFollower, NoEntry, Carries, Structure, EntriesWellFormed
  <2>2. readyBar' = readyBar
    BY <1>2, <2>1 DEF JoinAsFollower, Hold, readyBar, Carries
  <2> QED BY <1>2, <2>2 DEF JoinAsFollower, NoEntry, Hold, SF!Ask, Structure,
                            RequestsWellFormed
<1>3. ASSUME NEW r \in Requests, Lead(r) \/ Follow(r)
      PROVE UNCHANGED SF!vars
  <2>1. \A s \in Requests : pc'[s] # "idle" => Carries(rx[s])' = Carries(rx[s])
    BY <1>3, CarriesFacts DEF Lead, Follow, Carries, Structure, LeadersWellFormed,
                              RequestsWellFormed
  <2>2. readyBar' = readyBar
    BY <1>3, <2>1 DEF Lead, Follow, readyBar
  <2> QED BY <1>3, <2>2 DEF Lead, Follow
<1>4. ASSUME NEW r \in Requests, NEW v, Waiting(r), Return(r, v),
             UNCHANGED <<inner, chan, taskVars>>
      PROVE SF!Leave(r, v)
  <2>1. readyBar' = [readyBar EXCEPT ![r] = NoOutcome]
    BY <1>4 DEF Return, readyBar, Carries
  <2> QED BY <1>4, <2>1, CarriesFacts DEF Waiting, Return, SF!Leave
<1>5. ASSUME NEW r \in Requests, Resolve(r) PROVE SF!Return(r)
  <2>1. readyBar[r] = chan[rx[r]]
    BY <1>5, CarriesFacts DEF Resolve, Waiting, Carries, Structure, TasksWellFormed
  <2> QED BY <1>4, <1>5, <2>1 DEF Resolve, SF!Return
<1>6. ASSUME NEW r \in Requests, Timeout(r) PROVE SF!Expire(r)
  BY <1>4, <1>6 DEF Timeout, SF!Expire
<1>7. ASSUME NEW r \in Requests, Drop(r) PROVE SF!GiveUp(r)
  BY <1>4, <1>7 DEF Drop, SF!GiveUp
<1>8. ASSUME NEW c \in Channels, NEW o \in Outcomes, PoolAnswers(c, o)
      PROVE UNCHANGED SF!vars
  BY <1>8 DEF PoolAnswers, readyBar, Carries
<1>9. ASSUME NEW c \in Channels, RemoveEntry(c)
      PROVE \E k \in Keys, o \in Outcomes : SF!Land(k, o)
  <2>1. PICK k \in Keys : task_key[c] = k /\ inner[k] = c
    BY <1>9 DEF RemoveEntry, Structure, TasksWellFormed
  <2>2. PICK o \in Outcomes : result[c] = o
    BY <1>9 DEF RemoveEntry, Structure, TasksWellFormed
  <2>3. {l \in Keys : inner'[l] # NoChannel} =
            {l \in Keys : inner[l] # NoChannel} \ {k}
    BY <1>9, <2>1 DEF RemoveEntry
  <2>4. ASSUME NEW r \in Requests
        PROVE readyBar'[r] = IF key[r] = k /\ readyBar[r] = NoOutcome
                             THEN o ELSE readyBar[r]
    <3>1. CASE pc[r] = "idle"
      BY <1>9, <2>1, <3>1 DEF RemoveEntry, readyBar, Structure, RequestsWellFormed
    <3>2. CASE pc[r] # "idle" /\ rx[r] = c
      <4>1. key[r] = k /\ readyBar[r] = NoOutcome
        BY <2>1, <3>2, CarriesFacts DEF Structure, EntriesWellFormed
      <4> QED BY <1>9, <2>2, <3>2, <4>1 DEF RemoveEntry, readyBar, Carries
    <3>3. CASE pc[r] # "idle" /\ rx[r] # c
      <4>1. ~(key[r] = k /\ readyBar[r] = NoOutcome)
        BY <2>1, <3>3, CarriesFacts
      <4> QED BY <1>9, <3>3, <4>1, CarriesFacts DEF RemoveEntry, readyBar, Carries
    <3> QED BY <3>1, <3>2, <3>3
  <2>5. readyBar' = [r \in Requests |-> IF key[r] = k /\ readyBar[r] = NoOutcome
                                        THEN o ELSE readyBar[r]]
    BY <2>4 DEF readyBar
  <2>6. SF!Land(k, o)
    BY <1>9, <2>1, <2>3, <2>5 DEF RemoveEntry, SF!Land
  <2> QED BY <2>6
<1>10. ASSUME NEW c \in Channels, SendResult(c) PROVE UNCHANGED SF!vars
  <2>1. tx[c] = c BY <1>10 DEF SendResult, Structure, TasksWellFormed
  <2>2. \A d \in Channels : Carries(d)' = Carries(d)
    BY <1>10, <2>1 DEF SendResult, Carries
  <2>3. readyBar' = readyBar
    BY <1>10, <2>2, CarriesFacts DEF SendResult, readyBar
  <2> QED BY <1>10, <2>3 DEF SendResult
<1>11. CASE UNCHANGED vars
  BY <1>11 DEF vars, readyBar, Carries
<1> HIDE DEF TypeOK, SF!vars
<1>12. ASSUME NEW r \in Requests,
              Join(r) \/ Lead(r) \/ Follow(r) \/ Resolve(r) \/ Timeout(r) \/ Drop(r)
       PROVE SF!Next \/ UNCHANGED SF!vars
  BY <1>1, <1>2, <1>3, <1>5, <1>6, <1>7, <1>12, JoinKey DEF SF!Next
<1>13. ASSUME NEW c \in Channels, TaskStep(c)
       PROVE SF!Next \/ UNCHANGED SF!vars
  BY <1>8, <1>9, <1>10, <1>13 DEF TaskStep, SF!Next
<1> QED BY <1>11, <1>12, <1>13 DEF Next

\* PendingQueries implements SingleFlight: requests for one key that are in
\* flight together share one upstream call and its very outcome.
THEOREM Implements == Spec => SingleFlightSpec
PROOF
<1>1. Init => SF!Init
  BY PendingAssumption DEF Init, SF!Init, readyBar
<1>2. IndInv /\ IndInv' /\ [Next]_vars => [SF!Next]_(SF!vars)
  BY SingleFlightStep DEF IndInv
<1> QED BY <1>1, <1>2, IndInvAlways, PTL DEF Spec, SF!Spec, SingleFlightSpec
=============================================================================
