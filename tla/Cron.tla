-------------------------------- MODULE Cron --------------------------------
(***************************************************************************)
(* The expiry cron of core/expire.go, one iteration at a time, on the heap *)
(* of Keyspace.  A round, expireSample, walks the store in map order under *)
(* storeMu and ends after SampleLimit deletions, or when it has looked at  *)
(* every key; DeleteExpiredKey starts another round unless this one deleted*)
(* fewer than a quarter of the limit.  Keyspace has a round as one step,   *)
(* since nothing else reads or writes the two maps meanwhile.              *)
(*                                                                         *)
(* Commands come between two crons only, and are left to Keyspace: a       *)
(* behaviour begins with any deadlines in any of some filled stores.  The  *)
(* object pool is filled here and neither emptied nor read.                *)
(***************************************************************************)
EXTENDS Keyspace

CONSTANTS
    Filled,         \* the stores a cron may meet
    StartDeadlines  \* what the objects' deadlines may be

ASSUME FilledAssumption ==
    /\ Filled \subseteq [Keys -> Objs \cup {NoObj}]
    /\ \A s \in Filled, j \in Keys, k \in Keys : s[j] = s[k] /\ s[k] # NoObj => j = k
ASSUME StartDeadlinesAssumption == StartDeadlines \subseteq Nat \cup {Never}

VARIABLES
    seen,    \* the keys this round has looked at, those it deleted included
    deleted  \* expiresCount

cvars == <<vars, seen, deleted>>

Unseen == Present \ seen

CronInit ==
    /\ store \in Filled
    /\ expires \in [Objs -> StartDeadlines]
    /\ val \in [Objs -> Vals \cup {NoVal}]
    /\ \A o \in Objs : val[o] = NoVal <=> o \notin ObjsAt(Present)
    /\ objPool = {}
    /\ keyStat = Cardinality(Present)
    /\ now \in Times
    /\ reply = Done
    /\ mset = <<>> /\ pos = 1
    /\ sweeping = FALSE
    /\ seen = {} /\ deleted = 0

(* The top of the event loop, as in Keyspace.                              *)
Turn(t) == Tick(t) /\ UNCHANGED <<seen, deleted>>

(* Fault: the limit is counted down by every key, deleted or not.          *)
LimitOfSeen == SampleLimit - Cardinality(seen)

limit == SampleLimit - deleted

(* Fault: the fraction of what was looked at, not of the limit.            *)
ManyOfSeen == 4 * deleted >= Cardinality(seen)

(* expireSample's result is not below 0.25.                                *)
Many == 4 * deleted >= SampleLimit

(* One iteration of expireSample.                                          *)
LookAt(k) ==
    /\ sweeping /\ limit # 0
    /\ k \in Unseen
    /\ seen' = seen \cup {k}
    /\ IF k \in Expired
       THEN delLocked({k}) /\ deleted' = deleted + 1
       ELSE UNCHANGED <<heap, deleted>>
    /\ UNCHANGED <<now, reply, mset, pos, sweeping>>

(* expireSample returns, and DeleteExpiredKey calls it again or ends.      *)
RoundEnd ==
    /\ sweeping /\ (limit = 0 \/ Unseen = {})
    /\ sweeping' = Many
    /\ seen' = {} /\ deleted' = 0
    /\ UNCHANGED <<heap, now, reply, mset, pos>>

CronNext ==
    \/ \E t \in Times : Turn(t)
    \/ \E k \in Keys : LookAt(k)
    \/ RoundEnd

(* The goroutine that runs the cron goes on; all it waits for is storeMu,  *)
(* which a dump holds for one key at a time.                               *)
CronFairness == WF_cvars((\E k \in Keys : LookAt(k)) \/ RoundEnd)

CronSpec == CronInit /\ [][CronNext]_cvars /\ CronFairness
-----------------------------------------------------------------------------
(* The cron ends: a round that is not the last has deleted something, and  *)
(* an empty round, of an empty store or of one in which nothing has        *)
(* expired, is the last (expire.go:64-72).                                 *)
CronStops == sweeping ~> ~sweeping

(* A round is a sample, which ends when "we iterated to 20 keys that have  *)
(* some expirations set" (expire.go:53), what makes it "the exact          *)
(* algorithm" of Redis (Readme.md:582).                                    *)
HadDeadline(k) == Bound(k) => expires[store[k]] # Never
RoundIsASample == Cardinality({k \in seen : HadDeadline(k)}) <= SampleLimit
=============================================================================
