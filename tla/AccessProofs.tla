----------------------------- MODULE AccessProofs ---------------------------
(***************************************************************************)
(* Proofs about caches, limits and the agent's streams, one part for each. *)
(* The last part carries the types over to the behaviours TLC checks, with *)
(* those of the sessions, which AuthSessionProofs is about.                *)
(***************************************************************************)
EXTENDS MCAccess, AuthSessionProofs, FiniteSetTheorems, TLAPS

(***************************************************************************)
(* What the caches serve is recent, for any number of readers, lifetime,   *)
(* patience and number of updates.                                         *)
(*                                                                         *)
(* The stamp of "fields" may be that of another reader than the data's, so *)
(* nothing in the cache alone says how old it is.  What bounds its age is  *)
(* that whoever installs data read it at most Patience ago: the data then  *)
(* is at most Patience older than any stamp that is there or still to come *)
(* from a reader under way (CacheIsTimely).  A reader returns at most      *)
(* Patience after it found the cache fresh (AnswersAreTimely).             *)
(***************************************************************************)
Busy == {r \in Reader : reader[r].pc # "idle"}

ClockRuns == /\ now > TTL
             /\ lastAt[stored] = now
             /\ \A v \in Version : lastAt[v] <= now

ReadersAreOnTime ==
    \A r \in Busy : reader[r].start <= now /\ now <= reader[r].start + Patience

KindIsObeyed == /\ kind = "context" => Busy = {}
                /\ \A r \in Reader : reader[r].pc = "stamp" => kind = "fields"

CacheIsTimely ==
    /\ cache.ts <= now
    /\ cache.data = Nothing => cache.ts = 0
    /\ cache.data # Nothing =>
         cache.ts <= lastAt[cache.data] + (IF kind = "fields" THEN Patience ELSE 0)

ReadsAreTimely ==
    \A r \in Reader :
        reader[r].pc = "install" => /\ reader[r].read \in Version
                                    /\ reader[r].start <= lastAt[reader[r].read]

StampsAreTimely ==
    \A r \in Reader :
        reader[r].pc = "stamp" => /\ cache.data # Nothing
                                  /\ reader[r].start <= lastAt[cache.data] + Patience

AnswersAreTimely ==
    \A r \in Reader :
        reader[r].pc = "return" =>
            /\ Answer(r) # Nothing
            /\ reader[r].start < lastAt[Answer(r)] + TTL + Patience

Timely == /\ ReadersAreOnTime /\ KindIsObeyed /\ CacheIsTimely /\ ReadsAreTimely
          /\ StampsAreTimely /\ AnswersAreTimely /\ ServedIsRecent

CacheIInv == CacheTypeOK /\ ClockRuns /\ Timely

(* Nothing is cached and nobody asks when a behaviour begins.              *)
LEMMA InitCacheIInv == ASSUME CacheAssumption PROVE CacheInit => CacheIInv
  <1> SUFFICES ASSUME CacheInit PROVE CacheIInv
    OBVIOUS
  <1> USE DEF CacheAssumption
  <1>1. CacheTypeOK
    BY DEF CacheInit, CacheTypeOK, Resting, Version
  <1>2. ClockRuns
    BY DEF CacheInit, ClockRuns, Version
  <1>3. \A r \in Reader : reader[r].pc = "idle"
    BY DEF CacheInit, Resting
  <1>4. ReadersAreOnTime /\ KindIsObeyed /\ ReadsAreTimely /\ StampsAreTimely /\ AnswersAreTimely
    BY <1>3 DEF Busy, ReadersAreOnTime, KindIsObeyed, ReadsAreTimely, StampsAreTimely,
                AnswersAreTimely
  <1>5. CacheIsTimely /\ ServedIsRecent
    BY DEF CacheInit, CacheIsTimely, ServedIsRecent
  <1> QED
    BY <1>1, <1>2, <1>4, <1>5 DEF CacheIInv, Timely

(* Answers come from the reader or from the cache: types are kept.         *)
LEMMA CacheTypeStep == ASSUME CacheAssumption, CacheTypeOK, [CacheNext]_cacheVars PROVE CacheTypeOK'
  <1> USE DEF CacheAssumption, CacheTypeOK, Version
  <1>1. ASSUME NEW r \in Reader, Ask(r) PROVE CacheTypeOK'
    BY <1>1 DEF Ask, At
  <1>2. ASSUME NEW r \in Reader, Query(r) PROVE CacheTypeOK'
    BY <1>2 DEF Query
  <1>3. ASSUME NEW r \in Reader, Install(r) PROVE CacheTypeOK'
    BY <1>3 DEF Install, Goto
  <1>4. ASSUME NEW r \in Reader, Stamp(r) PROVE CacheTypeOK'
    BY <1>4 DEF Stamp, Goto
  <1>5. ASSUME NEW r \in Reader, Return(r) PROVE CacheTypeOK'
    <2>1. Answer(r) \in Version \cup {Nothing}
      BY DEF Answer
    <2> QED
      BY <1>5, <2>1 DEF Return, Resting
  <1>6. CASE BuildContext
    BY <1>6 DEF BuildContext
  <1>7. CASE UpdateFields \/ UpdateUser \/ UpdateCatalog
    <2> Write
      BY <1>7 DEF UpdateFields, UpdateUser, UpdateCatalog
    <2>1. stored' \in Version /\ lastAt' \in [Version -> 0..LastInstant]
      <3>1. stored + 1 \in Version /\ now \in 0..LastInstant
        BY DEF Write
      <3>2. stored' = stored + 1 /\ lastAt' = [lastAt EXCEPT ![stored + 1] = now]
        BY DEF Write
      <3> QED
        BY <3>1, <3>2
    <2>2. admin' \in {"idle", "committed"}
      BY <1>7 DEF UpdateFields, UpdateUser, UpdateCatalog
    <2> QED
      BY <2>1, <2>2 DEF Write
  <1>8. CASE Reset
    BY <1>8 DEF Reset
  <1>9. CASE CacheTick
    BY <1>9 DEF CacheTick
  <1>10. CASE UNCHANGED cacheVars
    BY <1>10 DEF cacheVars
  <1> QED
    BY <1>1, <1>2, <1>3, <1>4, <1>5, <1>6, <1>7, <1>8, <1>9, <1>10 DEF CacheNext

(* The last instant of a version only moves forward, and never past now.   *)
LEMMA VersionsAge ==
    ASSUME CacheAssumption, CacheTypeOK, ClockRuns, [CacheNext]_cacheVars
    PROVE  /\ ClockRuns'
           /\ \A v \in Version : lastAt[v] <= lastAt'[v]
           /\ now <= now' /\ kind' = kind
  <1> USE DEF CacheAssumption, CacheTypeOK, ClockRuns, Version
  <1>1. CASE UpdateFields \/ UpdateUser \/ UpdateCatalog
    <2>1. /\ stored + 1 \in Version /\ stored' = stored + 1
          /\ lastAt' = [lastAt EXCEPT ![stored + 1] = now] /\ now' = now /\ kind' = kind
      BY <1>1 DEF UpdateFields, UpdateUser, UpdateCatalog, Write
    <2>2. /\ lastAt'[stored + 1] = now
          /\ \A v \in Version : lastAt'[v] = IF v = stored + 1 THEN now ELSE lastAt[v]
      BY <2>1
    <2>3. now \in Nat /\ now > TTL /\ \A v \in Version : lastAt[v] \in Nat /\ lastAt[v] <= now
      <3>1. now \in Nat /\ now > TTL /\ \A v \in Version : lastAt[v] <= now
        OBVIOUS
      <3>2. \A v \in Version : lastAt[v] \in 0 .. LastInstant
        OBVIOUS
      <3> QED
        BY <3>1, <3>2
    <2> HIDE DEF CacheAssumption, CacheTypeOK, Version
    <2>4. \A v \in Version : lastAt[v] <= lastAt'[v] /\ lastAt'[v] <= now
      BY <2>2, <2>3
    <2> QED
      BY <2>1, <2>2, <2>3, <2>4
  <1>2. CASE CacheTick
    <2>1. lastAt' = [lastAt EXCEPT ![stored] = now + 1] /\ now' = now + 1
      BY <1>2 DEF CacheTick
    <2>2. lastAt'[stored] = now + 1
      BY <2>1
    <2>3. \A v \in Version : lastAt'[v] = IF v = stored THEN now + 1 ELSE lastAt[v]
      BY <2>1
    <2>4. \A v \in Version : lastAt[v] <= lastAt'[v] /\ lastAt'[v] <= now'
      <3> TAKE v \in Version
      <3>1. lastAt[v] \in Nat /\ lastAt[v] <= now /\ now \in Nat
        OBVIOUS
      <3> QED
        BY <3>1, <2>1, <2>3
    <2> QED
      BY <1>2, <2>1, <2>2, <2>4 DEF CacheTick
  <1>3. CASE UNCHANGED <<kind, stored, lastAt, now>>
    <2>1. now \in Nat /\ \A v \in Version : lastAt[v] \in 0 .. LastInstant
      OBVIOUS
    <2>2. \A v \in Version : lastAt[v] \in Nat
      BY <2>1
    <2> HIDE DEF CacheTypeOK, CacheAssumption, Version
    <2> QED
      BY <1>3, <2>1, <2>2
  <1> HIDE DEF CacheAssumption, CacheTypeOK, ClockRuns, Version
  <1>4. UpdateFields \/ UpdateUser \/ UpdateCatalog \/ CacheTick
        \/ UNCHANGED <<kind, stored, lastAt, now>>
    BY DEF CacheNext, Ask, Query, Install, Stamp, Return, BuildContext, Reset, cacheVars
  <1> QED
    BY <1>1, <1>2, <1>3, <1>4

(* An answer is a version, unless nothing was ever cached.                 *)
LEMMA CacheNumbers ==
    ASSUME CacheAssumption, CacheTypeOK
    PROVE  /\ TTL \in Nat \ {0} /\ Patience \in Nat \ {0}
           /\ now \in Nat /\ cache.ts \in Nat
           /\ \A v \in Version : lastAt[v] \in Nat /\ v # Nothing
           /\ cache.data \in Version \cup {Nothing}
           /\ \A r \in Reader : reader[r].start \in Nat /\ Answer(r) \in Version \cup {Nothing}
           /\ served # Nothing => served.at \in Nat /\ served.version \in Version \cup {Nothing}
  BY DEF CacheAssumption, CacheTypeOK, Answer, Version

(* What is served or cached only gets nearer to now as its version ages;   *)
(* so a step that leaves it, and the readers, alone keeps them timely.     *)
LEMMA WriteStep ==
    ASSUME CacheAssumption, CacheIInv, UpdateFields \/ UpdateUser \/ UpdateCatalog,
           \A v \in Version : lastAt[v] <= lastAt'[v], CacheTypeOK'
    PROVE  Timely'
  <1> USE DEF CacheIInv, Timely
  <1>1. UNCHANGED <<kind, cache, now, reader, served>>
    BY DEF UpdateFields, UpdateUser, UpdateCatalog, Write
  <1>2. /\ \A v \in Version : lastAt[v] \in Nat /\ lastAt'[v] \in Nat
        /\ \A v \in Version : lastAt[v] <= lastAt'[v]
    BY CacheNumbers DEF CacheTypeOK
  <1>3. ReadersAreOnTime' /\ KindIsObeyed'
    BY <1>1 DEF ReadersAreOnTime, KindIsObeyed, Busy
  <1>4. CacheIsTimely'
    BY <1>1, <1>2, CacheNumbers DEF CacheIsTimely
  <1>5. ReadsAreTimely'
    BY <1>1, <1>2, CacheNumbers DEF ReadsAreTimely
  <1>6. StampsAreTimely'
    BY <1>1, <1>2, CacheNumbers DEF StampsAreTimely
  <1>7. AnswersAreTimely'
    BY <1>1, <1>2, CacheNumbers DEF AnswersAreTimely, Answer
  <1>8. ServedIsRecent'
    BY <1>1, <1>2, CacheNumbers DEF ServedIsRecent
  <1> QED
    BY <1>3, <1>4, <1>5, <1>6, <1>7, <1>8

(* The clock waits for readers that have used up their patience.           *)
LEMMA CacheTickStep ==
    ASSUME CacheAssumption, CacheIInv, CacheTick, CacheTypeOK',
           \A v \in Version : lastAt[v] <= lastAt'[v]
    PROVE  Timely'
  <1> USE DEF CacheIInv, Timely
  <1>1. UNCHANGED <<kind, cache, reader, served>> /\ now' = now + 1
    BY DEF CacheTick
  <1>2. /\ \A v \in Version : lastAt[v] \in Nat /\ lastAt'[v] \in Nat
        /\ \A v \in Version : lastAt[v] <= lastAt'[v]
    BY CacheNumbers DEF CacheTypeOK
  <1>3. ReadersAreOnTime'
    <2> SUFFICES ASSUME NEW r \in Busy
                 PROVE  reader[r].start <= now + 1 /\ now + 1 <= reader[r].start + Patience
      BY <1>1 DEF ReadersAreOnTime, Busy
    <2>1. reader[r].start <= now /\ now - reader[r].start < Patience
      BY DEF CacheTick, At, Busy, ReadersAreOnTime
    <2> QED
      BY <2>1, CacheNumbers DEF Busy
  <1>4. KindIsObeyed'
    BY <1>1 DEF KindIsObeyed, Busy
  <1>5. CacheIsTimely'
    BY <1>1, <1>2, CacheNumbers DEF CacheIsTimely
  <1>6. ReadsAreTimely'
    BY <1>1, <1>2, CacheNumbers DEF ReadsAreTimely
  <1>7. StampsAreTimely'
    BY <1>1, <1>2, CacheNumbers DEF StampsAreTimely
  <1>8. AnswersAreTimely'
    BY <1>1, <1>2, CacheNumbers DEF AnswersAreTimely, Answer
  <1>9. ServedIsRecent'
    BY <1>1, <1>2, CacheNumbers DEF ServedIsRecent
  <1> QED
    BY <1>3, <1>4, <1>5, <1>6, <1>7, <1>8, <1>9

(* What a reader finds fresh was current less than TTL and Patience ago.   *)
LEMMA AskStep ==
    ASSUME CacheAssumption, CacheIInv, NEW q \in Reader, Ask(q)
    PROVE  Timely'
  <1> USE DEF CacheIInv, Timely
  <1>1. /\ UNCHANGED <<kind, lastAt, cache, now, served>>
        /\ reader' = [reader EXCEPT ![q] = [pc |-> IF Fresh THEN "return" ELSE "query",
                                             start |-> now,
                                             read |-> IF Fresh THEN cache.data ELSE 0]]
        /\ kind # "context"
    BY DEF Ask
  <1>2. /\ reader'[q].start = now
        /\ reader'[q].pc = IF Fresh THEN "return" ELSE "query"
        /\ reader'[q].read = IF Fresh THEN cache.data ELSE 0
        /\ \A r \in Reader \ {q} : reader'[r] = reader[r]
    BY <1>1 DEF CacheTypeOK
  <1>3. ReadersAreOnTime'
    BY <1>1, <1>2, CacheNumbers DEF ReadersAreOnTime, Busy
  <1>4. KindIsObeyed' /\ ReadsAreTimely' /\ StampsAreTimely'
    BY <1>1, <1>2 DEF KindIsObeyed, Busy, ReadsAreTimely, StampsAreTimely
  <1>5. CacheIsTimely' /\ ServedIsRecent'
    BY <1>1 DEF CacheIsTimely, ServedIsRecent
  <1>6. ASSUME Fresh PROVE cache.data # Nothing /\ now < lastAt[cache.data] + TTL + Patience
    <2>1. cache.data # Nothing
      BY <1>6, CacheNumbers DEF Fresh, CacheIsTimely, ClockRuns
    <2>2. CASE kind = "fields"
      BY <1>6, <2>1, <2>2, CacheNumbers DEF Fresh, CacheIsTimely
    <2>3. CASE kind # "fields"
      BY <1>6, <2>1, <2>3, CacheNumbers DEF Fresh, CacheIsTimely
    <2> QED
      BY <2>1, <2>2, <2>3
  <1>7. AnswersAreTimely'
    <2> SUFFICES ASSUME NEW r \in Reader, reader'[r].pc = "return"
                 PROVE  /\ Answer(r)' # Nothing
                        /\ reader'[r].start < lastAt[Answer(r)'] + TTL + Patience
      BY <1>1 DEF AnswersAreTimely
    <2>1. CASE r = q
      BY <2>1, <1>1, <1>2, <1>6 DEF Answer
    <2>2. CASE r # q
      BY <2>2, <1>1, <1>2 DEF Answer, AnswersAreTimely
    <2> QED
      BY <2>1, <2>2
  <1> QED
    BY <1>3, <1>4, <1>5, <1>7

(* What a reader reads is current when it reads it.                        *)
LEMMA QueryStep ==
    ASSUME CacheAssumption, CacheIInv, NEW q \in Reader, Query(q)
    PROVE  Timely'
  <1> USE DEF CacheIInv, Timely
  <1>1. /\ UNCHANGED <<kind, lastAt, cache, now, served>> /\ reader[q].pc = "query"
    BY DEF Query, At
  <1>2. /\ reader'[q].start = reader[q].start
        /\ reader'[q].pc = "install" /\ reader'[q].read = stored
        /\ \A r \in Reader \ {q} : reader'[r] = reader[r]
    BY DEF Query, CacheTypeOK
  <1>3. ReadersAreOnTime' /\ KindIsObeyed'
    BY <1>1, <1>2 DEF ReadersAreOnTime, KindIsObeyed, Busy
  <1>4. CacheIsTimely' /\ ServedIsRecent' /\ StampsAreTimely'
    BY <1>1, <1>2 DEF CacheIsTimely, ServedIsRecent, StampsAreTimely
  <1>5. stored \in Version /\ reader[q].start <= lastAt[stored]
    BY <1>1 DEF CacheTypeOK, ReadersAreOnTime, Busy, ClockRuns
  <1>6. ReadsAreTimely'
    BY <1>1, <1>2, <1>5 DEF ReadsAreTimely
  <1>7. AnswersAreTimely'
    BY <1>1, <1>2 DEF AnswersAreTimely, Answer
  <1> QED
    BY <1>3, <1>4, <1>6, <1>7

(* Data is installed at most Patience after it was current, so no stamp    *)
(* that is there or still to come is more than Patience younger.           *)
LEMMA InstallStep ==
    ASSUME CacheAssumption, CacheIInv, NEW q \in Reader, Install(q)
    PROVE  Timely'
  <1> USE DEF CacheIInv, Timely
  <1>1. UNCHANGED <<kind, lastAt, now, served>> /\ reader[q].pc = "install"
    BY DEF Install, At
  <1>2. cache' = [data |-> reader[q].read,
                  ts |-> IF kind = "fields" THEN cache.ts ELSE reader[q].start]
    BY DEF Install
  <1>3. /\ reader'[q].start = reader[q].start /\ reader'[q].read = reader[q].read
        /\ reader'[q].pc = IF kind = "fields" THEN "stamp" ELSE "return"
        /\ \A r \in Reader \ {q} : reader'[r] = reader[r]
    BY DEF Install, Goto, CacheTypeOK
  <1>4. /\ reader[q].read \in Version /\ reader[q].start <= lastAt[reader[q].read]
        /\ reader[q].start <= now /\ now <= lastAt[reader[q].read] + Patience
    BY <1>1, CacheNumbers DEF ReadsAreTimely, ReadersAreOnTime, Busy
  <1>5. ReadersAreOnTime' /\ KindIsObeyed' /\ ServedIsRecent'
    BY <1>1, <1>3 DEF ReadersAreOnTime, KindIsObeyed, Busy, ServedIsRecent
  <1>6. CacheIsTimely'
    BY <1>1, <1>2, <1>4, CacheNumbers DEF CacheIsTimely
  <1>7. ReadsAreTimely'
    BY <1>1, <1>3 DEF ReadsAreTimely
  <1>8. \A r \in Reader : reader'[r].pc \in {"stamp", "return"} => reader'[r].start <= now
    BY <1>1, <1>3, <1>4, CacheNumbers DEF ReadersAreOnTime, Busy
  <1>9. StampsAreTimely'
    <2> SUFFICES ASSUME NEW r \in Reader, reader'[r].pc = "stamp"
                 PROVE  /\ reader[q].read # Nothing
                        /\ reader'[r].start <= lastAt[reader[q].read] + Patience
      BY <1>1, <1>2 DEF StampsAreTimely
    <2>1. reader'[r].start = reader[r].start
      BY <1>3
    <2> QED
      BY <2>1, <1>4, <1>8, CacheNumbers
  <1>10. AnswersAreTimely'
    <2> SUFFICES ASSUME NEW r \in Reader, reader'[r].pc = "return"
                 PROVE  /\ Answer(r)' # Nothing
                        /\ reader[r].start < lastAt[Answer(r)'] + TTL + Patience
      BY <1>1, <1>3 DEF AnswersAreTimely
    <2>1. CASE kind = "fields"
      <3>1. Answer(r)' = reader[q].read /\ reader[r].start <= now
        BY <2>1, <1>1, <1>2, <1>3, <1>8 DEF Answer
      <3> QED
        BY <3>1, <1>4, CacheNumbers
    <2>2. CASE kind # "fields" /\ r = q
      <3>1. Answer(r)' = reader[q].read
        BY <2>2, <1>1, <1>3 DEF Answer
      <3> QED
        BY <3>1, <2>2, <1>4, CacheNumbers
    <2>3. CASE kind # "fields" /\ r # q
      BY <2>3, <1>1, <1>3 DEF Answer, AnswersAreTimely
    <2> QED
      BY <2>1, <2>2, <2>3
  <1> QED
    BY <1>5, <1>6, <1>7, <1>9, <1>10

(* A reader stamps with the time at which it began, whoever's data it is.  *)
LEMMA StampStep ==
    ASSUME CacheAssumption, CacheIInv, NEW q \in Reader, Stamp(q)
    PROVE  Timely'
  <1> USE DEF CacheIInv, Timely
  <1>1. /\ UNCHANGED <<kind, lastAt, now, served>> /\ reader[q].pc = "stamp"
        /\ kind = "fields" /\ cache.data # Nothing
        /\ reader[q].start <= lastAt[cache.data] + Patience
    BY DEF Stamp, At, KindIsObeyed, StampsAreTimely
  <1>2. cache'.data = cache.data /\ cache'.ts = reader[q].start
    BY DEF Stamp, CacheTypeOK
  <1>3. /\ reader'[q].start = reader[q].start /\ reader'[q].pc = "return"
        /\ \A r \in Reader \ {q} : reader'[r] = reader[r]
    BY DEF Stamp, Goto, CacheTypeOK
  <1>4. ReadersAreOnTime' /\ KindIsObeyed' /\ ServedIsRecent'
    BY <1>1, <1>3 DEF ReadersAreOnTime, KindIsObeyed, Busy, ServedIsRecent
  <1>5. reader[q].start <= now
    BY <1>1 DEF ReadersAreOnTime, Busy
  <1>6. CacheIsTimely'
    BY <1>1, <1>2, <1>5 DEF CacheIsTimely
  <1>7. ReadsAreTimely' /\ StampsAreTimely'
    BY <1>1, <1>2, <1>3 DEF ReadsAreTimely, StampsAreTimely
  <1>8. AnswersAreTimely'
    <2> SUFFICES ASSUME NEW r \in Reader, reader'[r].pc = "return"
                 PROVE  reader[r].start < lastAt[cache.data] + TTL + Patience
      BY <1>1, <1>2, <1>3 DEF AnswersAreTimely, Answer
    <2>1. CASE r = q
      BY <2>1, <1>1, CacheNumbers
    <2>2. CASE r # q
      BY <2>2, <1>1, <1>3 DEF AnswersAreTimely, Answer
    <2> QED
      BY <2>1, <2>2
  <1> QED
    BY <1>4, <1>6, <1>7, <1>8

(* An answer is given at most Patience after it was found or read.         *)
LEMMA ReturnStep ==
    ASSUME CacheAssumption, CacheIInv, NEW q \in Reader, Return(q)
    PROVE  Timely'
  <1> USE DEF CacheIInv, Timely
  <1>1. /\ UNCHANGED <<kind, lastAt, cache, now>> /\ reader[q].pc = "return"
        /\ served' = [version |-> Answer(q), at |-> now]
    BY DEF Return, At
  <1>2. /\ reader'[q].pc = "idle"
        /\ \A r \in Reader \ {q} : reader'[r] = reader[r]
    BY DEF Return, Resting, CacheTypeOK
  <1>3. ReadersAreOnTime' /\ KindIsObeyed'
    BY <1>1, <1>2 DEF ReadersAreOnTime, KindIsObeyed, Busy
  <1>4. CacheIsTimely' /\ ReadsAreTimely' /\ StampsAreTimely'
    BY <1>1, <1>2 DEF CacheIsTimely, ReadsAreTimely, StampsAreTimely
  <1>5. AnswersAreTimely'
    BY <1>1, <1>2 DEF AnswersAreTimely, Answer
  <1>6. /\ Answer(q) # Nothing
        /\ now <= reader[q].start + Patience
        /\ reader[q].start < lastAt[Answer(q)] + TTL + Patience
    BY <1>1 DEF AnswersAreTimely, ReadersAreOnTime, Busy
  <1>7. ServedIsRecent'
    BY <1>1, <1>6, CacheNumbers DEF ServedIsRecent
  <1> QED
    BY <1>3, <1>4, <1>5, <1>7

(* The assistant's context is read and answered in one instant.            *)
LEMMA ContextStep ==
    ASSUME CacheAssumption, CacheIInv, BuildContext
    PROVE  Timely'
  <1> USE DEF CacheIInv, Timely
  <1>1. /\ UNCHANGED <<kind, lastAt, now, reader>> /\ kind = "context"
        /\ cache' = IF Fresh THEN cache ELSE [data |-> stored, ts |-> now]
        /\ served' = [version |-> cache'.data, at |-> now]
    BY DEF BuildContext
  <1>2. \A r \in Reader : reader[r].pc = "idle" /\ reader'[r].pc = "idle"
    BY <1>1 DEF KindIsObeyed, Busy
  <1>3. /\ ReadersAreOnTime' /\ KindIsObeyed' /\ ReadsAreTimely'
        /\ StampsAreTimely' /\ AnswersAreTimely'
    BY <1>2 DEF ReadersAreOnTime, KindIsObeyed, Busy, ReadsAreTimely, StampsAreTimely,
                AnswersAreTimely
  <1>4. stored \in Version /\ lastAt[stored] = now /\ stored # Nothing
    BY CacheNumbers DEF CacheTypeOK, ClockRuns
  <1>5. CacheIsTimely'
    BY <1>1, <1>4, CacheNumbers DEF CacheIsTimely
  <1>6. cache'.data # Nothing /\ now - TTL <= lastAt[cache'.data]
    <2>1. CASE Fresh
      <3>1. cache.data # Nothing /\ now - cache.ts <= TTL
        BY <2>1, <1>1, CacheNumbers DEF Fresh, CacheIsTimely, ClockRuns
      <3> QED
        BY <3>1, <2>1, <1>1, CacheNumbers DEF CacheIsTimely
    <2>2. CASE ~Fresh
      BY <2>2, <1>1, <1>4, CacheNumbers
    <2> QED
      BY <2>1, <2>2
  <1>7. cache'.data \in Version
    BY <1>1, <1>4, <1>6, CacheNumbers
  <1>8. ServedIsRecent'
    BY <1>1, <1>6, <1>7, CacheNumbers DEF ServedIsRecent
  <1> QED
    BY <1>3, <1>5, <1>8

(* A stamp that is set back makes nothing older.                           *)
LEMMA ResetStep ==
    ASSUME CacheAssumption, CacheIInv, Reset
    PROVE  Timely'
  <1> USE DEF CacheIInv, Timely
  <1>1. /\ UNCHANGED <<kind, lastAt, now, reader, served>>
        /\ cache'.data = cache.data /\ cache'.ts = 0
    BY DEF Reset, CacheTypeOK
  <1>2. /\ ReadersAreOnTime' /\ KindIsObeyed' /\ ReadsAreTimely' /\ StampsAreTimely'
        /\ ServedIsRecent'
    BY <1>1 DEF ReadersAreOnTime, KindIsObeyed, Busy, ReadsAreTimely, StampsAreTimely,
                ServedIsRecent
  <1>3. AnswersAreTimely'
    BY <1>1 DEF AnswersAreTimely, Answer
  <1>4. CacheIsTimely'
    BY <1>1, CacheNumbers DEF CacheIsTimely
  <1> QED
    BY <1>2, <1>3, <1>4

(* A step that changes nothing the invariant speaks of.                    *)
LEMMA CacheStutterStep == ASSUME CacheIInv, UNCHANGED cacheVars PROVE Timely'
  BY DEF CacheIInv, Timely, cacheVars, ReadersAreOnTime, KindIsObeyed, Busy, CacheIsTimely,
         ReadsAreTimely, StampsAreTimely, AnswersAreTimely, Answer, ServedIsRecent

(* Every step of a reader, of an administrator and of the clock keeps it.  *)
LEMMA NextCacheIInv == ASSUME CacheAssumption, CacheIInv, [CacheNext]_cacheVars PROVE CacheIInv'
  <1>1. CacheTypeOK'
    BY CacheTypeStep DEF CacheIInv
  <1>2. ClockRuns' /\ \A v \in Version : lastAt[v] <= lastAt'[v]
    BY VersionsAge DEF CacheIInv
  <1>3. Timely'
    <2>1. ASSUME NEW r \in Reader, Ask(r) \/ Query(r) \/ Install(r) \/ Stamp(r) \/ Return(r)
          PROVE  Timely'
      BY <2>1, AskStep, QueryStep, InstallStep, StampStep, ReturnStep
    <2>2. CASE UpdateFields \/ UpdateUser \/ UpdateCatalog
      BY <2>2, <1>1, <1>2, WriteStep
    <2>3. CASE CacheTick
      BY <2>3, <1>1, <1>2, CacheTickStep
    <2> QED
      BY <2>1, <2>2, <2>3, ContextStep, ResetStep, CacheStutterStep DEF CacheNext
  <1> QED
    BY <1>1, <1>2, <1>3 DEF CacheIInv

(* The state of the caches keeps its types.                                *)
THEOREM CacheTypesAlways == ASSUME CacheAssumption PROVE CacheSpec => []CacheTypeOK
  <1>1. CacheInit => CacheTypeOK
    BY InitCacheIInv DEF CacheIInv
  <1>2. CacheTypeOK /\ [CacheNext]_cacheVars => CacheTypeOK'
    BY CacheTypeStep
  <1> QED
    BY <1>1, <1>2, PTL DEF CacheSpec

(* Whatever readers, administrators and the clock do, field_visibility,    *)
(* auth._admin_ids and the assistant's context serve no version of the     *)
(* rows that was replaced TTL + 2 * Patience ago.                          *)
THEOREM ServedIsRecentAlways == ASSUME CacheAssumption PROVE CacheSpec => []ServedIsRecent
  <1>1. CacheInit => CacheIInv
    BY InitCacheIInv
  <1>2. CacheIInv /\ [CacheNext]_cacheVars => CacheIInv'
    BY NextCacheIInv
  <1>3. CacheIInv => ServedIsRecent
    BY DEF CacheIInv, Timely
  <1> QED
    BY <1>1, <1>2, <1>3, PTL DEF CacheSpec

-----------------------------------------------------------------------------
(***************************************************************************)
(* The limits: no window of an address holds more failed logins, or more   *)
(* registrations, than the limit and the requests of the other threads,    *)
(* for any threads, addresses, limit and window.                           *)
(*                                                                         *)
(* Failures only grow by threads that verify a password, and a thread only *)
(* verifies when it counted fewer than the limit (FailuresFit).  For the   *)
(* registrations the window has two lives: as long as its admissions are   *)
(* all in the list they number at most the limit (Remembered); what ends   *)
(* this is a check with a time past the window, and then nobody can add to *)
(* it but the other threads that took their time before (Forgotten).       *)
(***************************************************************************)
Bound == Limit + Cardinality(Thread) - 1

Verifying(ip) == {t \in Thread : call[t].pc = "verify" /\ call[t].ip = ip}
Late(ip, at) == {t \in Thread : call[t].pc = "lock" /\ call[t].ip = ip /\ call[t].at <= at}

PastOnly ==
    /\ \A k \in DOMAIN log : log[k].at <= clock
    /\ \A k \in DOMAIN admitted : admitted[k].at <= clock
    /\ \A t \in Thread : call[t].at <= clock

FailuresFit ==
    /\ \A ip \in Ip : Cardinality(WindowOf(log, ip, clock)) + Cardinality(Verifying(ip)) <= Bound
    /\ \A ip \in Ip, at \in 0..clock : Cardinality(WindowOf(log, ip, at)) <= Bound

Remembered(ip, at) == WindowOf(admitted, ip, at) \subseteq hits[ip]
Forgotten(ip, at) ==
    at < clock /\ Cardinality(WindowOf(admitted, ip, at)) + Cardinality(Late(ip, at)) <= Bound

AdmissionsFit == \A ip \in Ip, at \in 0..clock : Remembered(ip, at) \/ Forgotten(ip, at)

RateIInv == RateTypeOK /\ PastOnly /\ FailuresFit /\ AdmissionsFit

-----------------------------------------------------------------------------
(* An element more is at most one more.                                    *)
LEMMA OneAdded ==
    ASSUME NEW S, NEW x, IsFiniteSet(S)
    PROVE  /\ IsFiniteSet(S \cup {x}) /\ Cardinality(S) \in Nat
           /\ Cardinality(S \cup {x}) <= Cardinality(S) + 1
  <1>1. /\ IsFiniteSet(S \cup {x})
        /\ Cardinality(S \cup {x}) = IF x \in S THEN Cardinality(S) ELSE Cardinality(S) + 1
    BY FS_AddElement, Zenon
  <1>2. Cardinality(S) \in Nat
    BY FS_CardinalityType, Zenon
  <1> QED
    BY <1>1, <1>2

(* A part is no larger than the whole.                                     *)
LEMMA APart ==
    ASSUME NEW S, IsFiniteSet(S), NEW T \in SUBSET S
    PROVE  /\ IsFiniteSet(T) /\ Cardinality(S) \in Nat /\ Cardinality(T) \in Nat
           /\ Cardinality(T) <= Cardinality(S)
  <1>1. IsFiniteSet(T) /\ Cardinality(T) <= Cardinality(S)
    BY FS_Subset, Zenon
  <1> QED
    BY <1>1, FS_CardinalityType, Zenon

(* A window is finite.                                                     *)
LEMMA Windows ==
    ASSUME NEW s \in Seq(Attempt), NEW ip, NEW at
    PROVE  IsFiniteSet(WindowOf(s, ip, at)) /\ Cardinality(WindowOf(s, ip, at)) \in Nat
  <1>1. WindowOf(s, ip, at) \subseteq 1..Len(s) /\ IsFiniteSet(1..Len(s))
    BY FS_Interval DEF WindowOf
  <1> QED
    BY <1>1, FS_Subset, FS_CardinalityType

(* An entry more is in the windows of its address that hold its time.      *)
LEMMA Appended ==
    ASSUME RateAssumption, NEW s \in Seq(Attempt), NEW a \in Attempt, NEW ip, NEW at \in Nat
    PROVE  WindowOf(Append(s, a), ip, at) =
             IF a.ip = ip /\ a.at <= at /\ a.at + Window > at
             THEN WindowOf(s, ip, at) \cup {Len(s) + 1} ELSE WindowOf(s, ip, at)
  <1> DEFINE r == Append(s, a)
  <1>1. /\ DOMAIN r = DOMAIN s \cup {Len(s) + 1} /\ Len(s) + 1 \notin DOMAIN s
        /\ r[Len(s) + 1] = a /\ \A k \in DOMAIN s : r[k] = s[k]
    OBVIOUS
  <1> HIDE DEF r
  <1>2. WindowOf(r, ip, at) =
          IF a.ip = ip /\ a.at <= at /\ a.at + Window > at
          THEN WindowOf(s, ip, at) \cup {Len(s) + 1} ELSE WindowOf(s, ip, at)
    BY <1>1 DEF WindowOf
  <1> QED
    BY <1>2 DEF r

(* It adds one to them at most.                                            *)
LEMMA OneMore ==
    ASSUME RateAssumption, NEW s \in Seq(Attempt), NEW a \in Attempt, NEW ip, NEW at \in Nat
    PROVE  /\ Cardinality(WindowOf(Append(s, a), ip, at)) <= Cardinality(WindowOf(s, ip, at)) + 1
           /\ ~(a.ip = ip /\ a.at <= at)
              => WindowOf(Append(s, a), ip, at) = WindowOf(s, ip, at)
  <1> DEFINE W == WindowOf(s, ip, at)
  <1>1. IsFiniteSet(W) /\ Cardinality(W) \in Nat
    BY Windows
  <1>2. WindowOf(Append(s, a), ip, at) = IF a.ip = ip /\ a.at <= at /\ a.at + Window > at
                                         THEN W \cup {Len(s) + 1} ELSE W
    BY Appended
  <1> HIDE DEF W
  <1>3. Cardinality(W \cup {Len(s) + 1}) <= Cardinality(W) + 1
    BY <1>1, OneAdded, Zenon
  <1>4. Cardinality(WindowOf(Append(s, a), ip, at)) <= Cardinality(W) + 1
    BY <1>1, <1>2, <1>3
  <1> QED
    BY <1>2, <1>4 DEF W

(* Sets of threads are finite.                                             *)
LEMMA Counted ==
    ASSUME RateAssumption, NEW S \in SUBSET Thread
    PROVE  /\ IsFiniteSet(S) /\ Cardinality(S) \in Nat /\ Cardinality(S) <= Cardinality(Thread)
           /\ Cardinality(Thread) \in Nat \ {0} /\ Bound \in Nat /\ Limit <= Bound
           /\ \A R \in SUBSET S : Cardinality(R) <= Cardinality(S)
           /\ \A t \in S : \A R \in SUBSET (S \ {t}) : Cardinality(R) + 1 <= Cardinality(S)
  <1> USE DEF RateAssumption
  <1>1. IsFiniteSet(S) /\ Cardinality(S) \in Nat /\ Cardinality(S) <= Cardinality(Thread)
    BY FS_Subset, FS_CardinalityType
  <1>2. Cardinality(Thread) \in Nat \ {0}
    BY FS_CardinalityType, FS_EmptySet
  <1>3. \A R \in SUBSET S : Cardinality(R) <= Cardinality(S)
    BY <1>1, FS_Subset
  <1>4. ASSUME NEW t \in S, NEW R \in SUBSET (S \ {t}) PROVE Cardinality(R) + 1 <= Cardinality(S)
    <2>1. IsFiniteSet(S \ {t}) /\ Cardinality(S \ {t}) = Cardinality(S) - 1
      BY <1>1, FS_RemoveElement
    <2>2. IsFiniteSet(R) /\ Cardinality(R) <= Cardinality(S \ {t})
      BY <2>1, FS_Subset
    <2>3. Cardinality(R) \in Nat
      BY <2>2, FS_CardinalityType
    <2> QED
      BY <1>1, <2>1, <2>2, <2>3
  <1>5. Bound \in Nat /\ Limit <= Bound
    BY <1>2 DEF Bound
  <1> QED
    BY <1>1, <1>2, <1>3, <1>4, <1>5

(* Two states of a request.                                                *)
LEMMA CallTypes ==
    ASSUME RateAssumption
    PROVE  /\ AtRest \in Handled /\ AtRest.pc = "idle"
           /\ \A ip \in Ip : LET c == [AtRest EXCEPT !.pc = "verify", !.ip = ip] IN
                             c \in Handled /\ c.pc = "verify" /\ c.ip = ip
  <1>1. LastMoment \in Nat
    BY DEF RateAssumption
  <1>2. 0 \in 0..LastMoment
    BY <1>1
  <1>3. AtRest \in Handled
    BY <1>2 DEF AtRest, Handled
  <1>4. ASSUME NEW ip \in Ip PROVE [AtRest EXCEPT !.pc = "verify", !.ip = ip] \in Handled
    BY <1>2, <1>4 DEF AtRest, Handled
  <1> QED
    BY <1>3, <1>4 DEF AtRest

(* Stamps are instants.                                                    *)
LEMMA Stamps ==
    ASSUME RateAssumption
    PROVE  /\ \A a \in Attempt : a.at \in Nat
           /\ \A c \in Handled : c.at \in Nat
           /\ \A s \in Seq(Attempt) : \A k \in DOMAIN s : s[k].at \in Nat
  <1>1. LastMoment \in Nat
    BY DEF RateAssumption
  <1>2. \A a \in Attempt : a.at \in Nat
    BY <1>1 DEF Attempt
  <1>3. \A c \in Handled : c.at \in Nat
    <2>1. \A c \in Handled : c.at \in 0..LastMoment
      BY DEF Handled
    <2> QED
      BY <1>1, <2>1
  <1>4. \A s \in Seq(Attempt) : \A k \in DOMAIN s : s[k].at \in Nat
    <2> TAKE s \in Seq(Attempt)
    <2> TAKE k \in DOMAIN s
    <2>1. s[k] \in Attempt
      OBVIOUS
    <2> QED
      BY <1>2, <2>1
  <1> QED
    BY <1>2, <1>3, <1>4

(* A history of one entry, or of one more.                                 *)
LEMMA Histories ==
    ASSUME NEW S, NEW x \in S
    PROVE  <<x>> \in Seq(S) /\ \A s \in Seq(S) : Append(s, x) \in Seq(S)
  OBVIOUS

(* Nobody has tried anything yet.                                          *)
LEMMA InitRateIInv == ASSUME RateAssumption PROVE RateInit => RateIInv
  <1> SUFFICES ASSUME RateInit PROVE RateIInv
    OBVIOUS
  <1> USE DEF RateInit
  <1>1. RateTypeOK
    <2>1. call \in [Thread -> Handled]
      BY CallTypes
    <2>2. \A ip \in Ip : hits[ip] = {} /\ Cardinality(hits[ip]) = 0
      BY FS_EmptySet
    <2>3. \A t \in Thread : call[t].pc = "idle"
      BY DEF AtRest
    <2>4. CallsOK
      BY <2>1, <2>3 DEF CallsOK
    <2>5. ListsOK
      BY <2>2 DEF ListsOK, RateAssumption
    <2>6. HistoriesOK
      BY DEF HistoriesOK
    <2> QED
      BY <2>4, <2>5, <2>6 DEF RateTypeOK, RateAssumption
  <1>2. \A ip, at : WindowOf(<<>>, ip, at) = {}
    BY DEF WindowOf
  <1>3. \A ip : Verifying(ip) = {}
    BY DEF Verifying, AtRest
  <1>4. Bound \in Nat
    BY Counted
  <1>5. PastOnly
    <2>1. /\ \A k \in DOMAIN log : FALSE
          /\ \A k \in DOMAIN admitted : FALSE
      OBVIOUS
    <2>2. \A t \in Thread : call[t].at = 0 /\ clock = 0
      BY DEF AtRest
    <2> HIDE DEF RateInit
    <2> QED
      BY <2>1, <2>2 DEF PastOnly
  <1>6. FailuresFit
    <2>1. log = <<>> /\ clock = 0 /\ Cardinality({}) = 0
      BY FS_EmptySet
    <2> HIDE DEF RateInit
    <2>2. \A ip, at : Cardinality(WindowOf(log, ip, at)) = 0 /\ Cardinality(Verifying(ip)) = 0
      BY <1>2, <1>3, <2>1, Zenon
    <2> QED
      BY <1>4, <2>2 DEF FailuresFit
  <1>7. AdmissionsFit
    BY <1>2 DEF AdmissionsFit, Remembered
  <1> QED
    BY <1>1, <1>5, <1>6, <1>7 DEF RateIInv

(* One thread moves: the others stay where they are.                       *)
LEMMA ThreadMoves ==
    ASSUME call \in [Thread -> Handled], NEW t \in Thread, NEW c \in Handled, Become(t, c)
    PROVE  /\ call' \in [Thread -> Handled] /\ call'[t] = c
           /\ \A u \in Thread \ {t} : call'[u] = call[u]
  BY DEF Become

(* It has an address and, when it registers, a name.                       *)
LEMMA CallsKept ==
    ASSUME CallsOK, NEW t \in Thread, NEW c \in Handled, Become(t, c),
           c.pc # "idle" => c.ip \in Ip,
           c.pc \in {"lock", "name", "insert"} => c.name \in Name
    PROVE  CallsOK'
  <1>1. /\ call' \in [Thread -> Handled] /\ call'[t] = c
        /\ \A u \in Thread \ {t} : call'[u] = call[u]
    BY ThreadMoves DEF CallsOK
  <1> QED
    BY <1>1 DEF CallsOK

(* At rest it needs neither.                                               *)
LEMMA Rests == ASSUME RateAssumption, CallsOK, NEW t \in Thread, Become(t, AtRest) PROVE CallsOK'
  <1>1. AtRest \in Handled /\ AtRest.pc = "idle"
    BY CallTypes
  <1> QED
    BY <1>1, CallsKept

(* What pruning leaves is a part of the list, and fits as it did.          *)
LEMMA PrunedFits ==
    ASSUME RateAssumption, RateTypeOK, NEW ip \in Ip, NEW at
    PROVE  /\ Pruned(ip, at) \subseteq hits[ip] /\ hits[ip] \subseteq DOMAIN admitted
           /\ IsFiniteSet(hits[ip]) /\ IsFiniteSet(Pruned(ip, at))
           /\ Cardinality(hits[ip]) \in Nat /\ Cardinality(Pruned(ip, at)) \in Nat
           /\ Cardinality(Pruned(ip, at)) <= Limit
  <1>1. /\ Pruned(ip, at) \subseteq hits[ip] /\ hits[ip] \subseteq DOMAIN admitted
        /\ Cardinality(hits[ip]) <= Limit
    BY DEF Pruned, RateTypeOK, ListsOK
  <1>2. DOMAIN admitted = 1..Len(admitted) /\ Len(admitted) \in Nat
    BY DEF RateTypeOK, HistoriesOK
  <1>3. IsFiniteSet(1..Len(admitted))
    BY <1>2, FS_Interval
  <1>4. IsFiniteSet(hits[ip])
    BY <1>1, <1>2, <1>3, APart, Zenon
  <1>5. /\ IsFiniteSet(Pruned(ip, at)) /\ Cardinality(hits[ip]) \in Nat
        /\ Cardinality(Pruned(ip, at)) \in Nat
        /\ Cardinality(Pruned(ip, at)) <= Cardinality(hits[ip])
    BY <1>1, <1>4, APart, Zenon
  <1> QED
    BY <1>1, <1>4, <1>5 DEF RateAssumption

(* What a check changes: the list of one address and, when it admits, the  *)
(* history by one entry, the next of the list.                             *)
LEMMA CheckMoves ==
    ASSUME RateAssumption, RateTypeOK, NEW t \in Thread, CheckAndHit(t)
    PROVE  LET ip == call[t].ip
               at == call[t].at
               kept == Pruned(ip, at) IN
           /\ ip \in Ip /\ at \in 0..LastMoment /\ call[t].pc = "lock" /\ call[t] \in Handled
           /\ UNCHANGED <<clock, log, accounts, open>>
           /\ \/ /\ Cardinality(kept) >= Limit
                 /\ hits' = [hits EXCEPT ![ip] = kept] /\ admitted' = admitted
                 /\ refused' = <<[by |-> "register", ip |-> ip, at |-> at]>>
                 /\ Become(t, AtRest)
              \/ /\ Cardinality(kept) < Limit
                 /\ hits' = [hits EXCEPT ![ip] = kept \cup {Len(admitted) + 1}]
                 /\ admitted' = Append(admitted, [ip |-> ip, at |-> at]) /\ refused' = refused
                 /\ Become(t, [call[t] EXCEPT !.pc = "name"])
  <1>1. call[t].pc = "lock" /\ call[t] \in Handled /\ call[t].ip \in Ip
    BY DEF CheckAndHit, RateTypeOK, CallsOK
  <1>2. call[t].at \in 0..LastMoment
    BY <1>1 DEF Handled
  <1> DEFINE kept == Pruned(call[t].ip, call[t].at)
  <1>3. Cardinality(kept) \in Nat /\ Limit \in Nat
    BY <1>1, PrunedFits DEF RateAssumption
  <1>4. IF Cardinality(kept) >= Limit THEN Refuse(t, kept) ELSE Admit(t, kept)
    BY DEF CheckAndHit
  <1>5. CASE Cardinality(kept) >= Limit /\ Refuse(t, kept)
    BY <1>1, <1>2, <1>5 DEF Refuse
  <1>6. CASE Cardinality(kept) < Limit /\ Admit(t, kept)
    BY <1>1, <1>2, <1>6 DEF Admit
  <1> HIDE DEF kept
  <1>7. \/ Cardinality(kept) >= Limit /\ Refuse(t, kept)
        \/ Cardinality(kept) < Limit /\ Admit(t, kept)
    BY <1>3, <1>4
  <1> QED
    BY <1>5, <1>6, <1>7 DEF kept

(* A check keeps the types.                                                *)
LEMMA CheckTypes ==
    ASSUME RateAssumption, RateTypeOK, NEW t \in Thread, CheckAndHit(t) PROVE RateTypeOK'
  <1> DEFINE ip == call[t].ip
             at == call[t].at
             kept == Pruned(ip, at)
             nr == Len(admitted) + 1
  <1>1. HistoriesOK /\ ListsOK /\ CallsOK
    BY DEF RateTypeOK
  <1>2. /\ ip \in Ip /\ at \in 0..LastMoment /\ call[t].pc = "lock" /\ call[t] \in Handled
        /\ UNCHANGED <<clock, log, accounts, open>>
    BY CheckMoves
  <1>3. /\ kept \subseteq hits[ip] /\ IsFiniteSet(kept) /\ Cardinality(kept) \in Nat
        /\ Cardinality(kept) <= Limit
    BY <1>2, PrunedFits
  <1>4. \/ /\ hits' = [hits EXCEPT ![ip] = kept] /\ admitted' = admitted
           /\ refused' = <<[by |-> "register", ip |-> ip, at |-> at]>>
           /\ Become(t, AtRest)
        \/ /\ Cardinality(kept) < Limit
           /\ hits' = [hits EXCEPT ![ip] = kept \cup {nr}]
           /\ admitted' = Append(admitted, [ip |-> ip, at |-> at]) /\ refused' = refused
           /\ Become(t, [call[t] EXCEPT !.pc = "name"])
    BY CheckMoves
  <1>5. [ip |-> ip, at |-> at] \in Attempt
    BY <1>2 DEF Attempt
  <1>6. call[t].name \in Name /\ [call[t] EXCEPT !.pc = "name"] \in Handled
    BY <1>1, <1>2 DEF CallsOK, Handled
  <1>7. CallsOK'
    BY <1>1, <1>2, <1>4, <1>6, Rests, CallsKept DEF Handled
  <1> HIDE DEF ip, at, kept
  <1>8. HistoriesOK'
    <2>1. [by |-> "register", ip |-> ip, at |-> at] \in Refusal
      BY <1>2 DEF Refusal
    <2>2. refused' \in Seq(Refusal)
      BY <1>1, <1>4, <2>1, Histories DEF HistoriesOK
    <2>3. admitted' \in Seq(Attempt)
      BY <1>1, <1>4, <1>5, Histories DEF HistoriesOK
    <2> QED
      BY <1>1, <1>2, <2>2, <2>3 DEF HistoriesOK
  <1>9. ListsOK'
    <2>1. CASE hits' = [hits EXCEPT ![ip] = kept] /\ admitted' = admitted
      BY <1>1, <1>2, <1>3, <2>1 DEF ListsOK
    <2>2. CASE /\ Cardinality(kept) < Limit
               /\ hits' = [hits EXCEPT ![ip] = kept \cup {nr}]
               /\ admitted' = Append(admitted, [ip |-> ip, at |-> at])
      <3>1. Cardinality(kept \cup {nr}) <= Cardinality(kept) + 1
        BY <1>3, OneAdded, Zenon
      <3>2. /\ DOMAIN admitted' = DOMAIN admitted \cup {nr}
            /\ admitted'[nr].ip = ip /\ \A k \in DOMAIN admitted : admitted'[k] = admitted[k]
        BY <1>1, <1>5, <2>2 DEF HistoriesOK
      <3>3. Cardinality(kept \cup {nr}) <= Limit
        <4>1. IsFiniteSet(kept \cup {nr})
          BY <1>3, OneAdded, Zenon
        <4>2. Cardinality(kept \cup {nr}) \in Nat
          BY <4>1, FS_CardinalityType, Zenon
        <4> QED
          BY <1>3, <2>2, <3>1, <4>2 DEF RateAssumption
      <3> HIDE DEF nr
      <3> QED
        BY <1>1, <1>2, <1>3, <2>2, <3>2, <3>3 DEF ListsOK
    <2> QED
      BY <1>4, <2>1, <2>2
  <1> QED
    BY <1>2, <1>7, <1>8, <1>9 DEF RateTypeOK

(* Every action keeps the types of the limits' state.                      *)
LEMMA RateTypeStep ==
    ASSUME RateAssumption, RateTypeOK, [RateNext]_rateVars PROVE RateTypeOK'
  <1>1. /\ clock \in 0..LastMoment /\ HistoriesOK
        /\ ListsOK /\ CallsOK /\ accounts \subseteq Name /\ open \in BOOLEAN
    BY DEF RateTypeOK
  <1>2. ASSUME NEW t \in Thread PROVE call[t] \in Handled
    BY <1>1 DEF CallsOK
  <1>3. ASSUME hits' = hits, admitted' = admitted PROVE ListsOK'
    BY <1>1, <1>3 DEF ListsOK
  <1>4. ASSUME log' = log, admitted' = admitted, refused' = refused PROVE HistoriesOK'
    BY <1>1, <1>4 DEF HistoriesOK
  <1>5. ASSUME NEW t \in Thread, NEW ip \in Ip, Login(t, ip) PROVE RateTypeOK'
    <2>1. /\ clock' = clock /\ log' = log /\ hits' = hits /\ accounts' = accounts
          /\ open' = open /\ admitted' = admitted
          /\ \/ /\ refused' = <<[by |-> "login", ip |-> ip, at |-> clock]>> /\ call' = call
             \/ /\ Become(t, [AtRest EXCEPT !.pc = "verify", !.ip = ip]) /\ refused' = refused
      BY <1>5 DEF Login
    <2>2. HistoriesOK'
      <3>1. [by |-> "login", ip |-> ip, at |-> clock] \in Refusal
        BY <1>1 DEF Refusal
      <3>2. refused' \in Seq(Refusal)
        BY <1>1, <2>1, <3>1, Histories DEF HistoriesOK
      <3> QED
        BY <1>1, <2>1, <3>2 DEF HistoriesOK
    <2>3. CallsOK'
      <3>1. CASE call' = call
        BY <1>1, <3>1 DEF CallsOK
      <3>2. CASE Become(t, [AtRest EXCEPT !.pc = "verify", !.ip = ip])
        BY <1>1, <3>2, CallTypes, CallsKept
      <3> QED
        BY <2>1, <3>1, <3>2
    <2> QED
      BY <1>1, <1>3, <2>1, <2>2, <2>3 DEF RateTypeOK
  <1>6. ASSUME NEW t \in Thread, WrongPassword(t) PROVE RateTypeOK'
    <2>1. /\ clock' = clock /\ hits' = hits /\ accounts' = accounts /\ open' = open
          /\ admitted' = admitted /\ refused' = refused /\ Become(t, AtRest)
          /\ log' = Append(log, [ip |-> call[t].ip, at |-> clock]) /\ call[t].pc = "verify"
      BY <1>6 DEF WrongPassword
    <2>2. [ip |-> call[t].ip, at |-> clock] \in Attempt
      BY <1>1, <2>1 DEF Attempt, CallsOK
    <2>3. HistoriesOK'
      BY <1>1, <2>1, <2>2 DEF HistoriesOK
    <2>4. CallsOK'
      BY <1>1, <2>1, Rests
    <2> QED
      BY <1>1, <1>3, <2>1, <2>3, <2>4 DEF RateTypeOK
  <1>7. ASSUME NEW t \in Thread, NEW ip \in Ip, NEW n \in Name, Register(t, ip, n)
        PROVE  RateTypeOK'
    <2>1. /\ UNCHANGED <<clock, log, hits, accounts, open, admitted, refused>>
          /\ Become(t, [pc |-> "lock", ip |-> ip, at |-> clock, name |-> n])
      BY <1>7 DEF Register
    <2>2. [pc |-> "lock", ip |-> ip, at |-> clock, name |-> n] \in Handled
      BY <1>1 DEF Handled
    <2>3. CallsOK'
      BY <1>1, <2>1, <2>2, CallsKept
    <2> QED
      BY <1>1, <1>3, <1>4, <2>1, <2>3 DEF RateTypeOK
  <1>8. ASSUME NEW t \in Thread, CheckAndHit(t) PROVE RateTypeOK'
    BY <1>8, CheckTypes
  <1>9. ASSUME NEW t \in Thread, RightPassword(t) \/ TooShort(t) \/ NameTaken(t) \/ InsertAccount(t)
        PROVE  RateTypeOK'
    <2>1. /\ UNCHANGED <<clock, log, hits, open, admitted, refused>> /\ Become(t, AtRest)
      BY <1>9 DEF RightPassword, TooShort, NameTaken, InsertAccount
    <2>2. accounts' \subseteq Name
      BY <1>1, <1>9 DEF RightPassword, TooShort, NameTaken, InsertAccount, CallsOK
    <2>3. CallsOK'
      BY <1>1, <2>1, Rests
    <2> QED
      BY <1>1, <1>3, <1>4, <2>1, <2>2, <2>3 DEF RateTypeOK
  <1>10. ASSUME NEW t \in Thread, NameFree(t) PROVE RateTypeOK'
    <2>1. /\ UNCHANGED <<clock, log, hits, accounts, open, admitted, refused>>
          /\ call[t].pc = "name" /\ Become(t, [call[t] EXCEPT !.pc = "insert"])
      BY <1>10 DEF NameFree
    <2>2. [call[t] EXCEPT !.pc = "insert"] \in Handled
      BY <1>2 DEF Handled
    <2>3. call[t].ip \in Ip /\ call[t].name \in Name
      BY <1>1, <2>1 DEF CallsOK
    <2>4. CallsOK'
      BY <1>1, <1>2, <2>1, <2>2, <2>3, CallsKept DEF Handled
    <2> QED
      BY <1>1, <1>3, <1>4, <2>1, <2>4 DEF RateTypeOK
  <1>11. CASE UpdateSetting \/ RateTick
    <2>1. /\ UNCHANGED <<log, hits, call, accounts, admitted, refused>>
          /\ clock' \in 0..LastMoment /\ open' \in BOOLEAN
      <3>1. CASE UpdateSetting
        BY <1>1, <3>1 DEF UpdateSetting
      <3>2. CASE RateTick
        <4>1. LastMoment \in Nat
          BY DEF RateAssumption
        <4> QED
          BY <1>1, <3>2, <4>1 DEF RateTick
      <3> QED
        BY <1>11, <3>1, <3>2
    <2>2. CallsOK'
      BY <1>1, <2>1 DEF CallsOK
    <2> QED
      BY <1>1, <1>3, <1>4, <2>1, <2>2 DEF RateTypeOK
  <1>12. CASE Restart
    <2>1. /\ hits' = [i \in Ip |-> {}] /\ admitted' = <<>>
          /\ call' = [t \in Thread |-> AtRest]
          /\ UNCHANGED <<clock, log, accounts, open, refused>>
      BY <1>12 DEF Restart
    <2>2. AtRest \in Handled /\ AtRest.pc = "idle"
      BY CallTypes
    <2>3. CallsOK'
      BY <2>1, <2>2 DEF CallsOK
    <2>4. Cardinality({}) = 0
      BY FS_EmptySet
    <2>5. ListsOK'
      BY <2>1, <2>4 DEF ListsOK, RateAssumption
    <2>6. HistoriesOK'
      BY <1>1, <2>1 DEF HistoriesOK
    <2> QED
      BY <1>1, <2>1, <2>3, <2>5, <2>6 DEF RateTypeOK
  <1>13. CASE UNCHANGED rateVars
    <2>1. UNCHANGED <<clock, log, hits, call, accounts, open, admitted, refused>>
      BY <1>13 DEF rateVars
    <2>2. CallsOK'
      BY <1>1, <2>1 DEF CallsOK
    <2> QED
      BY <1>1, <1>3, <1>4, <2>1, <2>2 DEF RateTypeOK
  <1> QED
    BY <1>5, <1>6, <1>7, <1>8, <1>9, <1>10, <1>11, <1>12, <1>13 DEF RateNext

(* Nothing is stamped later than now.                                      *)
LEMMA PastStep ==
    ASSUME RateAssumption, RateTypeOK, PastOnly, [RateNext]_rateVars PROVE PastOnly'
  <1>1. /\ clock \in Nat /\ log \in Seq(Attempt) /\ admitted \in Seq(Attempt)
        /\ call \in [Thread -> Handled]
    BY DEF RateTypeOK, HistoriesOK, CallsOK, RateAssumption
  <1>2. AtRest.at = 0 /\ AtRest \in Handled
    BY CallTypes DEF AtRest
  <1>3. \A k \in DOMAIN log : log[k].at \in Nat
    BY <1>1, Stamps
  <1>4. \A k \in DOMAIN admitted : admitted[k].at \in Nat
    BY <1>1, Stamps
  <1>5. ASSUME clock' = clock, log' = log, admitted' = admitted,
               NEW t \in Thread, NEW c \in Handled, Become(t, c), c.at <= clock
        PROVE  PastOnly'
    <2>1. call'[t] = c /\ \A u \in Thread \ {t} : call'[u] = call[u]
      BY <1>1, <1>5, ThreadMoves
    <2> QED
      BY <1>5, <2>1 DEF PastOnly
  <1>6. ASSUME NEW t \in Thread, Become(t, AtRest), UNCHANGED <<clock, log, admitted>>
        PROVE  PastOnly'
    BY <1>1, <1>2, <1>5, <1>6
  <1>7. ASSUME UNCHANGED <<log, admitted, call>>, clock <= clock', clock' \in Nat PROVE PastOnly'
    <2>1. \A t \in Thread : call[t].at \in Nat
      BY <1>1, Stamps
    <2> QED
      BY <1>1, <1>3, <1>4, <1>7, <2>1 DEF PastOnly
  <1>8. ASSUME NEW t \in Thread, NEW ip \in Ip, Login(t, ip) PROVE PastOnly'
    <2>1. CASE UNCHANGED call
      BY <1>1, <1>7, <1>8, <2>1 DEF Login
    <2>2. CASE Become(t, [AtRest EXCEPT !.pc = "verify", !.ip = ip])
      <3> DEFINE c == [AtRest EXCEPT !.pc = "verify", !.ip = ip]
      <3>1. c \in Handled /\ c.at = 0 /\ UNCHANGED <<clock, log, admitted>>
        BY <1>8, CallTypes DEF AtRest, Login
      <3> HIDE DEF c
      <3>2. c.at <= clock
        BY <1>1, <3>1
      <3> QED
        BY <1>5, <2>2, <3>1, <3>2 DEF c
    <2> QED
      BY <1>8, <2>1, <2>2 DEF Login
  <1>9. ASSUME NEW t \in Thread, WrongPassword(t) PROVE PastOnly'
    <2>1. /\ log' = Append(log, [ip |-> call[t].ip, at |-> clock])
          /\ UNCHANGED <<clock, admitted>> /\ Become(t, AtRest)
      BY <1>9 DEF WrongPassword
    <2>2. \A k \in DOMAIN log' : log'[k].at <= clock
      <3>1. [ip |-> call[t].ip, at |-> clock].at = clock
        OBVIOUS
      <3> QED
        BY <1>1, <2>1, <3>1 DEF PastOnly
    <2>3. call'[t] = AtRest /\ \A u \in Thread \ {t} : call'[u] = call[u]
      BY <1>1, <1>2, <2>1, ThreadMoves
    <2>4. \A u \in Thread : call'[u].at <= clock
      BY <1>1, <1>2, <2>3 DEF PastOnly
    <2> QED
      BY <2>1, <2>2, <2>4 DEF PastOnly
  <1>10. ASSUME NEW t \in Thread, NEW ip \in Ip, NEW n \in Name, Register(t, ip, n)
         PROVE  PastOnly'
    <2>1. [pc |-> "lock", ip |-> ip, at |-> clock, name |-> n] \in Handled
      BY DEF Handled, RateTypeOK
    <2> QED
      BY <1>1, <1>5, <1>10, <2>1 DEF Register
  <1>11. ASSUME NEW t \in Thread, CheckAndHit(t) PROVE PastOnly'
    <2>1. /\ UNCHANGED <<clock, log>> /\ call[t] \in Handled /\ call[t].at <= clock
          /\ \/ admitted' = admitted /\ Become(t, AtRest)
             \/ /\ admitted' = Append(admitted, [ip |-> call[t].ip, at |-> call[t].at])
                /\ Become(t, [call[t] EXCEPT !.pc = "name"])
      BY <1>11, CheckMoves DEF PastOnly
    <2>2. CASE admitted' = admitted /\ Become(t, AtRest)
      BY <1>6, <2>1, <2>2
    <2>3. CASE /\ admitted' = Append(admitted, [ip |-> call[t].ip, at |-> call[t].at])
               /\ Become(t, [call[t] EXCEPT !.pc = "name"])
      <3>1. [call[t] EXCEPT !.pc = "name"] \in Handled
        BY <2>1 DEF Handled
      <3>2. [call[t] EXCEPT !.pc = "name"].at = call[t].at
        BY <2>1 DEF Handled
      <3>3. \A u \in Thread : call'[u].at <= clock
        BY <1>1, <2>1, <2>3, <3>1, <3>2, ThreadMoves DEF PastOnly
      <3>4. \A k \in DOMAIN admitted' : admitted'[k].at <= clock
        BY <1>1, <2>1, <2>3 DEF PastOnly
      <3> QED
        BY <2>1, <3>3, <3>4 DEF PastOnly
    <2> QED
      BY <2>1, <2>2, <2>3
  <1>12. ASSUME NEW t \in Thread,
                RightPassword(t) \/ TooShort(t) \/ NameTaken(t) \/ InsertAccount(t)
         PROVE  PastOnly'
    BY <1>6, <1>12 DEF RightPassword, TooShort, NameTaken, InsertAccount
  <1>13. ASSUME NEW t \in Thread, NameFree(t) PROVE PastOnly'
    <2>1. call[t] \in Handled /\ call[t].at <= clock
      BY <1>1 DEF PastOnly
    <2>2. [call[t] EXCEPT !.pc = "insert"] \in Handled
      BY <2>1 DEF Handled
    <2>3. [call[t] EXCEPT !.pc = "insert"].at = call[t].at
      BY <2>1 DEF Handled
    <2> QED
      BY <1>5, <1>13, <2>1, <2>2, <2>3 DEF NameFree
  <1>14. CASE UpdateSetting
    BY <1>1, <1>7, <1>14 DEF UpdateSetting
  <1>15. CASE RateTick
    BY <1>1, <1>7, <1>15 DEF RateTick
  <1>16. CASE Restart
    <2>1. /\ admitted' = <<>> /\ UNCHANGED <<clock, log>>
          /\ call' = [t \in Thread |-> AtRest]
      BY <1>16 DEF Restart
    <2> QED
      BY <1>1, <1>2, <2>1 DEF PastOnly
  <1>17. CASE UNCHANGED rateVars
    BY <1>1, <1>7, <1>17 DEF rateVars
  <1> QED
    BY <1>8, <1>9, <1>10, <1>11, <1>12, <1>13, <1>14, <1>15, <1>16, <1>17 DEF RateNext

(* While nothing is written to the log, the failures fit as long as no     *)
(* more threads verify a password.                                         *)
LEMMA FailuresKept ==
    ASSUME RateAssumption, RateTypeOK, FailuresFit, UNCHANGED <<log, clock>>,
           \A ip \in Ip : Verifying(ip)' \subseteq Verifying(ip)
    PROVE  FailuresFit'
  <1> SUFFICES ASSUME NEW ip \in Ip
               PROVE  Cardinality(WindowOf(log, ip, clock)) + Cardinality(Verifying(ip)') <= Bound
    BY DEF FailuresFit, Bound
  <1>1. Verifying(ip) \in SUBSET Thread
    BY DEF Verifying
  <1>2. /\ Cardinality(Verifying(ip)') <= Cardinality(Verifying(ip))
        /\ Cardinality(Verifying(ip)) \in Nat /\ Bound \in Nat
    BY <1>1, Counted
  <1>3. Cardinality(Verifying(ip)') \in Nat
    BY <1>1, Counted
  <1>4. Cardinality(WindowOf(log, ip, clock)) \in Nat
    BY Windows DEF RateTypeOK, HistoriesOK
  <1>5. Cardinality(WindowOf(log, ip, clock)) + Cardinality(Verifying(ip)) <= Bound
    BY DEF FailuresFit
  <1> QED
    BY <1>2, <1>3, <1>4, <1>5

(* A window only grows by a thread that verifies, and threads only verify  *)
(* while it holds fewer failures than the limit.                           *)
LEMMA FailuresStep ==
    ASSUME RateAssumption, RateTypeOK, PastOnly, FailuresFit, [RateNext]_rateVars
    PROVE  FailuresFit'
  <1>1. /\ clock \in Nat /\ log \in Seq(Attempt) /\ call \in [Thread -> Handled]
    BY DEF RateTypeOK, HistoriesOK, CallsOK, RateAssumption
  <1>2. /\ Bound \in Nat /\ Limit \in Nat \ {0} /\ Cardinality(Thread) \in Nat \ {0}
        /\ Bound = Limit + Cardinality(Thread) - 1
    BY Counted DEF RateAssumption, Bound
  <1>3. AtRest.pc = "idle" /\ AtRest \in Handled
    BY CallTypes
  <1>4. \A ip \in Ip, at \in Nat : /\ IsFiniteSet(WindowOf(log, ip, at))
                                   /\ Cardinality(WindowOf(log, ip, at)) \in Nat
    BY <1>1, Windows
  <1>5. \A ip \in Ip : Verifying(ip) \in SUBSET Thread /\ Verifying(ip)' \in SUBSET Thread
    BY DEF Verifying
  <1>6. \A ip \in Ip : /\ Cardinality(Verifying(ip)) \in Nat
                       /\ Cardinality(Verifying(ip)') \in Nat
                       /\ Cardinality(Verifying(ip)') <= Cardinality(Thread)
    BY <1>5, Counted
  <1>7. ASSUME NEW t \in Thread, NEW c \in Handled, Become(t, c), c.pc # "verify",
               NEW ip \in Ip
        PROVE  Verifying(ip)' \subseteq Verifying(ip) \ {t}
    <2>1. call'[t] = c /\ \A u \in Thread \ {t} : call'[u] = call[u]
      BY <1>1, <1>7, ThreadMoves
    <2> QED
      BY <1>7, <2>1 DEF Verifying
  <1>8. ASSUME NEW t \in Thread, NEW ip \in Ip, Login(t, ip) PROVE FailuresFit'
    <2>1. CASE UNCHANGED call
      <3>1. \A q \in Ip : Verifying(q)' = Verifying(q)
        BY <2>1 DEF Verifying
      <3> QED
        BY <1>8, <3>1, FailuresKept DEF Login
    <2>2. CASE /\ Failures(ip) < Limit
               /\ Become(t, [AtRest EXCEPT !.pc = "verify", !.ip = ip])
      <3>1. UNCHANGED <<clock, log>>
        BY <1>8 DEF Login
      <3>2. /\ call'[t] = [AtRest EXCEPT !.pc = "verify", !.ip = ip]
            /\ \A u \in Thread \ {t} : call'[u] = call[u]
        BY <1>1, <2>2, ThreadMoves, CallTypes
      <3>3. \A q \in Ip \ {ip} : Verifying(q)' \subseteq Verifying(q)
        <4>1. call'[t].ip = ip
          BY <3>2, CallTypes
        <4> QED
          BY <3>2, <4>1 DEF Verifying
      <3>4. Cardinality(WindowOf(log, ip, clock)) <= Failures(ip)
        <4> DEFINE F == {k \in DOMAIN log : log[k].ip = ip /\ log[k].at + Window >= clock}
        <4>1. WindowOf(log, ip, clock) \subseteq F
          <5>1. \A k \in DOMAIN log : log[k].at \in Nat
            BY <1>1, Stamps
          <5>2. Window \in Nat
            BY DEF RateAssumption
          <5> QED
            BY <1>1, <5>1, <5>2 DEF WindowOf
        <4>2. F \subseteq 1..Len(log) /\ IsFiniteSet(1..Len(log))
          BY <1>1, FS_Interval
        <4>3. IsFiniteSet(F)
          BY <4>2, APart, Zenon
        <4> HIDE DEF F
        <4>4. Cardinality(WindowOf(log, ip, clock)) <= Cardinality(F)
          BY <4>1, <4>3, APart, Zenon
        <4> QED
          BY <4>4 DEF F, Failures
      <3>5. Failures(ip) \in Nat
        <4> DEFINE F == {k \in DOMAIN log : log[k].ip = ip /\ log[k].at + Window >= clock}
        <4>1. F \subseteq 1..Len(log) /\ IsFiniteSet(1..Len(log))
          BY <1>1, FS_Interval
        <4>2. Cardinality(F) \in Nat
          BY <4>1, APart, Zenon
        <4> QED
          BY <4>2 DEF Failures
      <3>6. Cardinality(WindowOf(log, ip, clock)) + Cardinality(Verifying(ip)') <= Bound
        BY <1>1, <1>2, <1>4, <1>6, <2>2, <3>4, <3>5
      <3>7. ASSUME NEW q \in Ip \ {ip}
            PROVE  Cardinality(WindowOf(log, q, clock)) + Cardinality(Verifying(q)') <= Bound
        <4>1. Cardinality(Verifying(q)') <= Cardinality(Verifying(q))
          BY <1>5, <3>3, Counted
        <4>2. Cardinality(WindowOf(log, q, clock)) + Cardinality(Verifying(q)) <= Bound
          BY DEF FailuresFit
        <4>3. /\ Cardinality(WindowOf(log, q, clock)) \in Nat
              /\ Cardinality(Verifying(q)) \in Nat /\ Cardinality(Verifying(q)') \in Nat
          BY <1>1, <1>4, <1>6
        <4> QED
          BY <1>2, <4>1, <4>2, <4>3
      <3>8. Bound' = Bound
        BY DEF Bound
      <3> QED
        BY <3>1, <3>6, <3>7, <3>8 DEF FailuresFit
    <2>3. Failures(ip) \in Nat
      <3> DEFINE F == {k \in DOMAIN log : log[k].ip = ip /\ log[k].at + Window >= clock}
      <3>1. F \subseteq 1..Len(log) /\ IsFiniteSet(1..Len(log))
        BY <1>1, FS_Interval
      <3>2. Cardinality(F) \in Nat
        BY <3>1, APart, Zenon
      <3> QED
        BY <3>2 DEF Failures
    <2>4. \/ UNCHANGED call
          \/ ~(Failures(ip) >= Limit) /\ Become(t, [AtRest EXCEPT !.pc = "verify", !.ip = ip])
      BY <1>8 DEF Login
    <2> QED
      BY <1>2, <2>1, <2>2, <2>3, <2>4
  <1>9. ASSUME NEW t \in Thread, WrongPassword(t) PROVE FailuresFit'
    <2> DEFINE a == [ip |-> call[t].ip, at |-> clock]
    <2>1. /\ log' = Append(log, a) /\ clock' = clock /\ Become(t, AtRest)
          /\ call[t].pc = "verify" /\ call[t].ip \in Ip
      BY <1>9 DEF WrongPassword, RateTypeOK, CallsOK
    <2>2. a \in Attempt
      BY <2>1 DEF Attempt, RateTypeOK
    <2> HIDE DEF a
    <2>3. log' \in Seq(Attempt) /\ a.at = clock /\ a.ip = call[t].ip
      BY <1>1, <2>1, <2>2, Histories DEF a
    <2>4. ASSUME NEW ip \in Ip
          PROVE  Cardinality(WindowOf(log', ip, clock)) + Cardinality(Verifying(ip)') <= Bound
      <3>1. Cardinality(WindowOf(log, ip, clock)) + Cardinality(Verifying(ip)) <= Bound
        BY DEF FailuresFit
      <3>2. Verifying(ip)' \subseteq Verifying(ip) \ {t}
        BY <1>3, <1>7, <2>1
      <3>3. Cardinality(WindowOf(log', ip, clock)) \in Nat
        BY <2>3, Windows
      <3>4. /\ Cardinality(WindowOf(log, ip, clock)) \in Nat
            /\ Cardinality(Verifying(ip)) \in Nat /\ Cardinality(Verifying(ip)') \in Nat
        BY <1>1, <1>4, <1>6
      <3>5. CASE ip = call[t].ip
        <4>1. t \in Verifying(ip)
          BY <2>1, <3>5 DEF Verifying
        <4>2. Cardinality(Verifying(ip)') + 1 <= Cardinality(Verifying(ip))
          BY <1>5, <3>2, <4>1, Counted
        <4>3. Cardinality(WindowOf(log', ip, clock)) <= Cardinality(WindowOf(log, ip, clock)) + 1
          BY <1>1, <2>1, <2>2, OneMore
        <4> QED
          BY <1>2, <3>1, <3>3, <3>4, <4>2, <4>3
      <3>6. CASE ip # call[t].ip
        <4>1. WindowOf(log', ip, clock) = WindowOf(log, ip, clock)
          BY <1>1, <2>1, <2>2, <2>3, <3>6, OneMore
        <4>2. Cardinality(Verifying(ip)') <= Cardinality(Verifying(ip))
          BY <1>5, <3>2, Counted
        <4> QED
          BY <1>2, <3>1, <3>4, <4>1, <4>2
      <3> QED
        BY <3>5, <3>6
    <2>5. ASSUME NEW ip \in Ip, NEW at \in 0..clock
          PROVE  Cardinality(WindowOf(log', ip, at)) <= Bound
      <3>1. CASE at = clock
        <4>1. Cardinality(WindowOf(log', ip, clock)) \in Nat
          BY <2>3, Windows
        <4> QED
          BY <1>2, <1>6, <2>4, <3>1, <4>1
      <3>2. CASE at # clock
        <4>1. WindowOf(log', ip, at) = WindowOf(log, ip, at)
          <5>1. at \in Nat /\ ~(a.at <= at)
            BY <1>1, <2>3, <3>2
          <5> QED
            BY <1>1, <2>1, <2>2, <5>1, OneMore
        <4> QED
          BY <4>1 DEF FailuresFit
      <3> QED
        BY <3>1, <3>2
    <2>6. Bound' = Bound
      BY DEF Bound
    <2> QED
      BY <2>1, <2>4, <2>5, <2>6 DEF FailuresFit
  <1>10. ASSUME NEW t \in Thread, NEW c \in Handled, Become(t, c), c.pc # "verify",
                UNCHANGED <<log, clock>>
         PROVE  FailuresFit'
    BY <1>7, <1>10, FailuresKept
  <1>11. ASSUME NEW t \in Thread, NEW ip \in Ip, NEW n \in Name, Register(t, ip, n)
         PROVE  FailuresFit'
    <2>1. [pc |-> "lock", ip |-> ip, at |-> clock, name |-> n] \in Handled
      BY DEF Handled, RateTypeOK
    <2> QED
      BY <1>10, <1>11, <2>1 DEF Register
  <1>12. ASSUME NEW t \in Thread,
                \/ RightPassword(t) \/ CheckAndHit(t) \/ TooShort(t) \/ NameTaken(t)
                \/ NameFree(t) \/ InsertAccount(t)
         PROVE  FailuresFit'
    <2>1. call[t] \in Handled
      BY <1>1
    <2>2. /\ [call[t] EXCEPT !.pc = "name"] \in Handled
          /\ [call[t] EXCEPT !.pc = "insert"] \in Handled
          /\ [call[t] EXCEPT !.pc = "name"].pc = "name"
          /\ [call[t] EXCEPT !.pc = "insert"].pc = "insert"
      BY <2>1 DEF Handled
    <2>3. /\ UNCHANGED <<log, clock>>
          /\ \/ Become(t, AtRest)
             \/ Become(t, [call[t] EXCEPT !.pc = "name"])
             \/ Become(t, [call[t] EXCEPT !.pc = "insert"])
      BY <1>12 DEF RightPassword, CheckAndHit, Refuse, Admit, TooShort, NameTaken, NameFree,
                   InsertAccount
    <2> QED
      BY <1>3, <1>10, <2>2, <2>3
  <1>13. CASE UpdateSetting \/ UNCHANGED rateVars
    <2>1. UNCHANGED <<log, clock, call>>
      BY <1>13 DEF UpdateSetting, rateVars
    <2>2. \A ip \in Ip : Verifying(ip)' = Verifying(ip)
      BY <2>1 DEF Verifying
    <2> QED
      BY <2>1, <2>2, FailuresKept
  <1>14. CASE RateTick
    <2>1. clock' = clock + 1 /\ UNCHANGED <<log, call>>
      BY <1>14 DEF RateTick
    <2>2. ASSUME NEW ip \in Ip
          PROVE  /\ Cardinality(WindowOf(log, ip, clock + 1))
                      <= Cardinality(WindowOf(log, ip, clock))
                 /\ Verifying(ip)' = Verifying(ip)
      <3>1. WindowOf(log, ip, clock + 1) \subseteq WindowOf(log, ip, clock)
        <4>1. \A k \in DOMAIN log : log[k].at \in Nat /\ log[k].at <= clock
          BY <1>1, Stamps DEF PastOnly
        <4> QED
          BY <1>1, <4>1 DEF WindowOf, RateAssumption
      <3>2. Verifying(ip)' = Verifying(ip)
        BY <2>1 DEF Verifying
      <3>3. IsFiniteSet(WindowOf(log, ip, clock))
        BY <1>1, <1>4
      <3>4. Cardinality(WindowOf(log, ip, clock + 1)) <= Cardinality(WindowOf(log, ip, clock))
        BY <3>1, <3>3, APart, Zenon
      <3> QED
        BY <3>2, <3>4
    <2>3. ASSUME NEW ip \in Ip
          PROVE  /\ Cardinality(WindowOf(log, ip, clock + 1)) + Cardinality(Verifying(ip)') <= Bound
                 /\ Cardinality(WindowOf(log, ip, clock + 1)) <= Bound
      <3>1. Cardinality(WindowOf(log, ip, clock)) + Cardinality(Verifying(ip)) <= Bound
        BY DEF FailuresFit
      <3>2. /\ Cardinality(WindowOf(log, ip, clock)) \in Nat
            /\ Cardinality(WindowOf(log, ip, clock + 1)) \in Nat
        BY <1>1, <1>4
      <3> QED
        BY <1>2, <1>6, <2>2, <3>1, <3>2
    <2>4. ASSUME NEW ip \in Ip, NEW at \in 0..clock + 1
          PROVE  Cardinality(WindowOf(log, ip, at)) <= Bound
      <3>1. at = clock + 1 \/ at \in 0..clock
        BY <1>1
      <3> QED
        BY <2>3, <3>1 DEF FailuresFit
    <2>5. Bound' = Bound
      BY DEF Bound
    <2> QED
      BY <2>1, <2>3, <2>4, <2>5 DEF FailuresFit
  <1>15. CASE Restart
    <2>1. UNCHANGED <<log, clock>> /\ \A t \in Thread : call'[t].pc = "idle"
      BY <1>3, <1>15 DEF Restart
    <2>2. \A ip \in Ip : Verifying(ip)' = {}
      BY <2>1 DEF Verifying
    <2> QED
      BY <2>1, <2>2, FailuresKept
  <1> QED
    BY <1>8, <1>9, <1>11, <1>12, <1>13, <1>14, <1>15 DEF RateNext

(* While nothing is admitted or pruned, the admissions fit as long as      *)
(* nobody who waits for the lock has an earlier time than the others.      *)
LEMMA AdmissionsKept ==
    ASSUME RateAssumption, RateTypeOK, AdmissionsFit, UNCHANGED <<hits, admitted, clock>>,
           \A ip \in Ip : \A at \in 0..clock :
              at < clock => Late(ip, at)' \subseteq Late(ip, at)
    PROVE  AdmissionsFit'
  <1> SUFFICES ASSUME NEW ip \in Ip, NEW at \in 0..clock
               PROVE  Remembered(ip, at)' \/ Forgotten(ip, at)'
    BY DEF AdmissionsFit
  <1>1. CASE Remembered(ip, at)
    BY <1>1 DEF Remembered, WindowOf
  <1>2. CASE Forgotten(ip, at)
    <2>1. at < clock /\ Cardinality(WindowOf(admitted, ip, at)) + Cardinality(Late(ip, at)) <= Bound
      BY <1>2 DEF Forgotten
    <2>2. Late(ip, at) \in SUBSET Thread /\ Late(ip, at)' \subseteq Late(ip, at)
      BY <2>1 DEF Late
    <2>3. /\ Cardinality(Late(ip, at)') <= Cardinality(Late(ip, at))
          /\ Cardinality(Late(ip, at)) \in Nat /\ Bound \in Nat
      BY <2>2, Counted
    <2>4. Late(ip, at)' \in SUBSET Thread
      BY <2>2
    <2>5. Cardinality(Late(ip, at)') \in Nat
      BY <2>4, Counted
    <2>6. Cardinality(WindowOf(admitted, ip, at)) \in Nat
      BY Windows DEF RateTypeOK, HistoriesOK
    <2>7. Cardinality(WindowOf(admitted, ip, at)) + Cardinality(Late(ip, at)') <= Bound
      BY <2>1, <2>3, <2>5, <2>6
    <2> QED
      BY <2>1, <2>7 DEF Forgotten, Bound, WindowOf
  <1> QED
    BY <1>1, <1>2 DEF AdmissionsFit

(* A check keeps every window remembered, or it is the one that forgets:   *)
(* then the window holds Limit admissions at most, and whoever may still   *)
(* add to it is one of the other threads.                                  *)
LEMMA CheckFits ==
    ASSUME RateAssumption, RateTypeOK, PastOnly, AdmissionsFit, NEW t \in Thread, CheckAndHit(t),
           NEW ip \in Ip, NEW at \in 0..clock
    PROVE  Remembered(ip, at)' \/ Forgotten(ip, at)'
  <1> DEFINE here == call[t].ip
             stamp == call[t].at
             kept == Pruned(here, stamp)
             nr == Len(admitted) + 1
             a == [ip |-> here, at |-> stamp]
  <1>1. /\ here \in Ip /\ stamp \in Nat /\ stamp <= clock /\ call[t].pc = "lock"
        /\ call[t] \in Handled /\ clock' = clock
    <2>1. call[t] \in Handled
      BY CheckMoves
    <2> QED
      BY <2>1, CheckMoves, Stamps DEF PastOnly
  <1>2. /\ admitted \in Seq(Attempt) /\ a \in Attempt /\ clock \in Nat /\ at \in Nat
        /\ call \in [Thread -> Handled] /\ Window \in Nat
    <2>1. a \in Attempt
      BY CheckMoves DEF Attempt
    <2> QED
      BY <2>1 DEF RateTypeOK, HistoriesOK, CallsOK, RateAssumption
  <1>3. \/ hits' = [hits EXCEPT ![here] = kept] /\ admitted' = admitted
        \/ hits' = [hits EXCEPT ![here] = kept \cup {nr}] /\ admitted' = Append(admitted, a)
    BY CheckMoves
  <1>4. DOMAIN hits = Ip /\ \A q \in Ip \ {here} : hits'[q] = hits[q]
    BY <1>1, <1>3 DEF RateTypeOK, ListsOK
  <1>5. /\ kept \subseteq hits[here] /\ hits'[here] \in {kept, kept \cup {nr}}
        /\ IsFiniteSet(hits[here]) /\ Cardinality(hits[here]) <= Limit
    BY <1>1, <1>3, <1>4, PrunedFits DEF RateTypeOK, ListsOK
  <1>6. Late(ip, at)' \subseteq Late(ip, at) \ {t}
    <2>1. /\ AtRest \in Handled /\ [call[t] EXCEPT !.pc = "name"] \in Handled
          /\ AtRest.pc # "lock" /\ [call[t] EXCEPT !.pc = "name"].pc # "lock"
      BY <1>1, CallTypes DEF Handled
    <2>2. Become(t, AtRest) \/ Become(t, [call[t] EXCEPT !.pc = "name"])
      BY CheckMoves
    <2>3. call'[t].pc # "lock" /\ \A u \in Thread \ {t} : call'[u] = call[u]
      BY <1>2, <2>1, <2>2, ThreadMoves
    <2> QED
      BY <2>3 DEF Late
  <1>7. /\ Late(ip, at) \in SUBSET Thread /\ Late(ip, at)' \in SUBSET (Thread \ {t})
        /\ Late(ip, at)' \in SUBSET Thread
    BY <1>6 DEF Late
  <1>8. /\ Bound \in Nat /\ Bound = Limit + Cardinality(Thread) - 1 /\ Limit \in Nat
        /\ Cardinality(Late(ip, at)) \in Nat /\ Cardinality(Late(ip, at)') \in Nat
        /\ Cardinality(Late(ip, at)') <= Cardinality(Late(ip, at))
        /\ Cardinality(Late(ip, at)') + 1 <= Cardinality(Thread)
        /\ Cardinality(Thread) \in Nat
    BY <1>6, <1>7, Counted DEF Bound, RateAssumption
  <1> DEFINE W == WindowOf(admitted, ip, at)
             New == WindowOf(admitted', ip, at)
  <1>9. IsFiniteSet(W) /\ Cardinality(W) \in Nat /\ W \subseteq DOMAIN admitted
    BY <1>2, Windows DEF WindowOf
  <1>10. admitted' \in Seq(Attempt) /\ Cardinality(New) \in Nat
    <2>1. admitted' \in Seq(Attempt)
      BY <1>2, <1>3, Histories
    <2> QED
      BY <2>1, Windows
  <1>11. /\ Cardinality(New) <= Cardinality(W) + 1
         /\ ~(here = ip /\ stamp <= at) => New = W
         /\ New = W \/ (New = W \cup {nr} /\ hits'[here] = kept \cup {nr})
    <2>1. CASE admitted' = admitted
      <3>1. New = W
        BY <2>1
      <3> HIDE DEF W, New
      <3> QED
        BY <1>9, <3>1
    <2>2. CASE hits' = [hits EXCEPT ![here] = kept \cup {nr}] /\ admitted' = Append(admitted, a)
      <3>1. hits'[here] = kept \cup {nr}
        BY <1>1, <1>4, <2>2
      <3>2. a.ip = here /\ a.at = stamp
        OBVIOUS
      <3>3. New = IF a.ip = ip /\ a.at <= at /\ a.at + Window > at THEN W \cup {nr} ELSE W
        BY <1>2, <2>2, Appended
      <3>4. Cardinality(New) <= Cardinality(W) + 1
        BY <1>2, <2>2, OneMore
      <3> HIDE DEF a, W, New, kept, nr
      <3> QED
        BY <3>1, <3>2, <3>3, <3>4
    <2> QED
      BY <1>3, <2>1, <2>2
  <1>12. /\ Remembered(ip, at) <=> W \subseteq hits[ip]
         /\ Remembered(ip, at)' <=> New \subseteq hits'[ip]
         /\ Forgotten(ip, at) <=> at < clock /\ Cardinality(W) + Cardinality(Late(ip, at)) <= Bound
         /\ Forgotten(ip, at)' <=>
              at < clock /\ Cardinality(New) + Cardinality(Late(ip, at)') <= Bound
    BY <1>1 DEF Remembered, Forgotten, WindowOf, Bound
  <1>13. ASSUME here = ip, Remembered(ip, at), stamp <= at PROVE Remembered(ip, at)'
    <2>1. W \subseteq kept
      <3>1. \A k \in W : k \in hits[here] /\ admitted[k].at + Window > at /\ admitted[k].at \in Nat
        BY <1>2, <1>9, <1>12, <1>13, Stamps DEF WindowOf
      <3>2. \A k \in W : admitted[k].at + Window > stamp
        BY <1>1, <1>2, <1>13, <3>1
      <3> QED
        BY <3>1, <3>2 DEF Pruned
    <2> QED
      BY <1>5, <1>11, <1>12, <1>13, <2>1
  <1>14. ASSUME here = ip, Remembered(ip, at), at < stamp PROVE Forgotten(ip, at)'
    <2>1. New = W /\ at < clock
      BY <1>1, <1>2, <1>11, <1>14
    <2>2. Cardinality(W) <= Cardinality(hits[here]) /\ Cardinality(hits[here]) \in Nat
      BY <1>5, <1>12, <1>14, APart, Zenon
    <2>3. Cardinality(W) <= Limit
      BY <1>5, <1>8, <1>9, <2>2
    <2>4. Cardinality(New) + Cardinality(Late(ip, at)') <= Bound
      BY <1>8, <1>9, <2>1, <2>3
    <2> QED
      BY <1>12, <2>1, <2>4
  <1>15. ASSUME here # ip, Remembered(ip, at) PROVE Remembered(ip, at)'
    BY <1>4, <1>11, <1>12, <1>15
  <1>16. ASSUME Forgotten(ip, at) PROVE Forgotten(ip, at)'
    <2>1. at < clock /\ Cardinality(W) + Cardinality(Late(ip, at)) <= Bound
      BY <1>12, <1>16
    <2>2. CASE New = W
      BY <1>8, <1>9, <1>12, <2>1, <2>2
    <2>3. CASE here = ip /\ stamp <= at
      <3>1. t \in Late(ip, at)
        BY <1>1, <2>3 DEF Late
      <3>2. Cardinality(Late(ip, at)') + 1 <= Cardinality(Late(ip, at))
        BY <1>6, <1>7, <3>1, Counted
      <3> QED
        BY <1>8, <1>9, <1>10, <1>11, <1>12, <2>1, <3>2
    <2> QED
      BY <1>11, <2>2, <2>3
  <1> QED
    <2>1. Remembered(ip, at) \/ Forgotten(ip, at)
      BY DEF AdmissionsFit
    <2>2. stamp <= at \/ at < stamp
      BY <1>1, <1>2
    <2> QED
      BY <1>13, <1>14, <1>15, <1>16, <2>1, <2>2

(* Every other action leaves the lists alone: a registration is stamped    *)
(* now, later than any window that was forgotten; a tick opens a window    *)
(* that is a part of the last one; a restart empties the history.          *)
LEMMA AdmissionsStep ==
    ASSUME RateAssumption, RateTypeOK, PastOnly, AdmissionsFit, [RateNext]_rateVars
    PROVE  AdmissionsFit'
  <1>1. clock \in Nat /\ call \in [Thread -> Handled] /\ admitted \in Seq(Attempt)
    BY DEF RateTypeOK, HistoriesOK, CallsOK, RateAssumption
  <1>2. ASSUME NEW t \in Thread, NEW c \in Handled, Become(t, c), c.pc = "lock" => c.at = clock,
               UNCHANGED <<hits, admitted, clock>>
        PROVE  AdmissionsFit'
    <2>1. call'[t] = c /\ \A u \in Thread \ {t} : call'[u] = call[u]
      BY <1>1, <1>2, ThreadMoves
    <2>2. \A ip \in Ip : \A at \in 0..clock : at < clock => Late(ip, at)' \subseteq Late(ip, at)
      BY <1>1, <1>2, <2>1 DEF Late
    <2> QED
      BY <1>2, <2>2, AdmissionsKept
  <1>3. ASSUME UNCHANGED <<hits, admitted, clock, call>> PROVE AdmissionsFit'
    <2>1. \A ip \in Ip : \A at \in 0..clock : Late(ip, at)' = Late(ip, at)
      BY <1>3 DEF Late
    <2> QED
      BY <1>3, <2>1, AdmissionsKept
  <1>4. AtRest \in Handled /\ AtRest.pc = "idle"
    BY CallTypes
  <1>5. ASSUME NEW t \in Thread, NEW ip \in Ip, Login(t, ip) PROVE AdmissionsFit'
    <2>1. UNCHANGED <<hits, admitted, clock>>
      BY <1>5 DEF Login
    <2>2. CASE UNCHANGED call
      BY <1>3, <2>1, <2>2
    <2>3. CASE Become(t, [AtRest EXCEPT !.pc = "verify", !.ip = ip])
      <3> DEFINE c == [AtRest EXCEPT !.pc = "verify", !.ip = ip]
      <3>1. c \in Handled /\ c.pc = "verify"
        BY CallTypes
      <3> HIDE DEF c
      <3> QED
        BY <1>2, <2>1, <2>3, <3>1 DEF c
    <2> QED
      BY <1>5, <2>2, <2>3 DEF Login
  <1>6. ASSUME NEW t \in Thread, NEW ip \in Ip, NEW n \in Name, Register(t, ip, n)
        PROVE  AdmissionsFit'
    <2> DEFINE c == [pc |-> "lock", ip |-> ip, at |-> clock, name |-> n]
    <2>1. c \in Handled /\ c.at = clock /\ Become(t, c) /\ UNCHANGED <<hits, admitted, clock>>
      BY <1>6 DEF Handled, RateTypeOK, Register
    <2> HIDE DEF c
    <2> QED
      BY <1>2, <2>1
  <1>7. ASSUME NEW t \in Thread, CheckAndHit(t) PROVE AdmissionsFit'
    <2>1. clock' = clock
      BY <1>7, CheckMoves
    <2> QED
      BY <1>7, <2>1, CheckFits DEF AdmissionsFit
  <1>8. ASSUME NEW t \in Thread,
               \/ WrongPassword(t) \/ RightPassword(t)
               \/ TooShort(t) \/ NameTaken(t) \/ InsertAccount(t)
        PROVE  AdmissionsFit'
    <2>1. Become(t, AtRest) /\ UNCHANGED <<hits, admitted, clock>>
      BY <1>8 DEF WrongPassword, RightPassword, TooShort, NameTaken, InsertAccount
    <2> QED
      BY <1>2, <1>4, <2>1
  <1>9. ASSUME NEW t \in Thread, NameFree(t) PROVE AdmissionsFit'
    <2> DEFINE c == [call[t] EXCEPT !.pc = "insert"]
    <2>1. call[t] \in Handled
      BY <1>1
    <2>2. c \in Handled /\ c.pc = "insert"
      BY <2>1 DEF Handled
    <2>3. Become(t, c) /\ UNCHANGED <<hits, admitted, clock>>
      BY <1>9 DEF NameFree
    <2> HIDE DEF c
    <2> QED
      BY <1>2, <2>2, <2>3
  <1>10. CASE UpdateSetting \/ UNCHANGED rateVars
    BY <1>3, <1>10 DEF UpdateSetting, rateVars
  <1>11. CASE RateTick
    <2>1. clock' = clock + 1 /\ UNCHANGED <<hits, admitted, call>>
      BY <1>11 DEF RateTick
    <2>2. ASSUME NEW ip \in Ip, NEW at \in 0..clock'
          PROVE  Remembered(ip, at)' \/ Forgotten(ip, at)'
      <3>1. CASE at \in 0..clock
        <4>1. Remembered(ip, at) \/ Forgotten(ip, at)
          BY <3>1 DEF AdmissionsFit
        <4>2. CASE Remembered(ip, at)
          BY <2>1, <4>2 DEF Remembered, WindowOf
        <4>3. CASE Forgotten(ip, at)
          <5>1. at < clock'
            BY <1>1, <2>1, <3>1
          <5> QED
            BY <2>1, <4>3, <5>1 DEF Forgotten, WindowOf, Late, Bound
        <4> QED
          BY <4>1, <4>2, <4>3
      <3>2. CASE at = clock + 1
        <4>1. Remembered(ip, clock)
          BY <1>1 DEF AdmissionsFit, Forgotten
        <4>2. \A k \in DOMAIN admitted : admitted[k].at \in Nat /\ admitted[k].at <= clock
          BY <1>1, Stamps DEF PastOnly
        <4>3. WindowOf(admitted, ip, at) \subseteq WindowOf(admitted, ip, clock)
          BY <1>1, <3>2, <4>2 DEF WindowOf, RateAssumption
        <4> QED
          BY <2>1, <4>1, <4>3 DEF Remembered, WindowOf
      <3> QED
        BY <1>1, <2>1, <3>1, <3>2
    <2> QED
      BY <2>2 DEF AdmissionsFit
  <1>12. CASE Restart
    <2>1. admitted' = <<>>
      BY <1>12 DEF Restart
    <2>2. \A ip, at : WindowOf(admitted, ip, at)' = {}
      BY <2>1 DEF WindowOf
    <2> QED
      BY <2>2 DEF AdmissionsFit, Remembered
  <1> QED
    BY <1>5, <1>6, <1>7, <1>8, <1>9, <1>10, <1>11, <1>12 DEF RateNext

(* The invariant holds of every state of a behaviour.                      *)
LEMMA RateIInvAlways == ASSUME RateAssumption PROVE RateSpec => []RateIInv
  <1>1. RateInit => RateIInv
    BY InitRateIInv
  <1>2. RateIInv /\ [RateNext]_rateVars => RateIInv'
    BY RateTypeStep, PastStep, FailuresStep, AdmissionsStep DEF RateIInv
  <1> QED
    BY <1>1, <1>2, PTL DEF RateSpec

(* A window that is remembered holds no more than the list may, one that   *)
(* is forgotten no more than the bound.                                    *)
LEMMA AttemptsFit == ASSUME RateAssumption, RateIInv PROVE AttemptsBounded
  <1> SUFFICES ASSUME NEW ip \in Ip, NEW at \in 0..clock
               PROVE  /\ Cardinality(WindowOf(log, ip, at)) <= Bound
                      /\ Cardinality(WindowOf(admitted, ip, at)) <= Bound
    BY DEF AttemptsBounded, Bound
  <1>1. Cardinality(WindowOf(log, ip, at)) <= Bound
    BY DEF RateIInv, FailuresFit
  <1> DEFINE W == WindowOf(admitted, ip, at)
  <1>2. Bound \in Nat /\ Limit <= Bound /\ Limit \in Nat
    BY Counted DEF RateAssumption
  <1>3. Cardinality(W) \in Nat
    BY Windows DEF RateIInv, RateTypeOK, HistoriesOK
  <1>4. CASE Remembered(ip, at)
    <2>1. /\ W \subseteq hits[ip] /\ IsFiniteSet(hits[ip]) /\ Cardinality(hits[ip]) <= Limit
      BY <1>4, PrunedFits DEF Remembered, RateIInv, RateTypeOK, ListsOK
    <2>2. Cardinality(W) <= Cardinality(hits[ip]) /\ Cardinality(hits[ip]) \in Nat
      BY <2>1, APart, Zenon
    <2>3. Cardinality(W) <= Bound
      BY <1>2, <1>3, <2>1, <2>2
    <2> QED
      BY <1>1, <2>3
  <1>5. CASE Forgotten(ip, at)
    <2>1. Cardinality(W) + Cardinality(Late(ip, at)) <= Bound
      BY <1>5 DEF Forgotten
    <2>2. Late(ip, at) \in SUBSET Thread
      BY DEF Late
    <2>3. Cardinality(Late(ip, at)) \in Nat
      BY <2>2, Counted
    <2>4. Cardinality(W) <= Bound
      BY <1>2, <1>3, <2>1, <2>3
    <2> QED
      BY <1>1, <2>4
  <1> QED
    BY <1>4, <1>5 DEF RateIInv, AdmissionsFit

(* No window of an address holds more failed logins, or registrations,     *)
(* than the limit and the requests of the other threads.                   *)
THEOREM AttemptsBoundedAlways == ASSUME RateAssumption PROVE RateSpec => []AttemptsBounded
  <1>1. RateIInv => AttemptsBounded
    BY AttemptsFit
  <1> QED
    BY <1>1, RateIInvAlways, PTL

(* The state of the limits keeps its types.                                *)
THEOREM RateTypesAlways == ASSUME RateAssumption PROVE RateSpec => []RateTypeOK
  <1>1. RateIInv => RateTypeOK
    BY DEF RateIInv
  <1> QED
    BY <1>1, RateIInvAlways, PTL

(* Whoever is refused is refused for the attempts that were counted, and   *)
(* each of them was let through.                                           *)
LEMMA RefusedStep ==
    ASSUME RateAssumption, RateTypeOK, [RateNext]_rateVars PROVE Earned
  <1>1. SUFFICES ASSUME refused' # refused PROVE Earned
    BY DEF Earned
  <1>2. ASSUME NEW t \in Thread, NEW ip \in Ip, Login(t, ip) PROVE Earned
    <2>1. /\ Failures(ip) >= Limit
          /\ refused' = <<[by |-> "login", ip |-> ip, at |-> clock]>>
      BY <1>1, <1>2 DEF Login
    <2>2. refused'[1] = [by |-> "login", ip |-> ip, at |-> clock]
      BY <2>1
    <2> QED
      BY <2>1, <2>2 DEF Earned, Failures
  <1>3. ASSUME NEW t \in Thread, CheckAndHit(t) PROVE Earned
    <2> DEFINE ip == call[t].ip
               at == call[t].at
               E == {k \in DOMAIN admitted : admitted[k].ip = ip /\ admitted[k].at + Window > at}
    <2>1. /\ ip \in Ip /\ Cardinality(Pruned(ip, at)) >= Limit
          /\ refused' = <<[by |-> "register", ip |-> ip, at |-> at]>>
      BY <1>1, <1>3, CheckMoves
    <2>2. Pruned(ip, at) \subseteq E
      BY <2>1 DEF Pruned, RateTypeOK, ListsOK
    <2>3. IsFiniteSet(E) /\ Cardinality(Pruned(ip, at)) \in Nat
      <3>1. E \subseteq 1..Len(admitted) /\ IsFiniteSet(1..Len(admitted))
        BY FS_Interval DEF RateTypeOK, HistoriesOK
      <3>2. IsFiniteSet(E)
        BY <3>1, APart, Zenon
      <3>3. Cardinality(Pruned(ip, at)) \in Nat
        BY <2>1, PrunedFits
      <3> QED
        BY <3>2, <3>3
    <2>4. Cardinality(E) \in Nat /\ Cardinality(Pruned(ip, at)) <= Cardinality(E)
      <3> HIDE DEF E
      <3> QED
        BY <2>2, <2>3, APart, Zenon
    <2>5. Cardinality(E) >= Limit
      <3> HIDE DEF E
      <3> QED
        BY <2>1, <2>3, <2>4 DEF RateAssumption
    <2>6. refused'[1] = [by |-> "register", ip |-> ip, at |-> at]
      BY <2>1
    <2> QED
      BY <2>5, <2>6 DEF Earned
  <1>4. ASSUME NEW t \in Thread, NEW ip \in Ip, NEW n \in Name, Register(t, ip, n) PROVE FALSE
    BY <1>1, <1>4 DEF Register
  <1>5. ASSUME NEW t \in Thread,
               \/ WrongPassword(t) \/ RightPassword(t) \/ TooShort(t) \/ NameTaken(t)
               \/ NameFree(t) \/ InsertAccount(t)
        PROVE  FALSE
    BY <1>1, <1>5 DEF WrongPassword, RightPassword, TooShort, NameTaken, NameFree, InsertAccount
  <1>6. ~(UpdateSetting \/ RateTick \/ Restart \/ UNCHANGED rateVars)
    BY <1>1 DEF UpdateSetting, RateTick, Restart, rateVars
  <1> QED
    BY <1>2, <1>3, <1>4, <1>5, <1>6 DEF RateNext

(* Nobody is refused but for attempts that were let through.               *)
THEOREM RefusalIsEarnedAlways == ASSUME RateAssumption PROVE RateSpec => RefusalIsEarned
  <1>1. RateTypeOK /\ [RateNext]_rateVars => [Earned]_rateVars
    BY RefusedStep
  <1> QED
    BY <1>1, RateTypesAlways, PTL DEF RateSpec, RefusalIsEarned

-----------------------------------------------------------------------------
(***************************************************************************)
(* A stopped stream is booked as stopped, a lost one as lost, for any      *)
(* number of streams and users and any lifetime of a mark.                 *)
(*                                                                         *)
(* The property compares what the browser did with what is booked; between *)
(* them stands the mark.  A mark of a stream's own user was posted by its  *)
(* browser then (MarksAreTrue), and who stopped a stream a short while ago *)
(* still has the mark, unless the stream took it or another user's stands  *)
(* in its place (YoungMarksStay).                                          *)
(***************************************************************************)
Posted(s) == tab[s].at \in {"stopping", "gone"} /\ tab[s].posted <= Horizon

MarksAreTrue ==
    \A s \in DOMAIN marks :
        marks[s].user = flow[s].user => Posted(s) /\ marks[s].at = tab[s].posted

YoungMarksStay ==
    \A s \in Stream :
        Posted(s) /\ tick <= tab[s].posted + MarkTTL /\ flow[s].pc # "cut"
        => s \in DOMAIN marks /\ marks[s].user = flow[s].user

StreamIInv == StreamTypeOK /\ MarksAreTrue /\ YoungMarksStay

Unmoved == UNCHANGED <<tab, marks, tick>>

Why(s) == IF s \in DOMAIN marks /\ marks[s].user = flow[s].user
          THEN "user stop" ELSE "disconnected"

-----------------------------------------------------------------------------
(* What may be booked of a stream.                                         *)
LEMMA Rows ==
    /\ NoRow \in Row /\ [ok |-> TRUE, error |-> "none"] \in Row
    /\ \A why \in {"user stop", "disconnected"} : [ok |-> FALSE, error |-> why] \in Row
  BY DEF Row, NoRow

(* No stream has begun and nobody has stopped one.                         *)
LEMMA InitStreamIInv == ASSUME StreamAssumption PROVE StreamInit => StreamIInv
  <1> SUFFICES ASSUME StreamInit PROVE StreamIInv
    OBVIOUS
  <1>1. DOMAIN marks = {} /\ \A s \in Stream : tab[s] = [at |-> "chat", posted |-> 0]
    BY DEF StreamInit
  <1>2. flow \in [Stream -> Flow]
    <2>1. flow \in [Stream -> [pc : {"new"}, user : Account, usage : {FALSE}, row : {NoRow},
                               suggested : {"no"}]]
      BY DEF StreamInit
    <2>2. ASSUME NEW s \in Stream PROVE flow[s] \in Flow
      BY <2>1, Rows DEF Flow
    <2> QED
      BY <2>1, <2>2
  <1>3. tab \in [Stream -> Tab] /\ tick \in 0..Horizon
    BY DEF StreamInit, Tab, StreamAssumption
  <1>4. StreamTypeOK
    BY <1>1, <1>2, <1>3 DEF StreamTypeOK
  <1>5. MarksAreTrue /\ YoungMarksStay
    BY <1>1 DEF MarksAreTrue, YoungMarksStay, Posted
  <1> QED
    BY <1>4, <1>5 DEF StreamIInv

(* The clock and the browsers' posts are instants.                         *)
LEMMA Instants ==
    ASSUME StreamAssumption, StreamTypeOK
    PROVE  tick \in 0..Horizon /\ tick \in Nat /\ \A s \in Stream : tab[s].posted \in Nat
  BY DEF StreamAssumption, StreamTypeOK, Tab

(* One stream moves: the others stay as they are.                          *)
LEMMA OneMoves ==
    ASSUME flow \in [Stream -> Flow], NEW s \in Stream, NEW f \in Flow,
           flow' = [flow EXCEPT ![s] = f]
    PROVE  /\ flow' \in [Stream -> Flow] /\ flow'[s] = f
           /\ \A r \in Stream \ {s} : flow'[r] = flow[r]
  OBVIOUS

(* The server moves a stream: its user stays, a cut stream does not move,  *)
(* and a row it books is one of success.                                   *)
LEMMA ServerMove ==
    ASSUME flow \in [Stream -> Flow], NEW s \in Stream,
           Chat(s) \/ Decided(s) \/ Relay(s) \/ End(s) \/ Closed(s) \/ Suggest(s)
    PROVE  /\ Unmoved /\ flow[s].pc # "cut"
           /\ \E f \in Flow : /\ flow' = [flow EXCEPT ![s] = f] /\ f.user = flow[s].user
                              /\ f.row \in {flow[s].row, NoRow, [ok |-> TRUE, error |-> "none"]}
  <1>1. Unmoved /\ flow[s].pc # "cut"
    BY DEF Chat, Decided, Relay, End, Closed, Suggest, Unmoved
  <1>2. flow[s] \in Flow
    OBVIOUS
  <1>3. ASSUME NEW pc \in {"approval", "open", "refused"}, flow' = [flow EXCEPT ![s].pc = pc]
        PROVE  \E f \in Flow : /\ flow' = [flow EXCEPT ![s] = f] /\ f.user = flow[s].user
                               /\ f.row = flow[s].row
    <2> DEFINE f == [flow[s] EXCEPT !.pc = pc]
    <2>1. f \in Flow /\ f.user = flow[s].user /\ f.row = flow[s].row
      BY <1>2 DEF Flow
    <2>2. flow' = [flow EXCEPT ![s] = f]
      BY <1>3
    <2> QED
      BY <2>1, <2>2
  <1>4. CASE Chat(s) \/ Decided(s)
    BY <1>1, <1>3, <1>4 DEF Chat, Decided
  <1>5. CASE Relay(s)
    <2>1. PICK pc \in {"open", "sending"}, usage \in {flow[s].usage, TRUE} :
             flow' = [flow EXCEPT ![s].pc = pc, ![s].usage = usage]
      BY <1>5 DEF Relay
    <2> DEFINE f == [flow[s] EXCEPT !.pc = pc, !.usage = usage]
    <2>2. f \in Flow /\ f.user = flow[s].user /\ f.row = flow[s].row
      BY <1>2 DEF Flow
    <2>3. flow' = [flow EXCEPT ![s] = f]
      BY <2>1
    <2> QED
      BY <1>1, <2>2, <2>3
  <1>6. CASE End(s) \/ Closed(s)
    <2>1. PICK pc \in {"ended", "cut"}, row \in {NoRow, [ok |-> TRUE, error |-> "none"]} :
             flow' = [flow EXCEPT ![s].pc = pc, ![s].row = row]
      BY <1>6 DEF End, Closed, Log
    <2> DEFINE f == [flow[s] EXCEPT !.pc = pc, !.row = row]
    <2>2. row \in Row
      BY Rows
    <2>3. f \in Flow /\ f.user = flow[s].user /\ f.row = row
      BY <1>2, <2>2 DEF Flow
    <2>4. flow' = [flow EXCEPT ![s] = f]
      BY <2>1
    <2> QED
      BY <1>1, <2>3, <2>4
  <1>7. CASE Suggest(s)
    <2>1. PICK answer \in {"some", "none"} : flow' = [flow EXCEPT ![s].suggested = answer]
      BY <1>7 DEF Suggest
    <2> DEFINE f == [flow[s] EXCEPT !.suggested = answer]
    <2>2. f \in Flow /\ f.user = flow[s].user /\ f.row = flow[s].row
      BY <1>2 DEF Flow
    <2>3. flow' = [flow EXCEPT ![s] = f]
      BY <2>1
    <2> QED
      BY <1>1, <2>2, <2>3
  <1> QED
    BY <1>4, <1>5, <1>6, <1>7

(* A cancelled stream is booked by its mark, which it takes.               *)
LEMMA CancelledMove ==
    ASSUME flow \in [Stream -> Flow], NEW s \in Stream, Cancelled(s)
    PROVE  \E f \in Flow :
             /\ flow' = [flow EXCEPT ![s] = f] /\ f.user = flow[s].user /\ f.pc = "cut"
             /\ f.row \in {NoRow, [ok |-> FALSE, error |-> Why(s)]}
  <1>1. PICK row \in {NoRow, [ok |-> FALSE, error |-> Why(s)]} :
           flow' = [flow EXCEPT ![s].pc = "cut", ![s].row = row]
    BY DEF Cancelled, Log, Why
  <1> DEFINE f == [flow[s] EXCEPT !.pc = "cut", !.row = row]
  <1>2. Why(s) \in {"user stop", "disconnected"}
    BY DEF Why
  <1>3. row \in Row
    BY <1>2, Rows
  <1>4. f \in Flow /\ f.user = flow[s].user /\ f.row = row /\ f.pc = "cut"
    BY <1>3 DEF Flow
  <1>5. flow' = [flow EXCEPT ![s] = f]
    BY <1>1
  <1> QED
    BY <1>4, <1>5

-----------------------------------------------------------------------------
(* The server moves; the marks stay those of their users.                  *)
LEMMA ServerStep ==
    ASSUME StreamIInv, NEW s \in Stream,
           Chat(s) \/ Decided(s) \/ Relay(s) \/ End(s) \/ Closed(s) \/ Suggest(s)
    PROVE  StreamIInv'
  <1>1. flow \in [Stream -> Flow]
    BY DEF StreamIInv, StreamTypeOK
  <1>2. PICK f \in Flow : flow' = [flow EXCEPT ![s] = f] /\ f.user = flow[s].user
    BY <1>1, ServerMove
  <1>3. Unmoved /\ flow[s].pc # "cut"
    BY <1>1, ServerMove
  <1>4. /\ flow' \in [Stream -> Flow]
        /\ \A r \in Stream : /\ flow'[r].user = flow[r].user
                             /\ flow[r].pc = "cut" => flow'[r].pc = "cut"
    BY <1>1, <1>2, <1>3, OneMoves
  <1>5. StreamTypeOK'
    BY <1>3, <1>4 DEF StreamIInv, StreamTypeOK, Unmoved, Mark, Tab, Flow, Row
  <1>6. MarksAreTrue' /\ YoungMarksStay'
    <2>1. DOMAIN marks \subseteq Stream
      BY DEF StreamIInv, StreamTypeOK
    <2>2. tab' = tab /\ marks' = marks /\ tick' = tick
      BY <1>3 DEF Unmoved
    <2>3. MarksAreTrue'
      <3> SUFFICES ASSUME NEW r \in DOMAIN marks, marks[r].user = flow'[r].user
                   PROVE  Posted(r) /\ marks[r].at = tab[r].posted
        BY <2>2 DEF MarksAreTrue, Posted
      <3> QED
        BY <1>4, <2>1 DEF StreamIInv, MarksAreTrue
    <2>4. YoungMarksStay'
      <3> SUFFICES ASSUME NEW r \in Stream, Posted(r), tick <= tab[r].posted + MarkTTL,
                          flow'[r].pc # "cut"
                   PROVE  r \in DOMAIN marks /\ marks[r].user = flow'[r].user
        BY <2>2 DEF YoungMarksStay, Posted
      <3> QED
        BY <1>4 DEF StreamIInv, YoungMarksStay
    <2> QED
      BY <2>3, <2>4
  <1> QED
    BY <1>5, <1>6 DEF StreamIInv

(* A cancelled stream takes its mark; it will not ask for it again.        *)
LEMMA CancelledStep == ASSUME StreamIInv, NEW s \in Stream, Cancelled(s) PROVE StreamIInv'
  <1>1. flow \in [Stream -> Flow]
    BY DEF StreamIInv, StreamTypeOK
  <1>2. /\ UNCHANGED <<tab, tick>> /\ DOMAIN marks' = DOMAIN marks \ {s}
        /\ \A r \in DOMAIN marks' : marks'[r] = marks[r]
    BY DEF Cancelled, Restrict
  <1>3. PICK f \in Flow : /\ flow' = [flow EXCEPT ![s] = f] /\ f.user = flow[s].user
                          /\ f.pc = "cut"
    BY <1>1, CancelledMove
  <1>4. /\ flow' \in [Stream -> Flow] /\ flow'[s].pc = "cut"
        /\ \A r \in Stream : flow'[r].user = flow[r].user
        /\ \A r \in Stream \ {s} : flow'[r] = flow[r]
    BY <1>1, <1>3, OneMoves
  <1>5. StreamTypeOK'
    BY <1>2, <1>4 DEF StreamIInv, StreamTypeOK, Mark, Tab, Flow, Row
  <1>6. MarksAreTrue'
    BY <1>2, <1>4 DEF StreamIInv, StreamTypeOK, MarksAreTrue, Posted
  <1>7. YoungMarksStay'
    BY <1>2, <1>4 DEF StreamIInv, YoungMarksStay, Posted
  <1> QED
    BY <1>5, <1>6, <1>7 DEF StreamIInv

(* A new mark sweeps away only marks that have outlived their time.        *)
LEMMA StopStep ==
    ASSUME StreamAssumption, StreamIInv, NEW s \in Stream, Stop(s)
    PROVE  StreamIInv'
  <1>1. /\ UNCHANGED <<flow, tick>> /\ DOMAIN marks' = Kept(s) \cup {s}
        /\ marks'[s] = [at |-> tick, user |-> flow[s].user]
        /\ \A r \in Kept(s) \ {s} : marks'[r] = marks[r]
    BY DEF Stop
  <1>2. /\ tab'[s] = [at |-> "stopping", posted |-> tick]
        /\ \A r \in Stream \ {s} : tab'[r] = tab[r]
    BY DEF Stop, StreamIInv, StreamTypeOK
  <1>3. tick \in 0..Horizon /\ tick \in Nat /\ \A r \in Stream : tab[r].posted \in Nat
    BY Instants DEF StreamIInv
  <1>4. StreamTypeOK'
    <2>1. marks'[s] \in Mark
      <3>1. flow[s].user \in Account
        BY DEF StreamIInv, StreamTypeOK, Flow
      <3> QED
        BY <1>1, <1>3, <3>1 DEF Mark
    <2>2. \A r \in DOMAIN marks' : marks'[r] \in Mark
      BY <1>1, <2>1 DEF StreamIInv, StreamTypeOK, Kept
    <2>3. DOMAIN marks' \subseteq Stream
      BY <1>1 DEF StreamIInv, StreamTypeOK, Kept
    <2>4. tab' \in [Stream -> Tab]
      <3>1. tab'[s] \in Tab
        BY <1>2, <1>3 DEF Tab, StreamAssumption
      <3> QED
        BY <1>2, <3>1 DEF Stop, StreamIInv, StreamTypeOK
    <2> QED
      BY <1>1, <2>2, <2>3, <2>4 DEF StreamIInv, StreamTypeOK
  <1>5. MarksAreTrue'
    <2> SUFFICES ASSUME NEW r \in DOMAIN marks', marks'[r].user = flow'[r].user
                 PROVE  Posted(r)' /\ marks'[r].at = tab'[r].posted
      BY DEF MarksAreTrue
    <2>1. CASE r = s
      BY <1>1, <1>2, <1>3, <2>1 DEF Posted
    <2>2. CASE r # s
      BY <1>1, <1>2, <2>2 DEF StreamIInv, StreamTypeOK, MarksAreTrue, Posted, Kept
    <2> QED
      BY <2>1, <2>2
  <1>6. YoungMarksStay'
    <2> SUFFICES ASSUME NEW r \in Stream, r # s, Posted(r),
                        tick <= tab[r].posted + MarkTTL, flow[r].pc # "cut"
                 PROVE  r \in DOMAIN marks' /\ marks'[r].user = flow[r].user
      BY <1>1, <1>2 DEF YoungMarksStay, Posted
    <2>1. r \in DOMAIN marks /\ marks[r].at = tab[r].posted /\ marks[r].user = flow[r].user
      BY DEF StreamIInv, YoungMarksStay, MarksAreTrue
    <2>2. r \in Kept(s)
      BY <1>3, <2>1 DEF Kept, StreamAssumption
    <2> QED
      BY <1>1, <2>1, <2>2
  <1> QED
    BY <1>4, <1>5, <1>6 DEF StreamIInv

(* Another user's mark puts that of the stream's own user aside, which no  *)
(* longer stands; the marks it sweeps away have outlived their time.       *)
LEMMA StopOtherStep ==
    ASSUME StreamAssumption, StreamIInv, NEW s \in Stream, NEW u \in Account, StopOther(s, u)
    PROVE  StreamIInv'
  <1>1. /\ UNCHANGED <<flow, tick>> /\ DOMAIN marks' = Kept(s) \cup {s}
        /\ marks'[s] = [at |-> tick, user |-> u] /\ u # flow[s].user
        /\ \A r \in Kept(s) \ {s} : marks'[r] = marks[r]
    BY DEF StopOther
  <1>2. tick \in 0..Horizon /\ tick \in Nat /\ \A r \in Stream : tab[r].posted \in Nat
    BY Instants DEF StreamIInv
  <1>3. /\ tab' \in [Stream -> Tab] /\ tab'[s].posted = Horizon + 1
        /\ \A r \in Stream \ {s} : tab'[r] = tab[r]
    <2> DEFINE t == [tab[s] EXCEPT !.posted = Horizon + 1]
    <2>1. tab[s] \in Tab /\ tab \in [Stream -> Tab] /\ Horizon + 1 \in 0..(Horizon + 1)
      BY DEF StreamIInv, StreamTypeOK, StreamAssumption
    <2>2. t \in Tab /\ t.posted = Horizon + 1
      BY <2>1 DEF Tab
    <2>3. tab' = [tab EXCEPT ![s] = t]
      BY DEF StopOther
    <2> QED
      BY <2>1, <2>2, <2>3
  <1>4. ~Posted(s)'
    BY <1>3 DEF Posted, StreamAssumption
  <1>5. StreamTypeOK'
    <2>1. marks'[s] \in Mark
      BY <1>1, <1>2 DEF Mark
    <2>2. \A r \in DOMAIN marks' : marks'[r] \in Mark
      BY <1>1, <2>1 DEF StreamIInv, StreamTypeOK, Kept
    <2>3. DOMAIN marks' \subseteq Stream
      BY <1>1 DEF StreamIInv, StreamTypeOK, Kept
    <2> QED
      BY <1>1, <1>3, <2>2, <2>3 DEF StreamIInv, StreamTypeOK
  <1>6. MarksAreTrue'
    <2> SUFFICES ASSUME NEW r \in DOMAIN marks', marks'[r].user = flow'[r].user
                 PROVE  Posted(r)' /\ marks'[r].at = tab'[r].posted
      BY DEF MarksAreTrue
    <2>1. r # s
      BY <1>1
    <2> QED
      BY <1>1, <1>3, <2>1 DEF StreamIInv, StreamTypeOK, MarksAreTrue, Posted, Kept
  <1>7. YoungMarksStay'
    <2> SUFFICES ASSUME NEW r \in Stream, r # s, Posted(r),
                        tick <= tab[r].posted + MarkTTL, flow[r].pc # "cut"
                 PROVE  r \in DOMAIN marks' /\ marks'[r].user = flow[r].user
      BY <1>1, <1>3, <1>4 DEF YoungMarksStay, Posted
    <2>1. r \in DOMAIN marks /\ marks[r].at = tab[r].posted /\ marks[r].user = flow[r].user
      BY DEF StreamIInv, YoungMarksStay, MarksAreTrue
    <2>2. r \in Kept(s)
      BY <1>2, <2>1 DEF Kept, StreamAssumption
    <2> QED
      BY <1>1, <2>1, <2>2
  <1> QED
    BY <1>5, <1>6, <1>7 DEF StreamIInv

(* The browser goes, after its mark or without one.                        *)
LEMMA GoneStep ==
    ASSUME StreamAssumption, StreamIInv, NEW s \in Stream, Abort(s) \/ Leave(s)
    PROVE  StreamIInv'
  <1>1. UNCHANGED <<flow, marks, tick>>
    BY DEF Abort, Leave
  <1>2. /\ tab'[s].at = "gone" /\ \A r \in Stream \ {s} : tab'[r] = tab[r]
        /\ \/ tab[s].at = "stopping" /\ tab'[s].posted = tab[s].posted
           \/ tab[s].at = "chat" /\ tab'[s].posted = Horizon + 1
    <2>1. tab[s] \in Tab /\ tab \in [Stream -> Tab]
      BY DEF StreamIInv, StreamTypeOK
    <2>2. CASE Abort(s)
      BY <2>1, <2>2 DEF Abort, Tab
    <2>3. CASE Leave(s)
      BY <2>1, <2>3 DEF Leave, Tab
    <2> QED
      BY <2>2, <2>3
  <1>3. StreamTypeOK'
    <2>1. tab' \in [Stream -> Tab]
      <3>1. tab[s] \in Tab /\ tab \in [Stream -> Tab]
        BY DEF StreamIInv, StreamTypeOK
      <3>2. CASE Abort(s)
        <4> DEFINE t == [tab[s] EXCEPT !.at = "gone"]
        <4>1. t \in Tab /\ tab' = [tab EXCEPT ![s] = t]
          BY <3>1, <3>2 DEF Abort, Tab
        <4> QED
          BY <3>1, <4>1
      <3>3. CASE Leave(s)
        <4> DEFINE t == [tab[s] EXCEPT !.at = "gone", !.posted = Horizon + 1]
        <4>1. Horizon + 1 \in 0..(Horizon + 1)
          BY DEF StreamAssumption
        <4>2. t \in Tab
          BY <3>1, <4>1 DEF Tab
        <4>3. tab' = [tab EXCEPT ![s] = t]
          BY <3>3 DEF Leave
        <4> QED
          BY <3>1, <4>2, <4>3
      <3> QED
        BY <3>2, <3>3
    <2> QED
      BY <1>1, <2>1 DEF StreamIInv, StreamTypeOK
  <1>4. Posted(s)' => Posted(s) /\ tab'[s].posted = tab[s].posted
    BY <1>2 DEF Posted, StreamAssumption
  <1>5. Posted(s) => Posted(s)'
    BY <1>2 DEF Posted
  <1>6. MarksAreTrue'
    BY <1>1, <1>2, <1>4, <1>5 DEF StreamIInv, StreamTypeOK, MarksAreTrue, Posted
  <1>7. YoungMarksStay'
    BY <1>1, <1>2, <1>4 DEF StreamIInv, YoungMarksStay, Posted
  <1> QED
    BY <1>3, <1>6, <1>7 DEF StreamIInv

(* The clock makes marks old.                                              *)
LEMMA StreamTickStep == ASSUME StreamAssumption, StreamIInv, StreamTick PROVE StreamIInv'
  <1>1. UNCHANGED <<flow, tab, marks>> /\ tick' = tick + 1 /\ tick < Horizon
    BY DEF StreamTick
  <1>2. tick \in Nat /\ \A r \in Stream : tab[r].posted \in Nat
    BY Instants DEF StreamIInv
  <1>3. StreamTypeOK'
    <2>1. tick' \in 0..Horizon
      BY <1>1, <1>2 DEF StreamAssumption
    <2> QED
      BY <1>1, <2>1 DEF StreamIInv, StreamTypeOK
  <1>4. MarksAreTrue'
    BY <1>1 DEF StreamIInv, MarksAreTrue, Posted
  <1>5. YoungMarksStay'
    BY <1>1, <1>2 DEF StreamIInv, YoungMarksStay, Posted, StreamAssumption
  <1> QED
    BY <1>3, <1>4, <1>5 DEF StreamIInv

(* The invariant is inductive.                                             *)
LEMMA NextStreamIInv ==
    ASSUME StreamAssumption, StreamIInv, [StreamNext]_streamVars PROVE StreamIInv'
  <1>1. CASE UNCHANGED streamVars
    BY <1>1 DEF streamVars, StreamIInv, StreamTypeOK, MarksAreTrue, YoungMarksStay, Posted
  <1> QED
    BY <1>1, ServerStep, CancelledStep, StopStep, StopOtherStep, GoneStep, StreamTickStep
    DEF StreamNext

-----------------------------------------------------------------------------
(* Only a cancelled stream is booked as failed, and by its mark.           *)
LEMMA BookedStep ==
    ASSUME StreamAssumption, StreamIInv, [StreamNext]_streamVars, NEW s \in Stream,
           flow[s].row = NoRow, flow'[s].row # NoRow, ~flow'[s].row.ok
    PROVE  LET stopped == tab[s].posted <= Horizon
           IN  /\ stopped /\ tick <= tab[s].posted + MarkTTL => flow'[s].row.error = "user stop"
               /\ ~stopped => flow'[s].row.error = "disconnected"
  <1>1. flow \in [Stream -> Flow]
    BY DEF StreamIInv, StreamTypeOK
  <1>2. Cancelled(s)
    <2>1. ASSUME NEW r \in Stream,
                 Chat(r) \/ Decided(r) \/ Relay(r) \/ End(r) \/ Closed(r) \/ Suggest(r)
          PROVE  FALSE
      <3>1. PICK f \in Flow :
               /\ flow' = [flow EXCEPT ![r] = f]
               /\ f.row \in {flow[r].row, NoRow, [ok |-> TRUE, error |-> "none"]}
        BY <1>1, <2>1, ServerMove
      <3>2. flow'[s] = flow[s] \/ (flow'[s] = f /\ r = s)
        BY <1>1, <3>1, OneMoves
      <3> QED
        BY <3>1, <3>2
    <2>2. ASSUME NEW r \in Stream, Cancelled(r) PROVE r = s
      <3>1. PICK f \in Flow : flow' = [flow EXCEPT ![r] = f]
        BY <1>1, <2>2, CancelledMove
      <3> QED
        BY <1>1, <3>1, OneMoves
    <2>3. flow' # flow
      OBVIOUS
    <2> QED
      BY <2>1, <2>2, <2>3 DEF StreamNext, StreamTick, Stop, StopOther, Abort, Leave, streamVars
  <1>3. /\ flow[s].pc = "open" /\ tab[s].at = "gone"
        /\ flow'[s].row.error = Why(s)
    <2>1. PICK f \in Flow :
             /\ flow' = [flow EXCEPT ![s] = f]
             /\ f.row \in {NoRow, [ok |-> FALSE, error |-> Why(s)]}
      BY <1>1, <1>2, CancelledMove
    <2>2. flow'[s] = f
      BY <1>1, <2>1, OneMoves
    <2>3. f.row = [ok |-> FALSE, error |-> Why(s)]
      BY <2>1, <2>2
    <2>4. f.row.error = Why(s)
      BY <2>3
    <2>5. flow[s].pc = "open" /\ tab[s].at = "gone"
      BY <1>2 DEF Cancelled
    <2> QED
      BY <2>2, <2>4, <2>5
  <1>4. ASSUME tab[s].posted <= Horizon, tick <= tab[s].posted + MarkTTL
        PROVE  s \in DOMAIN marks /\ marks[s].user = flow[s].user
    BY <1>3, <1>4 DEF StreamIInv, YoungMarksStay, MarksAreTrue, Posted
  <1>5. ASSUME ~(tab[s].posted <= Horizon)
        PROVE  ~(s \in DOMAIN marks /\ marks[s].user = flow[s].user)
    BY <1>5 DEF StreamIInv, MarksAreTrue, Posted
  <1> QED
    BY <1>3, <1>4, <1>5 DEF Why

(* A stream cancelled while its mark stands and is young is booked as      *)
(* stopped by its user; one without a mark of its own never is, whatever   *)
(* marks other streams and other users post, take and sweep away.          *)
THEOREM StopIsBookedAlways == ASSUME StreamAssumption PROVE StreamSpec => StopIsBooked
  <1>1. StreamInit => StreamIInv
    BY InitStreamIInv
  <1>2. StreamIInv /\ [StreamNext]_streamVars => StreamIInv'
    BY NextStreamIInv
  <1>3. StreamIInv /\ [StreamNext]_streamVars =>
          [\A s \in Stream :
             flow[s].row = NoRow /\ flow'[s].row # NoRow /\ ~flow'[s].row.ok
               => LET stopped == tab[s].posted <= Horizon
                  IN /\ stopped /\ tick <= tab[s].posted + MarkTTL
                          => flow'[s].row.error = "user stop"
                     /\ ~stopped => flow'[s].row.error = "disconnected"]_streamVars
    BY BookedStep
  <1> QED
    BY <1>1, <1>2, <1>3, PTL DEF StreamSpec, StopIsBooked

(* Streams, marks and the browsers' states keep their types.               *)
THEOREM StreamTypesAlways == ASSUME StreamAssumption PROVE StreamSpec => []StreamTypeOK
  <1>1. StreamInit => StreamIInv
    BY InitStreamIInv
  <1>2. StreamIInv /\ [StreamNext]_streamVars => StreamIInv'
    BY NextStreamIInv
  <1>3. StreamIInv => StreamTypeOK
    BY DEF StreamIInv
  <1> QED
    BY <1>1, <1>2, <1>3, PTL DEF StreamSpec

-----------------------------------------------------------------------------
(* All of them                                                             *)

(* What TLC checks, one component at a time, are behaviours of each.       *)
LEMMA PartsAreBehaviours ==
    AccessSpec => SerialSpec /\ CacheSpec /\ RateSpec /\ StreamSpec
  <1>1. AccessInit => Init /\ CacheInit /\ RateInit /\ StreamInit
    BY DEF AccessInit
  <1>2. [AccessNext]_accessVars =>
           [Next /\ OneRevocation]_vars /\ [CacheNext]_cacheVars /\ [RateNext]_rateVars
           /\ [StreamNext]_streamVars
    BY DEF AccessNext, OnlyAuth, OnlyCache, OnlyRate, OnlyStream, accessVars
  <1> QED
    BY <1>1, <1>2, PTL DEF AccessSpec, SerialSpec, CacheSpec, RateSpec, StreamSpec

(* And each behaviour is about one of them.                                *)
OnePart == part \in {"auth", "cache", "rate", "stream"}

(* So the types of all hold there as well.                                 *)
THEOREM TypesAlways == AccessSpec => []TypesOK
  <1>1. AccessInit => OnePart
    BY DEF AccessInit, OnePart
  <1>2. OnePart /\ [AccessNext]_accessVars => OnePart'
    BY DEF AccessNext, OnlyAuth, OnlyCache, OnlyRate, OnlyStream, accessVars, OnePart
  <1>3. OnePart /\ TypeOK /\ CacheTypeOK /\ RateTypeOK /\ StreamTypeOK => TypesOK
    BY DEF OnePart, TypesOK
  <1>4. CacheSpec => []CacheTypeOK
    BY AccessAssumption, CacheTypesAlways
  <1>5. RateSpec => []RateTypeOK
    BY AccessAssumption, RateTypesAlways
  <1>6. StreamSpec => []StreamTypeOK
    BY AccessAssumption, StreamTypesAlways
  <1> QED
    BY <1>1, <1>2, <1>3, <1>4, <1>5, <1>6, PartsAreBehaviours, TypeCorrect, PTL DEF AccessSpec
=============================================================================
