------------------------------ MODULE TtlCache ------------------------------
(***************************************************************************)
(* The in-process caches whose answers may lag behind the database:        *)
(*   "fields"  services/field_visibility._cache: two dictionary keys that  *)
(*             are written one after the other, stamped with the time at   *)
(*             which the reader began, and set back by the administrator;  *)
(*   "admins"  auth._admin_ids_cache: one tuple, never set back;           *)
(*   "context" ai._db_ctx_cache, what the assistant is told of the catalog, *)
(*             read on the event loop and never set back.                  *)
(* Handlers run in the thread pool, so between any two statements of one   *)
(* reader another reader, or the administrator, may run; the event loop    *)
(* lets no other reader in between.  What is cached is abstracted to the   *)
(* version of the rows it was read from.                                   *)
(***************************************************************************)
EXTENDS Naturals

CONSTANTS Reader,     \* threads that ask the cache
          TTL,        \* 30 seconds in the code, 300 for "context"
          Patience,   \* the longest a reader takes from its first statement to its last
          LastInstant,    \* bound: the last instant of a behaviour
          MaxVersion, \* bound: how often the rows are written
          Nothing         \* nothing cached, nothing served

(* A lifetime and a reader take an instant, the clock starts when nothing  *)
(* stamped at 0 is fresh.                                                  *)
CacheAssumption ==
    /\ TTL \in Nat \ {0} /\ Patience \in Nat \ {0}
    /\ LastInstant \in Nat /\ TTL < LastInstant
    /\ MaxVersion \in Nat /\ Nothing \notin Nat

VARIABLES
    kind,    \* which of the caches this behaviour is about
    stored,  \* version of the rows in the database
    lastAt,  \* lastAt[v]: the last instant at which version v was in the database
    cache,   \* [data, ts]
    now,     \* the clock; instant 0 is so long ago that nothing of it is fresh
    reader,  \* reader[r]: [pc, start, read]
    admin,   \* "idle", or "committed" between the commit and the reset of ts
    served   \* the last answer: [version, at], or Nothing

cacheVars == <<kind, stored, lastAt, cache, now, reader, admin, served>>

Kind == {"fields", "admins", "context"}
Version == 0..MaxVersion
Resting == [pc |-> "idle", start |-> 0, read |-> 0]

CacheInit ==
    /\ kind \in Kind
    /\ stored = 0 /\ lastAt = [v \in Version |-> TTL + 1]
    /\ cache = [data |-> Nothing, ts |-> 0]
    /\ now = TTL + 1
    /\ reader = [r \in Reader |-> Resting]
    /\ admin = "idle" /\ served = Nothing

At(r, pc) == reader[r].pc = pc
Goto(r, pc) == reader' = [reader EXCEPT ![r].pc = pc]

(* The comparison of the code: "fields" serves while now - ts < TTL, the   *)
(* others reload when now - ts > TTL.                                      *)
Fresh ==
    IF kind = "fields" THEN cache.data # Nothing /\ now - cache.ts < TTL
                       ELSE now - cache.ts <= TTL

(* A reader takes the time and tests the cache.                            *)
Ask(r) ==
    /\ At(r, "idle") /\ kind # "context"
    /\ reader' = [reader EXCEPT ![r] = [pc |-> IF Fresh THEN "return" ELSE "query",
                                        start |-> now,
                                        read |-> IF Fresh THEN cache.data ELSE 0]]
    /\ UNCHANGED <<kind, stored, lastAt, cache, now, admin, served>>

Query(r) ==
    /\ At(r, "query")
    /\ reader' = [reader EXCEPT ![r].pc = "install", ![r].read = stored]
    /\ UNCHANGED <<kind, stored, lastAt, cache, now, admin, served>>

(* "fields" writes data and ts in two statements, "admins" in one.         *)
Install(r) ==
    /\ At(r, "install")
    /\ cache' = [data |-> reader[r].read,
                 ts |-> IF kind = "fields" THEN cache.ts ELSE reader[r].start]
    /\ Goto(r, IF kind = "fields" THEN "stamp" ELSE "return")
    /\ UNCHANGED <<kind, stored, lastAt, now, admin, served>>

Stamp(r) ==
    /\ At(r, "stamp")
    /\ cache' = [cache EXCEPT !.ts = reader[r].start]
    /\ Goto(r, "return")
    /\ UNCHANGED <<kind, stored, lastAt, now, admin, served>>

(* "fields" returns what the dictionary holds now, "admins" its own list.  *)
Answer(r) == IF kind = "fields" THEN cache.data ELSE reader[r].read

(* A mutant: every answer renews the stamp.                                *)
ReturnRenewing(r) ==
    /\ At(r, "return")
    /\ served' = [version |-> Answer(r), at |-> now]
    /\ reader' = [reader EXCEPT ![r] = Resting]
    /\ cache' = [cache EXCEPT !.ts = now]
    /\ UNCHANGED <<kind, stored, lastAt, now, admin>>

Return(r) ==
    /\ At(r, "return")
    /\ served' = [version |-> Answer(r), at |-> now]
    /\ reader' = [reader EXCEPT ![r] = Resting]
    /\ UNCHANGED <<kind, stored, lastAt, cache, now, admin>>

(* _build_db_context: test, query, install and answer without an await.    *)
BuildContext ==
    /\ kind = "context"
    /\ cache' = IF Fresh THEN cache ELSE [data |-> stored, ts |-> now]
    /\ served' = [version |-> cache'.data, at |-> now]
    /\ UNCHANGED <<kind, stored, lastAt, now, reader, admin>>

Write ==
    /\ stored < MaxVersion
    /\ stored' = stored + 1
    /\ lastAt' = [lastAt EXCEPT ![stored + 1] = now]
    /\ UNCHANGED <<kind, cache, now, reader, served>>

(* The administrator's fields are committed; then ts is set to 0.          *)
UpdateFields ==
    /\ kind = "fields" /\ admin = "idle" /\ admin' = "committed"
    /\ Write

(* A user's role, and an entry of the catalog: nothing is set back.        *)
UpdateUser == kind = "admins" /\ Write /\ UNCHANGED admin
UpdateCatalog == kind = "context" /\ Write /\ UNCHANGED admin

Reset ==
    /\ admin = "committed" /\ admin' = "idle"
    /\ cache' = [cache EXCEPT !.ts = 0]
    /\ UNCHANGED <<kind, stored, lastAt, now, reader, served>>

(* The clock moves on; no reader is slower than Patience.                  *)
CacheTick ==
    /\ now < LastInstant
    /\ \A r \in Reader : At(r, "idle") \/ now - reader[r].start < Patience
    /\ now' = now + 1
    /\ lastAt' = [lastAt EXCEPT ![stored] = now + 1]
    /\ UNCHANGED <<kind, stored, cache, reader, admin, served>>

CacheNext ==
    \/ \E r \in Reader : Ask(r) \/ Query(r) \/ Install(r) \/ Stamp(r) \/ Return(r)
    \/ BuildContext \/ UpdateFields \/ UpdateUser \/ UpdateCatalog \/ Reset \/ CacheTick

CacheSpec == CacheInit /\ [][CacheNext]_cacheVars

CacheTypeOK ==
    /\ kind \in Kind /\ stored \in Version
    /\ lastAt \in [Version -> 0..LastInstant]
    /\ cache \in [data : Version \cup {Nothing}, ts : 0..LastInstant]
    /\ now \in 0..LastInstant
    /\ reader \in [Reader -> [pc : {"idle", "query", "install", "stamp", "return"},
                              start : 0..LastInstant, read : Version \cup {Nothing}]]
    /\ admin \in {"idle", "committed"}
    /\ served \in [version : Version \cup {Nothing}, at : 0..LastInstant] \cup {Nothing}

(* However readers interleave with each other and with the administrator,  *)
(* an answer is never older than the cache's lifetime and the time two     *)
(* readers may take: a slow reader that installs an old answer under the   *)
(* stamp of another cannot make it last.                                   *)
ServedIsRecent ==
    served # Nothing =>
        /\ served.version # Nothing
        /\ served.at - lastAt[served.version] < TTL + 2 * Patience
=============================================================================
