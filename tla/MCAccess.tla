------------------------------ MODULE MCAccess ------------------------------
(* Who may do what, and what is noted of it: sessions, limits, cached      *)
(* permissions and the agent's stop marks.  Each behaviour is one of one   *)
(* component: `part' names it, the others rest in one initial state.       *)
EXTENDS AuthSession, TtlCache, AgentStream, RateLimit

VARIABLE part

accessVars == <<vars, part, cacheVars, rateVars, streamVars>>

(* What the proofs about caches, limits and streams assume of the bounds.  *)
ASSUME AccessAssumption == CacheAssumption /\ StreamAssumption /\ RateAssumption

AccessInit ==
    /\ part \in {"auth", "cache", "rate", "stream"}
    /\ Init /\ CacheInit /\ RateInit /\ StreamInit
    /\ part # "auth" => password = [secret |-> CHOOSE s \in Secret : TRUE, legacy |-> FALSE]
    /\ part # "cache" => kind = "fields"
    /\ part # "rate" => open
    /\ part # "stream" => \A s \in Stream : flow[s].user = CHOOSE u \in Account : TRUE

(* Revocations that do not overlap, as in SerialSpec.                      *)
OnlyAuth == part = "auth" /\ Next /\ OneRevocation
    /\ UNCHANGED <<part, cacheVars, rateVars, streamVars>>
OnlyCache == part = "cache" /\ CacheNext /\ UNCHANGED <<part, vars, rateVars, streamVars>>
OnlyRate == part = "rate" /\ RateNext /\ UNCHANGED <<part, vars, cacheVars, streamVars>>
OnlyStream == part = "stream" /\ StreamNext /\ UNCHANGED <<part, vars, cacheVars, rateVars>>

AccessNext == OnlyAuth \/ OnlyCache \/ OnlyRate \/ OnlyStream
AccessSpec == AccessInit /\ [][AccessNext]_accessVars

(* Every component keeps the types of its state.                           *)
TypesOK ==
    CASE part = "auth" -> TypeOK
      [] part = "cache" -> CacheTypeOK
      [] part = "rate" -> RateTypeOK
      [] part = "stream" -> StreamTypeOK
=============================================================================
