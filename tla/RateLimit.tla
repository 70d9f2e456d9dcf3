------------------------------ MODULE RateLimit -----------------------------
(***************************************************************************)
(* services/rate_limit.py and its two callers.  Failed logins are counted  *)
(* in the table login_logs: read before the password is verified, written  *)
(* after it.  Registrations are counted in memory, per address, tested and *)
(* recorded under one lock but with a time taken before the lock.          *)
(***************************************************************************)
EXTENDS Naturals, Sequences, FiniteSets

CONSTANTS Thread, Ip, Name,
          Limit, Window,  \* LOGIN_RATE_*, REGISTER_RATE_*
          LastMoment      \* bound: the last instant of a behaviour

RateAssumption ==
    /\ IsFiniteSet(Thread) /\ Thread # {}
    /\ Limit \in Nat \ {0} /\ Window \in Nat /\ LastMoment \in Nat

VARIABLES
    clock,
    log,      \* login_logs: a sequence of failures [ip, at]
    hits,     \* _hits: hits[ip], a list of times: the numbers in admitted
    call,     \* call[t]: [pc, ip, at, name] of the request a thread handles
    accounts, \* names in the table users
    open,     \* system_settings.registration_open
    admitted, \* history: registrations let through since the last start, as [ip, at]
    refused   \* history: the last refusal, as [by, ip, at], or <<>>

rateVars == <<clock, log, hits, call, accounts, open, admitted, refused>>

AtRest == [pc |-> "idle", ip |-> "", at |-> 0, name |-> ""]

RateInit ==
    /\ clock = 0 /\ log = <<>> /\ hits = [i \in Ip |-> {}]
    /\ call = [t \in Thread |-> AtRest]
    /\ accounts = {} /\ open \in BOOLEAN
    /\ admitted = <<>> /\ refused = <<>>

Become(t, c) == call' = [call EXCEPT ![t] = c]

(* A mutant: the cutoff is now itself.                                     *)
FailuresNow(ip) == Cardinality({k \in DOMAIN log : log[k].ip = ip /\ log[k].at >= clock})

(* count_failures: created_at >= cutoff, the boundary included.            *)
Failures(ip) ==
    Cardinality({k \in DOMAIN log : log[k].ip = ip /\ log[k].at + Window >= clock})

(* A mutant: _prune keeps the boundary as well.                            *)
PrunedLate(ip, at) == {k \in hits[ip] : admitted[k].at + Window >= at}

(* _prune: t > cutoff, the boundary excluded.                              *)
Pruned(ip, at) == {k \in hits[ip] : admitted[k].at + Window > at}

(* login: is_rate_limited, then bcrypt, then record_failure.               *)
Login(t, ip) ==
    /\ call[t].pc = "idle"
    /\ IF Failures(ip) >= Limit
       THEN /\ refused' = <<[by |-> "login", ip |-> ip, at |-> clock]>>
            /\ UNCHANGED call
       ELSE /\ Become(t, [AtRest EXCEPT !.pc = "verify", !.ip = ip])
            /\ UNCHANGED refused
    /\ UNCHANGED <<clock, log, hits, accounts, open, admitted>>

WrongPassword(t) ==
    /\ call[t].pc = "verify"
    /\ log' = Append(log, [ip |-> call[t].ip, at |-> clock])
    /\ Become(t, AtRest)
    /\ UNCHANGED <<clock, hits, accounts, open, admitted, refused>>

RightPassword(t) ==
    /\ call[t].pc = "verify"
    /\ Become(t, AtRest)
    /\ UNCHANGED <<clock, log, hits, accounts, open, admitted, refused>>

(* register: a closed registration is refused before anything is counted.  *)
Register(t, ip, name) ==
    /\ call[t].pc = "idle" /\ open
    /\ Become(t, [pc |-> "lock", ip |-> ip, at |-> clock, name |-> name])
    /\ UNCHANGED <<clock, log, hits, accounts, open, admitted, refused>>

Refuse(t, stamps) ==
    LET c == call[t] IN
    /\ hits' = [hits EXCEPT ![c.ip] = stamps]
    /\ refused' = <<[by |-> "register", ip |-> c.ip, at |-> c.at]>>
    /\ Become(t, AtRest)
    /\ UNCHANGED <<clock, log, accounts, open, admitted>>

Admit(t, stamps) ==
    LET c == call[t] IN
    /\ hits' = [hits EXCEPT ![c.ip] = stamps \cup {Len(admitted) + 1}]
    /\ admitted' = Append(admitted, [ip |-> c.ip, at |-> c.at])
    /\ Become(t, [c EXCEPT !.pc = "name"])
    /\ UNCHANGED <<clock, log, accounts, open, refused>>

(* A mutant: one more than the limit is let through.                       *)
CheckAndHitMore(t) ==
    /\ call[t].pc = "lock"
    /\ LET stamps == Pruned(call[t].ip, call[t].at) IN
       IF Cardinality(stamps) > Limit THEN Refuse(t, stamps) ELSE Admit(t, stamps)

(* check_and_hit: test and record under the lock.                          *)
CheckAndHit(t) ==
    /\ call[t].pc = "lock"
    /\ LET stamps == Pruned(call[t].ip, call[t].at) IN
       IF Cardinality(stamps) >= Limit THEN Refuse(t, stamps) ELSE Admit(t, stamps)

(* A name or a password that is too short is refused, the hit stays.       *)
TooShort(t) ==
    /\ call[t].pc = "name"
    /\ Become(t, AtRest)
    /\ UNCHANGED <<clock, log, hits, accounts, open, admitted, refused>>

(* The name is looked up, the password hashed, the row inserted; when the  *)
(* name was taken in between, the unique column makes the insert fail.     *)
NameTaken(t) ==
    /\ call[t].pc = "name" /\ call[t].name \in accounts
    /\ Become(t, AtRest)
    /\ UNCHANGED <<clock, log, hits, accounts, open, admitted, refused>>

NameFree(t) ==
    /\ call[t].pc = "name" /\ call[t].name \notin accounts
    /\ Become(t, [call[t] EXCEPT !.pc = "insert"])
    /\ UNCHANGED <<clock, log, hits, accounts, open, admitted, refused>>

InsertAccount(t) ==
    /\ call[t].pc = "insert"
    /\ accounts' = accounts \cup {call[t].name}
    /\ Become(t, AtRest)
    /\ UNCHANGED <<clock, log, hits, open, admitted, refused>>

(* An administrator opens or closes the registration.                      *)
UpdateSetting ==
    /\ open' = ~open
    /\ UNCHANGED <<clock, log, hits, call, accounts, admitted, refused>>

RateTick ==
    /\ clock < LastMoment /\ clock' = clock + 1
    /\ UNCHANGED <<log, hits, call, accounts, open, admitted, refused>>

(* A restart empties the memory and leaves the table.                      *)
Restart ==
    /\ hits' = [i \in Ip |-> {}] /\ admitted' = <<>>
    /\ call' = [t \in Thread |-> AtRest]
    /\ UNCHANGED <<clock, log, accounts, open, refused>>

RateNext ==
    \/ \E t \in Thread :
          \/ \E ip \in Ip : Login(t, ip) \/ \E n \in Name : Register(t, ip, n)
          \/ WrongPassword(t) \/ RightPassword(t) \/ CheckAndHit(t)
          \/ TooShort(t) \/ NameTaken(t) \/ NameFree(t) \/ InsertAccount(t)
    \/ UpdateSetting \/ RateTick \/ Restart

RateSpec == RateInit /\ [][RateNext]_rateVars

Attempt == [ip : Ip, at : 0..LastMoment]
Refusal == [by : {"login", "register"}, ip : Ip, at : 0..LastMoment]
Handled == [pc : {"idle", "verify", "lock", "name", "insert"}, ip : Ip \cup {""},
            at : 0..LastMoment, name : Name \cup {""}]

HistoriesOK == /\ log \in Seq(Attempt) /\ admitted \in Seq(Attempt)
               /\ refused \in Seq(Refusal)

(* A list holds admissions of its own address, at most as many as allowed. *)
ListsOK == /\ DOMAIN hits = Ip
           /\ \A ip \in Ip : /\ hits[ip] \subseteq {k \in DOMAIN admitted : admitted[k].ip = ip}
                             /\ Cardinality(hits[ip]) <= Limit

CallsOK == /\ call \in [Thread -> Handled]
           /\ \A t \in Thread :
                /\ call[t].pc # "idle" => call[t].ip \in Ip
                /\ call[t].pc \in {"lock", "name", "insert"} => call[t].name \in Name

RateTypeOK == /\ clock \in 0..LastMoment /\ accounts \subseteq Name /\ open \in BOOLEAN
              /\ HistoriesOK /\ ListsOK /\ CallsOK

(* Entries of a history that lie in the window that ends at instant t.     *)
WindowOf(s, ip, t) ==
    {k \in DOMAIN s : s[k].ip = ip /\ s[k].at <= t /\ s[k].at + Window > t}

(* No window holds more wrong passwords, or more registrations, from one   *)
(* address than the limit and the requests of the other threads: the       *)
(* failures are counted before bcrypt and recorded after it (and survive a *)
(* restart), the registrations are stamped before the lock.                *)
AttemptsBounded ==
    \A ip \in Ip, t \in 0..clock :
        /\ Cardinality(WindowOf(log, ip, t)) <= Limit + Cardinality(Thread) - 1
        /\ Cardinality(WindowOf(admitted, ip, t)) <= Limit + Cardinality(Thread) - 1

(* A refusal: as many attempts in the window it looked at as the limit.    *)
Earned ==
    refused' # refused =>
        LET r == refused'[1]
            past == IF r.by = "login"
                    THEN {k \in DOMAIN log : log[k].ip = r.ip /\ log[k].at + Window >= r.at}
                    ELSE {k \in DOMAIN admitted : admitted[k].ip = r.ip
                                                  /\ admitted[k].at + Window > r.at} IN
        Cardinality(past) >= Limit

(* Nobody is refused but for attempts that were let through: at the time   *)
(* of a refusal the window holds as many of them as the limit, so the      *)
(* address comes free by itself however often it is tried meanwhile.       *)
RefusalIsEarned == [][Earned]_rateVars
=============================================================================
