------------------------- MODULE AuthSessionProofs -------------------------
(***************************************************************************)
(* Logging out and changing the password revoke every token for good, for  *)
(* any number of requests and passwords, as long as no two revocations of  *)
(* the account overlap.                                                    *)
(*                                                                         *)
(* The properties are not inductive: nothing in a token says that its      *)
(* version is not one the column will have again.  The invariant adds that *)
(* no token is ahead of the column, that the one revocation between its    *)
(* read and its write still holds the column's value, and that whoever is  *)
(* going to write a password has one.                                      *)
(***************************************************************************)
EXTENDS AuthSession, TLAPS

Record == [at      : {"idle", "read", "committed", "done"},
           kind    : Revoking \cup {"login", None},
           secret  : Secret \cup {None},
           legacy  : BOOLEAN,
           version : Nat]

Writing == {"login", "password"}

NoTokenAhead     == \A t \in tokens : t.version <= version
PendingIsCurrent == \A r \in Pending : req[r].version = version
PendingIsAlone   == \A r, s \in Pending : r = s
WritersHaveSecret ==
    \A r \in Request :
        req[r].at # "idle" /\ req[r].kind \in Writing => req[r].secret \in Secret

IInv ==
    /\ TypeOK
    /\ NoTokenAhead
    /\ PendingIsCurrent
    /\ PendingIsAlone
    /\ WritersHaveSecret

(* Nobody has logged in at the start.                                      *)
LEMMA InitIInv == Init => IInv
  <1> SUFFICES ASSUME Init PROVE IInv
    OBVIOUS
  <1>1. Idle \in Record
    BY DEF Idle, Record
  <1>2. TypeOK
    BY <1>1 DEF Init, TypeOK, Record
  <1>3. \A r \in Request : req[r].at = "idle"
    BY DEF Init, Idle
  <1>4. NoTokenAhead
    BY DEF Init, NoTokenAhead
  <1>5. PendingIsCurrent /\ PendingIsAlone /\ WritersHaveSecret
    BY <1>3 DEF PendingIsCurrent, PendingIsAlone, WritersHaveSecret, Pending
  <1> QED
    BY <1>2, <1>4, <1>5 DEF IInv

(* What follows for a step that changes one request and issues nothing.    *)
LEMMA RequestsTyped ==
  ASSUME TypeOK, NEW r \in Request, NEW x \in Record,
         req' = [req EXCEPT ![r] = x]
  PROVE  /\ req' \in [Request -> Record]
         /\ req'[r] = x
         /\ \A q \in Request : q # r => req'[q] = req[q]
  BY DEF TypeOK, Record

(* A request that reads the row sees the version as it is.                 *)
LEMMA ReadKeeps ==
  ASSUME IInv, OneRevocation, NEW r \in Request, NEW kind \in Revoking \cup {"login"},
         NEW s \in Secret \cup {None}, kind \in Writing => s \in Secret,
         Read(r, kind, s)
  PROVE  IInv' /\ version' = version /\ tokens' = tokens /\ r \notin Pending
  <1> DEFINE x == [at |-> "read", kind |-> kind, secret |-> s,
                   legacy |-> password.legacy, version |-> version]
  <1>1. x \in Record
    BY DEF IInv, TypeOK, Record
  <1>2. req' = [req EXCEPT ![r] = x]
    BY DEF Read
  <1>3. /\ req' \in [Request -> Record]
        /\ req'[r] = x
        /\ \A q \in Request : q # r => req'[q] = req[q]
    BY <1>1, <1>2, RequestsTyped DEF IInv
  <1>4. version' = version /\ tokens' = tokens /\ password' = password /\ active' = active
    BY DEF Read
  <1>5. TypeOK'
    BY <1>3, <1>4 DEF IInv, TypeOK, Record
  <1>6. r \notin Pending
    BY DEF Read, Pending
  <1>7. PendingIsCurrent'
    <2> SUFFICES ASSUME NEW q \in Pending' PROVE req'[q].version = version'
      BY DEF PendingIsCurrent
    <2>1. CASE q = r
      BY <2>1, <1>3, <1>4
    <2>2. CASE q # r
      BY <2>2, <1>3, <1>4 DEF Pending, IInv, PendingIsCurrent
    <2> QED
      BY <2>1, <2>2
  <1>8. PendingIsAlone'
    BY DEF OneRevocation, PendingIsAlone
  <1>9. WritersHaveSecret'
    BY <1>3 DEF WritersHaveSecret, IInv
  <1>10. NoTokenAhead'
    BY <1>4 DEF IInv, NoTokenAhead
  <1> QED
    BY <1>4, <1>5, <1>6, <1>7, <1>8, <1>9, <1>10 DEF IInv

(* A request that moves on without the column moving.                      *)
LEMMA MoveOn ==
  ASSUME IInv, NEW r \in Request, NEW stage \in {"committed", "done"},
         version' = version, req[r].at # "idle",
         req' = [req EXCEPT ![r] = [@ EXCEPT !.at = stage]]
  PROVE  /\ req' \in [Request -> Record]
         /\ req'[r].at = stage
         /\ Pending' \subseteq Pending
         /\ PendingIsCurrent' /\ PendingIsAlone' /\ WritersHaveSecret'
  <1> DEFINE x == [req[r] EXCEPT !.at = stage]
  <1>1. x \in Record /\ x.at = stage /\ x.kind = req[r].kind /\ x.secret = req[r].secret
    BY DEF IInv, TypeOK, Record
  <1>2. req' = [req EXCEPT ![r] = x]
    OBVIOUS
  <1>3. /\ req' \in [Request -> Record]
        /\ req'[r] = x
        /\ \A q \in Request : q # r => req'[q] = req[q]
    BY <1>1, <1>2, RequestsTyped DEF IInv
  <1>4. Pending' \subseteq Pending /\ \A q \in Pending' : req'[q] = req[q]
    BY <1>1, <1>3 DEF Pending
  <1>5. PendingIsCurrent' /\ PendingIsAlone'
    BY <1>4 DEF IInv, PendingIsCurrent, PendingIsAlone
  <1>6. WritersHaveSecret'
    BY <1>1, <1>3 DEF IInv, WritersHaveSecret
  <1> QED
    BY <1>1, <1>3, <1>4, <1>5, <1>6

(* The commit of a login touches neither version nor tokens.               *)
LEMMA LoginCommitKeeps ==
  ASSUME IInv, NEW r \in Request, LoginCommit(r)
  PROVE  IInv' /\ version' = version /\ tokens' = tokens /\ r \notin Pending
  <1>1. version' = version /\ tokens' = tokens /\ active' = active
    BY DEF LoginCommit
  <1>2. r \notin Pending
    BY DEF LoginCommit, Pending, Revoking
  <1>3. /\ req' \in [Request -> Record]
        /\ PendingIsCurrent' /\ PendingIsAlone' /\ WritersHaveSecret'
    BY <1>1, MoveOn DEF LoginCommit
  <1>4. req[r].secret \in Secret
    BY DEF LoginCommit, IInv, WritersHaveSecret, Writing
  <1>5. password' \in [secret : Secret, legacy : BOOLEAN]
    BY <1>4 DEF LoginCommit, IInv, TypeOK
  <1>6. TypeOK'
    BY <1>1, <1>3, <1>5 DEF IInv, TypeOK, Record
  <1>7. NoTokenAhead'
    BY <1>1 DEF IInv, NoTokenAhead
  <1> QED
    BY <1>1, <1>2, <1>3, <1>6, <1>7 DEF IInv

(* A login issues only a token of the current version.                     *)
LEMMA IssueKeeps ==
  ASSUME IInv, NEW r \in Request, Issue(r)
  PROVE  /\ IInv' /\ version' = version /\ r \notin Pending
         /\ \A t \in tokens' \ tokens : t.version = version
  <1>1. version' = version /\ password' = password /\ active' = active
    BY DEF Issue
  <1>2. r \notin Pending
    BY DEF Issue, Pending
  <1>3. /\ req' \in [Request -> Record]
        /\ PendingIsCurrent' /\ PendingIsAlone' /\ WritersHaveSecret'
    BY <1>1, MoveOn DEF Issue
  <1>4. tokens' = tokens \cup {[version |-> version, by |-> r]}
    BY DEF Issue
  <1>5. [version |-> version, by |-> r] \in [version : Nat, by : Request \cup {None}]
    BY DEF IInv, TypeOK
  <1>6. TypeOK'
    BY <1>1, <1>3, <1>4, <1>5 DEF IInv, TypeOK, Record
  <1>7. NoTokenAhead'
    BY <1>1, <1>4 DEF IInv, NoTokenAhead, TypeOK
  <1> QED
    BY <1>1, <1>2, <1>3, <1>4, <1>6, <1>7 DEF IInv

(* The revocation's write: every token is behind the column afterwards,    *)
(* and no revocation that read the column earlier is left.                 *)
LEMMA RevokeKeeps ==
  ASSUME IInv, NEW r \in Request, Revoke(r)
  PROVE  /\ IInv' /\ Pending = {r}
         /\ version' = version + 1 /\ tokens' = tokens
  <1> DEFINE x == [req[r] EXCEPT !.at = "done"]
  <1>1. Pending = {r}
    BY DEF Revoke, Pending, IInv, PendingIsAlone
  <1>2. version' = version + 1 /\ tokens' = tokens /\ active' = active
    BY <1>1 DEF Revoke, IInv, PendingIsCurrent
  <1>3. /\ x \in Record /\ x.at = "done" /\ x.kind = req[r].kind
        /\ x.secret = req[r].secret
    BY DEF IInv, TypeOK, Record
  <1>4. /\ req' \in [Request -> Record]
        /\ req'[r] = x
        /\ \A q \in Request : q # r => req'[q] = req[q]
    BY <1>3, RequestsTyped DEF IInv, Revoke
  <1>5. Pending' = {}
    <2> SUFFICES ASSUME NEW q \in Request, q \in Pending' PROVE FALSE
      BY DEF Pending
    <2>1. req'[q].at = "read" /\ req'[q].kind \in Revoking
      BY DEF Pending
    <2>2. CASE q = r
      BY <1>3, <1>4, <2>1, <2>2
    <2>3. CASE q # r
      BY <1>1, <1>4, <2>1, <2>3 DEF Pending
    <2> QED
      BY <2>2, <2>3
  <1>6. PendingIsCurrent' /\ PendingIsAlone'
    BY <1>5 DEF PendingIsCurrent, PendingIsAlone
  <1>7. WritersHaveSecret'
    BY <1>3, <1>4 DEF IInv, WritersHaveSecret, Revoke
  <1>8. password' \in [secret : Secret, legacy : BOOLEAN]
    <2>1. CASE req[r].kind = "logout"
      BY <2>1 DEF Revoke, IInv, TypeOK
    <2>2. CASE req[r].kind = "password"
      <3>1. req[r].secret \in Secret
        BY <2>2 DEF Revoke, IInv, WritersHaveSecret, Writing
      <3> QED
        BY <2>2, <3>1 DEF Revoke
    <2> QED
      BY <2>1, <2>2 DEF Revoke, Revoking
  <1>9. TypeOK'
    BY <1>2, <1>4, <1>8 DEF IInv, TypeOK, Record
  <1>10. NoTokenAhead'
    BY <1>2 DEF IInv, NoTokenAhead, TypeOK
  <1> QED
    BY <1>1, <1>2, <1>6, <1>7, <1>9, <1>10 DEF IInv

(* Steps that touch neither the requests nor the tokens.                   *)
LEMMA RestKeeps ==
  ASSUME IInv, active' \in BOOLEAN, UNCHANGED <<version, password, tokens, req>>
  PROVE  IInv' /\ Pending' = Pending
  <1>1. Pending' = Pending
    BY DEF Pending
  <1>2. TypeOK'
    BY DEF IInv, TypeOK
  <1>3. NoTokenAhead' /\ PendingIsCurrent' /\ PendingIsAlone' /\ WritersHaveSecret'
    BY <1>1 DEF IInv, NoTokenAhead, PendingIsCurrent, PendingIsAlone, WritersHaveSecret
  <1> QED
    BY <1>1, <1>2, <1>3 DEF IInv

-----------------------------------------------------------------------------

SerialNext == Next /\ OneRevocation

(* What one step does to the column and the tokens: it either leaves the   *)
(* column alone and completes no revocation, or it is the write of the     *)
(* only pending revocation.                                                *)
Quiet ==
    /\ version' = version
    /\ \A t \in tokens' \ tokens : t.version = version
    /\ \A r \in Pending : req'[r] = req[r]

Revokes ==
    /\ version' = version + 1
    /\ tokens' = tokens

(* Every step keeps the invariant, and revokes all tokens or none.         *)
LEMMA Step ==
  ASSUME IInv, [SerialNext]_vars
  PROVE  IInv' /\ (Quiet \/ Revokes)
  <1>1. ASSUME NEW r \in Request, LoginCheck(r), OneRevocation
        PROVE  IInv' /\ Quiet
    <2>1. password.secret \in Secret
      BY DEF IInv, TypeOK
    <2>2. Read(r, "login", password.secret)
      BY <1>1 DEF LoginCheck
    <2>3. IInv' /\ version' = version /\ tokens' = tokens /\ r \notin Pending
      BY <1>1, <2>1, <2>2, ReadKeeps
    <2> QED
      BY <2>2, <2>3 DEF Quiet, Read, Pending, IInv, TypeOK
  <1>2. ASSUME NEW r \in Request, Logout(r), OneRevocation
        PROVE  IInv' /\ Quiet
    <2>1. Read(r, "logout", None)
      BY <1>2 DEF Logout
    <2>2. IInv' /\ version' = version /\ tokens' = tokens /\ r \notin Pending
      BY <1>2, <2>1, ReadKeeps DEF Revoking, Writing
    <2> QED
      BY <2>1, <2>2 DEF Quiet, Read, Pending, IInv, TypeOK
  <1>3. ASSUME NEW r \in Request, NEW s \in Secret, Read(r, "password", s), OneRevocation
        PROVE  IInv' /\ Quiet
    <2>1. IInv' /\ version' = version /\ tokens' = tokens /\ r \notin Pending
      BY <1>3, ReadKeeps DEF Revoking
    <2> QED
      BY <1>3, <2>1 DEF Quiet, Read, Pending, IInv, TypeOK
  <1>4. ASSUME NEW r \in Request, LoginCommit(r)
        PROVE  IInv' /\ Quiet
    BY <1>4, LoginCommitKeeps DEF Quiet, LoginCommit, Pending, IInv, TypeOK
  <1>5. ASSUME NEW r \in Request, Issue(r)
        PROVE  IInv' /\ Quiet
    BY <1>5, IssueKeeps DEF Quiet, Issue, Pending, IInv, TypeOK
  <1>6. ASSUME NEW r \in Request, Revoke(r)
        PROVE  IInv' /\ Revokes
    BY <1>6, RevokeKeeps DEF Revokes
  <1>7. CASE SetActive
    BY <1>7, RestKeeps DEF SetActive, Quiet, IInv, TypeOK
  <1>8. CASE UNCHANGED vars
    BY <1>8, RestKeeps DEF vars, Quiet, IInv, TypeOK
  <1> QED
    BY <1>1, <1>2, <1>3, <1>4, <1>5, <1>6, <1>7, <1>8
    DEF SerialNext, Next, ChangePassword, ResetPassword

(* Without overlapping revocations the invariant holds in every state.     *)
THEOREM Invariant == SerialSpec => []IInv
  <1>1. IInv /\ [SerialNext]_vars => IInv'
    BY Step
  <1> QED
    BY InitIInv, <1>1, PTL DEF SerialSpec, SerialNext

(* Every variable keeps its type; in particular a version is a natural     *)
(* number and every request that writes a password has one to write.       *)
THEOREM TypeCorrect == SerialSpec => []TypeOK
  <1>1. IInv => TypeOK
    BY DEF IInv
  <1> QED
    BY Invariant, <1>1, PTL

(* POST /auth/login: the token is valid at the moment it is handed out.    *)
THEOREM FreshTokenCorrect == SerialSpec => FreshTokenAccepted
  <1>1. IInv /\ [SerialNext]_vars
          => [\A t \in tokens' \ tokens : t.version = version']_vars
    BY Step DEF Quiet, Revokes
  <1> QED
    BY Invariant, <1>1, PTL DEF SerialSpec, SerialNext, FreshTokenAccepted

(* A revocation leaves no token valid, whatever logins overlap with it.    *)
THEOREM RevocationCorrect == SerialSpec => RevokesAllIssued
  <1> DEFINE A == \A r \in Request :
                    r \in Pending /\ req'[r].at = "done"
                      => \A t \in tokens : t.version # version'
  <1>1. ASSUME IInv, [SerialNext]_vars PROVE A
    <2>1. CASE Quiet
      BY <2>1 DEF Quiet, Pending
    <2>2. CASE Revokes
      BY <2>2, <1>1 DEF Revokes, IInv, NoTokenAhead, TypeOK
    <2> QED
      BY <1>1, <2>1, <2>2, Step
  <1>2. IInv /\ [SerialNext]_vars => [A]_vars
    BY <1>1
  <1> QED
    BY Invariant, <1>2, PTL DEF SerialSpec, SerialNext, RevokesAllIssued

(* A token that is invalid stays so: the column never returns to a value   *)
(* that a token still carries.                                             *)
THEOREM RevokedForGood == SerialSpec => RevokedStaysRevoked
  <1> DEFINE A == \A t \in tokens : ~VersionOk(t) => t.version # version'
  <1>1. ASSUME IInv, [SerialNext]_vars PROVE A
    <2>1. CASE Quiet
      BY <2>1 DEF Quiet, VersionOk
    <2>2. CASE Revokes
      BY <2>2, <1>1 DEF Revokes, IInv, NoTokenAhead, TypeOK
    <2> QED
      BY <1>1, <2>1, <2>2, Step
  <1>2. IInv /\ [SerialNext]_vars => [A]_vars
    BY <1>1
  <1> QED
    BY Invariant, <1>2, PTL DEF SerialSpec, SerialNext, RevokedStaysRevoked
=============================================================================
