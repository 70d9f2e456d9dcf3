---------------------------- MODULE AuthSession ----------------------------
(***************************************************************************)
(* The sessions of one account: POST /auth/login, POST /auth/logout and    *)
(* PUT /auth/profile of routers/auth_routes.py, the password resets of     *)
(* routers/admin_routes.py, and the check of every token in auth.py.       *)
(*                                                                         *)
(* A token (JWT) carries the account's token_version at the time it was    *)
(* issued and is accepted while the two agree; logging out and changing    *)
(* the password add one to the column.  Handlers run in threads: the row   *)
(* is read when the request is authenticated, bcrypt takes its time, and   *)
(* the commit then writes the changed columns as literal values, so        *)
(* requests for one account interleave between their read and their write. *)
(*                                                                         *)
(* Left out: expiry, the failure counter of services/rate_limit.py, and    *)
(* the creation and deletion of accounts.                                  *)
(***************************************************************************)
EXTENDS Naturals

CONSTANTS
    Request,    \* requests for the account
    Secret,     \* passwords
    None

ASSUME AuthAssumption ==
    /\ Secret # {}
    /\ None \notin Secret /\ None \notin Request

VARIABLES
    version,    \* users.token_version
    password,   \* users.password_hash: the secret and whether it is SHA256
    active,     \* users.is_active
    tokens,     \* every token issued
    req         \* the requests: their progress and what they read

vars == <<version, password, active, tokens, req>>

Revoking == {"logout", "password"}

TypeOK ==
    /\ version \in Nat
    /\ password \in [secret : Secret, legacy : BOOLEAN]
    /\ active \in BOOLEAN
    /\ tokens \subseteq [version : Nat, by : Request \cup {None}]
    /\ req \in [Request -> [at     : {"idle", "read", "committed", "done"},
                            kind   : Revoking \cup {"login", None},
                            secret : Secret \cup {None},
                            legacy : BOOLEAN,
                            version : Nat]]

-----------------------------------------------------------------------------

Idle == [at |-> "idle", kind |-> None, secret |-> None, legacy |-> FALSE, version |-> 0]

(* An account as older releases left it, logged in on one device.          *)
Init ==
    /\ version = 0
    /\ \E s \in Secret, l \in BOOLEAN : password = [secret |-> s, legacy |-> l]
    /\ active = TRUE
    /\ tokens = {[version |-> 0, by |-> None]}
    /\ req = [r \in Request |-> Idle]

(* _token_version_ok                                                       *)
VersionOk(token) == token.version = version

(* get_current_user: some token of the account is accepted.                *)
LoggedIn == active /\ \E t \in tokens : VersionOk(t)

(* What a handler read from the account's row before it does its work.     *)
Read(r, kind, s) ==
    /\ req[r].at = "idle"
    /\ req' = [req EXCEPT ![r] = [at |-> "read", kind |-> kind, secret |-> s,
                                  legacy |-> password.legacy, version |-> version]]
    /\ UNCHANGED <<version, password, active, tokens>>

-----------------------------------------------------------------------------
(* POST /auth/login.  A wrong password and a disabled account change only  *)
(* the login log.                                                          *)

LoginCheck(r) == active /\ Read(r, "login", password.secret)

(* The login is logged; a SHA256 hash is replaced by bcrypt of the same    *)
(* password, whatever has become of the row since it was read.             *)
LoginCommit(r) ==
    /\ req[r].at = "read" /\ req[r].kind = "login"
    /\ password' = IF req[r].legacy THEN [secret |-> req[r].secret, legacy |-> FALSE]
                   ELSE password
    /\ req' = [req EXCEPT ![r] = [@ EXCEPT !.at = "committed"]]
    /\ UNCHANGED <<version, active, tokens>>

(* Mutation: the token carries the version read before bcrypt ran.         *)
IssueRead(r) ==
    /\ req[r].at = "committed"
    /\ tokens' = tokens \cup {[version |-> req[r].version, by |-> r]}
    /\ req' = [req EXCEPT ![r] = [@ EXCEPT !.at = "done"]]
    /\ UNCHANGED <<version, password, active>>

(* The commit expired the row, so create_token reads the version afresh.   *)
Issue(r) ==
    /\ req[r].at = "committed"
    /\ tokens' = tokens \cup {[version |-> version, by |-> r]}
    /\ req' = [req EXCEPT ![r] = [@ EXCEPT !.at = "done"]]
    /\ UNCHANGED <<version, password, active>>

-----------------------------------------------------------------------------
(* Logging out and changing the password                                   *)

Logout(r) == LoggedIn /\ Read(r, "logout", None)

(* PUT /auth/profile by the user, who knows the current password.          *)
ChangePassword(r, s) == LoggedIn /\ Read(r, "password", s)

(* PUT /admin/users/{uid} and .../password by an administrator.            *)
ResetPassword(r, s) == Read(r, "password", s)

(* Mutation: the new password is stored, the version is not.               *)
RevokeForgotten(r) ==
    /\ req[r].at = "read" /\ req[r].kind \in Revoking
    /\ version' = IF req[r].kind = "logout" THEN req[r].version + 1 ELSE version
    /\ password' = IF req[r].kind = "logout" THEN password
                   ELSE [secret |-> req[r].secret, legacy |-> FALSE]
    /\ req' = [req EXCEPT ![r] = [@ EXCEPT !.at = "done"]]
    /\ UNCHANGED <<active, tokens>>

(* Mutation: the version alternates between two values.                    *)
RevokeToggle(r) ==
    /\ req[r].at = "read" /\ req[r].kind \in Revoking
    /\ version' = 1 - req[r].version
    /\ password' = IF req[r].kind = "logout" THEN password
                   ELSE [secret |-> req[r].secret, legacy |-> FALSE]
    /\ req' = [req EXCEPT ![r] = [@ EXCEPT !.at = "done"]]
    /\ UNCHANGED <<active, tokens>>

Revoke(r) ==
    /\ req[r].at = "read" /\ req[r].kind \in Revoking
    /\ version' = req[r].version + 1
    /\ password' = IF req[r].kind = "logout" THEN password
                   ELSE [secret |-> req[r].secret, legacy |-> FALSE]
    /\ req' = [req EXCEPT ![r] = [@ EXCEPT !.at = "done"]]
    /\ UNCHANGED <<active, tokens>>

(* PUT /admin/users/{uid} with is_active.                                  *)
SetActive ==
    /\ active' = ~active
    /\ UNCHANGED <<version, password, tokens, req>>

Next ==
    \/ \E r \in Request : LoginCheck(r) \/ LoginCommit(r) \/ Issue(r)
    \/ \E r \in Request : Logout(r) \/ Revoke(r)
    \/ \E r \in Request, s \in Secret : ChangePassword(r, s) \/ ResetPassword(r, s)
    \/ SetActive

Spec == Init /\ [][Next]_vars

(* The behaviours in which no two revocations of the account overlap;      *)
(* logins still overlap with anything.                                     *)
Pending == {r \in Request : req[r].at = "read" /\ req[r].kind \in Revoking}

OneRevocation == \A r, s \in Pending' : r = s

SerialSpec == Init /\ [][Next /\ OneRevocation]_vars

-----------------------------------------------------------------------------
(* Properties                                                              *)

(* A login is of use: its token is accepted when it is handed out, even if *)
(* the account was logged out while bcrypt ran.                            *)
FreshTokenAccepted ==
    [][\A t \in tokens' \ tokens : t.version = version']_vars

(* Logging out or changing the password invalidates every token issued so  *)
(* far, those of logins that finished while it ran included.               *)
RevokesAllIssued ==
    [][\A r \in Request :
          r \in Pending /\ req'[r].at = "done" => \A t \in tokens : t.version # version']_vars

(* A token that was invalidated is never accepted again (auth.py,          *)
(* _token_version_ok: changing the version invalidates all old tokens once *)
(* and for all).                                                           *)
RevokedStaysRevoked ==
    [][\A t \in tokens : ~VersionOk(t) => t.version # version']_vars
=============================================================================
