------------------------------ MODULE Sessions ------------------------------
(***************************************************************************)
(* Login sessions of one user in the Auth Service: the rows of             *)
(* auth.sessions, the refresh tokens kept in Redis, and the requests that  *)
(* issue, rotate and revoke them concurrently.                             *)
(*                                                                         *)
(* Every login starts a token family of its own, so a family is its        *)
(* session.  Tokens are numbered in the order they are issued.  A Redis    *)
(* command, a script, a pipeline and a statement of the database are each  *)
(* one step.  Expiry is left out: no token or session lives to its TTL.    *)
(***************************************************************************)
EXTENDS Integers

CONSTANTS
    Logins,    \* logins, each with its session
    Requests,  \* calls of rotateRefreshToken, logout and changePassword
    MaxTokens  \* bound: refresh tokens ever issued

ASSUME SessionConstants ==
    /\ Logins # {}
    /\ MaxTokens \in Nat \ {0}

Tokens == 1..MaxTokens

VARIABLES
    row,       \* auth.sessions: "none", "open", or "revoked" (revoked_at)
    lpc,       \* where each login stands
    issued,    \* number of refresh tokens issued
    session,   \* sessionId in the payload of each token issued
    refresh,   \* tokens with a key auth:refresh:{token}
    index,     \* tokens with a key auth:token-family:{token}
    family,    \* members of auth:refresh-family:{familyId}
    userSet,   \* members of auth:user-sessions:{userId}
    rpc,       \* where each request stands
    presented, \* the refresh token a request was given, or tokenKey
    found,     \* tokenKeys or familyTokens: what a request has left to delete
    late       \* history: tokens issued to a session after its revocation

redisVars == <<refresh, index, family, userSet>>
loginVars == <<lpc, issued, session>>
vars == <<row, loginVars, redisVars, rpc, presented, found, late>>

(* The first word of a stage is the call it belongs to. *)
RotateStages == {"rotate check", "rotate write"}
ReplayStages == {"replay lookup", "replay revoke", "replay list", "replay delete"}
LogoutStages == {"logout delete", "logout index", "logout set", "logout revoke"}
AllStages == {"all delete", "all index", "all revoke"}
ChangeStages == {"change list", "change delete", "change index"}
Stages == RotateStages \cup ReplayStages \cup LogoutStages \cup AllStages
            \cup ChangeStages

TypeOK ==
    /\ row \in [Logins -> {"none", "open", "revoked"}]
    /\ lpc \in [Logins -> {"new", "issue", "done"}]
    /\ issued \in 0..MaxTokens
    /\ session \in [Tokens -> Logins]
    /\ refresh \subseteq 1..issued
    /\ index \subseteq 1..issued
    /\ family \in [Logins -> SUBSET (1..issued)]
    /\ userSet \subseteq 1..issued
    /\ rpc \in [Requests -> {"new", "done", "failed"} \cup Stages]
    /\ presented \in [Requests -> Tokens]
    /\ \A r \in Requests : rpc[r] \in RotateStages \cup ReplayStages \cup LogoutStages
                             => presented[r] \in 1..issued
    /\ found \in [Requests -> SUBSET (1..issued)]
    /\ late \in [Logins -> Nat]

Init ==
    /\ row = [s \in Logins |-> "none"]
    /\ lpc = [s \in Logins |-> "new"]
    /\ issued = 0
    /\ session = [t \in Tokens |-> CHOOSE s \in Logins : TRUE]
    /\ refresh = {}
    /\ index = {}
    /\ family = [s \in Logins |-> {}]
    /\ userSet = {}
    /\ rpc = [r \in Requests |-> "new"]
    /\ presented = [r \in Requests |-> 1]
    /\ found = [r \in Requests |-> {}]
    /\ late = [s \in Logins |-> 0]

Goto(r, stage) == rpc' = [rpc EXCEPT ![r] = stage]
SessionOf(r) == session[presented[r]]
Late(s) == late' = [late EXCEPT ![s] = IF row[s] = "revoked" THEN @ + 1 ELSE @]
Revoke(s) == row' = [row EXCEPT ![s] = "revoked"]

(* UPDATE auth.sessions ... WHERE user_id = $1 AND revoked_at IS NULL. *)
RevokeAll == row' = [s \in Logins |-> IF row[s] = "open" THEN "revoked" ELSE row[s]]

-----------------------------------------------------------------------------
(* login: the session row is inserted. *)
LoginRow(s) ==
    /\ lpc[s] = "new"
    /\ lpc' = [lpc EXCEPT ![s] = "issue"]
    /\ row' = [row EXCEPT ![s] = "open"]
    /\ UNCHANGED <<issued, session, redisVars, rpc, presented, found, late>>

(* issueRefreshToken: one pipeline writes the token and its three indexes. *)
IssueRefreshToken(s) ==
    /\ lpc[s] = "issue"
    /\ issued < MaxTokens
    /\ lpc' = [lpc EXCEPT ![s] = "done"]
    /\ issued' = issued + 1
    /\ session' = [session EXCEPT ![issued'] = s]
    /\ refresh' = refresh \cup {issued'}
    /\ index' = index \cup {issued'}
    /\ family' = [family EXCEPT ![s] = @ \cup {issued'}]
    /\ userSet' = userSet \cup {issued'}
    /\ Late(s)
    /\ UNCHANGED <<row, rpc, presented, found>>

-----------------------------------------------------------------------------
(***************************************************************************)
(* rotateRefreshToken and detectAndHandleReplay.  A client may present any *)
(* token it was ever given: the answer to its last rotation may be lost.   *)
(***************************************************************************)

(* Mutant of RotateConsume: GET without DEL, "not atomic". *)
RotateReads(r, t) ==
    /\ rpc[r] = "new"
    /\ presented' = [presented EXCEPT ![r] = t]
    /\ \/ t \in refresh /\ Goto(r, "rotate check")
       \/ t \notin refresh /\ Goto(r, "replay lookup")
    /\ UNCHANGED <<row, loginVars, redisVars, found, late>>

(* ATOMIC_GET_DEL_SCRIPT: only one of several requests gets the payload. *)
RotateConsume(r, t) ==
    /\ rpc[r] = "new"
    /\ presented' = [presented EXCEPT ![r] = t]
    /\ refresh' = refresh \ {t}
    /\ \/ t \in refresh /\ Goto(r, "rotate check")
       \/ t \notin refresh /\ Goto(r, "replay lookup")
    /\ UNCHANGED <<row, loginVars, index, family, userSet, found, late>>

(* Mutant of RotateCheck: the session's revoked_at is not looked at. *)
RotateChecksNothing(r) ==
    /\ rpc[r] = "rotate check"
    /\ Goto(r, "rotate write")
    /\ UNCHANGED <<row, loginVars, redisVars, presented, found, late>>

(* The session must not be revoked; otherwise the token is spent for nothing. *)
RotateCheck(r) ==
    /\ rpc[r] = "rotate check"
    /\ \/ row[SessionOf(r)] = "open" /\ Goto(r, "rotate write")
       \/ row[SessionOf(r)] = "revoked" /\ Goto(r, "done")
    /\ UNCHANGED <<row, loginVars, redisVars, presented, found, late>>

(* The session's jti is updated and then one pipeline replaces the old     *)
(* token by the new one.                                                   *)
RotateWrite(r) ==
    LET s == SessionOf(r) IN
    /\ rpc[r] = "rotate write"
    /\ issued < MaxTokens
    /\ Goto(r, "done")
    /\ issued' = issued + 1
    /\ session' = [session EXCEPT ![issued'] = s]
    /\ refresh' = refresh \cup {issued'}
    /\ index' = index \cup {issued'}
    /\ family' = [family EXCEPT ![s] = (@ \ {presented[r]}) \cup {issued'}]
    /\ userSet' = (userSet \ {presented[r]}) \cup {issued'}
    /\ Late(s)
    /\ UNCHANGED <<row, lpc, presented, found>>

(* Mutant of ReplayLookup: only a token still in its family counts. *)
ReplayLookupsFamily(r) ==
    /\ rpc[r] = "replay lookup"
    /\ \/ presented[r] \in family[SessionOf(r)] /\ Goto(r, "replay revoke")
       \/ presented[r] \notin family[SessionOf(r)] /\ Goto(r, "done")
    /\ UNCHANGED <<row, loginVars, redisVars, presented, found, late>>

(* detectAndHandleReplay: the token-family key outlives the token. *)
ReplayLookup(r) ==
    /\ rpc[r] = "replay lookup"
    /\ \/ presented[r] \in index /\ Goto(r, "replay revoke")
       \/ presented[r] \notin index /\ Goto(r, "done")
    /\ UNCHANGED <<row, loginVars, redisVars, presented, found, late>>

ReplayRevoke(r) ==
    /\ rpc[r] = "replay revoke"
    /\ Revoke(SessionOf(r))
    /\ Goto(r, "replay list")
    /\ UNCHANGED <<loginVars, redisVars, presented, found, late>>

ReplayList(r) ==
    /\ rpc[r] = "replay list"
    /\ found' = [found EXCEPT ![r] = family[SessionOf(r)]]
    /\ Goto(r, "replay delete")
    /\ UNCHANGED <<row, loginVars, redisVars, presented, late>>

(* One pipeline deletes the tokens listed and the family set. *)
ReplayDelete(r) ==
    /\ rpc[r] = "replay delete"
    /\ refresh' = refresh \ found[r]
    /\ index' = index \ found[r]
    /\ family' = [family EXCEPT ![SessionOf(r)] = {}]
    /\ found' = [found EXCEPT ![r] = {}]
    /\ Goto(r, "done")
    /\ UNCHANGED <<row, loginVars, userSet, presented, late>>

-----------------------------------------------------------------------------
(***************************************************************************)
(* logout of one session.                                                  *)
(***************************************************************************)
LogoutGet(r, t) ==
    /\ rpc[r] = "new"
    /\ presented' = [presented EXCEPT ![r] = t]
    /\ \/ t \in refresh /\ Goto(r, "logout delete")
       \/ t \notin refresh /\ Goto(r, "done")
    /\ UNCHANGED <<row, loginVars, redisVars, found, late>>

LogoutDelete(r) ==
    /\ rpc[r] = "logout delete"
    /\ refresh' = refresh \ {presented[r]}
    /\ Goto(r, "logout index")
    /\ UNCHANGED <<row, loginVars, index, family, userSet, presented, found, late>>

(* The token-family key, ... *)
LogoutIndex(r) ==
    /\ rpc[r] = "logout index"
    /\ index' = index \ {presented[r]}
    /\ Goto(r, "logout set")
    /\ UNCHANGED <<row, loginVars, refresh, family, userSet, presented, found, late>>

(* ... and the member of the user's set. *)
LogoutSet(r) ==
    /\ rpc[r] = "logout set"
    /\ userSet' = userSet \ {presented[r]}
    /\ Goto(r, "logout revoke")
    /\ UNCHANGED <<row, loginVars, refresh, index, family, presented, found, late>>

LogoutRevoke(r) ==
    /\ rpc[r] = "logout revoke"
    /\ Revoke(SessionOf(r))
    /\ Goto(r, "done")
    /\ UNCHANGED <<loginVars, redisVars, presented, found, late>>

-----------------------------------------------------------------------------
(***************************************************************************)
(* logout of all sessions deletes the tokens and then revokes the rows;    *)
(* changePassword and resetPassword revoke the rows in the transaction     *)
(* that stores the new hash, and then delete the tokens.                   *)
(***************************************************************************)
LogoutAllList(r) ==
    /\ rpc[r] = "new"
    /\ found' = [found EXCEPT ![r] = userSet]
    /\ Goto(r, "all delete")
    /\ UNCHANGED <<row, loginVars, redisVars, presented, late>>

ChangePassword(r) ==
    /\ rpc[r] = "new"
    /\ RevokeAll
    /\ Goto(r, "change list")
    /\ UNCHANGED <<loginVars, redisVars, presented, found, late>>

ChangeList(r) ==
    /\ rpc[r] = "change list"
    /\ found' = [found EXCEPT ![r] = userSet]
    /\ Goto(r, "change delete")
    /\ UNCHANGED <<row, loginVars, redisVars, presented, late>>

(* The loop over tokenKeys: the token, ... *)
DeleteListed(r) ==
    /\ \E t \in found[r] :
         /\ refresh' = refresh \ {t}
         /\ presented' = [presented EXCEPT ![r] = t]
    /\ \/ rpc[r] = "all delete" /\ Goto(r, "all index")
       \/ rpc[r] = "change delete" /\ Goto(r, "change index")
    /\ UNCHANGED <<row, loginVars, index, family, userSet, found, late>>

(* ... and its token-family key. *)
DeleteIndex(r) ==
    /\ index' = index \ {presented[r]}
    /\ found' = [found EXCEPT ![r] = @ \ {presented[r]}]
    /\ \/ rpc[r] = "all index" /\ Goto(r, "all delete")
       \/ rpc[r] = "change index" /\ Goto(r, "change delete")
    /\ UNCHANGED <<row, loginVars, refresh, family, userSet, presented, late>>

(* ... and after it, del auth:user-sessions:{userId}. *)
DeleteUserSet(r) ==
    /\ found[r] = {}
    /\ userSet' = {}
    /\ \/ rpc[r] = "all delete" /\ Goto(r, "all revoke")
       \/ rpc[r] = "change delete" /\ Goto(r, "done")
    /\ UNCHANGED <<row, loginVars, refresh, index, family, presented, found, late>>

LogoutAllRevoke(r) ==
    /\ rpc[r] = "all revoke"
    /\ RevokeAll
    /\ Goto(r, "done")
    /\ UNCHANGED <<loginVars, redisVars, presented, found, late>>

(* Redis or the database fails and the call throws.  What it has done       *)
(* stays done: a rotation leaves its session without a refresh token, a     *)
(* replay its session open.                                                 *)
RequestFails(r) ==
    /\ rpc[r] \in Stages
    /\ Goto(r, "failed")
    /\ UNCHANGED <<row, loginVars, redisVars, presented, found, late>>

Begin(r) ==
    \/ \E t \in 1..issued : RotateConsume(r, t) \/ LogoutGet(r, t)
    \/ LogoutAllList(r)
    \/ ChangePassword(r)

Continue(r) ==
    \/ RotateCheck(r)
    \/ RotateWrite(r)
    \/ ReplayLookup(r)
    \/ ReplayRevoke(r)
    \/ ReplayList(r)
    \/ ReplayDelete(r)
    \/ LogoutDelete(r)
    \/ LogoutIndex(r)
    \/ LogoutSet(r)
    \/ LogoutRevoke(r)
    \/ ChangeList(r)
    \/ DeleteListed(r)
    \/ DeleteIndex(r)
    \/ DeleteUserSet(r)
    \/ LogoutAllRevoke(r)

Next ==
    \/ \E s \in Logins : LoginRow(s) \/ IssueRefreshToken(s)
    \/ \E r \in Requests : Begin(r) \/ Continue(r) \/ RequestFails(r)

Spec == Init /\ [][Next]_vars

(* A request that has begun goes on. *)
FairSpec == Spec /\ \A r \in Requests : WF_vars(Continue(r))

-----------------------------------------------------------------------------
(* A session has at most one refresh token in Redis, whatever requests     *)
(* present the same token at once: ATOMIC_GET_DEL_SCRIPT hands a payload   *)
(* to one rotation, and only that rotation writes the next token.          *)
OneUsableToken ==
    \A t, u \in refresh : session[t] = session[u] => t = u

(* Revocation ends the chain of rotations: a request that had passed the   *)
(* check when the session was revoked may still write one token, and that  *)
(* token cannot be rotated.                                                *)
RevocationHolds == \A s \in Logins : late[s] <= 1

(* A token presented a second time ends its session, unless its            *)
(* token-family key is deleted before detectAndHandleReplay reads it or    *)
(* the request fails on the way.                                           *)
ReplayEndsSession ==
    \A r \in Requests :
        (rpc[r] = "replay lookup" /\ presented[r] \in index)
            ~> (\/ row[SessionOf(r)] = "revoked"
                \/ presented[r] \notin index
                \/ rpc[r] = "failed")
=============================================================================
