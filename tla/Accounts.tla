------------------------------ MODULE Accounts ------------------------------
(***************************************************************************)
(* How users of the API prove who they are: passwords and the links that   *)
(* reset them (forgot_password, reset_password), sessions (login) and API  *)
(* keys (require_auth), and the rows that only their owner may create and  *)
(* delete: API keys and webhook subscriptions (handlers.rs, auth.rs).      *)
(*                                                                         *)
(* No handler here uses a transaction: one statement is one step, and what *)
(* a handler has read may be old at its next statement.  A statement that  *)
(* fails may have been executed.  A handler is dropped when its client     *)
(* hangs up or the process is killed.  A request that is refused changes   *)
(* nothing and is no step.  Users are registered to begin with.            *)
(***************************************************************************)
EXTENDS Naturals

CONSTANTS
  Users,
  Tokens,    \* one for each call of forgot_password
  Resets,    \* calls of reset_password; r also names the password r asks for
  Logins,    \* the sessions that may be open at once
  Keys,      \* the rows that api_keys may have at once
  Hooks,     \* likewise of webhook_subscriptions
  Calls,     \* requests under way at once that require_auth guards
  First,     \* the password a user has registered with
  None,      \* no user, no token
  MaxFaults  \* bound: failing statements and dropped handlers

Rows == Keys \cup Hooks
Passwords == Resets \cup {First}

ASSUME AccountsConstantsOK ==
  /\ First \notin Resets /\ None \notin Users \cup Tokens
  /\ Keys \cap Hooks = {}
  /\ MaxFaults \in Nat

VARIABLES
  password,  \* users.password_hash: the password it is of
  token,     \* password_reset_tokens: none, live, used or expired
  forgot,    \* the next statement of a forgot_password, and whom it is for
  mailed,    \* tokens whose link has reached their user
  reset,     \* the next statement of a reset_password, and its token
  session,   \* the session that a login has opened
  userId,    \* user_id of a row of Rows; None: there is no such row
  expired,   \* keys whose expires_at has passed
  call,      \* for whom a guarded request acts
  faults

resetVars == <<password, token, forgot, mailed, reset>>
rowVars == <<userId, expired, call>>
vars == <<resetVars, session, rowVars, faults>>

(* `after` is history: the requests that were answered when this began.    *)
Forgot == [at : {"idle", "clear", "insert", "mail", "done", "cut"},
           user : Users \cup {None}, after : SUBSET Tokens]

(* So are `after`, `links` (the answered forgot_passwords) and `old`, the   *)
(* password in force, all as of the time the token was looked up.          *)
Reset == [at : {"idle", "write", "mark", "ok", "failed"},
          token : Tokens \cup {None}, after : SUBSET Resets,
          links : SUBSET Tokens, old : Passwords]

(* The user (None: no session is open), and as history the password that   *)
(* was presented and the resets that were answered when the login began.   *)
Session == [user : Users \cup {None}, password : Passwords,
            after : SUBSET Resets]

NoSession == [user |-> None, password |-> First, after |-> {}]

(* A link is only mailed after its token was stored.                       *)
TypeOK ==
  /\ password \in [Users -> Passwords]
  /\ token \in [Tokens -> {"none", "live", "used", "expired"}]
  /\ forgot \in [Tokens -> Forgot]
  /\ mailed \subseteq {t \in Tokens : token[t] # "none"}
  /\ reset \in [Resets -> Reset]
  /\ session \in [Logins -> Session]
  /\ userId \in [Rows -> Users \cup {None}]
  /\ expired \subseteq {k \in Keys : userId[k] # None}
  /\ call \in [Calls -> Users \cup {None}]
  /\ faults \in 0 .. MaxFaults

Init ==
  /\ password = [u \in Users |-> First]
  /\ token = [t \in Tokens |-> "none"]
  /\ forgot = [t \in Tokens |-> [at |-> "idle", user |-> None, after |-> {}]]
  /\ mailed = {}
  /\ reset = [r \in Resets |-> [at |-> "idle", token |-> None, after |-> {},
                                links |-> {}, old |-> First]]
  /\ session = [l \in Logins |-> NoSession]
  /\ userId = [x \in Rows |-> None] /\ expired = {}
  /\ call = [c \in Calls |-> None]
  /\ faults = 0

Fault == faults < MaxFaults /\ faults' = faults + 1

Owner(t) == forgot[t].user
Answered == {t \in Tokens : forgot[t].at = "done"}
Succeeded == {r \in Resets : reset[r].at = "ok"}
-----------------------------------------------------------------------------
(* forgot_password: look the user up, make a token, void the tokens that   *)
(* are still good, store the new one, mail it.                             *)

forgot_password(t, u) ==
  /\ forgot[t].at = "idle"
  /\ forgot' = [forgot EXCEPT ![t] = [at |-> "clear", user |-> u,
                                      after |-> Answered]]
  /\ UNCHANGED <<password, token, mailed, reset, session, rowVars, faults>>

ForgotAt(t, from, to) ==
  /\ forgot[t].at = from
  /\ forgot' = [forgot EXCEPT ![t].at = to]
  /\ UNCHANGED <<password, reset, session, rowVars>>

(* Variant for mutation runs: the tokens of all users are voided.          *)
Void_Everybody(t) ==
  token' = [x \in Tokens |-> IF token[x] = "live" THEN "used" ELSE token[x]]

Void(t) ==
  token' = [x \in Tokens |-> IF Owner(x) = Owner(t) /\ token[x] = "live"
                             THEN "used" ELSE token[x]]

(* An error here is passed over.                                           *)
ClearTokens(t) ==
  /\ ForgotAt(t, "clear", "insert")
  /\ UNCHANGED mailed
  /\ \/ Void(t) /\ UNCHANGED faults
     \/ Fault /\ UNCHANGED token

Stored(t) == token' = [token EXCEPT ![t] = "live"]

(* Variant for mutation runs: an error of the INSERT is passed over too.   *)
InsertToken_IgnoresError(t) ==
  /\ ForgotAt(t, "insert", "mail")
  /\ UNCHANGED mailed
  /\ \/ Stored(t) /\ UNCHANGED faults
     \/ Fault /\ UNCHANGED token

InsertToken(t) ==
  /\ UNCHANGED mailed
  /\ \/ ForgotAt(t, "insert", "mail") /\ Stored(t) /\ UNCHANGED faults
     \/ /\ ForgotAt(t, "insert", "cut") /\ Fault
        /\ Stored(t) \/ UNCHANGED token

(* The mail service may be absent or refuse; the answer is 200 anyway.     *)
SendMail(t) ==
  /\ ForgotAt(t, "mail", "done")
  /\ mailed' \in {mailed, mailed \cup {t}}
  /\ UNCHANGED <<token, faults>>

CutForgot(t) ==
  /\ forgot[t].at \in {"clear", "insert", "mail"}
  /\ ForgotAt(t, forgot[t].at, "cut") /\ Fault
  /\ \/ UNCHANGED mailed
     \/ forgot[t].at = "mail" /\ mailed' = mailed \cup {t}
  /\ UNCHANGED token

(* expires_at, an hour after the token was made.                           *)
ExpireToken(t) ==
  /\ token[t] = "live"
  /\ token' = [token EXCEPT ![t] = "expired"]
  /\ UNCHANGED <<password, forgot, mailed, reset, session, rowVars, faults>>
-----------------------------------------------------------------------------
(* reset_password: find the token, hash the password, store it, mark the   *)
(* token as used.  Other tokens and weak passwords are refused.            *)

ResetAt(r, from, to) ==
  /\ reset[r].at = from
  /\ reset' = [reset EXCEPT ![r].at = to]
  /\ UNCHANGED <<forgot, mailed, session, rowVars>>

(* used_at IS NULL AND expires_at > now()                                  *)
Valid(t) == token[t] = "live"

reset_password(r, t) ==
  /\ reset[r].at = "idle" /\ t \in mailed /\ Valid(t)
  /\ reset' = [reset EXCEPT ![r] =
       [at |-> "write", token |-> t, after |-> Succeeded, links |-> Answered,
        old |-> password[Owner(t)]]]
  /\ UNCHANGED <<password, token, forgot, mailed, session, rowVars, faults>>

SetPassword(r) == password' = [password EXCEPT ![Owner(reset[r].token)] = r]

(* Variant for mutation runs: an error is passed over.                     *)
WritePassword_IgnoresError(r) ==
  /\ ResetAt(r, "write", "mark")
  /\ \/ SetPassword(r) /\ UNCHANGED faults
     \/ Fault /\ UNCHANGED password
  /\ UNCHANGED token

WritePassword(r) ==
  /\ \/ ResetAt(r, "write", "mark") /\ SetPassword(r) /\ UNCHANGED faults
     \/ /\ ResetAt(r, "write", "failed") /\ Fault
        /\ SetPassword(r) \/ UNCHANGED password
  /\ UNCHANGED token

(* An error here is passed over.                                           *)
MarkUsed(r) ==
  /\ ResetAt(r, "mark", "ok")
  /\ \/ token' = [token EXCEPT ![reset[r].token] = "used"] /\ UNCHANGED faults
     \/ Fault /\ UNCHANGED token
  /\ UNCHANGED password

CutReset(r) ==
  /\ reset[r].at \in {"write", "mark"}
  /\ ResetAt(r, reset[r].at, "failed") /\ Fault
  /\ UNCHANGED <<password, token>>
-----------------------------------------------------------------------------
(* Sessions, API keys, and what they are good for.                         *)

(* A login reads the row once.  The session is a JWT; nothing is stored.   *)
login(l, u) ==
  /\ session[l] = NoSession
  /\ session' = [session EXCEPT ![l] = [user |-> u, password |-> password[u],
                                       after |-> Succeeded]]
  /\ UNCHANGED <<resetVars, rowVars, faults>>

(* exp and Max-Age: after a day, or 30 with remember_me.  Sooner if logout *)
(* clears the cookie, the only place where most clients have the JWT.      *)
ExpireSession(l) ==
  /\ session[l] # NoSession
  /\ session' = [session EXCEPT ![l] = NoSession]
  /\ UNCHANGED <<resetVars, rowVars, faults>>

ExpireKey(k) ==
  /\ userId[k] # None /\ k \notin expired
  /\ expired' = expired \cup {k}
  /\ UNCHANGED <<resetVars, session, userId, call, faults>>

(* Whom a JWT or an API key stands for, as long as it is good.             *)
Bearer(u) ==
  \/ \E l \in Logins : session[l].user = u
  \/ \E k \in Keys : userId[k] = u /\ k \notin expired

require_auth(c, u) ==
  /\ call[c] = None /\ Bearer(u)
  /\ call' = [call EXCEPT ![c] = u]
  /\ UNCHANGED <<resetVars, session, userId, expired, faults>>

Return(c) ==
  /\ call[c] # None
  /\ call' = [call EXCEPT ![c] = None]
  /\ UNCHANGED <<resetVars, session, faults>>

(* An error of the INSERT is a 500, of which it cannot be told whether it  *)
(* was executed; so is one of a DELETE.                                    *)
Insert(c, x) ==
  /\ Return(c) /\ userId[x] = None
  /\ userId' = [userId EXCEPT ![x] = call[c]]
  /\ UNCHANGED expired

(* Variant for mutation runs: the WHERE clause names the id alone.         *)
Owned_Any(c, x) == userId[x] # None

(* WHERE id = $1 AND user_id = $2                                          *)
Owned(c, x) == userId[x] = call[c]

Delete(c, x) ==
  /\ Return(c) /\ Owned(c, x)
  /\ userId' = [userId EXCEPT ![x] = None]
  /\ expired' = expired \ {x}

create_api_key(c, k) == Insert(c, k)
create_webhook(c, h) == Insert(c, h)
delete_api_key(c, k) == Delete(c, k)
delete_webhook(c, h) == Delete(c, h)

(* Any other request, one that names no row of its user, one whose         *)
(* statement failed, or one that is dropped.                               *)
OtherCall(c) == Return(c) /\ UNCHANGED <<userId, expired>>
-----------------------------------------------------------------------------
Next ==
  \/ \E t \in Tokens :
       \/ \E u \in Users : forgot_password(t, u)
       \/ ClearTokens(t) \/ InsertToken(t) \/ SendMail(t) \/ CutForgot(t)
       \/ ExpireToken(t)
  \/ \E r \in Resets :
       \/ \E t \in Tokens : reset_password(r, t)
       \/ WritePassword(r) \/ MarkUsed(r) \/ CutReset(r)
  \/ \E l \in Logins :
       \/ \E u \in Users : login(l, u)
       \/ ExpireSession(l)
  \/ \E c \in Calls :
       \/ \E u \in Users : require_auth(c, u)
       \/ \E k \in Keys : create_api_key(c, k) \/ delete_api_key(c, k)
       \/ \E h \in Hooks : create_webhook(c, h) \/ delete_webhook(c, h)
       \/ OtherCall(c)
  \/ \E k \in Keys : ExpireKey(k)

Spec == Init /\ [][Next]_vars
-----------------------------------------------------------------------------
(* Two requests that present one link may both get through if they         *)
(* overlap, because the token is read two statements before it is marked.  *)
(* Once one of them was answered, no later one does.                       *)
TokenUsedOnce ==
  faults = 0 =>
    \A r1, r2 \in Resets :
      r1 \in reset[r2].after => reset[r1].token # reset[r2].token

(* A link does not outlive a newer one: after the answer to the request    *)
(* for another, made when the first had been answered, it is refused.      *)
(* Without that condition it is not: of two requests that overlap, each    *)
(* may void tokens before the other has stored its own.                    *)
NewestLinkOnly ==
  faults = 0 =>
    \A r \in Resets, t \in Tokens :
      t \in reset[r].links /\ Owner(t) = Owner(reset[r].token) =>
        reset[r].token \notin forgot[t].after

(* The link that a user has got last works: a token that was mailed is     *)
(* good until its hour is over or it was used, whatever goes on for other  *)
(* users, if each other request of its user ended before its own began or  *)
(* has not voided tokens yet.  No failure breaks this.                     *)
LastLinkWorks ==
  \A t \in mailed :
    (/\ \A r \in Resets : reset[r].token = t => reset[r].at \notin {"mark", "ok"}
     /\ \A x \in Tokens \ {t} :
          Owner(x) = Owner(t) => x \in forgot[t].after \/ forgot[x].at = "clear")
    => token[t] \in {"live", "expired"}

(* What a link of forgot_password promises: it works once, until a newer   *)
(* one replaces it, and the last one does work.                            *)
LinksSound == TokenUsedOnce /\ NewestLinkOnly /\ LastLinkWorks

(* A reset that was answered with 200 locks the old password out: a login  *)
(* that begins later with the password it has replaced fails, whatever     *)
(* statements failed and whichever other resets ran beside it.             *)
ResetTakesEffect ==
  \A l \in Logins :
    \A r \in session[l].after :
      Owner(reset[r].token) = session[l].user =>
        session[l].password # reset[r].old

(* API keys and webhooks come and go by requests of their owner only,      *)
(* whatever the request was let in with: a session, a key that was deleted *)
(* or has expired since, or the very key that it deletes.                  *)
OwnersOnly ==
  [][\A x \in Rows : userId'[x] # userId[x] =>
       \E c \in Calls : /\ call[c] # None /\ call'[c] = None
                       /\ {userId[x], userId'[x]} = {None, call[c]}]_vars
=============================================================================
