--------------------------- MODULE AccountsProofs ---------------------------
(***************************************************************************)
(* Theorems about Accounts, for any number of users, links, resets,        *)
(* sessions, keys and webhooks, and any number of failures.                *)
(***************************************************************************)
EXTENDS Accounts, TLAPS

(* A token is stored after the row was cleared and mailed after that; what *)
(* forgot_password remembers as answered stays so.                         *)
Requested ==
  \A t \in Tokens :
    /\ forgot[t].at = "idle" <=> Owner(t) = None
    /\ forgot[t].at \in {"idle", "clear", "insert"} => token[t] = "none"
    /\ forgot[t].at \in {"mail", "done"} => token[t] # "none"
    /\ forgot[t].after \subseteq Answered

(* A reset under way has a token of some user; likewise what it remembers. *)
Started ==
  \A r \in Resets :
    /\ reset[r].at = "idle" => reset[r].links = {}
    /\ reset[r].at # "idle" =>
         /\ reset[r].token \in Tokens /\ Owner(reset[r].token) \in Users
         /\ token[reset[r].token] # "none"
    /\ reset[r].after \subseteq Succeeded /\ reset[r].links \subseteq Answered

(* A token is used because a reset with it was answered, or because a      *)
(* request for another link, that it does not know of, has voided it.      *)
UsedFor ==
  \A t \in Tokens :
    token[t] = "used" =>
      \/ \E r \in Succeeded : reset[r].token = t
      \/ \E x \in Tokens \ {t} :
           /\ Owner(x) = Owner(t) /\ x \notin forgot[t].after
           /\ forgot[x].at \notin {"idle", "clear"}

(* Before the first failure: what was answered has had its effect.         *)
Effective ==
  faults = 0 =>
    /\ \A r \in Succeeded : token[reset[r].token] = "used"
    /\ \A t \in Tokens, x \in Tokens :
         /\ forgot[t].at \in {"insert", "mail", "done"}
         /\ x \in forgot[t].after /\ Owner(x) = Owner(t)
         => token[x] # "live"

(* A password that is in force, or was when a reset began, is not about to *)
(* be written; one that a reset has replaced does not come back.           *)
Replaced ==
  /\ \A u \in Users :
       password[u] \in Resets => reset[password[u]].at \notin {"idle", "write"}
  /\ \A r \in Resets :
       /\ reset[r].old \in Resets =>
            reset[reset[r].old].at \notin {"idle", "write"}
       /\ reset[r].at \in {"mark", "ok"} =>
            password[Owner(reset[r].token)] # reset[r].old

Recent == \A l \in Logins : session[l].after \subseteq Succeeded

IndInv ==
  /\ TypeOK /\ Requested /\ Started /\ UsedFor /\ Effective /\ Replaced
  /\ Recent /\ TokenUsedOnce /\ NewestLinkOnly /\ ResetTakesEffect
-----------------------------------------------------------------------------
LEMMA InitIndInv == Init => IndInv
  <1> SUFFICES ASSUME Init PROVE IndInv
    OBVIOUS
  <1> USE AccountsConstantsOK DEF Init
  <1>1. TypeOK
    BY DEF TypeOK, Forgot, Reset, Session, NoSession, Passwords, Rows
  <1>2. Requested /\ Started /\ UsedFor
    BY DEF Requested, Started, UsedFor, Owner, Answered, Succeeded
  <1>3. Effective /\ Replaced /\ Recent
    BY DEF Effective, Replaced, Recent, Answered, Succeeded, NoSession, Passwords
  <1>4. TokenUsedOnce /\ NewestLinkOnly /\ ResetTakesEffect
    BY DEF TokenUsedOnce, NewestLinkOnly, ResetTakesEffect, NoSession
  <1>5. QED
    BY <1>1, <1>2, <1>3, <1>4 DEF IndInv

-----------------------------------------------------------------------------
(* The four kinds of steps. *)
LinkStep(t) ==
  \/ \E u \in Users : forgot_password(t, u)
  \/ ClearTokens(t) \/ InsertToken(t) \/ SendMail(t) \/ CutForgot(t)
  \/ ExpireToken(t)

ResetStep(r) ==
  \/ \E t \in Tokens : reset_password(r, t)
  \/ WritePassword(r) \/ MarkUsed(r) \/ CutReset(r)

LoginStep(l) == (\E u \in Users : login(l, u)) \/ ExpireSession(l)

RowStep ==
  \/ \E c \in Calls :
       \/ \E u \in Users : require_auth(c, u)
       \/ \E x \in Rows : Insert(c, x) \/ Delete(c, x)
       \/ OtherCall(c)
  \/ \E k \in Keys : ExpireKey(k)

LEMMA Steps ==
  ASSUME [Next]_vars
  PROVE  \/ \E t \in Tokens : LinkStep(t)
         \/ \E r \in Resets : ResetStep(r)
         \/ \E l \in Logins : LoginStep(l)
         \/ RowStep
         \/ UNCHANGED vars
  BY DEF Next, LinkStep, ResetStep, LoginStep, RowStep, Rows, create_api_key,
         delete_api_key, create_webhook, delete_webhook

(* What the steps of one kind leave alone for the others.                  *)
LEMMA RowStepKeeps == ASSUME RowStep PROVE UNCHANGED <<resetVars, session, faults>>
  BY DEF RowStep, require_auth, Insert, Delete, OtherCall, Return, ExpireKey

LEMMA LoginStepKeeps ==
  ASSUME NEW l \in Logins, LoginStep(l) PROVE UNCHANGED <<resetVars, rowVars, faults>>
  BY DEF LoginStep, login, ExpireSession

LEMMA LinkStepKeeps ==
  ASSUME NEW t \in Tokens, LinkStep(t)
  PROVE  UNCHANGED <<password, reset, session, rowVars>>
  BY DEF LinkStep, forgot_password, ClearTokens, InsertToken, SendMail,
         CutForgot, ExpireToken, ForgotAt

LEMMA ResetStepKeeps ==
  ASSUME NEW r \in Resets, ResetStep(r)
  PROVE  UNCHANGED <<forgot, mailed, session, rowVars>>
  BY DEF ResetStep, reset_password, WritePassword, MarkUsed, CutReset, ResetAt

(* A request for a link is answered once and for all; who it is for and    *)
(* what it remembers is fixed when it begins.                              *)
LEMMA LinkStepGrows ==
  ASSUME TypeOK, NEW t \in Tokens, LinkStep(t)
  PROVE  /\ \A x \in Tokens :
              /\ forgot[x].at # "idle" =>
                   /\ Owner(x)' = Owner(x) /\ forgot'[x].after = forgot[x].after
                   /\ forgot'[x].at # "idle"
              /\ x # t => forgot'[x] = forgot[x]
              /\ token[x] # "none" => token'[x] # "none"
         /\ Answered \subseteq Answered'
  BY DEF LinkStep, forgot_password, ClearTokens, InsertToken, SendMail,
         CutForgot, ExpireToken, ForgotAt, Void, Stored, TypeOK, Forgot, Owner,
         Answered

LEMMA ResetStepGrows ==
  ASSUME TypeOK, NEW r \in Resets, ResetStep(r)
  PROVE  /\ \A s \in Resets :
              /\ reset[s].at # "idle" =>
                   /\ reset'[s].at # "idle"
                   /\ reset'[s].token = reset[s].token
                   /\ reset'[s].after = reset[s].after
                   /\ reset'[s].links = reset[s].links
                   /\ reset'[s].old = reset[s].old
              /\ s # r => reset'[s] = reset[s]
         /\ Succeeded \subseteq Succeeded'
  BY DEF ResetStep, reset_password, WritePassword, MarkUsed, CutReset, ResetAt,
         TypeOK, Reset, Succeeded

LEMMA FaultTyped ==
  ASSUME TypeOK, Fault \/ UNCHANGED faults PROVE faults' \in 0 .. MaxFaults
  BY AccountsConstantsOK DEF Fault, TypeOK
-----------------------------------------------------------------------------
(* TypeOK. *)

LEMMA LinkStepTyped ==
  ASSUME TypeOK, Requested, NEW t \in Tokens, LinkStep(t)
  PROVE  TypeOK'
  <1>1. token' \in [Tokens -> {"none", "live", "used", "expired"}]
    BY DEF LinkStep, forgot_password, ClearTokens, InsertToken, SendMail,
           CutForgot, ExpireToken, ForgotAt, Void, Stored, TypeOK
  <1>2. forgot' \in [Tokens -> Forgot]
    <2> USE DEF TypeOK, Forgot
    <2>1. ASSUME NEW from, NEW to \in {"insert", "mail", "done", "cut"},
                 ForgotAt(t, from, to)
          PROVE  forgot' \in [Tokens -> Forgot]
      BY <2>1 DEF ForgotAt
    <2>2. ASSUME NEW u \in Users, forgot_password(t, u)
          PROVE  forgot' \in [Tokens -> Forgot]
      BY <2>2 DEF forgot_password, Answered
    <2>3. CASE UNCHANGED forgot
      BY <2>3
    <2> HIDE DEF TypeOK, Forgot
    <2>4. QED
      BY <2>1, <2>2, <2>3 DEF LinkStep, ClearTokens, InsertToken, SendMail,
                              CutForgot, ExpireToken
  <1>3. \/ UNCHANGED mailed
        \/ mailed' = mailed \cup {t} /\ forgot[t].at = "mail"
    <2>1. CASE SendMail(t)
      BY <2>1 DEF SendMail, ForgotAt
    <2>2. CASE CutForgot(t)
      BY <2>2 DEF CutForgot
    <2>3. QED
      BY <2>1, <2>2 DEF LinkStep, forgot_password, ClearTokens, InsertToken,
                        ExpireToken
  <1>4. Fault \/ UNCHANGED faults
    BY DEF LinkStep, forgot_password, ClearTokens, InsertToken, SendMail,
           CutForgot, ExpireToken
  <1>5. QED
    BY <1>1, <1>2, <1>3, <1>4, FaultTyped, LinkStepKeeps, LinkStepGrows
       DEF TypeOK, Requested, rowVars

(* A link that was mailed is one of a user. *)
LEMMA MailedOwned ==
  ASSUME TypeOK, Requested, NEW t \in mailed
  PROVE  t \in Tokens /\ Owner(t) \in Users /\ forgot[t].at # "idle"
  BY DEF TypeOK, Requested, Forgot, Owner

LEMMA ResetStepTyped ==
  ASSUME TypeOK, Requested, Started, NEW r \in Resets, ResetStep(r)
  PROVE  TypeOK'
  <1>1. token' \in [Tokens -> {"none", "live", "used", "expired"}]
        /\ \A t \in Tokens : token[t] # "none" => token'[t] # "none"
    BY DEF ResetStep, reset_password, WritePassword, MarkUsed, CutReset, ResetAt,
           TypeOK
  <1>2. \A t \in mailed : password[Owner(t)] \in Passwords
    BY MailedOwned DEF TypeOK
  <1>3. reset' \in [Resets -> Reset]
    BY <1>2 DEF ResetStep, reset_password, WritePassword, MarkUsed, CutReset,
                ResetAt, TypeOK, Reset, Succeeded, Answered
  <1>4. password' \in [Users -> Passwords]
    BY DEF ResetStep, reset_password, WritePassword, MarkUsed, CutReset, ResetAt,
           SetPassword, TypeOK, Passwords
  <1>5. Fault \/ UNCHANGED faults
    BY DEF ResetStep, reset_password, WritePassword, MarkUsed, CutReset
  <1>6. QED
    BY <1>1, <1>3, <1>4, <1>5, FaultTyped, ResetStepKeeps DEF TypeOK, rowVars

LEMMA LoginStepTyped ==
  ASSUME TypeOK, NEW l \in Logins, LoginStep(l)
  PROVE  TypeOK'
  <1>1. session' \in [Logins -> Session]
    BY DEF LoginStep, login, ExpireSession, TypeOK, Session, NoSession,
           Succeeded, Passwords
  <1>2. QED
    BY <1>1, LoginStepKeeps DEF TypeOK, resetVars, rowVars

LEMMA RowStepTyped ==
  ASSUME TypeOK, RowStep
  PROVE  TypeOK'
  <1>1. /\ userId' \in [Rows -> Users \cup {None}]
        /\ expired' \subseteq {k \in Keys : userId'[k] # None}
        /\ call' \in [Calls -> Users \cup {None}]
    <2> USE DEF TypeOK
    <2>1. CASE \E c \in Calls, u \in Users : require_auth(c, u)
      BY <2>1 DEF require_auth
    <2>2. CASE \E c \in Calls, x \in Rows : Insert(c, x)
      BY <2>2 DEF Insert, Return, Rows
    <2>3. CASE \E c \in Calls, x \in Rows : Delete(c, x)
      BY <2>3 DEF Delete, Return, Rows
    <2>4. CASE \E c \in Calls : OtherCall(c)
      BY <2>4 DEF OtherCall, Return
    <2>5. CASE \E k \in Keys : ExpireKey(k)
      BY <2>5 DEF ExpireKey
    <2>6. QED
      BY <2>1, <2>2, <2>3, <2>4, <2>5 DEF RowStep
  <1>2. QED
    BY <1>1, RowStepKeeps DEF TypeOK, resetVars

LEMMA TypeStep ==
  ASSUME TypeOK, Requested, Started, [Next]_vars PROVE TypeOK'
  <1>1. CASE UNCHANGED vars
    BY <1>1 DEF TypeOK, vars, resetVars, rowVars
  <1>2. QED
    BY <1>1, Steps, LinkStepTyped, ResetStepTyped, LoginStepTyped, RowStepTyped
-----------------------------------------------------------------------------
(* How tokens change. *)

LEMMA LinkStepToken ==
  ASSUME TypeOK, NEW t \in Tokens, LinkStep(t), NEW x \in Tokens
  PROVE  \/ token'[x] = token[x]
         \/ /\ x = t /\ forgot[t].at = "insert" /\ token'[t] = "live"
            /\ forgot'[t].at \in {"mail", "cut"}
         \/ token[x] = "live" /\ token'[x] = "expired"
         \/ /\ token[x] = "live" /\ token'[x] = "used" /\ Owner(x) = Owner(t)
            /\ forgot[t].at = "clear" /\ forgot'[t].at = "insert"
  BY DEF LinkStep, forgot_password, ClearTokens, InsertToken, SendMail,
         CutForgot, ExpireToken, ForgotAt, Void, Stored, TypeOK, Forgot

LEMMA ResetStepToken ==
  ASSUME TypeOK, NEW r \in Resets, ResetStep(r), NEW x \in Tokens
  PROVE  \/ token'[x] = token[x]
         \/ /\ x = reset[r].token /\ token'[x] = "used"
            /\ reset[r].at = "mark" /\ reset'[r].at = "ok"
  BY DEF ResetStep, reset_password, WritePassword, MarkUsed, CutReset, ResetAt,
         TypeOK, Reset

-----------------------------------------------------------------------------
(* Requested. *)

LEMMA RequestedStep ==
  ASSUME TypeOK, Requested, Started, [Next]_vars
  PROVE  Requested'
  <1>1. ASSUME NEW t \in Tokens, LinkStep(t) PROVE Requested'
    <2> SUFFICES ASSUME NEW x \in Tokens
                 PROVE  /\ forgot'[x].at = "idle" <=> forgot'[x].user = None
                        /\ forgot'[x].at \in {"idle", "clear", "insert"} =>
                             token'[x] = "none"
                        /\ forgot'[x].at \in {"mail", "done"} => token'[x] # "none"
                        /\ forgot'[x].after \subseteq Answered'
      BY DEF Requested, Owner
    <2>1. Answered \subseteq Answered'
      BY <1>1, LinkStepGrows
    <2>2. CASE x # t
      BY <1>1, <2>1, <2>2, LinkStepGrows, LinkStepToken DEF Requested, Owner
    <2>3. CASE x = t /\ \E u \in Users : forgot_password(t, u)
      BY <2>1, <2>3, AccountsConstantsOK DEF forgot_password, Requested, TypeOK
    <2>4. CASE x = t /\ ClearTokens(t)
      <3>1. token[t] = "none" /\ token'[t] = "none"
        BY <2>4 DEF ClearTokens, ForgotAt, Void, Requested, TypeOK
      <3>2. QED
        BY <2>1, <2>4, <3>1
           DEF ClearTokens, ForgotAt, Requested, TypeOK, Forgot, Owner
    <2>5. CASE x = t /\ InsertToken(t)
      BY <2>1, <2>5
         DEF InsertToken, ForgotAt, Stored, Requested, TypeOK, Forgot, Owner
    <2>6. CASE x = t /\ (SendMail(t) \/ CutForgot(t))
      BY <2>1, <2>6
         DEF SendMail, CutForgot, ForgotAt, Requested, TypeOK, Forgot, Owner
    <2>7. CASE x = t /\ ExpireToken(t)
      BY <2>1, <2>7 DEF ExpireToken, Requested, TypeOK, Owner
    <2>8. QED
      BY <1>1, <2>2, <2>3, <2>4, <2>5, <2>6, <2>7 DEF LinkStep
  <1>2. ASSUME NEW r \in Resets, ResetStep(r) PROVE Requested'
    <2>1. forgot' = forgot
      BY <1>2, ResetStepKeeps
    <2>2. ASSUME NEW x \in Tokens PROVE token'[x] = "none" <=> token[x] = "none"
      <3>1. CASE token'[x] = token[x]
        BY <3>1
      <3>2. CASE x = reset[r].token /\ token'[x] = "used" /\ reset[r].at = "mark"
        BY <3>2 DEF Started
      <3>3. QED
        BY <1>2, <3>1, <3>2, ResetStepToken
    <2>3. QED
      BY <2>1, <2>2 DEF Requested, Owner, Answered
  <1>3. CASE UNCHANGED <<forgot, token>>
    BY <1>3 DEF Requested, Owner, Answered
  <1>4. QED
    BY <1>1, <1>2, <1>3, Steps, LoginStepKeeps, RowStepKeeps
       DEF resetVars, vars
-----------------------------------------------------------------------------
(* Started. *)

LEMMA StartedStep ==
  ASSUME TypeOK, Requested, Started, [Next]_vars
  PROVE  Started'
  <1>1. ASSUME NEW t \in Tokens, LinkStep(t) PROVE Started'
    <2>1. reset' = reset /\ Succeeded' = Succeeded /\ Answered \subseteq Answered'
      BY <1>1, LinkStepKeeps, LinkStepGrows DEF Succeeded
    <2>2. ASSUME NEW x \in Tokens, token[x] # "none"
          PROVE  Owner(x)' = Owner(x) /\ token'[x] # "none"
      BY <1>1, <2>2, LinkStepGrows DEF Requested
    <2>3. QED
      BY <2>1, <2>2 DEF Started
  <1>2. ASSUME NEW r \in Resets, ResetStep(r) PROVE Started'
    <2> SUFFICES ASSUME NEW s \in Resets
                 PROVE  /\ reset'[s].at = "idle" => reset'[s].links = {}
                        /\ reset'[s].at # "idle" =>
                             /\ reset'[s].token \in Tokens
                             /\ forgot'[reset'[s].token].user \in Users
                             /\ token'[reset'[s].token] # "none"
                        /\ reset'[s].after \subseteq Succeeded'
                        /\ reset'[s].links \subseteq Answered'
      BY DEF Started, Owner
    <2>1. forgot' = forgot /\ Answered' = Answered /\ Succeeded \subseteq Succeeded'
      BY <1>2, ResetStepKeeps, ResetStepGrows DEF Answered
    <2>2. \A x \in Tokens : token[x] # "none" => token'[x] # "none"
      BY <1>2, ResetStepToken
    <2>3. CASE reset[s].at # "idle" \/ s # r
      <3>1. /\ reset'[s].at = "idle" <=> reset[s].at = "idle"
            /\ reset'[s].token = reset[s].token /\ reset'[s].after = reset[s].after
            /\ reset'[s].links = reset[s].links
        <4>1. CASE s # r
          BY <1>2, <4>1, ResetStepGrows
        <4>2. CASE reset[s].at # "idle"
          BY <1>2, <4>2, ResetStepGrows
        <4>3. QED
          BY <2>3, <4>1, <4>2
      <3>2. QED
        BY <2>1, <2>2, <3>1 DEF Started, Owner
    <2>4. CASE reset[r].at = "idle" /\ s = r
      <3>1. PICK t \in Tokens : reset_password(r, t)
        BY <1>2, <2>4 DEF ResetStep, WritePassword, MarkUsed, CutReset, ResetAt
      <3>2. /\ reset'[r].at = "write" /\ reset'[r].token = t
            /\ reset'[r].after = Succeeded /\ reset'[r].links = Answered
        BY <3>1 DEF reset_password, TypeOK
      <3>3. Owner(t) \in Users /\ token[t] # "none"
        BY <3>1, MailedOwned DEF reset_password, Valid
      <3>4. QED
        BY <2>1, <2>2, <2>4, <3>2, <3>3 DEF Owner
    <2>5. QED
      BY <2>3, <2>4
  <1>3. CASE UNCHANGED <<forgot, token, reset>>
    BY <1>3 DEF Started, Owner, Answered, Succeeded
  <1>4. QED
    BY <1>1, <1>2, <1>3, Steps, LoginStepKeeps, RowStepKeeps
       DEF resetVars, vars

-----------------------------------------------------------------------------
(* UsedFor. *)

LEMMA UsedForStep ==
  ASSUME TypeOK, Requested, Started, UsedFor, [Next]_vars
  PROVE  UsedFor'
  <1>1. ASSUME NEW t \in Tokens, LinkStep(t) PROVE UsedFor'
    <2> SUFFICES ASSUME NEW y \in Tokens, token'[y] = "used"
                 PROVE  \/ \E r \in Succeeded' : reset'[r].token = y
                        \/ \E x \in Tokens \ {y} :
                             /\ Owner(x)' = Owner(y)' /\ x \notin forgot'[y].after
                             /\ forgot'[x].at \notin {"idle", "clear"}
      BY DEF UsedFor
    <2>1. reset' = reset /\ Succeeded' = Succeeded
      BY <1>1, LinkStepKeeps DEF Succeeded
    <2>2. CASE token[y] = "used"
      <3>1. CASE \E r \in Succeeded : reset[r].token = y
        BY <2>1, <3>1
      <3>2. ASSUME NEW x \in Tokens \ {y},
                   Owner(x) = Owner(y), x \notin forgot[y].after,
                   forgot[x].at \notin {"idle", "clear"}
            PROVE  /\ Owner(x)' = Owner(y)' /\ x \notin forgot'[y].after
                   /\ forgot'[x].at \notin {"idle", "clear"}
        <4>1. forgot[y].at # "idle"
          BY <2>2 DEF Requested
        <4>2. /\ Owner(x)' = Owner(x) /\ Owner(y)' = Owner(y)
              /\ forgot'[y].after = forgot[y].after
          BY <1>1, <3>2, <4>1, LinkStepGrows
        <4>3. forgot'[x].at \notin {"idle", "clear"}
          BY <1>1, <3>2
             DEF LinkStep, forgot_password, ClearTokens, InsertToken, SendMail,
                 CutForgot, ExpireToken, ForgotAt, TypeOK, Forgot
        <4>4. QED
          BY <3>2, <4>2, <4>3
      <3>3. QED
        BY <2>2, <3>1, <3>2 DEF UsedFor
    <2>3. CASE token[y] # "used"
      <3>1. /\ token[y] = "live" /\ Owner(y) = Owner(t)
            /\ forgot[t].at = "clear" /\ forgot'[t].at = "insert"
        BY <1>1, <2>3, LinkStepToken
      <3>2. t # y /\ forgot[y].at # "idle" /\ t \notin forgot[y].after
        BY <3>1 DEF Requested, Answered
      <3>3. /\ Owner(t)' = Owner(t) /\ Owner(y)' = Owner(y)
            /\ forgot'[y].after = forgot[y].after
        BY <1>1, <3>1, <3>2, LinkStepGrows
      <3>4. QED
        BY <3>1, <3>2, <3>3
    <2>4. QED
      BY <2>2, <2>3
  <1>2. ASSUME NEW r \in Resets, ResetStep(r) PROVE UsedFor'
    <2>1. forgot' = forgot
      BY <1>2, ResetStepKeeps
    <2>2. \A s \in Succeeded : s \in Succeeded' /\ reset'[s].token = reset[s].token
      BY <1>2, ResetStepGrows DEF Succeeded
    <2>3. ASSUME NEW y \in Tokens, token'[y] = "used", token[y] # "used"
          PROVE  r \in Succeeded' /\ reset'[r].token = y
      <3>1. y = reset[r].token /\ reset[r].at = "mark" /\ reset'[r].at = "ok"
        BY <1>2, <2>3, ResetStepToken
      <3>2. reset'[r].token = reset[r].token
        BY <1>2, <3>1, ResetStepGrows
      <3>3. QED
        BY <3>1, <3>2 DEF Succeeded
    <2>4. QED
      BY <2>1, <2>2, <2>3 DEF UsedFor, Owner
  <1>3. CASE UNCHANGED <<forgot, token, reset>>
    BY <1>3 DEF UsedFor, Owner, Succeeded
  <1>4. QED
    BY <1>1, <1>2, <1>3, Steps, LoginStepKeeps, RowStepKeeps
       DEF resetVars, vars

(* The last link works as long as its token is not used.                   *)
LEMMA UsedForLastLink ==
  ASSUME TypeOK, Requested, UsedFor PROVE LastLinkWorks
  <1> SUFFICES ASSUME NEW t \in mailed,
                      \A r \in Resets :
                        reset[r].token = t => reset[r].at \notin {"mark", "ok"},
                      \A x \in Tokens \ {t} :
                        Owner(x) = Owner(t) =>
                          x \in forgot[t].after \/ forgot[x].at = "clear"
               PROVE  token[t] \in {"live", "expired"}
    BY DEF LastLinkWorks
  <1>1. t \in Tokens /\ token[t] \in {"live", "used", "expired"}
    BY DEF TypeOK
  <1>2. ~ \E r \in Succeeded : reset[r].token = t
    BY DEF Succeeded
  <1>3. ~ \E x \in Tokens \ {t} :
            /\ Owner(x) = Owner(t) /\ x \notin forgot[t].after
            /\ forgot[x].at \notin {"idle", "clear"}
    OBVIOUS
  <1>4. QED
    BY <1>1, <1>2, <1>3 DEF UsedFor
-----------------------------------------------------------------------------
(* Effective, and with it what it says of the resets that follow.          *)

LEMMA FaultsStay == ASSUME TypeOK, [Next]_vars, faults' = 0 PROVE faults = 0
  <1>1. ASSUME Fault PROVE FALSE
    BY <1>1 DEF Fault, TypeOK
  <1>2. CASE \E t \in Tokens : LinkStep(t)
    BY <1>1, <1>2 DEF LinkStep, forgot_password, ClearTokens, InsertToken,
                      SendMail, CutForgot, ExpireToken
  <1>3. CASE \E r \in Resets : ResetStep(r)
    BY <1>1, <1>3 DEF ResetStep, reset_password, WritePassword, MarkUsed, CutReset
  <1>4. QED
    BY <1>2, <1>3, Steps, LoginStepKeeps, RowStepKeeps DEF vars

LEMMA EffectiveStep ==
  ASSUME TypeOK, Requested, Started, Effective, [Next]_vars
  PROVE  Effective'
  <1> SUFFICES ASSUME faults' = 0
               PROVE  /\ \A r \in Succeeded' : token'[reset'[r].token] = "used"
                      /\ \A t \in Tokens, x \in Tokens :
                           /\ forgot'[t].at \in {"insert", "mail", "done"}
                           /\ x \in forgot'[t].after /\ Owner(x)' = Owner(t)'
                           => token'[x] # "live"
    BY DEF Effective
  <1>1. /\ faults = 0
        /\ \A r \in Succeeded : token[reset[r].token] = "used"
        /\ \A t \in Tokens, x \in Tokens :
             /\ forgot[t].at \in {"insert", "mail", "done"}
             /\ x \in forgot[t].after /\ Owner(x) = Owner(t)
             => token[x] # "live"
    BY FaultsStay DEF Effective
  <1>2. ASSUME NEW t \in Tokens, LinkStep(t)
        PROVE  \A r \in Succeeded' : token'[reset'[r].token] = "used"
    <2>1. reset' = reset /\ Succeeded' = Succeeded
      BY <1>2, LinkStepKeeps DEF Succeeded
    <2>2. ASSUME NEW x \in Tokens, token[x] = "used" PROVE token'[x] = "used"
      BY <1>2, <2>2, LinkStepToken DEF Requested
    <2>3. QED
      BY <1>1, <2>1, <2>2 DEF Started, Succeeded
  <1>3. ASSUME NEW t \in Tokens, LinkStep(t), NEW y \in Tokens, NEW x \in Tokens,
               forgot'[y].at \in {"insert", "mail", "done"},
               x \in forgot'[y].after, Owner(x)' = Owner(y)'
        PROVE  token'[x] # "live"
    <2>1. forgot[y].at # "idle"
      BY <1>3 DEF LinkStep, forgot_password, ClearTokens, InsertToken, SendMail,
                  CutForgot, ExpireToken, ForgotAt, TypeOK, Forgot
    <2>2. x \in forgot[y].after /\ forgot[x].at = "done" /\ token[x] # "none"
      BY <1>3, <2>1, LinkStepGrows DEF Requested, Answered
    <2>3. Owner(x) = Owner(y)
      BY <1>3, <2>1, <2>2, LinkStepGrows
    <2>4. token'[x] = "live" => token[x] = "live"
      BY <1>3, <2>2, LinkStepToken
    <2>5. CASE forgot[y].at \in {"insert", "mail", "done"}
      BY <1>1, <2>2, <2>3, <2>4, <2>5
    <2>6. CASE forgot[y].at \in {"clear", "cut"}
      <3>1. y = t /\ ClearTokens(t)
        BY <1>3, <2>6, LinkStepGrows
           DEF LinkStep, forgot_password, InsertToken, SendMail, CutForgot,
               ExpireToken, ForgotAt, TypeOK, Forgot
      <3>2. Void(t)
        BY <1>1, <3>1 DEF ClearTokens, Fault
      <3>3. QED
        BY <2>3, <3>1, <3>2 DEF Void, TypeOK
    <2>7. QED
      BY <2>1, <2>5, <2>6 DEF TypeOK, Forgot
  <1>4. ASSUME NEW r \in Resets, ResetStep(r)
        PROVE  /\ \A s \in Succeeded' : token'[reset'[s].token] = "used"
               /\ \A x \in Tokens : token'[x] = "live" => token[x] = "live"
    <2>1. \A x \in Tokens : token'[x] = "live" => token[x] = "live"
      BY <1>4, ResetStepToken
    <2>2. ASSUME NEW s \in Succeeded' PROVE token'[reset'[s].token] = "used"
      <3>1. CASE s \in Succeeded
        <4>1. reset'[s].token = reset[s].token /\ reset[s].token \in Tokens
          BY <1>4, <3>1, ResetStepGrows DEF Succeeded, Started
        <4>2. QED
          BY <1>1, <1>4, <3>1, <4>1, ResetStepToken
      <3>2. CASE s \notin Succeeded
        <4>1. s = r /\ MarkUsed(r)
          BY <1>4, <2>2, <3>2, ResetStepGrows
             DEF ResetStep, reset_password, WritePassword, CutReset, ResetAt,
                 Succeeded, TypeOK, Reset
        <4>2. token' = [token EXCEPT ![reset[r].token] = "used"]
          BY <1>1, <4>1 DEF MarkUsed, Fault
        <4>3. reset'[r].token = reset[r].token /\ reset[r].token \in Tokens
          BY <1>4, <4>1, ResetStepGrows DEF MarkUsed, ResetAt, Started
        <4>4. QED
          BY <4>1, <4>2, <4>3 DEF TypeOK
      <3>3. QED
        BY <3>1, <3>2
    <2>3. QED
      BY <2>1, <2>2
  <1>5. ASSUME NEW r \in Resets, ResetStep(r) PROVE forgot' = forgot
    BY <1>5, ResetStepKeeps
  <1>6. CASE \E t \in Tokens : LinkStep(t)
    BY <1>2, <1>3, <1>6
  <1>7. CASE \E r \in Resets : ResetStep(r)
    BY <1>1, <1>4, <1>5, <1>7 DEF Owner
  <1>8. CASE UNCHANGED <<forgot, token, reset>>
    BY <1>1, <1>8 DEF Owner, Succeeded
  <1>9. QED
    BY <1>6, <1>7, <1>8, Steps, LoginStepKeeps, RowStepKeeps
       DEF resetVars, vars

(* What a step does to a reset: it goes on, or finds its token. *)
LEMMA ResetsGo ==
  ASSUME TypeOK, [Next]_vars, NEW r \in Resets
  PROVE  \/ /\ reset'[r].token = reset[r].token /\ reset'[r].after = reset[r].after
            /\ reset'[r].links = reset[r].links /\ reset'[r].old = reset[r].old
         \/ /\ reset[r].at = "idle" /\ reset'[r].at = "write"
            /\ \E t \in Tokens : reset_password(r, t)
  <1>1. ASSUME NEW s \in Resets, ResetStep(s)
        PROVE  \/ /\ reset'[r].token = reset[r].token /\ reset'[r].after = reset[r].after
                  /\ reset'[r].links = reset[r].links /\ reset'[r].old = reset[r].old
               \/ /\ reset[r].at = "idle" /\ reset'[r].at = "write"
                  /\ \E t \in Tokens : reset_password(r, t)
    <2>1. CASE r # s \/ reset[r].at # "idle"
      BY <1>1, <2>1, ResetStepGrows
    <2>2. CASE r = s /\ reset[r].at = "idle"
      BY <1>1, <2>2
         DEF ResetStep, WritePassword, MarkUsed, CutReset, ResetAt,
             reset_password, TypeOK, Reset
    <2>3. QED
      BY <2>1, <2>2
  <1>2. CASE UNCHANGED reset
    BY <1>2
  <1>3. QED
    BY <1>1, <1>2, Steps, LinkStepKeeps, LoginStepKeeps, RowStepKeeps
       DEF resetVars, vars

LEMMA TokenUsedOnceStep ==
  ASSUME TypeOK, Started, Effective, TokenUsedOnce, [Next]_vars
  PROVE  TokenUsedOnce'
  <1> SUFFICES ASSUME faults' = 0, NEW r1 \in Resets, NEW r2 \in Resets,
                      r1 \in reset'[r2].after
               PROVE  reset'[r1].token # reset'[r2].token
    BY DEF TokenUsedOnce
  <1>1. faults = 0
    BY FaultsStay
  <1>2. CASE r1 \in reset[r2].after /\ reset'[r2].token = reset[r2].token
    <2>1. reset[r1].at = "ok" /\ reset[r1].token # reset[r2].token
      BY <1>1, <1>2 DEF Started, Succeeded, TokenUsedOnce
    <2>2. reset'[r1].token = reset[r1].token
      BY <2>1, ResetsGo
    <2>3. QED
      BY <1>2, <2>1, <2>2
  <1>3. ASSUME NEW t \in Tokens, reset_password(r2, t)
        PROVE  reset'[r1].token # reset'[r2].token
    <2>1. reset'[r2].after = Succeeded /\ reset'[r2].token = t /\ token[t] = "live"
      BY <1>3 DEF reset_password, Valid, TypeOK
    <2>2. r1 # r2 /\ reset'[r1] = reset[r1] /\ token[reset[r1].token] = "used"
      BY <1>1, <1>3, <2>1 DEF reset_password, TypeOK, Succeeded, Effective
    <2>3. QED
      BY <2>1, <2>2
  <1>4. QED
    BY <1>2, <1>3, ResetsGo

LEMMA NewestLinkOnlyStep ==
  ASSUME TypeOK, Requested, Started, Effective, NewestLinkOnly, [Next]_vars
  PROVE  NewestLinkOnly'
  <1> SUFFICES ASSUME faults' = 0, NEW r \in Resets, NEW t \in Tokens,
                      t \in reset'[r].links,
                      forgot'[t].user = forgot'[reset'[r].token].user
               PROVE  reset'[r].token \notin forgot'[t].after
    BY DEF NewestLinkOnly, Owner
  <1>1. faults = 0
    BY FaultsStay
  <1>2. ASSUME NEW x \in Tokens, forgot[x].at # "idle"
        PROVE  Owner(x)' = Owner(x) /\ forgot'[x].after = forgot[x].after
    <2>1. CASE \E y \in Tokens : LinkStep(y)
      BY <1>2, <2>1, LinkStepGrows
    <2>2. CASE UNCHANGED forgot
      BY <2>2 DEF Owner
    <2>3. QED
      BY <2>1, <2>2, Steps, ResetStepKeeps, LoginStepKeeps, RowStepKeeps
         DEF resetVars, vars
  <1>3. CASE t \in reset[r].links /\ reset'[r].token = reset[r].token
    <2>1. forgot[t].at # "idle" /\ reset[r].at # "idle"
      BY <1>3 DEF Started, Answered
    <2>2. reset[r].token \in Tokens /\ forgot[reset[r].token].at # "idle"
      BY <2>1 DEF Started, Requested
    <2>3. QED
      BY <1>1, <1>2, <1>3, <2>1, <2>2 DEF NewestLinkOnly, Owner
  <1>4. ASSUME NEW x \in Tokens, reset_password(r, x)
        PROVE  reset'[r].token \notin forgot'[t].after
    <2>1. /\ reset'[r].links = Answered /\ reset'[r].token = x
          /\ token[x] = "live" /\ forgot' = forgot
      BY <1>4 DEF reset_password, Valid, TypeOK
    <2>2. QED
      BY <1>1, <2>1 DEF Effective, Answered, Owner
  <1>5. QED
    BY <1>3, <1>4, ResetsGo
-----------------------------------------------------------------------------
(* Passwords. *)

(* A password is set by the reset that asks for it, on its way from the    *)
(* UPDATE to what comes next.                                              *)
LEMMA PasswordWritten ==
  ASSUME TypeOK, Started, NEW r \in Resets, ResetStep(r)
  PROVE  \/ UNCHANGED password
         \/ /\ password' = [password EXCEPT ![Owner(reset[r].token)] = r]
            /\ reset[r].at = "write" /\ reset'[r].at \in {"mark", "failed"}
  BY DEF ResetStep, reset_password, WritePassword, MarkUsed, CutReset, ResetAt,
         SetPassword, TypeOK, Reset

(* A reset comes to "mark" by writing its password, and to "ok" from there. *)
LEMMA MarkAfterWrite ==
  ASSUME TypeOK, NEW r \in Resets, ResetStep(r), reset'[r].at \in {"mark", "ok"}
  PROVE  \/ reset[r].at = "mark" /\ UNCHANGED password
         \/ /\ reset[r].at = "write"
            /\ password' = [password EXCEPT ![Owner(reset[r].token)] = r]
  BY DEF ResetStep, reset_password, WritePassword, MarkUsed, CutReset, ResetAt,
         SetPassword, TypeOK, Reset

LEMMA WrittenStays ==
  ASSUME TypeOK, NEW r \in Resets, ResetStep(r), NEW s \in Resets,
         reset[s].at \notin {"idle", "write"}
  PROVE  reset'[s].at \notin {"idle", "write"}
  BY DEF ResetStep, reset_password, WritePassword, MarkUsed, CutReset, ResetAt,
         TypeOK, Reset

LEMMA ReplacedStep ==
  ASSUME TypeOK, Requested, Started, Replaced, [Next]_vars
  PROVE  Replaced'
  <1>1. ASSUME NEW r \in Resets, ResetStep(r) PROVE Replaced'
    <2>1. forgot' = forgot
      BY <1>1, ResetStepKeeps
    <2>2. ASSUME NEW u \in Users, password'[u] \in Resets
          PROVE  reset'[password'[u]].at \notin {"idle", "write"}
      <3>1. CASE password'[u] = password[u]
        BY <1>1, <2>2, <3>1, WrittenStays DEF Replaced
      <3>2. CASE password'[u] # password[u]
        <4>1. password'[u] = r /\ reset'[r].at \in {"mark", "failed"}
          BY <1>1, <3>2, PasswordWritten DEF TypeOK
        <4>2. QED
          BY <4>1
      <3>3. QED
        BY <3>1, <3>2
    <2>3. ASSUME NEW s \in Resets
          PROVE  /\ reset'[s].old \in Resets =>
                      reset'[reset'[s].old].at \notin {"idle", "write"}
                 /\ reset'[s].at \in {"mark", "ok"} =>
                      password'[forgot'[reset'[s].token].user] # reset'[s].old
      <3>1. CASE reset'[s].token = reset[s].token /\ reset'[s].old = reset[s].old
        <4>1. reset'[s].old \in Resets =>
                reset'[reset'[s].old].at \notin {"idle", "write"}
          BY <1>1, <3>1, WrittenStays DEF Replaced
        <4>2. ASSUME reset'[s].at \in {"mark", "ok"}
              PROVE  password'[Owner(reset[s].token)] # reset[s].old
          <5>1. CASE s # r
            <6>1. /\ reset[s].at \in {"mark", "ok"}
                  /\ password[Owner(reset[s].token)] # reset[s].old
              BY <1>1, <4>2, <5>1, ResetStepGrows DEF Replaced
            <6>2. Owner(reset[s].token) \in Users
              BY <6>1 DEF Started
            <6>3. CASE reset[r].at = "write"
                       /\ password' = [password EXCEPT ![Owner(reset[r].token)] = r]
              <7>1. reset[s].old # r
                BY <6>3 DEF Replaced
              <7>2. QED
                BY <6>1, <6>2, <6>3, <7>1 DEF TypeOK
            <6>4. QED
              BY <1>1, <6>1, <6>3, PasswordWritten
          <5>2. CASE s = r
            <6>1. CASE reset[r].at = "mark" /\ UNCHANGED password
              BY <5>2, <6>1 DEF Replaced
            <6>2. CASE /\ reset[r].at = "write"
                       /\ password' = [password EXCEPT ![Owner(reset[r].token)] = r]
              <7>1. reset[r].old # r
                BY <6>2 DEF Replaced
              <7>2. Owner(reset[r].token) \in Users
                BY <6>2 DEF Started
              <7>3. QED
                BY <5>2, <6>2, <7>1, <7>2 DEF TypeOK
            <6>3. QED
              BY <1>1, <4>2, <5>2, <6>1, <6>2, MarkAfterWrite
          <5>3. QED
            BY <5>1, <5>2
        <4>3. QED
          BY <2>1, <3>1, <4>1, <4>2 DEF Owner
      <3>2. ASSUME NEW t \in Tokens, reset_password(s, t)
            PROVE  /\ reset'[s].old \in Resets =>
                        reset'[reset'[s].old].at \notin {"idle", "write"}
                   /\ reset'[s].at = "write"
        <4>1. /\ reset'[s].at = "write" /\ reset'[s].old = password[Owner(t)]
              /\ Owner(t) \in Users
          BY <3>2, MailedOwned DEF reset_password, TypeOK
        <4>2. QED
          BY <1>1, <4>1, WrittenStays DEF Replaced
      <3>3. ResetStep(r) => [Next]_vars
        BY DEF ResetStep, Next
      <3>4. QED
        BY <1>1, <3>1, <3>2, <3>3, ResetsGo
    <2>4. QED
      BY <2>2, <2>3 DEF Replaced, Owner
  <1>2. ASSUME NEW t \in Tokens, LinkStep(t) PROVE Replaced'
    <2>1. password' = password /\ reset' = reset
      BY <1>2, LinkStepKeeps
    <2>2. ASSUME NEW r \in Resets, reset[r].at \in {"mark", "ok"}
          PROVE  forgot'[reset[r].token].user = Owner(reset[r].token)
      <3>1. reset[r].token \in Tokens /\ forgot[reset[r].token].at # "idle"
        BY <2>2 DEF Started, Requested
      <3>2. QED
        BY <1>2, <3>1, LinkStepGrows DEF Owner
    <2>3. QED
      BY <2>1, <2>2 DEF Replaced, Owner
  <1>3. CASE UNCHANGED <<password, reset, forgot>>
    BY <1>3 DEF Replaced, Owner
  <1>4. QED
    BY <1>1, <1>2, <1>3, Steps, LoginStepKeeps, RowStepKeeps
       DEF resetVars, vars

-----------------------------------------------------------------------------
(* Sessions. *)

(* Whom a reset that was answered is for, and what it has replaced, is     *)
(* settled.                                                                *)
LEMMA SucceededStays ==
  ASSUME TypeOK, Requested, Started, [Next]_vars, NEW r \in Succeeded
  PROVE  /\ r \in Succeeded' /\ reset'[r].old = reset[r].old
         /\ forgot'[reset'[r].token].user = Owner(reset[r].token)
  <1>1. /\ r \in Resets /\ reset[r].at = "ok" /\ reset[r].token \in Tokens
        /\ forgot[reset[r].token].at # "idle"
    BY AccountsConstantsOK DEF Succeeded, Started, Requested
  <1>2. CASE \E t \in Tokens : LinkStep(t)
    BY <1>1, <1>2, LinkStepKeeps, LinkStepGrows DEF Succeeded, Owner
  <1>3. CASE \E s \in Resets : ResetStep(s)
    BY <1>1, <1>3, ResetStepKeeps, ResetStepGrows DEF Owner
  <1>4. CASE UNCHANGED <<reset, forgot>>
    BY <1>4 DEF Succeeded, Owner
  <1>5. QED
    BY <1>2, <1>3, <1>4, Steps, LoginStepKeeps, RowStepKeeps
       DEF resetVars, vars

(* What a step does to a session. *)
LEMMA SessionsGo ==
  ASSUME TypeOK, [Next]_vars, NEW l \in Logins
  PROVE  \/ session'[l] = session[l]
         \/ session'[l] = NoSession
         \/ \E u \in Users : session'[l] = [user |-> u, password |-> password[u],
                                           after |-> Succeeded]
  <1>1. ASSUME NEW k \in Logins, LoginStep(k)
        PROVE  \/ session'[l] = session[l]
               \/ session'[l] = NoSession
               \/ \E u \in Users : session'[l] = [user |-> u, password |-> password[u],
                                                 after |-> Succeeded]
    BY <1>1 DEF LoginStep, login, ExpireSession, TypeOK
  <1>2. CASE UNCHANGED session
    BY <1>2
  <1>3. QED
    BY <1>1, <1>2, Steps, LinkStepKeeps, ResetStepKeeps, RowStepKeeps DEF vars

LEMMA SessionStep ==
  ASSUME TypeOK, Requested, Started, Replaced, Recent, ResetTakesEffect,
         [Next]_vars
  PROVE  Recent' /\ ResetTakesEffect'
  <1> SUFFICES ASSUME NEW l \in Logins
               PROVE  /\ session'[l].after \subseteq Succeeded'
                      /\ \A r \in session'[l].after :
                           forgot'[reset'[r].token].user = session'[l].user =>
                             session'[l].password # reset'[r].old
    BY DEF Recent, ResetTakesEffect, Owner
  <1>1. CASE session'[l] = session[l]
    BY <1>1, SucceededStays DEF Recent, ResetTakesEffect
  <1>2. CASE session'[l] = NoSession
    BY <1>2 DEF NoSession
  <1>3. ASSUME NEW u \in Users,
               session'[l] = [user |-> u, password |-> password[u],
                              after |-> Succeeded]
        PROVE  /\ session'[l].after \subseteq Succeeded'
               /\ \A r \in session'[l].after :
                    forgot'[reset'[r].token].user = session'[l].user =>
                      session'[l].password # reset'[r].old
    BY <1>3, SucceededStays DEF Replaced, Succeeded
  <1>4. QED
    BY <1>1, <1>2, <1>3, SessionsGo

-----------------------------------------------------------------------------
LEMMA Invariance == Spec => []IndInv
  <1>1. Init => IndInv
    BY InitIndInv
  <1>2. IndInv /\ [Next]_vars => IndInv'
    BY TypeStep, RequestedStep, StartedStep, UsedForStep, EffectiveStep,
       ReplacedStep, SessionStep, TokenUsedOnceStep, NewestLinkOnlyStep
       DEF IndInv
  <1>3. QED
    BY <1>1, <1>2, PTL DEF Spec

(* Each variable has its type; a mailed link has a row, a key that expires *)
(* exists.                                                                 *)
THEOREM TypeCorrect == Spec => []TypeOK
  <1>1. IndInv => TypeOK
    BY DEF IndInv
  <1>2. QED
    BY <1>1, Invariance, PTL

(* A link of forgot_password works once, until a newer one replaces it,    *)
(* and the last one works: for any number of requests that overlap, as far *)
(* as LinksSound says.                                                     *)
THEOREM LinksSoundHolds == Spec => []LinksSound
  <1>1. IndInv => LinksSound
    BY UsedForLastLink DEF IndInv, LinksSound
  <1>2. QED
    BY <1>1, Invariance, PTL

(* After reset_password has answered 200, the password that it has         *)
(* replaced opens no session.                                              *)
THEOREM ResetTakesEffectHolds == Spec => []ResetTakesEffect
  <1>1. IndInv => ResetTakesEffect
    BY DEF IndInv
  <1>2. QED
    BY <1>1, Invariance, PTL

(* Rows of api_keys and webhook_subscriptions come and go by requests of   *)
(* their owner.                                                            *)
THEOREM OwnersOnlyHolds == Spec => OwnersOnly
  <1> DEFINE Authorized ==
        \A x \in Rows : userId'[x] # userId[x] =>
          \E c \in Calls : /\ call[c] # None /\ call'[c] = None
                          /\ {userId[x], userId'[x]} = {None, call[c]}
  <1>1. ASSUME IndInv, [Next]_vars PROVE [Authorized]_vars
    <2> SUFFICES ASSUME NEW x \in Rows, userId'[x] # userId[x]
                 PROVE  \E c \in Calls :
                          /\ call[c] # None /\ call'[c] = None
                          /\ {userId[x], userId'[x]} = {None, call[c]}
      OBVIOUS
    <2>1. RowStep
      BY <1>1, Steps, LinkStepKeeps, ResetStepKeeps, LoginStepKeeps
         DEF vars, rowVars
    <2>2. userId \in [Rows -> Users \cup {None}] /\ call \in [Calls -> Users \cup {None}]
      BY <1>1 DEF IndInv, TypeOK
    <2>3. PICK c \in Calls, y \in Rows : Insert(c, y) \/ Delete(c, y)
      BY <2>1 DEF RowStep, require_auth, OtherCall, ExpireKey
    <2>4. /\ call[c] # None /\ call'[c] = None
          /\ {userId[x], userId'[x]} = {None, call[c]}
      BY <2>2, <2>3 DEF Insert, Delete, Return, Owned
    <2>5. QED
      BY <2>4
  <1>2. QED
    BY <1>1, Invariance, PTL DEF Spec, OwnersOnly
=============================================================================
