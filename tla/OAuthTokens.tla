---------------------------- MODULE OAuthTokens ----------------------------
(***************************************************************************)
(* The OpenAI login (auth/store.go, auth/openai_oauth.go, authcli/run.go): *)
(* one auth.json shared by the agent, whose model calls load and refresh   *)
(* the token, and by the q15 auth command, another process.                *)
(*                                                                         *)
(* The i-th pair the issuer hands out has access token i and refresh       *)
(* token i.  The issuer is external: it rotates, so a refresh token works  *)
(* once; it may answer with an error, or the answer may be lost.           *)
(***************************************************************************)
EXTENDS Integers, Sequences, FiniteSets

CONSTANTS
    Callers,         \* model calls that may need a token at the same time
    MaxPairs,        \* token pairs the issuer hands out
    MaxAuthFaults,   \* lost or bad answers, failed writes, restarts
    MaxLogins        \* logins and logouts

VARIABLES
    auth,       \* auth.json: NoCred, or [access, refresh] (refresh 0: none)
    caller,     \* per call: where LoadOpenAIToken is, and what it holds
    credMu,     \* holder of openAICredentialMu
    login,      \* the q15 auth process
    issued,     \* pairs handed out
    valid,      \* refresh tokens the issuer accepts
    age,        \* per access token: "fresh", "stale" (5 minutes left), "expired"
    presented,  \* per refresh token: how often it was sent
    excused,    \* per refresh token: faults that left it in the file after it was sent
    overtaken,  \* a login or logout landed while the agent was refreshing
    lapses,     \* faults so far
    logins      \* logins and logouts so far

oaVars == <<auth, caller, credMu, login, issued, valid, age, presented, excused,
            overtaken, lapses, logins>>

Pairs   == 1 .. MaxPairs
NoCred   == [access |-> 0, refresh |-> 0]
Pair(i) == [access |-> i, refresh |-> i]

Resting  == [pc |-> "rest", cred |-> NoCred, seen |-> "none"]
Nobody   == "nobody"
ASSUME AuthAssumption ==
    Nobody \notin Callers /\ MaxPairs \in Nat \ {0} /\ {MaxAuthFaults, MaxLogins} \subseteq Nat

NoLogin  == [pc |-> "none", cred |-> NoCred]

\* What it costs a refresh token to go wrong after it was sent.
Lapse(t) ==
    /\ lapses < MaxAuthFaults
    /\ lapses' = lapses + 1
    /\ excused' = [excused EXCEPT ![t] = @ + 1]

\* A call goes on with a credential, seen at the age it had when the call first held it.
Goto(c, pc, cred) ==
    caller' = [caller EXCEPT ![c] =
        [pc |-> pc, cred |-> cred,
         seen |-> IF cred = caller[c].cred THEN caller[c].seen
                  ELSE IF cred.access = 0 THEN "none" ELSE age[cred.access]]]

\* Credential.IsExpired
IsExpired(cred) == cred.access # 0 /\ age[cred.access] = "expired"

\* fault: refreshed only once it has expired
NeedsRefreshLate(cred) == IsExpired(cred)

\* Credential.NeedsRefresh
NeedsRefresh(cred) == cred.access # 0 /\ age[cred.access] # "fresh"

\* fault: two calls may resolve the credential at once
LockedByNobody(c) == TRUE

\* openAICredentialMu.Lock
Locked(c) == credMu = Nobody

(***************************************************************************)
(* resolveOpenAICredential: under the lock, read the file; a missing or    *)
(* unusable credential is an error, a fresh one is returned.               *)
(***************************************************************************)
resolve(c) ==
    /\ caller[c].pc = "waiting" /\ Locked(c)
    /\ CASE auth.access = 0      -> Goto(c, "failed", NoCred) /\ UNCHANGED credMu
         [] auth.access # 0 /\ ~NeedsRefresh(auth) -> Goto(c, "served", auth) /\ UNCHANGED credMu
         [] NeedsRefresh(auth) /\ auth.refresh = 0 -> Goto(c, "failed", NoCred) /\ UNCHANGED credMu
         [] OTHER                 -> Goto(c, "refresh", auth) /\ credMu' = c
    /\ UNCHANGED <<auth, login, issued, valid, age, presented, excused, overtaken, lapses, logins>>

LoadOpenAIToken(c) ==
    /\ caller[c].pc = "rest"
    /\ Goto(c, "waiting", NoCred)
    /\ UNCHANGED <<auth, credMu, login, issued, valid, age, presented, excused, overtaken, lapses, logins>>

Present(t) == presented' = [presented EXCEPT ![t] = @ + 1]

\* The issuer accepts the token, rotates it and answers with the next pair.
refreshOpenAIToken(c) ==
    /\ caller[c].pc = "refresh" /\ caller[c].cred.refresh \in valid /\ issued < MaxPairs
    /\ Present(caller[c].cred.refresh)
    /\ issued' = issued + 1
    /\ valid' = (valid \ {caller[c].cred.refresh}) \cup {issued + 1}
    /\ Goto(c, "save", [access |-> issued + 1, refresh |-> issued + 1])
    /\ UNCHANGED <<auth, credMu, login, age, excused, overtaken, lapses, logins>>

\* fault: any error of the issuer counts as a rejection
anyErrorRejects(status) == TRUE

\* openAITokenRefreshRejectedError.refreshTokenRejected: 4xx but not 429
refreshTokenRejected(status) == status = 400

\* An error answer: 400 for a token the issuer does not accept, else 429 or 503 before it is looked at.
refreshRefused(c) ==
    /\ caller[c].pc = "refresh"
    /\ LET t == caller[c].cred.refresh
       IN  \E status \in {400, 429, 503} :
              /\ status = 400 <=> t \notin valid
              /\ Present(t)
              /\ IF status = 400 THEN UNCHANGED <<lapses, excused>> ELSE Lapse(t)
              /\ IF refreshTokenRejected(status)
                 THEN Goto(c, "clear", caller[c].cred) /\ UNCHANGED credMu
                 ELSE Goto(c, "failed", NoCred) /\ credMu' = Nobody
    /\ UNCHANGED <<auth, login, issued, valid, age, overtaken, logins>>

\* The request or its answer is lost; the issuer may have rotated the token.
refreshLost(c) ==
    /\ caller[c].pc = "refresh"
    /\ LET t == caller[c].cred.refresh
       IN  /\ Present(t) /\ Lapse(t)
           /\ \/ UNCHANGED <<issued, valid>>
              \/ /\ t \in valid /\ issued < MaxPairs
                 /\ issued' = issued + 1 /\ valid' = valid \ {t}
    /\ Goto(c, "failed", NoCred) /\ credMu' = Nobody
    /\ UNCHANGED <<auth, login, age, overtaken, logins>>

\* The turn is stopped before the request is sent.
refreshCancelled(c) ==
    /\ caller[c].pc = "refresh"
    /\ Goto(c, "failed", NoCred) /\ credMu' = Nobody
    /\ UNCHANGED <<auth, login, issued, valid, age, presented, excused, overtaken, lapses, logins>>

\* SetCredential: the refreshed credential replaces the file, or the write fails.
saveRefreshed(c) ==
    /\ caller[c].pc = "save"
    /\ credMu' = Nobody
    /\ \/ /\ auth' = caller[c].cred /\ Goto(c, "served", caller[c].cred)
          /\ overtaken' = (overtaken /\ \E d \in Callers \ {c} : caller[d].pc \in {"refresh", "save", "clear", "cleared"})
          /\ UNCHANGED <<lapses, excused>>
       \/ /\ auth.refresh # 0 /\ Lapse(auth.refresh) /\ Goto(c, "failed", NoCred)
          /\ UNCHANGED <<auth, overtaken>>
    /\ UNCHANGED <<login, issued, valid, age, presented, logins>>

\* fault: the early return of a credential already cleared keeps the lock
clearLoadHeld(c) ==
    /\ caller[c].pc = "clear"
    /\ IF auth.refresh = 0 THEN Goto(c, "failed", NoCred)
       ELSE Goto(c, "cleared", [auth EXCEPT !.refresh = 0])
    /\ UNCHANGED <<auth, credMu, login, issued, valid, age, presented, excused, overtaken, lapses, logins>>

\* clearCredentialRefreshToken, load: a credential without refresh token is left alone.
clearLoad(c) ==
    /\ caller[c].pc = "clear"
    /\ IF auth.refresh = 0
       THEN Goto(c, "failed", NoCred) /\ credMu' = Nobody
       ELSE Goto(c, "cleared", [auth EXCEPT !.refresh = 0]) /\ UNCHANGED credMu
    /\ UNCHANGED <<auth, login, issued, valid, age, presented, excused, overtaken, lapses, logins>>

\* ... and save, which may fail.
clearSave(c) ==
    /\ caller[c].pc = "cleared"
    /\ Goto(c, "failed", NoCred) /\ credMu' = Nobody
    /\ \/ auth' = caller[c].cred /\ UNCHANGED <<lapses, excused>>
       \/ auth.refresh # 0 /\ Lapse(auth.refresh) /\ UNCHANGED auth
    /\ UNCHANGED <<login, issued, valid, age, presented, overtaken, logins>>

\* The model call has its answer.
CallEnds(c) ==
    /\ caller[c].pc \in {"served", "failed"}
    /\ caller' = [caller EXCEPT ![c] = Resting]
    /\ UNCHANGED <<auth, credMu, login, issued, valid, age, presented, excused, overtaken, lapses, logins>>

Refreshing == \E c \in Callers : caller[c].pc \in {"refresh", "save", "clear", "cleared"}

(***************************************************************************)
(* q15 auth login: a device code, polled until approved, refused or the    *)
(* window ends; then the credential replaces the file.                     *)
(***************************************************************************)
requestOpenAIDeviceCode ==
    /\ login.pc = "none" /\ logins < MaxLogins
    /\ login' = [login EXCEPT !.pc = "poll"] /\ logins' = logins + 1
    /\ UNCHANGED <<auth, caller, credMu, issued, valid, age, presented, excused, overtaken, lapses>>

\* pollOpenAIDeviceCodeOnce, exchangeCodeForTokens: approved
pollApproved ==
    /\ login.pc = "poll" /\ issued < MaxPairs
    /\ issued' = issued + 1 /\ valid' = valid \cup {issued + 1}
    /\ login' = [pc |-> "save", cred |-> Pair(issued + 1)]
    /\ UNCHANGED <<auth, caller, credMu, age, presented, excused, overtaken, lapses, logins>>

\* ErrAuthorizationPending until the window ends, an error answer, or Ctrl-C
loginGivesUp ==
    /\ login.pc = "poll" /\ login' = NoLogin
    /\ UNCHANGED <<auth, caller, credMu, issued, valid, age, presented, excused, overtaken, lapses, logins>>

runLogin ==
    /\ login.pc = "save"
    /\ auth' = login.cred /\ login' = NoLogin
    /\ overtaken' = Refreshing
    /\ UNCHANGED <<caller, credMu, issued, valid, age, presented, excused, lapses, logins>>

\* DeleteAllCredentials
runLogout ==
    /\ login.pc = "none" /\ logins < MaxLogins /\ auth # NoCred
    /\ logins' = logins + 1 /\ auth' = NoCred
    /\ overtaken' = Refreshing
    /\ UNCHANGED <<caller, credMu, login, issued, valid, age, presented, excused, lapses>>

(***************************************************************************)
(* Time.  A refresh is a few requests of at most 15 seconds each, so a     *)
(* token that was fresh when a call took it has not used up the five       *)
(* minutes between stale and expired when the call is served.              *)
(***************************************************************************)
Ages ==
    /\ \E i \in 1 .. issued :
          /\ age[i] # "expired"
          /\ age[i] = "stale" => \A c \in Callers :
                caller[c].pc \in {"save", "served"} /\ caller[c].cred.access = i => caller[c].seen # "fresh"
          /\ age' = [age EXCEPT ![i] = IF @ = "fresh" THEN "stale" ELSE "expired"]
    /\ UNCHANGED <<auth, caller, credMu, login, issued, valid, presented, excused, overtaken, lapses, logins>>

\* The agent stops, between any two steps, and starts again.
AgentRestart ==
    /\ lapses < MaxAuthFaults /\ Refreshing
    /\ lapses' = lapses + 1
    /\ excused' = [t \in Pairs |->
          IF t = auth.refresh THEN excused[t] + 1 ELSE excused[t]]
    /\ caller' = [c \in Callers |-> Resting] /\ credMu' = Nobody /\ overtaken' = FALSE
    /\ UNCHANGED <<auth, login, issued, valid, age, presented, logins>>

AuthInit ==
    /\ auth = Pair(1) /\ issued = 1 /\ valid = {1}
    /\ caller = [c \in Callers |-> Resting] /\ credMu = Nobody /\ login = NoLogin
    /\ age = [i \in Pairs |-> "fresh"]
    /\ presented = [i \in Pairs |-> 0] /\ excused = [i \in Pairs |-> 0]
    /\ overtaken = FALSE /\ lapses = 0 /\ logins = 0

CallStep(c) ==
    \/ resolve(c) \/ refreshOpenAIToken(c) \/ refreshRefused(c) \/ refreshLost(c) \/ refreshCancelled(c)
    \/ saveRefreshed(c) \/ clearLoad(c) \/ clearSave(c) \/ CallEnds(c)

LoginStep == pollApproved \/ loginGivesUp \/ runLogin

AuthNext ==
    \/ \E c \in Callers : LoadOpenAIToken(c) \/ CallStep(c)
    \/ requestOpenAIDeviceCode \/ LoginStep \/ runLogout
    \/ Ages \/ AgentRestart

AuthSpec == AuthInit /\ [][AuthNext]_oaVars

(***************************************************************************)
(* Requests to the issuer time out after 15 seconds and the goroutines     *)
(* run; the device window ends after a while.  The lock is a Go mutex,     *)
(* which hands itself to a waiter that is starved: strong fairness.        *)
(***************************************************************************)
AuthFairness ==
    /\ \A c \in Callers : SF_oaVars(resolve(c))
    /\ \A c \in Callers : WF_oaVars(CallStep(c))
    /\ WF_oaVars(LoginStep)

AuthFairSpec == AuthSpec /\ AuthFairness

-----------------------------------------------------------------------------
\* The issuer's tokens work once.  However many model calls find the credential
\* stale together, a refresh token is sent once, and again only after something
\* went wrong that left it in the file: a lost or error answer, a failed write,
\* a restart (openAICredentialMu around read, refresh and save; clearing after a
\* rejection).
RefreshedOnce == \A t \in Pairs : presented[t] <= 1 + excused[t]

\* The access token a call gets has not expired: the check leaves five minutes,
\* and what was refreshed is what is returned (NeedsRefresh,
\* resolveOpenAICredential).
ServedTokenIsLive ==
    \A c \in Callers : caller[c].pc = "served" => ~IsExpired(caller[c].cred)

\* A login outlives every trouble but a rejection: the refresh token leaves the
\* file only because the issuer does not accept it any more, or by a logout, or
\* because the user's command overtook a refresh in flight
\* (refreshTokenRejected, clearCredentialRefreshToken).
LoginOutlivesTrouble ==
    auth.refresh # 0 /\ auth'.refresh = 0
      => auth.refresh \notin valid \/ logins' > logins \/ overtaken

\* What must end: a call for a token (openAICredentialMu is released on every path; the callers are
\* interchangeable, so one stands for all) and a login (the device window).
TokenPending ==
    \/ caller[CHOOSE c \in Callers : TRUE].pc \notin {"served", "failed", "rest"}
    \/ login.pc # "none"
=============================================================================
