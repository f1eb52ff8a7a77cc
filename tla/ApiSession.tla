------------------------------ MODULE ApiSession ------------------------------
(***************************************************************************)
(* The signed-in session: the transport with its cookies and its one       *)
(* refresh (src/main/api/api-transport.ts), sign-in and sign-out           *)
(* (desktop-auth-service.ts), and what is loaded for the user and cached   *)
(* per session generation (desktop-user-context-service.ts). The server,   *)
(* and the loss of its answers, are the environment.                       *)
(***************************************************************************)
EXTENDS Naturals

CONSTANTS
  Users,       \* accounts
  NoUser,
  ApiCalls,    \* calls of the renderer, numbered in the order they begin
  NoCall,
  MaxSignIns   \* bound on sessionGeneration

ASSUME ApiAssumption ==
  /\ Users # {} /\ NoUser \notin Users
  /\ ApiCalls \subseteq Nat /\ NoCall \notin ApiCalls /\ MaxSignIns \in Nat

VARIABLES
  cookies,     \* whose cookies the session has
  access, refreshable,   \* accounts whose access and refresh tokens the server takes
  signedIn,    \* what the renderer shows
  generation, inFlight,  \* sessionGeneration; the call that loads the context
  context,     \* the cached context: its account, by generation
  refreshing,     \* refreshOperation, and with whose cookies it was sent
  api,         \* the calls
  stray        \* an answer crossed the end of its session

apiVars == <<cookies, access, refreshable, signedIn, generation, inFlight, context, refreshing, api, stray>>
server == <<access, refreshable>>

Owners == Users \cup {NoUser}
ApiPlaces == {"new", "read", "joined", "stopping", "send", "answer", "refresh", "expire", "reset",
              "keep", "kept", "clear", "done", "failed"}
NotRefreshing == [at |-> "no", as |-> NoUser]

ApiTypeOK ==
  /\ cookies \in Owners /\ access \subseteq Users /\ refreshable \subseteq Users
  /\ signedIn \in BOOLEAN /\ stray \in BOOLEAN
  /\ generation \in 0..MaxSignIns /\ inFlight \in ApiCalls \cup {NoCall}
  /\ context \in [0..MaxSignIns -> Owners]
  /\ refreshing \in [at : {"no", "send", "answer", "expire", "reset"}, as : Owners]
  /\ \A c \in ApiCalls :
       /\ api[c].kind \in {"context", "login", "logout", "restore"} /\ api[c].at \in ApiPlaces
       /\ {api[c].as, api[c].answer} \subseteq Owners
       /\ {api[c].of, api[c].got} \subseteq 0..MaxSignIns /\ api[c].retried \in BOOLEAN

ApiInit ==
  /\ cookies \in {NoUser, CHOOSE u \in Users : TRUE}   \* the accounts are alike
  /\ access = {cookies} \ {NoUser} /\ refreshable = access
  /\ signedIn \in {FALSE, cookies # NoUser} /\ stray = FALSE
  /\ generation = 0 /\ inFlight = NoCall
  /\ context = [g \in 0..MaxSignIns |-> NoUser]
  /\ refreshing = NotRefreshing
  /\ api = [c \in ApiCalls |-> [kind |-> "context", at |-> "new", as |-> NoUser, answer |-> NoUser,
                                of |-> 0, got |-> 0, retried |-> FALSE]]

\* A call that has ended keeps of itself what the properties ask for.
Place(call, place) ==
  IF place \in {"done", "failed", "clear", "expire", "reset", "refresh"}
  THEN [call EXCEPT !.at = place, !.as = NoUser, !.answer = NoUser] ELSE [call EXCEPT !.at = place]
Go(c, place) == api' = [api EXCEPT ![c] = Place(@, place)]
\* c, and the calls that have joined its load: one load a generation.
Waiting(c) == {c} \cup {k \in ApiCalls : api[c].kind = "context" /\ api[k].at = "joined" /\ api[k].of = api[c].of}
\* The operation of c fails, for all that have joined it.
FailWith(c) ==
  /\ api' = [k \in ApiCalls |-> IF k \in Waiting(c) THEN Place(api[k], "failed") ELSE api[k]]
  /\ inFlight' = IF inFlight = c THEN NoCall ELSE inFlight

ResetSession ==
  /\ generation < MaxSignIns
  /\ generation' = generation + 1 /\ inFlight' = NoCall

-----------------------------------------------------------------------------
(* Calls of the renderer *)

LoadContext(c) ==
  /\ signedIn
  /\ api' = [api EXCEPT ![c] = [@ EXCEPT !.kind = "context", !.at = "read", !.of = generation]]
  /\ UNCHANGED <<generation, inFlight>>

Login(c, u) ==
  /\ ~signedIn
  /\ api' = [api EXCEPT ![c] = [@ EXCEPT !.kind = "login", !.at = "send", !.answer = u]]
  /\ UNCHANGED <<generation, inFlight>>

\* logout first stops the agents, which may fail.
Logout(c) ==
  /\ signedIn
  /\ api' = [api EXCEPT ![c] = [@ EXCEPT !.kind = "logout", !.at = "stopping"]]
  /\ UNCHANGED <<generation, inFlight>>

\* The form waits for its answer: one sign-in or sign-out at a time.
\* restoreSession, at the start of the application.
RestoreSession(c) ==
  /\ ~signedIn /\ generation = 0 /\ ResetSession
  /\ api' = [api EXCEPT ![c] = [@ EXCEPT !.kind = "restore", !.at = IF cookies = NoUser THEN "failed" ELSE "send"]]

Ask(c) ==
  /\ api[c].at = "new" /\ \A k \in ApiCalls : k < c => api[k].at # "new"
  /\ \/ LoadContext(c)
     \/ /\ \A k \in ApiCalls : api[k].kind # "context" => api[k].at \in {"done", "failed"}
        /\ Logout(c) \/ RestoreSession(c) \/ \E u \in Users : Login(c, u)
  /\ UNCHANGED <<cookies, server, signedIn, context, refreshing, stray>>

\* Faulty variant of SameSession: what was loaded is kept whatever the session is now.
AnySession(c) == TRUE

\* The generation of the call is still the current one.
SameSession(c) == api[c].of = generation

\* cached: the entry of its generation, the load under way, or a load of its own.
ReadContext(c) ==
  /\ api[c].at = "read"
  /\ IF ~SameSession(c) THEN Go(c, "failed") /\ UNCHANGED inFlight
     ELSE IF context[api[c].of] # NoUser
     THEN /\ api' = [api EXCEPT ![c] = [Place(@, "done") EXCEPT !.got = generation]]
          /\ UNCHANGED inFlight
     ELSE IF inFlight # NoCall THEN Go(c, "joined") /\ UNCHANGED inFlight
     ELSE Go(c, "send") /\ inFlight' = c
  /\ UNCHANGED <<cookies, server, signedIn, generation, context, refreshing, stray>>

StopAgents(c) ==
  /\ api[c].at = "stopping"
  /\ \/ Go(c, "send") /\ UNCHANGED <<generation, inFlight>>
     \/ Go(c, "clear") /\ ResetSession
  /\ UNCHANGED <<cookies, server, signedIn, context, refreshing, stray>>

-----------------------------------------------------------------------------
(* Requests *)

\* send, once the keys of the session have been agreed: with the cookies of now.
Send(c) ==
  /\ api[c].at = "send"
  /\ api' = [api EXCEPT ![c].at = "answer", ![c].as = cookies]
  /\ stray' = (stray \/ \E k \in ApiCalls : api[k].at = "clear")
  /\ UNCHANGED <<cookies, server, signedIn, generation, inFlight, context, refreshing>>

\* The answer, and what follows it; a 401 of the context is refreshed once, a
\* 401 of a restored session at once.
Answer(c) ==
  LET granted == api[c].as \in access IN
  /\ api[c].at = "answer"
  /\ \/ /\ api[c].kind = "context" /\ granted
        /\ api' = [api EXCEPT ![c].at = "keep", ![c].answer = api[c].as]
        /\ UNCHANGED <<cookies, server, signedIn, generation, inFlight>>
     \/ /\ api[c].kind = "context" /\ ~granted
        /\ Go(c, IF api[c].retried THEN "expire" ELSE "refresh")
        /\ UNCHANGED <<cookies, server, signedIn, generation, inFlight>>
     \/ /\ api[c].kind = "login" /\ Go(c, "done")
        /\ cookies' = api[c].answer
        /\ access' = access \cup {cookies'} /\ refreshable' = refreshable \cup {cookies'}
        /\ signedIn' = TRUE /\ UNCHANGED <<generation, inFlight>>
     \/ /\ api[c].kind = "logout" /\ Go(c, "clear")
        /\ \/ access' = access \ {api[c].as} /\ refreshable' = refreshable \ {api[c].as}
           \/ UNCHANGED server
        /\ UNCHANGED <<cookies, signedIn>> /\ ResetSession
     \/ /\ api[c].kind = "restore" /\ granted
        /\ Go(c, "done") /\ signedIn' = TRUE
        /\ UNCHANGED <<cookies, server, generation, inFlight>>
     \/ /\ api[c].kind = "restore" /\ ~granted
        /\ IF api[c].as \in refreshable
           THEN /\ Go(c, "done") /\ signedIn' = TRUE
                /\ cookies' = api[c].as /\ access' = access \cup {api[c].as}
           ELSE Go(c, "expire") /\ UNCHANGED <<cookies, access, signedIn>>
        /\ UNCHANGED <<refreshable, generation, inFlight>>
     \/ /\ api[c].kind # "logout" /\ FailWith(c)
        /\ UNCHANGED <<cookies, server, signedIn, generation>>
  /\ UNCHANGED <<context, refreshing, stray>>

\* The continuation of the load: kept for its generation, then handed to all
\* who wait for it.
Keep(c) ==
  /\ \/ /\ api[c].at \in {"keep", "kept"} /\ ~SameSession(c)
        /\ FailWith(c) /\ UNCHANGED context
     \/ /\ api[c].at = "keep" /\ SameSession(c) /\ Go(c, "kept")
        /\ context' = [context EXCEPT ![api[c].of] = api[c].answer]
        /\ UNCHANGED inFlight
     \/ /\ api[c].at = "kept" /\ SameSession(c)
        /\ api' = [k \in ApiCalls |-> IF k \in Waiting(c)
                      THEN [Place(api[k], "done") EXCEPT !.got = generation] ELSE api[k]]
        /\ inFlight' = IF inFlight = c THEN NoCall ELSE inFlight
        /\ UNCHANGED context
  /\ UNCHANGED <<cookies, server, signedIn, generation, refreshing, stray>>

\* refreshSession: one for all who wait; its answer brings new cookies, also
\* after a sign-out, and its failure ends the session of that moment.
Refresh ==
  /\ \/ /\ refreshing.at = "no" /\ \E c \in ApiCalls : api[c].at = "refresh"
        /\ refreshing' = [refreshing EXCEPT !.at = "send"]
        /\ UNCHANGED <<cookies, access, api, inFlight, stray>>
     \/ /\ refreshing.at = "send" /\ refreshing' = [at |-> "answer", as |-> cookies]
        /\ UNCHANGED <<cookies, access, api, inFlight, stray>>
     \/ /\ refreshing.at = "answer" /\ refreshing.as \in refreshable
        /\ cookies' = refreshing.as /\ access' = access \cup {refreshing.as}
        /\ stray' = (stray \/ cookies # refreshing.as \/ \E k \in ApiCalls : api[k].at = "clear")
        /\ api' = [c \in ApiCalls |-> IF api[c].at = "refresh"
                                      THEN [api[c] EXCEPT !.at = "send", !.retried = TRUE] ELSE api[c]]
        /\ refreshing' = NotRefreshing /\ UNCHANGED inFlight
     \/ /\ refreshing.at = "answer" /\ refreshing' = [refreshing EXCEPT !.at = "expire"]
        /\ UNCHANGED <<cookies, access, api, inFlight, stray>>
  /\ UNCHANGED <<refreshable, signedIn, generation, context>>

\* clearSession: the cache, then the cookies; the context was reset before it.
ClearSession(c) ==
  /\ api[c].at = "clear" /\ Go(c, "done")
  /\ context' = [g \in DOMAIN context |-> NoUser]
  /\ cookies' = NoUser /\ signedIn' = FALSE
  /\ UNCHANGED <<server, generation, inFlight, refreshing, stray>>

\* expireSession, of the refresh or of a call: it clears the session first and
\* resets the context after it.
ExpireSession ==
  /\ \/ refreshing.at = "expire" /\ refreshing' = [refreshing EXCEPT !.at = "reset"] /\ UNCHANGED api
     \/ \E c \in ApiCalls : api[c].at = "expire" /\ Go(c, "reset") /\ UNCHANGED refreshing
  /\ cookies' = NoUser /\ context' = [g \in DOMAIN context |-> NoUser]
  /\ UNCHANGED <<server, signedIn, generation, inFlight, stray>>

OnSessionExpired ==
  /\ ResetSession /\ signedIn' = FALSE
  /\ \E over \in SUBSET ApiCalls :
       /\ \/ /\ refreshing.at = "reset" /\ refreshing' = NotRefreshing
             /\ over = {c \in ApiCalls : api[c].at = "refresh"}
          \/ /\ \E c \in ApiCalls : api[c].at = "reset" /\ over = {c}
             /\ UNCHANGED refreshing
       /\ api' = [k \in ApiCalls |-> IF \E c \in over : k \in Waiting(c)
                                     THEN Place(api[k], "failed") ELSE api[k]]
  /\ UNCHANGED <<cookies, server, context, stray>>

\* The access token of an account runs out.
AccessExpires ==
  /\ \E u \in access :
       access' = access \ {u} /\ \E lost \in SUBSET {u} : refreshable' = refreshable \ lost
  /\ UNCHANGED <<cookies, signedIn, generation, inFlight, context, refreshing, api, stray>>

ApiStep ==
  \/ \E c \in ApiCalls : ReadContext(c) \/ StopAgents(c) \/ Send(c) \/ Answer(c) \/ Keep(c) \/ ClearSession(c)
  \/ Refresh \/ ExpireSession \/ OnSessionExpired

ApiNext == ApiStep \/ AccessExpires \/ \E c \in ApiCalls : Ask(c)

ApiSpec == ApiInit /\ [][ApiNext]_apiVars

-----------------------------------------------------------------------------
\* The context of one session is not shown in another ("Invalidates requests
\* started under the previous authenticated session"): what a call gets was
\* loaded in its own generation, which is still the current one; and it is the
\* account of the cookies, unless a request or a refresh crossed a sign-out.
SessionsApart ==
  /\ \A c \in ApiCalls :
       api[c].kind = "context" /\ api[c].at = "done" => api[c].got = api[c].of
  /\ ~stray /\ cookies # NoUser => context[generation] \in {NoUser, cookies}
=============================================================================
