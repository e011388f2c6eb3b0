------------------------------ MODULE AuthSession ------------------------------
(***************************************************************************)
(* The session of one browser page: the token pair in localStorage, the    *)
(* user that the page shows, the calls of the API that are in flight, and  *)
(* the refresh that they share (api/client.ts, api/tokenStorage.ts,        *)
(* AuthContext.tsx), against the token checks of the API (deps.py,         *)
(* endpoints/auth.py). JavaScript runs to completion: an action is what    *)
(* happens between two answers, with all the promises this resolves.       *)
(*                                                                         *)
(* A pair holds the access and the refresh token that are issued together; *)
(* pairs are numbered as they are issued, and 0 stands for no pair. A      *)
(* refreshed pair continues the session of the pair it was asked for with. *)
(***************************************************************************)
EXTENDS Naturals, Sequences, FiniteSets

CONSTANTS
    Users,
    Nobody,
    Calls,         \* calls that the page's views may have in flight at once
    Me,            \* the call of /auth/me that loading and login wait for
    MaxLogins,     \* bound on successful logins
    MaxStale,      \* bound on access tokens that die
    MaxFaults,     \* bound on calls that fail on the way or inside the API
    MaxReloads     \* bound on reloads of the page

ASSUME NobodyAssumption == Nobody \notin Users

ASSUME MeAssumption == Me \notin Calls

ASSUME BoundsAssumption == {MaxLogins, MaxStale, MaxFaults, MaxReloads} \subseteq Nat

VARIABLES
    active,     \* users whose account is active
    owner,      \* owner[s]: the user of session s
    session,    \* session[n]: the session that pair n belongs to
    age,        \* age[n]: which tokens of pair n are still good
    stored,     \* the pair in localStorage
    shown,      \* the user that the page shows
    page,       \* "ready", or "starting" until the answer for Me
    refresh,    \* the shared refreshRequest
    call,       \* progress of every call
    faults,
    reloads,
    crossed     \* auxiliary: an answer of one session was acted upon in another

vars == <<active, owner, session, age, stored, shown, page, refresh, call, faults, reloads,
          crossed>>

server == <<active, owner, session, age>>

AllCalls == Calls \union {Me}

\* "stale": the access token is no longer accepted. "dead": the refresh token neither.
Age == {"fresh", "stale", "dead"}

NoRefresh == [pc |-> "none", of |-> 0, new |-> 0]

\* first and sent: the pair that the call was made with, and repeated with.
NoCall == [pc |-> "idle", first |-> 0, sent |-> 0, retried |-> FALSE, reply |-> "none"]

Pairs == 1 .. Len(session)

Numbers == 0 .. Len(session)

CallRecord ==
    [pc : {"idle", "sent", "answered", "waiting", "refused"},
     first : Numbers, sent : Numbers, retried : BOOLEAN,
     reply : {"none", "200", "401", "403", "error"}]

RefreshRecord ==
    [pc : {"none", "sent", "granted", "refused"}, of : Numbers, new : Numbers]

SessionOf(n) == IF n = 0 THEN 0 ELSE session[n]

Owner(n) == owner[session[n]]

InFlight(c) == call[c].pc # "idle"

Waiting == {c \in AllCalls : call[c].pc = "waiting"}

\* Numbers of pairs that exist, and what accompanies each stage of the page and
\* of the refresh.
TypeOK ==
    /\ active \subseteq Users
    /\ owner \in Seq(Users)
    /\ session \in Seq(Nat) /\ \A n \in Pairs : session[n] \in 1 .. Len(owner)
    /\ age \in Seq(Age) /\ Len(age) = Len(session)
    /\ stored \in Numbers
    /\ shown \in Users \union {Nobody}
    /\ page \in {"ready", "starting"}
    /\ refresh \in RefreshRecord
    /\ call \in [AllCalls -> CallRecord]
    /\ faults \in 0 .. MaxFaults /\ reloads \in 0 .. MaxReloads
    /\ crossed \in BOOLEAN
    /\ page = "starting" <=> InFlight(Me)
    /\ page = "starting" => shown = Nobody
    /\ refresh.pc = "none" => Waiting = {}

Init ==
    /\ active = Users
    /\ owner = <<>> /\ session = <<>> /\ age = <<>>
    /\ stored = 0 /\ shown = Nobody /\ page = "ready"
    /\ refresh = NoRefresh
    /\ call = [c \in AllCalls |-> NoCall]
    /\ faults = 0 /\ reloads = 0 /\ crossed = FALSE

-----------------------------------------------------------------------------
\* The API.

Stale == {n \in Pairs : age[n] # "fresh"}

\* The refresh token of pair n will be honoured.
Renewable(n) == age[n] # "dead" /\ Owner(n) \in active

\* An access token expires, or names a role that its user no longer has.
AccessTokenDies(n) ==
    /\ age[n] = "fresh"
    /\ Cardinality(Stale) < MaxStale
    /\ age' = [age EXCEPT ![n] = "stale"]
    /\ UNCHANGED <<active, owner, session, stored, shown, page, refresh, call, faults, reloads,
                   crossed>>

\* A refresh token expires, which lives longer than the access token it came with.
RefreshTokenDies(n) ==
    /\ age[n] = "stale"
    /\ age' = [age EXCEPT ![n] = "dead"]
    /\ UNCHANGED <<active, owner, session, stored, shown, page, refresh, call, faults, reloads,
                   crossed>>

Deactivate(u) ==
    /\ u \in active
    /\ active' = active \ {u}
    /\ UNCHANGED <<owner, session, age, stored, shown, page, refresh, call, faults, reloads,
                   crossed>>

\* get_current_user: an expired token is refused before the account is looked
\* at, an old role after it.
Verdicts(n) ==
    IF n = 0 THEN {"401"}
    ELSE (IF age[n] = "fresh" THEN IF Owner(n) \in active THEN {"200"} ELSE {"403"}
          ELSE IF Owner(n) \in active THEN {"401"} ELSE {"401", "403"})

HandleCall(c) ==
    /\ call[c].pc = "sent"
    /\ \E reply \in Verdicts(call[c].sent) :
          call' = [call EXCEPT ![c].pc = "answered", ![c].reply = reply]
    /\ UNCHANGED <<server, stored, shown, page, refresh, faults, reloads, crossed>>

\* The call gets no answer, or one that is neither a success nor 401 or 403.
LoseCall(c) ==
    /\ call[c].pc = "sent" /\ faults < MaxFaults
    /\ call' = [call EXCEPT ![c].pc = "answered", ![c].reply = "error"]
    /\ faults' = faults + 1
    /\ UNCHANGED <<server, stored, shown, page, refresh, reloads, crossed>>

\* refresh_tokens: a new pair for the session; the old one is not revoked.
HandleRefresh ==
    /\ refresh.pc = "sent"
    /\ IF Renewable(refresh.of)
       THEN /\ session' = Append(session, SessionOf(refresh.of))
            /\ age' = Append(age, "fresh")
            /\ refresh' = [refresh EXCEPT !.pc = "granted", !.new = Len(session) + 1]
       ELSE /\ refresh' = [refresh EXCEPT !.pc = "refused"]
            /\ UNCHANGED <<session, age>>
    /\ UNCHANGED <<active, owner, stored, shown, page, call, faults, reloads, crossed>>

LoseRefresh ==
    /\ refresh.pc = "sent" /\ faults < MaxFaults
    /\ refresh' = [refresh EXCEPT !.pc = "refused"]
    /\ faults' = faults + 1
    /\ UNCHANGED <<server, stored, shown, page, call, reloads, crossed>>

-----------------------------------------------------------------------------
\* The page: calls, their answers, and the shared refresh.

\* n is of another session than the stored one.
Foreign(n) == stored # 0 /\ SessionOf(n) # SessionOf(stored)

Request(n) == [NoCall EXCEPT !.pc = "sent", !.first = n, !.sent = n]

\* A view makes a call; without a stored session it goes out without a token.
IssueCall(c) ==
    /\ call[c].pc = "idle" /\ shown # Nobody
    /\ call' = [call EXCEPT ![c] = Request(stored)]
    /\ UNCHANGED <<server, stored, shown, page, refresh, faults, reloads, crossed>>

\* Mutant: the loading screen ends with a success only.
ReceiveAnswerLoading(c) ==
    /\ call[c].pc = "answered" /\ call[c].reply # "401"
    /\ call' = [call EXCEPT ![c] = NoCall]
    /\ IF c # Me THEN UNCHANGED <<stored, shown, page, crossed>>
       ELSE IF call[c].reply = "200"
            THEN shown' = Owner(call[c].sent) /\ page' = "ready" /\ UNCHANGED <<stored, crossed>>
            ELSE /\ stored' = 0
                 /\ crossed' = (crossed \/ Foreign(call[c].sent))
                 /\ UNCHANGED <<shown, page>>
    /\ UNCHANGED <<server, refresh, faults, reloads>>

\* An answer that is not 401 goes to the caller. Loading and login show the user
\* that the API names, and any failure ends them with the session.
ReceiveAnswer(c) ==
    /\ call[c].pc = "answered" /\ call[c].reply # "401"
    /\ call' = [call EXCEPT ![c] = NoCall]
    /\ IF c # Me THEN UNCHANGED <<stored, shown, page, crossed>>
       ELSE /\ page' = "ready"
            /\ IF call[c].reply = "200"
               THEN shown' = Owner(call[c].sent) /\ UNCHANGED <<stored, crossed>>
               ELSE /\ shown' = Nobody /\ stored' = 0
                    /\ crossed' = (crossed \/ Foreign(call[c].sent))
    /\ UNCHANGED <<server, refresh, faults, reloads>>

\* A first 401 waits for the refresh that is under way, whatever session it is
\* of, or starts one with the refresh token that is stored now.
WaitForRefresh(c) ==
    /\ call[c].pc = "answered" /\ call[c].reply = "401"
    /\ ~call[c].retried /\ stored # 0
    /\ call' = [call EXCEPT ![c].pc = "waiting"]
    /\ refresh' = IF refresh.pc # "none" THEN refresh
                  ELSE [NoRefresh EXCEPT !.pc = "sent", !.of = stored]
    /\ crossed' = (crossed \/ Foreign(call[c].sent))
    /\ UNCHANGED <<server, stored, shown, page, faults, reloads>>

\* No refresh: the body of the answer is read before the session is cleared.
GiveUp(c) ==
    /\ call[c].pc = "answered" /\ call[c].reply = "401"
    /\ call[c].retried \/ stored = 0
    /\ call' = [call EXCEPT ![c].pc = "refused"]
    /\ UNCHANGED <<server, stored, shown, page, refresh, faults, reloads, crossed>>

\* apiRequest clears the session, whichever is stored by now, and throws.
FailCall(c) ==
    /\ call[c].pc = "refused"
    /\ call' = [call EXCEPT ![c] = NoCall]
    /\ stored' = 0
    /\ crossed' = (crossed \/ Foreign(call[c].sent))
    /\ IF c = Me THEN shown' = Nobody /\ page' = "ready" ELSE UNCHANGED <<shown, page>>
    /\ UNCHANGED <<server, refresh, faults, reloads>>

\* Mutant: the calls are repeated with the token that was refused.
AdoptRefreshRepeating ==
    /\ refresh.pc = "granted"
    /\ stored' = refresh.new
    /\ call' = [c \in AllCalls |->
                  IF c \notin Waiting THEN call[c]
                  ELSE [call[c] EXCEPT !.pc = "sent", !.retried = TRUE, !.reply = "none"]]
    /\ refresh' = NoRefresh
    /\ crossed' = (crossed \/ SessionOf(refresh.of) # SessionOf(stored))
    /\ UNCHANGED <<server, shown, page, faults, reloads>>

\* The refresh is answered: the new pair is stored, although another session or
\* none may be stored by now, and all that wait repeat their call with it.
AdoptRefresh ==
    /\ refresh.pc = "granted"
    /\ stored' = refresh.new
    /\ call' = [c \in AllCalls |->
                  IF c \notin Waiting THEN call[c]
                  ELSE [call[c] EXCEPT !.pc = "sent", !.sent = refresh.new, !.retried = TRUE,
                                       !.reply = "none"]]
    /\ refresh' = NoRefresh
    /\ crossed' = (crossed \/ SessionOf(refresh.of) # SessionOf(stored))
    /\ UNCHANGED <<server, shown, page, faults, reloads>>

\* Mutant: nobody tells the calls that wait.
AbandonRefreshSilently ==
    /\ refresh.pc = "refused"
    /\ stored' = 0
    /\ refresh' = NoRefresh
    /\ crossed' = (crossed \/ Foreign(refresh.of))
    /\ UNCHANGED <<server, shown, page, call, faults, reloads>>

\* It failed: the session is cleared, and all that wait give up.
AbandonRefresh ==
    /\ refresh.pc = "refused"
    /\ stored' = 0
    /\ call' = [c \in AllCalls |->
                  IF c \in Waiting THEN [call[c] EXCEPT !.pc = "refused"] ELSE call[c]]
    /\ refresh' = NoRefresh
    /\ crossed' = (crossed \/ Foreign(refresh.of))
    /\ UNCHANGED <<server, shown, page, faults, reloads>>

-----------------------------------------------------------------------------
\* The user.

\* The credentials are accepted, the pair is stored, and /auth/me is asked.
Login(u) ==
    /\ shown = Nobody /\ page = "ready"
    /\ u \in active /\ Len(owner) < MaxLogins
    /\ owner' = Append(owner, u)
    /\ session' = Append(session, Len(owner) + 1)
    /\ age' = Append(age, "fresh")
    /\ stored' = Len(session) + 1
    /\ call' = [call EXCEPT ![Me] = Request(Len(session) + 1)]
    /\ page' = "starting"
    /\ UNCHANGED <<active, shown, refresh, faults, reloads, crossed>>

\* A 401 for the credentials clears the session like every other.
LoginRefused ==
    /\ shown = Nobody /\ page = "ready"
    /\ stored' = 0
    /\ UNCHANGED <<server, shown, page, refresh, call, faults, reloads, crossed>>

\* Mutant: the page forgets the user and keeps the tokens.
LogoutView ==
    /\ shown # Nobody
    /\ shown' = Nobody
    /\ UNCHANGED <<server, stored, page, refresh, call, faults, reloads, crossed>>

\* Calls and the refresh go on.
Logout ==
    /\ shown # Nobody
    /\ shown' = Nobody /\ stored' = 0
    /\ UNCHANGED <<server, page, refresh, call, faults, reloads, crossed>>

\* All that is in memory is lost; a stored session is restored.
Reload ==
    /\ reloads < MaxReloads
    /\ reloads' = reloads + 1
    /\ shown' = Nobody /\ refresh' = NoRefresh
    /\ IF stored = 0
       THEN page' = "ready" /\ call' = [c \in AllCalls |-> NoCall]
       ELSE /\ page' = "starting"
            /\ call' = [c \in AllCalls |-> IF c = Me THEN Request(stored) ELSE NoCall]
    /\ UNCHANGED <<server, stored, faults, crossed>>

-----------------------------------------------------------------------------

CallStep(c) ==
    HandleCall(c) \/ ReceiveAnswer(c) \/ WaitForRefresh(c) \/ GiveUp(c) \/ FailCall(c)

RefreshStep == HandleRefresh \/ AdoptRefresh \/ AbandonRefresh

Next ==
    \/ \E c \in AllCalls : CallStep(c) \/ LoseCall(c)
    \/ RefreshStep \/ LoseRefresh
    \/ \E c \in Calls : IssueCall(c)
    \/ \E u \in Users : Login(u) \/ Deactivate(u)
    \/ LoginRefused \/ Logout \/ Reload
    \/ \E n \in Pairs : AccessTokenDies(n) \/ RefreshTokenDies(n)

Spec == Init /\ [][Next]_vars

\* Every call is answered in the end, and the browser runs the callbacks.
FairSpec ==
    /\ Spec
    /\ \A c \in AllCalls : WF_vars(CallStep(c))
    /\ WF_vars(RefreshStep)

-----------------------------------------------------------------------------

(***************************************************************************)
(* As long as no answer of one session is acted upon in another, the stored*)
(* session is that of the user who is shown, nothing is stored after a     *)
(* logout, and a call that is repeated is repeated as the user who made it,*)
(* however many calls share a refresh.                                     *)
(***************************************************************************)
SessionsDoNotMix ==
    ~crossed =>
        /\ shown # Nobody /\ stored # 0 => Owner(stored) = shown
        /\ shown = Nobody /\ page = "ready" => stored = 0
        /\ \A c \in AllCalls : SessionOf(call[c].sent) = SessionOf(call[c].first)

(***************************************************************************)
(* An expired access token costs nobody the session: while the refresh     *)
(* token is good and no call is lost, only a logout ends it, or a second   *)
(* expiry between the refresh and the repeated call.                       *)
(***************************************************************************)
SessionLostForAReason ==
    [][stored # 0 /\ stored' = 0 /\ ~crossed' =>
         \/ Logout
         \/ ~Renewable(stored)
         \/ faults > 0
         \/ \E c \in AllCalls :
               /\ call[c].pc = "refused" /\ call[c].sent # call[c].first
               /\ age[call[c].sent] # "fresh"]_vars

(***************************************************************************)
(* No call hangs on the shared refresh: each is answered or fails, and the *)
(* page leaves its loading screen.                                         *)
(***************************************************************************)
EveryCallSettles == \A c \in AllCalls : InFlight(c) ~> ~InFlight(c)

=============================================================================
