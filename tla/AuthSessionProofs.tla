--------------------------- MODULE AuthSessionProofs ---------------------------
(***************************************************************************)
(* Proofs about AuthSession: types, that sessions do not mix as long as no *)
(* answer crosses from one to another, and why a session can be lost.      *)
(***************************************************************************)
EXTENDS AuthSession, TLAPS

USE MeAssumption, NobodyAssumption

\* What a step may do to the tables of the API: pairs and sessions are added,
\* tokens die, accounts are deactivated.
Grows ==
    /\ Len(session) =< Len(session)' /\ Len(owner) =< Len(owner)'
    /\ \A n \in Pairs : /\ session'[n] = session[n]
                        /\ age[n] # "fresh" => age'[n] # "fresh"
                        /\ age[n] = "dead" => age'[n] = "dead"
    /\ \A s \in 1 .. Len(owner) : owner'[s] = owner[s]
    /\ active' \subseteq active

\* The types of the tables.
ServerOK ==
    /\ active \subseteq Users
    /\ owner \in Seq(Users)
    /\ session \in Seq(Nat) /\ \A n \in Pairs : session[n] \in 1 .. Len(owner)
    /\ age \in Seq(Age) /\ Len(age) = Len(session)

\* A call is of pairs that exist; who is shown was named by the API.
CallOK(c) ==
    /\ call[c] \in CallRecord
    /\ call[c].pc = "answered" /\ call[c].reply = "200" => call[c].sent # 0
    /\ call[c].pc = "waiting" => refresh.pc # "none"

\* The types of the page, with what is shared by its calls.
PageOK ==
    /\ stored \in Numbers
    /\ shown \in Users \union {Nobody}
    /\ page \in {"ready", "starting"}
    /\ refresh \in RefreshRecord
    /\ refresh.pc # "none" => refresh.of # 0
    /\ refresh.pc = "granted" => refresh.new # 0
    /\ faults \in 0 .. MaxFaults /\ reloads \in 0 .. MaxReloads
    /\ crossed \in BOOLEAN
    /\ page = "starting" <=> InFlight(Me)
    /\ page = "starting" => shown = Nobody

Typed ==
    /\ ServerOK /\ PageOK
    /\ DOMAIN call = AllCalls /\ call = [c \in AllCalls |-> call[c]]
    /\ \A c \in AllCalls : CallOK(c)

LEMMA TypedIsTypeOK == Typed => TypeOK
BY DEF Typed, ServerOK, PageOK, CallOK, TypeOK, Waiting

-----------------------------------------------------------------------------

LEMMA NoCallTyped == NoCall \in CallRecord /\ NoCall.pc = "idle" /\ NoRefresh \in RefreshRecord
                     /\ NoRefresh.pc = "none"
<1>1. 0 \in Numbers
  BY DEF Numbers
<1> QED BY <1>1 DEF NoCall, NoRefresh, CallRecord, RefreshRecord

LEMMA InitTyped == Init => Typed
<1> SUFFICES ASSUME Init PROVE Typed
  OBVIOUS
<1>1. ServerOK /\ stored \in Numbers
  BY DEF Init, ServerOK, Pairs, Numbers
<1>2. call = [c \in AllCalls |-> NoCall] /\ Me \in AllCalls
  BY DEF Init, AllCalls
<1>3. 0 \in 0 .. MaxFaults /\ 0 \in 0 .. MaxReloads
  BY BoundsAssumption
<1>4. PageOK
  BY <1>1, <1>2, <1>3, NoCallTyped DEF Init, PageOK, InFlight
<1> QED BY <1>1, <1>2, <1>4, NoCallTyped DEF Typed, CallOK, Init

\* Steps that only deal with the page leave the tables alone.
LEMMA SameServer == ASSUME Typed, UNCHANGED server PROVE Grows /\ ServerOK'
BY DEF Grows, server, Typed, ServerOK, Pairs

\* A session, or another pair of one, is added.
LEMMA PairAdded ==
    ASSUME Typed, NEW s \in 1 .. Len(owner)', session' = Append(session, s),
           age' = Append(age, "fresh"), UNCHANGED active,
           \/ UNCHANGED owner
           \/ \E u \in Users : owner' = Append(owner, u)
    PROVE  /\ Grows /\ ServerOK'
           /\ Len(session)' = Len(session) + 1
           /\ session'[Len(session) + 1] = s /\ age'[Len(session) + 1] = "fresh"
<1>1. ServerOK /\ Len(owner) \in Nat /\ Len(session) \in Nat
  BY DEF Typed, ServerOK
<1>2. /\ owner' \in Seq(Users) /\ Len(owner) =< Len(owner)' /\ Len(owner)' \in Nat
      /\ \A t \in 1 .. Len(owner) : owner'[t] = owner[t]
  <2>1. CASE UNCHANGED owner
    BY <1>1, <2>1 DEF ServerOK
  <2>2. ASSUME NEW u \in Users, owner' = Append(owner, u) PROVE <1>2!:
    BY <1>1, <2>2 DEF ServerOK
  <2> QED BY <2>1, <2>2
<1>3. /\ session' \in Seq(Nat) /\ Len(session)' = Len(session) + 1
      /\ \A n \in 1 .. Len(session) : session'[n] = session[n]
      /\ session'[Len(session) + 1] = s
  BY <1>1, <1>2 DEF ServerOK
<1>4. /\ age' \in Seq(Age) /\ Len(age)' = Len(age) + 1
      /\ \A n \in 1 .. Len(age) : age'[n] = age[n]
      /\ age'[Len(age) + 1] = "fresh"
  BY <1>1 DEF ServerOK, Age
<1>5. \A n \in 1 .. Len(session)' : session'[n] \in 1 .. Len(owner)'
  <2> SUFFICES ASSUME NEW n \in 1 .. Len(session) + 1 PROVE session'[n] \in 1 .. Len(owner)'
    BY <1>3
  <2>1. CASE n = Len(session) + 1
    BY <2>1, <1>3
  <2>2. CASE n \in 1 .. Len(session)
    BY <2>2, <1>1, <1>2, <1>3 DEF ServerOK, Pairs
  <2> QED BY <1>1, <2>1, <2>2
<1> QED BY <1>1, <1>2, <1>3, <1>4, <1>5 DEF Grows, ServerOK, Pairs

\* A token of pair m dies.
LEMMA PairAges ==
    ASSUME Typed, NEW m \in Pairs, NEW a \in {"stale", "dead"}, age' = [age EXCEPT ![m] = a],
           age[m] # "dead", UNCHANGED <<active, owner, session>>
    PROVE  Grows /\ ServerOK'
BY DEF Grows, ServerOK, Typed, Pairs, Age

\* Numbers stay numbers.
LEMMA RecordsStay ==
    ASSUME Grows, Len(session) \in Nat, Len(session)' \in Nat
    PROVE  /\ Numbers \subseteq Numbers'
           /\ CallRecord \subseteq CallRecord' /\ RefreshRecord \subseteq RefreshRecord'
<1>1. Numbers \subseteq Numbers'
  BY DEF Grows, Numbers
<1> QED BY <1>1 DEF CallRecord, RefreshRecord

-----------------------------------------------------------------------------

\* What is to be shown of a step: the page's types, and those of the calls it moves.
LEMMA TypedStep ==
    ASSUME Typed, Grows, ServerOK', PageOK',
           call' = [c \in AllCalls |-> call'[c]],
           \A c \in AllCalls :
              \/ CallOK(c)'
              \/ call'[c] = call[c] /\ (call[c].pc = "waiting" => refresh'.pc # "none")
    PROVE  Typed'
<1>1. CallRecord \subseteq CallRecord'
  BY RecordsStay DEF Typed, ServerOK
<1>2. ASSUME NEW c \in AllCalls PROVE CallOK(c)'
  BY <1>1 DEF Typed, CallOK
<1> QED BY <1>2 DEF Typed

\* What is to be shown of the page, in a step that leaves the pairs alone.
LEMMA PageMoves ==
    ASSUME Typed, UNCHANGED session, stored' \in {stored, 0} \union Numbers,
           shown' \in Users \union {Nobody}, page' \in {"ready", "starting"},
           refresh' \in RefreshRecord, refresh'.pc # "none" => refresh'.of # 0,
           refresh'.pc = "granted" => refresh'.new # 0,
           faults' \in 0 .. MaxFaults, reloads' \in 0 .. MaxReloads, crossed' \in BOOLEAN,
           page' = "starting" <=> call'[Me].pc # "idle", page' = "starting" => shown' = Nobody
    PROVE  PageOK'
<1>1. Numbers' = Numbers /\ RefreshRecord' = RefreshRecord
  BY DEF Numbers, RefreshRecord
<1>2. 0 \in Numbers /\ stored \in Numbers
  BY DEF Typed, ServerOK, PageOK, Numbers
<1> QED BY <1>1, <1>2 DEF PageOK, InFlight

\* A step that moves one call.
LEMMA CallMoves ==
    ASSUME Typed, UNCHANGED server, NEW c \in AllCalls, NEW k, call' = [call EXCEPT ![c] = k],
           k \in CallRecord, k.pc = "answered" /\ k.reply = "200" => k.sent # 0,
           k.pc = "waiting" => refresh'.pc # "none",
           refresh.pc # "none" => refresh'.pc # "none",
           PageOK'
    PROVE  Typed' /\ Grows
<1>1. Grows /\ ServerOK'
  BY SameServer
<1>2. CallRecord' = CallRecord
  BY DEF CallRecord, Numbers, server
<1>3. CallOK(c)'
  BY <1>2 DEF CallOK, Typed
<1>4. \A x \in AllCalls \ {c} : call'[x] = call[x] /\ (call[x].pc = "waiting" => refresh'.pc # "none")
  BY DEF Typed, CallOK
<1>5. call' = [x \in AllCalls |-> call'[x]]
  BY DEF Typed
<1> QED BY <1>1, <1>3, <1>4, <1>5, TypedStep

LEMMA HandleCallTyped == ASSUME Typed, NEW c \in AllCalls, HandleCall(c) PROVE Typed' /\ Grows
<1>1. PICK reply \in Verdicts(call[c].sent) :
         call' = [call EXCEPT ![c].pc = "answered", ![c].reply = reply]
  BY DEF HandleCall
<1>2. reply \in {"200", "401", "403"} /\ (reply = "200" => call[c].sent # 0)
  BY DEF Verdicts
<1> DEFINE k == [call[c] EXCEPT !.pc = "answered", !.reply = reply]
<1>3. call' = [call EXCEPT ![c] = k]
  BY <1>1
<1>4. k \in CallRecord /\ k.pc = "answered" /\ k.reply = reply /\ k.sent = call[c].sent
  BY <1>2 DEF Typed, CallOK, CallRecord
<1>5. call'[Me].pc # "idle" <=> call[Me].pc # "idle"
  <2> HIDE DEF k
  <2> QED BY <1>3, <1>4 DEF HandleCall, Typed, AllCalls
<1>6. PageOK'
  BY <1>5, PageMoves DEF HandleCall, Typed, PageOK, InFlight, server
<1> HIDE DEF k
<1> QED BY <1>2, <1>3, <1>4, <1>6, CallMoves DEF HandleCall

LEMMA LoseCallTyped == ASSUME Typed, NEW c \in AllCalls, LoseCall(c) PROVE Typed' /\ Grows
<1> DEFINE k == [call[c] EXCEPT !.pc = "answered", !.reply = "error"]
<1>1. call' = [call EXCEPT ![c] = k]
  BY DEF LoseCall
<1>2. k \in CallRecord /\ k.pc = "answered" /\ k.reply = "error"
  BY DEF Typed, CallOK, CallRecord
<1> HIDE DEF k
<1>3. call'[Me].pc # "idle" <=> call[Me].pc # "idle"
  BY <1>1, <1>2 DEF LoseCall, Typed, AllCalls
<1>4. faults' \in 0 .. MaxFaults
  BY BoundsAssumption DEF LoseCall, Typed, PageOK
<1>5. PageOK'
  BY <1>3, <1>4, PageMoves DEF LoseCall, Typed, PageOK, InFlight, server
<1> QED BY <1>1, <1>2, <1>5, CallMoves DEF LoseCall

LEMMA IssueCallTyped == ASSUME Typed, NEW c \in Calls, IssueCall(c) PROVE Typed' /\ Grows
<1> DEFINE k == Request(stored)
<1>1. call' = [call EXCEPT ![c] = k] /\ c \in AllCalls /\ c # Me
  BY DEF IssueCall, AllCalls
<1>2. k \in CallRecord /\ k.pc = "sent"
  BY NoCallTyped DEF Typed, PageOK, CallRecord, Request
<1> HIDE DEF k
<1>3. PageOK'
  BY <1>1, PageMoves DEF IssueCall, Typed, PageOK, InFlight, server, AllCalls
<1> QED BY <1>1, <1>2, <1>3, CallMoves DEF IssueCall

LEMMA ReceiveAnswerTyped == ASSUME Typed, NEW c \in AllCalls, ReceiveAnswer(c) PROVE Typed' /\ Grows
<1>1. call' = [call EXCEPT ![c] = NoCall]
  BY DEF ReceiveAnswer
<1>2. CASE c # Me
  <2>1. PageOK'
    BY <1>1, <1>2, PageMoves DEF ReceiveAnswer, Typed, PageOK, InFlight, server, AllCalls
  <2> QED BY <1>1, <2>1, NoCallTyped, CallMoves DEF ReceiveAnswer
<1>3. CASE c = Me
  <2>1. call'[Me].pc = "idle"
    BY <1>1, <1>3, NoCallTyped DEF Typed, AllCalls
  <2>2. call[c].reply = "200" => Owner(call[c].sent) \in Users
    <3> SUFFICES ASSUME call[c].reply = "200" PROVE Owner(call[c].sent) \in Users
      OBVIOUS
    <3>1. call[c].sent \in Pairs
      BY DEF ReceiveAnswer, Typed, CallOK, CallRecord, Numbers, Pairs, ServerOK
    <3> QED BY <3>1 DEF Typed, ServerOK, Owner
  <2>3. PageOK'
    BY <1>3, <2>1, <2>2, PageMoves DEF ReceiveAnswer, Typed, PageOK, server
  <2> QED BY <1>1, <2>3, NoCallTyped, CallMoves DEF ReceiveAnswer
<1> QED BY <1>2, <1>3

LEMMA WaitForRefreshTyped == ASSUME Typed, NEW c \in AllCalls, WaitForRefresh(c) PROVE Typed' /\ Grows
<1> DEFINE k == [call[c] EXCEPT !.pc = "waiting"]
<1>1. call' = [call EXCEPT ![c] = k]
  BY DEF WaitForRefresh
<1>2. k \in CallRecord /\ k.pc = "waiting"
  BY DEF Typed, CallOK, CallRecord
<1> HIDE DEF k
<1>3. call'[Me].pc # "idle" <=> call[Me].pc # "idle"
  BY <1>1, <1>2 DEF WaitForRefresh, Typed, AllCalls
<1> DEFINE new == [NoRefresh EXCEPT !.pc = "sent", !.of = stored]
<1>4. /\ refresh' = IF refresh.pc # "none" THEN refresh ELSE new
      /\ new \in RefreshRecord /\ new.pc = "sent" /\ new.of = stored /\ stored # 0
  BY NoCallTyped DEF WaitForRefresh, Typed, PageOK, RefreshRecord
<1> HIDE DEF new
<1>5. PageOK'
  BY <1>3, <1>4, PageMoves DEF WaitForRefresh, Typed, PageOK, InFlight, server
<1> QED BY <1>1, <1>2, <1>4, <1>5, CallMoves DEF WaitForRefresh

LEMMA GiveUpTyped == ASSUME Typed, NEW c \in AllCalls, GiveUp(c) PROVE Typed' /\ Grows
<1> DEFINE k == [call[c] EXCEPT !.pc = "refused"]
<1>1. call' = [call EXCEPT ![c] = k]
  BY DEF GiveUp
<1>2. k \in CallRecord /\ k.pc = "refused"
  BY DEF Typed, CallOK, CallRecord
<1> HIDE DEF k
<1>3. call'[Me].pc # "idle" <=> call[Me].pc # "idle"
  BY <1>1, <1>2 DEF GiveUp, Typed, AllCalls
<1>4. PageOK'
  BY <1>3, PageMoves DEF GiveUp, Typed, PageOK, InFlight, server
<1> QED BY <1>1, <1>2, <1>4, CallMoves DEF GiveUp

LEMMA FailCallTyped == ASSUME Typed, NEW c \in AllCalls, FailCall(c) PROVE Typed' /\ Grows
<1>1. call' = [call EXCEPT ![c] = NoCall]
  BY DEF FailCall
<1>2. PageOK'
  BY <1>1, NoCallTyped, PageMoves DEF FailCall, Typed, PageOK, InFlight, server, AllCalls
<1> QED BY <1>1, <1>2, NoCallTyped, CallMoves DEF FailCall

\* A step of the API, or of the refresh, that touches no call.
LEMMA NoCallMoves ==
    ASSUME Typed, Grows, ServerOK', UNCHANGED <<call, stored, shown, page>>,
           refresh' \in RefreshRecord', refresh.pc # "none" => refresh'.pc # "none",
           refresh'.pc # "none" => refresh'.of # 0,
           refresh'.pc = "granted" => refresh'.new # 0,
           faults' \in 0 .. MaxFaults, reloads' \in 0 .. MaxReloads, crossed' \in BOOLEAN
    PROVE  Typed'
<1>1. Numbers \subseteq Numbers'
  BY RecordsStay DEF Typed, ServerOK
<1>2. PageOK'
  BY <1>1 DEF Typed, PageOK, InFlight
<1> QED BY <1>2, TypedStep DEF Typed, CallOK

LEMMA HandleRefreshTyped == ASSUME Typed, HandleRefresh PROVE Typed' /\ Grows
<1>1. refresh.of \in Pairs /\ refresh \in RefreshRecord /\ Len(session) \in Nat
  BY DEF HandleRefresh, Typed, PageOK, RefreshRecord, Numbers, Pairs, ServerOK
<1>2. CASE Renewable(refresh.of)
  <2>1. /\ SessionOf(refresh.of) \in 1 .. Len(owner) /\ UNCHANGED <<active, owner>>
        /\ session' = Append(session, SessionOf(refresh.of)) /\ age' = Append(age, "fresh")
        /\ refresh' = [refresh EXCEPT !.pc = "granted", !.new = Len(session) + 1]
    BY <1>1, <1>2 DEF HandleRefresh, SessionOf, Typed, ServerOK, Pairs
  <2>2. SessionOf(refresh.of) \in 1 .. Len(owner)'
    BY <2>1
  <2>3. Grows /\ ServerOK' /\ Len(session)' = Len(session) + 1
    BY <2>1, <2>2, PairAdded
  <2>4. refresh' \in RefreshRecord' /\ refresh'.pc = "granted" /\ refresh'.of = refresh.of
        /\ refresh'.new = Len(session) + 1
    <3> DEFINE n == Len(session) + 1
               r == [refresh EXCEPT !.pc = "granted", !.new = n]
    <3>1. n \in 0 .. n /\ refresh.of \in 0 .. n
      BY <1>1 DEF Pairs
    <3>2. /\ r \in [pc : {"none", "sent", "granted", "refused"}, of : 0 .. n, new : 0 .. n]
          /\ r.pc = "granted" /\ r.of = refresh.of /\ r.new = n
      <4> HIDE DEF n
      <4> QED BY <1>1, <3>1 DEF RefreshRecord
    <3>3. RefreshRecord' = [pc : {"none", "sent", "granted", "refused"}, of : 0 .. n, new : 0 .. n]
      BY <2>3 DEF RefreshRecord, Numbers
    <3> QED BY <2>1, <3>2, <3>3
  <2> QED BY <1>1, <2>3, <2>4, NoCallMoves DEF HandleRefresh, Typed, PageOK, Pairs
<1>3. CASE ~Renewable(refresh.of)
  <2>1. UNCHANGED server /\ refresh' = [refresh EXCEPT !.pc = "refused"]
    BY <1>3 DEF HandleRefresh, server
  <2>2. Grows /\ ServerOK' /\ RefreshRecord' = RefreshRecord
    BY <2>1, SameServer DEF server, RefreshRecord, Numbers
  <2>3. refresh' \in RefreshRecord' /\ refresh'.pc = "refused" /\ refresh'.of = refresh.of
    BY <1>1, <2>1, <2>2 DEF RefreshRecord
  <2> QED BY <1>1, <2>2, <2>3, NoCallMoves DEF HandleRefresh, Typed, PageOK, Pairs
<1> QED BY <1>2, <1>3

LEMMA LoseRefreshTyped == ASSUME Typed, LoseRefresh PROVE Typed' /\ Grows
<1>1. refresh \in RefreshRecord /\ refresh.of # 0
  BY DEF LoseRefresh, Typed, PageOK
<1>2. Grows /\ ServerOK' /\ RefreshRecord' = RefreshRecord
  BY SameServer DEF LoseRefresh, server, RefreshRecord, Numbers
<1>3. refresh' \in RefreshRecord' /\ refresh'.pc = "refused" /\ refresh'.of = refresh.of
  BY <1>1, <1>2 DEF LoseRefresh, RefreshRecord
<1>4. faults' \in 0 .. MaxFaults
  BY BoundsAssumption DEF LoseRefresh, Typed, PageOK
<1> QED BY <1>1, <1>2, <1>3, <1>4, NoCallMoves DEF LoseRefresh, Typed, PageOK

\* The refresh ends, and what waits goes on.
LEMMA RefreshEnds ==
    ASSUME Typed, UNCHANGED server, stored' \in Numbers, refresh' = NoRefresh,
           UNCHANGED <<shown, page, faults, reloads>>, crossed' \in BOOLEAN,
           call' = [c \in AllCalls |-> call'[c]],
           \A c \in AllCalls : IF c \in Waiting
                               THEN call'[c] \in CallRecord /\ call'[c].pc \in {"sent", "refused"}
                               ELSE call'[c] = call[c]
    PROVE  Typed' /\ Grows
<1>1. Grows /\ ServerOK' /\ CallRecord' = CallRecord
  BY SameServer DEF server, CallRecord, Numbers
<1>2. call'[Me].pc # "idle" <=> call[Me].pc # "idle"
  BY DEF AllCalls, Waiting
<1>3. PageOK'
  BY <1>2, NoCallTyped, PageMoves DEF Typed, PageOK, InFlight, server
<1>4. ASSUME NEW c \in AllCalls 
      PROVE  CallOK(c)' \/ (call'[c] = call[c] /\ call[c].pc # "waiting")
  <2>1. CASE c \in Waiting
    <3>1. call'[c] \in CallRecord' /\ call'[c].pc \in {"sent", "refused"}
      BY <1>1, <2>1
    <3> QED BY <3>1 DEF CallOK
  <2>2. CASE c \notin Waiting
    BY <2>2 DEF Waiting
  <2> QED BY <2>1, <2>2
<1> QED BY <1>1, <1>3, <1>4, TypedStep

LEMMA AdoptRefreshTyped == ASSUME Typed, AdoptRefresh PROVE Typed' /\ Grows
<1>1. refresh.new \in Numbers
  BY DEF Typed, PageOK, RefreshRecord
<1>2. ASSUME NEW c \in Waiting
      PROVE  call'[c] \in CallRecord /\ call'[c].pc = "sent"
  <2>1. call[c] \in CallRecord /\ c \in AllCalls
    BY DEF Typed, CallOK, Waiting
  <2>2. call'[c] = [call[c] EXCEPT !.pc = "sent", !.sent = refresh.new, !.retried = TRUE,
                                   !.reply = "none"]
    BY <2>1 DEF AdoptRefresh
  <2> QED BY <1>1, <2>1, <2>2 DEF CallRecord
<1>3. \A c \in AllCalls \ Waiting : call'[c] = call[c]
  BY DEF AdoptRefresh
<1>4. call' = [c \in AllCalls |-> call'[c]]
  BY DEF AdoptRefresh
<1>5. /\ stored' \in Numbers /\ refresh' = NoRefresh /\ crossed' \in BOOLEAN
      /\ UNCHANGED <<server, shown, page, faults, reloads>>
  BY <1>1 DEF AdoptRefresh, Typed, PageOK
<1> QED BY <1>2, <1>3, <1>4, <1>5, RefreshEnds DEF Waiting

LEMMA AbandonRefreshTyped == ASSUME Typed, AbandonRefresh PROVE Typed' /\ Grows
<1>1. ASSUME NEW c \in Waiting
      PROVE  call'[c] \in CallRecord /\ call'[c].pc = "refused"
  <2>1. call[c] \in CallRecord /\ c \in AllCalls
    BY DEF Typed, CallOK, Waiting
  <2>2. call'[c] = [call[c] EXCEPT !.pc = "refused"]
    BY <2>1 DEF AbandonRefresh
  <2> QED BY <2>1, <2>2 DEF CallRecord
<1>2. \A c \in AllCalls \ Waiting : call'[c] = call[c]
  BY DEF AbandonRefresh
<1>3. call' = [c \in AllCalls |-> call'[c]]
  BY DEF AbandonRefresh
<1>4. /\ stored' \in Numbers /\ refresh' = NoRefresh /\ crossed' \in BOOLEAN
      /\ UNCHANGED <<server, shown, page, faults, reloads>>
  BY DEF AbandonRefresh, Typed, PageOK, ServerOK, Numbers
<1> QED BY <1>1, <1>2, <1>3, <1>4, RefreshEnds DEF Waiting

LEMMA LoginTyped == ASSUME Typed, NEW u \in Users, Login(u) PROVE Typed' /\ Grows
<1> DEFINE n == Len(session) + 1
           k == Request(n)
<1>1. Len(session) \in Nat /\ Len(owner) \in Nat /\ owner' = Append(owner, u)
      /\ Len(owner)' = Len(owner) + 1
  BY DEF Login, Typed, ServerOK
<1>2. Grows /\ ServerOK' /\ Len(session)' = n
  <2>1. Len(owner) + 1 \in 1 .. Len(owner)'
    BY <1>1
  <2> QED BY <1>1, <2>1, PairAdded DEF Login
<1>3. call' = [call EXCEPT ![Me] = k] /\ Me \in AllCalls
  BY DEF Login, AllCalls
<1>4. n \in Numbers'
  BY <1>1, <1>2 DEF Numbers
<1>5. k \in CallRecord' /\ k.pc = "sent"
  BY <1>1, <1>4, <1>2, NoCallTyped DEF Request, CallRecord, NoCall, Numbers
<1> HIDE DEF k
<1>6. call'[Me] = k /\ \A c \in AllCalls \ {Me} : call'[c] = call[c]
  BY <1>3 DEF Typed
<1>7. RefreshRecord \subseteq RefreshRecord'
  BY <1>1, <1>2, RecordsStay
<1>8. PageOK'
  BY <1>4, <1>5, <1>6, <1>7 DEF Login, Typed, PageOK, InFlight
<1>9. CallOK(Me)'
  BY <1>5, <1>6 DEF CallOK
<1>10. call' = [c \in AllCalls |-> call'[c]]
  BY <1>3 DEF Typed
<1>11. \A c \in AllCalls \ {Me} : call'[c] = call[c] /\ (call[c].pc = "waiting" => refresh'.pc # "none")
  BY <1>6 DEF Login, Typed, CallOK
<1> QED BY <1>2, <1>8, <1>9, <1>10, <1>11, TypedStep

LEMMA UserTyped == ASSUME Typed, LoginRefused \/ Logout PROVE Typed' /\ Grows
<1>1. UNCHANGED server /\ UNCHANGED call
  BY DEF LoginRefused, Logout
<1>2. PageOK'
  BY PageMoves DEF LoginRefused, Logout, Typed, PageOK, InFlight, server
<1> QED BY <1>1, <1>2, SameServer, TypedStep DEF LoginRefused, Logout, Typed, CallOK

LEMMA ReloadTyped == ASSUME Typed, Reload PROVE Typed' /\ Grows
<1>1. Grows /\ ServerOK' /\ CallRecord' = CallRecord
  BY SameServer DEF Reload, server, CallRecord, Numbers
<1>2. reloads' \in 0 .. MaxReloads
  BY BoundsAssumption DEF Reload, Typed, PageOK
<1>3. Request(stored) \in CallRecord /\ Request(stored).pc = "sent"
  BY NoCallTyped DEF Typed, PageOK, CallRecord, Request
<1>4. \A c \in AllCalls : call'[c] = NoCall \/ call'[c] = Request(stored)
  BY DEF Reload
<1>5. call'[Me].pc # "idle" <=> page' = "starting"
  BY <1>3, NoCallTyped DEF Reload, AllCalls
<1>6. PageOK'
  BY <1>2, <1>5, NoCallTyped, PageMoves DEF Reload, Typed, PageOK, server
<1>7. \A c \in AllCalls : CallOK(c)'
  BY <1>1, <1>3, <1>4, NoCallTyped DEF CallOK
<1>8. call' = [c \in AllCalls |-> call'[c]]
  BY DEF Reload
<1> QED BY <1>1, <1>6, <1>7, <1>8, TypedStep

LEMMA ServerTyped ==
    ASSUME Typed, \/ \E u \in Users : Deactivate(u)
                  \/ \E n \in Pairs : AccessTokenDies(n) \/ RefreshTokenDies(n)
    PROVE  Typed' /\ Grows
<1>1. /\ UNCHANGED <<owner, session, stored, shown, page, refresh, call, faults, reloads, crossed>>
      /\ RefreshRecord' = RefreshRecord
  BY DEF Deactivate, AccessTokenDies, RefreshTokenDies, RefreshRecord, Numbers
<1>2. Grows /\ ServerOK'
  <2>1. CASE \E u \in Users : Deactivate(u)
    BY <2>1 DEF Deactivate, Grows, ServerOK, Typed, Pairs
  <2>2. ASSUME NEW n \in Pairs, AccessTokenDies(n) PROVE Grows /\ ServerOK'
    BY <2>2, PairAges DEF AccessTokenDies
  <2>3. ASSUME NEW n \in Pairs, RefreshTokenDies(n) PROVE Grows /\ ServerOK'
    BY <2>3, PairAges DEF RefreshTokenDies
  <2> QED BY <2>1, <2>2, <2>3
<1> QED BY <1>1, <1>2, NoCallMoves DEF Typed, PageOK

LEMMA NextTyped == ASSUME Typed, Next PROVE Typed' /\ Grows
BY HandleCallTyped, LoseCallTyped, IssueCallTyped, ReceiveAnswerTyped, WaitForRefreshTyped,
   GiveUpTyped, FailCallTyped, HandleRefreshTyped, LoseRefreshTyped, AdoptRefreshTyped,
   AbandonRefreshTyped, LoginTyped, UserTyped, ReloadTyped, ServerTyped
   DEF Next, CallStep, RefreshStep

LEMMA StutterTyped == ASSUME Typed, UNCHANGED vars PROVE Typed'
<1>1. UNCHANGED server /\ RefreshRecord' = RefreshRecord
  BY DEF vars, server, RefreshRecord, Numbers
<1>2. Grows /\ ServerOK'
  BY <1>1, SameServer
<1> QED BY <1>1, <1>2, NoCallMoves DEF vars, Typed, PageOK

THEOREM SpecTyped == Spec => []Typed
<1>1. Typed /\ [Next]_vars => Typed'
  BY NextTyped, StutterTyped
<1> QED BY <1>1, InitTyped, PTL DEF Spec

\* Every variable keeps its type, and page, refresh and calls their stages.
THEOREM SpecTypeOK == Spec => []TypeOK
BY TypedIsTypeOK, SpecTyped, PTL

-----------------------------------------------------------------------------

(***************************************************************************)
(* What is known of a call in each of its stages: a repeated call has a    *)
(* token of its own, what the API said of its token still holds, and unless*)
(* sessions have crossed it stays in its session, it was not refused in the*)
(* stored session without having been repeated, and it waits for a refresh *)
(* of its own session if that is the stored one.                           *)
(***************************************************************************)
CallInv(c) ==
    LET k == call[c] IN
    /\ IF k.retried THEN k.sent # 0 /\ k.sent # k.first ELSE k.sent = k.first
    /\ k.pc = "waiting" => ~k.retried
    /\ k.pc = "answered" => k.reply # "none"
    /\ k.pc = "answered" /\ k.reply = "401" /\ k.retried => age[k.sent] # "fresh"
    /\ k.pc = "answered" /\ k.reply = "403" => k.sent # 0 /\ Owner(k.sent) \notin active
    /\ k.pc = "answered" /\ k.reply = "error" => faults > 0
    /\ k.pc = "refused" /\ k.retried => age[k.sent] # "fresh"
    /\ refresh.pc = "granted" => k.first # refresh.new
    /\ ~crossed =>
          /\ SessionOf(k.sent) = SessionOf(k.first)
          /\ k.pc = "refused" /\ ~k.retried /\ stored # 0 => SessionOf(k.sent) # SessionOf(stored)
          /\ k.pc = "waiting" /\ stored # 0 /\ SessionOf(refresh.of) = SessionOf(stored) =>
                SessionOf(k.sent) = SessionOf(stored)

\* A refresh renews the stored pair or one of a session that is no longer stored.
RefreshInv ==
    /\ refresh.pc = "granted" =>
          stored # refresh.new /\ SessionOf(refresh.new) = SessionOf(refresh.of)
    /\ refresh.pc = "refused" => faults > 0 \/ ~Renewable(refresh.of)
    /\ refresh.pc # "none" /\ stored # 0 /\ SessionOf(refresh.of) = SessionOf(stored) =>
          stored = refresh.of

PageInv ==
    /\ InFlight(Me) => call[Me].sent # 0
    /\ ~crossed =>
          /\ shown # Nobody /\ stored # 0 => Owner(stored) = shown
          /\ shown = Nobody /\ page = "ready" => stored = 0
          /\ page = "starting" /\ stored # 0 => SessionOf(call[Me].sent) = SessionOf(stored)

SafeInv ==
    /\ Typed
    /\ \A c \in AllCalls : CallInv(c)
    /\ RefreshInv /\ PageInv

LEMMA InitSafe == Init => SafeInv
<1> SUFFICES ASSUME Init PROVE SafeInv
  OBVIOUS
<1>1. \A c \in AllCalls : call[c] = NoCall
  BY DEF Init
<1>2. \A c \in AllCalls : CallInv(c)
  BY <1>1, NoCallTyped DEF CallInv, NoCall, Init
<1>3. RefreshInv /\ PageInv
  BY <1>1, NoCallTyped DEF Init, RefreshInv, PageInv, InFlight, AllCalls
<1> QED BY <1>2, <1>3, InitTyped DEF SafeInv

\* What is known of pairs stays true.
LEMMA SessionsStay ==
    ASSUME Typed, Grows
    PROVE  /\ \A n \in Numbers : SessionOf(n)' = SessionOf(n)
           /\ \A n \in Pairs : /\ SessionOf(n) = session[n] /\ SessionOf(n) # 0
                               /\ SessionOf(n) \in 1 .. Len(owner)
                               /\ Owner(n)' = Owner(n)
                               /\ ~Renewable(n) => ~Renewable(n)'
           /\ Numbers = {0} \union Pairs /\ 0 \notin Pairs
<1>1. Numbers = {0} \union Pairs /\ 0 \notin Pairs
  BY DEF Typed, ServerOK, Numbers, Pairs
<1>2. ASSUME NEW n \in Pairs
      PROVE  /\ SessionOf(n) = session[n] /\ SessionOf(n) # 0 /\ SessionOf(n) \in 1 .. Len(owner)
             /\ SessionOf(n)' = SessionOf(n)
             /\ Owner(n)' = Owner(n)
             /\ ~Renewable(n) => ~Renewable(n)'
  <2>1. session[n] \in 1 .. Len(owner) /\ session'[n] = session[n] /\ n # 0
    BY <1>1 DEF Typed, ServerOK, Grows
  <2>2. Owner(n)' = Owner(n)
    BY <2>1 DEF Owner, Grows
  <2>3. ~Renewable(n) => ~Renewable(n)'
    BY <2>2 DEF Renewable, Grows
  <2> QED BY <2>1, <2>2, <2>3 DEF SessionOf
<1>3. SessionOf(0)' = SessionOf(0)
  BY DEF SessionOf
<1> QED BY <1>1, <1>2, <1>3

LEMMA CallNumbers ==
    ASSUME Typed, NEW c \in AllCalls
    PROVE  call[c].sent \in Numbers /\ call[c].first \in Numbers /\ call[c] \in CallRecord
BY DEF Typed, CallOK, CallRecord

\* A call that a step does not move. What is stored afterwards is of the session
\* that was stored, or of one that no pair belonged to, or sessions have crossed.
LEMMA CallStays ==
    ASSUME SafeInv, Grows, NEW c \in AllCalls, call'[c] = call[c],
           crossed => crossed', faults > 0 => faults' > 0,
           ~crossed' /\ stored' # 0 =>
              \A n \in Numbers : SessionOf(n) = SessionOf(stored)' =>
                 stored # 0 /\ SessionOf(n) = SessionOf(stored),
           refresh'.pc = "granted" =>
              \/ refresh'.new \notin Numbers
              \/ refresh.pc = "granted" /\ refresh'.new = refresh.new,
           call[c].pc = "waiting" => refresh'.of = refresh.of
    PROVE  CallInv(c)'
<1> DEFINE k == call[c]
<1>1. /\ CallInv(c) /\ Typed /\ k.sent \in Numbers /\ k.first \in Numbers
      /\ refresh.of \in Numbers
      /\ \A n \in Numbers : SessionOf(n)' = SessionOf(n)
      /\ SessionOf(k.sent)' = SessionOf(k.sent)
  BY SessionsStay, CallNumbers DEF SafeInv, Typed, PageOK, RefreshRecord
<1>2. k.sent # 0 => /\ k.sent \in Pairs
                    /\ age[k.sent] # "fresh" => age'[k.sent] # "fresh"
                    /\ Owner(k.sent)' = Owner(k.sent)
  BY <1>1, SessionsStay DEF Grows
<1>3. ASSUME ~crossed'
      PROVE  /\ SessionOf(call[c].sent)' = SessionOf(call[c].first)'
             /\ call'[c].pc = "refused" /\ ~call'[c].retried /\ stored' # 0 =>
                   SessionOf(call[c].sent)' # SessionOf(stored)'
             /\ call'[c].pc = "waiting" /\ stored' # 0 /\ SessionOf(refresh.of)' = SessionOf(stored)' =>
                   SessionOf(call[c].sent)' = SessionOf(stored)'
  <2>1. /\ SessionOf(k.sent) = SessionOf(k.first)
        /\ k.pc = "refused" /\ ~k.retried /\ stored # 0 => SessionOf(k.sent) # SessionOf(stored)
        /\ k.pc = "waiting" /\ stored # 0 /\ SessionOf(refresh.of) = SessionOf(stored) =>
              SessionOf(k.sent) = SessionOf(stored)
    BY <1>1, <1>3 DEF CallInv
  <2>2. /\ SessionOf(call[c].sent)' = SessionOf(k.sent)
        /\ SessionOf(call[c].first)' = SessionOf(k.first)
        /\ k.pc = "waiting" => SessionOf(refresh.of)' = SessionOf(refresh.of)
    BY <1>1
  <2> QED BY <1>1, <1>3, <2>1, <2>2
<1>4. refresh'.pc = "granted" => k.first # refresh'.new
  BY <1>1 DEF CallInv
<1>5. k.pc = "answered" /\ k.reply = "403" => k.sent # 0 /\ Owner(k.sent)' \notin active'
  BY <1>1, <1>2 DEF CallInv, Grows
<1>6. /\ k.pc = "answered" /\ k.reply = "401" /\ k.retried => age'[k.sent] # "fresh"
      /\ k.pc = "refused" /\ k.retried => age'[k.sent] # "fresh"
  BY <1>1, <1>2 DEF CallInv
<1>7. /\ IF k.retried THEN k.sent # 0 /\ k.sent # k.first ELSE k.sent = k.first
      /\ k.pc = "waiting" => ~k.retried
      /\ k.pc = "answered" => k.reply # "none"
      /\ k.pc = "answered" /\ k.reply = "error" => faults' > 0
  BY <1>1 DEF CallInv
<1> QED BY <1>3, <1>4, <1>5, <1>6, <1>7 DEF CallInv

\* The refresh, in a step that does not move it.
LEMMA RefreshStays ==
    ASSUME SafeInv, Grows, UNCHANGED refresh, stored' \in {stored, 0},
           faults > 0 => faults' > 0
    PROVE  RefreshInv'
<1>1. /\ stored \in Numbers /\ refresh.of \in Numbers /\ refresh.new \in Numbers
      /\ RefreshInv /\ Typed
      /\ refresh.pc # "none" => refresh.of \in Pairs
  BY SessionsStay DEF SafeInv, Typed, PageOK, RefreshRecord
<1>2. /\ SessionOf(refresh.of)' = SessionOf(refresh.of)
      /\ SessionOf(refresh.new)' = SessionOf(refresh.new)
      /\ SessionOf(stored)' = IF stored' = 0 THEN 0 ELSE SessionOf(stored)
      /\ refresh.pc # "none" /\ ~Renewable(refresh.of) => ~Renewable(refresh.of)'
  <2>1. SessionOf(stored)' = IF stored' = 0 THEN 0 ELSE SessionOf(stored)
    <3>1. CASE stored' = 0
      BY <3>1 DEF SessionOf
    <3>2. CASE stored' = stored
      BY <1>1, <3>2, SessionsStay DEF SessionOf
    <3> QED BY <3>1, <3>2
  <2> QED BY <1>1, <2>1, SessionsStay
<1> QED BY <1>1, <1>2 DEF RefreshInv, Typed, PageOK, SafeInv

\* The page, in a step that leaves it and the token of Me alone.
LEMMA PageStays ==
    ASSUME SafeInv, Grows, UNCHANGED <<shown, page>>, stored' \in {stored, 0},
           crossed => crossed',
           call'[Me].pc = "idle" <=> call[Me].pc = "idle", call'[Me].sent = call[Me].sent
    PROVE  PageInv'
<1>1. stored \in Numbers /\ call[Me].sent \in Numbers /\ PageInv /\ Typed
  BY CallNumbers DEF SafeInv, Typed, PageOK, AllCalls
<1>2. SessionOf(call[Me].sent)' = SessionOf(call[Me].sent)
  BY <1>1, SessionsStay
<1>3. CASE stored' = 0
  BY <1>1, <1>3 DEF PageInv, InFlight
<1>4. CASE stored' = stored
  <2>1. SessionOf(stored)' = SessionOf(stored) /\ (stored # 0 => Owner(stored)' = Owner(stored))
    BY <1>1, <1>4, SessionsStay
  <2> QED BY <1>1, <1>2, <1>4, <2>1 DEF PageInv, InFlight
<1> QED BY <1>3, <1>4

\* The other calls, in a step that moves one.
LEMMA OthersStay ==
    ASSUME SafeInv, UNCHANGED server, NEW c \in AllCalls, NEW k, call' = [call EXCEPT ![c] = k],
           stored' \in {stored, 0}, crossed => crossed', faults > 0 => faults' > 0,
           \/ UNCHANGED refresh
           \/ refresh.pc = "none" /\ refresh'.pc = "sent"
    PROVE  /\ \A x \in AllCalls \ {c} : CallInv(x)'
           /\ call'[c] = k /\ \A x \in AllCalls \ {c} : call'[x] = call[x]
<1>1. Typed /\ Grows
  BY SameServer DEF SafeInv
<1>2. call'[c] = k /\ \A x \in AllCalls \ {c} : call'[x] = call[x]
  BY <1>1 DEF Typed
<1>3. ~crossed' /\ stored' # 0 =>
         \A n \in Numbers : SessionOf(n) = SessionOf(stored)' =>
            stored # 0 /\ SessionOf(n) = SessionOf(stored)
  BY DEF SessionOf, server
<1>4. ASSUME NEW x \in AllCalls \ {c} PROVE CallInv(x)'
  <2>1. call[x].pc = "waiting" => refresh.pc # "none"
    BY <1>1 DEF Typed, CallOK
  <2> QED BY <1>1, <1>2, <1>3, <2>1, CallStays
<1> QED BY <1>2, <1>4

\* The call itself, in a step that does not end it.
LEMMA HandleCallSafe == ASSUME SafeInv, NEW c \in AllCalls, HandleCall(c) PROVE SafeInv'
<1>1. PICK reply \in Verdicts(call[c].sent) :
         call' = [call EXCEPT ![c].pc = "answered", ![c].reply = reply]
  BY DEF HandleCall
<1> DEFINE k == [call[c] EXCEPT !.pc = "answered", !.reply = reply]
<1>2. /\ call' = [call EXCEPT ![c] = k] /\ UNCHANGED server /\ Typed /\ Typed' /\ Grows
      /\ CallInv(c)
  BY <1>1, HandleCallTyped DEF HandleCall, SafeInv
<1>3. /\ k.pc = "answered" /\ k.reply = reply /\ k.sent = call[c].sent
      /\ k.first = call[c].first /\ k.retried = call[c].retried
  BY CallNumbers, <1>2 DEF CallRecord
<1> HIDE DEF k
<1>4. (\A x \in AllCalls \ {c} : CallInv(x)') /\ call'[c] = k
      /\ \A x \in AllCalls \ {c} : call'[x] = call[x]
  BY <1>2, OthersStay DEF HandleCall
<1>5. /\ reply \in {"200", "401", "403"}
      /\ reply = "401" /\ k.sent # 0 => age[k.sent] # "fresh"
      /\ reply = "403" => k.sent # 0 /\ Owner(k.sent) \notin active
  BY <1>3 DEF Verdicts
<1>6. CallInv(c)'
  <2>1. /\ age' = age /\ active' = active
        /\ Owner(call[c].sent)' = Owner(k.sent)
        /\ SessionOf(call[c].sent)' = SessionOf(call[c].sent)
        /\ SessionOf(call[c].first)' = SessionOf(call[c].first)
    BY <1>2, <1>3, <1>4 DEF server, SessionOf, Owner
  <2>2. IF k.retried THEN k.sent # 0 /\ k.sent # k.first ELSE k.sent = k.first
    BY <1>2, <1>3 DEF CallInv
  <2>3. refresh'.pc = "granted" => k.first # refresh'.new
    BY <1>2, <1>3 DEF CallInv, HandleCall
  <2>4. ~crossed' => SessionOf(call[c].sent)' = SessionOf(call[c].first)'
    BY <1>2, <2>1 DEF CallInv, HandleCall
  <2> QED BY <1>3, <1>4, <1>5, <2>1, <2>2, <2>3, <2>4 DEF CallInv
<1>7. RefreshInv'
  BY <1>2, RefreshStays DEF HandleCall
<1>8. PageInv'
  <2>1. (call'[Me].pc = "idle" <=> call[Me].pc = "idle") /\ call'[Me].sent = call[Me].sent
    BY <1>3, <1>4 DEF HandleCall, AllCalls
  <2> QED BY <1>2, <2>1, PageStays DEF HandleCall
<1> QED BY <1>2, <1>4, <1>6, <1>7, <1>8 DEF SafeInv

LEMMA LoseCallSafe == ASSUME SafeInv, NEW c \in AllCalls, LoseCall(c) PROVE SafeInv'
<1> DEFINE k == [call[c] EXCEPT !.pc = "answered", !.reply = "error"]
<1>2. /\ call' = [call EXCEPT ![c] = k] /\ UNCHANGED server /\ Typed /\ Typed' /\ Grows
      /\ CallInv(c)
  BY LoseCallTyped DEF LoseCall, SafeInv
<1>1. faults' > 0
  BY BoundsAssumption DEF LoseCall, SafeInv, Typed, PageOK
<1>3. /\ k.pc = "answered" /\ k.reply = "error" /\ k.sent = call[c].sent
      /\ k.first = call[c].first /\ k.retried = call[c].retried
  BY CallNumbers, <1>2 DEF CallRecord
<1> HIDE DEF k
<1>4. (\A x \in AllCalls \ {c} : CallInv(x)') /\ call'[c] = k
      /\ \A x \in AllCalls \ {c} : call'[x] = call[x]
  BY <1>1, <1>2, OthersStay DEF LoseCall
<1>6. CallInv(c)'
  BY <1>1, <1>2, <1>3, <1>4 DEF CallInv, LoseCall, server, SessionOf
<1>7. RefreshInv'
  BY <1>1, <1>2, RefreshStays DEF LoseCall
<1>8. PageInv'
  <2>1. (call'[Me].pc = "idle" <=> call[Me].pc = "idle") /\ call'[Me].sent = call[Me].sent
    BY <1>3, <1>4 DEF LoseCall, AllCalls
  <2> QED BY <1>2, <2>1, PageStays DEF LoseCall
<1> QED BY <1>2, <1>4, <1>6, <1>7, <1>8 DEF SafeInv

LEMMA IssueCallSafe == ASSUME SafeInv, NEW c \in Calls, IssueCall(c) PROVE SafeInv'
<1> DEFINE k == Request(stored)
<1>2. /\ call' = [call EXCEPT ![c] = k] /\ UNCHANGED server /\ Typed /\ Typed' /\ Grows
      /\ c \in AllCalls /\ c # Me
  BY IssueCallTyped DEF IssueCall, SafeInv, AllCalls
<1>3. /\ k.pc = "sent" /\ k.sent = stored /\ k.first = stored /\ k.retried = FALSE
  BY DEF Request, NoCall
<1> HIDE DEF k
<1>4. (\A x \in AllCalls \ {c} : CallInv(x)') /\ call'[c] = k
      /\ \A x \in AllCalls \ {c} : call'[x] = call[x]
  BY <1>2, OthersStay DEF IssueCall
<1>6. CallInv(c)'
  BY <1>2, <1>3, <1>4 DEF CallInv, IssueCall, SafeInv, RefreshInv
<1>7. RefreshInv'
  BY <1>2, RefreshStays DEF IssueCall
<1>8. PageInv'
  BY <1>2, <1>4, PageStays DEF IssueCall, AllCalls
<1> QED BY <1>2, <1>4, <1>6, <1>7, <1>8 DEF SafeInv

LEMMA GiveUpSafe == ASSUME SafeInv, NEW c \in AllCalls, GiveUp(c) PROVE SafeInv'
<1> DEFINE k == [call[c] EXCEPT !.pc = "refused"]
<1>2. /\ call' = [call EXCEPT ![c] = k] /\ UNCHANGED server /\ Typed /\ Typed' /\ Grows
      /\ CallInv(c)
  BY GiveUpTyped DEF GiveUp, SafeInv
<1>3. /\ k.pc = "refused" /\ k.sent = call[c].sent
      /\ k.first = call[c].first /\ k.retried = call[c].retried
  BY CallNumbers, <1>2 DEF CallRecord
<1> HIDE DEF k
<1>4. (\A x \in AllCalls \ {c} : CallInv(x)') /\ call'[c] = k
      /\ \A x \in AllCalls \ {c} : call'[x] = call[x]
  BY <1>2, OthersStay DEF GiveUp
<1>6. CallInv(c)'
  BY <1>2, <1>3, <1>4 DEF CallInv, GiveUp, server, SessionOf
<1>7. RefreshInv'
  BY <1>2, RefreshStays DEF GiveUp
<1>8. PageInv'
  <2>1. (call'[Me].pc = "idle" <=> call[Me].pc = "idle") /\ call'[Me].sent = call[Me].sent
    BY <1>3, <1>4 DEF GiveUp, AllCalls
  <2> QED BY <1>2, <2>1, PageStays DEF GiveUp
<1> QED BY <1>2, <1>4, <1>6, <1>7, <1>8 DEF SafeInv

LEMMA NoCallInv ==
    ASSUME Typed', NEW c \in AllCalls, call'[c] = NoCall
    PROVE  CallInv(c)'
BY DEF CallInv, NoCall, Typed, PageOK

LEMMA FailCallSafe == ASSUME SafeInv, NEW c \in AllCalls, FailCall(c) PROVE SafeInv'
<1>1. /\ call' = [call EXCEPT ![c] = NoCall] /\ UNCHANGED server /\ stored' = 0
      /\ Typed /\ Typed' /\ Grows /\ (crossed => crossed')
  BY FailCallTyped DEF FailCall, SafeInv
<1>2. (\A x \in AllCalls \ {c} : CallInv(x)') /\ call'[c] = NoCall
      /\ \A x \in AllCalls \ {c} : call'[x] = call[x]
  BY <1>1, OthersStay DEF FailCall
<1>3. CallInv(c)'
  BY <1>1, <1>2, NoCallInv
<1>4. RefreshInv'
  BY <1>1, RefreshStays DEF FailCall
<1>5. PageInv'
  BY <1>1, <1>2, NoCallTyped DEF PageInv, FailCall, InFlight, AllCalls, SafeInv
<1> QED BY <1>1, <1>2, <1>3, <1>4, <1>5 DEF SafeInv

LEMMA ReceiveAnswerSafe == ASSUME SafeInv, NEW c \in AllCalls, ReceiveAnswer(c) PROVE SafeInv'
<1>1. /\ call' = [call EXCEPT ![c] = NoCall] /\ UNCHANGED server /\ stored' \in {stored, 0}
      /\ Typed /\ Typed' /\ Grows /\ (crossed => crossed')
      /\ UNCHANGED <<refresh, faults>>
  BY ReceiveAnswerTyped DEF ReceiveAnswer, SafeInv
<1>2. (\A x \in AllCalls \ {c} : CallInv(x)') /\ call'[c] = NoCall
      /\ \A x \in AllCalls \ {c} : call'[x] = call[x]
  BY <1>1, OthersStay
<1>3. CallInv(c)'
  BY <1>1, <1>2, NoCallInv
<1>4. RefreshInv'
  BY <1>1, RefreshStays
<1>5. PageInv'
  <2>1. CASE c # Me
    BY <1>1, <1>2, <2>1, PageStays DEF ReceiveAnswer, AllCalls
  <2>2. CASE c = Me /\ call[c].reply = "200"
    <3>1. /\ page' = "ready" /\ shown' = Owner(call[Me].sent) /\ UNCHANGED <<stored, crossed>>
          /\ page = "starting" /\ call[Me].sent \in Pairs /\ stored \in Numbers
          /\ ~InFlight(Me)'
      BY <1>1, <1>2, <2>2, NoCallTyped, CallNumbers, SessionsStay
         DEF ReceiveAnswer, SafeInv, PageInv, InFlight, Typed, PageOK, AllCalls
    <3>2. shown' # Nobody
      BY <1>1, <3>1 DEF Typed, ServerOK, Owner
    <3>3. ASSUME ~crossed', stored' # 0 PROVE Owner(stored)' = shown'
      <4>1. SessionOf(call[Me].sent) = SessionOf(stored) /\ stored \in Pairs
        BY <1>1, <3>1, <3>3, SessionsStay DEF SafeInv, PageInv
      <4>2. Owner(call[Me].sent) = Owner(stored) /\ Owner(stored)' = Owner(stored)
        BY <1>1, <3>1, <4>1, SessionsStay DEF Owner
      <4> QED BY <3>1, <4>2
    <3> QED BY <3>1, <3>2, <3>3 DEF PageInv
  <2>3. CASE c = Me /\ call[c].reply # "200"
    BY <1>1, <1>2, <2>3, NoCallTyped DEF ReceiveAnswer, PageInv, InFlight
  <2> QED BY <2>1, <2>2, <2>3
<1> QED BY <1>1, <1>2, <1>3, <1>4, <1>5 DEF SafeInv

LEMMA WaitForRefreshSafe == ASSUME SafeInv, NEW c \in AllCalls, WaitForRefresh(c) PROVE SafeInv'
<1> DEFINE k == [call[c] EXCEPT !.pc = "waiting"]
<1>2. /\ call' = [call EXCEPT ![c] = k] /\ UNCHANGED server /\ Typed /\ Typed' /\ Grows
      /\ CallInv(c) /\ (crossed => crossed')
  BY WaitForRefreshTyped DEF WaitForRefresh, SafeInv
<1>3. /\ k.pc = "waiting" /\ k.sent = call[c].sent
      /\ k.first = call[c].first /\ k.retried = call[c].retried
  BY CallNumbers, <1>2 DEF CallRecord
<1> HIDE DEF k
<1>1. \/ UNCHANGED refresh
      \/ refresh.pc = "none" /\ refresh'.pc = "sent" /\ refresh'.of = stored
  BY DEF WaitForRefresh, NoRefresh
<1>4. (\A x \in AllCalls \ {c} : CallInv(x)') /\ call'[c] = k
      /\ \A x \in AllCalls \ {c} : call'[x] = call[x]
  BY <1>1, <1>2, OthersStay DEF WaitForRefresh
<1>5. /\ SessionOf(call[c].sent)' = SessionOf(call[c].sent)
      /\ SessionOf(call[c].first)' = SessionOf(call[c].first)
      /\ SessionOf(stored)' = SessionOf(stored)
  BY <1>2, <1>3, <1>4 DEF WaitForRefresh, server, SessionOf
<1>6. CallInv(c)'
  <2>1. ~crossed' => SessionOf(call[c].sent) = SessionOf(stored)
    BY DEF WaitForRefresh, Foreign
  <2>2. refresh'.pc = "granted" => k.first # refresh'.new
    BY <1>1, <1>2, <1>3 DEF CallInv
  <2> QED BY <1>2, <1>3, <1>4, <1>5, <2>1, <2>2 DEF CallInv, WaitForRefresh
<1>7. RefreshInv'
  <2>1. CASE UNCHANGED refresh
    BY <1>2, <2>1, RefreshStays DEF WaitForRefresh
  <2>2. CASE refresh'.pc = "sent" /\ refresh'.of = stored
    BY <2>2 DEF RefreshInv, WaitForRefresh
  <2> QED BY <1>1, <2>1, <2>2
<1>8. PageInv'
  <2>1. (call'[Me].pc = "idle" <=> call[Me].pc = "idle") /\ call'[Me].sent = call[Me].sent
    BY <1>3, <1>4 DEF WaitForRefresh, AllCalls
  <2> QED BY <1>2, <2>1, PageStays DEF WaitForRefresh
<1> QED BY <1>2, <1>4, <1>6, <1>7, <1>8 DEF SafeInv

\* The refresh.

LEMMA HandleRefreshSafe == ASSUME SafeInv, HandleRefresh PROVE SafeInv'
<1>0. refresh \in RefreshRecord /\ refresh.of # 0 /\ stored \in Numbers /\ Len(session) \in Nat
  BY DEF HandleRefresh, SafeInv, Typed, PageOK, ServerOK
<1>1. /\ Typed /\ Typed' /\ Grows /\ UNCHANGED <<stored, shown, page, call, faults, crossed>>
      /\ refresh.of \in Pairs /\ stored \in Numbers /\ Len(session) \in Nat
  <2>1. refresh.of \in Pairs
    BY <1>0 DEF RefreshRecord, Numbers, Pairs
  <2> QED BY <1>0, <2>1, HandleRefreshTyped DEF HandleRefresh, SafeInv
<1>2. /\ SessionOf(stored)' = SessionOf(stored)
      /\ SessionOf(refresh.of) # 0
      /\ session'[refresh.of] = SessionOf(refresh.of)
  BY <1>1, SessionsStay DEF Grows
<1>3. refresh'.of = refresh.of
      /\ \/ refresh'.pc = "refused" /\ ~Renewable(refresh.of)
         \/ /\ refresh'.pc = "granted" /\ refresh'.new = Len(session) + 1
            /\ session' = Append(session, SessionOf(refresh.of))
  BY DEF HandleRefresh, SafeInv, Typed, PageOK, RefreshRecord
<1>4. refresh'.pc = "granted" => refresh'.new \notin Numbers
  BY <1>1, <1>3 DEF Numbers
<1>5. ASSUME NEW c \in AllCalls PROVE CallInv(c)'
  <2>1. ~crossed' /\ stored' # 0 =>
          \A n \in Numbers : SessionOf(n) = SessionOf(stored)' =>
             stored # 0 /\ SessionOf(n) = SessionOf(stored)
    BY <1>1, <1>2
  <2> QED BY <1>1, <1>3, <1>4, <2>1, CallStays
<1>6. RefreshInv'
  <2>1. SessionOf(refresh.of)' = SessionOf(refresh.of)
    BY <1>1, <1>2, <1>3 DEF SessionOf, Pairs
  <2>2. refresh'.pc = "granted" => SessionOf(refresh.new)' = SessionOf(refresh.of)
    BY <1>1, <1>3 DEF SessionOf, Typed, ServerOK
  <2>3. ~Renewable(refresh.of) => ~Renewable(refresh.of)'
    BY <1>1, <1>3, SessionsStay
  <2>4. SessionOf(refresh.of) = SessionOf(stored) /\ stored # 0 => stored = refresh.of
    BY DEF SafeInv, RefreshInv, HandleRefresh
  <2> QED BY <1>1, <1>2, <1>3, <1>4, <2>1, <2>2, <2>3, <2>4 DEF RefreshInv
<1>7. PageInv'
  BY <1>1, PageStays
<1> QED BY <1>1, <1>5, <1>6, <1>7 DEF SafeInv

LEMMA LoseRefreshSafe == ASSUME SafeInv, LoseRefresh PROVE SafeInv'
<1>1. /\ Typed /\ Typed' /\ Grows /\ UNCHANGED <<stored, shown, page, call, crossed>>
      /\ UNCHANGED server
  BY LoseRefreshTyped DEF LoseRefresh, SafeInv
<1>2. refresh'.of = refresh.of /\ refresh'.pc = "refused" /\ faults' > 0
  BY BoundsAssumption DEF LoseRefresh, SafeInv, Typed, PageOK, RefreshRecord
<1>3. SessionOf(stored)' = SessionOf(stored) /\ SessionOf(refresh.of)' = SessionOf(refresh.of)
  BY <1>1, <1>2 DEF SessionOf, server
<1>4. ASSUME NEW c \in AllCalls PROVE CallInv(c)'
  BY <1>1, <1>2, <1>3, CallStays
<1>5. RefreshInv'
  BY <1>1, <1>2, <1>3 DEF RefreshInv, SafeInv, LoseRefresh
<1>6. PageInv'
  BY <1>1, PageStays
<1> QED BY <1>1, <1>4, <1>5, <1>6 DEF SafeInv

LEMMA AdoptRefreshSafe == ASSUME SafeInv, AdoptRefresh PROVE SafeInv'
<1>1. /\ Typed /\ Typed' /\ Grows /\ UNCHANGED <<shown, page, faults>> /\ UNCHANGED server
      /\ stored' = refresh.new /\ refresh' = NoRefresh /\ refresh.pc = "granted"
      /\ RefreshInv /\ PageInv
  BY AdoptRefreshTyped DEF AdoptRefresh, SafeInv
<1>0. refresh \in RefreshRecord /\ refresh.of # 0 /\ refresh.new # 0 /\ stored \in Numbers
  BY <1>1 DEF Typed, PageOK
<1>2. /\ refresh.of \in Pairs /\ refresh.new \in Pairs
      /\ \A n \in Numbers : SessionOf(n)' = SessionOf(n)
      /\ SessionOf(stored)' = SessionOf(refresh.new)
  <2>1. refresh.of \in Pairs /\ refresh.new \in Pairs
    BY <1>0 DEF RefreshRecord, Numbers, Pairs
  <2> QED BY <1>1, <2>1 DEF SessionOf, server
<1>3. ASSUME ~crossed'
      PROVE  /\ ~crossed /\ stored \in Pairs /\ SessionOf(refresh.of) = SessionOf(stored)
             /\ SessionOf(refresh.new) = SessionOf(stored)
  <2>1. ~crossed /\ SessionOf(refresh.of) = SessionOf(stored)
    BY <1>3 DEF AdoptRefresh
  <2>2. SessionOf(refresh.of) # 0
    BY <1>1, <1>2, SessionsStay
  <2>3. stored # 0
    BY <2>1, <2>2 DEF SessionOf
  <2> QED BY <1>0, <1>1, <2>1, <2>3, SessionsStay DEF RefreshInv
<1>4. ASSUME NEW c \in AllCalls, c \notin Waiting
      PROVE  CallInv(c)' /\ call'[c] = call[c]
  <2>1. call'[c] = call[c]
    BY <1>4 DEF AdoptRefresh
  <2>2. call[c].pc # "waiting"
    BY <1>4 DEF Waiting
  <2>3. ~crossed' /\ stored' # 0 =>
          \A n \in Numbers : SessionOf(n) = SessionOf(stored)' =>
             stored # 0 /\ SessionOf(n) = SessionOf(stored)
    BY <1>1, <1>2, <1>3, SessionsStay
  <2>4. crossed => crossed'
    BY <1>3
  <2> QED BY <1>1, <2>1, <2>2, <2>3, <2>4, CallStays DEF NoRefresh
<1>5. ASSUME NEW c \in Waiting
      PROVE  CallInv(c)' /\ call'[c].sent = refresh.new
  <2>1. c \in AllCalls /\ call[c].pc = "waiting"
    BY DEF Waiting
  <2>2. call[c] \in CallRecord /\ call[c].first \in Numbers /\ CallInv(c)
    BY <1>1, <2>1, CallNumbers DEF SafeInv
  <2>3. call'[c] = [call[c] EXCEPT !.pc = "sent", !.sent = refresh.new, !.retried = TRUE,
                                   !.reply = "none"]
    BY <2>1 DEF AdoptRefresh
  <2>4. /\ call'[c].pc = "sent" /\ call'[c].sent = refresh.new /\ call'[c].retried = TRUE
        /\ call'[c].first = call[c].first
    BY <2>2, <2>3 DEF CallRecord
  <2>5. call[c].first # refresh.new /\ call[c].sent = call[c].first
    BY <1>1, <2>1, <2>2 DEF CallInv
  <2>6. ~crossed' => SessionOf(refresh.new) = SessionOf(call[c].first)
    BY <1>1, <1>2, <1>3, <2>1, <2>2, <2>5, SessionsStay DEF CallInv
  <2>7. /\ SessionOf(call[c].sent)' = SessionOf(refresh.new)
        /\ SessionOf(call[c].first)' = SessionOf(call[c].first)
    BY <1>1, <2>4 DEF SessionOf, server
  <2> QED BY <1>0, <1>1, <2>4, <2>5, <2>6, <2>7 DEF CallInv, NoRefresh
<1>6. RefreshInv'
  BY <1>1 DEF RefreshInv, NoRefresh
<1>7. PageInv'
  <2>1. Me \in AllCalls /\ call[Me].sent \in Numbers
    BY <1>1, CallNumbers DEF AllCalls
  <2>2. CASE Me \in Waiting
    <3>1. call'[Me].sent = refresh.new
      BY <1>5, <2>2
    <3>2. ~crossed' => Owner(stored)' = Owner(stored)
      BY <1>1, <1>2, <1>3, SessionsStay DEF Owner, server
    <3>3. InFlight(Me)
      BY <2>2 DEF Waiting, InFlight
    <3> QED BY <1>0, <1>1, <1>3, <3>1, <3>2, SessionsStay DEF PageInv
  <2>3. CASE Me \notin Waiting
    <3>1. call'[Me] = call[Me] /\ SessionOf(call[Me].sent)' = SessionOf(call[Me].sent)
      BY <1>2, <1>4, <2>1, <2>3
    <3>2. ~crossed' => Owner(stored)' = Owner(stored)
      BY <1>1, <1>2, <1>3, SessionsStay DEF Owner, server
    <3>3. ~crossed' => stored # 0 /\ SessionOf(stored)' = SessionOf(stored)
      BY <1>1, <1>2, <1>3, SessionsStay
    <3> QED BY <1>1, <1>3, <3>1, <3>2, <3>3 DEF PageInv, InFlight
  <2> QED BY <2>2, <2>3
<1> QED BY <1>1, <1>4, <1>5, <1>6, <1>7 DEF SafeInv

LEMMA AbandonRefreshSafe == ASSUME SafeInv, AbandonRefresh PROVE SafeInv'
<1>1. /\ Typed /\ Typed' /\ Grows /\ UNCHANGED <<shown, page, faults>> /\ UNCHANGED server
      /\ stored' = 0 /\ refresh' = NoRefresh /\ (crossed => crossed')
  BY AbandonRefreshTyped DEF AbandonRefresh, SafeInv
<1>2. ASSUME NEW c \in AllCalls, c \notin Waiting
      PROVE  CallInv(c)' /\ call'[c] = call[c]
  <2>1. call'[c] = call[c] /\ call[c].pc # "waiting"
    BY <1>2 DEF AbandonRefresh, Waiting
  <2> QED BY <1>1, <2>1, CallStays DEF NoRefresh
<1>3. ASSUME NEW c \in Waiting
      PROVE  CallInv(c)' /\ call'[c].sent = call[c].sent /\ call'[c].pc # "idle"
  <2>1. c \in AllCalls /\ call[c].pc = "waiting"
    BY DEF Waiting
  <2>2. call[c] \in CallRecord /\ CallInv(c)
    BY <1>1, <2>1, CallNumbers DEF SafeInv
  <2>3. call'[c] = [call[c] EXCEPT !.pc = "refused"]
    BY <2>1 DEF AbandonRefresh
  <2>4. /\ call'[c].pc = "refused" /\ call'[c].sent = call[c].sent
        /\ call'[c].retried = call[c].retried /\ call'[c].first = call[c].first
    BY <2>2, <2>3 DEF CallRecord
  <2> QED BY <1>1, <2>1, <2>2, <2>4 DEF CallInv, NoRefresh, SessionOf, server
<1>4. RefreshInv'
  BY <1>1 DEF RefreshInv, NoRefresh
<1>5. PageInv'
  <2>1. (call'[Me].pc = "idle" <=> call[Me].pc = "idle") /\ call'[Me].sent = call[Me].sent
    BY <1>2, <1>3 DEF AllCalls, Waiting
  <2> QED BY <1>1, <2>1, PageStays
<1> QED BY <1>1, <1>2, <1>3, <1>4, <1>5 DEF SafeInv

\* The user. The pair of a login is of a session that no pair belonged to.

LEMMA LoginSafe == ASSUME SafeInv, NEW u \in Users, Login(u) PROVE SafeInv'
<1>1. /\ Typed /\ Typed' /\ Grows /\ UNCHANGED <<active, shown, refresh, faults, crossed>>
      /\ Len(session) \in Nat /\ Len(owner) \in Nat /\ Len(session)' = Len(session) + 1
      /\ stored' = Len(session) + 1 /\ stored' \notin Numbers /\ stored' # 0
      /\ shown' = Nobody /\ page' = "starting"
  <2>1. session \in Seq(Nat) /\ Len(session) \in Nat /\ Len(owner) \in Nat
    BY DEF SafeInv, Typed, ServerOK
  <2>2. Typed /\ Typed' /\ Grows
    BY LoginTyped DEF SafeInv
  <2>3. /\ UNCHANGED <<active, shown, refresh, faults, crossed>>
        /\ session' = Append(session, Len(owner) + 1)
        /\ stored' = Len(session) + 1 /\ shown' = Nobody /\ page' = "starting"
    BY DEF Login
  <2>4. Len(session)' = Len(session) + 1
    BY <2>1, <2>3
  <2> QED BY <2>1, <2>2, <2>3, <2>4 DEF Numbers
<1>2. SessionOf(stored)' = Len(owner) + 1
  BY <1>1 DEF SessionOf, Login, Typed, ServerOK
<1>3. \A n \in Numbers : SessionOf(n)' = SessionOf(n) /\ SessionOf(n) # SessionOf(stored)'
  <2>1. SessionOf(0) = 0
    BY DEF SessionOf
  <2>2. \A n \in Numbers : SessionOf(n) \in 0 .. Len(owner)
    BY <1>1, <2>1, SessionsStay
  <2> QED BY <1>1, <1>2, <2>2, SessionsStay
<1>4. /\ call'[Me] = Request(stored') /\ Me \in AllCalls
      /\ \A c \in AllCalls \ {Me} : call'[c] = call[c]
  BY <1>1 DEF Login, Typed, AllCalls
<1>5. /\ call'[Me].pc = "sent" /\ call'[Me].sent = stored' /\ call'[Me].first = stored'
      /\ call'[Me].retried = FALSE
  BY <1>4 DEF Request, NoCall
<1>6. refresh.of \in Numbers /\ refresh.new \in Numbers
  BY <1>1 DEF Typed, PageOK, RefreshRecord
<1>7. ASSUME NEW c \in AllCalls \ {Me} PROVE CallInv(c)'
  BY <1>1, <1>3, <1>4, CallStays
<1>8. CallInv(Me)'
  BY <1>1, <1>5, <1>6 DEF CallInv
<1>9. RefreshInv'
  <2>1. /\ SessionOf(refresh.of)' = SessionOf(refresh.of)
        /\ SessionOf(refresh.new)' = SessionOf(refresh.new)
        /\ SessionOf(refresh.of)' # SessionOf(stored)'
    BY <1>1, <1>3, <1>6
  <2>2. refresh.pc = "refused" /\ ~Renewable(refresh.of) => ~Renewable(refresh.of)'
    BY <1>1, <1>6, SessionsStay DEF Typed, PageOK
  <2> QED BY <1>1, <1>6, <2>1, <2>2 DEF RefreshInv, SafeInv
<1>10. PageInv'
  BY <1>1, <1>5 DEF PageInv
<1> QED BY <1>1, <1>7, <1>8, <1>9, <1>10 DEF SafeInv

LEMMA UserSafe == ASSUME SafeInv, LoginRefused \/ Logout PROVE SafeInv'
<1>1. /\ Typed /\ Typed' /\ Grows /\ UNCHANGED <<call, refresh, faults, crossed, page>>
      /\ stored' = 0
  BY UserTyped DEF LoginRefused, Logout, SafeInv
<1>2. \A c \in AllCalls : CallInv(c)'
  BY <1>1, CallStays
<1>3. RefreshInv'
  BY <1>1, RefreshStays
<1>4. PageInv'
  BY <1>1 DEF PageInv, InFlight, SafeInv
<1> QED BY <1>1, <1>2, <1>3, <1>4 DEF SafeInv

LEMMA ReloadSafe == ASSUME SafeInv, Reload PROVE SafeInv'
<1>1. /\ Typed /\ Typed' /\ UNCHANGED <<stored, crossed, faults>>
      /\ refresh' = NoRefresh /\ shown' = Nobody
      /\ \A c \in AllCalls : call'[c] = NoCall \/ call'[c] = Request(stored)
  BY ReloadTyped DEF Reload, SafeInv
<1>2. /\ Request(stored).pc = "sent" /\ Request(stored).sent = stored
      /\ Request(stored).first = stored /\ Request(stored).retried = FALSE
  BY DEF Request, NoCall
<1>3. ASSUME NEW c \in AllCalls PROVE CallInv(c)'
  <2>1. CASE call'[c] = NoCall
    BY <1>1, <2>1, NoCallInv
  <2>2. CASE call'[c] = Request(stored)
    BY <1>1, <1>2, <2>2 DEF CallInv, NoRefresh
  <2> QED BY <1>1, <2>1, <2>2
<1>4. RefreshInv'
  BY <1>1 DEF RefreshInv, NoRefresh
<1>5. PageInv'
  <2>1. CASE stored = 0
    BY <1>1, <2>1, NoCallTyped DEF PageInv, InFlight, Reload, AllCalls
  <2>2. CASE stored # 0
    BY <1>1, <1>2, <2>2 DEF PageInv, InFlight, Reload, AllCalls
  <2> QED BY <2>1, <2>2
<1> QED BY <1>1, <1>3, <1>4, <1>5 DEF SafeInv

\* Tokens die, accounts are deactivated, or nothing happens.
LEMMA ServerSafe ==
    ASSUME SafeInv, Typed', Grows,
           UNCHANGED <<stored, shown, page, refresh, call, faults, crossed>>
    PROVE  SafeInv'
<1>1. SessionOf(stored)' = SessionOf(stored)
  BY SessionsStay DEF SafeInv, Typed, PageOK
<1>2. \A c \in AllCalls : CallInv(c)'
  BY <1>1, CallStays
<1>3. RefreshInv'
  BY RefreshStays
<1>4. PageInv'
  BY PageStays
<1> QED BY <1>2, <1>3, <1>4 DEF SafeInv

LEMMA NextSafe == ASSUME SafeInv, [Next]_vars PROVE SafeInv'
<1>1. CASE \/ \E u \in Users : Deactivate(u)
           \/ \E n \in Pairs : AccessTokenDies(n) \/ RefreshTokenDies(n)
  <2>1. Typed' /\ Grows
    BY <1>1, ServerTyped DEF SafeInv
  <2> QED BY <1>1, <2>1, ServerSafe DEF Deactivate, AccessTokenDies, RefreshTokenDies
<1>2. CASE UNCHANGED vars
  <2>1. UNCHANGED server /\ UNCHANGED <<stored, shown, page, refresh, call, faults, crossed>>
    BY <1>2 DEF vars, server
  <2>2. Typed' /\ Grows
    BY <1>2, <2>1, StutterTyped, SameServer DEF SafeInv
  <2> QED BY <2>1, <2>2, ServerSafe
<1> QED
  BY <1>1, <1>2, HandleCallSafe, LoseCallSafe, IssueCallSafe, ReceiveAnswerSafe,
     WaitForRefreshSafe, GiveUpSafe, FailCallSafe, HandleRefreshSafe, LoseRefreshSafe,
     AdoptRefreshSafe, AbandonRefreshSafe, LoginSafe, UserSafe, ReloadSafe
     DEF Next, CallStep, RefreshStep

\* The invariant that the properties below rest on.
THEOREM SpecSafeInv == Spec => []SafeInv
BY InitSafe, NextSafe, PTL DEF Spec

(***************************************************************************)
(* As long as no answer of one session is acted upon in another, the page  *)
(* shows the user of the stored session and repeats calls as who made them.*)
(***************************************************************************)
THEOREM SpecSessionsDoNotMix == Spec => []SessionsDoNotMix
<1>1. SafeInv => SessionsDoNotMix
  BY DEF SafeInv, CallInv, PageInv, SessionsDoNotMix
<1> QED BY <1>1, SpecSafeInv, PTL

LEMMA LossHasAReason ==
    ASSUME SafeInv, Next, stored # 0, stored' = 0, ~crossed'
    PROVE  \/ Logout
           \/ ~Renewable(stored)
           \/ faults > 0
           \/ \E c \in AllCalls :
                 /\ call[c].pc = "refused" /\ call[c].sent # call[c].first
                 /\ age[call[c].sent] # "fresh"
<1>1. Typed /\ stored \in Pairs /\ PageInv /\ RefreshInv /\ \A c \in AllCalls : CallInv(c)
  BY DEF SafeInv, Typed, PageOK, Numbers, Pairs, ServerOK
<1>2. ASSUME NEW c \in AllCalls, ReceiveAnswer(c) PROVE faults > 0 \/ ~Renewable(stored)
  <2>1. /\ c = Me /\ call[c].pc = "answered" /\ call[c].reply \in {"403", "error"}
        /\ ~crossed /\ SessionOf(call[c].sent) = SessionOf(stored)
    BY <1>1, <1>2, CallNumbers DEF ReceiveAnswer, Foreign, CallInv, CallRecord
  <2>2. CASE call[c].reply = "error"
    BY <1>1, <2>1, <2>2 DEF CallInv
  <2>3. CASE call[c].reply = "403"
    <3>1. call[c].sent \in Pairs /\ Owner(call[c].sent) \notin active
      <4>1. call[c].sent # 0 /\ Owner(call[c].sent) \notin active
        BY <1>1, <2>1, <2>3 DEF CallInv
      <4>2. call[c].sent \in Numbers /\ Len(session) \in Nat
        BY <1>1, CallNumbers DEF Typed, ServerOK
      <4> QED BY <4>1, <4>2 DEF Numbers, Pairs
    <3>2. Owner(call[c].sent) = Owner(stored)
      BY <1>1, <2>1, <3>1 DEF Owner, SessionOf, SafeInv, Typed, ServerOK, Pairs
    <3> QED BY <3>1, <3>2 DEF Renewable
  <2> QED BY <2>1, <2>2, <2>3
<1>3. ASSUME NEW c \in AllCalls, FailCall(c)
      PROVE  /\ call[c].pc = "refused" /\ call[c].sent # call[c].first
             /\ age[call[c].sent] # "fresh"
  <2>1. call[c].pc = "refused" /\ ~crossed /\ SessionOf(call[c].sent) = SessionOf(stored)
    BY <1>3 DEF FailCall, Foreign
  <2> QED BY <1>1, <2>1 DEF CallInv
<1>4. ASSUME AbandonRefresh PROVE faults > 0 \/ ~Renewable(stored)
  <2>1. refresh.pc = "refused" /\ SessionOf(refresh.of) = SessionOf(stored)
    BY <1>4 DEF AbandonRefresh, Foreign
  <2> QED BY <1>1, <2>1 DEF RefreshInv
<1>5. ~AdoptRefresh
  BY <1>1 DEF AdoptRefresh, Typed, PageOK
<1>6. ~LoginRefused
  BY <1>1 DEF LoginRefused, PageInv
<1>7. \A u \in Users : ~Login(u)
  BY <1>1 DEF Login, Typed, ServerOK
<1>8. \A c \in AllCalls : ~HandleCall(c) /\ ~LoseCall(c) /\ ~WaitForRefresh(c) /\ ~GiveUp(c) /\ ~IssueCall(c)
  BY DEF HandleCall, LoseCall, WaitForRefresh, GiveUp, IssueCall
<1>9. ~HandleRefresh /\ ~LoseRefresh /\ ~Reload
  BY DEF HandleRefresh, LoseRefresh, Reload
<1>10. /\ \A u \in Users : ~Deactivate(u)
       /\ \A n \in Pairs : ~AccessTokenDies(n) /\ ~RefreshTokenDies(n)
  BY DEF Deactivate, AccessTokenDies, RefreshTokenDies
<1> QED
  BY <1>2, <1>3, <1>4, <1>5, <1>6, <1>7, <1>8, <1>9, <1>10 DEF Next, CallStep, RefreshStep, AllCalls

(***************************************************************************)
(* While the refresh token is good and no call is lost, only a logout, or a*)
(* second expiry, ends the session.                                        *)
(***************************************************************************)
THEOREM SpecSessionLostForAReason == Spec => SessionLostForAReason
<1>1. SafeInv /\ [Next]_vars =>
         [stored # 0 /\ stored' = 0 /\ ~crossed' =>
            \/ Logout
            \/ ~Renewable(stored)
            \/ faults > 0
            \/ \E c \in AllCalls :
                  /\ call[c].pc = "refused" /\ call[c].sent # call[c].first
                  /\ age[call[c].sent] # "fresh"]_vars
  BY LossHasAReason
<1> QED BY <1>1, SpecSafeInv, PTL DEF Spec, SessionLostForAReason

=============================================================================
