-------------------------- MODULE WebWorkerProofs ---------------------------
(***************************************************************************)
(* For any number of clicks, messages and blocks: requests find a client,  *)
(* answers are shown in their own pairs, every request that is done has    *)
(* one answer, a pair shows one at most, and no call runs on a block older *)
(* than a state that was answered.                                         *)
(***************************************************************************)
EXTENDS WebWorker, TLAPS, FiniteSetTheorems

-----------------------------------------------------------------------------
(* Sequences. *)

\* A sequence with one more element.
LEMMA Appended ==
  ASSUME NEW S, NEW s \in Seq(S), NEW e \in S
  PROVE  /\ Append(s, e) \in Seq(S)
         /\ DOMAIN Append(s, e) = DOMAIN s \cup {Len(s) + 1}
         /\ \A i \in DOMAIN s : Append(s, e)[i] = s[i]
         /\ Append(s, e)[Len(s) + 1] = e
         /\ Append(s, e) # <<>>
  OBVIOUS

\* A sequence with one element exchanged.
LEMMA Exchanged ==
  ASSUME NEW S, NEW s \in Seq(S), NEW i \in DOMAIN s, NEW e \in S
  PROVE  /\ [s EXCEPT ![i] = e] \in Seq(S)
         /\ DOMAIN [s EXCEPT ![i] = e] = DOMAIN s
         /\ \A j \in DOMAIN s : [s EXCEPT ![i] = e][j] = IF j = i THEN e ELSE s[j]
  OBVIOUS

\* What is left of a sequence without its first element.
LEMMA Rest ==
  ASSUME NEW S, NEW s \in Seq(S), s # <<>>
  PROVE  /\ Tail(s) \in Seq(S)
         /\ Head(s) \in S
         /\ Head(s) = s[1] /\ 1 \in DOMAIN s
         /\ \A i \in DOMAIN Tail(s) : i + 1 \in DOMAIN s /\ Tail(s)[i] = s[i + 1]
  OBVIOUS

-----------------------------------------------------------------------------
(* What the steps do to the handlers and the messages. *)

\* A handler goes on to another statement.
LEMMA HandlerGoes ==
  ASSUME TypeOK, NEW h \in DOMAIN handlers, NEW pc \in Statements
  PROVE  /\ Goes(h, pc) \in Seq(Handlers)
         /\ DOMAIN Goes(h, pc) = DOMAIN handlers
         /\ Goes(h, pc)[h].pc = pc
         /\ \A g \in DOMAIN handlers :
              /\ Goes(h, pc)[g].message = handlers[g].message
              /\ Goes(h, pc)[g].at = handlers[g].at
              /\ g # h => Goes(h, pc)[g] = handlers[g]
<1>1. handlers \in Seq(Handlers)
  BY DEF TypeOK
<1>2. handlers[h] \in Handlers
  BY <1>1
<1> DEFINE e == [handlers[h] EXCEPT !.pc = pc]
<1>3. /\ e \in Handlers /\ e.pc = pc /\ e.message = handlers[h].message
      /\ e.at = handlers[h].at
  BY <1>2 DEF Handlers
<1>4. Goes(h, pc) = [handlers EXCEPT ![h] = e]
  BY DEF Goes
<1> HIDE DEF e
<1> QED
  BY <1>1, <1>3, <1>4, Exchanged

\* An answer has the id and the pair of its request, and is legible only with an id.
Fits(h, a) ==
  /\ a \in Answers
  /\ a.id = handlers[h].message.id /\ a.pair = handlers[h].message.pair
  /\ a.legible => a.id # Undefined

LEMMA AnswerFits ==
  ASSUME TypeOK, NEW h \in DOMAIN handlers, NEW c \in Nat, NEW kind \in {"OK", "state", "execute", "error"},
         NEW legible \in BOOLEAN, NEW block \in Nat
  PROVE  Fits(h, Answer(h, c, kind, legible, block))
<1>1. handlers[h].message.id \in Nat /\ handlers[h].message.pair \in Nat
  <2>1. handlers \in Seq(Handlers)
    BY DEF TypeOK
  <2>2. handlers[h] \in Handlers
    BY <2>1
  <2>3. handlers[h].message \in Messages
    BY <2>2 DEF Handlers
  <2> QED
    BY <2>3 DEF Messages
<1> DEFINE readable == IF handlers[h].message.id = Undefined THEN FALSE ELSE legible
<1>2. readable \in BOOLEAN
  <2>1. CASE handlers[h].message.id = Undefined
    BY <2>1, Zenon
  <2>2. CASE handlers[h].message.id # Undefined
    BY <2>2, Zenon
  <2> QED
    BY <2>1, <2>2
<1>3. readable => handlers[h].message.id # Undefined
  OBVIOUS
<1>4. Answer(h, c, kind, legible, block) =
        [kind |-> kind, id |-> handlers[h].message.id, pair |-> handlers[h].message.pair,
         legible |-> readable, block |-> block, client |-> c]
  BY Zenon DEF Answer
<1> HIDE DEF readable
<1> QED
  BY <1>1, <1>2, <1>3, <1>4 DEF Fits, Answers

LEMMA ErrorsFit ==
  ASSUME TypeOK, NEW h \in DOMAIN handlers, NEW c \in Nat, NEW block \in Nat,
         NEW a \in Errors(h, c, block)
  PROVE  Fits(h, a)
<1>1. PICK legible \in BOOLEAN : a = Answer(h, c, "error", legible, block)
  BY Zenon DEF Errors
<1>2. "error" \in {"OK", "state", "execute", "error"}
  OBVIOUS
<1>3. Fits(h, Answer(h, c, "error", legible, block))
  BY <1>2, AnswerFits, Zenon
<1> QED
  BY <1>1, <1>3, Zenon

LEMMA ResultsFit ==
  ASSUME TypeOK, NEW h \in DOMAIN handlers, NEW c \in Nat, NEW block \in Nat,
         Kind(h) \in {"state", "execute"}, NEW a \in Results(h, c, block)
  PROVE  Fits(h, a)
<1>1. Kind(h) \in {"OK", "state", "execute", "error"}
  OBVIOUS
<1>2. Fits(h, Answer(h, c, Kind(h), TRUE, block))
  <2>1. TRUE \in BOOLEAN
    OBVIOUS
  <2> QED
    BY <1>1, <2>1, AnswerFits, Zenon
<1>3. a = Answer(h, c, Kind(h), TRUE, block) \/ a \in Errors(h, c, block)
  BY Zenon DEF Results
<1> QED
  BY <1>2, <1>3, ErrorsFit, Zenon

-----------------------------------------------------------------------------
(* Every step of a handler. *)

\* A message from the worker is about the request of the handler that posts it.
Speaks(h) ==
  \/ posted' = posted
  \/ configured' /\ \E a \in Answers : Fits(h, a) /\ posted' = Append(posted, a)

\* A step of handler h leaves the page and all messages alone, posts what fits and
\* loses no client.
Moves(h) ==
  /\ UNCHANGED <<page, inbox, latest>>
  /\ handlers' \in Seq(Handlers) /\ DOMAIN handlers' = DOMAIN handlers
  /\ \A g \in DOMAIN handlers :
       /\ handlers'[g].message = handlers[g].message
       /\ g # h => handlers'[g] = handlers[g]
  /\ clients' \in Seq(Clients) /\ DOMAIN clients \subseteq DOMAIN clients'
  /\ initialized' \in BOOLEAN /\ configured' \in BOOLEAN /\ wasm' \in Nat /\ client' \in Nat
  /\ configured => configured'
  /\ initialized => initialized'
  /\ handlers'[h].pc \notin {"loading", "failed"} => initialized'
  /\ configured' => initialized' /\ client' \in DOMAIN clients'
  /\ handlers'[h].pc \in {"constructing", "fetching"} => handlers'[h].at \in DOMAIN clients'
  /\ Kind(h) # "config" => handlers'[h].pc \notin {"loading", "constructing", "failed"}
  /\ handlers'[h].pc = "fetching" => Kind(h) \in {"state", "execute"}
  /\ Speaks(h)

\* What is known of a handler and the client in use.
LEMMA Known ==
  ASSUME IInv, NEW h \in DOMAIN handlers
  PROVE  /\ handlers \in Seq(Handlers) /\ handlers[h] \in Handlers /\ handlers[h].message \in Messages
         /\ h \in Nat /\ handlers[h].at \in Nat /\ handlers[h].since \in Nat
         /\ clients \in Seq(Clients) /\ posted \in Seq(Answers)
         /\ configured \in BOOLEAN /\ initialized \in BOOLEAN /\ wasm \in Nat /\ client \in Nat
         /\ latest \in Nat
         /\ configured => initialized /\ client \in DOMAIN clients
         /\ handlers[h].pc \in {"constructing", "fetching"} => handlers[h].at \in DOMAIN clients
         /\ handlers[h].pc \notin {"loading", "failed"} => initialized
         /\ Kind(h) # "config" =>
              configured /\ handlers[h].pc \notin {"loading", "constructing", "failed"}
         /\ handlers[h].pc = "fetching" => Kind(h) \in {"state", "execute"}
<1>1. TypeOK /\ ClientInv /\ RequestInv
  BY DEF IInv
<1>2. handlers \in Seq(Handlers)
  BY <1>1 DEF TypeOK
<1>3. handlers[h] \in Handlers /\ h \in Nat
  BY <1>2
<1>4. handlers[h].message \in Messages /\ handlers[h].at \in Nat /\ handlers[h].since \in Nat
  BY <1>3 DEF Handlers
<1> QED
  BY <1>1, <1>2, <1>3, <1>4 DEF TypeOK, ClientInv, RequestInv

\* A step that only goes on to another statement.
LEMMA OnlyGoes ==
  ASSUME IInv, NEW h \in DOMAIN handlers, NEW pc \in Statements,
         handlers' = Goes(h, pc),
         pc \in {"constructing", "fetching"} => handlers[h].at \in DOMAIN clients',
         pc \notin {"loading", "failed"} => initialized',
         Kind(h) # "config" => pc \notin {"loading", "constructing", "failed"}
  PROVE  /\ handlers' \in Seq(Handlers) /\ DOMAIN handlers' = DOMAIN handlers
         /\ handlers'[h].pc = pc
         /\ \A g \in DOMAIN handlers :
              /\ handlers'[g].message = handlers[g].message
              /\ g # h => handlers'[g] = handlers[g]
         /\ handlers'[h].pc \in {"constructing", "fetching"} => handlers'[h].at \in DOMAIN clients'
         /\ handlers'[h].pc \notin {"loading", "failed"} => initialized'
         /\ Kind(h) # "config" => handlers'[h].pc \notin {"loading", "constructing", "failed"}
<1>1. TypeOK
  BY DEF IInv
<1> QED
  BY <1>1, HandlerGoes

\* A step that posts an answer and is done.
LEMMA PostSpeaks ==
  ASSUME IInv, NEW h \in DOMAIN handlers, NEW S, Post(h, S), \A a \in S : Fits(h, a), configured'
  PROVE  handlers' = Goes(h, "done") /\ Speaks(h)
  BY DEF Post, Speaks, Fits

\* A step that changes neither the clients nor what is loaded.
LEMMA MovesOnly ==
  ASSUME IInv, NEW h \in DOMAIN handlers, NEW pc \in Statements \ {"constructing", "fetching"},
         handlers' = Goes(h, pc), Speaks(h),
         UNCHANGED <<page, inbox, initialized, configured, wasm, client, clients, latest>>,
         pc \notin {"loading", "failed"} => initialized,
         Kind(h) # "config" => pc \notin {"loading", "failed"}
  PROVE  Moves(h)
<1>1. pc \in Statements /\ pc \notin {"constructing", "fetching"}
  OBVIOUS
<1>2. /\ handlers' \in Seq(Handlers) /\ DOMAIN handlers' = DOMAIN handlers
      /\ handlers'[h].pc = pc
      /\ \A g \in DOMAIN handlers :
           /\ handlers'[g].message = handlers[g].message
           /\ g # h => handlers'[g] = handlers[g]
      /\ handlers'[h].pc \in {"constructing", "fetching"} => handlers'[h].at \in DOMAIN clients'
      /\ handlers'[h].pc \notin {"loading", "failed"} => initialized'
      /\ Kind(h) # "config" => handlers'[h].pc \notin {"loading", "constructing", "failed"}
  BY <1>1, OnlyGoes
<1>3. /\ clients' = clients /\ configured' = configured /\ initialized' = initialized
      /\ wasm' = wasm /\ client' = client
  OBVIOUS
<1> QED
  BY <1>2, <1>3, Known DEF Moves

\* A field of a client may change.
LEMMA ClientChanges ==
  ASSUME TypeOK, NEW c \in DOMAIN clients, NEW b \in Nat, NEW u \in Nat
  PROVE  /\ [clients EXCEPT ![c].user = u] \in Seq(Clients)
         /\ DOMAIN [clients EXCEPT ![c].user = u] = DOMAIN clients
         /\ [clients EXCEPT ![c].state = b] \in Seq(Clients)
         /\ DOMAIN [clients EXCEPT ![c].state = b] = DOMAIN clients
         /\ [clients EXCEPT ![c].state = b, ![c].user = u] \in Seq(Clients)
         /\ DOMAIN [clients EXCEPT ![c].state = b, ![c].user = u] = DOMAIN clients
<1>1. clients \in Seq(Clients)
  BY DEF TypeOK
<1>2. clients[c] \in Clients
  BY <1>1
<1> DEFINE d == [clients[c] EXCEPT !.user = u]
           e == [clients[c] EXCEPT !.state = b, !.user = u]
           f == [clients[c] EXCEPT !.state = b]
<1>3. d \in Clients /\ e \in Clients /\ f \in Clients
  BY <1>2 DEF Clients
<1>4. /\ [clients EXCEPT ![c].user = u] = [clients EXCEPT ![c] = d]
      /\ [clients EXCEPT ![c].state = b, ![c].user = u] = [clients EXCEPT ![c] = e]
      /\ [clients EXCEPT ![c].state = b] = [clients EXCEPT ![c] = f]
  OBVIOUS
<1> HIDE DEF d, e, f
<1> QED
  BY <1>1, <1>3, <1>4, Exchanged

\* A step with which a handler has come to its end, while a client changes.
LEMMA EndMoves ==
  ASSUME IInv, NEW h \in DOMAIN handlers, NEW pc \in {"done", "trapped"},
         handlers' = Goes(h, pc), Speaks(h), initialized,
         clients' \in Seq(Clients), DOMAIN clients' = DOMAIN clients,
         UNCHANGED <<page, inbox, initialized, configured, wasm, client, latest>>
  PROVE  Moves(h)
<1>1. TypeOK
  BY DEF IInv
<1>2. pc \in Statements
  BY DEF Statements
<1>3. /\ handlers' \in Seq(Handlers) /\ DOMAIN handlers' = DOMAIN handlers
      /\ handlers'[h].pc = pc
      /\ \A g \in DOMAIN handlers :
           /\ handlers'[g].message = handlers[g].message
           /\ g # h => handlers'[g] = handlers[g]
  BY <1>1, <1>2, HandlerGoes
<1> QED
  BY <1>3, Known DEF Moves

LEMMA StepMoves ==
  ASSUME IInv, NEW h \in DOMAIN handlers, Step(h)
  PROVE  Moves(h)
<1> USE Known
<1>0. TypeOK
  BY DEF IInv
<1>a. {"loading", "next", "constructing", "fetching", "done", "failed", "hangs",
       "thrown", "trapped"} = Statements
  BY DEF Statements
<1>1. CASE Load(h)
  <2>1. /\ handlers' \in Seq(Handlers) /\ DOMAIN handlers' = DOMAIN handlers
        /\ \A g \in DOMAIN handlers :
             /\ handlers'[g].message = handlers[g].message
             /\ g # h => handlers'[g] = handlers[g]
        /\ handlers'[h].pc = "next"
    BY <1>0, <1>1, <1>a, HandlerGoes DEF Load
  <2>2. Speaks(h)
    BY <1>1 DEF Load, Speaks
  <2> QED
    BY <1>1, <2>1, <2>2 DEF Load, Moves
<1>2. CASE LoadFails(h)
  <2>1. Kind(h) = "config"
    BY <1>2 DEF LoadFails
  <2>2. Speaks(h)
    BY <1>2 DEF LoadFails, Speaks
  <2> QED
    BY <1>2, <1>a, <2>1, <2>2, MovesOnly DEF LoadFails
<1>3. CASE Construct(h)
  <2>1. Kind(h) = "config" /\ initialized
    BY <1>3 DEF Construct
  <2> DEFINE c == [instance |-> wasm, state |-> 0, user |-> 0]
             n == Len(clients) + 1
             e == [handlers[h] EXCEPT !.pc = "constructing", !.at = n]
  <2>2. clients' = Append(clients, c) /\ handlers' = [handlers EXCEPT ![h] = e]
    BY <1>3, <2>1 DEF Construct
  <2>3. c \in Clients
    BY DEF Clients
  <2>4. n \in Nat
    OBVIOUS
  <2>5. e \in Handlers /\ e.message = handlers[h].message /\ e.at = n /\ e.pc = "constructing"
    BY <1>a, <2>4 DEF Handlers
  <2>6. Speaks(h) /\ UNCHANGED <<page, inbox, latest, initialized, configured, wasm, client>>
    BY <1>3 DEF Construct, Speaks
  <2> HIDE DEF c, n, e
  <2>7. /\ clients' \in Seq(Clients)
        /\ DOMAIN clients' = DOMAIN clients \cup {Len(clients) + 1}
    BY <2>2, <2>3, Appended
  <2>8. /\ handlers' \in Seq(Handlers) /\ DOMAIN handlers' = DOMAIN handlers
        /\ \A g \in DOMAIN handlers : handlers'[g] = IF g = h THEN e ELSE handlers[g]
    BY <2>2, <2>5, Exchanged
  <2>9. handlers'[h].at \in DOMAIN clients'
    BY <2>5, <2>7, <2>8 DEF n
  <2> QED
    BY <2>1, <2>5, <2>6, <2>7, <2>8, <2>9 DEF Moves
<1>4. CASE Constructed(h)
  <2> DEFINE a == Answer(h, handlers[h].at, "OK", FALSE, 0)
  <2>1. handlers[h].at \in DOMAIN clients /\ clients' = clients /\ initialized
    BY <1>4 DEF Constructed
  <2>2. /\ handlers' \in Seq(Handlers) /\ DOMAIN handlers' = DOMAIN handlers
        /\ \A g \in DOMAIN handlers :
             /\ handlers'[g].message = handlers[g].message
             /\ g # h => handlers'[g] = handlers[g]
        /\ handlers'[h].pc = "done"
    <3>1. handlers' = Goes(h, "done") /\ "done" \in Statements
      BY <1>4, <1>a DEF Constructed
    <3> QED
      BY <1>0, <3>1, HandlerGoes
  <2>3. posted' = Append(posted, a) /\ configured' = TRUE /\ client' = handlers[h].at
    BY <1>4 DEF Constructed
  <2>4. "OK" \in {"OK", "state", "execute", "error"} /\ FALSE \in BOOLEAN /\ 0 \in Nat
    OBVIOUS
  <2>5. Fits(h, a)
    <3>1. handlers[h].at \in Nat
      OBVIOUS
    <3> QED
      BY <1>0, <2>4, <3>1, AnswerFits, Zenon
  <2> HIDE DEF a
  <2>6. Speaks(h)
    BY <2>3, <2>5 DEF Speaks, Fits
  <2>7. UNCHANGED <<page, inbox, latest, initialized, wasm>>
    BY <1>4 DEF Constructed
  <2> QED
    BY <2>1, <2>2, <2>3, <2>6, <2>7 DEF Moves
<1>5. CASE ConstructFails(h)
  <2>1. Kind(h) = "config"
    BY <1>5 DEF ConstructFails
  <2>2. Speaks(h)
    BY <1>5 DEF ConstructFails, Speaks
  <2> QED
    BY <1>5, <1>a, <2>1, <2>2, MovesOnly DEF ConstructFails
<1>6. CASE Unknown(h)
  <2>1. configured /\ initialized /\ configured' = configured
    BY <1>6 DEF Unknown, AtRequest
  <2> DEFINE S == {Answer(h, client, "error", TRUE, 0)}
  <2>2. Post(h, S)
    BY <1>6 DEF Unknown
  <2>3. \A a \in S : Fits(h, a)
    <3>1. "error" \in {"OK", "state", "execute", "error"} /\ TRUE \in BOOLEAN /\ 0 \in Nat /\ client \in Nat
      OBVIOUS
    <3>2. Fits(h, Answer(h, client, "error", TRUE, 0))
      BY <1>0, <3>1, AnswerFits, Zenon
    <3> QED
      BY <3>2, Zenon
  <2>4. handlers' = Goes(h, "done") /\ Speaks(h)
    <3> HIDE DEF S
    <3> QED
      BY <2>1, <2>2, <2>3, PostSpeaks, Zenon
  <2>5. UNCHANGED <<page, inbox, initialized, configured, wasm, client, clients, latest>>
    BY <1>6 DEF Unknown
  <2> QED
    BY <1>a, <2>1, <2>4, <2>5, MovesOnly
<1>7. CASE Refuse(h)
  <2>1. configured /\ initialized /\ configured' = configured
    BY <1>7 DEF Refuse, AtRequest
  <2> DEFINE S == Errors(h, client, 0)
  <2>2. Post(h, S)
    BY <1>7 DEF Refuse
  <2>3. \A a \in S : Fits(h, a)
    <3>1. 0 \in Nat /\ client \in Nat
      OBVIOUS
    <3> QED
      BY <1>0, <3>1, ErrorsFit, Zenon
  <2>4. handlers' = Goes(h, "done") /\ Speaks(h)
    <3> HIDE DEF S
    <3> QED
      BY <2>1, <2>2, <2>3, PostSpeaks, Zenon
  <2>5. UNCHANGED <<page, inbox, initialized, configured, wasm, client, clients, latest>>
    BY <1>7 DEF Refuse
  <2> QED
    BY <1>a, <2>1, <2>4, <2>5, MovesOnly
<1>8. CASE Hang(h)
  <2>1. initialized
    BY <1>8 DEF Hang, AtRequest
  <2>2. Speaks(h)
    BY <1>8 DEF Hang, Speaks
  <2> QED
    BY <1>8, <1>a, <2>1, <2>2, MovesOnly DEF Hang
<1>13. CASE Throw(h)
  <2>1. initialized
    BY <1>13 DEF Throw, AtRequest
  <2>2. Speaks(h)
    BY <1>13 DEF Throw, Speaks
  <2> QED
    BY <1>13, <1>a, <2>1, <2>2, MovesOnly DEF Throw
<1>9. CASE Fetch(h)
  <2>1. configured /\ initialized /\ Kind(h) \in {"state", "execute"}
    BY <1>9 DEF Fetch, AtRequest
  <2>2. client \in DOMAIN clients
    BY <2>1
  <2> DEFINE e == [handlers[h] EXCEPT !.pc = "fetching", !.at = client, !.since = latest]
  <2>3. e \in Handlers /\ e.message = handlers[h].message /\ e.at = client /\ e.pc = "fetching"
    BY <1>a DEF Handlers
  <2>4. handlers' = [handlers EXCEPT ![h] = e]
    BY <1>9 DEF Fetch
  <2>5. clients' = [clients EXCEPT ![client].user = h]
    BY <1>9 DEF Fetch
  <2>6. clients' \in Seq(Clients) /\ DOMAIN clients' = DOMAIN clients
    BY <1>0, <2>2, <2>5, ClientChanges
  <2>7. Speaks(h) /\ UNCHANGED <<page, inbox, latest, initialized, configured, wasm, client>>
    BY <1>9 DEF Fetch, Speaks
  <2> HIDE DEF e
  <2>8. /\ handlers' \in Seq(Handlers) /\ DOMAIN handlers' = DOMAIN handlers
        /\ \A g \in DOMAIN handlers : handlers'[g] = IF g = h THEN e ELSE handlers[g]
    BY <2>3, <2>4, Exchanged
  <2> QED
    BY <2>1, <2>2, <2>3, <2>6, <2>7, <2>8 DEF Moves
<1>10. CASE Fetched(h)
  <2> DEFINE c == handlers[h].at
  <2>1. /\ initialized /\ Kind(h) \in {"state", "execute"} /\ configured /\ configured' = configured
        /\ c \in DOMAIN clients /\ c \in Nat
        /\ handlers[h].since \in Nat /\ latest \in Nat
    BY <1>10 DEF Fetched
  <2>2. PICK b \in handlers[h].since..latest :
          /\ clients' = [clients EXCEPT ![c].state = b, ![c].user = 0]
          /\ Post(h, Results(h, c, b))
    BY <1>10 DEF Fetched
  <2>3. b \in Nat
    BY <2>1, <2>2
  <2>4. clients' \in Seq(Clients) /\ DOMAIN clients' = DOMAIN clients
    BY <1>0, <2>1, <2>2, <2>3, ClientChanges
  <2>5. UNCHANGED <<page, inbox, initialized, configured, wasm, client, latest>>
    BY <1>10 DEF Fetched
  <2> HIDE DEF c
  <2>6. \A a \in Results(h, c, b) : Fits(h, a)
    BY <1>0, <2>1, <2>3, ResultsFit, Zenon
  <2>7. handlers' = Goes(h, "done") /\ Speaks(h)
    BY <2>1, <2>2, <2>6, PostSpeaks, Zenon
  <2> QED
    BY <2>1, <2>4, <2>5, <2>7, EndMoves
<1>11. CASE FetchFails(h)
  <2> DEFINE c == handlers[h].at
  <2>1. /\ initialized /\ Kind(h) \in {"state", "execute"} /\ configured /\ configured' = configured
        /\ c \in DOMAIN clients /\ c \in Nat /\ 0 \in Nat
    BY <1>11 DEF FetchFails
  <2>2. clients' = [clients EXCEPT ![c].user = 0] /\ Post(h, Errors(h, c, 0))
    BY <1>11 DEF FetchFails, AnswerFailure
  <2>3. clients' \in Seq(Clients) /\ DOMAIN clients' = DOMAIN clients
    BY <1>0, <2>1, <2>2, ClientChanges
  <2>4. UNCHANGED <<page, inbox, initialized, configured, wasm, client, latest>>
    BY <1>11 DEF FetchFails
  <2> HIDE DEF c
  <2>5. \A a \in Errors(h, c, 0) : Fits(h, a)
    BY <1>0, <2>1, ErrorsFit, Zenon
  <2>6. handlers' = Goes(h, "done") /\ Speaks(h)
    BY <2>1, <2>2, <2>5, PostSpeaks, Zenon
  <2> QED
    BY <2>1, <2>3, <2>4, <2>6, EndMoves
<1>12. CASE Execute(h)
  <2>1. configured /\ initialized /\ configured' = configured
    BY <1>12 DEF Execute, AtRequest
  <2> DEFINE S == Results(h, client, clients[client].state)
  <2>2. Post(h, S)
    BY <1>12 DEF Execute
  <2>3. \A a \in S : Fits(h, a)
    <3>1. client \in Nat /\ clients[client].state \in Nat
      <4>1. client \in DOMAIN clients
        BY <2>1
      <4>2. clients[client] \in Clients
        BY <4>1
      <4> QED
        BY <4>2 DEF Clients
    <3>2. Kind(h) \in {"state", "execute"}
      BY <1>12 DEF Execute, AtRequest
    <3> QED
      BY <1>0, <3>1, <3>2, ResultsFit, Zenon
  <2>4. handlers' = Goes(h, "done") /\ Speaks(h)
    <3> HIDE DEF S
    <3> QED
      BY <2>1, <2>2, <2>3, PostSpeaks, Zenon
  <2>5. UNCHANGED <<page, inbox, initialized, configured, wasm, client, clients, latest>>
    BY <1>12 DEF Execute
  <2> QED
    BY <1>a, <2>1, <2>4, <2>5, MovesOnly
<1>14. CASE FetchedTraps(h)
  <2> DEFINE c == handlers[h].at
  <2>1. initialized /\ configured /\ c \in DOMAIN clients
        /\ handlers[h].since \in Nat /\ latest \in Nat
    BY <1>14 DEF FetchedTraps
  <2>2. PICK b \in handlers[h].since..latest : clients' = [clients EXCEPT ![c].state = b]
    BY <1>14 DEF FetchedTraps
  <2>3. b \in Nat
    BY <2>1, <2>2
  <2>4. clients' \in Seq(Clients) /\ DOMAIN clients' = DOMAIN clients
    BY <1>0, <2>1, <2>2, <2>3, ClientChanges
  <2>5. handlers' = Goes(h, "trapped") /\ Speaks(h)
        /\ UNCHANGED <<page, inbox, initialized, configured, wasm, client, latest>>
    BY <1>14 DEF FetchedTraps, Speaks
  <2> QED
    BY <1>a, <2>1, <2>4, <2>5, EndMoves
<1>15. CASE ExecuteTraps(h)
  <2>1. initialized /\ client \in DOMAIN clients /\ h \in Nat
    BY <1>15 DEF ExecuteTraps, AtRequest
  <2>2. clients' = [clients EXCEPT ![client].user = h]
    BY <1>15 DEF ExecuteTraps
  <2>3. clients' \in Seq(Clients) /\ DOMAIN clients' = DOMAIN clients
    BY <1>0, <2>1, <2>2, ClientChanges
  <2>4. handlers' = Goes(h, "trapped") /\ Speaks(h)
        /\ UNCHANGED <<page, inbox, initialized, configured, wasm, client, latest>>
    BY <1>15 DEF ExecuteTraps, Speaks
  <2> QED
    BY <1>a, <2>1, <2>3, <2>4, EndMoves
<1> QED
  BY <1>1, <1>2, <1>3, <1>4, <1>5, <1>6, <1>7, <1>8, <1>9, <1>10, <1>11, <1>12, <1>13,
     <1>14, <1>15 DEF Step

-----------------------------------------------------------------------------
(* The invariant. *)

LEMMA MovesKeep ==
  ASSUME IInv, NEW h \in DOMAIN handlers, Moves(h)
  PROVE  IInv'
<1>0. /\ TypeOK /\ ClientInv /\ RequestInv /\ IdInv /\ AnswersInOwnPair
      /\ posted \in Seq(Answers)
  BY DEF IInv, TypeOK
<1>1. /\ clicks' = clicks /\ status' = status /\ messageId' = messageId /\ pairs' = pairs
      /\ taken' = taken /\ inbox' = inbox /\ latest' = latest
  BY DEF Moves, page
<1>2. \/ posted' = posted
      \/ /\ configured'
         /\ \E a \in Answers :
              /\ Fits(h, a)
              /\ posted' \in Seq(Answers)
              /\ DOMAIN posted' = DOMAIN posted \cup {Len(posted) + 1}
              /\ \A i \in DOMAIN posted : posted'[i] = posted[i]
              /\ posted'[Len(posted) + 1] = a
  <2>1. CASE posted' = posted
    BY <2>1
  <2>2. CASE posted' # posted
    <3>1. configured' /\ \E a \in Answers : Fits(h, a) /\ posted' = Append(posted, a)
      BY <2>2, Zenon DEF Moves, Speaks
    <3>2. PICK a \in Answers : Fits(h, a) /\ posted' = Append(posted, a)
      BY <3>1
    <3>3. /\ posted' \in Seq(Answers)
          /\ DOMAIN posted' = DOMAIN posted \cup {Len(posted) + 1}
          /\ \A i \in DOMAIN posted : posted'[i] = posted[i]
          /\ posted'[Len(posted) + 1] = a
      BY <1>0, <3>2, Appended
    <3> QED
      BY <3>1, <3>2, <3>3, Zenon
  <2> QED
    BY <2>1, <2>2
<1>3. TypeOK'
  <2>1. posted' \in Seq(Answers)
    BY <1>0, <1>2
  <2>2. /\ clicks' \in Nat /\ status' \in {"unknown", "pending", "ready", "error"}
        /\ messageId' \in Nat \ {0} /\ taken' \in Nat
        /\ pairs' \in Seq(Pairs)
        /\ inbox' \in Seq(Messages) /\ latest' \in Nat
    BY <1>0, <1>1, Zenon DEF TypeOK
  <2> QED
    BY <2>1, <2>2, Zenon DEF Moves, TypeOK
<1>4. ClientInv'
  <2>1. (configured => initialized /\ client \in DOMAIN clients)'
    BY DEF Moves
  <2>2. ASSUME NEW g \in DOMAIN handlers
        PROVE  /\ (handlers[g].pc \in {"constructing", "fetching"} => handlers[g].at \in DOMAIN clients)'
               /\ (handlers[g].pc \notin {"loading", "failed"} => initialized)'
    <3>1. CASE g = h
      BY <3>1 DEF Moves
    <3>2. CASE g # h
      <4>1. handlers'[g] = handlers[g] /\ DOMAIN clients \subseteq DOMAIN clients'
        BY <3>2 DEF Moves
      <4>2. initialized => initialized'
        BY DEF Moves
      <4> QED
        BY <1>0, <4>1, <4>2 DEF ClientInv
    <3> QED
      BY <3>1, <3>2
  <2>3. DOMAIN handlers' = DOMAIN handlers
    BY DEF Moves
  <2> QED
    BY <2>1, <2>2, <2>3 DEF ClientInv
<1>5. RequestInv'
  <2>1. configured => configured'
    BY DEF Moves
  <2>2. (posted # <<>> => configured)'
    BY <1>0, <1>2, <2>1 DEF RequestInv
  <2>3. (Ready => configured)'
    BY <1>0, <1>1, <2>1 DEF RequestInv, Ready
  <2>4. (\A i \in DOMAIN inbox : inbox[i].kind # "config" => configured)'
    BY <1>0, <1>1, <2>1 DEF RequestInv
  <2>5. ASSUME NEW g \in DOMAIN handlers
        PROVE  /\ (Kind(g) # "config" =>
                    configured /\ handlers[g].pc \notin {"loading", "constructing", "failed"})'
               /\ (handlers[g].pc = "fetching" => Kind(g) \in {"state", "execute"})'
    <3>1. Kind(g)' = Kind(g)
      BY DEF Moves, Kind
    <3>2. CASE g = h
      BY <1>0, <2>1, <3>1, <3>2 DEF Moves, RequestInv
    <3>3. CASE g # h
      <4>1. handlers'[g] = handlers[g]
        BY <3>3 DEF Moves
      <4> QED
        BY <1>0, <2>1, <3>1, <4>1 DEF RequestInv
    <3> QED
      BY <3>2, <3>3
  <2>6. DOMAIN handlers' = DOMAIN handlers
    BY DEF Moves
  <2> QED
    BY <2>2, <2>3, <2>4, <2>5, <2>6 DEF RequestInv
<1>7. IdInv'
  <2>1. (\A i \in DOMAIN inbox : OwnId(inbox[i], pairs, messageId))'
    BY <1>0, <1>1 DEF IdInv
  <2>2. (\A g \in DOMAIN handlers : OwnId(handlers[g].message, pairs, messageId))'
    BY <1>0, <1>1 DEF IdInv, Moves
  <2>3. (\A i \in DOMAIN posted : OwnId(posted[i], pairs, messageId) /\ (posted[i].legible => posted[i].id # Undefined))'
    <3>1. OwnId(handlers[h].message, pairs, messageId)
      BY <1>0 DEF IdInv
    <3>2. \A i \in DOMAIN posted : OwnId(posted[i], pairs, messageId) /\ (posted[i].legible => posted[i].id # Undefined)
      BY <1>0 DEF IdInv
    <3>3. CASE posted' = posted
      BY <1>1, <3>2, <3>3
    <3>4. CASE posted' # posted
      <4>1. PICK a \in Answers :
              /\ Fits(h, a)
              /\ DOMAIN posted' = DOMAIN posted \cup {Len(posted) + 1}
              /\ \A i \in DOMAIN posted : posted'[i] = posted[i]
              /\ posted'[Len(posted) + 1] = a
        BY <1>2, <3>4
      <4>2. OwnId(a, pairs, messageId) /\ (a.legible => a.id # Undefined)
        BY <3>1, <4>1 DEF Fits, OwnId
      <4> QED
        BY <1>1, <3>2, <4>1, <4>2
    <3> QED
      BY <3>3, <3>4
  <2> QED
    BY <2>1, <2>2, <2>3 DEF IdInv
<1>8. AnswersInOwnPair'
  BY <1>0, <1>1 DEF AnswersInOwnPair
<1> QED
  BY <1>3, <1>4, <1>5, <1>7, <1>8 DEF IInv

LEMMA ClickKeeps ==
  ASSUME IInv, Click
  PROVE  IInv'
<1> DEFINE m == [kind |-> "config", id |-> Undefined, pair |-> 0]
<1>0. TypeOK /\ ClientInv /\ RequestInv /\ IdInv /\ AnswersInOwnPair /\ inbox \in Seq(Messages)
  BY DEF IInv, TypeOK
<1>1. /\ clicks' = clicks + 1 /\ status' = "pending" /\ inbox' = Append(inbox, m)
      /\ UNCHANGED <<messageId, pairs, taken, worker, latest>>
  BY DEF Click
<1>2. m \in Messages /\ m.kind = "config" /\ m.pair = 0 /\ m.id = Undefined
  BY DEF Messages, Undefined
<1> HIDE DEF m
<1>3. /\ inbox' \in Seq(Messages)
      /\ DOMAIN inbox' = DOMAIN inbox \cup {Len(inbox) + 1}
      /\ \A i \in DOMAIN inbox : inbox'[i] = inbox[i]
      /\ inbox'[Len(inbox) + 1] = m
  BY <1>0, <1>1, <1>2, Appended
<1>4. TypeOK'
  BY <1>0, <1>1, <1>3 DEF TypeOK, worker
<1>5. ClientInv'
  BY <1>0, <1>1 DEF ClientInv, worker
<1>6. RequestInv'
  BY <1>0, <1>1, <1>2, <1>3 DEF RequestInv, worker, Ready, Kind
<1>7. IdInv'
  BY <1>0, <1>1, <1>2, <1>3 DEF IdInv, OwnId, worker
<1>8. AnswersInOwnPair'
  BY <1>0, <1>1 DEF AnswersInOwnPair
<1> QED
  BY <1>4, <1>5, <1>6, <1>7, <1>8 DEF IInv

LEMMA ReceiveKeeps ==
  ASSUME IInv, Receive
  PROVE  IInv'
<1> DEFINE pc == IF initialized THEN "next" ELSE "loading"
           e == Handler(Head(inbox), pc)
<1>0. /\ TypeOK /\ ClientInv /\ RequestInv /\ IdInv /\ AnswersInOwnPair
      /\ inbox \in Seq(Messages) /\ handlers \in Seq(Handlers) /\ latest \in Nat
  BY DEF IInv, TypeOK
<1>1. /\ inbox # <<>> /\ inbox' = Tail(inbox) /\ handlers' = Append(handlers, e)
      /\ UNCHANGED <<page, initialized, configured, wasm, client, clients, posted, latest>>
  BY DEF Receive
<1>2. /\ Tail(inbox) \in Seq(Messages) /\ Head(inbox) \in Messages
      /\ Head(inbox) = inbox[1] /\ 1 \in DOMAIN inbox
      /\ \A i \in DOMAIN Tail(inbox) : i + 1 \in DOMAIN inbox /\ Tail(inbox)[i] = inbox[i + 1]
  BY <1>0, <1>1, Rest
<1>3. pc \in {"next", "loading"} /\ (initialized => pc = "next") /\ (pc = "next" => initialized)
  BY DEF IInv, TypeOK
<1>4. e.message = Head(inbox) /\ e.pc = pc /\ e.at = 0 /\ e.since = latest
  BY DEF Handler
<1>5. e \in Handlers
  BY <1>0, <1>2, <1>3 DEF Handler, Handlers, Statements
<1> HIDE DEF e, pc
<1>6. /\ handlers' \in Seq(Handlers)
      /\ DOMAIN handlers' = DOMAIN handlers \cup {Len(handlers) + 1}
      /\ \A g \in DOMAIN handlers : handlers'[g] = handlers[g]
      /\ handlers'[Len(handlers) + 1] = e
  BY <1>0, <1>1, <1>5, Appended
<1>7. TypeOK'
  BY <1>0, <1>1, <1>2, <1>6 DEF TypeOK, page
<1>8. ClientInv'
  BY <1>0, <1>1, <1>3, <1>4, <1>6 DEF ClientInv
<1>9. RequestInv'
  <2>1. Head(inbox).kind # "config" => configured /\ initialized
    BY <1>0, <1>2 DEF RequestInv, ClientInv
  <2>2. \A i \in DOMAIN inbox' : inbox'[i].kind # "config" => configured'
    BY <1>0, <1>1, <1>2 DEF RequestInv
  <2>3. ASSUME NEW g \in DOMAIN handlers'
        PROVE  /\ handlers'[g].message.kind # "config" =>
                    configured' /\ handlers'[g].pc \notin {"loading", "constructing", "failed"}
               /\ handlers'[g].pc = "fetching" => handlers'[g].message.kind \in {"state", "execute"}
    <3>1. CASE g \in DOMAIN handlers
      BY <1>0, <1>1, <1>6, <3>1 DEF RequestInv, Kind
    <3>2. CASE g = Len(handlers) + 1
      BY <1>1, <1>3, <1>4, <1>6, <2>1, <3>2
    <3> QED
      BY <1>6, <3>1, <3>2
  <2> QED
    BY <1>0, <1>1, <2>2, <2>3 DEF RequestInv, Kind, Ready, page
<1>10. IdInv'
  BY <1>0, <1>1, <1>2, <1>4, <1>6 DEF IdInv, page
<1>11. AnswersInOwnPair'
  BY <1>0, <1>1 DEF AnswersInOwnPair, page
<1> QED
  BY <1>7, <1>8, <1>9, <1>10, <1>11 DEF IInv

\* The pairs that were there keep their ids, and a new one has an id that no
\* message has: ids stay those of their pairs.
LEMMA OwnIdStays ==
  ASSUME TypeOK, NEW m \in Messages \cup Answers, OwnId(m, pairs, messageId),
         messageId' \in Nat, messageId <= messageId',
         pairs' \in Seq(Pairs),
         DOMAIN pairs \subseteq DOMAIN pairs',
         \A k \in DOMAIN pairs : pairs'[k].id = pairs[k].id,
         \A k \in DOMAIN pairs' \ DOMAIN pairs : pairs'[k].id = messageId
  PROVE  OwnId(m, pairs', messageId')
<1>1. m.id \in Nat /\ m.pair \in Nat /\ messageId \in Nat
  BY DEF Messages, Answers, TypeOK
<1>2. CASE m.pair = 0
  BY <1>2 DEF OwnId
<1>3. CASE m.pair # 0 /\ m.id = Undefined
  BY <1>3 DEF OwnId
<1>4. CASE m.pair # 0 /\ m.id # Undefined
  <2>1. /\ m.pair \in DOMAIN pairs /\ m.id = pairs[m.pair].id /\ m.id < messageId
        /\ \A k \in DOMAIN pairs : k > m.pair => pairs[k].id > m.id
    BY <1>4 DEF OwnId
  <2>2. \A k \in DOMAIN pairs' : k > m.pair => pairs'[k].id > m.id
    BY <1>1, <2>1
  <2> QED
    BY <1>1, <1>4, <2>1, <2>2 DEF OwnId
<1> QED
  BY <1>2, <1>3, <1>4

LEMMA SendKeeps ==
  ASSUME IInv, NEW kind \in Kinds, Send(kind)
  PROVE  IInv'
<1> DEFINE q == [id |-> messageId, kind |-> kind, shows |-> <<>>]
           m == [kind |-> kind, id |-> IF Identified(kind) THEN messageId ELSE Undefined,
                 pair |-> Len(pairs) + 1]
<1>0. /\ TypeOK /\ ClientInv /\ RequestInv /\ IdInv /\ AnswersInOwnPair
      /\ inbox \in Seq(Messages) /\ pairs \in Seq(Pairs) /\ messageId \in Nat \ {0}
      /\ posted \in Seq(Answers) /\ handlers \in Seq(Handlers)
  BY DEF IInv, TypeOK
<1>1. /\ pairs' = Append(pairs, q) /\ Ready
      /\ UNCHANGED <<clicks, status, taken, worker, latest>>
  BY DEF Send
<1>2. q \in Pairs /\ q.id = messageId /\ q.shows = <<>>
  BY <1>0 DEF Pairs
<1>3. m \in Messages /\ m.id \in {messageId, Undefined} /\ m.pair = Len(pairs) + 1 /\ m.kind = kind
  BY <1>0 DEF Messages, Undefined
<1>4. \/ inbox' = Append(inbox, m) /\ messageId' = messageId + 1
      \/ inbox' = inbox /\ messageId' = messageId
  BY DEF Send, NextId
<1> HIDE DEF q, m
<1>5. /\ pairs' \in Seq(Pairs) /\ DOMAIN pairs' = DOMAIN pairs \cup {Len(pairs) + 1}
      /\ \A k \in DOMAIN pairs : pairs'[k] = pairs[k]
      /\ pairs'[Len(pairs) + 1] = q
  BY <1>0, <1>1, <1>2, Appended
<1>6. messageId' \in Nat \ {0} /\ messageId <= messageId'
  BY <1>0, <1>4
<1>7. \/ inbox' = inbox
      \/ /\ messageId' = messageId + 1
         /\ inbox' \in Seq(Messages) /\ DOMAIN inbox' = DOMAIN inbox \cup {Len(inbox) + 1}
         /\ \A i \in DOMAIN inbox : inbox'[i] = inbox[i]
         /\ inbox'[Len(inbox) + 1] = m
  <2>1. CASE inbox' = Append(inbox, m) /\ messageId' = messageId + 1
    <3>1. /\ Append(inbox, m) \in Seq(Messages)
          /\ DOMAIN Append(inbox, m) = DOMAIN inbox \cup {Len(inbox) + 1}
          /\ \A i \in DOMAIN inbox : Append(inbox, m)[i] = inbox[i]
          /\ Append(inbox, m)[Len(inbox) + 1] = m
      BY <1>0, <1>3, Appended
    <3> QED
      BY <2>1, <3>1
  <2>2. CASE inbox' = inbox /\ messageId' = messageId
    BY <2>2
  <2> QED
    BY <1>4, <2>1, <2>2
<1>8. TypeOK'
  BY <1>0, <1>1, <1>5, <1>6, <1>7 DEF TypeOK, worker
<1>9. ClientInv'
  BY <1>0, <1>1 DEF ClientInv, worker
<1>10. RequestInv'
  <2>1. configured /\ configured' = configured /\ Ready'
    BY <1>0, <1>1 DEF RequestInv, Ready, worker
  <2>2. handlers' = handlers
    BY <1>1 DEF worker
  <2> QED
    BY <1>0, <2>1, <2>2 DEF RequestInv, Kind
<1>11. ASSUME NEW x \in Messages \cup Answers, OwnId(x, pairs, messageId)
       PROVE  OwnId(x, pairs', messageId')
  BY <1>0, <1>2, <1>5, <1>6, <1>11, OwnIdStays
<1>12. IdInv'
  <2>1. (\A i \in DOMAIN inbox : OwnId(inbox[i], pairs, messageId))'
    <3>1. \A i \in DOMAIN inbox : inbox[i] \in Messages /\ OwnId(inbox[i], pairs, messageId)
      BY <1>0 DEF IdInv
    <3>2. CASE inbox' = inbox
      BY <1>11, <3>1, <3>2
    <3>3. CASE inbox' # inbox
      <4>1. OwnId(m, pairs', messageId')
        <5>1. messageId' = messageId + 1 /\ messageId \in Nat \ {0}
          BY <1>0, <1>7, <3>3
        <5>2. Len(pairs) \in Nat /\ DOMAIN pairs = 1..Len(pairs)
          BY <1>0
        <5>3. DOMAIN pairs' = 1..(Len(pairs) + 1) /\ pairs'[Len(pairs) + 1].id = messageId
          BY <1>2, <1>5, <5>2
        <5> QED
          BY <1>3, <5>1, <5>2, <5>3 DEF OwnId, Undefined
      <4>2. ASSUME NEW i \in DOMAIN inbox'
            PROVE  OwnId(inbox[i], pairs, messageId)'
        <5>1. CASE i \in DOMAIN inbox
          BY <1>7, <1>11, <3>1, <3>3, <5>1
        <5>2. CASE i = Len(inbox) + 1
          <6>1. inbox'[i] = m
            BY <1>7, <3>3, <5>2
          <6> QED
            BY <4>1, <6>1
        <5> QED
          BY <1>7, <3>3, <5>1, <5>2
      <4> QED
        BY <4>2
    <3> QED
      BY <3>2, <3>3
  <2>2. (\A h \in DOMAIN handlers : OwnId(handlers[h].message, pairs, messageId))'
    <3>1. \A h \in DOMAIN handlers : handlers[h].message \in Messages /\ OwnId(handlers[h].message, pairs, messageId)
      <4>1. ASSUME NEW h \in DOMAIN handlers
            PROVE  handlers[h].message \in Messages
        <5>1. handlers[h] \in Handlers
          BY <1>0
        <5> QED
          BY <5>1 DEF Handlers
      <4> QED
        BY <1>0, <4>1 DEF IdInv
    <3>2. handlers' = handlers
      BY <1>1 DEF worker
    <3> QED
      BY <1>11, <3>1, <3>2
  <2>3. (\A i \in DOMAIN posted : OwnId(posted[i], pairs, messageId) /\ (posted[i].legible => posted[i].id # Undefined))'
    <3>1. \A i \in DOMAIN posted : posted[i] \in Answers /\ OwnId(posted[i], pairs, messageId)
      BY <1>0 DEF IdInv
    <3>2. posted' = posted
      BY <1>1 DEF worker
    <3> QED
      BY <1>0, <1>11, <3>1, <3>2 DEF IdInv
  <2> QED
    BY <2>1, <2>2, <2>3 DEF IdInv
<1>13. AnswersInOwnPair'
  BY <1>0, <1>2, <1>5 DEF AnswersInOwnPair
<1> QED
  BY <1>8, <1>9, <1>10, <1>12, <1>13 DEF IInv

LEMMA ShowKeeps ==
  ASSUME IInv, Show
  PROVE  IInv'
<1> DEFINE m == posted[taken + 1]
           Shown(k) == m.legible /\ k \in WithId(m.id)
           Now(k) == IF Shown(k) THEN [pairs[k] EXCEPT !.shows = Append(@, m)] ELSE pairs[k]
<1>0. /\ TypeOK /\ ClientInv /\ RequestInv /\ IdInv /\ AnswersInOwnPair
      /\ pairs \in Seq(Pairs) /\ posted \in Seq(Answers) /\ taken \in Nat
      /\ handlers \in Seq(Handlers) /\ inbox \in Seq(Messages)
  BY DEF IInv, TypeOK
<1>1. /\ taken < Len(posted) /\ taken' = taken + 1
      /\ UNCHANGED <<clicks, messageId, inbox, worker, latest>>
  BY DEF Show
<1>2. \/ pairs' = pairs /\ ~Ready /\ status' \in {"ready", "error"}
      \/ pairs' = [k \in DOMAIN pairs |-> Now(k)] /\ status' = status
  BY DEF Show
<1>3. taken + 1 \in DOMAIN posted /\ m \in Answers
  BY <1>0, <1>1
<1>4. OwnId(m, pairs, messageId) /\ (m.legible => m.id # Undefined)
  BY <1>0, <1>3 DEF IdInv
<1>5. ASSUME NEW k \in DOMAIN pairs, Shown(k)
      PROVE  m.pair = k
  <2>1. m.id # Undefined
    BY <1>4, <1>5
  <2> HIDE DEF m
  <2>2. m.pair # 0
    BY <1>4, <2>1 DEF OwnId
  <2>3. /\ m.pair \in DOMAIN pairs /\ m.id = pairs[m.pair].id
        /\ \A j \in DOMAIN pairs : j > m.pair => pairs[j].id > m.id
    BY <1>4, <2>1, <2>2 DEF OwnId
  <2>4. pairs[k].id = m.id /\ \A j \in DOMAIN pairs : pairs[j].id = m.id => j <= k
    BY <1>5 DEF WithId
  <2>6. m.pair <= k
    BY <2>3, <2>4
  <2>5. k \in Nat /\ m.pair \in Nat /\ m.id \in Nat
    <3>1. m \in Answers /\ pairs \in Seq(Pairs)
      BY <1>0, <1>3
    <3>2. m.pair \in Nat /\ m.id \in Nat
      BY <3>1 DEF Answers
    <3> QED
      BY <3>1, <3>2
  <2> QED
    BY <2>3, <2>4, <2>5, <2>6
<1>6. ASSUME NEW k \in DOMAIN pairs
      PROVE  Now(k) \in Pairs /\ Now(k).id = pairs[k].id
             /\ \A i \in DOMAIN Now(k).shows : Now(k).shows[i].pair = k
  <2>1. pairs[k] \in Pairs /\ \A i \in DOMAIN pairs[k].shows : pairs[k].shows[i].pair = k
    BY <1>0 DEF AnswersInOwnPair
  <2>2. pairs[k].shows \in Seq(Answers)
    BY <2>1 DEF Pairs
  <2> DEFINE s == Append(pairs[k].shows, m)
  <2>3. /\ s \in Seq(Answers) /\ DOMAIN s = DOMAIN pairs[k].shows \cup {Len(pairs[k].shows) + 1}
        /\ \A i \in DOMAIN pairs[k].shows : s[i] = pairs[k].shows[i]
        /\ s[Len(pairs[k].shows) + 1] = m
    BY <1>3, <2>2, Appended
  <2>4. CASE Shown(k)
    <3>1. m.pair = k
      BY <1>5, <2>4
    <3>2. Now(k) = [pairs[k] EXCEPT !.shows = s]
      BY <2>4
    <3> HIDE DEF s, Now, Shown, m
    <3>3. Now(k) \in Pairs /\ Now(k).id = pairs[k].id /\ Now(k).shows = s
      BY <2>1, <2>3, <3>2 DEF Pairs
    <3> QED
      BY <2>1, <2>3, <3>1, <3>3
  <2>5. CASE ~Shown(k)
    BY <2>1, <2>5
  <2> QED
    BY <2>4, <2>5
<1> HIDE DEF m, Shown, Now
<1>7. /\ pairs' \in Seq(Pairs) /\ DOMAIN pairs' = DOMAIN pairs
      /\ \A k \in DOMAIN pairs :
           /\ pairs'[k].id = pairs[k].id
           /\ \A i \in DOMAIN pairs'[k].shows : pairs'[k].shows[i].pair = k
  <2>1. CASE pairs' = pairs
    BY <1>0, <2>1 DEF AnswersInOwnPair
  <2>2. CASE pairs' = [k \in DOMAIN pairs |-> Now(k)]
    <3>1. DOMAIN pairs = 1..Len(pairs) /\ Len(pairs) \in Nat
      BY <1>0
    <3>2. pairs' = [k \in 1..Len(pairs) |-> Now(k)]
      BY <2>2, <3>1
    <3>3. \A k \in 1..Len(pairs) : Now(k) \in Pairs
      BY <1>6, <3>1
    <3>4. pairs' \in Seq(Pairs)
      BY <3>1, <3>2, <3>3
    <3> QED
      BY <1>6, <2>2, <3>4
  <2> QED
    BY <1>2, <2>1, <2>2
<1>8. TypeOK'
  <2>1. status' \in {"unknown", "pending", "ready", "error"} /\ taken' \in Nat
    BY <1>0, <1>1, <1>2 DEF TypeOK
  <2> QED
    BY <1>0, <1>1, <1>7, <2>1 DEF TypeOK, worker
<1>9. ClientInv'
  BY <1>0, <1>1 DEF ClientInv, worker
<1>10. RequestInv'
  <2>1. configured /\ configured' = configured /\ handlers' = handlers
    BY <1>0, <1>1, <1>3 DEF RequestInv, worker
  <2> QED
    BY <1>0, <1>1, <2>1 DEF RequestInv, Kind
<1>11. ASSUME NEW x \in Messages \cup Answers, OwnId(x, pairs, messageId)
       PROVE  OwnId(x, pairs', messageId')
  <2>1. messageId' = messageId /\ messageId \in Nat
    BY <1>0, <1>1 DEF TypeOK
  <2> QED
    BY <1>0, <1>7, <1>11, <2>1, OwnIdStays
<1>12. IdInv'
  <2>1. \A h \in DOMAIN handlers : handlers[h].message \in Messages
    <3>1. ASSUME NEW h \in DOMAIN handlers
          PROVE  handlers[h].message \in Messages
      <4>1. handlers[h] \in Handlers
        BY <1>0
      <4> QED
        BY <4>1 DEF Handlers
    <3> QED
      BY <3>1
  <2>2. inbox' = inbox /\ handlers' = handlers /\ posted' = posted
    BY <1>1 DEF worker
  <2> QED
    BY <1>0, <1>11, <2>1, <2>2 DEF IdInv
<1>13. AnswersInOwnPair'
  BY <1>7 DEF AnswersInOwnPair
<1> QED
  BY <1>8, <1>9, <1>10, <1>12, <1>13 DEF IInv

LEMMA InitHolds == Init => IInv
<1> SUFFICES ASSUME Init PROVE IInv
  OBVIOUS
<1>1. TypeOK
  <2>1. /\ <<>> \in Seq(Pairs) /\ <<>> \in Seq(Messages) /\ <<>> \in Seq(Clients)
        /\ <<>> \in Seq(Handlers) /\ <<>> \in Seq(Answers)
    OBVIOUS
  <2>2. 0 \in Nat /\ 1 \in Nat \ {0} /\ FALSE \in BOOLEAN
    OBVIOUS
  <2>3. latest \in Nat /\ status \in {"unknown", "pending", "ready", "error"}
    BY DEF Init
  <2> QED
    BY <2>1, <2>2, <2>3, Zenon DEF Init, TypeOK
<1>2. ClientInv /\ RequestInv /\ IdInv /\ AnswersInOwnPair
  BY DEF Init, ClientInv, RequestInv, IdInv, AnswersInOwnPair, Ready
<1> QED
  BY <1>1, <1>2 DEF IInv

LEMMA StepKeeps == IInv /\ [Next]_vars => IInv'
<1> SUFFICES ASSUME IInv, [Next]_vars PROVE IInv'
  OBVIOUS
<1>1. CASE NewBlock
  <2>1. latest' \in Nat /\ UNCHANGED <<page, inbox, worker>>
    BY <1>1 DEF NewBlock, IInv, TypeOK
  <2>2. TypeOK'
    BY <2>1 DEF IInv, TypeOK, page, worker
  <2> QED
    BY <2>1, <2>2 DEF IInv, ClientInv, RequestInv, IdInv, AnswersInOwnPair, Ready, Kind, page, worker
<1>2. CASE Click
  BY <1>2, ClickKeeps
<1>3. CASE \E kind \in Kinds : Send(kind)
  BY <1>3, SendKeeps
<1>4. CASE Show
  BY <1>4, ShowKeeps
<1>5. CASE Receive
  BY <1>5, ReceiveKeeps
<1>6. CASE \E h \in DOMAIN handlers : Step(h)
  BY <1>6, StepMoves, MovesKeep
<1>7. CASE UNCHANGED vars
  <2>1. UNCHANGED <<page, inbox, worker, latest>>
    BY <1>7 DEF vars
  <2>2. TypeOK'
    BY <2>1 DEF IInv, TypeOK, page, worker
  <2> QED
    BY <2>1, <2>2 DEF IInv, ClientInv, RequestInv, IdInv, AnswersInOwnPair, Ready, Kind, page, worker
<1> QED
  BY <1>1, <1>2, <1>3, <1>4, <1>5, <1>6, <1>7 DEF Next

\* The inductive invariant of page and worker: clients, requests and ids stay
\* together at every await (wrk.js:7-51, app.js:22-97).
THEOREM WebInvariance == Spec => []IInv
  BY InitHolds, StepKeeps, PTL DEF Spec

\* A request comes to a worker that has a client, and is never taken for a
\* configuration (wrk.js:14).
THEOREM RequestsMeetClient == Spec => []RequestsFindClient
<1>1. IInv => RequestsFindClient
  <2> SUFFICES ASSUME IInv, NEW h \in DOMAIN handlers, Kind(h) # "config"
               PROVE  configured /\ client # 0 /\ handlers[h].pc # "failed"
    BY DEF RequestsFindClient
  <2>1. configured /\ handlers[h].pc # "failed" /\ client \in DOMAIN clients /\ clients \in Seq(Clients)
    BY Known
  <2> QED
    BY <2>1
<1> QED
  BY <1>1, WebInvariance, PTL

\* An answer is shown in the pair of its request and nowhere else, also when a
\* message that was not posted has left its id to the next one (app.js:57).
THEOREM OwnPairAnswers == Spec => []AnswersInOwnPair
<1>1. IInv => AnswersInOwnPair
  BY DEF IInv
<1> QED
  BY <1>1, WebInvariance, PTL

-----------------------------------------------------------------------------
(* What a step of a handler does to the answers. *)

\* A handler that is done takes no step; it gets there by posting one answer,
\* and posts none before.
LEMMA StepAnswers ==
  ASSUME IInv, NEW h \in DOMAIN handlers, Step(h)
  PROVE  /\ handlers[h].pc # "done"
         /\ \/ posted' = posted /\ handlers'[h].pc # "done"
            \/ /\ handlers'[h].pc = "done"
               /\ \E a \in Answers : Fits(h, a) /\ posted' = Append(posted, a)
<1>0. TypeOK /\ posted \in Seq(Answers) /\ handlers \in Seq(Handlers) /\ handlers[h] \in Handlers
  BY Known DEF IInv
<1>a. {"loading", "next", "constructing", "fetching", "done", "failed", "hangs",
       "thrown", "trapped"} = Statements
  BY DEF Statements
<1>b. Speaks(h)
  BY StepMoves DEF Moves
<1>1. CASE Load(h)
  <2>1. handlers'[h].pc = "next"
    BY <1>0, <1>1, <1>a, HandlerGoes DEF Load
  <2> QED
    BY <1>1, <2>1 DEF Load
<1>2. CASE LoadFails(h) \/ ConstructFails(h)
  <2>1. handlers'[h].pc = "failed"
    BY <1>0, <1>2, <1>a, HandlerGoes DEF LoadFails, ConstructFails
  <2> QED
    BY <1>2, <2>1 DEF LoadFails, ConstructFails
<1>3. CASE Construct(h)
  <2>1. Kind(h) = "config"
    BY <1>3, Known DEF Construct
  <2>2. handlers'[h].pc = "constructing"
    BY <1>0, <1>3, <2>1 DEF Construct, Handlers
  <2> QED
    BY <1>3, <2>2 DEF Construct
<1>4. CASE Hang(h) \/ Throw(h) \/ FetchedTraps(h) \/ ExecuteTraps(h)
  <2>1. PICK pc \in Statements \ {"done"} : handlers' = Goes(h, pc)
    BY <1>4, <1>a DEF Hang, Throw, FetchedTraps, ExecuteTraps
  <2>2. handlers'[h].pc = pc
    BY <1>0, <2>1, HandlerGoes
  <2> QED
    BY <1>4, <2>1, <2>2 DEF Hang, Throw, FetchedTraps, ExecuteTraps, AtRequest
<1>5. CASE Fetch(h)
  <2>1. handlers'[h].pc = "fetching"
    BY <1>0, <1>5 DEF Fetch, Handlers
  <2> QED
    BY <1>5, <2>1 DEF Fetch, AtRequest
<1>6. ASSUME handlers[h].pc # "done", handlers' = Goes(h, "done"), NEW x, posted' = Append(posted, x)
      PROVE  /\ handlers[h].pc # "done"
             /\ handlers'[h].pc = "done"
             /\ \E a \in Answers : Fits(h, a) /\ posted' = Append(posted, a)
  <2>1. handlers'[h].pc = "done"
    BY <1>0, <1>6, <1>a, HandlerGoes
  <2>2. posted' # posted
    <3>1. Len(posted) \in Nat /\ Len(Append(posted, x)) = Len(posted) + 1
      BY <1>0
    <3> QED
      BY <1>6, <3>1
  <2> QED
    BY <1>6, <1>b, <2>1, <2>2, Zenon DEF Speaks
<1>7. CASE Constructed(h)
  BY <1>6, <1>7 DEF Constructed
<1>8. CASE Unknown(h) \/ Refuse(h) \/ Execute(h)
  <2>1. handlers[h].pc = "next" /\ \E S : Post(h, S)
    BY <1>8, Zenon DEF Unknown, Refuse, Execute, AtRequest
  <2> QED
    BY <1>6, <2>1 DEF Post
<1>9. CASE Fetched(h) \/ FetchFails(h)
  <2>1. handlers[h].pc = "fetching" /\ \E S : Post(h, S)
    BY <1>9, Zenon DEF Fetched, FetchFails, AnswerFailure
  <2> QED
    BY <1>6, <2>1 DEF Post
<1> QED
  BY <1>1, <1>2, <1>3, <1>4, <1>5, <1>7, <1>8, <1>9 DEF Step

-----------------------------------------------------------------------------
(* Requests on their way, and the answers to them. *)

\* The number of a pair that is on its way is that of a pair in the log.
LEMMA PairsInLog ==
  ASSUME IInv
  PROVE  /\ pairs \in Seq(Pairs) /\ inbox \in Seq(Messages) /\ handlers \in Seq(Handlers)
         /\ posted \in Seq(Answers)
         /\ \A i \in DOMAIN inbox : inbox[i].pair # 0 => inbox[i].pair \in DOMAIN pairs
         /\ \A h \in DOMAIN handlers :
              handlers[h].message.pair # 0 => handlers[h].message.pair \in DOMAIN pairs
  BY DEF IInv, TypeOK, IdInv, OwnId

LEMMA TransitStep ==
  ASSUME IInv, TransitInv, NEW h \in DOMAIN handlers, Step(h)
  PROVE  TransitInv'
<1>1. /\ inbox' = inbox /\ DOMAIN handlers' = DOMAIN handlers
      /\ \A g \in DOMAIN handlers : handlers'[g].message = handlers[g].message
  BY StepMoves DEF Moves
<1> QED
  BY <1>1 DEF TransitInv

LEMMA TransitReceive ==
  ASSUME IInv, TransitInv, Receive
  PROVE  TransitInv'
<1> DEFINE e == Handler(Head(inbox), IF initialized THEN "next" ELSE "loading")
<1>1. inbox # <<>> /\ inbox' = Tail(inbox) /\ handlers' = Append(handlers, e)
  BY DEF Receive
<1>2. inbox \in Seq(Messages) /\ handlers \in Seq(Handlers)
  BY PairsInLog
<1>3. e.message = inbox[1] /\ e \in Handlers
  <2>1. Head(inbox) \in Messages /\ Head(inbox) = inbox[1] /\ latest \in Nat
    BY <1>1, <1>2 DEF IInv, TypeOK
  <2> QED
    BY <2>1 DEF Handler, Handlers, Statements
<1> HIDE DEF e
<1>4. /\ 1 \in DOMAIN inbox
      /\ \A i \in DOMAIN inbox' :
           i # 0 /\ i \in Nat /\ i + 1 \in DOMAIN inbox /\ inbox'[i] = inbox[i + 1]
  BY <1>1, <1>2
<1>5. /\ DOMAIN handlers' = DOMAIN handlers \cup {Len(handlers) + 1}
      /\ \A g \in DOMAIN handlers : handlers'[g] = handlers[g]
      /\ handlers'[Len(handlers) + 1].message = inbox[1]
  BY <1>1, <1>2, <1>3, Appended
<1>6. ASSUME NEW i \in DOMAIN inbox', NEW j \in DOMAIN inbox',
             inbox'[i].pair # 0, inbox'[i].pair = inbox'[j].pair
      PROVE  i = j
  <2>1. i + 1 = j + 1
    BY <1>4, <1>6 DEF TransitInv
  <2> QED
    BY <1>4, <2>1
<1>7. ASSUME NEW i \in DOMAIN inbox', NEW h \in DOMAIN handlers', inbox'[i].pair # 0
      PROVE  handlers'[h].message.pair # inbox'[i].pair
  <2>1. CASE h \in DOMAIN handlers
    BY <1>4, <1>5, <1>7, <2>1 DEF TransitInv
  <2>2. CASE h = Len(handlers) + 1
    <3>1. i + 1 # 1 /\ i + 1 \in DOMAIN inbox /\ inbox'[i] = inbox[i + 1]
      BY <1>4
    <3> QED
      BY <1>4, <1>5, <1>7, <2>2, <3>1 DEF TransitInv
  <2> QED
    BY <1>5, <2>1, <2>2
<1>8. ASSUME NEW g \in DOMAIN handlers', NEW h \in DOMAIN handlers',
             handlers'[g].message.pair # 0,
             handlers'[g].message.pair = handlers'[h].message.pair
      PROVE  g = h
  <2>1. CASE g \in DOMAIN handlers /\ h \in DOMAIN handlers
    BY <1>5, <1>8, <2>1 DEF TransitInv
  <2>2. CASE g \in DOMAIN handlers /\ h = Len(handlers) + 1
    BY <1>4, <1>5, <1>8, <2>2 DEF TransitInv
  <2>3. CASE g = Len(handlers) + 1 /\ h \in DOMAIN handlers
    BY <1>4, <1>5, <1>8, <2>3 DEF TransitInv
  <2> QED
    BY <1>5, <2>1, <2>2, <2>3
<1> QED
  BY <1>6, <1>7, <1>8 DEF TransitInv

\* A message joins the inbox with a pair that no other has, or with none.
LEMMA TransitJoins ==
  ASSUME IInv, TransitInv, NEW m \in Messages, inbox' = Append(inbox, m),
         handlers' = handlers, m.pair # 0 => m.pair \notin DOMAIN pairs
  PROVE  TransitInv'
<1>1. inbox \in Seq(Messages)
  BY PairsInLog
<1>2. /\ DOMAIN inbox' = DOMAIN inbox \cup {Len(inbox) + 1}
      /\ \A i \in DOMAIN inbox : inbox'[i] = inbox[i]
      /\ inbox'[Len(inbox) + 1] = m
  BY <1>1, Appended
<1>3. /\ \A i \in DOMAIN inbox : m.pair # 0 => inbox[i].pair # m.pair
      /\ \A h \in DOMAIN handlers : m.pair # 0 => handlers[h].message.pair # m.pair
  BY PairsInLog
<1> QED
  BY <1>2, <1>3 DEF TransitInv

LEMMA TransitKept == IInv /\ TransitInv /\ [Next]_vars => TransitInv'
<1> SUFFICES ASSUME IInv, TransitInv, [Next]_vars PROVE TransitInv'
  OBVIOUS
<1>1. CASE NewBlock \/ Show \/ UNCHANGED vars
  <2>1. inbox' = inbox /\ handlers' = handlers
    BY <1>1 DEF NewBlock, Show, vars, worker
  <2> QED
    BY <2>1 DEF TransitInv
<1>2. CASE Click
  <2> DEFINE m == [kind |-> "config", id |-> Undefined, pair |-> 0]
  <2>1. m \in Messages /\ m.pair = 0
    BY DEF Messages, Undefined
  <2>2. inbox' = Append(inbox, m) /\ handlers' = handlers
    BY <1>2 DEF Click, worker
  <2> HIDE DEF m
  <2> QED
    BY <2>1, <2>2, TransitJoins
<1>3. ASSUME NEW kind \in Kinds, Send(kind)
      PROVE  TransitInv'
  <2> DEFINE m == [kind |-> kind, id |-> IF Identified(kind) THEN messageId ELSE Undefined,
                   pair |-> Len(pairs) + 1]
  <2>1. messageId \in Nat /\ pairs \in Seq(Pairs)
    BY DEF IInv, TypeOK
  <2>2. m \in Messages /\ m.pair = Len(pairs) + 1
    BY <2>1 DEF Messages, Undefined
  <2>3. m.pair \notin DOMAIN pairs
    BY <2>1, <2>2
  <2>4. (inbox' = Append(inbox, m) \/ inbox' = inbox) /\ handlers' = handlers
    BY <1>3 DEF Send, worker
  <2> HIDE DEF m
  <2>5. CASE inbox' = Append(inbox, m)
    BY <2>2, <2>3, <2>4, <2>5, TransitJoins
  <2>6. CASE inbox' = inbox
    BY <2>4, <2>6 DEF TransitInv
  <2> QED
    BY <2>4, <2>5, <2>6
<1>4. CASE Receive
  BY <1>4, TransitReceive
<1>5. CASE \E h \in DOMAIN handlers : Step(h)
  BY <1>5, TransitStep
<1> QED
  BY <1>1, <1>2, <1>3, <1>4, <1>5 DEF Next

\* The answers with one more.
LEMMA OneMore ==
  ASSUME IInv, NEW a \in Answers, posted' = Append(posted, a)
  PROVE  /\ Len(posted) + 1 \notin DOMAIN posted
         /\ DOMAIN posted' = DOMAIN posted \cup {Len(posted) + 1}
         /\ \A i \in DOMAIN posted : posted'[i] = posted[i]
         /\ posted'[Len(posted) + 1] = a
<1>1. posted \in Seq(Answers)
  BY PairsInLog
<1> QED
  BY <1>1, Appended

LEMMA PostedStep ==
  ASSUME IInv, TransitInv, PostedInv, NEW h \in DOMAIN handlers, Step(h)
  PROVE  PostedInv'
<1>1. /\ DOMAIN handlers' = DOMAIN handlers
      /\ \A g \in DOMAIN handlers :
           handlers'[g].message = handlers[g].message /\ (g # h => handlers'[g] = handlers[g])
  BY StepMoves DEF Moves
<1>2. handlers[h].pc # "done"
  BY StepAnswers
<1>3. CASE posted' = posted /\ handlers'[h].pc # "done"
  BY <1>1, <1>2, <1>3 DEF PostedInv, Posted
<1>4. ASSUME handlers'[h].pc = "done", NEW a \in Answers, Fits(h, a), posted' = Append(posted, a)
      PROVE  PostedInv'
  <2> DEFINE n == Len(posted) + 1
  <2>1. /\ n \notin DOMAIN posted /\ DOMAIN posted' = DOMAIN posted \cup {n}
        /\ \A i \in DOMAIN posted : posted'[i] = posted[i]
        /\ posted'[n] = a /\ a.pair = handlers[h].message.pair
    BY <1>4, OneMore DEF Fits
  <2> HIDE DEF n
  <2>2. \A i \in DOMAIN posted : a.pair # 0 => posted[i].pair # a.pair
    BY <1>2, <2>1 DEF PostedInv, TransitInv
  <2>3. ASSUME NEW i \in DOMAIN posted', NEW j \in DOMAIN posted', posted'[i].pair # 0,
               posted'[i].pair = posted'[j].pair
        PROVE  i = j
    BY <2>1, <2>2, <2>3 DEF PostedInv
  <2>4. ASSUME NEW i \in DOMAIN posted'
        PROVE  \E g \in DOMAIN handlers' :
                 handlers'[g].pc = "done" /\ handlers'[g].message.pair = posted'[i].pair
    <3>1. CASE i = n
      BY <1>1, <1>4, <2>1, <3>1
    <3>2. CASE i # n
      <4>1. PICK g \in DOMAIN handlers :
              handlers[g].pc = "done" /\ handlers[g].message.pair = posted[i].pair
        BY <2>1, <2>4, <3>2 DEF PostedInv
      <4> QED
        BY <1>1, <1>2, <2>1, <3>2, <4>1
    <3> QED
      BY <3>1, <3>2
  <2>5. ASSUME NEW g \in DOMAIN handlers', handlers'[g].pc = "done"
        PROVE  \E i \in DOMAIN posted' : posted'[i].pair = handlers'[g].message.pair
    <3>1. CASE g = h
      BY <1>1, <2>1, <3>1
    <3>2. CASE g # h
      <4>1. \E i \in DOMAIN posted : posted[i].pair = handlers[g].message.pair
        BY <1>1, <2>5, <3>2 DEF PostedInv, Posted
      <4> QED
        BY <1>1, <2>1, <4>1
    <3> QED
      BY <3>1, <3>2
  <2> QED
    BY <2>3, <2>4, <2>5 DEF PostedInv, Posted
<1> QED
  BY <1>3, <1>4, StepAnswers

LEMMA PostedKept == IInv /\ TransitInv /\ PostedInv /\ [Next]_vars => PostedInv'
<1> SUFFICES ASSUME IInv, TransitInv, PostedInv, [Next]_vars PROVE PostedInv'
  OBVIOUS
<1>1. CASE NewBlock \/ Click \/ (\E kind \in Kinds : Send(kind)) \/ Show \/ UNCHANGED vars
  <2>1. posted' = posted /\ handlers' = handlers
    BY <1>1 DEF NewBlock, Click, Send, Show, vars, worker
  <2> QED
    BY <2>1 DEF PostedInv, Posted
<1>2. CASE Receive
  <2> DEFINE e == Handler(Head(inbox), IF initialized THEN "next" ELSE "loading")
  <2>1. posted' = posted /\ inbox # <<>> /\ handlers' = Append(handlers, e)
    BY <1>2 DEF Receive
  <2>2. inbox \in Seq(Messages) /\ handlers \in Seq(Handlers) /\ latest \in Nat
    BY PairsInLog DEF IInv, TypeOK
  <2>3. e \in Handlers /\ e.pc # "done"
    <3>1. Head(inbox) \in Messages
      BY <2>1, <2>2
    <3> QED
      BY <2>2, <3>1 DEF Handler, Handlers, Statements
  <2> HIDE DEF e
  <2>4. /\ DOMAIN handlers' = DOMAIN handlers \cup {Len(handlers) + 1}
        /\ \A g \in DOMAIN handlers : handlers'[g] = handlers[g]
        /\ handlers'[Len(handlers) + 1] = e
    BY <2>1, <2>2, <2>3, Appended
  <2> QED
    BY <2>1, <2>3, <2>4 DEF PostedInv, Posted
<1>3. CASE \E h \in DOMAIN handlers : Step(h)
  BY <1>3, PostedStep
<1> QED
  BY <1>1, <1>2, <1>3 DEF Next

-----------------------------------------------------------------------------
(* What a pair shows. *)

\* The page takes the next answer, of which its pair shows none yet.
LEMMA ShownShow ==
  ASSUME IInv, PostedInv, ShownInv, Show
  PROVE  ShownInv'
<1> DEFINE m == posted[taken + 1]
           Now(k) == [pairs[k] EXCEPT !.shows = Append(@, m)]
<1>0. pairs \in Seq(Pairs) /\ posted \in Seq(Answers) /\ taken \in Nat
  BY DEF IInv, TypeOK
<1>1. taken < Len(posted) /\ taken' = taken + 1 /\ posted' = posted
  BY DEF Show, worker
<1>2. taken + 1 \in DOMAIN posted /\ m \in Answers
  BY <1>0, <1>1
<1>3. /\ DOMAIN pairs' = DOMAIN pairs
      /\ \A k \in DOMAIN pairs : pairs'[k] = pairs[k] \/ pairs'[k] = Now(k)
  BY DEF Show
<1>4. AnswersInOwnPair'
  BY StepKeeps DEF IInv, Next
<1>5. ASSUME NEW k \in DOMAIN pairs
      PROVE  /\ Len(pairs'[k].shows) <= 1
             /\ pairs'[k].shows # <<>> => \E i \in Posted(k)' : i <= taken'
  <2>1. pairs[k] \in Pairs /\ k # 0
    BY <1>0
  <2>2. pairs[k].shows \in Seq(Answers)
    BY <2>1 DEF Pairs
  <2>3. CASE pairs'[k] = pairs[k]
    BY <1>0, <1>1, <2>3 DEF ShownInv, Posted
  <2>4. CASE pairs'[k] = Now(k)
    <3> DEFINE s == Append(pairs[k].shows, m)
    <3>1. pairs'[k].shows = s
      <4>1. Now(k).shows = s
        BY <2>1 DEF Pairs
      <4> QED
        BY <2>4, <4>1
    <3>2. s[Len(pairs[k].shows) + 1] = m /\ Len(pairs[k].shows) + 1 \in DOMAIN s
          /\ Len(s) = Len(pairs[k].shows) + 1
      BY <1>2, <2>2
    <3> HIDE DEF s
    <3>3. m.pair = k
      BY <1>3, <1>4, <3>1, <3>2 DEF AnswersInOwnPair
    <3> HIDE DEF m
    <3>4. pairs[k].shows = <<>>
      <4>1. SUFFICES ASSUME pairs[k].shows # <<>> PROVE FALSE
        OBVIOUS
      <4>2. PICK i \in Posted(k) : i <= taken
        BY <4>1 DEF ShownInv
      <4>3. i \in DOMAIN posted /\ posted[i].pair = k
        BY <4>2 DEF Posted
      <4>4. i = taken + 1
        BY <1>2, <2>1, <3>3, <4>3 DEF PostedInv, m
      <4> QED
        BY <1>0, <4>2, <4>4
    <3>5. Len(pairs'[k].shows) = 1
      BY <3>1, <3>2, <3>4
    <3>6. taken + 1 \in Posted(k)' /\ taken + 1 <= taken'
      BY <1>0, <1>1, <1>2, <3>3 DEF Posted, m
    <3> QED
      BY <3>5, <3>6
  <2> QED
    BY <1>3, <2>3, <2>4
<1> QED
  BY <1>3, <1>5 DEF ShownInv

LEMMA ShownKept == IInv /\ PostedInv /\ ShownInv /\ [Next]_vars => ShownInv'
<1> SUFFICES ASSUME IInv, PostedInv, ShownInv, [Next]_vars PROVE ShownInv'
  OBVIOUS
<1>1. CASE NewBlock \/ Click \/ Receive \/ UNCHANGED vars
  <2>1. pairs' = pairs /\ posted' = posted /\ taken' = taken
    BY <1>1 DEF NewBlock, Click, Receive, vars, page, worker
  <2> QED
    BY <2>1 DEF ShownInv, Posted
<1>2. ASSUME NEW kind \in Kinds, Send(kind)
      PROVE  ShownInv'
  <2> DEFINE q == [id |-> messageId, kind |-> kind, shows |-> <<>>]
  <2>1. /\ pairs \in Seq(Pairs) /\ messageId \in Nat /\ pairs' = Append(pairs, q)
        /\ posted' = posted /\ taken' = taken
    BY <1>2 DEF Send, worker, IInv, TypeOK
  <2>2. q \in Pairs /\ q.shows = <<>>
    BY <2>1 DEF Pairs
  <2> HIDE DEF q
  <2>3. /\ DOMAIN pairs' = DOMAIN pairs \cup {Len(pairs) + 1}
        /\ \A k \in DOMAIN pairs : pairs'[k] = pairs[k]
        /\ pairs'[Len(pairs) + 1] = q
    BY <2>1, <2>2, Appended
  <2> QED
    BY <2>1, <2>2, <2>3 DEF ShownInv, Posted
<1>3. CASE Show
  BY <1>3, ShownShow
<1>4. ASSUME NEW h \in DOMAIN handlers, Step(h)
      PROVE  ShownInv'
  <2>1. pairs' = pairs /\ taken' = taken
    BY <1>4, StepMoves DEF Moves, page
  <2>2. DOMAIN posted \subseteq DOMAIN posted' /\ \A i \in DOMAIN posted : posted'[i] = posted[i]
    BY <1>4, StepAnswers, OneMore
  <2>3. \A k : Posted(k) \subseteq Posted(k)'
    BY <2>2 DEF Posted
  <2> QED
    BY <2>1, <2>3 DEF ShownInv
<1> QED
  BY <1>1, <1>2, <1>3, <1>4 DEF Next

-----------------------------------------------------------------------------
(* The states of the clients. *)

\* What the steps of a handler do to the clients and to what they answer: a
\* client is borrowed for a fetch, given back with the block that came or as it
\* was, and a state or a call that is answered is on the state of its client.
Serves(h) ==
  \/ \* no fetch: at most a client is added
     /\ handlers'[h].pc # "fetching" /\ handlers[h].pc # "fetching"
     /\ \A c \in DOMAIN clients : clients'[c] = clients[c]
     /\ \A c \in DOMAIN clients' \ DOMAIN clients : clients'[c].state = 0
     /\ \/ posted' = posted
        \/ \E a \in Answers :
             /\ posted' = Append(posted, a)
             /\ a.kind # "state"
             /\ a.kind = "execute" => a.client \in DOMAIN clients /\ a.block = clients[a.client].state
  \/ \* a fetch sets out
     /\ handlers'[h].pc = "fetching" /\ posted' = posted
     /\ handlers'[h].since = latest
     /\ \E c \in DOMAIN clients :
          /\ handlers'[h].at = c
          /\ clients[c].user = 0
          /\ clients'[c].user = h /\ clients'[c].state = clients[c].state
          /\ DOMAIN clients' = DOMAIN clients
          /\ \A d \in DOMAIN clients : d # c => clients'[d] = clients[d]
  \/ \* a fetch ends, with an answer or in a trap
     /\ handlers[h].pc = "fetching" /\ handlers'[h].pc # "fetching"
     /\ LET c == handlers[h].at IN
        /\ DOMAIN clients' = DOMAIN clients
        /\ \A d \in DOMAIN clients : d # c => clients'[d] = clients[d]
        /\ \/ clients'[c].state = clients[c].state
           \/ clients'[c].state \in handlers[h].since..latest
        /\ \/ posted' = posted
           \/ \E a \in Answers :
                /\ posted' = Append(posted, a)
                /\ a.kind \in {"state", "execute"} =>
                     a.client = c /\ a.block = clients'[c].state
  \/ \* a call on the state that is there ends in a trap
     /\ handlers[h].pc # "fetching" /\ handlers'[h].pc # "fetching" /\ posted' = posted
     /\ \E c \in DOMAIN clients :
          /\ clients[c].user = 0 /\ clients'[c].state = clients[c].state
          /\ DOMAIN clients' = DOMAIN clients
          /\ \A d \in DOMAIN clients : d # c => clients'[d] = clients[d]

\* An answer's kind, client and block.
Tells(a, kind, c, block) ==
  a \in Answers /\ a.kind = kind /\ a.client = c /\ a.block = block

LEMMA AnswerOf ==
  ASSUME TypeOK, NEW h \in DOMAIN handlers, NEW c \in Nat, NEW block \in Nat,
         NEW kind \in {"OK", "state", "execute", "error"}, NEW legible \in BOOLEAN
  PROVE  Tells(Answer(h, c, kind, legible, block), kind, c, block)
<1>1. Answer(h, c, kind, legible, block) \in Answers
  BY AnswerFits, Zenon DEF Fits
<1> QED
  BY <1>1 DEF Answer, Tells

LEMMA ErrorOf ==
  ASSUME TypeOK, NEW h \in DOMAIN handlers, NEW c \in Nat, NEW block \in Nat,
         NEW a \in Errors(h, c, block)
  PROVE  a \in Answers /\ a.kind = "error"
<1>1. PICK legible \in BOOLEAN : a = Answer(h, c, "error", legible, block)
  BY Zenon DEF Errors
<1>2. "error" \in {"OK", "state", "execute", "error"}
  OBVIOUS
<1>3. Tells(a, "error", c, block)
  BY <1>1, <1>2, AnswerOf, Zenon
<1> QED
  BY <1>3 DEF Tells

LEMMA ResultOf ==
  ASSUME TypeOK, NEW h \in DOMAIN handlers, NEW c \in Nat, NEW block \in Nat,
         Kind(h) \in {"state", "execute"}, NEW a \in Results(h, c, block)
  PROVE  /\ a \in Answers
         /\ a.kind = "error" \/ (a.kind = Kind(h) /\ a.client = c /\ a.block = block)
<1>1. CASE a \in Errors(h, c, block)
  BY <1>1, ErrorOf
<1>2. CASE a = Answer(h, c, Kind(h), TRUE, block)
  <2>1. Kind(h) \in {"OK", "state", "execute", "error"} /\ TRUE \in BOOLEAN
    OBVIOUS
  <2>2. Tells(a, Kind(h), c, block)
    BY <1>2, <2>1, AnswerOf, Zenon
  <2> QED
    BY <2>2 DEF Tells
<1> QED
  BY <1>1, <1>2, Zenon DEF Results

LEMMA StepServes ==
  ASSUME IInv, NEW h \in DOMAIN handlers, Step(h)
  PROVE  Serves(h)
<1>0. TypeOK /\ handlers \in Seq(Handlers) /\ handlers[h] \in Handlers /\ clients \in Seq(Clients)
      /\ client \in Nat /\ handlers[h].at \in Nat
  BY Known DEF IInv
<1>a. {"loading", "next", "constructing", "fetching", "done", "failed", "hangs",
       "thrown", "trapped"} = Statements
  BY DEF Statements
<1>1. CASE Load(h) \/ LoadFails(h) \/ ConstructFails(h) \/ Hang(h) \/ Throw(h)
  <2>1. handlers[h].pc # "fetching" /\ posted' = posted /\ clients' = clients
    BY <1>1 DEF Load, LoadFails, ConstructFails, Hang, Throw, AtRequest
  <2>2. handlers'[h].pc # "fetching"
    <3>1. \E pc \in Statements \ {"fetching"} : handlers' = Goes(h, pc)
      BY <1>1, <1>a DEF Load, LoadFails, ConstructFails, Hang, Throw
    <3> QED
      BY <1>0, <3>1, HandlerGoes
  <2> QED
    BY <2>1, <2>2 DEF Serves
<1>2. CASE Construct(h)
  <2>1. Kind(h) = "config"
    BY <1>2, Known DEF Construct
  <2> DEFINE c == [instance |-> wasm, state |-> 0, user |-> 0]
  <2>2. clients' = Append(clients, c) /\ posted' = posted /\ handlers[h].pc = "next"
    BY <1>2, <2>1 DEF Construct
  <2>3. c \in Clients /\ c.state = 0
    BY Known DEF Clients
  <2>4. handlers'[h].pc = "constructing"
    BY <1>0, <1>2, <2>1 DEF Construct, Handlers
  <2> HIDE DEF c
  <2>5. /\ DOMAIN clients' = DOMAIN clients \cup {Len(clients) + 1}
        /\ \A d \in DOMAIN clients : clients'[d] = clients[d]
        /\ clients'[Len(clients) + 1] = c
    BY <1>0, <2>2, <2>3, Appended
  <2> QED
    BY <2>2, <2>3, <2>4, <2>5 DEF Serves
<1>3. ASSUME handlers[h].pc # "fetching", handlers' = Goes(h, "done"), clients' = clients,
             NEW a \in Answers, posted' = Append(posted, a), a.kind # "state",
             a.kind = "execute" => a.client \in DOMAIN clients /\ a.block = clients[a.client].state
      PROVE  Serves(h)
  <2>1. handlers'[h].pc = "done"
    BY <1>0, <1>3, <1>a, HandlerGoes
  <2> QED
    BY <1>3, <2>1 DEF Serves
<1>4. CASE Constructed(h)
  <2> DEFINE a == Answer(h, handlers[h].at, "OK", FALSE, 0)
  <2>1. "OK" \in {"OK", "state", "execute", "error"} /\ FALSE \in BOOLEAN /\ 0 \in Nat
    OBVIOUS
  <2>2. a \in Answers /\ a.kind = "OK"
    <3>1. Tells(a, "OK", handlers[h].at, 0)
      BY <1>0, <2>1, AnswerOf, Zenon
    <3> QED
      BY <3>1 DEF Tells
  <2>3. handlers[h].pc = "constructing" /\ handlers' = Goes(h, "done") /\ clients' = clients
        /\ posted' = Append(posted, a)
    BY <1>4 DEF Constructed
  <2> HIDE DEF a
  <2> QED
    BY <1>3, <2>2, <2>3
<1>5. CASE Unknown(h) \/ Refuse(h)
  <2>1. handlers[h].pc = "next" /\ clients' = clients
    BY <1>5 DEF Unknown, Refuse, AtRequest
  <2>2. \E S : Post(h, S) /\ \A a \in S : a \in Answers /\ a.kind = "error"
    <3>1. CASE Unknown(h)
      <4> DEFINE x == Answer(h, client, "error", TRUE, 0)
      <4>1. Post(h, {x})
        BY <3>1 DEF Unknown
      <4>2. "error" \in {"OK", "state", "execute", "error"} /\ TRUE \in BOOLEAN /\ 0 \in Nat
        OBVIOUS
      <4>3. Tells(x, "error", client, 0)
        BY <1>0, <4>2, AnswerOf, Zenon
      <4> HIDE DEF x
      <4> QED
        BY <4>1, <4>3 DEF Tells
    <3>2. CASE Refuse(h)
      <4>1. Post(h, Errors(h, client, 0)) /\ 0 \in Nat
        BY <3>2 DEF Refuse
      <4> QED
        BY <1>0, <4>1, ErrorOf
    <3> QED
      BY <1>5, <3>1, <3>2
  <2>3. PICK a \in Answers : a.kind = "error" /\ posted' = Append(posted, a)
    BY <2>2 DEF Post
  <2>4. handlers' = Goes(h, "done")
    BY <2>2 DEF Post
  <2> QED
    BY <1>3, <2>1, <2>3, <2>4
<1>6. CASE Execute(h)
  <2> DEFINE b == clients[client].state
  <2>1. handlers[h].pc = "next" /\ clients' = clients /\ Kind(h) = "execute" /\ configured
        /\ Post(h, Results(h, client, b))
    BY <1>6 DEF Execute, AtRequest
  <2>2. client \in DOMAIN clients /\ b \in Nat
    <3>1. client \in DOMAIN clients
      BY <2>1, Known
    <3>2. clients[client] \in Clients
      BY <1>0, <3>1
    <3> QED
      BY <3>1, <3>2 DEF Clients
  <2>3. PICK a \in Results(h, client, b) : posted' = Append(posted, a)
    BY <2>1 DEF Post
  <2>4. handlers' = Goes(h, "done")
    BY <2>1 DEF Post
  <2>5. a \in Answers /\ (a.kind = "error" \/ (a.kind = "execute" /\ a.client = client /\ a.block = b))
    BY <1>0, <2>1, <2>2, ResultOf
  <2> QED
    BY <1>3, <2>1, <2>2, <2>3, <2>4, <2>5
<1>7. CASE Fetch(h)
  <2>1. client \in DOMAIN clients
    BY <1>7, Known DEF Fetch, AtRequest
  <2>2. clients[client] \in Clients
    BY <1>0, <2>1
  <2>3. posted' = posted /\ clients[client].user = 0
        /\ handlers' = [handlers EXCEPT ![h].pc = "fetching", ![h].at = client, ![h].since = latest]
        /\ clients' = [clients EXCEPT ![client].user = h]
    BY <1>7 DEF Fetch, Busy
  <2>4. handlers'[h].pc = "fetching" /\ handlers'[h].at = client /\ handlers'[h].since = latest
    BY <1>0, <2>3 DEF Handlers
  <2>5. /\ clients'[client].user = h /\ clients'[client].state = clients[client].state
        /\ DOMAIN clients' = DOMAIN clients
        /\ \A d \in DOMAIN clients : d # client => clients'[d] = clients[d]
    BY <1>0, <2>1, <2>2, <2>3 DEF Clients
  <2> QED
    BY <2>1, <2>3, <2>4, <2>5 DEF Serves
<1>8. CASE Fetched(h)
  <2> DEFINE c == handlers[h].at
  <2>1. /\ handlers[h].pc = "fetching" /\ Kind(h) \in {"state", "execute"} /\ c \in DOMAIN clients
        /\ c \in Nat /\ handlers[h].since \in Nat /\ latest \in Nat
    BY <1>8, Known DEF Fetched
  <2>2. PICK b \in handlers[h].since..latest :
          /\ clients' = [clients EXCEPT ![c].state = b, ![c].user = 0]
          /\ Post(h, Results(h, c, b))
    BY <1>8 DEF Fetched
  <2>3. b \in Nat /\ clients[c] \in Clients
    BY <1>0, <2>1, <2>2
  <2> HIDE DEF c
  <2>4. /\ clients'[c].state = b /\ DOMAIN clients' = DOMAIN clients
        /\ \A d \in DOMAIN clients : d # c => clients'[d] = clients[d]
    BY <1>0, <2>1, <2>2, <2>3 DEF Clients
  <2>5. PICK a \in Results(h, c, b) : posted' = Append(posted, a)
    BY <2>2 DEF Post
  <2>6. handlers'[h].pc = "done"
    BY <1>0, <1>a, <2>2, HandlerGoes DEF Post
  <2>7. a \in Answers /\ (a.kind = "error" \/ (a.client = c /\ a.block = b))
    BY <1>0, <2>1, <2>3, ResultOf
  <2>8. /\ clients'[c].state \in handlers[h].since..latest
        /\ a.kind \in {"state", "execute"} => a.client = c /\ a.block = clients'[c].state
    BY <2>2, <2>4, <2>7
  <2> QED
    BY <2>1, <2>4, <2>5, <2>6, <2>7, <2>8 DEF Serves, c
<1>9. CASE FetchFails(h)
  <2> DEFINE c == handlers[h].at
  <2>1. /\ handlers[h].pc = "fetching" /\ c \in DOMAIN clients /\ c \in Nat /\ 0 \in Nat
        /\ clients' = [clients EXCEPT ![c].user = 0] /\ Post(h, Errors(h, c, 0))
    BY <1>9, Known DEF FetchFails, AnswerFailure
  <2>2. clients[c] \in Clients
    BY <1>0, <2>1
  <2> HIDE DEF c
  <2>3. /\ clients'[c].state = clients[c].state /\ DOMAIN clients' = DOMAIN clients
        /\ \A d \in DOMAIN clients : d # c => clients'[d] = clients[d]
    BY <1>0, <2>1, <2>2 DEF Clients
  <2>4. PICK a \in Errors(h, c, 0) : posted' = Append(posted, a)
    BY <2>1 DEF Post
  <2>5. handlers'[h].pc = "done"
    BY <1>0, <1>a, <2>1, HandlerGoes DEF Post
  <2>6. a \in Answers /\ a.kind = "error"
    BY <1>0, <2>1, ErrorOf
  <2> QED
    BY <2>1, <2>3, <2>4, <2>5, <2>6 DEF Serves, c
<1>10. CASE FetchedTraps(h)
  <2> DEFINE c == handlers[h].at
  <2>1. /\ handlers[h].pc = "fetching" /\ c \in DOMAIN clients /\ posted' = posted
        /\ handlers[h].since \in Nat /\ latest \in Nat /\ handlers' = Goes(h, "trapped")
    BY <1>10, Known DEF FetchedTraps
  <2>2. PICK b \in handlers[h].since..latest : clients' = [clients EXCEPT ![c].state = b]
    BY <1>10 DEF FetchedTraps
  <2>3. clients[c] \in Clients
    BY <1>0, <2>1
  <2> HIDE DEF c
  <2>4. /\ clients'[c].state = b /\ DOMAIN clients' = DOMAIN clients
        /\ \A d \in DOMAIN clients : d # c => clients'[d] = clients[d]
    BY <1>0, <2>1, <2>2, <2>3 DEF Clients
  <2>5. handlers'[h].pc = "trapped"
    BY <1>0, <1>a, <2>1, HandlerGoes
  <2> QED
    BY <2>1, <2>2, <2>4, <2>5 DEF Serves, c
<1>11. CASE ExecuteTraps(h)
  <2>1. /\ client \in DOMAIN clients /\ clients[client].user = 0 /\ handlers[h].pc = "next"
        /\ posted' = posted /\ clients' = [clients EXCEPT ![client].user = h]
        /\ handlers' = Goes(h, "trapped")
    BY <1>11, Known DEF ExecuteTraps, AtRequest, Busy
  <2>2. clients[client] \in Clients
    BY <1>0, <2>1
  <2>3. /\ clients'[client].state = clients[client].state
        /\ DOMAIN clients' = DOMAIN clients
        /\ \A d \in DOMAIN clients : d # client => clients'[d] = clients[d]
    BY <1>0, <2>1, <2>2 DEF Clients
  <2>4. handlers'[h].pc = "trapped"
    BY <1>0, <1>a, <2>1, HandlerGoes
  <2> QED
    BY <2>1, <2>3, <2>4 DEF Serves
<1> QED
  BY <1>1, <1>2, <1>4, <1>5, <1>6, <1>7, <1>8, <1>9, <1>10, <1>11 DEF Step

\* States move on only, and a call is on a state that is not older than one that
\* its client has answered.
LEMMA StateStep ==
  ASSUME IInv, StateInv, CallsOnShownState, NEW h \in DOMAIN handlers, Step(h)
  PROVE  StateInv' /\ CallsOnShownState'
<1>0. /\ DOMAIN handlers' = DOMAIN handlers
      /\ \A g \in DOMAIN handlers : g # h => handlers'[g] = handlers[g]
      /\ DOMAIN clients \subseteq DOMAIN clients' /\ latest' = latest
  BY StepMoves DEF Moves
<1>1. /\ latest \in Nat /\ h \in Nat \ {0}
      /\ \A g \in DOMAIN handlers :
           /\ handlers[g].since \in Nat /\ g \in Nat \ {0}
           /\ handlers[g].pc = "fetching" => handlers[g].at \in DOMAIN clients
      /\ \A c \in DOMAIN clients : clients[c].state \in Nat
      /\ \A i \in DOMAIN posted : posted[i].block \in Nat /\ i \in Nat
  <2>1. TypeOK /\ clients \in Seq(Clients) /\ posted \in Seq(Answers) /\ handlers \in Seq(Handlers)
    BY DEF IInv, TypeOK
  <2>2. \A c \in DOMAIN clients : clients[c] \in Clients
    BY <2>1
  <2>3. \A i \in DOMAIN posted : posted[i] \in Answers /\ i \in Nat
    BY <2>1
  <2>4. \A g \in DOMAIN handlers : g \in Nat \ {0}
    BY <2>1
  <2> QED
    BY <2>1, <2>2, <2>3, <2>4, Known DEF TypeOK, Clients, Answers
<1>2. ASSUME \A c \in DOMAIN clients : clients[c].state <= clients'[c].state,
             \A c \in DOMAIN clients : clients'[c].state \in Nat,
             \/ posted' = posted
             \/ \E a \in Answers :
                  /\ posted' = Append(posted, a)
                  /\ a.kind \in {"state", "execute"} =>
                       a.client \in DOMAIN clients /\ a.block = clients'[a.client].state
      PROVE  /\ CallsOnShownState'
             /\ \A i \in DOMAIN posted' : posted'[i].kind = "state" =>
                  /\ posted'[i].client \in DOMAIN clients
                  /\ posted'[i].block <= clients'[posted'[i].client].state
  <2>0. \A i \in DOMAIN posted : posted[i].kind = "state" =>
          /\ posted[i].client \in DOMAIN clients
          /\ posted[i].block <= clients'[posted[i].client].state
    BY <1>1, <1>2 DEF StateInv
  <2>1. CASE posted' = posted
    BY <2>0, <2>1 DEF CallsOnShownState
  <2>2. ASSUME NEW a \in Answers, posted' = Append(posted, a),
               a.kind \in {"state", "execute"} =>
                 a.client \in DOMAIN clients /\ a.block = clients'[a.client].state
        PROVE  /\ CallsOnShownState'
               /\ \A i \in DOMAIN posted' : posted'[i].kind = "state" =>
                    /\ posted'[i].client \in DOMAIN clients
                    /\ posted'[i].block <= clients'[posted'[i].client].state
    <3> DEFINE n == Len(posted) + 1
    <3>1. /\ n \notin DOMAIN posted /\ DOMAIN posted' = DOMAIN posted \cup {n}
          /\ \A i \in DOMAIN posted : posted'[i] = posted[i]
          /\ posted'[n] = a
      BY <2>2, OneMore
    <3>2. \A i \in DOMAIN posted : ~(n < i)
      <4>1. posted \in Seq(Answers)
        BY PairsInLog
      <4> QED
        BY <4>1
    <3> HIDE DEF n
    <3>3. a.block \in Nat
      BY DEF Answers
    <3>4. \A i \in DOMAIN posted' : posted'[i].kind = "state" =>
            /\ posted'[i].client \in DOMAIN clients
            /\ posted'[i].block <= clients'[posted'[i].client].state
      BY <2>0, <2>2, <3>1, <3>3
    <3>5. ASSUME NEW i \in DOMAIN posted', NEW j \in DOMAIN posted', i < j,
                 posted'[i].kind = "state", posted'[j].kind = "execute",
                 posted'[i].client = posted'[j].client
          PROVE  posted'[j].block >= posted'[i].block
      <4>1. CASE j = n
        <5>1. i # n
          BY <3>5, <3>1, <4>1
        <5>2. i \in DOMAIN posted /\ posted'[i] = posted[i] /\ posted'[j] = a
          BY <3>1, <4>1, <5>1
        <5> QED
          BY <1>1, <2>0, <2>2, <3>3, <3>5, <5>2
      <4>2. CASE j # n
        <5>1. j \in DOMAIN posted /\ i \in DOMAIN posted
          BY <3>1, <3>2, <3>5, <4>2
        <5> QED
          BY <3>1, <3>5, <5>1 DEF CallsOnShownState
      <4> QED
        BY <4>1, <4>2
    <3> QED
      BY <3>4, <3>5, Zenon DEF CallsOnShownState
  <2> QED
    BY <1>2, <2>1, <2>2
<1>3. ASSUME handlers'[h].pc # "fetching", handlers[h].pc # "fetching",
             \A c \in DOMAIN clients : clients'[c] = clients[c],
             \A c \in DOMAIN clients' \ DOMAIN clients : clients'[c].state = 0,
             \/ posted' = posted
             \/ \E a \in Answers :
                  /\ posted' = Append(posted, a)
                  /\ a.kind # "state"
                  /\ a.kind = "execute" =>
                       a.client \in DOMAIN clients /\ a.block = clients[a.client].state
      PROVE  StateInv' /\ CallsOnShownState'
  <2>1. /\ \A c \in DOMAIN clients : clients[c].state <= clients'[c].state
        /\ \A c \in DOMAIN clients : clients'[c].state \in Nat
    BY <1>1, <1>3
  <2>2. \/ posted' = posted
        \/ \E a \in Answers :
             /\ posted' = Append(posted, a)
             /\ a.kind \in {"state", "execute"} =>
                  a.client \in DOMAIN clients /\ a.block = clients'[a.client].state
    BY <1>3
  <2>3. \A c \in DOMAIN clients' : clients'[c].state <= latest'
    BY <1>0, <1>1, <1>3 DEF StateInv
  <2>4. ASSUME NEW g \in DOMAIN handlers', handlers'[g].pc = "fetching"
        PROVE  /\ clients'[handlers'[g].at].user = g
               /\ clients'[handlers'[g].at].state <= handlers'[g].since
               /\ handlers'[g].since <= latest'
    <3>1. g # h /\ handlers'[g] = handlers[g] /\ handlers[g].at \in DOMAIN clients
      BY <1>0, <1>1, <1>3, <2>4
    <3> QED
      BY <1>0, <1>3, <2>4, <3>1 DEF StateInv
  <2> QED
    BY <1>0, <1>2, <2>1, <2>2, <2>3, <2>4 DEF StateInv
<1>4. ASSUME handlers'[h].pc = "fetching", posted' = posted, handlers'[h].since = latest,
             NEW c \in DOMAIN clients, handlers'[h].at = c, clients[c].user = 0,
             clients'[c].user = h, clients'[c].state = clients[c].state,
             DOMAIN clients' = DOMAIN clients,
             \A d \in DOMAIN clients : d # c => clients'[d] = clients[d]
      PROVE  StateInv' /\ CallsOnShownState'
  <2>1. \A d \in DOMAIN clients : clients'[d].state = clients[d].state
    BY <1>4
  <2>2. /\ \A d \in DOMAIN clients : clients[d].state <= clients'[d].state
        /\ \A d \in DOMAIN clients : clients'[d].state \in Nat
    BY <1>1, <2>1
  <2>3. \A d \in DOMAIN clients' : clients'[d].state <= latest'
    BY <1>0, <1>4, <2>1 DEF StateInv
  <2>4. ASSUME NEW g \in DOMAIN handlers', handlers'[g].pc = "fetching"
        PROVE  /\ clients'[handlers'[g].at].user = g
               /\ clients'[handlers'[g].at].state <= handlers'[g].since
               /\ handlers'[g].since <= latest'
    <3>1. CASE g = h
      BY <1>0, <1>1, <1>4, <2>3, <3>1
    <3>2. CASE g # h
      <4>1. handlers'[g] = handlers[g] /\ handlers[g].at \in DOMAIN clients /\ g # 0
        BY <1>0, <1>1, <2>4, <3>2
      <4>2. clients[handlers[g].at].user = g
        BY <1>0, <2>4, <4>1 DEF StateInv
      <4>3. handlers[g].at # c
        BY <1>4, <4>1, <4>2
      <4> QED
        BY <1>0, <1>4, <2>4, <4>1, <4>3 DEF StateInv
    <3> QED
      BY <3>1, <3>2
  <2> QED
    BY <1>0, <1>2, <1>4, <2>2, <2>3, <2>4 DEF StateInv
<1>5. ASSUME handlers[h].pc = "fetching", handlers'[h].pc # "fetching",
             NEW c \in DOMAIN clients, handlers[h].at = c,
             DOMAIN clients' = DOMAIN clients,
             \A d \in DOMAIN clients : d # c => clients'[d] = clients[d],
             \/ clients'[c].state = clients[c].state
             \/ clients'[c].state \in handlers[h].since..latest,
             \/ posted' = posted
             \/ \E a \in Answers :
                  /\ posted' = Append(posted, a)
                  /\ a.kind \in {"state", "execute"} =>
                       a.client = c /\ a.block = clients'[c].state
      PROVE  StateInv' /\ CallsOnShownState'
  <2>1. clients[c].user = h /\ clients[c].state <= handlers[h].since /\ handlers[h].since <= latest
        /\ handlers[h].since \in Nat /\ clients[c].state \in Nat
    BY <1>1, <1>5 DEF StateInv
  <2>2. clients'[c].state \in Nat /\ clients[c].state <= clients'[c].state
        /\ clients'[c].state <= latest
    BY <1>1, <1>5, <2>1
  <2>3. /\ \A d \in DOMAIN clients : clients[d].state <= clients'[d].state
        /\ \A d \in DOMAIN clients : clients'[d].state \in Nat
    <3>1. ASSUME NEW d \in DOMAIN clients
          PROVE  clients[d].state <= clients'[d].state /\ clients'[d].state \in Nat
      <4>1. CASE d = c
        BY <2>2, <4>1
      <4>2. CASE d # c
        <5>1. clients'[d] = clients[d] /\ clients[d].state \in Nat
          BY <1>1, <1>5, <4>2
        <5> QED
          BY <5>1
      <4> QED
        BY <4>1, <4>2
    <3> QED
      BY <3>1
  <2>4. \/ posted' = posted
        \/ \E a \in Answers :
             /\ posted' = Append(posted, a)
             /\ a.kind \in {"state", "execute"} =>
                  a.client \in DOMAIN clients /\ a.block = clients'[a.client].state
    BY <1>5
  <2>5. \A d \in DOMAIN clients' : clients'[d].state <= latest'
    BY <1>0, <1>5, <2>2 DEF StateInv
  <2>6. ASSUME NEW g \in DOMAIN handlers', handlers'[g].pc = "fetching"
        PROVE  /\ clients'[handlers'[g].at].user = g
               /\ clients'[handlers'[g].at].state <= handlers'[g].since
               /\ handlers'[g].since <= latest'
    <3>1. g # h /\ handlers'[g] = handlers[g] /\ handlers[g].at \in DOMAIN clients
      BY <1>0, <1>1, <1>5, <2>6
    <3>2. clients[handlers[g].at].user = g
      BY <1>0, <2>6, <3>1 DEF StateInv
    <3>3. handlers[g].at # c
      BY <2>1, <3>1, <3>2
    <3> QED
      BY <1>0, <1>5, <2>6, <3>1, <3>3 DEF StateInv
  <2> QED
    BY <1>0, <1>2, <1>5, <2>3, <2>4, <2>5, <2>6 DEF StateInv
<1>8. ASSUME handlers[h].pc # "fetching", handlers'[h].pc # "fetching", posted' = posted,
             NEW c \in DOMAIN clients, clients[c].user = 0,
             clients'[c].state = clients[c].state, DOMAIN clients' = DOMAIN clients,
             \A d \in DOMAIN clients : d # c => clients'[d] = clients[d]
      PROVE  StateInv' /\ CallsOnShownState'
  <2>1. \A d \in DOMAIN clients : clients'[d].state = clients[d].state
    BY <1>8
  <2>2. /\ \A d \in DOMAIN clients : clients[d].state <= clients'[d].state
        /\ \A d \in DOMAIN clients : clients'[d].state \in Nat
    BY <1>1, <2>1
  <2>3. \A d \in DOMAIN clients' : clients'[d].state <= latest'
    BY <1>0, <1>8, <2>1 DEF StateInv
  <2>4. ASSUME NEW g \in DOMAIN handlers', handlers'[g].pc = "fetching"
        PROVE  /\ clients'[handlers'[g].at].user = g
               /\ clients'[handlers'[g].at].state <= handlers'[g].since
               /\ handlers'[g].since <= latest'
    <3>1. handlers'[g] = handlers[g] /\ handlers[g].at \in DOMAIN clients /\ g # 0
      BY <1>0, <1>1, <1>8, <2>4
    <3>2. clients[handlers[g].at].user = g
      BY <1>0, <2>4, <3>1 DEF StateInv
    <3>3. handlers[g].at # c
      BY <1>8, <3>1, <3>2
    <3> QED
      BY <1>0, <1>8, <2>4, <3>1, <3>3 DEF StateInv
  <2> QED
    BY <1>0, <1>2, <1>8, <2>2, <2>3, <2>4 DEF StateInv
<1>6. Serves(h)
  BY StepServes
<1>7. handlers[h].pc = "fetching" => handlers[h].at \in DOMAIN clients
  BY <1>1
<1> QED
  BY <1>3, <1>4, <1>5, <1>6, <1>7, <1>8 DEF Serves

LEMMA StateKept == IInv /\ StateInv /\ CallsOnShownState /\ [Next]_vars =>
                     StateInv' /\ CallsOnShownState'
<1> SUFFICES ASSUME IInv, StateInv, CallsOnShownState, [Next]_vars
             PROVE  StateInv' /\ CallsOnShownState'
  OBVIOUS
<1>1. CASE Click \/ (\E kind \in Kinds : Send(kind)) \/ Show \/ UNCHANGED vars
  <2>1. UNCHANGED <<clients, handlers, posted, latest>>
    BY <1>1 DEF Click, Send, Show, vars, worker
  <2> QED
    BY <2>1 DEF StateInv, CallsOnShownState
<1>2. CASE NewBlock
  <2>1. UNCHANGED <<clients, handlers, posted>> /\ latest \in Nat /\ latest' = latest + 1
    BY <1>2 DEF NewBlock, worker, IInv, TypeOK
  <2>2. /\ \A c \in DOMAIN clients : clients[c].state \in Nat
        /\ \A h \in DOMAIN handlers : handlers[h].since \in Nat
    <3>1. clients \in Seq(Clients)
      BY DEF IInv, TypeOK
    <3>2. \A c \in DOMAIN clients : clients[c] \in Clients
      BY <3>1
    <3> QED
      BY <3>2, Known DEF Clients
  <2>3. \A c \in DOMAIN clients' : clients'[c].state <= latest'
    BY <2>1, <2>2 DEF StateInv
  <2>4. (\A h \in DOMAIN handlers : handlers[h].pc = "fetching" =>
           /\ clients[handlers[h].at].user = h
           /\ clients[handlers[h].at].state <= handlers[h].since
           /\ handlers[h].since <= latest)'
    BY <2>1, <2>2 DEF StateInv
  <2> QED
    BY <2>1, <2>3, <2>4 DEF StateInv, CallsOnShownState
<1>3. CASE Receive
  <2> DEFINE e == Handler(Head(inbox), IF initialized THEN "next" ELSE "loading")
  <2>1. /\ UNCHANGED <<clients, posted, latest>> /\ inbox # <<>>
        /\ handlers' = Append(handlers, e)
    BY <1>3 DEF Receive
  <2>2. inbox \in Seq(Messages) /\ handlers \in Seq(Handlers) /\ latest \in Nat
    BY PairsInLog DEF IInv, TypeOK
  <2>3. e \in Handlers /\ e.pc # "fetching"
    <3>1. Head(inbox) \in Messages
      BY <2>1, <2>2
    <3> QED
      BY <2>2, <3>1 DEF Handler, Handlers, Statements
  <2> HIDE DEF e
  <2>4. /\ DOMAIN handlers' = DOMAIN handlers \cup {Len(handlers) + 1}
        /\ \A g \in DOMAIN handlers : handlers'[g] = handlers[g]
        /\ handlers'[Len(handlers) + 1] = e
    BY <2>1, <2>2, <2>3, Appended
  <2> QED
    BY <2>1, <2>3, <2>4 DEF StateInv, CallsOnShownState
<1>4. CASE \E h \in DOMAIN handlers : Step(h)
  BY <1>4, StateStep
<1> QED
  BY <1>1, <1>2, <1>3, <1>4 DEF Next

-----------------------------------------------------------------------------
(* The theorems. *)

LEMMA AnswerInit == Init => AnswerInv
  BY DEF Init, AnswerInv, TransitInv, PostedInv, ShownInv, StateInv, CallsOnShownState

\* Requests, answers and states of the clients stay together at every await:
\* a request is with one handler, its answer is the one that this handler
\* posted, and states only move on (wrk.js:7-51, lib.rs:146-176).
THEOREM AnswerInvariance == Spec => []AnswerInv
<1>1. IInv /\ AnswerInv /\ [Next]_vars => AnswerInv'
  BY TransitKept, PostedKept, ShownKept, StateKept DEF AnswerInv
<1> QED
  BY <1>1, AnswerInit, WebInvariance, PTL DEF Spec

\* Every request whose handler is done has one answer, any other has none, and
\* a pair of the log shows one at most (wrk.js:7-51, app.js:70-97).
THEOREM OneAnswerPerRequest == Spec => []OneAnswerEach
<1>1. IInv /\ AnswerInv => OneAnswerEach
  <2> SUFFICES ASSUME IInv, TransitInv, PostedInv, ShownInv PROVE OneAnswerEach
    BY DEF AnswerInv
  <2>1. ASSUME NEW h \in DOMAIN handlers, handlers[h].message.pair # 0, handlers[h].pc = "done"
        PROVE  Cardinality(Posted(handlers[h].message.pair)) = 1
    <3>1. PICK i \in DOMAIN posted : posted[i].pair = handlers[h].message.pair
      BY <2>1 DEF PostedInv, Posted
    <3>2. Posted(handlers[h].message.pair) = {i}
      BY <2>1, <3>1 DEF PostedInv, Posted
    <3> QED
      BY <3>2, FS_Singleton
  <2>2. ASSUME NEW h \in DOMAIN handlers, handlers[h].message.pair # 0, handlers[h].pc # "done"
        PROVE  Cardinality(Posted(handlers[h].message.pair)) = 0
    <3>1. Posted(handlers[h].message.pair) = {}
      BY <2>2 DEF TransitInv, PostedInv, Posted
    <3> QED
      BY <3>1, FS_EmptySet
  <2>3. \A k \in DOMAIN pairs : Len(pairs[k].shows) <= 1
    BY DEF ShownInv
  <2> QED
    BY <2>1, <2>2, <2>3 DEF OneAnswerEach
<1> QED
  BY <1>1, WebInvariance, AnswerInvariance, PTL

\* No call is answered on a block older than a state which the same client has
\* answered before it, however fetches, blocks and calls interleave (lib.rs:160).
THEOREM CallsKeepUp == Spec => []CallsOnShownState
<1>1. AnswerInv => CallsOnShownState
  BY DEF AnswerInv
<1> QED
  BY <1>1, AnswerInvariance, PTL
=============================================================================
