----------------------------- MODULE WebWorker ------------------------------
(***************************************************************************)
(* The web client: the page (app.js), its worker (wrk.js) and the wasm     *)
(* client in the worker (beerus-web/src/lib.rs). Page and worker post      *)
(* messages to each other, which arrive in order. The worker's onmessage   *)
(* is asynchronous: at each await the next message may come in, so that    *)
(* there is one handler for every message, all over the same variables.    *)
(***************************************************************************)
EXTENDS Integers, Sequences, FiniteSets

CONSTANTS
  Kinds,         \* what a user types: see Posts and Identified
  MaxClicks,     \* bound: clicks on Init
  MaxMessages,   \* bound: messages that the user sends
  MaxBlock       \* bound: blocks of the gateway

ASSUME WebAssumption ==
  /\ Kinds \subseteq {"state", "execute", "other", "shadow", "array", "invalid"}
  /\ MaxClicks \in Nat /\ MaxMessages \in Nat /\ MaxBlock \in Nat

VARIABLES
  clicks,        \* clicks on Init that posted a configuration
  status,        \* the icon: "unknown", "pending", "ready"; ready is "ready"
  messageId,     \* the page's next id
  pairs,         \* the chat log, oldest first: [id, kind, shows]
  inbox,         \* messages to the worker: [kind, id, pair]
  initialized, configured,
  wasm,          \* the wasm instance in use: instances are counted, 0 if none
  client,        \* the worker's client, an index of clients, 0 if undefined
  clients,       \* every Beerus object: [instance, state, user]
  handlers,      \* the calls of onmessage: [message, pc, at, since]
  posted,        \* all messages from the worker
  taken,         \* how many of them the page has handled
  latest         \* the gateway's latest block

page == <<clicks, status, messageId, pairs, taken>>
worker == <<initialized, configured, wasm, client, clients, handlers, posted>>
vars == <<page, inbox, worker, latest>>

Init ==
  /\ clicks = 0 /\ status = "unknown" /\ messageId = 1 /\ pairs = <<>> /\ inbox = <<>>
  /\ initialized = FALSE /\ configured = FALSE
  /\ wasm = 0 /\ client = 0 /\ clients = <<>> /\ handlers = <<>>
  /\ posted = <<>> /\ taken = 0
  /\ latest = 1

NewBlock ==
  /\ latest < MaxBlock
  /\ latest' = latest + 1
  /\ UNCHANGED <<page, inbox, worker>>

-----------------------------------------------------------------------------
(* The page. *)

Undefined == 0

\* Variant: requests are sent as soon as Init was clicked.
Ready_OnceClicked == status # "unknown"

Ready == status = "ready"

\* Init posts a configuration, also while another one is under way.
Click ==
  /\ clicks < MaxClicks /\ ~Ready
  /\ clicks' = clicks + 1
  /\ status' = "pending"
  /\ inbox' = Append(inbox, [kind |-> "config", id |-> Undefined, pair |-> 0])
  /\ UNCHANGED <<messageId, pairs, taken, worker, latest>>

\* appendId throws if the text is no JSON, or no object, and loses the id of
\* an array.
Posts(kind) == kind # "invalid"
Identified(kind) == kind # "array"

\* Variant: the id is not counted on.
NextId_Same(id) == id

NextId(id) == id + 1

\* sendMessage: the pair is added first, and stays if appendId throws.
Send(kind) ==
  /\ Ready /\ Len(pairs) < MaxMessages
  /\ pairs' = Append(pairs, [id |-> messageId, kind |-> kind, shows |-> <<>>])
  /\ IF Posts(kind)
     THEN /\ inbox' = Append(inbox,
               [kind |-> kind, id |-> IF Identified(kind) THEN messageId ELSE Undefined,
                pair |-> Len(pairs) + 1])
          /\ messageId' = NextId(messageId)
     ELSE UNCHANGED <<inbox, messageId>>
  /\ UNCHANGED <<clicks, status, taken, worker, latest>>

\* The element with an id: the newest pair, which is the first in the log.
WithId(id) ==
  {k \in DOMAIN pairs : pairs[k].id = id /\ \A j \in DOMAIN pairs : pairs[j].id = id => j <= k}

\* onmessage of the page: OK makes it ready; a text that is no JSON, such as
\* another OK or one with an undefined id, is dropped, and so is an answer that
\* belongs to no pair.
Show ==
  /\ taken < Len(posted)
  /\ taken' = taken + 1
  /\ LET m == posted[taken + 1] IN
     IF ~Ready
     THEN /\ status' = IF m.kind = "OK" THEN "ready" ELSE "error"
          /\ UNCHANGED pairs
     ELSE /\ pairs' = [k \in DOMAIN pairs |->
               IF m.legible /\ k \in WithId(m.id) THEN [pairs[k] EXCEPT !.shows = Append(@, m)]
               ELSE pairs[k]]
          /\ UNCHANGED status
  /\ UNCHANGED <<clicks, messageId, inbox, worker, latest>>

-----------------------------------------------------------------------------
(* The worker's handlers. at is the client that a handler is in; since is the *)
(* block that was the latest when its request went out.                       *)

Handler(m, pc) == [message |-> m, pc |-> pc, at |-> 0, since |-> latest]
Goes(h, pc) == [handlers EXCEPT ![h].pc = pc]
Kind(h) == handlers[h].message.kind

Answer(h, c, kind, legible, block) ==
  [kind |-> kind, id |-> handlers[h].message.id, pair |-> handlers[h].message.pair,
   legible |-> IF handlers[h].message.id = Undefined THEN FALSE ELSE legible,
   block |-> block, client |-> c]

\* JavaScript runs a handler up to its next await: nothing else happens in the
\* worker while one stands at "next".
Running == \E h \in DOMAIN handlers : handlers[h].pc = "next"

\* A message comes in. The handler awaits init unless that has been done; "next"
\* is the statement after it.
Receive ==
  /\ inbox # <<>> /\ ~Running
  /\ inbox' = Tail(inbox)
  /\ handlers' = Append(handlers, Handler(Head(inbox), IF initialized THEN "next" ELSE "loading"))
  /\ UNCHANGED <<page, initialized, configured, wasm, client, clients, posted, latest>>

\* init has loaded the module: its instance takes the place of one that another
\* handler may have loaded meanwhile (wasm-bindgen looks only before it loads).
Load(h) ==
  /\ handlers[h].pc = "loading" /\ ~Running
  /\ wasm' = wasm + 1
  /\ initialized' = TRUE
  /\ handlers' = Goes(h, "next")
  /\ UNCHANGED <<page, inbox, configured, client, clients, posted, latest>>

\* The module cannot be loaded: the handler ends with an exception.
LoadFails(h) ==
  /\ handlers[h].pc = "loading" /\ ~Running
  /\ handlers' = Goes(h, "failed")
  /\ UNCHANGED <<page, inbox, initialized, configured, wasm, client, clients, posted, latest>>

\* new Beerus(event.data): what is no configuration fails at once. The object
\* is made in the instance of this moment.
Construct(h) ==
  /\ handlers[h].pc = "next" /\ ~configured
  /\ IF Kind(h) = "config"
     THEN /\ clients' = Append(clients, [instance |-> wasm, state |-> 0, user |-> 0])
          /\ handlers' = [handlers EXCEPT ![h].pc = "constructing", ![h].at = Len(clients) + 1]
     ELSE /\ handlers' = Goes(h, "failed")
          /\ UNCHANGED clients
  /\ UNCHANGED <<page, inbox, initialized, configured, wasm, client, posted, latest>>

\* An object of a replaced instance cannot be used: calls throw or never end.
Alive(c) == clients[c].instance = wasm

Constructed(h) ==
  /\ handlers[h].pc = "constructing" /\ Alive(handlers[h].at) /\ ~Running
  /\ client' = handlers[h].at
  /\ configured' = TRUE
  /\ posted' = Append(posted, Answer(h, handlers[h].at, "OK", FALSE, 0))
  /\ handlers' = Goes(h, "done")
  /\ UNCHANGED <<page, inbox, initialized, wasm, clients, latest>>

\* The provider has another version or does not answer: nothing is posted.
ConstructFails(h) ==
  /\ handlers[h].pc = "constructing" /\ ~Running
  /\ handlers' = Goes(h, "failed")
  /\ UNCHANGED <<page, inbox, initialized, configured, wasm, client, clients, posted, latest>>

-----------------------------------------------------------------------------
(* Requests. *)

\* The handler stands at its request, and the request is one of kinds.
AtRequest(h, kinds) == handlers[h].pc = "next" /\ configured /\ Kind(h) \in kinds

Post(h, answers) ==
  /\ \E a \in answers : posted' = Append(posted, a)
  /\ handlers' = Goes(h, "done")

\* An exception is caught and answered, its text without quotes; a backslash
\* that is left makes the answer illegible.
Errors(h, c, block) == {Answer(h, c, "error", legible, block) : legible \in BOOLEAN}

\* Variant: the object is not borrowed for the time of a call.
Busy_Never(c) == FALSE

\* &mut self of an asynchronous method: borrowed inside its future, until that
\* is done.
Busy(c) == clients[c].user # 0

\* Neither a state nor an execute request.
Unknown(h) ==
  /\ AtRequest(h, {"config", "other", "array"})
  /\ Post(h, {Answer(h, client, "error", TRUE, 0)})
  /\ UNCHANGED <<page, inbox, initialized, configured, wasm, client, clients, latest>>

\* An object with a hasOwnProperty of its own: the call in the condition, outside
\* of both try blocks, throws, and nothing is posted.
Throw(h) ==
  /\ AtRequest(h, {"shadow"})
  /\ handlers' = Goes(h, "thrown")
  /\ UNCHANGED <<page, inbox, initialized, configured, wasm, client, clients, posted, latest>>

\* The object's instance is gone, and the call happens to end with an error.
Refuse(h) ==
  /\ AtRequest(h, {"state", "execute"}) /\ ~Alive(client)
  /\ Post(h, Errors(h, client, 0))
  /\ UNCHANGED <<page, inbox, initialized, configured, wasm, client, clients, latest>>

\* The object is borrowed, or its instance is gone: the future throws when it is
\* run, which nobody catches, and the promise of the call is never settled.
Hang(h) ==
  /\ AtRequest(h, {"state", "execute"}) /\ (Busy(client) \/ ~Alive(client))
  /\ handlers' = Goes(h, "hangs")
  /\ UNCHANGED <<page, inbox, initialized, configured, wasm, client, clients, posted, latest>>

\* get_state asks the gateway, and execute does if there is no state yet.
Fetch(h) ==
  /\ \/ AtRequest(h, {"state"})
     \/ AtRequest(h, {"execute"}) /\ clients[client].state = 0
  /\ ~Busy(client) /\ Alive(client)
  /\ clients' = [clients EXCEPT ![client].user = h]
  /\ handlers' = [handlers EXCEPT ![h].pc = "fetching", ![h].at = client, ![h].since = latest]
  /\ UNCHANGED <<page, inbox, initialized, configured, wasm, client, posted, latest>>

\* What comes of a request on the block b: a state, or what a call returns or
\* fails with.
Results(h, c, b) ==
  {Answer(h, c, Kind(h), TRUE, b)} \cup IF Kind(h) = "execute" THEN Errors(h, c, b) ELSE {}

\* The answer is a block that was the latest since the request went out. The
\* execution is synchronous, its requests block the worker.
Fetched(h) ==
  /\ handlers[h].pc = "fetching" /\ Alive(handlers[h].at) /\ ~Running
  /\ \E b \in handlers[h].since..latest :
       /\ clients' = [clients EXCEPT ![handlers[h].at].state = b, ![handlers[h].at].user = 0]
       /\ Post(h, Results(h, handlers[h].at, b))
  /\ UNCHANGED <<page, inbox, initialized, configured, wasm, client, latest>>

\* The execution panics (ProofVerify has such answers of the provider): the wasm
\* traps without unwinding, so that the future is not run on, the promise is never
\* settled, and the object stays borrowed. The state has been set.
FetchedTraps(h) ==
  /\ handlers[h].pc = "fetching" /\ Alive(handlers[h].at) /\ ~Running
  /\ Kind(h) = "execute"
  /\ \E b \in handlers[h].since..latest :
       clients' = [clients EXCEPT ![handlers[h].at].state = b]
  /\ handlers' = Goes(h, "trapped")
  /\ UNCHANGED <<page, inbox, initialized, configured, wasm, client, posted, latest>>

\* Variant: an exception of the fetch is not caught.
AnswerFailure_Lost(h) == handlers' = Goes(h, "done") /\ UNCHANGED posted

AnswerFailure(h) == Post(h, Errors(h, handlers[h].at, 0))

FetchFails(h) ==
  /\ handlers[h].pc = "fetching" /\ ~Running
  /\ clients' = [clients EXCEPT ![handlers[h].at].user = 0]
  /\ AnswerFailure(h)
  /\ UNCHANGED <<page, inbox, initialized, configured, wasm, client, latest>>

\* A call on the state that is there, without an await.
Execute(h) ==
  /\ AtRequest(h, {"execute"}) /\ ~Busy(client) /\ Alive(client)
  /\ clients[client].state # 0
  /\ Post(h, Results(h, client, clients[client].state))
  /\ UNCHANGED <<page, inbox, initialized, configured, wasm, client, clients, latest>>

\* The execution panics, as in FetchedTraps.
ExecuteTraps(h) ==
  /\ AtRequest(h, {"execute"}) /\ ~Busy(client) /\ Alive(client)
  /\ clients[client].state # 0
  /\ clients' = [clients EXCEPT ![client].user = h]
  /\ handlers' = Goes(h, "trapped")
  /\ UNCHANGED <<page, inbox, initialized, configured, wasm, client, posted, latest>>

Step(h) ==
  \/ Load(h) \/ LoadFails(h) \/ Construct(h) \/ Constructed(h) \/ ConstructFails(h)
  \/ Unknown(h) \/ Throw(h) \/ Refuse(h) \/ Hang(h)
  \/ Fetch(h) \/ Fetched(h) \/ FetchedTraps(h) \/ FetchFails(h)
  \/ Execute(h) \/ ExecuteTraps(h)

Next ==
  \/ NewBlock \/ Click \/ (\E kind \in Kinds : Send(kind)) \/ Show \/ Receive
  \/ \E h \in DOMAIN handlers : Step(h)

Spec == Init /\ [][Next]_vars

\* What is awaited ends: loads and fetches in the instance in use are answered
\* or fail (the browser sees to it, not the code). Messages are delivered.
Ends(h) ==
  /\ h \in DOMAIN handlers
  /\ handlers[h].at # 0 => Alive(handlers[h].at)
  /\ Step(h)

FairSpec ==
  /\ Spec
  /\ WF_vars(Receive) /\ WF_vars(Show)
  /\ \A h \in 1..(MaxClicks + MaxMessages) : WF_vars(Ends(h))

-----------------------------------------------------------------------------
(* Properties. *)

Posted(k) == {i \in DOMAIN posted : posted[i].pair = k}

\* An answer is shown in the pair of its request and nowhere else, although a
\* message that could not be posted leaves its id to the next one (app.js:57).
AnswersInOwnPair ==
  \A k \in DOMAIN pairs : \A i \in DOMAIN pairs[k].shows : pairs[k].shows[i].pair = k

\* A handler that is done has answered its request exactly once, one that is
\* not has not, whatever others were at their awaits meanwhile (wrk.js:7), and
\* a pair shows one answer at most.
OneAnswerEach ==
  /\ \A h \in DOMAIN handlers :
       handlers[h].message.pair # 0 =>
         Cardinality(Posted(handlers[h].message.pair)) = IF handlers[h].pc = "done" THEN 1 ELSE 0
  /\ \A k \in DOMAIN pairs : Len(pairs[k].shows) <= 1

\* A request comes to a worker that has a client, and is never taken for a
\* configuration (wrk.js:14).
RequestsFindClient ==
  \A h \in DOMAIN handlers :
    Kind(h) # "config" => configured /\ client # 0 /\ handlers[h].pc # "failed"

\* A call does not run on a block that is older than a state which the same
\* client has answered before (lib.rs:160).
CallsOnShownState ==
  \A i, j \in DOMAIN posted :
    i < j /\ posted[i].kind = "state" /\ posted[j].kind = "execute"
          /\ posted[i].client = posted[j].client
      => posted[j].block >= posted[i].block

\* A request that the page posted with an id, of a kind that no condition of the
\* worker throws on.
Answerable(k) ==
  k \in DOMAIN pairs /\ Posts(pairs[k].kind) /\ Identified(pairs[k].kind)
    /\ pairs[k].kind # "shadow"

\* Its answer is shown, or was posted but is illegible.
Answered(k) ==
  k \in DOMAIN pairs /\ (pairs[k].shows # <<>> \/ \E i \in Posted(k) : ~posted[i].legible)

Open(k) == Answerable(k) /\ ~Answered(k)

Trapped(k) ==
  \E h \in DOMAIN handlers : handlers[h].message.pair = k /\ handlers[h].pc = "trapped"

\* A request that is on its way to the worker while no earlier one is open is
\* answered in the end, whatever is sent after it, unless its own execution panics
\* or the wasm instance was replaced under the client (wrk.js:27-50,
\* lib.rs:142-175). One that comes in while an earlier one is open may find the
\* client borrowed, and then is not.
EveryRequestAnswered ==
  \A k \in 1..MaxMessages :
    (/\ Open(k) /\ \E i \in DOMAIN inbox : inbox[i].pair = k
     /\ \A j \in 1..(k - 1) : ~Open(j))
      ~> (Answered(k) \/ Trapped(k) \/ (client # 0 /\ ~Alive(client)))

-----------------------------------------------------------------------------
(* What the proofs rest on. *)

Messages == [kind : Kinds \cup {"config"}, id : Nat, pair : Nat]
Answers ==
  [kind : {"OK", "state", "execute", "error"}, id : Nat, pair : Nat, legible : BOOLEAN,
   block : Nat, client : Nat]
Statements ==
  {"loading", "next", "constructing", "fetching", "done", "failed", "hangs",
   "thrown", "trapped"}
Handlers == [message : Messages, pc : Statements, at : Nat, since : Nat]
Clients == [instance : Nat, state : Nat, user : Nat]
Pairs == [id : Nat, kind : Kinds, shows : Seq(Answers)]

TypeOK ==
  /\ clicks \in Nat /\ status \in {"unknown", "pending", "ready", "error"}
  /\ messageId \in Nat \ {0} /\ taken \in Nat
  /\ pairs \in Seq(Pairs)
  /\ inbox \in Seq(Messages)
  /\ initialized \in BOOLEAN /\ configured \in BOOLEAN
  /\ wasm \in Nat /\ client \in Nat
  /\ clients \in Seq(Clients)
  /\ handlers \in Seq(Handlers)
  /\ posted \in Seq(Answers)
  /\ latest \in Nat

\* A handler that is in a client is in one that there is, and past init.
ClientInv ==
  /\ configured => initialized /\ client \in DOMAIN clients
  /\ \A h \in DOMAIN handlers :
       /\ handlers[h].pc \in {"constructing", "fetching"} => handlers[h].at \in DOMAIN clients
       /\ handlers[h].pc \notin {"loading", "failed"} => initialized

\* Where there is a request, the worker was configured before.
RequestInv ==
  /\ posted # <<>> => configured
  /\ Ready => configured
  /\ \A i \in DOMAIN inbox : inbox[i].kind # "config" => configured
  /\ \A h \in DOMAIN handlers :
       /\ Kind(h) # "config" =>
            configured /\ handlers[h].pc \notin {"loading", "constructing", "failed"}
       /\ handlers[h].pc = "fetching" => Kind(h) \in {"state", "execute"}

\* An id that is on its way is that of its pair, and no later pair has it.
OwnId(m, log, next) ==
  IF m.pair = 0 THEN m.id = Undefined
  ELSE /\ m.pair \in DOMAIN log
       /\ m.id # Undefined =>
            /\ m.id = log[m.pair].id /\ m.id < next
            /\ \A k \in DOMAIN log : k > m.pair => log[k].id > m.id

IdInv ==
  /\ \A i \in DOMAIN inbox : OwnId(inbox[i], pairs, messageId)
  /\ \A h \in DOMAIN handlers : OwnId(handlers[h].message, pairs, messageId)
  /\ \A i \in DOMAIN posted :
       OwnId(posted[i], pairs, messageId) /\ (posted[i].legible => posted[i].id # Undefined)

IInv == TypeOK /\ ClientInv /\ RequestInv /\ IdInv /\ AnswersInOwnPair

\* A request is on its way, or with one handler, once.
TransitInv ==
  /\ \A i, j \in DOMAIN inbox :
       inbox[i].pair # 0 /\ inbox[i].pair = inbox[j].pair => i = j
  /\ \A g, h \in DOMAIN handlers :
       handlers[g].message.pair # 0 /\ handlers[g].message.pair = handlers[h].message.pair => g = h
  /\ \A i \in DOMAIN inbox, h \in DOMAIN handlers :
       inbox[i].pair # 0 => handlers[h].message.pair # inbox[i].pair

\* The answers to requests are those of the handlers that are done, one each.
PostedInv ==
  /\ \A i, j \in DOMAIN posted :
       posted[i].pair # 0 /\ posted[i].pair = posted[j].pair => i = j
  /\ \A i \in DOMAIN posted : \E h \in DOMAIN handlers :
       handlers[h].pc = "done" /\ handlers[h].message.pair = posted[i].pair
  /\ \A h \in DOMAIN handlers : handlers[h].pc = "done" => Posted(handlers[h].message.pair) # {}

\* What a pair shows is an answer that the page has taken.
ShownInv ==
  \A k \in DOMAIN pairs :
    /\ Len(pairs[k].shows) <= 1
    /\ pairs[k].shows # <<>> => \E i \in Posted(k) : i <= taken

\* A client in a fetch is borrowed by the one handler that fetches, and a state
\* only moves on: the block of a state that was answered is not beyond the state,
\* that not beyond the block where a fetch set out, that not beyond the latest.
StateInv ==
  /\ \A c \in DOMAIN clients : clients[c].state <= latest
  /\ \A h \in DOMAIN handlers : handlers[h].pc = "fetching" =>
       /\ clients[handlers[h].at].user = h
       /\ clients[handlers[h].at].state <= handlers[h].since
       /\ handlers[h].since <= latest
  /\ \A i \in DOMAIN posted : posted[i].kind = "state" =>
       /\ posted[i].client \in DOMAIN clients
       /\ posted[i].block <= clients[posted[i].client].state

AnswerInv == TransitInv /\ PostedInv /\ ShownInv /\ StateInv /\ CallsOnShownState
=============================================================================
