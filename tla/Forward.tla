------------------------------ MODULE Forward -------------------------------
(***************************************************************************)
(* One call on its way through the generated code: from the parameters of  *)
(* a JSON-RPC request through the handler, the context and a client to the *)
(* provider, and from the provider's answer back. Calls share nothing on   *)
(* this way (each is an HTTP exchange of its own), so one stands for all.  *)
(* The requests that Beerus makes for itself (RpcContext, Poller,          *)
(* StateReader) take the second half of the way.                           *)
(***************************************************************************)
EXTENDS RpcMethods, Integers, SequencesExt

CONSTANTS
  Asked,     \* the methods that callers ask for
  Own        \* the functions that Beerus calls by itself

VARIABLES
  pc,        \* "start", "handler", "client", "provider", "answered", "done"
  client,    \* the client at work: "async" or "blocking"
  fn,        \* the function of Rpc
  meant,     \* [parameter names -> values]: what the caller means
  params,    \* the params of the request: [kind, named, listed]
  legal,     \* are they one of the forms for what is meant?
  sent,      \* what the provider got: [method, listed]
  answer,    \* what the provider answered: [kind, code, type, value], where value is
             \* the result or one value in it, and type the type it is read as
  outcome    \* what the caller gets: [kind, code, value]

vars == <<pc, client, fn, meant, params, legal, sent, answer, outcome>>

NoValue == Value(Alternative("none", {}, {}), {}, <<>>, {})
NoParams == [kind |-> "none", named |-> <<>>, listed |-> <<>>]
Nothing == [method |-> "none", listed |-> <<>>]
NoAnswer == [kind |-> "none", code |-> 0, type |-> <<>>, value |-> NoValue]
Result(v) == [kind |-> "result", code |-> 0, value |-> v]
Error(code) == [kind |-> "error", code |-> code, value |-> NoValue]

-----------------------------------------------------------------------------
(* The forms of parameters. *)

Named(f) == [kind |-> "object", named |-> f, listed |-> <<>>]
Listed(s) == [kind |-> "array", named |-> <<>>, listed |-> s]

\* Parameters of one type have different values, marked with their names.
ForParameter(h, i) == {[v EXCEPT !.mark = h.names[i]] : v \in AllValues(h.types[i])}

\* The parameters that a call can mean.
Meanings(h) ==
  {m \in [ToSet(h.names) -> UNION {ForParameter(h, i) : i \in DOMAIN h.types}] :
     \A i \in DOMAIN h.names : m[h.names[i]] \in ForParameter(h, i)}

InOrder(h, m) == [i \in DOMAIN h.names |-> m[h.names[i]]]

\* By name, with a name nobody knows, by position; for one parameter, by itself.
LegalForms(h, m) ==
  {Named(m), Named(m @@ ("extra" :> NoValue)), Listed(InOrder(h, m))}
    \cup IF Len(h.names) = 1
         THEN {[kind |-> "bare", named |-> <<>>, listed |-> InOrder(h, m)]}
         ELSE {}

\* One parameter too few or too many, misnamed, or with a wrong field.
IllegalForms(h, m) ==
  UNION {{Named([x \in DOMAIN m \ {n} |-> m[x]]),
          Named([x \in DOMAIN m \ {n} |-> m[x]] @@ ("extra" :> m[n])),
          Listed(Tail(InOrder(h, m)))} : n \in DOMAIN m}
  \cup {Listed(Append(InOrder(h, m), NoValue))}
  \cup UNION {{Named([m EXCEPT ![n] = v]) : v \in Spoilt(m[n])} : n \in DOMAIN m}

-----------------------------------------------------------------------------
(* The handler: ArgByName, or else ArgByPos. *)

AllRead(h, s) == Len(s) = Len(h.names) /\ \A i \in DOMAIN s : Read(h.types[i], s[i]) # 0

\* A struct is read from an object by its names, or from an array in order.
ReadByName(h, p) ==
  CASE p.kind = "object" /\ ToSet(h.names) \subseteq DOMAIN p.named -> InOrder(h, p.named)
    [] p.kind = "array" -> p.listed
    [] OTHER -> <<>>

\* The object of the parameters, as a value.
AsValue(p) ==
  [form |-> "object", depth |-> 0, has |-> DOMAIN p.named, says |-> <<>>, bad |-> {},
   mark |-> ""]

\* A tuple of one is its element, without an array.
ReadByPos(h, p) ==
  CASE Len(h.names) = 1 /\ p.kind = "object" -> <<AsValue(p)>>
    [] Len(h.names) = 1 /\ p.kind = "bare" -> p.listed
    [] p.kind = "array" -> p.listed
    [] OTHER -> <<>>

Written(h, s) == [i \in DOMAIN s |-> Write(h.types[i], Read(h.types[i], s[i]), s[i])]

\* The parameters that the handler calls its function with, one sequence or none.
Args(h, p) ==
  IF h.names = <<>> THEN {<<>>}
  ELSE IF AllRead(h, ReadByName(h, p)) THEN {Written(h, ReadByName(h, p))}
  ELSE IF AllRead(h, ReadByPos(h, p)) THEN {Written(h, ReadByPos(h, p))}
  ELSE {}

-----------------------------------------------------------------------------
(* The way there. *)

Init ==
  /\ pc = "start" /\ client = "async" /\ fn = "none"
  /\ meant = <<>> /\ params = NoParams /\ legal = FALSE
  /\ sent = Nothing /\ answer = NoAnswer /\ outcome = Error(0)

\* A caller asks for a method that the context passes on.
Ask ==
  /\ pc = "start"
  /\ \E method \in Asked :
       LET h == Handlers[method] IN
       \E m \in Meanings(h) :
         /\ fn' = h.fn /\ meant' = m
         /\ \/ params' \in LegalForms(h, m) /\ legal' = TRUE
            \/ params' \in IllegalForms(h, m) /\ legal' = (h.names = <<>>)
  /\ pc' = "handler"
  /\ UNCHANGED <<client, sent, answer, outcome>>

\* The handler of a function.
HandlerOf(f) ==
  CHOOSE h \in {Handlers[m] : m \in DOMAIN Handlers} : h.fn = f

Refuse ==
  /\ pc = "handler" /\ Args(HandlerOf(fn), params) = {}
  /\ outcome' = Error(-32602)
  /\ pc' = "done"
  /\ UNCHANGED <<client, fn, meant, params, legal, sent, answer>>

MethodOf(c, f) == IF c = "async" THEN Client[f] ELSE BlockingClient[f]

\* The client sends its arguments, which it has under the names of the trait.
Sending(c, f, args) ==
  LET names == HandlerOf(f).names
      At(n) == CHOOSE i \in DOMAIN names : names[i] = n
  IN  [method |-> MethodOf(c, f).name,
       listed |-> [i \in DOMAIN MethodOf(c, f).args |-> args[At(MethodOf(c, f).args[i])]]]

\* Handler, context and client up to the request.
Call ==
  /\ pc = "handler"
  /\ \E args \in Args(HandlerOf(fn), params) : sent' = Sending("async", Context[fn], args)
  /\ pc' = "provider"
  /\ UNCHANGED <<client, fn, meant, params, legal, answer, outcome>>

\* A call that Beerus makes by itself.
CallByItself ==
  /\ pc = "start"
  /\ \E c \in {"async", "blocking"}, f \in Own :
       LET h == HandlerOf(f) IN
       /\ f \in IF c = "async" THEN DOMAIN Client ELSE DOMAIN BlockingClient
       /\ \E m \in Meanings(h) : /\ meant' = m
                                 /\ sent' = Sending(c, f, InOrder(h, m))
       /\ client' = c /\ fn' = f
  /\ legal' = TRUE
  /\ pc' = "provider"
  /\ UNCHANGED <<params, answer, outcome>>

-----------------------------------------------------------------------------
(* The way back. *)

\* The types of a result and of the values in it.
ReadTypes ==
  {MethodOf(client, fn).result}
    \cup IF fn \in DOMAIN NestedTypes THEN NestedTypes[fn] ELSE {}

\* The provider: no answer or one that is no JSON-RPC response, an error (with
\* or without a result beside it), neither (or a null), a result of the type
\* or one with a wrong field, in the result itself or in a value inside it.
Provide ==
  /\ pc = "provider"
  /\ \/ \E code \in {1, 2} :
          answer' = [NoAnswer EXCEPT !.kind = "failed", !.code = code]
     \/ \E v \in {NoValue} \cup AllValues(MethodOf(client, fn).result) :
          answer' = [kind |-> "error", code |-> 20, type |-> MethodOf(client, fn).result,
                     value |-> v]
     \/ answer' = [NoAnswer EXCEPT !.kind = "empty"]
     \/ \E t \in ReadTypes : \E v \in AllValues(t) : \E x \in {v} \cup Spoilt(v) :
          answer' = [kind |-> "result", code |-> 0, type |-> t, value |-> x]
  /\ pc' = "answered"
  /\ UNCHANGED <<client, fn, meant, params, legal, sent, outcome>>

\* The codes of Http::post: a request that failed, a body that is no response.
FailureCode(c, code) == IF c = "async" THEN 32100 + code ELSE 33100 + code

\* Variant: the result is looked at before the error.
Outcome_ResultFirst(c, a) ==
  LET i == Read(a.type, a.value)
  IN  CASE a.kind = "failed" -> Error(FailureCode(c, a.code))
        [] a.value # NoValue -> IF i = 0 THEN Error(5002) ELSE Result(Write(a.type, i, a.value))
        [] a.kind = "error" -> Error(a.code)
        [] OTHER -> Error(5003)

\* What the client makes of the answer.
Outcome(c, a) ==
  LET i == Read(a.type, a.value)
  IN  CASE a.kind = "failed" -> Error(FailureCode(c, a.code))
        [] a.kind = "error" -> Error(a.code)
        [] a.kind = "empty" -> Error(5003)
        [] OTHER -> IF i = 0 THEN Error(5002) ELSE Result(Write(a.type, i, a.value))

\* The client reads the answer, and the handler writes what it returns.
Return ==
  /\ pc = "answered"
  /\ outcome' = Outcome(client, answer)
  /\ pc' = "done"
  /\ UNCHANGED <<client, fn, meant, params, legal, sent, answer>>

Next == Ask \/ Refuse \/ Call \/ CallByItself \/ Provide \/ Return
Spec == Init /\ [][Next]_vars

-----------------------------------------------------------------------------
(* Properties. *)

\* The provider is asked for the method that was asked for, with the values
\* that were meant, each where the provider (the same interface) expects it:
\* in whatever form the parameters came, and however alike two values look.
\* What is not a legal form is never passed on (gen.rs:2492-3824 and the
\* clients).
AskedAsMeant ==
  sent # Nothing =>
    /\ legal
    /\ sent.method \in DOMAIN Handlers
    /\ Handlers[sent.method].fn = fn
    /\ sent.listed = InOrder(Handlers[sent.method], meant)

\* The caller gets a result or the error of the step that failed: the
\* provider's own, also if a result came with it, that of the request, or that
\* of the parameters. A legal call is not refused.
AnsweredAsGiven ==
  pc = "done" =>
    IF sent = Nothing THEN ~legal /\ outcome = Error(-32602)
    ELSE /\ answer.kind = "error" => outcome = Error(answer.code)
         /\ answer.kind = "failed" => outcome = Error(FailureCode(client, answer.code))
         /\ answer.kind = "empty" => outcome = Error(5003)
         /\ outcome.kind = "result" => answer.kind = "result"

\* Whatever version or form a value has, it arrives with all of its fields: no
\* alternative that is tried before its own takes it and drops what it does not
\* know, and no two flattened parts take a field from each other (the untagged
\* enums and flattened fields of gen.rs).
WholeIsKept ==
  pc = "done" /\ answer.kind = "result" /\ answer.value.bad = {} =>
    outcome = Result(answer.value)

\* The functions whose result has a second alternative that is the pending form
\* of the first.
HavePending ==
  {"getBlockWithTxHashes", "getBlockWithTxs", "getBlockWithReceipts", "getStateUpdate"}

\* A value with a field that is wrong is refused, and not passed on as an
\* older version that lacks the field. The one exception are blocks and state
\* updates, which may turn into pending ones (gen.rs:1989-2014).
SpoiltIsRefused ==
  pc = "done" /\ answer.kind = "result" /\ answer.value.bad # {} =>
    \/ outcome = Error(5002)
    \/ /\ fn \in HavePending /\ answer.type = MethodOf(client, fn).result
       /\ outcome.value.bad = {}
=============================================================================
