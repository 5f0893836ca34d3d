-------------------------- MODULE RpcServerProofs ---------------------------
(***************************************************************************)
(* Proofs about RpcServer, for any number of HTTP requests and any bodies. *)
(***************************************************************************)
EXTENDS RpcServer, FiniteSetTheorems, TLAPS

-----------------------------------------------------------------------------
(* Bodies and types. *)

LEMMA BodyTypes ==
  \A b \in Bodies \cup {NoBody} : Len(b.reqs) \in Nat
BY BodiesAssumption DEF NoBody

LEMMA TypeInit == Init => TypeOK
<1> SUFFICES ASSUME Init PROVE TypeOK OBVIOUS
<1>1. Len(NoBody.reqs) = 0 BY DEF NoBody
<1>2. QED BY <1>1 DEF Init, TypeOK

\* The requests with an id that are behind position k of the loop.
DueBefore(b, k) == {n \in 1..(k - 1) : b.reqs[n].id # None}

\* One more request handled: it is due a response if it has an id.
LEMMA DueStep ==
  ASSUME NEW b, NEW k \in Nat \ {0}
  PROVE  /\ IsFiniteSet(DueBefore(b, k))
         /\ Cardinality(DueBefore(b, k)) \in Nat
         /\ k \notin DueBefore(b, k)
         /\ DueBefore(b, k + 1) =
              DueBefore(b, k) \cup (IF b.reqs[k].id = None THEN {} ELSE {k})
         /\ b.reqs[k].id = None => DueBefore(b, k + 1) = DueBefore(b, k)
         /\ b.reqs[k].id # None =>
              Cardinality(DueBefore(b, k + 1)) = Cardinality(DueBefore(b, k)) + 1
<1>1. IsFiniteSet(DueBefore(b, k))
  <2>1. IsFiniteSet(1..(k - 1)) BY FS_Interval
  <2>2. DueBefore(b, k) \in SUBSET (1..(k - 1)) BY DEF DueBefore
  <2>3. QED BY <2>1, <2>2, FS_Subset
<1>2. Cardinality(DueBefore(b, k)) \in Nat BY <1>1, FS_CardinalityType
<1>3. k \notin DueBefore(b, k) BY DEF DueBefore
<1>4. 1..((k + 1) - 1) = (1..(k - 1)) \cup {k} OBVIOUS
<1>5. DueBefore(b, k + 1) = DueBefore(b, k) \cup (IF b.reqs[k].id = None THEN {} ELSE {k})
  BY <1>4 DEF DueBefore
<1>6. ASSUME b.reqs[k].id # None
      PROVE  Cardinality(DueBefore(b, k + 1)) = Cardinality(DueBefore(b, k)) + 1
  <2>1. DueBefore(b, k + 1) = DueBefore(b, k) \cup {k} BY <1>5, <1>6
  <2>2. QED BY <1>1, <1>3, <2>1, FS_AddElement
<1>7. QED BY <1>1, <1>2, <1>3, <1>5, <1>6

\* The place of a due response among the responses.
Place(D, n) == Cardinality({m \in D : m <= n})

LEMMA PlaceBounds ==
  ASSUME NEW D \in SUBSET Nat, IsFiniteSet(D), NEW n \in D
  PROVE  Place(D, n) \in 1..Cardinality(D)
<1> DEFINE S == {m \in D : m <= n}
<1>1. S \in SUBSET D OBVIOUS
<1>2. IsFiniteSet(S) /\ Cardinality(S) <= Cardinality(D) BY <1>1, FS_Subset
<1>3. Cardinality(S) \in Nat /\ Cardinality(D) \in Nat BY <1>2, FS_CardinalityType
<1>4. S # {} OBVIOUS
<1>5. Cardinality(S) # 0 BY <1>2, <1>4, FS_EmptySet
<1>6. QED BY <1>2, <1>3, <1>5 DEF Place

-----------------------------------------------------------------------------
(* The responses of one HTTP request, as an operator of its record. *)

Matches(h) ==
  LET D == DueBefore(h.body, h.at)
  IN  /\ Len(h.ret) = Cardinality(D)
      /\ \A n \in D :
           LET a == h.ret[Place(D, n)]
               r == h.body.reqs[n]
           IN  /\ a.id = r.id
               /\ a.outcome \in IF Refusal(r) = {} THEN {"result", "error"} ELSE Refusal(r)

LEMMA MatchesIsAnswersMatch == AnswersMatch <=> \A p \in Posts : Matches(http[p])
BY DEF AnswersMatch, Matches, Due, DueBefore, Place

Record == [pc : {"new", "rejected", "loop", "handler", "answered", "gone"},
           body : Bodies \cup {NoBody}, at : Nat, ret : Seq(Response)]

\* A fitting outcome for a request: what handle answers by itself, or else what
\* a handler ends with.
Fitting(r) == IF Refusal(r) = {} THEN {"result", "error"} ELSE Refusal(r)

\* The record that Answer leaves.
Answered(h, o) ==
  [h EXCEPT !.pc = "loop", !.at = @ + 1,
            !.ret = IF h.body.reqs[h.at].id = None THEN @
                    ELSE Append(@, [id |-> h.body.reqs[h.at].id, outcome |-> o])]

LEMMA FittingOutcomes == \A r : Fitting(r) \subseteq Outcomes
BY DEF Fitting, Refusal, Outcomes

\* A response to a request of a known body has the type of a response.
LEMMA AnsweredType ==
  ASSUME NEW h \in Record, h.at \in 1..Len(h.body.reqs), NEW o \in Outcomes
  PROVE  /\ Answered(h, o) \in Record
         /\ Answered(h, o).at \in 1..(Len(h.body.reqs) + 1)
<1> DEFINE id == h.body.reqs[h.at].id
           IdsOf(b) == {b.reqs[n].id : n \in 1..Len(b.reqs)}
           Ids == UNION {IdsOf(b) : b \in Bodies}
<1>1. Len(h.body.reqs) \in Nat BY BodyTypes DEF Record
<1>2. h.body \in Bodies
  <2>1. Len(NoBody.reqs) = 0 BY DEF NoBody
  <2>2. h.body # NoBody BY <2>1
  <2>3. QED BY <2>2 DEF Record
<1>3. id \in IdsOf(h.body) OBVIOUS
<1>4. id \in Ids BY <1>2, <1>3
<1>5. [id |-> id, outcome |-> o] \in Response BY <1>4 DEF Response
<1>6. h.ret \in Seq(Response) /\ h.at \in Nat BY DEF Record
<1>7. Append(h.ret, [id |-> id, outcome |-> o]) \in Seq(Response) BY <1>5, <1>6
<1>8. h.at + 1 \in Nat /\ h.at + 1 \in 1..(Len(h.body.reqs) + 1) BY <1>1, <1>6
<1>9. QED BY <1>6, <1>7, <1>8 DEF Answered, Record

\* A response that fits, or the silence a notification gets, keeps the responses
\* in step with the requests.
LEMMA AnsweredMatches ==
  ASSUME NEW h \in Record, h.at \in 1..Len(h.body.reqs), Matches(h),
         NEW o \in Fitting(h.body.reqs[h.at])
  PROVE  Matches(Answered(h, o))
<1> DEFINE k == h.at
           r == h.body.reqs[k]
           D == DueBefore(h.body, k)
           E == DueBefore(h.body, k + 1)
           g == Answered(h, o)
           new == [id |-> r.id, outcome |-> o]
<1>1. Len(h.body.reqs) \in Nat BY BodyTypes DEF Record
<1>2. k \in Nat \ {0} BY <1>1 DEF Record
<1>3. h.ret \in Seq(Response) BY DEF Record
<1>4. g.body = h.body /\ g.at = k + 1 BY DEF Answered, Record
<1>5. Len(h.ret) = Cardinality(D) BY DEF Matches
<1>6. CASE r.id = None
  <2>1. E = D BY <1>2, <1>6, DueStep
  <2>2. g.ret = h.ret BY <1>6 DEF Answered, Record
  <2>3. QED BY <1>4, <2>1, <2>2 DEF Matches
<1>7. CASE r.id # None
  <2>1. E = D \cup {k} /\ Cardinality(E) = Cardinality(D) + 1 BY <1>2, <1>7, DueStep
  <2>2. g.ret = Append(h.ret, new) BY <1>7 DEF Answered, Record
  <2>3. Len(g.ret) = Cardinality(E) BY <1>3, <1>5, <2>1, <2>2
  <2>4. /\ IsFiniteSet(D)
        /\ D \in SUBSET Nat /\ \A n \in D : n < k
    <3>1. IsFiniteSet(D) BY <1>2, DueStep
    <3>2. D \in SUBSET Nat /\ \A n \in D : n < k BY <1>2 DEF DueBefore
    <3>3. QED BY <3>1, <3>2
  <2>5. ASSUME NEW n \in E
        PROVE  /\ g.ret[Place(E, n)].id = h.body.reqs[n].id
               /\ g.ret[Place(E, n)].outcome \in Fitting(h.body.reqs[n])
    <3>1. CASE n = k
      <4>1. {m \in E : m <= n} = E BY <1>2, <2>1, <2>4, <3>1
      <4>2. Place(E, n) = Len(h.ret) + 1 BY <1>5, <2>1, <4>1 DEF Place
      <4>3. g.ret[Place(E, n)] = new BY <1>3, <2>2, <4>2
      <4>4. QED BY <3>1, <4>3
    <3>2. CASE n \in D
      <4>1. {m \in E : m <= n} = {m \in D : m <= n} BY <1>2, <2>1, <2>4, <3>2
      <4>2. Place(E, n) = Place(D, n) BY <4>1 DEF Place
      <4>3. Place(D, n) \in 1..Len(h.ret) BY <1>5, <2>4, <3>2, PlaceBounds
      <4>4. g.ret[Place(E, n)] = h.ret[Place(D, n)] BY <1>3, <2>2, <4>2, <4>3
      <4>5. QED BY <3>2, <4>4 DEF Matches, Fitting
    <3>3. QED BY <2>1, <3>1, <3>2
  <2>6. QED BY <1>4, <2>3, <2>5 DEF Matches, Fitting
<1>8. QED BY <1>6, <1>7

-----------------------------------------------------------------------------
(* One step of the server. *)

\* What the invariant says of one request.
PostInv(h) ==
  /\ h \in Record
  /\ h.at \in 1..(Len(h.body.reqs) + 1)
  /\ Matches(h)
  /\ h.pc = "new" => h.at = 1
  /\ h.pc = "handler" => h.at <= Len(h.body.reqs) /\ Refusal(h.body.reqs[h.at]) = {}

Inv ==
  /\ listener \in {"accepting", "draining", "ended"}
  /\ stop \in {"no", "sent", "returned"}
  /\ StopInv
  /\ http \in [Posts -> Record]
  /\ \A p \in Posts : PostInv(http[p])

LEMMA InvIsIInv == Inv <=> IInv
<1>1. ASSUME http \in [Posts -> Record], NEW p \in Posts
      PROVE  ~Finished(p) <=> http[p].at <= Len(http[p].body.reqs)
  <2>1. http[p].at \in Nat /\ http[p].body \in Bodies \cup {NoBody} BY <1>1 DEF Record
  <2>2. Len(http[p].body.reqs) \in Nat BY <2>1, BodyTypes
  <2>3. QED BY <2>1, <2>2 DEF Finished
<1>2. TypeOK => http \in [Posts -> Record] BY DEF TypeOK, Record
<1>3. Inv => IInv
  BY <1>1, MatchesIsAnswersMatch
  DEF Inv, IInv, TypeOK, PostInv, Record, WorkInv, Current
<1>4. IInv => Inv
  BY <1>1, <1>2, MatchesIsAnswersMatch
  DEF Inv, IInv, TypeOK, PostInv, WorkInv, Current
<1>5. QED BY <1>3, <1>4

\* A step of one request leaves the others as they are.
LEMMA OnePost ==
  ASSUME Inv, NEW p \in Posts, NEW h, PostInv(h), http' = [http EXCEPT ![p] = h]
  PROVE  http' \in [Posts -> Record] /\ \A q \in Posts : PostInv(http[q])'
BY DEF Inv, PostInv

LEMMA AnswerStep ==
  ASSUME Inv, NEW p \in Posts, ~Finished(p), NEW o \in Fitting(Current(p)), Answer(p, o)
  PROVE  http' \in [Posts -> Record] /\ \A q \in Posts : PostInv(http[q])'
<1> DEFINE h == http[p]
<1>1. PostInv(h) /\ h \in Record BY DEF Inv, PostInv
<1>2. h.at \in 1..Len(h.body.reqs) BY <1>1, BodyTypes DEF PostInv, Finished, Record
<1>3. o \in Fitting(h.body.reqs[h.at]) /\ o \in Outcomes BY FittingOutcomes DEF Current
<1>4. Answered(h, o) \in Record /\ Answered(h, o).at \in 1..(Len(h.body.reqs) + 1)
  BY <1>1, <1>2, <1>3, AnsweredType
<1>5. Matches(Answered(h, o)) BY <1>1, <1>2, <1>3, AnsweredMatches DEF PostInv
<1>6. Answered(h, o).body = h.body /\ Answered(h, o).pc = "loop"
  BY <1>1 DEF Answered, Record
<1>7. PostInv(Answered(h, o)) BY <1>4, <1>5, <1>6 DEF PostInv
<1>8. http' = [http EXCEPT ![p] = Answered(h, o)]
  BY DEF Answer, Answered, Current, Inv
<1>9. QED BY <1>7, <1>8, OnePost

\* Whatever one request does, its record stays in order.
LEMMA PostStep ==
  ASSUME Inv, NEW p \in Posts, PostNext(p)
  PROVE  http' \in [Posts -> Record] /\ \A q \in Posts : PostInv(http[q])'
<1> DEFINE h == http[p]
<1>1. PostInv(h) /\ h \in Record BY DEF Inv, PostInv
<1>2. CASE Post(p)
  <2>1. PICK b \in Bodies :
          http' = [http EXCEPT ![p].body = b,
                               ![p].pc = IF b.kind = "malformed" THEN "rejected" ELSE "loop"]
    BY <1>2 DEF Post
  <2> DEFINE g == [h EXCEPT !.body = b,
                            !.pc = IF b.kind = "malformed" THEN "rejected" ELSE "loop"]
  <2>2. http' = [http EXCEPT ![p] = g] BY <2>1 DEF Inv
  <2>3. g \in Record /\ g.body = b /\ g.at = h.at /\ g.ret = h.ret /\ g.pc \notin {"new", "handler"}
    BY <1>1 DEF Record
  <2>4. h.at = 1 BY <1>1, <1>2 DEF Post, PostInv
  <2>5. DueBefore(h.body, 1) = {} /\ DueBefore(b, 1) = {} BY DEF DueBefore
  <2>6. Matches(g) BY <1>1, <2>3, <2>4, <2>5 DEF PostInv, Matches
  <2>7. g.at \in 1..(Len(b.reqs) + 1) BY <2>3, <2>4, BodyTypes
  <2>8. PostInv(g) BY <2>3, <2>6, <2>7 DEF PostInv
  <2>9. QED BY <2>2, <2>8, OnePost
<1>3. CASE Refuse(p)
  <2>1. PICK o \in Refusal(Current(p)) : Answer(p, o) BY <1>3 DEF Refuse
  <2>2. o \in Fitting(Current(p)) BY <2>1 DEF Fitting
  <2>3. QED BY <1>3, <2>1, <2>2, AnswerStep DEF Refuse
<1>4. CASE Dispatch(p)
  <2> DEFINE g == [h EXCEPT !.pc = "handler"]
  <2>1. http' = [http EXCEPT ![p] = g] BY <1>4 DEF Dispatch, Inv
  <2>2. /\ g \in Record /\ g.pc = "handler"
        /\ g.body = h.body /\ g.at = h.at /\ g.ret = h.ret
    BY <1>1 DEF Record
  <2>3. h.at <= Len(h.body.reqs) /\ Refusal(h.body.reqs[h.at]) = {}
    BY <1>1, <1>4, BodyTypes DEF Dispatch, Finished, Current, Record
  <2>4. PostInv(g) BY <1>1, <2>2, <2>3 DEF PostInv, Matches
  <2>5. QED BY <2>1, <2>4, OnePost
<1>5. CASE HandlerEnds(p)
  <2>1. PICK o \in {"result", "error"} : Answer(p, o) BY <1>5 DEF HandlerEnds
  <2>2. ~Finished(p) /\ Refusal(Current(p)) = {}
    BY <1>1, <1>5, BodyTypes DEF HandlerEnds, PostInv, Finished, Current, Record
  <2>3. o \in Fitting(Current(p)) BY <2>2 DEF Fitting
  <2>4. QED BY <2>1, <2>2, <2>3, AnswerStep
<1>6. ASSUME NEW l \in {"answered", "gone"}, http' = [http EXCEPT ![p].pc = l]
      PROVE  http' \in [Posts -> Record] /\ \A q \in Posts : PostInv(http[q])'
  <2> DEFINE g == [h EXCEPT !.pc = l]
  <2>1. http' = [http EXCEPT ![p] = g] BY <1>6 DEF Inv
  <2>2. g \in Record /\ g.body = h.body /\ g.at = h.at /\ g.ret = h.ret /\ g.pc = l
    BY <1>1 DEF Record
  <2>3. PostInv(g) BY <1>1, <2>2 DEF PostInv, Matches
  <2>4. QED BY <2>1, <2>3, OnePost
<1>7. QED BY <1>2, <1>3, <1>4, <1>5, <1>6 DEF PostNext, Respond, HangUp

\* Nothing begins once the listener has ended.
LEMMA StopStep ==
  ASSUME Inv, Next
  PROVE  StopInv'
<1>1. CASE \E p \in Posts : PostNext(p)
  <2>1. PICK p \in Posts : PostNext(p) BY <1>1
  <2>2. UNCHANGED <<listener, stop>>
    BY <2>1 DEF PostNext, Post, Refuse, Dispatch, HandlerEnds, Respond, HangUp
  <2>3. listener # "ended"
    <3>1. listener = "ended" => http[p].pc \notin {"loop", "handler"}
      BY DEF Inv, StopInv, Open
    <3>2. QED
      BY <2>1, <3>1 DEF PostNext, Post, Refuse, Dispatch, HandlerEnds, Respond, HangUp
  <2>4. QED BY <2>2, <2>3 DEF Inv, StopInv
<1>2. CASE Signal BY <1>2 DEF Signal, Inv, StopInv, Open
<1>3. CASE Drain BY <1>3 DEF Drain, Inv, StopInv, Open
<1>4. CASE ServeEnds BY <1>4 DEF ServeEnds, Inv, StopInv, Open
<1>5. CASE StopReturns BY <1>5 DEF StopReturns, Inv, StopInv, Open
<1>6. QED BY <1>1, <1>2, <1>3, <1>4, <1>5 DEF Next

LEMMA InvInit == Init => Inv
<1> SUFFICES ASSUME Init PROVE Inv OBVIOUS
<1> DEFINE h == [pc |-> "new", body |-> NoBody, at |-> 1, ret |-> <<>>]
<1>1. http = [p \in Posts |-> h] BY DEF Init
<1>2. Len(NoBody.reqs) = 0 BY DEF NoBody
<1>3. DueBefore(NoBody, 1) = {} BY DEF DueBefore
<1>4. Matches(h) BY <1>3, FS_EmptySet DEF Matches
<1>5. h \in Record BY DEF Record
<1>6. PostInv(h) BY <1>2, <1>4, <1>5 DEF PostInv
<1>7. StopInv BY <1>1 DEF Init, StopInv, Open
<1>8. QED BY <1>1, <1>5, <1>6, <1>7 DEF Init, Inv

LEMMA InvStep == Inv /\ [Next]_vars => Inv'
<1> SUFFICES ASSUME Inv, [Next]_vars PROVE Inv' OBVIOUS
<1>1. CASE \E p \in Posts : PostNext(p)
  <2>1. PICK p \in Posts : PostNext(p) BY <1>1
  <2>2. UNCHANGED <<listener, stop>>
    BY <2>1 DEF PostNext, Post, Refuse, Dispatch, HandlerEnds, Respond, HangUp
  <2>3. StopInv' BY <1>1, StopStep DEF Next
  <2>4. QED BY <2>1, <2>2, <2>3, PostStep DEF Inv
<1>2. CASE Signal \/ Drain \/ ServeEnds \/ StopReturns
  <2>1. UNCHANGED http BY <1>2 DEF Signal, Drain, ServeEnds, StopReturns
  <2>2. StopInv' BY <1>2, StopStep DEF Next
  <2>3. /\ listener' \in {"accepting", "draining", "ended"}
        /\ stop' \in {"no", "sent", "returned"}
    BY <1>2 DEF Inv, Signal, Drain, ServeEnds, StopReturns
  <2>4. QED BY <2>1, <2>2, <2>3 DEF Inv
<1>3. CASE UNCHANGED vars BY <1>3 DEF vars, Inv, StopInv, Open
<1>4. QED BY <1>1, <1>2, <1>3 DEF Next

\* Types, the order of the shutdown, where loops and handlers are, and the
\* responses so far, together (rpc.rs:219-244).
THEOREM ServerInvariance == Spec => []IInv
<1>1. QED BY InvInit, InvStep, InvIsIInv, PTL DEF Spec

\* The state of every request keeps its type (rpc.rs:219-244).
THEOREM ServerTypes == Spec => []TypeOK
<1>1. IInv => TypeOK BY DEF IInv
<1>2. QED BY ServerInvariance, <1>1, PTL

\* However long a batch is and whatever its members are, it is answered by the
\* responses of its requests with an id, in order (rpc.rs:233-240).
THEOREM BatchAnswers == Spec => []AnswersMatch
<1>1. IInv => AnswersMatch BY DEF IInv
<1>2. QED BY ServerInvariance, <1>1, PTL

\* Once stop has returned no handler runs or begins (rpc.rs:24-27, 70-81).
THEOREM StopIsQuiet == Spec => []QuietAfterStop
<1>1. IInv => QuietAfterStop BY DEF IInv, StopInv, QuietAfterStop
<1>2. QED BY ServerInvariance, <1>1, PTL
=============================================================================
