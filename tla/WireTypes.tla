----------------------------- MODULE WireTypes ------------------------------
(***************************************************************************)
(* How serde reads and writes the JSON types of gen.rs. A type is the      *)
(* sequence of its alternatives in the order in which an untagged enum     *)
(* tries them; an alternative is an object with fields that must and       *)
(* fields that may be there, some of which say one of a few words, or a    *)
(* scalar. What else a field holds is abstracted to whether it is of its   *)
(* type. The types nested in one are read the same way, each for itself.   *)
(***************************************************************************)
EXTENDS Naturals, Sequences, TLC

-----------------------------------------------------------------------------
(* How types are built. depth is the number of lists around a value; twice *)
(* are fields that two parts of a flattened object both claim.             *)

Alternative(form, req, opt) ==
  [form |-> form, depth |-> 0, req |-> req, opt |-> opt, says |-> <<>>, twice |-> {}]

Scalar(form) == <<Alternative(form, {}, {})>>
Struct(req, opt) == <<Alternative("object", req, opt)>>

\* #[serde(rename)] of a field that is an enum of words.
Tagged(field, words, t) ==
  [i \in DOMAIN t |-> [t[i] EXCEPT !.req = @ \cup {field}, !.says = (field :> words) @@ @]]

Fields(a) == a.req \cup a.opt

\* #[serde(flatten)]: the fields of u beside those of t.
Flatten(t, u) ==
  LET Merge(a, b) == [a EXCEPT !.req = @ \cup b.req, !.opt = @ \cup b.opt,
                               !.says = @ @@ b.says,
                               !.twice = @ \cup b.twice \cup (Fields(a) \cap Fields(b))]
  IN  [n \in 1..(Len(t) * Len(u)) |->
         Merge(t[1 + ((n - 1) \div Len(u))], u[1 + ((n - 1) % Len(u))])]

\* Vec: every element is read by itself, so a list of one stands for all.
List(t) == [i \in DOMAIN t |-> [t[i] EXCEPT !.depth = @ + 1]]

-----------------------------------------------------------------------------
(* Values, and how they are read and written. *)

\* A value of the alternative a with its optional fields o, saying w, and the
\* fields bad of a wrong type. The mark tells values apart that look the same.
Value(a, o, w, bad) ==
  [form |-> a.form, depth |-> a.depth, has |-> a.req \cup o, says |-> w, bad |-> bad,
   mark |-> ""]

\* The choices of words of a.
Words(a) == {w \in [DOMAIN a.says -> UNION {a.says[f] : f \in DOMAIN a.says}] :
               \A f \in DOMAIN a.says : w[f] \in a.says[f]}

\* The well-formed values of a: with none, one or all of the optional fields.
Values(a) ==
  {Value(a, o, w, {}) : o \in {{}, a.opt} \cup {{f} : f \in a.opt}, w \in Words(a)}

AllValues(t) == UNION {Values(t[i]) : i \in DOMAIN t}

\* One field of a value is of a wrong type.
Spoilt(v) == {[v EXCEPT !.bad = {f}] : f \in v.has}

\* Does an alternative accept a value? Unknown fields are ignored.
Accepts(a, v) ==
  /\ a.form = v.form /\ a.depth = v.depth
  /\ a.req \subseteq v.has
  /\ a.twice = {}
  /\ Fields(a) \cap v.bad = {}
  /\ \A f \in DOMAIN a.says : f \in DOMAIN v.says /\ v.says[f] \in a.says[f]

Accepting(t, v) == {i \in DOMAIN t : Accepts(t[i], v)}

\* The first alternative that accepts a value; 0 if there is none.
Read(t, v) ==
  IF Accepting(t, v) = {} THEN 0
  ELSE CHOOSE i \in Accepting(t, v) : \A j \in Accepting(t, v) : i <= j

\* What is written of a value that was read as t[i]: the fields it knows.
Write(t, i, v) ==
  [v EXCEPT !.has = @ \cap Fields(t[i]), !.bad = @ \cap Fields(t[i]),
            !.says = [f \in DOMAIN @ \cap Fields(t[i]) |-> @[f]]]
=============================================================================
