------------------------------ MODULE FeltText ------------------------------
(***************************************************************************)
(* Field elements and storage keys as texts. Provider, gateway and client  *)
(* send them in hex, gen.rs checks and trims them (Felt, StorageKey), and  *)
(* the rest of the code keeps and compares them as strings. Three places   *)
(* turn elements back into texts: exe/map.rs for requests, client.rs for   *)
(* results, proof.rs for computed roots; blockifier's storage keys are     *)
(* written by starknet_api. A text that the code wrote itself is checked   *)
(* again by gen.rs.                                                        *)
(*                                                                         *)
(* A text is what gen.rs can tell of it: the prefix 0x, leading zeros, the *)
(* number that its other digits write, whether letters are in upper case,  *)
(* and whether there is anything else in it. In the code Base is 16,       *)
(* Letter 10, Digits 63 and Prime 2^251 + 17 * 2^192 + 1.                  *)
(***************************************************************************)
EXTENDS Integers, FiniteSets

CONSTANTS
  Base, Letter,  \* digits are 0..Base-1, from Letter on letters
  Digits,        \* digits of a felt at most
  Prime,         \* elements are 0..Prime-1
  MaxZeros       \* bound: leading zeros of a text that comes in

\* Storage keys are those below 2^251, the half of 16^63.
FeltEnd == Base^Digits
KeyEnd == FeltEnd \div 2

ASSUME TextAssumption ==
  /\ Base \in Nat \ {0, 1} /\ Base % 2 = 0 /\ Letter \in 1..Base
  /\ Digits \in Nat \ {0} /\ MaxZeros \in Nat /\ FeltEnd \in Nat
  /\ Prime \in (KeyEnd + 1)..FeltEnd

VARIABLES
  kind,      \* the newtype that the text is read as: "Felt" or "StorageKey"
  stage,     \* "text", "held", "refused", "element"
  by,        \* who wrote the text: "peer" or a writer
  text,
  held,      \* the string in the newtype
  element    \* the field element

vars == <<kind, stage, by, text, held, element>>

\* Numbers of one digit too many are texts, too.
HasLetter(n) == \E k \in 0..Digits : (n \div Base^k) % Base >= Letter

Texts ==
  {t \in [prefix : BOOLEAN, zeros : 0..MaxZeros, number : 0..(Base * FeltEnd - 1),
          upper : BOOLEAN, junk : BOOLEAN] :
     t.upper => HasLetter(t.number)}

Hex(zeros, n) == [prefix |-> TRUE, zeros |-> zeros, number |-> n, upper |-> FALSE, junk |-> FALSE]

Init ==
  /\ kind \in {"Felt", "StorageKey"} /\ stage = "text" /\ by = "peer"
  /\ text \in Texts
  /\ held = Hex(1, 0) /\ element = 0

-----------------------------------------------------------------------------
(* Reading. *)

\* Variant: that nothing may be left is forgotten.
Fix_NoEmpty(t) ==
  IF t.zeros > 0 /\ ~(t.zeros = 1 /\ t.number = 0 /\ ~t.junk)
  THEN [t EXCEPT !.prefix = TRUE, !.zeros = 0]
  ELSE t

\* fix: nothing after the prefix is zero, a single zero stays, and leading zeros
\* are cut, all of them.
Fix(t) ==
  IF t.zeros = 0 /\ t.number = 0 /\ ~t.junk THEN Hex(1, 0)
  ELSE IF t.zeros > 0 /\ ~(t.zeros = 1 /\ t.number = 0 /\ ~t.junk)
  THEN [t EXCEPT !.prefix = TRUE, !.zeros = 0]
  ELSE t

\* Variant: any hex digits, not too many of them.
FeltMatches_AnyDigits(t) == t.prefix /\ ~t.junk /\ t.number < FeltEnd

\* "^0x(0|[a-fA-F1-9]{1}[a-fA-F0-9]{0,62})$"
FeltMatches(t) ==
  /\ t.prefix /\ ~t.junk
  /\ \/ t.zeros = 1 /\ t.number = 0
     \/ t.zeros = 0 /\ t.number \in 1..(FeltEnd - 1)

\* "^0x(0|[0-7]{1}[a-fA-F0-9]{0,62}$)": the end belongs to the second alternative,
\* the first one is met by whatever begins with 0x0.
KeyMatches(t) ==
  /\ t.prefix
  /\ \/ t.zeros > 0
     \/ /\ t.zeros = 0 /\ ~t.junk
        /\ \E k \in 0..(Digits - 1) : t.number \div Base^k \in 1..(Base \div 2 - 1)

TryNew(t) == IF kind = "Felt" THEN Fix(t) ELSE t
Accepted(t) == IF kind = "Felt" THEN FeltMatches(Fix(t)) ELSE KeyMatches(t)

\* serde and the code itself make newtypes by try_new alone.
Read ==
  /\ stage = "text"
  /\ IF Accepted(text)
     THEN stage' = "held" /\ held' = TryNew(text)
     ELSE stage' = "refused" /\ UNCHANGED held
  /\ UNCHANGED <<kind, by, text, element>>

\* from_hex and from_hex_unchecked: a number modulo the prime, and no element
\* for what is not hex.
Convert ==
  /\ stage = "held" /\ ~held.junk
  /\ stage' = "element"
  /\ element' = held.number % Prime
  /\ UNCHANGED <<kind, by, text, held>>

-----------------------------------------------------------------------------
(* Writing. *)

\* Variant: zeros are trimmed at both ends.
MapText_TrimsBoth(e) ==
  Hex(IF e = 0 THEN 1 ELSE 0,
      CHOOSE n \in 0..e : \E k \in 0..Digits : n * Base^k = e /\ (n % Base # 0 \/ n = 0))

\* exe/map.rs: of 64 digits the leading zeros are trimmed, and nothing is "0".
MapText(e) == Hex(IF e = 0 THEN 1 ELSE 0, e)

\* client.rs: they are skipped, and nothing is left of zero.
ClientText(e) == Hex(0, e)

\* proof.rs: {:x}.
RootText(e) == Hex(IF e = 0 THEN 1 ELSE 0, e)

Written(writer) ==
  CASE writer = "map" -> MapText(element)
    [] writer = "client" -> ClientText(element)
    [] writer = "root" -> RootText(element)

WriteFelt ==
  /\ stage = "element" /\ kind = "Felt"
  /\ \E writer \in {"map", "client", "root"} : text' = Written(writer) /\ by' = writer
  /\ stage' = "text"
  /\ UNCHANGED <<kind, held, element>>

\* A storage key of blockifier, at the full width of 64 digits: each power that
\* is above it has a leading zero.
KeyText(e) == Hex(Cardinality({k \in 0..Digits : e < Base^k}), e)

\* Any storage key: contracts compute them.
WriteKey ==
  /\ stage = "element" /\ kind = "StorageKey"
  /\ element' \in 0..(KeyEnd - 1)
  /\ text' = KeyText(element')
  /\ by' = "executor"
  /\ stage' = "text"
  /\ UNCHANGED <<kind, held>>

Next == Read \/ Convert \/ WriteFelt \/ WriteKey

Spec == Init /\ [][Next]_vars

-----------------------------------------------------------------------------
(* Properties. *)

\* What the code writes it accepts itself: zero from every writer, and every
\* storage key that a contract reads (exe/mod.rs:171, client.rs:164-172,
\* proof.rs:167, 200).
OwnTextsAccepted == by # "peer" => stage # "refused"

\* A felt that is held is the one text of its number but for the case of letters,
\* and is in small letters if the code wrote it: what proof.rs:111, rpc.rs:198
\* and client.rs:46 compare as strings are the numbers, and "0x0" is zero
\* (exe/mod.rs:184).
HeldInOneForm ==
  stage \in {"held", "element"} /\ kind = "Felt" =>
    /\ held.prefix /\ ~held.junk
    /\ held.zeros = (IF held.number = 0 THEN 1 ELSE 0)
    /\ held.number < FeltEnd
    /\ by # "peer" => ~held.upper

\* Writing an element and reading it back ends at the same element.
ElementKept == [][Convert /\ by # "peer" => element' = element]_vars

-----------------------------------------------------------------------------
(* What the proofs rest on. *)

TextRecords == [prefix : BOOLEAN, zeros : Nat, number : Nat, upper : BOOLEAN, junk : BOOLEAN]

TypeOK ==
  /\ kind \in {"Felt", "StorageKey"} /\ stage \in {"text", "held", "refused", "element"}
  /\ by \in {"peer", "map", "client", "root", "executor"}
  /\ text \in TextRecords /\ held \in TextRecords
  /\ element \in 0..(Prime - 1)

\* A text of the code's own is the element's and accepted, and what it is read as
\* is the element's.
OwnNumber ==
  by # "peer" =>
    /\ text.number = element /\ text.upper = FALSE
    /\ stage = "text" => Accepted(text)
    /\ stage \in {"held", "element"} => held.number = element

IInv == TypeOK /\ OwnNumber /\ HeldInOneForm /\ OwnTextsAccepted
=============================================================================
