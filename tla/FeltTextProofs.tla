--------------------------- MODULE FeltTextProofs ---------------------------
(***************************************************************************)
(* For every base, width and prime: held felts have one form, and writing  *)
(* and reading back keeps the element.                                     *)
(***************************************************************************)
EXTENDS FeltText, FiniteSetTheorems, TLAPS

LEMMA Ends == FeltEnd \in Nat /\ KeyEnd \in Int /\ Prime \in Int /\ KeyEnd < Prime
               /\ Prime <= FeltEnd /\ 0 < Prime /\ 0 < FeltEnd /\ KeyEnd <= FeltEnd
<1>1. FeltEnd \in Nat /\ Prime \in (KeyEnd + 1)..FeltEnd
  BY TextAssumption
<1>2. KeyEnd \in Nat
  BY <1>1 DEF KeyEnd
<1> QED
  BY <1>1, <1>2

\* A text that was written in small hex digits.
LEMMA HexText ==
  ASSUME NEW z \in Nat, NEW n \in Nat
  PROVE  /\ Hex(z, n) \in TextRecords /\ Hex(z, n).number = n /\ Hex(z, n).zeros = z
         /\ Hex(z, n).upper = FALSE /\ Hex(z, n).junk = FALSE /\ Hex(z, n).prefix = TRUE
  BY DEF Hex, TextRecords

\* fix keeps the number, and letters as they are.
LEMMA FixKeeps ==
  ASSUME NEW t \in TextRecords
  PROVE  /\ Fix(t) \in TextRecords /\ Fix(t).number = t.number
         /\ t.upper = FALSE => Fix(t).upper = FALSE
<1> DEFINE Nothing == t.zeros = 0 /\ t.number = 0 /\ ~t.junk
           Padded == t.zeros > 0 /\ ~(t.zeros = 1 /\ t.number = 0 /\ ~t.junk)
<1>1. CASE Nothing
  <2>1. Fix(t) = Hex(1, 0)
    BY <1>1, Zenon DEF Fix
  <2>2. t.number = 0
    BY <1>1
  <2>3. 1 \in Nat /\ 0 \in Nat
    OBVIOUS
  <2>4. Hex(1, 0) \in TextRecords /\ Hex(1, 0).number = 0 /\ Hex(1, 0).upper = FALSE
    BY <2>3, HexText
  <2> HIDE DEF Nothing, Padded
  <2> QED
    BY <2>1, <2>2, <2>4
<1>2. CASE ~Nothing /\ Padded
  <2>1. Fix(t) = [t EXCEPT !.prefix = TRUE, !.zeros = 0]
    BY <1>2, Zenon DEF Fix
  <2> HIDE DEF Nothing, Padded
  <2>2. /\ [t EXCEPT !.prefix = TRUE, !.zeros = 0] \in TextRecords
        /\ [t EXCEPT !.prefix = TRUE, !.zeros = 0].number = t.number
        /\ [t EXCEPT !.prefix = TRUE, !.zeros = 0].upper = t.upper
    BY DEF TextRecords
  <2> QED
    BY <2>1, <2>2
<1>3. CASE ~Nothing /\ ~Padded
  <2>1. Fix(t) = t
    BY <1>3, Zenon DEF Fix
  <2> QED
    BY <2>1
<1> QED
  BY <1>1, <1>2, <1>3

\* Texts of elements are accepted, also one with nothing after its prefix.
LEMMA OwnFelts ==
  ASSUME NEW e \in 0..(Prime - 1), NEW z \in {0, 1}, e # 0 => z = 0
  PROVE  FeltMatches(Fix(Hex(z, e)))
<1>1. e \in Nat /\ z \in Nat /\ e < FeltEnd /\ FeltEnd \in Nat /\ 1 \in Nat /\ 0 \in Nat
  BY Ends
<1> DEFINE t == Hex(z, e)
<1>2. t.number = e /\ t.zeros = z /\ t.junk = FALSE /\ t.prefix = TRUE
  BY DEF Hex
<1>3. CASE e = 0
  <2>1. Fix(t) = Hex(1, 0)
    <3>1. CASE z = 0
      <4>1. t.zeros = 0 /\ t.number = 0 /\ t.junk = FALSE
        BY <1>2, <1>3, <3>1
      <4> QED
        BY <4>1, Zenon DEF Fix
    <3>2. CASE z = 1
      <4>1. t.zeros = 1 /\ t.number = 0 /\ ~t.junk
        BY <1>2, <1>3, <3>2
      <4>2. t.zeros # 0
        BY <4>1
      <4>3. Fix(t) = t
        BY <4>1, <4>2, Zenon DEF Fix
      <4> QED
        BY <4>3, <1>3, <3>2
    <3> QED
      BY <3>1, <3>2
  <2>2. Hex(1, 0).prefix = TRUE /\ Hex(1, 0).junk = FALSE /\ Hex(1, 0).zeros = 1 /\ Hex(1, 0).number = 0
    BY DEF Hex
  <2>3. FeltMatches(Hex(1, 0))
    BY <2>2, Zenon DEF FeltMatches
  <2> QED
    BY <2>1, <2>3
<1>4. CASE e # 0
  <2>1. t.zeros = 0 /\ t.number # 0 /\ ~(t.zeros > 0) /\ t.number \in 1..(FeltEnd - 1)
    BY <1>1, <1>2, <1>4
  <2>2. Fix(t) = t
    BY <2>1, Zenon DEF Fix
  <2>3. FeltMatches(t)
    BY <1>2, <2>1, Zenon DEF FeltMatches
  <2> QED
    BY <2>2, <2>3
<1> QED
  BY <1>3, <1>4

\* At full width a storage key has a leading zero, and that is enough.
LEMMA OwnKeys ==
  ASSUME NEW e \in 0..(KeyEnd - 1)
  PROVE  /\ \E z \in Nat : KeyText(e) = Hex(z, e)
         /\ KeyMatches(KeyText(e))
<1> DEFINE Z == {k \in 0..Digits : e < Base^k}
<1>1. Digits \in Nat
  BY TextAssumption
<1>2. IsFiniteSet(0..Digits)
  BY <1>1, FS_Interval
<1>3. IsFiniteSet(Z) /\ Cardinality(Z) \in Nat
  BY <1>2, FS_Subset, FS_CardinalityType
<1>4. e < FeltEnd
  BY Ends
<1>5. Digits \in Z
  BY <1>1, <1>4 DEF FeltEnd
<1>6. Cardinality(Z) # 0
  BY <1>3, <1>5, FS_EmptySet
<1>7. KeyText(e) = Hex(Cardinality(Z), e)
  BY DEF KeyText
<1>8. e \in Nat
  BY Ends
<1> DEFINE c == Cardinality(Z)
<1>9. c \in Nat /\ c > 0
  BY <1>3, <1>6
<1> HIDE DEF Z, c
<1>10. Hex(c, e).prefix = TRUE /\ Hex(c, e).zeros = c
  BY <1>8, <1>9, HexText
<1>11. KeyMatches(Hex(c, e))
  <2>1. Hex(c, e).zeros > 0
    BY <1>9, <1>10
  <2> QED
    BY <1>10, <2>1, Zenon DEF KeyMatches
<1>12. KeyText(e) = Hex(c, e)
  BY <1>7 DEF c
<1> QED
  BY <1>9, <1>11, <1>12

\* What the pattern accepts has one form but for the case of its letters.
LEMMA MatchedForm ==
  ASSUME NEW t \in TextRecords, FeltMatches(t)
  PROVE  /\ t.prefix /\ ~t.junk
         /\ t.zeros = (IF t.number = 0 THEN 1 ELSE 0)
         /\ t.number < FeltEnd
<1>1. t.prefix /\ ~t.junk
  BY Zenon DEF FeltMatches
<1>0. \/ t.zeros = 1 /\ t.number = 0
      \/ t.zeros = 0 /\ t.number \in 1..(FeltEnd - 1)
  BY Zenon DEF FeltMatches
<1>2. t.zeros = IF t.number = 0 THEN 1 ELSE 0
  BY <1>0, Ends
<1>3. t.number < FeltEnd
  BY <1>0, Ends
<1> QED
  BY <1>1, <1>2, <1>3, Zenon

-----------------------------------------------------------------------------
(* The invariant. *)

LEMMA InitHolds == Init => IInv
<1> SUFFICES ASSUME Init PROVE IInv
  OBVIOUS
<1>1. text \in TextRecords
  <2>1. text \in [prefix : BOOLEAN, zeros : 0..MaxZeros, number : 0..(Base * FeltEnd - 1),
                  upper : BOOLEAN, junk : BOOLEAN]
    BY DEF Init, Texts
  <2>2. text.zeros \in Nat /\ text.number \in Nat
    BY <2>1
  <2> QED
    BY <2>1, <2>2 DEF TextRecords
<1>2. held \in TextRecords /\ element \in 0..(Prime - 1)
  <2>1. 1 \in Nat /\ 0 \in Nat /\ 0 \in 0..(Prime - 1)
    BY Ends
  <2>2. Hex(1, 0) \in TextRecords
    BY <2>1, HexText
  <2> QED
    BY <2>1, <2>2 DEF Init
<1>3. kind \in {"Felt", "StorageKey"} /\ stage = "text" /\ by = "peer"
  BY DEF Init
<1>4. TypeOK
  BY <1>1, <1>2, <1>3 DEF TypeOK
<1> QED
  BY <1>3, <1>4 DEF IInv, OwnNumber, HeldInOneForm, OwnTextsAccepted

LEMMA StepKeeps == IInv /\ [Next]_vars => IInv'
<1> SUFFICES ASSUME IInv, [Next]_vars PROVE IInv'
  OBVIOUS
<1>0. TypeOK /\ OwnNumber /\ HeldInOneForm /\ OwnTextsAccepted
  BY DEF IInv
<1>1. CASE Read
  <2>1. /\ stage = "text"
        /\ UNCHANGED <<kind, by, text, element>>
    BY <1>1 DEF Read
  <2>2. CASE Accepted(text)
    <3>1. stage' = "held" /\ held' = TryNew(text)
      BY <1>1, <2>2 DEF Read
    <3>2. text \in TextRecords
      BY <1>0 DEF TypeOK
    <3>3. CASE kind = "Felt"
      <4>1. held' = Fix(text) /\ FeltMatches(held')
        BY <2>2, <3>1, <3>3 DEF TryNew, Accepted
      <4>2. held' \in TextRecords /\ held'.number = text.number /\ (text.upper = FALSE => held'.upper = FALSE)
        BY <3>2, <4>1, FixKeeps
      <4>3. TypeOK'
        BY <1>0, <2>1, <3>1, <4>2 DEF TypeOK
      <4>4. OwnNumber'
        BY <1>0, <2>1, <3>1, <4>2 DEF OwnNumber
      <4>5. HeldInOneForm'
        <5>1. /\ held'.prefix /\ ~held'.junk
              /\ held'.zeros = (IF held'.number = 0 THEN 1 ELSE 0)
              /\ held'.number < FeltEnd
          BY <4>1, <4>2, MatchedForm
        <5>2. by' # "peer" => ~held'.upper
          BY <1>0, <2>1, <4>2 DEF OwnNumber
        <5> QED
          BY <5>1, <5>2 DEF HeldInOneForm
      <4> QED
        BY <3>1, <4>3, <4>4, <4>5 DEF IInv, OwnTextsAccepted
    <3>4. CASE kind # "Felt"
      <4>1. held' = text
        BY <3>1, <3>4 DEF TryNew
      <4> QED
        BY <1>0, <2>1, <3>1, <3>4, <4>1 DEF IInv, TypeOK, OwnNumber, HeldInOneForm, OwnTextsAccepted
    <3> QED
      BY <3>3, <3>4
  <2>3. CASE ~Accepted(text)
    <3>1. stage' = "refused" /\ held' = held
      BY <1>1, <2>3 DEF Read
    <3>2. by = "peer"
      BY <1>0, <2>1, <2>3 DEF OwnNumber
    <3> QED
      BY <1>0, <2>1, <3>1, <3>2 DEF IInv, TypeOK, OwnNumber, HeldInOneForm, OwnTextsAccepted
  <2> QED
    BY <2>2, <2>3
<1>2. CASE Convert
  <2>1. /\ stage = "held" /\ stage' = "element" /\ element' = held.number % Prime
        /\ UNCHANGED <<kind, by, text, held>>
    BY <1>2 DEF Convert
  <2>2. held.number \in Nat /\ element \in 0..(Prime - 1)
    BY <1>0 DEF TypeOK, TextRecords
  <2>3. element' \in 0..(Prime - 1)
    BY <2>1, <2>2, Ends
  <2>4. by # "peer" => element' = element
    BY <1>0, <2>1, <2>2, Ends DEF OwnNumber
  <2>5. TypeOK' /\ OwnNumber'
    BY <1>0, <2>1, <2>3, <2>4 DEF TypeOK, OwnNumber
  <2>6. HeldInOneForm'
    BY <1>0, <2>1 DEF HeldInOneForm
  <2> QED
    BY <2>1, <2>5, <2>6 DEF IInv, OwnTextsAccepted
<1>3. CASE WriteFelt
  <2>1. PICK writer \in {"map", "client", "root"} : text' = Written(writer) /\ by' = writer
    BY <1>3 DEF WriteFelt
  <2>2. stage' = "text" /\ UNCHANGED <<kind, held, element>> /\ kind = "Felt"
    BY <1>3 DEF WriteFelt
  <2>3. element \in Nat /\ element \in 0..(Prime - 1)
    BY <1>0, Ends DEF TypeOK
  <2>4. text' \in {Hex(0, element), Hex(IF element = 0 THEN 1 ELSE 0, element)}
    BY <2>1 DEF Written, MapText, ClientText, RootText
  <2>p. PICK z \in {0, 1} : text' = Hex(z, element) /\ (element # 0 => z = 0)
    BY <2>4
  <2>n. z \in Nat
    OBVIOUS
  <2>5. text' \in TextRecords /\ text'.number = element /\ text'.upper = FALSE
    <3>1. /\ Hex(z, element) \in TextRecords /\ Hex(z, element).number = element
          /\ Hex(z, element).upper = FALSE
      BY <2>3, <2>n, HexText
    <3> QED
      BY <3>1, <2>p
  <2>6. FeltMatches(Fix(text'))
    <3>1. FeltMatches(Fix(Hex(z, element)))
      BY <2>3, <2>p, OwnFelts
    <3> QED
      BY <3>1, <2>p
  <2>7. Accepted(text)'
    BY <2>2, <2>6 DEF Accepted
  <2> QED
    BY <1>0, <2>1, <2>2, <2>5, <2>7 DEF IInv, TypeOK, OwnNumber, HeldInOneForm, OwnTextsAccepted
<1>4. CASE WriteKey
  <2>1. /\ element' \in 0..(KeyEnd - 1) /\ text' = KeyText(element') /\ by' = "executor"
        /\ stage' = "text" /\ UNCHANGED <<kind, held>> /\ kind = "StorageKey"
    BY <1>4 DEF WriteKey
  <2>2. element' \in Nat /\ element' \in 0..(Prime - 1)
    BY <2>1, Ends
  <2>3. (\E z \in Nat : text' = Hex(z, element')) /\ KeyMatches(text')
    BY <2>1, OwnKeys
  <2>p. PICK z \in Nat : text' = Hex(z, element')
    BY <2>3
  <2>4. text' \in TextRecords /\ text'.number = element' /\ text'.upper = FALSE
    <3>1. /\ Hex(z, element') \in TextRecords /\ Hex(z, element').number = element'
          /\ Hex(z, element').upper = FALSE
      BY <2>2, HexText
    <3> QED
      BY <3>1, <2>p
  <2>5. Accepted(text)'
    BY <2>1, <2>3 DEF Accepted
  <2> QED
    BY <1>0, <2>1, <2>2, <2>4, <2>5 DEF IInv, TypeOK, OwnNumber, HeldInOneForm, OwnTextsAccepted
<1>5. CASE UNCHANGED vars
  BY <1>0, <1>5 DEF vars, IInv, TypeOK, OwnNumber, Accepted, HeldInOneForm, OwnTextsAccepted
<1> QED
  BY <1>1, <1>2, <1>3, <1>4, <1>5 DEF Next

\* The inductive invariant: types, own texts and the form of felts.
THEOREM TextInvariance == Spec => []IInv
  BY InitHolds, StepKeeps, PTL DEF Spec

\* Felts that are held have one form but for the case of letters, so that the
\* code's comparisons of strings are comparisons of numbers (gen.rs:991-1052).
THEOREM OneForm == Spec => []HeldInOneForm
<1>1. IInv => HeldInOneForm
  BY DEF IInv
<1> QED
  BY <1>1, TextInvariance, PTL

\* What the code writes it accepts itself: elements from every writer, zero among
\* them, and every storage key at full width (client.rs:164-172, exe/mod.rs:171).
THEOREM OwnTextsRead == Spec => []OwnTextsAccepted
<1>1. IInv => OwnTextsAccepted
  BY DEF IInv
<1> QED
  BY <1>1, TextInvariance, PTL

\* Writing an element as a text and reading that back keeps the element
\* (exe/map.rs:11-30, client.rs:164-172, proof.rs:167).
THEOREM RoundTrip == Spec => ElementKept
<1>1. IInv /\ [Next]_vars => [Convert /\ by # "peer" => element' = element]_vars
  <2> SUFFICES ASSUME IInv, Convert, by # "peer" PROVE element' = element
    OBVIOUS
  <2>1. held.number \in Nat /\ element \in 0..(Prime - 1) /\ held.number = element
    BY DEF IInv, TypeOK, OwnNumber, Convert, TextRecords
  <2> QED
    BY <2>1, Ends DEF Convert
<1> QED
  BY <1>1, TextInvariance, PTL DEF Spec, ElementKept
=============================================================================
