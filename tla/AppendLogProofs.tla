--------------------------- MODULE AppendLogProofs ---------------------------
(***************************************************************************)
(* The abstract log keeps the bytes of the stream in order.                *)
(***************************************************************************)
EXTENDS AppendLog, TLAPS

\* What has to be known of the sizes.
Sizes == StructSize \in Nat \ {0} /\ MaxBytes \in Nat

\* The types of the abstract log.
LEMMA AppendLogType == Sizes => (Spec => []TypeOK)
<1> SUFFICES ASSUME Sizes PROVE Spec => []TypeOK
  OBVIOUS
<1> USE DEF Sizes
<1>1. Init => TypeOK
  BY DEF Init, TypeOK
<1>2. TypeOK /\ [Next]_vars => TypeOK'
  <2> SUFFICES ASSUME TypeOK, [Next]_vars
               PROVE  TypeOK'
    OBVIOUS
  <2>1. CASE Accept
    BY <2>1 DEF TypeOK, Accept
  <2>2. CASE Persist
    <3>1. PICK n \in 1..Outstanding :
              file' = file \o [i \in 1..n |-> Len(file) + dropped + i]
      BY <2>2 DEF Persist
    <3>2. [i \in 1..n |-> Len(file) + dropped + i] \in Seq(Nat)
      BY <3>1 DEF TypeOK, Outstanding
    <3>3. QED
      BY <2>2, <3>1, <3>2 DEF TypeOK, Persist
  <2>3. CASE GiveUp
    BY <2>3 DEF TypeOK, GiveUp, Outstanding
  <2>4. CASE UNCHANGED vars
    BY <2>4 DEF TypeOK, vars
  <2>5. QED
    BY <2>1, <2>2, <2>3, <2>4 DEF Next
<1>3. QED
  BY <1>1, <1>2, PTL DEF Spec

\* Whatever the sizes: the file of the abstract log holds stream bytes in
\* order, none twice, and is a prefix of the stream while no write failed.
THEOREM AppendLogInOrder == Sizes => (Spec => []InOrder)
<1> SUFFICES ASSUME Sizes PROVE Spec => []InOrder
  OBVIOUS
<1> USE DEF Sizes
<1>1. Init => InOrder
  BY DEF Init, InOrder
<1>2. TypeOK /\ InOrder /\ [Next]_vars => InOrder'
  <2> SUFFICES ASSUME TypeOK, InOrder, [Next]_vars
               PROVE  InOrder'
    OBVIOUS
  <2> USE DEF TypeOK, InOrder
  <2>1. CASE Accept
    BY <2>1 DEF Accept
  <2>2. CASE Persist
    <3> DEFINE New(n) == [i \in 1..n |-> Len(file) + dropped + i]
    <3>1. PICK n \in 1..Outstanding : file' = file \o New(n)
      BY <2>2 DEF Persist
    <3>2. n \in Nat /\ n <= accepted - Len(file) - dropped
      BY <3>1 DEF Outstanding
    <3>3. New(n) \in Seq(Nat) /\ Len(New(n)) = n
      BY <3>2
    <3>4. /\ Len(file') = Len(file) + n
          /\ \A i \in 1..Len(file) : file'[i] = file[i]
          /\ \A i \in (Len(file) + 1)..(Len(file) + n) : file'[i] = dropped + i
      BY <3>1, <3>2, <3>3
    <3>5. UNCHANGED <<accepted, dropped>>
      BY <2>2 DEF Persist
    <3> HIDE DEF New
    <3>6. Len(file') + dropped' <= accepted'
      BY <3>2, <3>4, <3>5
    <3>7. ASSUME NEW i \in 1..Len(file'), NEW j \in 1..Len(file'), i < j
          PROVE  file'[i] < file'[j]
      <4>1. CASE j <= Len(file)
        BY <3>2, <3>4, <3>7, <4>1
      <4>2. CASE i <= Len(file) /\ j > Len(file)
        <5>1. file'[i] <= Len(file) + dropped /\ file'[i] \in Nat
          BY <3>2, <3>4, <4>2
        <5>2. file'[j] = dropped + j
          BY <3>2, <3>4, <4>2
        <5>3. QED
          BY <4>2, <5>1, <5>2
      <4>3. CASE i > Len(file)
        BY <3>2, <3>4, <3>7, <4>3
      <4>4. QED
        BY <3>2, <3>4, <3>7, <4>1, <4>2, <4>3
    <3>8. ASSUME NEW i \in 1..Len(file')
          PROVE  /\ file'[i] <= Len(file') + dropped'
                 /\ dropped' = 0 => file'[i] = i
      <4>1. CASE i <= Len(file)
        BY <3>2, <3>4, <3>5, <4>1
      <4>2. CASE i > Len(file)
        <5>1. file'[i] = dropped + i
          BY <3>2, <3>4, <4>2
        <5>2. QED
          BY <3>4, <3>5, <5>1
      <4>3. QED
        BY <3>2, <3>4, <4>1, <4>2
    <3>9. QED
      BY <3>6, <3>7, <3>8
  <2>3. CASE GiveUp
    BY <2>3 DEF GiveUp, Outstanding
  <2>4. CASE UNCHANGED vars
    BY <2>4 DEF vars
  <2>5. QED
    BY <2>1, <2>2, <2>3, <2>4 DEF Next
<1>3. QED
  BY <1>1, <1>2, AppendLogType, PTL DEF Spec
=============================================================================
