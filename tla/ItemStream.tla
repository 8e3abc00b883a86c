------------------------------ MODULE ItemStream ------------------------------
(***************************************************************************)
(* What the proofs about the two handshakes, UartHandshakeProofs and       *)
(* JtagHandshakeProofs, say of the items on their way to the script, and   *)
(* what taking one from the front and adding one at the end do to it.      *)
(***************************************************************************)
EXTENDS Integers, SequenceTheorems, TLAPS

Holds(s, x) == \E i \in DOMAIN s : s[i] = x

Pcm(s)      == \A i \in DOMAIN s : s[i] = "pcm"
PcmAfter(s) == \A i \in DOMAIN s : s[i] = "header" =>
                 \A j \in DOMAIN s : j > i => s[j] = "pcm"

(* s and one more item: a run of equal items is one. *)
Merged(s, x) == IF s # << >> /\ s[Len(s)] = x THEN s ELSE Append(s, x)

(* No header but behind the board's answer to the trigger. *)
AckBefore(s) == \A i \in DOMAIN s : s[i] = "header" =>
                  \E j \in DOMAIN s : j < i /\ s[j] = "Trigger"

-----------------------------------------------------------------------------
(* Nothing is on its way. *)
LEMMA EmptyInput ==
  /\ \A S : << >> \in Seq(S)
  /\ \A x : ~Holds(<< >>, x)
  /\ Pcm(<< >>) /\ PcmAfter(<< >>) /\ AckBefore(<< >>)
BY DEF Holds, Pcm, PcmAfter, AckBefore

(* What taking the first of a sequence leaves. *)
LEMMA TailKeeps ==
  ASSUME NEW S, NEW s \in Seq(S), s # << >>
  PROVE  /\ Tail(s) \in Seq(S) /\ Head(s) \in S
         /\ \A x : Holds(Tail(s), x) => Holds(s, x)
         /\ \A x : Holds(s, x) => Head(s) = x \/ Holds(Tail(s), x)
         /\ Pcm(s) => Pcm(Tail(s)) /\ Head(s) = "pcm"
         /\ PcmAfter(s) => PcmAfter(Tail(s))
         /\ PcmAfter(s) /\ Head(s) = "header" => Pcm(Tail(s))
         /\ AckBefore(s) => Head(s) # "header"
         /\ AckBefore(s) /\ Head(s) # "Trigger" => AckBefore(Tail(s))
         /\ Holds(s, Head(s))
<1>1. /\ Tail(s) \in Seq(S) /\ Head(s) \in S /\ Head(s) = s[1]
      /\ DOMAIN s = 1 .. Len(s) /\ Len(s) \in Nat /\ Len(s) > 0
      /\ DOMAIN Tail(s) = 1 .. (Len(s) - 1)
      /\ \A i \in 1 .. (Len(s) - 1) : Tail(s)[i] = s[i + 1]
  BY HeadTailProperties, LenProperties, EmptySeq
<1>2. \A i \in DOMAIN Tail(s) : i + 1 \in DOMAIN s /\ i + 1 > 1 /\ Tail(s)[i] = s[i + 1]
  BY <1>1
<1>3. \A i \in DOMAIN s : i = 1 \/ (i - 1 \in DOMAIN Tail(s) /\ Tail(s)[i - 1] = s[i])
  <2> TAKE i \in DOMAIN s
  <2>1. CASE i = 1
    BY <2>1
  <2>2. CASE i # 1
    <3>1. i - 1 \in 1 .. (Len(s) - 1) /\ (i - 1) + 1 = i
      BY <1>1, <2>2
    <3> QED
      BY <1>1, <3>1
  <2> QED
    BY <2>1, <2>2
<1>4. \A x : Holds(Tail(s), x) => Holds(s, x)
  BY <1>2 DEF Holds
<1>5. \A x : Holds(s, x) => Head(s) = x \/ Holds(Tail(s), x)
  BY <1>1, <1>3 DEF Holds
<1>6. Pcm(s) => Pcm(Tail(s)) /\ Head(s) = "pcm"
  BY <1>1, <1>2 DEF Pcm
<1>7. PcmAfter(s) => PcmAfter(Tail(s))
  <2> SUFFICES ASSUME PcmAfter(s), NEW i \in DOMAIN Tail(s), Tail(s)[i] = "header",
                      NEW j \in DOMAIN Tail(s), j > i
               PROVE  Tail(s)[j] = "pcm"
    BY DEF PcmAfter
  <2>1. i + 1 \in DOMAIN s /\ j + 1 \in DOMAIN s /\ j + 1 > i + 1
    BY <1>1
  <2> QED
    BY <1>2, <2>1 DEF PcmAfter
<1>8. PcmAfter(s) /\ Head(s) = "header" => Pcm(Tail(s))
  BY <1>1, <1>2 DEF Pcm, PcmAfter
<1>9. 1 \in DOMAIN s /\ \A j \in DOMAIN s : ~(j < 1)
  BY <1>1
<1>10. AckBefore(s) => Head(s) # "header"
  BY <1>1, <1>9 DEF AckBefore
<1>11. AckBefore(s) /\ Head(s) # "Trigger" => AckBefore(Tail(s))
  <2> SUFFICES ASSUME AckBefore(s), Head(s) # "Trigger",
                      NEW i \in DOMAIN Tail(s), Tail(s)[i] = "header"
               PROVE  \E j \in DOMAIN Tail(s) : j < i /\ Tail(s)[j] = "Trigger"
    BY DEF AckBefore
  <2>1. PICK j \in DOMAIN s : j < i + 1 /\ s[j] = "Trigger"
    BY <1>2 DEF AckBefore
  <2>2. j - 1 \in DOMAIN Tail(s) /\ Tail(s)[j - 1] = s[j]
    BY <1>1, <1>3, <2>1
  <2>3. j - 1 < i
    BY <1>1, <2>1
  <2> QED
    BY <2>1, <2>2, <2>3
<1>12. Holds(s, Head(s))
  BY <1>1, <1>9 DEF Holds
<1> QED
  BY <1>1, <1>4, <1>5, <1>6, <1>7, <1>8, <1>10, <1>11, <1>12

(* What one more does. *)
LEMMA AppendKeeps ==
  ASSUME NEW S, NEW s \in Seq(S), NEW x \in S
  PROVE  /\ Append(s, x) \in Seq(S)
         /\ Holds(Append(s, x), x)
         /\ \A y : Holds(s, y) => Holds(Append(s, x), y)
         /\ \A y : Holds(Append(s, x), y) => y = x \/ Holds(s, y)
         /\ Pcm(s) /\ x = "pcm" => Pcm(Append(s, x))
         /\ PcmAfter(s) /\ x = "pcm" => PcmAfter(Append(s, x))
         /\ ~Holds(s, "header") => PcmAfter(Append(s, x))
         /\ AckBefore(s) /\ (x = "header" => Holds(s, "Trigger")) =>
              AckBefore(Append(s, x))
<1> DEFINE t == Append(s, x)
<1>1. /\ t \in Seq(S) /\ Len(t) = Len(s) + 1 /\ Len(s) \in Nat
      /\ DOMAIN s = 1 .. Len(s) /\ DOMAIN t = 1 .. (Len(s) + 1)
      /\ t[Len(s) + 1] = x
      /\ \A i \in 1 .. Len(s) : t[i] = s[i]
  BY AppendProperties, LenProperties
<1>2. \A i \in DOMAIN s : i \in DOMAIN t /\ t[i] = s[i]
  BY <1>1
<1>3. \A i \in DOMAIN t : (i \in DOMAIN s /\ t[i] = s[i]) \/ (i = Len(s) + 1 /\ t[i] = x)
  BY <1>1
<1> HIDE DEF t
<1>4. Holds(t, x)
  BY <1>1 DEF Holds
<1>5. \A y : Holds(s, y) => Holds(t, y)
  BY <1>2 DEF Holds
<1>6. \A y : Holds(t, y) => y = x \/ Holds(s, y)
  BY <1>3 DEF Holds
<1>7. Pcm(s) /\ x = "pcm" => Pcm(t)
  BY <1>3 DEF Pcm
<1>8. PcmAfter(s) /\ x = "pcm" => PcmAfter(t)
  <2> SUFFICES ASSUME PcmAfter(s), x = "pcm", NEW i \in DOMAIN t, t[i] = "header",
                      NEW j \in DOMAIN t, j > i
               PROVE  t[j] = "pcm"
    BY DEF PcmAfter
  <2>1. i \in DOMAIN s /\ s[i] = "header"
    BY <1>3
  <2> QED
    BY <1>3, <2>1 DEF PcmAfter
<1>9. ~Holds(s, "header") => PcmAfter(t)
  <2> SUFFICES ASSUME ~Holds(s, "header"), NEW i \in DOMAIN t, t[i] = "header",
                      NEW j \in DOMAIN t, j > i
               PROVE  t[j] = "pcm"
    BY DEF PcmAfter
  <2>1. i = Len(s) + 1
    BY <1>3 DEF Holds
  <2>2. j <= Len(s) + 1
    BY <1>1
  <2> QED
    BY <1>1, <2>1, <2>2
<1>10. AckBefore(s) /\ (x = "header" => Holds(s, "Trigger")) => AckBefore(t)
  <2> SUFFICES ASSUME AckBefore(s), x = "header" => Holds(s, "Trigger"),
                      NEW i \in DOMAIN t, t[i] = "header"
               PROVE  \E j \in DOMAIN t : j < i /\ t[j] = "Trigger"
    BY DEF AckBefore
  <2>1. CASE i \in DOMAIN s /\ s[i] = "header"
    BY <1>2, <2>1 DEF AckBefore
  <2>2. CASE i = Len(s) + 1 /\ x = "header"
    <3>1. PICK j \in DOMAIN s : s[j] = "Trigger"
      BY <2>2 DEF Holds
    <3>2. j < i
      BY <1>1, <2>2
    <3> QED
      BY <1>2, <3>1, <3>2
  <2> QED
    BY <1>3, <2>1, <2>2
<1> QED
  BY <1>1, <1>4, <1>5, <1>6, <1>7, <1>8, <1>9, <1>10 DEF t

(* Adding an item that merges with the last. *)
LEMMA MergedKeeps ==
  ASSUME NEW S, NEW s \in Seq(S), NEW x \in S
  PROVE  /\ Merged(s, x) \in Seq(S)
         /\ Holds(Merged(s, x), x)
         /\ \A y : Holds(s, y) => Holds(Merged(s, x), y)
         /\ \A y : Holds(Merged(s, x), y) => y = x \/ Holds(s, y)
         /\ Pcm(s) /\ x = "pcm" => Pcm(Merged(s, x))
         /\ PcmAfter(s) /\ x = "pcm" => PcmAfter(Merged(s, x))
         /\ ~Holds(s, "header") => PcmAfter(Merged(s, x))
         /\ AckBefore(s) /\ (x = "header" => Holds(s, "Trigger")) => AckBefore(Merged(s, x))
<1>1. CASE s # << >> /\ s[Len(s)] = x
  <2>1. Merged(s, x) = s
    BY <1>1 DEF Merged
  <2>2. Len(s) \in DOMAIN s
    BY <1>1, EmptySeq, LenProperties
  <2>3. Holds(s, x)
    BY <1>1, <2>2 DEF Holds
  <2>4. ~Holds(s, "header") => PcmAfter(s)
    BY DEF Holds, PcmAfter
  <2> QED
    BY <2>1, <2>3, <2>4
<1>2. CASE ~(s # << >> /\ s[Len(s)] = x)
  <2>1. Merged(s, x) = Append(s, x)
    BY <1>2 DEF Merged
  <2> QED
    BY <2>1, AppendKeeps
<1> QED
  BY <1>1, <1>2
=============================================================================
