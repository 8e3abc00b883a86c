-------------------------- MODULE AudioPathProofs ---------------------------
(***************************************************************************)
(* The way of the audio from the board to the file: the in-place compaction*)
(* is right for every buffer length, whatever the compiler loads ahead; the*)
(* script finds the header behind whatever it begins with; and the file is *)
(* the capture, however the bytes are cut into chunks.                     *)
(***************************************************************************)
EXTENDS AudioPath, SequenceTheorems, TLAPS

(* What was loaded is what was captured, as what was stored is. *)
LoadedRight == \A j \in 0 .. loaded - 1 : regs[j] = 4 * j + 2 * slot + 1
StoredRight == \A i \in 0 .. stored - 1 : mem[i] = 4 * i + 2 * slot + 1

LoopInv == TypeOK /\ SourceIntact /\ LoadedRight /\ StoredRight

(* The half-word a frame is reduced to lies in the frame, and in memory.   *)
LEMMA UpperInFrame ==
  ASSUME NEW j \in Frames, slot \in Slots
  PROVE  /\ Upper(j) \in 4 * j .. 4 * j + 3
         /\ Upper(j) \in HalfWords
         /\ Upper(j) = 4 * j + 2 * slot + 1
  BY CompactionAssumption DEF Upper, Frames, HalfWords

(* A buffer that has just been filled: nothing loaded, nothing stored.     *)
Filled ==
  /\ mem = [a \in HalfWords |-> a] /\ regs = [j \in Frames |-> 0]
  /\ frames \in 0 .. MaxFrames /\ slot \in Slots
  /\ loaded = 0 /\ stored = 0

LEMMA FilledBuffer == Filled => LoopInv
  <1> SUFFICES ASSUME Filled PROVE LoopInv
    OBVIOUS
  <1> USE CompactionAssumption DEF Filled
  <1>1. TypeOK
    <2>1. mem \in [HalfWords -> HalfWords] /\ regs \in [Frames -> HalfWords \cup {0}]
      OBVIOUS
    <2> QED
      BY <2>1 DEF TypeOK
  <1>2. SourceIntact
    <2> SUFFICES ASSUME NEW j \in 0 .. frames - 1, NEW a \in 4 * j .. 4 * j + 3
                 PROVE  mem[a] = a
      BY DEF SourceIntact
    <2>1. a \in HalfWords
      BY DEF HalfWords
    <2> QED
      BY <2>1
  <1>3. LoadedRight /\ StoredRight
    BY DEF LoadedRight, StoredRight
  <1> QED
    BY <1>1, <1>2, <1>3 DEF LoopInv

LEMMA LoadStep == LoopInv /\ Load => LoopInv'
  <1> SUFFICES ASSUME LoopInv, Load PROVE LoopInv'
    OBVIOUS
  <1> USE CompactionAssumption
  <1>1. /\ loaded \in Frames /\ loaded \in Nat /\ slot \in Slots
        /\ loaded' = loaded + 1 /\ UNCHANGED <<mem, frames, slot, stored>>
        /\ regs' = [regs EXCEPT ![loaded] = mem[Upper(loaded)]]
    BY DEF LoopInv, TypeOK, Load, Frames
  <1>2. mem[Upper(loaded)] = 4 * loaded + 2 * slot + 1 /\ Upper(loaded) \in HalfWords
    <2>1. loaded \in loaded .. frames - 1
      BY <1>1 DEF LoopInv, TypeOK, Load
    <2>2. Upper(loaded) \in 4 * loaded .. 4 * loaded + 3
      BY <1>1, UpperInFrame
    <2>3. mem[Upper(loaded)] = Upper(loaded)
      BY <2>1, <2>2 DEF LoopInv, SourceIntact
    <2> QED
      BY <1>1, <2>3, UpperInFrame
  <1>3. TypeOK'
    <2>1. mem[Upper(loaded)] \in HalfWords
      BY <1>2 DEF LoopInv, TypeOK
    <2> QED
      BY <1>1, <2>1 DEF LoopInv, TypeOK, Load, Frames
  <1>4. SourceIntact'
    BY <1>1 DEF LoopInv, SourceIntact, TypeOK
  <1>5. LoadedRight'
    BY <1>1, <1>2 DEF LoopInv, LoadedRight, TypeOK, Frames
  <1>6. StoredRight'
    BY <1>1 DEF LoopInv, StoredRight
  <1> QED
    BY <1>3, <1>4, <1>5, <1>6 DEF LoopInv

LEMMA StoreStep == LoopInv /\ Store => LoopInv'
  <1> SUFFICES ASSUME LoopInv, Store PROVE LoopInv'
    OBVIOUS
  <1> USE CompactionAssumption
  <1>1. /\ stored \in Frames /\ stored \in 0 .. loaded - 1 /\ stored \in HalfWords
        /\ loaded \in Nat /\ stored \in Nat
        /\ stored' = stored + 1 /\ UNCHANGED <<frames, slot, loaded, regs>>
        /\ mem' = [mem EXCEPT ![stored] = regs[stored]]
    BY DEF LoopInv, TypeOK, Store, Place, Frames, HalfWords
  <1>2. regs[stored] = 4 * stored + 2 * slot + 1 /\ regs[stored] \in HalfWords
    <2>1. regs[stored] = 4 * stored + 2 * slot + 1
      BY <1>1 DEF LoopInv, LoadedRight
    <2> QED
      BY <2>1, <1>1 DEF LoopInv, TypeOK, HalfWords, Frames
  <1>3. TypeOK'
    BY <1>1, <1>2 DEF LoopInv, TypeOK
  <1>4. SourceIntact'
    (* A sample goes below the first frame that is still to be read.       *)
    <2> SUFFICES ASSUME NEW j \in loaded .. frames - 1, NEW a \in 4 * j .. 4 * j + 3
                 PROVE  mem'[a] = a
      BY <1>1 DEF SourceIntact
    <2>1. mem[a] = a
      BY DEF LoopInv, SourceIntact
    <2>2. a # stored
      BY <1>1 DEF LoopInv, TypeOK
    <2>3. a \in HalfWords
      BY <1>1 DEF LoopInv, TypeOK, HalfWords
    <2> QED
      BY <1>1, <2>1, <2>2, <2>3 DEF LoopInv, TypeOK
  <1>5. LoadedRight'
    BY <1>1 DEF LoopInv, LoadedRight
  <1>6. StoredRight'
    <2> SUFFICES ASSUME NEW i \in 0 .. stored PROVE mem'[i] = 4 * i + 2 * slot + 1
      BY <1>1 DEF StoredRight
    <2>1. CASE i = stored
      BY <2>1, <1>1, <1>2 DEF LoopInv, TypeOK
    <2>2. CASE i # stored
      <3>1. i \in 0 .. stored - 1 /\ i \in HalfWords
        BY <1>1, <2>2 DEF HalfWords
      <3> QED
        BY <3>1, <2>2, <1>1 DEF LoopInv, TypeOK, StoredRight
    <2> QED
      BY <2>1, <2>2
  <1> QED
    BY <1>3, <1>4, <1>5, <1>6 DEF LoopInv

LEMMA DoneStep == LoopInv /\ Done => LoopInv'
  <1> SUFFICES ASSUME LoopInv, Done PROVE LoopInv'
    OBVIOUS
  <1>1. Filled'
    BY DEF Filled, Done, LoopInv, TypeOK
  <1>2. Filled' => LoopInv'
    BY FilledBuffer, PTL
  <1> QED
    BY <1>1, <1>2

(* The loop invariant holds throughout. *)
THEOREM LoopIsRight == Spec => []LoopInv
  <1>1. LoopInv /\ UNCHANGED vars => LoopInv'
    BY DEF LoopInv, TypeOK, SourceIntact, LoadedRight, StoredRight, vars
  <1>2. Init => LoopInv
    BY FilledBuffer DEF Init, Filled
  <1> QED
    BY <1>1, <1>2, LoadStep, StoreStep, DoneStep, PTL DEF Spec, Next

(* For every number of frames and either slot, no frame is written over    *)
(* before it is read (uart/main/app_main.c 156-171).                       *)
THEOREM AlwaysSourceIntact == Spec => []SourceIntact
  BY LoopIsRight, PTL DEF LoopInv

(* ... and what is sent is the upper half of the chosen slot of each frame *)
(* (uart/main/app_main.c 150-175).                                         *)
THEOREM AlwaysCompacted == Spec => []Compacted
  <1>1. LoopInv => Compacted
    BY DEF LoopInv, StoredRight, Compacted
  <1> QED
    BY <1>1, LoopIsRight, PTL

(* The loop stays in the buffer (uart/main/app_main.c 166-172).            *)
THEOREM CompactionTypes == Spec => []TypeOK
  BY LoopIsRight, PTL DEF LoopInv

-----------------------------------------------------------------------------
(* The search for the header *)

(* The bytes in front of the rest of the header. *)
Bytes == {"aa", "01", "--", "ee", "ff", "c0"}

(* Where a whole header ends: the last byte of the magic comes only there. *)
OneHeader ==
  /\ wire \in Seq(Bytes) /\ Len(wire) >= Len(Parser!Start)
  /\ Parser!Latest(Len(wire)) = Parser!Start
  /\ \A n \in 1 .. Len(wire) : wire[n] = "c0" => n = Len(wire)

(* The script is where HeaderFound says, and has written nothing before it *)
(* is in the audio.                                                        *)
Searching ==
  /\ OneHeader /\ channels = 1 /\ pos \in Nat
  /\ pc \in {"scan", "header", "stream", "end"}
  /\ HeaderFound
  /\ pc \in {"scan", "header"} => out = << >> /\ pending = << >>

(* The places s holds are those that follow base. *)
Consecutive(s, base) == \A i \in 1 .. Len(s) : s[i] = base + i

(* What is written and what is left of a frame are, together, all that has *)
(* come, and no more has come than was sent.                               *)
Written ==
  /\ out \in Seq(Nat) /\ pending \in Seq(Nat)
  /\ Len(out) % 2 = 0 /\ Len(pending) < 2
  /\ Consecutive(out, Parser!HeaderEnd)
  /\ Consecutive(pending, Parser!HeaderEnd + Len(out))
  /\ pc = "stream" => pos = Parser!HeaderEnd + Len(out) + Len(pending)
  /\ Len(out) + Len(pending) <= 2 * Len(sent)

(* The samples sent are those of the capture. *)
SentRight ==
  /\ sent \in Seq(Nat)
  /\ \A k \in 1 .. Len(sent) : sent[k] = 4 * (k - 1) + 2 * slot + 1

PathInv == LoopInv /\ Searching /\ Written /\ SentRight

(* What stands where, in two sequences joined and in a part of one. *)
LEMMA Joined ==
  ASSUME NEW S, NEW s \in Seq(S), NEW t \in Seq(S)
  PROVE  /\ s \o t \in Seq(S) /\ Len(s \o t) = Len(s) + Len(t)
         /\ Len(s) \in Nat /\ Len(t) \in Nat
         /\ \A i \in 1 .. Len(s) : (s \o t)[i] = s[i]
         /\ \A i \in 1 .. Len(t) : (s \o t)[Len(s) + i] = t[i]
<1>1. Len(s) \in Nat /\ Len(t) \in Nat
  BY LenProperties
<1>2. /\ s \o t \in Seq(S) /\ Len(s \o t) = Len(s) + Len(t)
      /\ \A i \in 1 .. Len(s) + Len(t) :
           (s \o t)[i] = IF i <= Len(s) THEN s[i] ELSE t[i - Len(s)]
  BY ConcatProperties
<1>3. ASSUME NEW i \in 1 .. Len(t)
      PROVE  (s \o t)[Len(s) + i] = t[i]
  <2>1. Len(s) + i \in 1 .. Len(s) + Len(t) /\ ~(Len(s) + i <= Len(s)) /\ Len(s) + i - Len(s) = i
    BY <1>1
  <2> QED
    BY <1>2, <2>1
<1> QED
  BY <1>1, <1>2, <1>3

LEMMA Part ==
  ASSUME NEW S, NEW s \in Seq(S), NEW a \in Nat, NEW k \in Nat, a + k <= Len(s)
  PROVE  /\ SubSeq(s, a + 1, a + k) \in Seq(S) /\ Len(SubSeq(s, a + 1, a + k)) = k
         /\ \A i \in 1 .. k : SubSeq(s, a + 1, a + k)[i] = s[a + i]
<1>1. Len(s) \in Nat /\ \A i \in a + 1 .. a + k : s[i] \in S
  BY LenProperties, ElementOfSeq
<1>2. (a + k) - (a + 1) + 1 = k /\ (a + 1 <= a + k <=> 0 < k)
  OBVIOUS
<1> DEFINE part == SubSeq(s, a + 1, a + k)
<1>3. /\ part \in Seq(S)
      /\ Len(part) = IF a + 1 <= a + k THEN (a + k) - (a + 1) + 1 ELSE 0
      /\ \A i \in 1 .. (a + k) - (a + 1) + 1 : part[i] = s[(a + 1) + i - 1]
  BY <1>1, SubSeqProperties
<1> HIDE DEF part
<1>4. Len(part) = k
  BY <1>2, <1>3
<1>5. ASSUME NEW i \in 1 .. k
      PROVE  part[i] = s[a + i]
  <2>1. (a + 1) + i - 1 = a + i
    OBVIOUS
  <2> QED
    BY <1>2, <1>3, <2>1
<1> QED
  BY <1>3, <1>4, <1>5 DEF part

(* The last seven bytes of a header. *)
LEMMA StartOfHeader ==
  /\ Parser!Start \in Seq(Bytes) /\ Len(Parser!Start) = 7
  /\ Parser!Start[7] = "c0" /\ \A i \in 1 .. 6 : Parser!Start[i] # "c0"
<1> DEFINE sync  == <<"aa", "aa", "aa">>
           magic == <<"01", "ee", "ff", "c0">>
<1>1. sync \in Seq(Bytes) /\ Len(sync) = 3 /\ \A i \in 1 .. 3 : sync[i] = "aa"
  BY DEF Bytes
<1>2. magic \in Seq(Bytes) /\ Len(magic) = 4
  BY DEF Bytes
<1>3. magic[1] = "01" /\ magic[2] = "ee" /\ magic[3] = "ff" /\ magic[4] = "c0"
  OBVIOUS
<1>4. Parser!Start = sync \o magic
  BY DEF Parser!Start, Parser!Sync, Parser!Magic
<1> HIDE DEF sync, magic
<1> DEFINE both == sync \o magic
<1>5. /\ both \in Seq(Bytes) /\ Len(both) = Len(sync) + Len(magic)
      /\ \A i \in 1 .. Len(sync) : both[i] = sync[i]
      /\ \A i \in 1 .. Len(magic) : both[Len(sync) + i] = magic[i]
  <2>1. sync \in Seq(Bytes) /\ magic \in Seq(Bytes)
    BY <1>1, <1>2
  <2> QED
    BY <2>1, Joined
<1> HIDE DEF both
<1>6. /\ Len(both) = 7 /\ \A i \in 1 .. 3 : both[i] = "aa"
      /\ \A i \in 1 .. 4 : both[3 + i] = magic[i]
  BY <1>1, <1>2, <1>5
<1>7. both[4] = "01" /\ both[5] = "ee" /\ both[6] = "ff" /\ both[7] = "c0"
  BY <1>3, <1>6
<1>8. \A i \in 1 .. 6 : i \in 1 .. 3 \/ i = 4 \/ i = 5 \/ i = 6
  OBVIOUS
<1>9. \A i \in 1 .. 6 : both[i] # "c0"
  BY <1>6, <1>7, <1>8
<1> QED
  BY <1>4, <1>5, <1>6, <1>7, <1>9 DEF both

(* Noise has no such byte, hence one header ends in the wire, at its end. *)
LEMMA OneHeaderAtFirst ==
  ASSUME NEW noise \in Parser!Noise, wire = noise \o Parser!Start
  PROVE  OneHeader
<1>1. PICK n \in 0 .. MaxNoise : noise \in [1 .. n -> {"aa", "01", "--"}]
  BY DEF Parser!Noise
<1>2. n \in Nat
  BY <1>1, PathAssumption
<1>3. noise \in Seq(Bytes) /\ Len(noise) = n /\ \A i \in 1 .. n : noise[i] # "c0"
  <2>1. noise \in [1 .. n -> Bytes] /\ \A i \in 1 .. n : noise[i] # "c0"
    BY <1>1 DEF Bytes
  <2> QED
    BY <1>2, <2>1
<1>4. /\ wire \in Seq(Bytes) /\ Len(wire) = n + 7
      /\ \A i \in 1 .. n : wire[i] = noise[i]
      /\ \A i \in 1 .. 7 : wire[n + i] = Parser!Start[i]
  <2> DEFINE start == Parser!Start
  <2>1. start \in Seq(Bytes) /\ Len(start) = 7
    BY StartOfHeader
  <2> HIDE DEF start
  <2>2. /\ noise \o start \in Seq(Bytes) /\ Len(noise \o start) = Len(noise) + Len(start)
        /\ \A i \in 1 .. Len(noise) : (noise \o start)[i] = noise[i]
        /\ \A i \in 1 .. Len(start) : (noise \o start)[Len(noise) + i] = start[i]
    <3>1. noise \in Seq(Bytes) /\ start \in Seq(Bytes)
      BY <1>3, <2>1
    <3> QED
      BY <3>1, Joined
  <2>3. wire = noise \o start
    BY DEF start
  <2> QED
    BY <1>3, <2>1, <2>2, <2>3 DEF start
<1>5. ASSUME NEW i \in 1 .. Len(wire), wire[i] = "c0"
      PROVE  i = Len(wire)
  <2>1. i \in Nat /\ n < i /\ i <= n + 7
    BY <1>2, <1>3, <1>4, <1>5
  <2> DEFINE j == i - n
  <2>2. j \in 1 .. 7 /\ i = n + j
    BY <1>2, <2>1
  <2> HIDE DEF j
  <2>3. Parser!Start[j] = "c0"
    BY <1>4, <1>5, <2>2
  <2>4. j = 7
    BY <2>2, <2>3, StartOfHeader
  <2> QED
    BY <1>4, <2>2, <2>4
<1>6. Parser!Latest(Len(wire)) = Parser!Start
  <2>1. Len(wire) - Len(Parser!Start) + 1 = n + 1 /\ Len(wire) = n + 7
    BY <1>2, <1>4, StartOfHeader
  <2>2. Parser!Latest(Len(wire)) = SubSeq(wire, n + 1, n + 7)
    BY <2>1 DEF Parser!Latest
  <2> DEFINE latest == SubSeq(wire, n + 1, n + 7)
  <2>3. /\ latest \in Seq(Bytes) /\ Len(latest) = 7
        /\ \A i \in 1 .. 7 : latest[i] = wire[n + i]
    <3> DEFINE k == 7
    <3>1. wire \in Seq(Bytes) /\ n \in Nat /\ k \in Nat /\ n + k <= Len(wire)
      BY <1>2, <1>4
    <3> HIDE DEF k
    <3>2. /\ SubSeq(wire, n + 1, n + k) \in Seq(Bytes) /\ Len(SubSeq(wire, n + 1, n + k)) = k
          /\ \A i \in 1 .. k : SubSeq(wire, n + 1, n + k)[i] = wire[n + i]
      BY <3>1, Part
    <3> QED
      BY <3>2 DEF k
  <2> HIDE DEF latest
  <2>4. latest = Parser!Start
    <3> DEFINE start == Parser!Start
    <3>1. start \in Seq(Bytes) /\ Len(latest) = Len(start)
      BY <2>3, StartOfHeader
    <3>2. \A i \in 1 .. Len(latest) : latest[i] = start[i]
      BY <1>4, <2>3
    <3> HIDE DEF start
    <3>3. latest = start
      BY <2>3, <3>1, <3>2, SeqEqual
    <3> QED
      BY <3>3 DEF start
  <2> QED
    BY <2>2, <2>4 DEF latest
<1>7. Len(wire) >= Len(Parser!Start)
  BY <1>2, <1>4, StartOfHeader
<1> QED
  BY <1>4, <1>5, <1>6, <1>7, Zenon DEF OneHeader

(* The search stops there and nowhere before. *)
LEMMA FoundAtItsEnd ==
  ASSUME OneHeader, NEW n \in Nat, n <= Len(wire)
  PROVE  Parser!Found(n) <=> n = Len(wire)
<1>1. Len(wire) \in Nat /\ Len(wire) >= 7
  BY LenProperties, StartOfHeader DEF OneHeader
<1>2. ASSUME Parser!Found(n)
      PROVE  n = Len(wire)
  <2>1. n >= 7 /\ SubSeq(wire, n - 6, n) = Parser!Start
    BY <1>1, <1>2, StartOfHeader DEF Parser!Found, Parser!Latest
  <2>2. SubSeq(wire, n - 6, n)[7] = wire[n]
    BY <1>1, <2>1, SubSeqProperties DEF OneHeader
  <2> QED
    BY <1>1, <2>1, <2>2, StartOfHeader DEF OneHeader
<1>3. ASSUME n = Len(wire)
      PROVE  Parser!Found(n)
  BY <1>3 DEF Parser!Found, OneHeader
<1> QED
  BY <1>2, <1>3

(* The rest of the header lies behind it. *)
LEMMA EndOfHeader ==
  ASSUME OneHeader
  PROVE  /\ Len(wire) \in Nat /\ Len(wire) >= 7
         /\ Parser!HeaderEnd \in Nat /\ Parser!HeaderEnd = Len(wire) + 7
BY LenProperties, StartOfHeader DEF OneHeader, Parser!HeaderEnd, Parser!TailSize

-----------------------------------------------------------------------------
(* The cut into chunks *)

(* The bytes t follow those of s: what is moved from the front of t to the *)
(* end of s follows, and so does the rest.                                 *)
LEMMA CutKeepsPlaces ==
  ASSUME NEW s \in Seq(Nat), NEW t \in Seq(Nat), NEW base \in Nat, NEW u \in 0 .. Len(t),
         Consecutive(s, base), Consecutive(t, base + Len(s))
  PROVE  /\ s \o SubSeq(t, 1, u) \in Seq(Nat) /\ SubSeq(t, u + 1, Len(t)) \in Seq(Nat)
         /\ Len(s \o SubSeq(t, 1, u)) = Len(s) + u
         /\ Len(SubSeq(t, u + 1, Len(t))) = Len(t) - u
         /\ Consecutive(s \o SubSeq(t, 1, u), base)
         /\ Consecutive(SubSeq(t, u + 1, Len(t)), base + (Len(s) + u))
<1>1. Len(s) \in Nat /\ Len(t) \in Nat /\ u \in Nat /\ Len(t) - u \in Nat
      /\ u + (Len(t) - u) = Len(t) /\ 0 + u = u /\ 0 + 1 = 1
  BY LenProperties
<1> DEFINE front == SubSeq(t, 1, u)
           back  == SubSeq(t, u + 1, Len(t))
<1>2. front \in Seq(Nat) /\ Len(front) = u /\ \A i \in 1 .. u : front[i] = t[i]
  <2>1. /\ SubSeq(t, 0 + 1, 0 + u) \in Seq(Nat) /\ Len(SubSeq(t, 0 + 1, 0 + u)) = u
        /\ \A i \in 1 .. u : SubSeq(t, 0 + 1, 0 + u)[i] = t[0 + i]
    BY <1>1, Part
  <2> QED
    BY <1>1, <2>1
<1>3. /\ back \in Seq(Nat) /\ Len(back) = Len(t) - u
      /\ \A i \in 1 .. Len(t) - u : back[i] = t[u + i]
  <2> DEFINE k == Len(t) - u
  <2>1. k \in Nat /\ u + k = Len(t)
    BY <1>1
  <2> HIDE DEF k
  <2>2. /\ SubSeq(t, u + 1, u + k) \in Seq(Nat) /\ Len(SubSeq(t, u + 1, u + k)) = k
        /\ \A i \in 1 .. k : SubSeq(t, u + 1, u + k)[i] = t[u + i]
    BY <1>1, <2>1, Part
  <2> QED
    BY <2>1, <2>2 DEF k
<1> HIDE DEF front, back
<1>4. /\ s \o front \in Seq(Nat) /\ Len(s \o front) = Len(s) + u
      /\ \A i \in 1 .. Len(s) : (s \o front)[i] = s[i]
      /\ \A i \in 1 .. u : (s \o front)[Len(s) + i] = front[i]
  <2>1. /\ s \o front \in Seq(Nat) /\ Len(s \o front) = Len(s) + Len(front)
        /\ \A i \in 1 .. Len(s) : (s \o front)[i] = s[i]
        /\ \A i \in 1 .. Len(front) : (s \o front)[Len(s) + i] = front[i]
    <3>1. front \in Seq(Nat)
      BY <1>2
    <3> QED
      BY <3>1, Joined
  <2> QED
    BY <1>2, <2>1
<1>5. Consecutive(s \o front, base)
  <2> SUFFICES ASSUME NEW i \in 1 .. Len(s) + u
               PROVE  (s \o front)[i] = base + i
    BY <1>4 DEF Consecutive
  <2>1. CASE i <= Len(s)
    BY <1>1, <1>4, <2>1 DEF Consecutive
  <2>2. CASE i > Len(s)
    <3> DEFINE j == i - Len(s)
    <3>1. j \in 1 .. u /\ j \in 1 .. Len(t) /\ i = Len(s) + j
      BY <1>1, <2>2
    <3> HIDE DEF j
    <3>2. (s \o front)[i] = t[j]
      BY <1>2, <1>4, <3>1
    <3>3. t[j] = base + Len(s) + j
      BY <3>1 DEF Consecutive
    <3> QED
      BY <1>1, <3>1, <3>2, <3>3
  <2>3. i <= Len(s) \/ i > Len(s)
    BY <1>1
  <2> QED
    BY <2>1, <2>2, <2>3, Zenon
<1>6. Consecutive(back, base + (Len(s) + u))
  <2> SUFFICES ASSUME NEW i \in 1 .. Len(t) - u
               PROVE  back[i] = base + (Len(s) + u) + i
    BY <1>3 DEF Consecutive
  <2>1. u + i \in 1 .. Len(t)
    BY <1>1
  <2>2. t[u + i] = base + Len(s) + (u + i)
    BY <2>1 DEF Consecutive
  <2> QED
    BY <1>1, <1>3, <2>2
<1> QED
  BY <1>2, <1>3, <1>4, <1>5, <1>6 DEF front, back

-----------------------------------------------------------------------------
(* The board *)

LEMMA SameScript ==
  ASSUME UNCHANGED scriptVars
  PROVE  /\ Searching => Searching' /\ Parser!HeaderEnd' = Parser!HeaderEnd
         /\ Written /\ Len(sent)' >= Len(sent) /\ Len(sent) \in Nat /\ Len(sent)' \in Nat
              => Written'
<1> USE DEF scriptVars
<1>1. Parser!HeaderEnd' = Parser!HeaderEnd
  BY DEF Parser!HeaderEnd
<1>2. Searching => Searching'
  BY <1>1 DEF Searching, OneHeader, HeaderFound, Parser!HeaderFound, Parser!Latest
<1>3. ASSUME Written, Len(sent)' >= Len(sent), Len(sent) \in Nat, Len(sent)' \in Nat
      PROVE  Written'
  <2>1. Len(out) + Len(pending) <= 2 * Len(sent)'
    <3>1. Len(out) \in Nat /\ Len(pending) \in Nat
      BY <1>3, LenProperties DEF Written
    <3> QED
      BY <1>3, <3>1 DEF Written
  <2> QED
    BY <1>1, <1>3, <2>1 DEF Written, Consecutive
<1> QED
  BY <1>1, <1>2, <1>3

LEMMA BoardKeeps ==
  ASSUME PathInv, Board
  PROVE  PathInv'
<1> USE DEF PathInv
<1>1. LoopInv'
  BY LoadStep, StoreStep, DoneStep DEF Board, Send
<1>2. UNCHANGED scriptVars
  BY DEF Board
<1>3. sent \in Seq(Nat) /\ Len(sent) \in Nat
  BY LenProperties DEF SentRight
<1>4. CASE (Load \/ Store) /\ UNCHANGED sent
  <2>1. slot' = slot
    BY <1>4 DEF Load, Store
  <2>2. SentRight'
    BY <1>4, <2>1 DEF SentRight
  <2>3. Len(sent)' = Len(sent)
    BY <1>4
  <2> QED
    BY <1>1, <1>2, <1>3, <2>2, <2>3, SameScript
<1>5. CASE Send
  <2>1. /\ stored = frames /\ slot' = slot /\ frames \in Nat /\ slot \in {0, 1}
        /\ sent' = sent \o [i \in 1 .. frames |-> 4 * Len(sent) + mem[i - 1]]
    BY <1>5, CompactionAssumption DEF Send, Done, Captured, LoopInv, TypeOK
  <2> DEFINE more == [i \in 1 .. frames |-> 4 * Len(sent) + mem[i - 1]]
  <2>2. ASSUME NEW i \in 1 .. frames
        PROVE  /\ more[i] = 4 * (Len(sent) + i - 1) + 2 * slot + 1
               /\ more[i] \in Nat
    <3>1. i - 1 \in 0 .. stored - 1
      BY <2>1
    <3>2. mem[i - 1] = 4 * (i - 1) + 2 * slot + 1
      BY <3>1 DEF LoopInv, StoredRight
    <3> QED
      BY <1>3, <2>1, <3>2
  <2>3. more \in Seq(Nat) /\ Len(more) = frames
    BY <2>1, <2>2
  <2> HIDE DEF more
  <2>4. /\ sent \o more \in Seq(Nat) /\ Len(sent \o more) = Len(sent) + Len(more)
        /\ \A i \in 1 .. Len(sent) : (sent \o more)[i] = sent[i]
        /\ \A i \in 1 .. Len(more) : (sent \o more)[Len(sent) + i] = more[i]
    <3>1. more \in Seq(Nat)
      BY <2>3
    <3> QED
      BY <1>3, <3>1, Joined
  <2>5. sent' = sent \o more
    BY <2>1 DEF more
  <2>6. sent' \in Seq(Nat) /\ Len(sent') = Len(sent) + frames
    BY <2>3, <2>4, <2>5
  <2>7. ASSUME NEW k \in 1 .. Len(sent')
        PROVE  sent'[k] = 4 * (k - 1) + 2 * slot + 1
    <3>1. CASE k <= Len(sent)
      <4>1. k \in 1 .. Len(sent)
        BY <1>3, <2>1, <2>6, <3>1
      <4> QED
        BY <2>4, <2>5, <4>1 DEF SentRight
    <3>2. CASE k > Len(sent)
      <4> DEFINE i == k - Len(sent)
      <4>1. i \in 1 .. frames /\ k = Len(sent) + i
        BY <1>3, <2>1, <2>6, <3>2
      <4> HIDE DEF i
      <4>2. sent'[k] = more[i]
        BY <2>3, <2>4, <2>5, <4>1
      <4> QED
        BY <2>2, <4>1, <4>2
    <3>3. k <= Len(sent) \/ k > Len(sent)
      BY <1>3, <2>1, <2>6
    <3> QED
      BY <3>1, <3>2, <3>3, Zenon
  <2>8. SentRight'
    BY <2>1, <2>6, <2>7 DEF SentRight
  <2>9. Len(sent)' >= Len(sent) /\ Len(sent)' \in Nat
    BY <1>3, <2>1, <2>6
  <2> QED
    BY <1>1, <1>2, <1>3, <2>8, <2>9, SameScript
<1> QED
  BY <1>4, <1>5 DEF Board

-----------------------------------------------------------------------------
(* The script *)

(* Until the audio begins nothing is written, whatever is read. *)
BeforeAudio ==
  /\ OneHeader /\ out = << >> /\ pending = << >> /\ sent \in Seq(Nat)
  /\ pc = "stream" => pos = Parser!HeaderEnd

LEMMA NothingWritten == BeforeAudio => Written
<1> SUFFICES ASSUME BeforeAudio
             PROVE  Written
  OBVIOUS
<1>1. << >> \in Seq(Nat) /\ Len(<< >>) = 0 /\ Len(sent) \in Nat
  BY EmptySeq, LenProperties DEF BeforeAudio
<1>2. Parser!HeaderEnd \in Nat
  BY EndOfHeader DEF BeforeAudio
<1> QED
  BY <1>1, <1>2 DEF Written, Consecutive, BeforeAudio

LEMMA ScanKeeps ==
  ASSUME PathInv, Parser!Scan, UNCHANGED boardVars
  PROVE  Searching' /\ Written'
<1> USE DEF PathInv
<1>1. /\ pc = "scan" /\ pos < Len(wire) /\ pos' = pos + 1
      /\ pc' = IF Parser!Found(pos + 1) THEN "header" ELSE "scan"
      /\ UNCHANGED <<wire, channels, pending, out, sent>>
  BY DEF Parser!Scan, boardVars
<1>2. /\ OneHeader /\ OneHeader' /\ pos \in Nat /\ pos' \in Nat
      /\ out' = << >> /\ pending' = << >> /\ sent' \in Seq(Nat)
  BY <1>1 DEF Searching, OneHeader, Parser!Latest, SentRight
<1>3. /\ Len(wire) \in Nat /\ Parser!HeaderEnd = Len(wire) + 7
      /\ Parser!HeaderEnd' = Parser!HeaderEnd
  BY <1>1, <1>2, EndOfHeader DEF Parser!HeaderEnd
<1>4. pc' = IF pos' = Len(wire) THEN "header" ELSE "scan"
  BY <1>1, <1>2, <1>3, FoundAtItsEnd
<1>5. HeaderFound'
  BY <1>1, <1>2, <1>3, <1>4 DEF HeaderFound, Parser!HeaderFound
<1>6. Searching'
  BY <1>1, <1>2, <1>4, <1>5 DEF Searching
<1>7. BeforeAudio'
  BY <1>2, <1>4 DEF BeforeAudio
<1>8. Written'
  BY <1>7, NothingWritten, PTL
<1> QED
  BY <1>6, <1>8

LEMMA ReadHeaderKeeps ==
  ASSUME PathInv, NEW n \in 1 .. Parser!TailSize, Parser!ReadHeader(n), UNCHANGED boardVars
  PROVE  Searching' /\ Written'
<1> USE DEF PathInv
<1>1. /\ pc = "header" /\ n <= Parser!HeaderEnd - pos /\ pos' = pos + n
      /\ pc' = IF n = Parser!HeaderEnd - pos THEN "stream" ELSE "header"
      /\ UNCHANGED <<wire, channels, pending, out, sent>>
  BY DEF Parser!ReadHeader, Parser!Missing, boardVars
<1>2. /\ OneHeader /\ OneHeader' /\ pos \in Nat /\ n \in Nat /\ n >= 1
      /\ out' = << >> /\ pending' = << >> /\ sent' \in Seq(Nat)
  BY <1>1 DEF Searching, OneHeader, Parser!Latest, SentRight, Parser!TailSize
<1>3. /\ Len(wire) \in Nat /\ Parser!HeaderEnd = Len(wire) + 7 /\ Parser!HeaderEnd \in Nat
      /\ Parser!HeaderEnd' = Parser!HeaderEnd /\ pos' \in Nat
  BY <1>1, <1>2, EndOfHeader DEF Parser!HeaderEnd
<1>4. pos >= Len(wire)
  BY <1>1, <1>3 DEF Searching, HeaderFound, Parser!HeaderFound
<1>5. /\ pc' \in {"header", "stream"}
      /\ pc' = "header" => pos' < Parser!HeaderEnd /\ pos' >= Len(wire)
      /\ pc' = "stream" => pos' = Parser!HeaderEnd
  BY <1>1, <1>2, <1>3, <1>4
<1>6. HeaderFound'
  BY <1>1, <1>3, <1>5 DEF HeaderFound, Parser!HeaderFound
<1>7. Searching'
  BY <1>1, <1>2, <1>3, <1>5, <1>6 DEF Searching
<1>8. BeforeAudio'
  BY <1>2, <1>3, <1>5 DEF BeforeAudio
<1>9. Written'
  BY <1>8, NothingWritten, PTL
<1> QED
  BY <1>7, <1>9

(* TimeoutError, and Ctrl+C. *)
LEMMA EndKeeps ==
  ASSUME PathInv, Parser!Fail \/ Parser!Interrupt, UNCHANGED boardVars
  PROVE  Searching' /\ Written'
<1> USE DEF PathInv
<1>1. pc' = "end" /\ UNCHANGED <<wire, channels, pos, pending, out, sent>>
  BY DEF Parser!Fail, Parser!Interrupt, boardVars
<1>2. Searching'
  BY <1>1 DEF Searching, OneHeader, HeaderFound, Parser!HeaderFound, Parser!Latest
<1>3. Written'
  BY <1>1 DEF Written, Consecutive, Parser!HeaderEnd
<1> QED
  BY <1>2, <1>3

(* The largest even number within m. *)
LEMMA EvenPart ==
  ASSUME NEW m \in Nat
  PROVE  /\ m % 2 \in {0, 1} /\ m - (m % 2) \in 0 .. m
         /\ (m - (m % 2)) % 2 = 0
OBVIOUS

(* A chunk: the frames it completes are written, the rest is kept. *)
LEMMA StreamKeeps ==
  ASSUME PathInv, NEW n \in Nat, StreamSent(n), UNCHANGED boardVars
  PROVE  Searching' /\ Written'
<1> USE DEF PathInv
<1> DEFINE bytes == pending \o [i \in 1 .. n |-> pos + i]
           base  == Parser!HeaderEnd
           m     == Len(pending) + n
           u     == m - (m % 2)
<1>1. /\ pc = "stream" /\ pos + n <= base + 2 * Len(sent) /\ pos' = pos + n
      /\ out' = out \o SubSeq(bytes, 1, Parser!Usable(Len(bytes)))
      /\ pending' = SubSeq(bytes, Parser!Usable(Len(bytes)) + 1, Len(bytes))
      /\ UNCHANGED <<wire, channels, pc, sent>>
  BY DEF StreamSent, BytesSent, Parser!Stream, Parser!Rest, boardVars
<1>2. /\ OneHeader /\ OneHeader' /\ pos \in Nat /\ channels = 1
      /\ out \in Seq(Nat) /\ pending \in Seq(Nat)
  BY <1>1 DEF Searching, OneHeader, Parser!Latest, Written
<1>3. /\ base \in Nat /\ base' = base /\ Len(out) \in Nat /\ Len(pending) \in Nat
      /\ m \in Nat /\ Len(sent) \in Nat
  BY <1>1, <1>2, EndOfHeader, LenProperties DEF Parser!HeaderEnd, SentRight
<1>4. pos = base + Len(out) + Len(pending)
  BY <1>1 DEF Written
<1> HIDE DEF base
<1>5. bytes \in Seq(Nat) /\ Len(bytes) = m /\ Consecutive(bytes, base + Len(out))
  <2> DEFINE new == [i \in 1 .. n |-> pos + i]
  <2>1. new \in Seq(Nat) /\ Len(new) = n /\ \A i \in 1 .. n : new[i] = pos + i
    BY <1>2
  <2> HIDE DEF new
  <2>2. /\ pending \o new \in Seq(Nat) /\ Len(pending \o new) = Len(pending) + Len(new)
        /\ \A i \in 1 .. Len(pending) : (pending \o new)[i] = pending[i]
        /\ \A i \in 1 .. Len(new) : (pending \o new)[Len(pending) + i] = new[i]
    <3>1. new \in Seq(Nat)
      BY <2>1
    <3> QED
      BY <1>2, <3>1, Joined
  <2>3. ASSUME NEW i \in 1 .. m
        PROVE  (pending \o new)[i] = base + Len(out) + i
    <3>1. CASE i <= Len(pending)
      <4>1. i \in 1 .. Len(pending)
        BY <1>3, <3>1
      <4> QED
        BY <2>2, <4>1 DEF Written, Consecutive, base
    <3>2. CASE i > Len(pending)
      <4> DEFINE j == i - Len(pending)
      <4>1. j \in 1 .. n /\ i = Len(pending) + j
        BY <1>3, <3>2
      <4> HIDE DEF j
      <4>2. (pending \o new)[i] = pos + j
        BY <2>1, <2>2, <4>1
      <4> QED
        BY <1>3, <1>4, <4>1, <4>2
    <3>3. i <= Len(pending) \/ i > Len(pending)
      BY <1>3
    <3> QED
      BY <3>1, <3>2, <3>3, Zenon
  <2>4. bytes = pending \o new
    BY DEF new
  <2>5. Len(bytes) = m
    BY <2>1, <2>2, <2>4
  <2> QED
    BY <2>2, <2>3, <2>4, <2>5 DEF Consecutive
<1> HIDE DEF bytes
<1>6. Parser!Usable(Len(bytes)) = u
  <2>1. Parser!FrameBytes = 2
    BY <1>2 DEF Parser!FrameBytes
  <2> HIDE DEF m
  <2>2. Parser!Usable(m) = m - (m % 2)
    BY <2>1 DEF Parser!Usable
  <2> QED
    BY <1>5, <2>2
<1>7. u \in 0 .. m /\ u % 2 = 0 /\ m - u < 2 /\ u \in Nat /\ m - u \in Nat
  <2> HIDE DEF m
  <2>1. m % 2 \in {0, 1} /\ u \in 0 .. m /\ u % 2 = 0
    BY <1>3, EvenPart
  <2> QED
    BY <1>3, <2>1
<1> HIDE DEF m, u
<1>8. /\ out' \in Seq(Nat) /\ pending' \in Seq(Nat)
      /\ Len(out') = Len(out) + u /\ Len(pending') = m - u
      /\ Consecutive(out', base) /\ Consecutive(pending', base + (Len(out) + u))
  <2>1. Consecutive(out, base)
    BY DEF Written, base
  <2>2. u \in 0 .. Len(bytes)
    BY <1>5, <1>7
  <2>3. out' = out \o SubSeq(bytes, 1, u) /\ pending' = SubSeq(bytes, u + 1, Len(bytes))
    BY <1>1, <1>6
  <2> DEFINE before == out \o SubSeq(bytes, 1, u)
             behind == SubSeq(bytes, u + 1, Len(bytes))
  <2>4. /\ before \in Seq(Nat) /\ behind \in Seq(Nat)
        /\ Len(before) = Len(out) + u /\ Len(behind) = Len(bytes) - u
        /\ Consecutive(before, base) /\ Consecutive(behind, base + (Len(out) + u))
    BY <1>2, <1>3, <1>5, <2>1, <2>2, CutKeepsPlaces
  <2> HIDE DEF before, behind
  <2>5. out' = before /\ pending' = behind
    BY <2>3 DEF before, behind
  <2> QED
    BY <1>5, <2>4, <2>5
<1>9. Searching'
  <2>1. pos' \in Nat /\ pos' >= base'
    BY <1>1, <1>2, <1>3, <1>4
  <2>2. HeaderFound'
    BY <1>1, <2>1 DEF HeaderFound, Parser!HeaderFound, base
  <2> QED
    BY <1>1, <1>2, <2>1, <2>2 DEF Searching
<1>10. Written'
  <2> DEFINE a == Len(out')
             b == Len(pending')
  <2>1. a = Len(out) + u /\ b = m - u /\ m = Len(pending) + n
    BY <1>8 DEF m
  <2> HIDE DEF a, b
  <2>2. a \in Nat /\ b \in Nat /\ b < 2 /\ a % 2 = 0
    <3>1. Len(out) % 2 = 0
      BY DEF Written
    <3> QED
      BY <1>3, <1>7, <2>1, <3>1
  <2>3. pos' = base + a + b
    BY <1>1, <1>2, <1>3, <1>4, <1>7, <2>1
  <2>4. a + b <= 2 * Len(sent)
    BY <1>1, <1>2, <1>3, <1>4, <1>7, <2>1
  <2>5. sent' = sent /\ pc' = pc
    BY <1>1
  <2>6. Consecutive(out', base') /\ Consecutive(pending', base' + Len(out'))
    BY <1>3, <1>8
  <2> QED
    BY <1>3, <1>8, <2>2, <2>3, <2>4, <2>5, <2>6 DEF Written, base, Consecutive, a, b
<1> QED
  BY <1>9, <1>10

LEMMA ScriptKeeps ==
  ASSUME PathInv, Script
  PROVE  PathInv'
<1> USE DEF PathInv
<1>1. UNCHANGED boardVars
  BY DEF Script
<1>2. LoopInv' /\ SentRight'
  BY <1>1 DEF boardVars, LoopInv, TypeOK, SourceIntact, LoadedRight, StoredRight, SentRight
<1>3. CASE Parser!Scan
  BY <1>1, <1>2, <1>3, ScanKeeps
<1>4. CASE Parser!Fail \/ Parser!Interrupt
  BY <1>1, <1>2, <1>4, EndKeeps
<1>5. ASSUME NEW n \in 1 .. Parser!TailSize, Parser!ReadHeader(n)
      PROVE  PathInv'
  BY <1>1, <1>2, <1>5, ReadHeaderKeeps
<1>6. ASSUME NEW n \in 1 .. Chunk, StreamSent(n)
      PROVE  PathInv'
  <2>1. n \in Nat
    BY PathAssumption
  <2> QED
    BY <1>1, <1>2, <1>6, <2>1, StreamKeeps
<1> QED
  BY <1>3, <1>4, <1>5, <1>6 DEF Script

LEMMA InitPath ==
  ASSUME PathInit
  PROVE  PathInv
<1>1. LoopInv
  BY FilledBuffer DEF PathInit, Init, Filled
<1>2. /\ channels = 1 /\ sent = << >> /\ pc = "scan" /\ pos = 0
      /\ pending = << >> /\ out = << >>
      /\ wire \in {noise \o Parser!Start : noise \in Parser!Noise}
  BY DEF PathInit, Parser!Init
<1>3. OneHeader
  BY <1>2, OneHeaderAtFirst
<1>4. SentRight
  BY <1>2, EmptySeq DEF SentRight
<1>5. Searching
  BY <1>2, <1>3, EndOfHeader DEF Searching, HeaderFound, Parser!HeaderFound
<1>6. Written
  BY <1>2, <1>3, <1>4, NothingWritten DEF BeforeAudio, SentRight
<1> QED
  BY <1>1, <1>4, <1>5, <1>6 DEF PathInv

LEMMA PathSafe == PathSpec => []PathInv
<1>1. PathInit => PathInv
  BY InitPath
<1>2. PathInv /\ [PathNext]_<<boardVars, scriptVars>> => PathInv'
  <2> SUFFICES ASSUME PathInv, [PathNext]_<<boardVars, scriptVars>>
               PROVE  PathInv'
    OBVIOUS
  <2>1. CASE Board
    BY <2>1, BoardKeeps
  <2>2. CASE Script
    BY <2>2, ScriptKeeps
  <2>3. CASE UNCHANGED <<boardVars, scriptVars>>
    <3>1. UNCHANGED boardVars /\ UNCHANGED scriptVars
      BY <2>3
    <3>2. LoopInv' /\ SentRight' /\ Len(sent)' = Len(sent) /\ Len(sent) \in Nat
      BY <3>1, LenProperties
      DEF PathInv, boardVars, LoopInv, TypeOK, SourceIntact, LoadedRight, StoredRight, SentRight
    <3> QED
      BY <3>1, <3>2, SameScript DEF PathInv
  <2> QED
    BY <2>1, <2>2, <2>3 DEF PathNext
<1> QED
  BY <1>1, <1>2, PTL DEF PathSpec

(* Also with the script behind it, no frame is written over before it is   *)
(* read (uart/main/app_main.c 156-171).                                    *)
THEOREM PathSourceIntact == PathSpec => []SourceIntact
<1>1. PathInv => SourceIntact
  BY DEF PathInv, LoopInv
<1> QED
  BY <1>1, PathSafe, PTL

(* For every noise without a whole header, the search ends behind the      *)
(* magic, and the header is read to its end (mic_audio_rcv.py 79-115).     *)
THEOREM AlwaysHeaderFound == PathSpec => []HeaderFound
<1>1. PathInv => HeaderFound
  BY DEF PathInv, Searching
<1> QED
  BY <1>1, PathSafe, PTL

(* The k-th sample of the file is the upper half of the chosen slot of the *)
(* k-th frame read, for every buffer, chunk and length of the recording    *)
(* (app_main.c 140-175, mic_audio_rcv.py 101-175).                         *)
THEOREM AlwaysFileIsCapture == PathSpec => []FileIsCapture
<1>1. PathInv => FileIsCapture
  <2> SUFFICES ASSUME PathInv
               PROVE  FileIsCapture
    OBVIOUS
  <2> USE DEF PathInv
  <2>1. /\ Parser!HeaderEnd \in Nat /\ Len(out) \in Nat /\ Len(pending) \in Nat
        /\ Len(sent) \in Nat
    BY EndOfHeader, LenProperties DEF Searching, Written, SentRight
  <2>2. Parser!WholeFrames
    <3>1. Parser!FrameBytes = 2
      BY DEF Searching, Parser!FrameBytes
    <3>2. Len(out) % 2 = 0
      BY DEF Written
    <3>3. pc = "stream" => pos < Parser!HeaderEnd + Len(out) + 2
      BY <2>1 DEF Written
    <3> QED
      BY <3>1, <3>2, <3>3 DEF Parser!WholeFrames
  <2>3. ASSUME NEW k \in 1 .. Len(out) \div 2
        PROVE  /\ out[2 * k - 1] = Parser!HeaderEnd + (2 * k - 1)
               /\ out[2 * k] = Parser!HeaderEnd + 2 * k
               /\ sent[k] = 4 * (k - 1) + 2 * slot + 1
    <3>1. 2 * k - 1 \in 1 .. Len(out) /\ 2 * k \in 1 .. Len(out)
      BY <2>1
    <3>2. k \in 1 .. Len(sent)
      BY <2>1, <3>1 DEF Written
    <3> QED
      BY <3>1, <3>2 DEF Written, Consecutive, SentRight
  <2>4. ASSUME NEW k \in 1 .. Len(out) \div 2
        PROVE  LET low  == out[2 * k - 1] - Parser!HeaderEnd
                   high == out[2 * k] - Parser!HeaderEnd IN
               /\ high = low + 1 /\ high % 2 = 0
               /\ sent[high \div 2] = 4 * (k - 1) + 2 * slot + 1
    <3>1. k \in Nat
      BY <2>1
    <3>2. /\ out[2 * k - 1] - Parser!HeaderEnd = 2 * k - 1
          /\ out[2 * k] - Parser!HeaderEnd = 2 * k
      BY <2>1, <2>3, <3>1
    <3>3. (2 * k) % 2 = 0 /\ (2 * k) \div 2 = k
      BY <3>1
    <3> QED
      BY <2>3, <3>1, <3>2, <3>3
  <2> QED
    BY <2>2, <2>4 DEF FileIsCapture
<1> QED
  BY <1>1, PathSafe, PTL
=============================================================================
