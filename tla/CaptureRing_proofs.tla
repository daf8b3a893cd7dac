------------------------- MODULE CaptureRing_proofs -------------------------
(* For every number of CPUs, size of the ring and set of frames: slots are *)
(* exclusive, and what the application is handed is what was captured.     *)
EXTENDS CaptureRing, SequenceTheorems, TLAPS

(* Two positions less than one turn of the ring apart use different slots. *)
LEMMA SlotsDiffer ==
  ASSUME NEW m \in Nat, NEW n \in Nat, m < n, n < m + Capacity
  PROVE  SlotOf(m) # SlotOf(n)
<1> DEFINE j == m \div Capacity
           k == n \div Capacity
<1>1. Capacity \in Nat /\ Capacity > 0
  BY RingAssumption
<1>2. j \in Int /\ k \in Int
  BY <1>1
<1>3. /\ m = Capacity * j + (m % Capacity)
      /\ n = Capacity * k + (n % Capacity)
  BY <1>1
<1>4. SUFFICES ASSUME m % Capacity = n % Capacity PROVE FALSE
  BY DEF SlotOf
<1>5. n - m = Capacity * (k - j)
  <2> HIDE DEF j, k
  <2> QED
    BY <1>1, <1>2, <1>3, <1>4
<1>6. CASE k - j <= 0
  <2> HIDE DEF j, k
  <2>1. Capacity * (k - j) <= 0
    BY <1>1, <1>2, <1>6
  <2> QED
    BY <1>5, <2>1
<1>7. CASE k - j >= 1
  <2> HIDE DEF j, k
  <2>1. Capacity * (k - j) >= Capacity
    BY <1>1, <1>2, <1>7
  <2> QED
    BY <1>5, <2>1, <1>1
<1> QED
  BY <1>2, <1>6, <1>7

LEMMA SlotInRing ==
  ASSUME NEW n \in Nat
  PROVE  SlotOf(n) \in Slots
  BY RingAssumption DEF SlotOf, Slots

-----------------------------------------------------------------------------
(* The inductive invariant.                                                *)

(* The ring holds at most Capacity records, and the consumer has handed    *)
(* over one more than it released exactly between callback and release.    *)
Window ==
  /\ consumed <= Len(captured)
  /\ Len(captured) <= consumed + Capacity
  /\ reader = "next" => Len(handed) = consumed
  /\ reader = "release" =>
       /\ Len(handed) = consumed + 1
       /\ consumed < Len(captured)
       /\ ~busy[SlotOf(consumed)]

(* The records that CPUs hold are busy, in the window, and their own.      *)
Claims ==
  \A c \in Cpus : step[c] # "idle" =>
    /\ consumed <= position[c]
    /\ position[c] < Len(captured)
    /\ busy[MySlot(c)]
    /\ \A d \in Cpus \ {c} : step[d] # "idle" => position[c] # position[d]

(* What has been written of the n-th record.                               *)
MetadataWritten(n) ==
  /\ memory[SlotOf(n)].meta = captured[n + 1]
  /\ memory[SlotOf(n)].count = payload_bytes_to_copy(captured[n + 1])

PayloadWritten(n) ==
  \A i \in 1..payload_bytes_to_copy(captured[n + 1]) :
    memory[SlotOf(n)].bytes[i] = captured[n + 1]

FillOrder ==
  \A c \in Cpus :
    /\ step[c] \in {"load", "submit"} => MetadataWritten(position[c])
    /\ step[c] = "submit" => PayloadWritten(position[c])

(* A record of the window that is not busy is complete.                    *)
SubmittedIsComplete ==
  \A n \in Nat :
    consumed <= n /\ n < Len(captured) /\ ~busy[SlotOf(n)]
      => MetadataWritten(n) /\ PayloadWritten(n)

IInv ==
  /\ TypeOK
  /\ Window
  /\ Claims
  /\ FillOrder
  /\ SubmittedIsComplete
  /\ HandedIsCaptured

-----------------------------------------------------------------------------
LEMMA CopyLength ==
  ASSUME NEW f \in Frames
  PROVE  payload_bytes_to_copy(f) \in 0..MaxPayload
  BY RingAssumption DEF payload_bytes_to_copy

(* A CPU that is at work holds a record of its own in the window.          *)
LEMMA HeldRecord ==
  ASSUME TypeOK, Claims, NEW c \in Cpus, step[c] # "idle"
  PROVE  /\ position[c] \in Nat
         /\ MySlot(c) \in Slots
         /\ FrameOf(c) \in Frames
         /\ payload_bytes_to_copy(FrameOf(c)) \in 0..MaxPayload
<1>1. position[c] \in Nat /\ position[c] < Len(captured)
  BY DEF TypeOK, Claims
<1>2. FrameOf(c) \in Frames
  BY <1>1 DEF TypeOK, FrameOf
<1> QED
  BY <1>1, <1>2, SlotInRing, CopyLength DEF MySlot

(* No other position of the window uses that slot.                         *)
LEMMA OwnSlot ==
  ASSUME TypeOK, Window, Claims, NEW c \in Cpus, step[c] # "idle",
         NEW n \in Nat, consumed <= n, n < Len(captured), n # position[c]
  PROVE  SlotOf(n) # MySlot(c)
<1>1. /\ position[c] \in Nat
      /\ consumed \in Nat
      /\ Len(captured) \in Nat
      /\ Capacity \in Nat
      /\ consumed <= position[c]
      /\ position[c] < Len(captured)
      /\ Len(captured) <= consumed + Capacity
  BY RingAssumption DEF TypeOK, Claims, Window
<1>2. CASE n < position[c]
  BY <1>1, <1>2, SlotsDiffer DEF MySlot
<1>3. CASE position[c] < n
  BY <1>1, <1>3, SlotsDiffer DEF MySlot
<1> QED
  BY <1>1, <1>2, <1>3

LEMMA InitIInv == Init => IInv
<1> SUFFICES ASSUME Init PROVE IInv
  OBVIOUS
<1>1. BlankRecord \in xdp_packet
  BY RingAssumption DEF BlankRecord, xdp_packet, Tags
<1>2. TypeOK
  BY <1>1, RingAssumption DEF Init, TypeOK
<1>3. Window /\ HandedIsCaptured
  BY RingAssumption DEF Init, Window, HandedIsCaptured
<1>4. Claims /\ FillOrder /\ SubmittedIsComplete
  BY DEF Init, Claims, FillOrder, SubmittedIsComplete
<1> QED
  BY <1>2, <1>3, <1>4 DEF IInv

(* Reserving extends the window by a position whose slot nobody else in    *)
(* the window uses, because the ring was not full.                         *)
LEMMA ReserveKeepsIInv ==
  ASSUME IInv, NEW c \in Cpus, NEW f \in Frames, Reserve(c, f)
  PROVE  IInv'
<1> DEFINE L == Len(captured)
<1>1. /\ L \in Nat /\ consumed \in Nat /\ Capacity \in Nat /\ Capacity > 0
      /\ consumed <= L /\ L - consumed < Capacity
  BY RingAssumption DEF IInv, TypeOK, Window, Reserve
<1>2. /\ captured' = Append(captured, f)
      /\ Len(captured') = L + 1
      /\ captured' \in Seq(Frames)
      /\ \A n \in 1..L : captured'[n] = captured[n]
  BY DEF IInv, TypeOK, Reserve
<1>3. /\ SlotOf(L) \in Slots
      /\ \A n \in Nat : consumed <= n /\ n < L => SlotOf(n) # SlotOf(L)
  BY <1>1, SlotInRing, SlotsDiffer
<1>4. /\ busy' \in [Slots -> BOOLEAN]
      /\ busy'[SlotOf(L)]
      /\ \A n \in Nat : consumed <= n /\ n < L => busy'[SlotOf(n)] = busy[SlotOf(n)]
  BY <1>3, SlotInRing DEF IInv, TypeOK, Reserve
<1>5. /\ step' = [step EXCEPT ![c] = "fill"]
      /\ position' = [position EXCEPT ![c] = L]
      /\ UNCHANGED <<memory, consumed, reader, handed>>
  BY DEF Reserve, Goto, consumer
<1>6. TypeOK'
  BY <1>1, <1>2, <1>4, <1>5 DEF IInv, TypeOK
<1>7. Window'
  BY <1>1, <1>2, <1>4, <1>5 DEF IInv, Window
<1>8. Claims'
  BY <1>1, <1>2, <1>4, <1>5 DEF IInv, TypeOK, Claims, MySlot, Reserve
<1>9. FillOrder'
  <2> SUFFICES ASSUME NEW d \in Cpus, step'[d] \in {"load", "submit"}
               PROVE  /\ MetadataWritten(position[d])'
                      /\ step'[d] = "submit" => PayloadWritten(position[d])'
    BY DEF FillOrder
  <2>1. d # c /\ step'[d] = step[d] /\ position'[d] = position[d]
    BY <1>5 DEF IInv, TypeOK
  <2>2. position[d] \in Nat /\ position[d] < L
    BY <2>1 DEF IInv, TypeOK, Claims
  <2>3. captured'[position[d] + 1] = captured[position[d] + 1]
    BY <1>1, <1>2, <2>2
  <2> QED
    BY <2>1, <2>3, <1>5 DEF IInv, FillOrder, MetadataWritten, PayloadWritten
<1>10. SubmittedIsComplete'
  <2> SUFFICES ASSUME NEW n \in Nat, consumed <= n, n < Len(captured'), ~busy'[SlotOf(n)]
               PROVE  MetadataWritten(n)' /\ PayloadWritten(n)'
    BY <1>5 DEF SubmittedIsComplete
  <2>1. n < L
    BY <1>1, <1>2, <1>4
  <2>2. captured'[n + 1] = captured[n + 1]
    BY <1>1, <1>2, <2>1
  <2>3. MetadataWritten(n) /\ PayloadWritten(n)
    BY <1>4, <2>1 DEF IInv, SubmittedIsComplete
  <2> QED
    BY <2>2, <2>3, <1>5 DEF MetadataWritten, PayloadWritten
<1>11. HandedIsCaptured'
  BY <1>1, <1>2, <1>5 DEF IInv, TypeOK, HandedIsCaptured, Channel!View, Channel!CopiedBytes
<1> QED
  BY <1>6, <1>7, <1>8, <1>9, <1>10, <1>11 DEF IInv

(* Writing into one's own slot disturbs no other record of the window.     *)
LEMMA WriteKeepsIInv ==
  ASSUME IInv, NEW c \in Cpus, step[c] # "idle",
         NEW label \in {"load", "submit"},
         step' = [step EXCEPT ![c] = label],
         memory' \in [Slots -> xdp_packet],
         \A s \in Slots \ {MySlot(c)} : memory'[s] = memory[s],
         MetadataWritten(position[c])',
         label = "submit" => PayloadWritten(position[c])',
         UNCHANGED <<position, captured, busy, consumer>>
  PROVE  IInv'
<1>0. UNCHANGED <<position, captured, busy, consumed, reader, handed>>
  BY DEF consumer
<1>1. TypeOK'
  BY <1>0 DEF IInv, TypeOK
<1>2. Window' /\ HandedIsCaptured'
  BY <1>0 DEF IInv, Window, HandedIsCaptured, Channel!View, Channel!CopiedBytes
<1>3. Claims'
  BY <1>0 DEF IInv, TypeOK, Claims, MySlot
<1>4. ASSUME NEW n \in Nat, consumed <= n, n < Len(captured), n # position[c]
      PROVE  /\ MetadataWritten(n)' <=> MetadataWritten(n)
             /\ PayloadWritten(n)' <=> PayloadWritten(n)
  <2>1. memory'[SlotOf(n)] = memory[SlotOf(n)]
    BY <1>4, OwnSlot, SlotInRing DEF IInv
  <2> QED
    BY <2>1, <1>0 DEF MetadataWritten, PayloadWritten
<1>5. FillOrder'
  <2> SUFFICES ASSUME NEW d \in Cpus, d # c, step[d] \in {"load", "submit"}
               PROVE  /\ MetadataWritten(position[d])'
                      /\ step[d] = "submit" => PayloadWritten(position[d])'
    BY <1>0 DEF FillOrder, IInv, TypeOK
  <2>1. /\ position[d] \in Nat
        /\ consumed <= position[d]
        /\ position[d] < Len(captured)
        /\ position[d] # position[c]
    BY DEF IInv, TypeOK, Claims
  <2> QED
    BY <2>1, <1>4, <1>0 DEF IInv, FillOrder
<1>6. SubmittedIsComplete'
  <2> SUFFICES ASSUME NEW n \in Nat, consumed <= n, n < Len(captured), ~busy[SlotOf(n)]
               PROVE  MetadataWritten(n)' /\ PayloadWritten(n)'
    BY <1>0 DEF SubmittedIsComplete
  <2>1. n # position[c]
    BY DEF IInv, Claims, MySlot
  <2> QED
    BY <2>1, <1>4 DEF IInv, SubmittedIsComplete
<1> QED
  BY <1>1, <1>2, <1>3, <1>5, <1>6 DEF IInv

LEMMA FillKeepsIInv ==
  ASSUME IInv, NEW c \in Cpus, FillRecord(c)
  PROVE  IInv'
<1> DEFINE s == MySlot(c)
           f == FrameOf(c)
           r == [memory[s] EXCEPT !.meta = f, !.count = payload_bytes_to_copy(f)]
<1>1. /\ step[c] = "fill"
      /\ step' = [step EXCEPT ![c] = "load"]
      /\ UNCHANGED <<position, captured, busy, consumer>>
  BY DEF FillRecord, Goto, After
<1>2. /\ s \in Slots /\ f \in Frames
      /\ payload_bytes_to_copy(f) \in 0..MaxPayload
  BY <1>1, HeldRecord DEF IInv
<1>3. memory \in [Slots -> xdp_packet]
  BY DEF IInv, TypeOK
<1>4. memory' = [memory EXCEPT ![s] = r]
  BY <1>2, <1>3 DEF FillRecord, xdp_packet
<1>5. /\ r \in xdp_packet
      /\ r.meta = f
      /\ r.count = payload_bytes_to_copy(f)
  BY <1>2, <1>3 DEF xdp_packet, Tags
<1>6. /\ memory' \in [Slots -> xdp_packet]
      /\ memory'[s] = r
      /\ \A t \in Slots \ {s} : memory'[t] = memory[t]
  <2> HIDE DEF r, s
  <2> QED
    BY <1>2, <1>3, <1>4, <1>5
<1>7. MetadataWritten(position[c])'
  BY <1>1, <1>5, <1>6 DEF MetadataWritten, MySlot, FrameOf
<1> HIDE DEF s, f, r
<1> QED
  BY <1>1, <1>6, <1>7, WriteKeepsIInv DEF s

LEMMA LoadKeepsIInv ==
  ASSUME IInv, NEW c \in Cpus, LoadBytes(c)
  PROVE  IInv'
<1> DEFINE s == MySlot(c)
           f == FrameOf(c)
           b == [i \in 1..MaxPayload |->
                   IF i <= payload_bytes_to_copy(f) THEN f ELSE memory[s].bytes[i]]
           r == [memory[s] EXCEPT !.bytes = b]
<1>1. /\ step[c] = "load"
      /\ step' = [step EXCEPT ![c] = "submit"]
      /\ UNCHANGED <<position, captured, busy, consumer>>
  BY DEF LoadBytes, Goto, After
<1>2. /\ s \in Slots /\ f \in Frames
      /\ payload_bytes_to_copy(f) \in 0..MaxPayload
  BY <1>1, HeldRecord DEF IInv
<1>3. /\ memory \in [Slots -> xdp_packet]
      /\ memory[s].bytes \in [1..MaxPayload -> Tags]
  BY <1>2 DEF IInv, TypeOK, xdp_packet
<1>4. memory' = [memory EXCEPT ![s] = r]
  BY <1>2, <1>3 DEF LoadBytes, xdp_packet
<1>5. /\ b \in [1..MaxPayload -> Tags]
      /\ \A i \in 1..payload_bytes_to_copy(f) : b[i] = f
  BY <1>2, <1>3, RingAssumption DEF Tags
<1>6. /\ r \in xdp_packet
      /\ r.bytes = b
      /\ r.meta = memory[s].meta
      /\ r.count = memory[s].count
  <2> HIDE DEF b
  <2> QED
    BY <1>2, <1>3, <1>5 DEF xdp_packet
<1>7. /\ memory' \in [Slots -> xdp_packet]
      /\ memory'[s] = r
      /\ \A t \in Slots \ {s} : memory'[t] = memory[t]
  <2> HIDE DEF r, s
  <2> QED
    BY <1>2, <1>3, <1>4, <1>6
<1>8. MetadataWritten(position[c])'
  <2>1. MetadataWritten(position[c])
    BY <1>1 DEF IInv, FillOrder
  <2> HIDE DEF r
  <2> QED
    BY <2>1, <1>1, <1>6, <1>7 DEF MetadataWritten, MySlot
<1>9. PayloadWritten(position[c])'
  <2> HIDE DEF r, b
  <2> QED
    BY <1>1, <1>5, <1>6, <1>7 DEF PayloadWritten, MySlot, FrameOf
<1> HIDE DEF s, f, b, r
<1> QED
  BY <1>1, <1>7, <1>8, <1>9, WriteKeepsIInv DEF s

(* A record that becomes readable is complete.                             *)
LEMMA SubmitKeepsIInv ==
  ASSUME IInv, NEW c \in Cpus, SubmitRecord(c)
  PROVE  IInv'
<1>1. /\ step[c] = "submit"
      /\ step' = [step EXCEPT ![c] = "idle"]
      /\ busy' = [busy EXCEPT ![MySlot(c)] = FALSE]
      /\ UNCHANGED <<position, captured, memory, consumed, reader, handed>>
  BY DEF SubmitRecord, MaySubmit, Goto, After, consumer
<1>2. /\ position[c] \in Nat
      /\ MySlot(c) \in Slots
      /\ consumed <= position[c]
      /\ position[c] < Len(captured)
  BY <1>1, HeldRecord DEF IInv, Claims
<1>3. TypeOK'
  BY <1>1, <1>2 DEF IInv, TypeOK
<1>4. Window' /\ HandedIsCaptured'
  <2>1. reader = "release" => ~busy'[SlotOf(consumed)]
    BY <1>1, <1>2, SlotInRing DEF IInv, TypeOK, Window
  <2> QED
    BY <1>1, <2>1 DEF IInv, Window, HandedIsCaptured, Channel!View, Channel!CopiedBytes
<1>5. ASSUME NEW n \in Nat, consumed <= n, n < Len(captured), n # position[c]
      PROVE  busy'[SlotOf(n)] = busy[SlotOf(n)]
  <2>1. SlotOf(n) # MySlot(c) /\ SlotOf(n) \in Slots
    BY <1>1, <1>5, OwnSlot, SlotInRing DEF IInv
  <2> QED
    BY <2>1, <1>1 DEF IInv, TypeOK
<1>6. Claims'
  <2> SUFFICES ASSUME NEW d \in Cpus, step'[d] # "idle"
               PROVE  /\ consumed <= position[d]
                      /\ position[d] < Len(captured)
                      /\ busy'[MySlot(d)]
                      /\ \A e \in Cpus \ {d} : step'[e] # "idle" => position[d] # position[e]
    BY <1>1 DEF Claims, MySlot
  <2>1. d # c /\ step[d] # "idle"
    BY <1>1 DEF IInv, TypeOK
  <2>2. /\ position[d] \in Nat
        /\ consumed <= position[d]
        /\ position[d] < Len(captured)
        /\ position[d] # position[c]
        /\ busy[MySlot(d)]
    BY <1>1, <2>1 DEF IInv, TypeOK, Claims
  <2>3. busy'[MySlot(d)]
    BY <2>2, <1>5 DEF MySlot
  <2>4. \A e \in Cpus \ {d} : step'[e] # "idle" => position[d] # position[e]
    BY <1>1, <2>1 DEF IInv, TypeOK, Claims
  <2> QED
    BY <2>2, <2>3, <2>4
<1>7. FillOrder'
  BY <1>1 DEF IInv, TypeOK, FillOrder, MetadataWritten, PayloadWritten
<1>8. SubmittedIsComplete'
  <2> SUFFICES ASSUME NEW n \in Nat, consumed <= n, n < Len(captured), ~busy'[SlotOf(n)]
               PROVE  MetadataWritten(n) /\ PayloadWritten(n)
    BY <1>1 DEF SubmittedIsComplete, MetadataWritten, PayloadWritten
  <2>1. CASE n = position[c]
    BY <1>1, <2>1 DEF IInv, FillOrder
  <2>2. CASE n # position[c]
    BY <1>5, <2>2 DEF IInv, SubmittedIsComplete
  <2> QED
    BY <2>1, <2>2
<1> QED
  BY <1>3, <1>4, <1>6, <1>7, <1>8 DEF IInv

(* What the constructor of XdpData makes of a complete record.             *)
LEMMA XdpDataOfRecord ==
  ASSUME TypeOK, NEW n \in Nat, n < Len(captured), MetadataWritten(n), PayloadWritten(n)
  PROVE  /\ XdpData(memory[SlotOf(n)]) = Channel!View(captured[n + 1])
         /\ XdpData(memory[SlotOf(n)]) \in
              [meta : Tags, payload : UNION {[1..m -> Tags] : m \in 0..MaxPayload}]
<1> DEFINE f == captured[n + 1]
           k == payload_bytes_to_copy(f)
<1>1. f \in Frames /\ k \in 0..MaxPayload
  BY CopyLength DEF TypeOK
<1>2. Channel!View(f) = [meta |-> f, payload |-> [i \in 1..k |-> f]]
  BY DEF Channel!View, Channel!CopiedBytes, payload_bytes_to_copy
<1>3. XdpData(memory[SlotOf(n)]) =
        [meta |-> f, payload |-> [i \in 1..k |-> memory[SlotOf(n)].bytes[i]]]
  BY <1>1 DEF XdpData, bytes_to_copy, MetadataWritten
<1>4. [i \in 1..k |-> memory[SlotOf(n)].bytes[i]] = [i \in 1..k |-> f]
  BY DEF PayloadWritten
<1>5. [i \in 1..k |-> f] \in UNION {[1..m -> Tags] : m \in 0..MaxPayload}
  <2>1. [i \in 1..k |-> f] \in [1..k -> Tags]
    BY <1>1 DEF Tags
  <2> HIDE DEF k, f
  <2> QED
    BY <1>1, <2>1
<1>6. XdpData(memory[SlotOf(n)]) = Channel!View(f)
  BY <1>2, <1>3, <1>4
<1>7. [meta |-> f, payload |-> [i \in 1..k |-> f]]
        \in [meta : Tags, payload : UNION {[1..m -> Tags] : m \in 0..MaxPayload}]
  <2> HIDE DEF k, f
  <2> QED
    BY <1>1, <1>5 DEF Tags
<1> QED
  BY <1>2, <1>6, <1>7

LEMMA SampleKeepsIInv ==
  ASSUME IInv, HandleRingbufSample
  PROVE  IInv'
<1> DEFINE x == XdpData(memory[SlotOf(consumed)])
<1>1. /\ reader = "next" /\ reader' = "release"
      /\ consumed \in Nat /\ Len(handed) = consumed /\ consumed < Len(captured)
      /\ ~busy[SlotOf(consumed)]
      /\ handed' = Append(handed, x)
      /\ UNCHANGED <<step, position, captured, memory, busy, consumed>>
  BY DEF IInv, TypeOK, Window, HandleRingbufSample, record_size, sizeof_xdp_packet, producer
<1>2. MetadataWritten(consumed) /\ PayloadWritten(consumed)
  BY <1>1 DEF IInv, SubmittedIsComplete
<1>3. /\ x = Channel!View(captured[consumed + 1])
      /\ x \in [meta : Tags, payload : UNION {[1..m -> Tags] : m \in 0..MaxPayload}]
  BY <1>1, <1>2, XdpDataOfRecord DEF IInv
<1> HIDE DEF x
<1>4. TypeOK'
  BY <1>1, <1>3 DEF IInv, TypeOK
<1>5. /\ Len(handed') = consumed + 1
      /\ \A n \in 1..consumed : handed'[n] = handed[n]
      /\ handed'[consumed + 1] = x
  BY <1>1 DEF IInv, TypeOK
<1>6. Window'
  BY <1>1, <1>5 DEF IInv, Window
<1>7. HandedIsCaptured'
  <2> SUFFICES ASSUME NEW n \in 1..(consumed + 1)
               PROVE  handed'[n] = Channel!View(captured[n])
    BY <1>1, <1>5 DEF HandedIsCaptured, IInv, TypeOK, Channel!View, Channel!CopiedBytes
  <2>1. CASE n = consumed + 1
    BY <2>1, <1>3, <1>5
  <2>2. CASE n \in 1..consumed
    BY <2>2, <1>1, <1>5 DEF IInv, HandedIsCaptured
  <2> QED
    BY <2>1, <2>2, <1>1
<1>8. Claims' /\ FillOrder' /\ SubmittedIsComplete'
  BY <1>1 DEF IInv, Claims, FillOrder, SubmittedIsComplete, MySlot,
              MetadataWritten, PayloadWritten
<1> QED
  BY <1>4, <1>6, <1>7, <1>8 DEF IInv

LEMMA ReleaseKeepsIInv ==
  ASSUME IInv, ReleaseSlot
  PROVE  IInv'
<1>1. /\ reader = "release" /\ reader' = "next" /\ consumed' = consumed + 1
      /\ consumed \in Nat /\ Len(handed) = consumed + 1 /\ consumed < Len(captured)
      /\ ~busy[SlotOf(consumed)]
      /\ UNCHANGED <<step, position, captured, memory, busy, handed>>
  BY DEF IInv, TypeOK, Window, ReleaseSlot, producer
<1>2. TypeOK' /\ Window'
  BY <1>1, RingAssumption DEF IInv, TypeOK, Window
<1>3. Claims'
  <2>1. \A c \in Cpus : step[c] # "idle" => position[c] # consumed
    BY <1>1 DEF IInv, Claims, MySlot
  <2> QED
    BY <1>1, <2>1 DEF IInv, TypeOK, Claims, MySlot
<1>4. FillOrder' /\ SubmittedIsComplete'
  BY <1>1 DEF IInv, FillOrder, SubmittedIsComplete, MetadataWritten, PayloadWritten
<1>5. HandedIsCaptured'
  BY <1>1 DEF IInv, HandedIsCaptured, Channel!View, Channel!CopiedBytes
<1> QED
  BY <1>2, <1>3, <1>4, <1>5 DEF IInv

LEMMA NextIInv == IInv /\ [Next]_vars => IInv'
<1> SUFFICES ASSUME IInv, [Next]_vars PROVE IInv'
  OBVIOUS
<1>1. ASSUME NEW c \in Cpus, CaptureStep(c) PROVE IInv'
  BY <1>1, FillKeepsIInv, LoadKeepsIInv, SubmitKeepsIInv DEF CaptureStep
<1>2. ASSUME NEW c \in Cpus, NEW f \in Frames, Reserve(c, f) PROVE IInv'
  BY <1>2, ReserveKeepsIInv
<1>3. CASE ConsumerStep
  BY <1>3, SampleKeepsIInv, ReleaseKeepsIInv DEF ConsumerStep
<1>4. CASE UNCHANGED vars
  BY <1>4 DEF vars, producer, consumer, IInv, TypeOK, Window, Claims, FillOrder, MySlot,
              SubmittedIsComplete, HandedIsCaptured, MetadataWritten, PayloadWritten,
              Channel!View, Channel!CopiedBytes
<1> QED
  BY <1>1, <1>2, <1>3, <1>4 DEF Next

-----------------------------------------------------------------------------
(* The results.                                                            *)

THEOREM Invariance == Spec => []IInv
  BY InitIInv, NextIInv, PTL DEF Spec

(* The variables keep their types; in particular payload_byte_count never  *)
(* exceeds the array, whatever the frame's length.                         *)
THEOREM TypeCorrect == Spec => []TypeOK
  BY Invariance, PTL DEF IInv

(* The application is handed exactly what was captured, in order and with  *)
(* no byte of an older packet, on every number of CPUs and ring size.      *)
THEOREM HandedCorrectly == Spec => []HandedIsCaptured
  BY Invariance, PTL DEF IInv

(* No two CPUs fill one slot, and none fills the slot that is being read.  *)
THEOREM SlotsExclusive == Spec => []SlotsAreExclusive
<1>1. IInv => SlotsAreExclusive
  <2> SUFFICES ASSUME IInv, NEW c \in Cpus, step[c] # "idle"
               PROVE  /\ busy[MySlot(c)]
                      /\ \A d \in Cpus \ {c} : step[d] # "idle" => MySlot(c) # MySlot(d)
                      /\ reader = "release" => MySlot(c) # SlotOf(consumed)
    BY DEF SlotsAreExclusive
  <2>1. ASSUME NEW d \in Cpus \ {c}, step[d] # "idle" PROVE MySlot(c) # MySlot(d)
    <3>1. /\ position[d] \in Nat
          /\ consumed <= position[d]
          /\ position[d] < Len(captured)
          /\ position[d] # position[c]
      BY <2>1 DEF IInv, TypeOK, Claims
    <3> QED
      BY <3>1, OwnSlot DEF IInv, MySlot
  <2> QED
    BY <2>1 DEF IInv, Claims, Window
<1> QED
  BY <1>1, Invariance, PTL

-----------------------------------------------------------------------------
(* The ring implements the channel.                                        *)

QueueRecord == [frame : Frames, ready : BOOLEAN]

PendingIsQueue ==
  /\ pending \in Seq(QueueRecord)
  /\ Len(pending) = Len(captured) - Len(handed)
  /\ \A i \in 1..(Len(captured) - Len(handed)) :
       pending[i] = [frame |-> captured[Len(handed) + i],
                     ready |-> ~busy[SlotOf(Len(handed) + i - 1)]]

(* The refinement mapping yields a queue of records, one per frame that    *)
(* was captured and not handed over.                                       *)
LEMMA PendingType == IInv => PendingIsQueue
<1> SUFFICES ASSUME IInv PROVE PendingIsQueue
  OBVIOUS
<1>0. TypeOK /\ HandedIsCaptured
  BY DEF IInv
<1> DEFINE k == Len(captured) - Len(handed)
<1>1. Len(captured) \in Nat /\ Len(handed) \in Nat /\ k \in Nat
  BY <1>0 DEF TypeOK, HandedIsCaptured
<1>2. ASSUME NEW i \in 1..k
      PROVE  [frame |-> captured[Len(handed) + i],
              ready |-> ~busy[SlotOf(Len(handed) + i - 1)]] \in QueueRecord
  BY <1>0, <1>1, <1>2 DEF TypeOK, QueueRecord
<1>3. pending \in [1..k -> QueueRecord]
  BY <1>2 DEF pending
<1>4. pending \in Seq(QueueRecord)
  <2> HIDE DEF k
  <2> QED
    BY <1>1, <1>3, SeqDef
<1>5. Len(pending) = k
  <2> HIDE DEF k
  <2>1. DOMAIN pending = 1..k
    BY <1>3
  <2> QED
    BY <1>1, <1>4, <2>1, LenProperties
<1> QED
  BY <1>4, <1>5 DEF pending, PendingIsQueue

LEMMA PendingTypeNext == IInv' => PendingIsQueue'
  BY PendingType, PTL

LEMMA HandedInWindow ==
  ASSUME IInv
  PROVE  /\ Len(captured) \in Nat /\ Len(handed) \in Nat /\ consumed \in Nat
         /\ consumed <= Len(handed) /\ Len(handed) <= Len(captured)
<1>1. reader \in {"next", "release"} /\ consumed \in Nat
  BY DEF IInv, TypeOK
<1>2. Len(captured) \in Nat /\ Len(handed) \in Nat
  BY DEF IInv, TypeOK
<1> QED
  BY <1>1, <1>2 DEF IInv, Window, HandedIsCaptured

LEMMA ReserveImplements ==
  ASSUME IInv, IInv', NEW c \in Cpus, NEW f \in Frames, Reserve(c, f)
  PROVE  Channel!Reserve(f)
<1> DEFINE L == Len(captured)
           k == L - Len(handed)
           e == [frame |-> f, ready |-> FALSE]
<1>1. /\ L \in Nat /\ consumed \in Nat /\ Capacity \in Nat
      /\ Len(handed) \in Nat /\ consumed <= Len(handed) /\ Len(handed) <= L
      /\ L - consumed < Capacity
      /\ k \in Nat
  BY HandedInWindow, RingAssumption DEF Reserve
<1>2. /\ Len(captured') = L + 1
      /\ \A n \in 1..L : captured'[n] = captured[n]
      /\ captured'[L + 1] = f
      /\ UNCHANGED handed
  BY DEF IInv, TypeOK, Reserve, consumer
<1>3. /\ busy'[SlotOf(L)] = TRUE
      /\ \A n \in Nat : consumed <= n /\ n < L => busy'[SlotOf(n)] = busy[SlotOf(n)]
  <2>1. SlotOf(L) \in Slots
    BY <1>1, SlotInRing
  <2>2. \A n \in Nat : consumed <= n /\ n < L => SlotOf(n) # SlotOf(L)
    BY <1>1, SlotsDiffer
  <2> QED
    BY <2>1, <2>2, SlotInRing DEF IInv, TypeOK, Reserve
<1>4. /\ pending \in Seq(QueueRecord)
      /\ Len(pending) = k
      /\ \A i \in 1..k : pending[i] = [frame |-> captured[Len(handed) + i],
                                       ready |-> ~busy[SlotOf(Len(handed) + i - 1)]]
  BY PendingType DEF PendingIsQueue
<1>5. /\ pending' \in Seq(QueueRecord)
      /\ Len(pending') = k + 1
      /\ \A i \in 1..(k + 1) :
           pending'[i] = [frame |-> captured'[Len(handed) + i],
                          ready |-> ~busy'[SlotOf(Len(handed) + i - 1)]]
  <2>1. /\ pending' \in Seq(QueueRecord)
        /\ Len(pending') = Len(captured') - Len(handed')
        /\ \A i \in 1..(Len(captured') - Len(handed')) :
             pending'[i] = [frame |-> captured'[Len(handed') + i],
                            ready |-> ~busy'[SlotOf(Len(handed') + i - 1)]]
    BY PendingTypeNext DEF PendingIsQueue
  <2>2. Len(captured') - Len(handed') = k + 1
    BY <1>1, <1>2
  <2> QED
    BY <2>1, <2>2, <1>2
<1>6. ASSUME NEW i \in 1..k PROVE pending'[i] = pending[i]
  <2>1. /\ Len(handed) + i \in 1..L
        /\ Len(handed) + i - 1 \in Nat
        /\ consumed <= Len(handed) + i - 1
        /\ Len(handed) + i - 1 < L
        /\ i \in 1..(k + 1)
    BY <1>1
  <2>2. busy'[SlotOf(Len(handed) + i - 1)] = busy[SlotOf(Len(handed) + i - 1)]
    BY <2>1, <1>3
  <2> QED
    BY <2>1, <2>2, <1>2, <1>4, <1>5
<1>7. pending'[k + 1] = e
  <2>1. k + 1 \in 1..(k + 1) /\ Len(handed) + (k + 1) = L + 1
        /\ Len(handed) + (k + 1) - 1 = L
    BY <1>1
  <2> QED
    BY <2>1, <1>2, <1>3, <1>5
<1>8. pending' = Append(pending, e)
  <2>1. e \in QueueRecord
    BY DEF QueueRecord
  <2> HIDE DEF e, k
  <2>2. /\ Append(pending, e) \in Seq(QueueRecord)
        /\ Len(Append(pending, e)) = k + 1
        /\ \A i \in 1..k : Append(pending, e)[i] = pending[i]
        /\ Append(pending, e)[k + 1] = e
    BY <2>1, <1>4, AppendProperties
  <2>3. \A i \in 1..(k + 1) : pending'[i] = Append(pending, e)[i]
    BY <2>2, <1>1, <1>6, <1>7
  <2> QED
    BY <2>2, <2>3, <1>5, SeqEqual
<1>9. UNCHANGED delivered
  BY <1>2 DEF delivered
<1> QED
  BY <1>1, <1>4, <1>8, <1>9 DEF Channel!Reserve

LEMMA ReadySet ==
  \A r \in QueueRecord : \A b :
     [r EXCEPT !.ready = b] = [frame |-> r.frame, ready |-> b]
  BY DEF QueueRecord

LEMMA SubmitImplements ==
  ASSUME IInv, IInv', NEW c \in Cpus, SubmitRecord(c)
  PROVE  Channel!SomeSubmit
<1> DEFINE k == Len(captured) - Len(handed)
           j == position[c] + 1 - Len(handed)
           q == [pending EXCEPT ![j].ready = TRUE]
<1>1. /\ step[c] = "submit"
      /\ busy' = [busy EXCEPT ![MySlot(c)] = FALSE]
      /\ UNCHANGED <<captured, consumed, reader, handed>>
  BY DEF SubmitRecord, MaySubmit, consumer
<1>2. /\ position[c] \in Nat
      /\ MySlot(c) \in Slots
      /\ consumed <= position[c]
      /\ position[c] < Len(captured)
      /\ busy[MySlot(c)]
  BY <1>1, HeldRecord DEF IInv, Claims
<1>3. position[c] >= Len(handed)
  <2>1. reader = "release" => position[c] # consumed
    BY <1>2 DEF IInv, Window, MySlot
  <2> QED
    BY <2>1, <1>2, HandedInWindow DEF IInv, TypeOK, Window
<1>4. j \in 1..k /\ k \in Nat
  BY <1>2, <1>3, HandedInWindow
<1>5. /\ pending \in Seq(QueueRecord)
      /\ Len(pending) = k
      /\ \A i \in 1..k : pending[i] = [frame |-> captured[Len(handed) + i],
                                       ready |-> ~busy[SlotOf(Len(handed) + i - 1)]]
  BY PendingType DEF PendingIsQueue
<1>6. /\ pending' \in Seq(QueueRecord)
      /\ Len(pending') = k
      /\ \A i \in 1..k : pending'[i] = [frame |-> captured[Len(handed) + i],
                                        ready |-> ~busy'[SlotOf(Len(handed) + i - 1)]]
  BY <1>1, PendingTypeNext DEF PendingIsQueue
<1>7. Len(handed) + j - 1 = position[c]
  BY <1>2, HandedInWindow
<1>8. pending[j].ready = FALSE /\ pending[j] \in QueueRecord
  <2>1. busy[SlotOf(Len(handed) + j - 1)]
    BY <1>2, <1>7 DEF MySlot
  <2> HIDE DEF j, k
  <2>2. pending[j] = [frame |-> captured[Len(handed) + j],
                      ready |-> ~busy[SlotOf(Len(handed) + j - 1)]]
    BY <1>4, <1>5
  <2>3. pending[j] \in QueueRecord
    BY <1>4, <1>5, ElementOfSeq
  <2>4. (~busy[SlotOf(Len(handed) + j - 1)]) = FALSE
    BY <2>1
  <2>5. pending[j] = [frame |-> captured[Len(handed) + j], ready |-> FALSE]
    BY <2>2, <2>4, Zenon
  <2> QED
    BY <2>3, <2>5
<1>9. pending'[j] = [pending[j] EXCEPT !.ready = TRUE]
  <2>1. busy'[SlotOf(Len(handed) + j - 1)] = FALSE
    BY <1>1, <1>2, <1>7 DEF MySlot, IInv, TypeOK
  <2> HIDE DEF j, k
  <2>2. /\ pending[j] = [frame |-> captured[Len(handed) + j],
                         ready |-> ~busy[SlotOf(Len(handed) + j - 1)]]
        /\ pending'[j] = [frame |-> captured[Len(handed) + j],
                          ready |-> ~busy'[SlotOf(Len(handed) + j - 1)]]
    BY <1>4, <1>5, <1>6
  <2>3. (~busy'[SlotOf(Len(handed) + j - 1)]) = TRUE
    BY <2>1
  <2>4. pending'[j] = [frame |-> captured[Len(handed) + j], ready |-> TRUE]
    BY <2>2, <2>3, Zenon
  <2>5. [pending[j] EXCEPT !.ready = TRUE] =
          [frame |-> captured[Len(handed) + j], ready |-> TRUE]
    <3>1. pending[j].frame = captured[Len(handed) + j]
      BY <2>2
    <3> QED
      BY <3>1, <1>8, ReadySet, Zenon
  <2> QED
    BY <2>4, <2>5
<1>10. ASSUME NEW i \in 1..k, i # j PROVE pending'[i] = pending[i]
  <2>1. /\ Len(handed) + i - 1 \in Nat
        /\ consumed <= Len(handed) + i - 1
        /\ Len(handed) + i - 1 < Len(captured)
        /\ Len(handed) + i - 1 # position[c]
    BY <1>2, <1>10, HandedInWindow
  <2>2. SlotOf(Len(handed) + i - 1) # MySlot(c) /\ SlotOf(Len(handed) + i - 1) \in Slots
    BY <2>1, <1>1, OwnSlot, SlotInRing DEF IInv
  <2>3. busy'[SlotOf(Len(handed) + i - 1)] = busy[SlotOf(Len(handed) + i - 1)]
    BY <2>2, <1>1 DEF IInv, TypeOK
  <2> QED
    BY <2>3, <1>5, <1>6
<1>11. pending' = q
  <2> HIDE DEF j, k
  <2>1. q = [pending EXCEPT ![j] = [pending[j] EXCEPT !.ready = TRUE]]
    OBVIOUS
  <2>2. [pending[j] EXCEPT !.ready = TRUE] \in QueueRecord
    BY <1>8 DEF QueueRecord
  <2>3. /\ q \in Seq(QueueRecord)
        /\ Len(q) = k
        /\ \A i \in 1..k : q[i] = IF i = j THEN [pending[j] EXCEPT !.ready = TRUE]
                                           ELSE pending[i]
    BY <2>1, <2>2, <1>4, <1>5, ExceptSeq
  <2>4. \A i \in 1..k : pending'[i] = q[i]
    BY <2>3, <1>9, <1>10
  <2> HIDE DEF q
  <2> QED
    BY <2>3, <2>4, <1>6, SeqEqual
<1>12. UNCHANGED delivered
  BY <1>1 DEF delivered
<1>13. j \in DOMAIN pending
  BY <1>4, <1>5, LenProperties
<1> HIDE DEF j
<1> QED
  BY <1>8, <1>11, <1>12, <1>13 DEF Channel!SomeSubmit, Channel!Submit

LEMMA SampleImplements ==
  ASSUME IInv, IInv', HandleRingbufSample
  PROVE  Channel!Deliver
<1> DEFINE k == Len(captured) - Len(handed)
<1>1. /\ reader = "next"
      /\ consumed \in Nat /\ Len(handed) = consumed /\ consumed < Len(captured)
      /\ ~busy[SlotOf(consumed)]
      /\ handed' = Append(handed, XdpData(memory[SlotOf(consumed)]))
      /\ UNCHANGED <<captured, busy, memory, consumed>>
  BY DEF IInv, TypeOK, Window, HandleRingbufSample, record_size, sizeof_xdp_packet, producer
<1>2. /\ Len(handed') = Len(handed) + 1
      /\ handed' # <<>>
      /\ Len(captured) \in Nat
      /\ k \in Nat /\ k > 0
  BY <1>1 DEF IInv, TypeOK
<1>3. /\ pending \in Seq(QueueRecord)
      /\ Len(pending) = k
      /\ \A i \in 1..k : pending[i] = [frame |-> captured[Len(handed) + i],
                                       ready |-> ~busy[SlotOf(Len(handed) + i - 1)]]
  BY PendingType DEF PendingIsQueue
<1>4. /\ pending' \in Seq(QueueRecord)
      /\ Len(pending') = k - 1
      /\ \A i \in 1..(k - 1) :
           pending'[i] = [frame |-> captured[Len(handed) + 1 + i],
                          ready |-> ~busy[SlotOf(Len(handed) + 1 + i - 1)]]
  <2>1. Len(captured') - Len(handed') = k - 1
    BY <1>1, <1>2
  <2> QED
    BY <2>1, <1>1, <1>2, PendingTypeNext DEF PendingIsQueue
<1>5. pending # <<>>
  BY <1>2, <1>3
<1>6. Head(pending) = [frame |-> captured[consumed + 1], ready |-> TRUE]
  <2>1. Head(pending) = pending[1]
    BY <1>5
  <2>2. 1 \in 1..k /\ Len(handed) + 1 - 1 = consumed
    BY <1>1, <1>2
  <2> QED
    BY <2>1, <2>2, <1>1, <1>3
<1>7. pending' = Tail(pending)
  <2> HIDE DEF k
  <2>1. /\ Tail(pending) \in Seq(QueueRecord)
        /\ Len(Tail(pending)) = k - 1
        /\ \A i \in 1..(k - 1) : Tail(pending)[i] = pending[i + 1]
    BY <1>3, <1>5, HeadTailProperties
  <2>2. ASSUME NEW i \in 1..(k - 1) PROVE pending'[i] = pending[i + 1]
    <3>1. /\ i + 1 \in 1..k
          /\ Len(handed) + (i + 1) = Len(handed) + 1 + i
          /\ Len(handed) + (i + 1) - 1 = Len(handed) + 1 + i - 1
      BY <1>1, <1>2
    <3> QED
      BY <3>1, <1>3, <1>4
  <2> QED
    BY <2>1, <2>2, <1>4, SeqEqual
<1>8. delivered' = Channel!View(captured[consumed + 1])
  <2>1. delivered' = handed'[consumed + 1]
    BY <1>1, <1>2 DEF delivered
  <2>2. handed'[consumed + 1] = XdpData(memory[SlotOf(consumed)])
    BY <1>1 DEF IInv, TypeOK
  <2>3. MetadataWritten(consumed) /\ PayloadWritten(consumed)
    BY <1>1 DEF IInv, SubmittedIsComplete
  <2> QED
    BY <2>1, <2>2, <2>3, <1>1, XdpDataOfRecord DEF IInv
<1> QED
  BY <1>5, <1>6, <1>7, <1>8 DEF Channel!Deliver, Channel!HeadIsReady

LEMMA StepImplements ==
  ASSUME IInv, IInv', [Next]_vars
  PROVE  [Channel!Next]_(Channel!channel)
<1>1. ASSUME NEW c \in Cpus, FillRecord(c) \/ LoadBytes(c)
      PROVE  UNCHANGED Channel!channel
  BY <1>1 DEF FillRecord, LoadBytes, consumer, Channel!channel, pending, delivered
<1>2. CASE ReleaseSlot
  BY <1>2 DEF ReleaseSlot, producer, Channel!channel, pending, delivered
<1>3. CASE UNCHANGED vars
  BY <1>3 DEF vars, producer, consumer, Channel!channel, pending, delivered
<1>4. ASSUME NEW c \in Cpus, SubmitRecord(c) PROVE Channel!Next
  BY <1>4, SubmitImplements DEF Channel!Next
<1>5. ASSUME NEW c \in Cpus, NEW f \in Frames, Reserve(c, f) PROVE Channel!Next
  BY <1>5, ReserveImplements DEF Channel!Next
<1>6. CASE HandleRingbufSample
  BY <1>6, SampleImplements DEF Channel!Next
<1> QED
  BY <1>1, <1>2, <1>3, <1>4, <1>5, <1>6 DEF Next, CaptureStep, ConsumerStep

(* The slots, busy bits and positions of the ring, filled by many CPUs in  *)
(* several steps and reused, implement the first-in first-out channel of   *)
(* PacketChannel.                                                          *)
THEOREM RingImplementsChannel == Spec => Channel!Spec
<1>1. Init => Channel!Init
  <2> SUFFICES ASSUME Init PROVE Channel!Init
    OBVIOUS
  <2>1. IInv
    BY InitIInv
  <2>2. pending \in Seq(QueueRecord) /\ Len(pending) = 0
    BY <2>1, PendingType DEF PendingIsQueue, Init
  <2>3. pending = <<>>
    BY <2>2, EmptySeq
  <2> QED
    BY <2>3 DEF Init, Channel!Init, delivered
<1>2. IInv /\ IInv' /\ [Next]_vars => [Channel!Next]_(Channel!channel)
  BY StepImplements
<1> QED
  BY <1>1, <1>2, Invariance, PTL DEF Spec, Channel!Spec
=============================================================================
