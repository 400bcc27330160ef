------------------------- MODULE ScanPipelineProofs -------------------------
(***************************************************************************)
(* The threads of a scan share the list out without a gap or an overlap,   *)
(* the entries they store are never wrong, none is missing when the scan   *)
(* succeeds, and no file is given to the models twice, for every list,     *)
(* number of jobs and schedule.                                            *)
(***************************************************************************)
EXTENDS ScanPipeline, WellFoundedInduction, SequenceTheorems, TLAPS

(* The end of the k-th stretch in closed form. *)
Base == Count \div WorkerCount
Rem  == Count % WorkerCount
Offset(k) == k * Base + (IF k <= Rem THEN k ELSE Rem)

LEMMA WorkersAssumption ==
    /\ WorkerCount \in Nat \ {0}
    /\ Count \in Nat
  BY ListAssumption DEF WorkerCount, Parallel

LEMMA Division ==
    /\ Base \in Nat /\ Rem \in 0 .. WorkerCount - 1
    /\ Count = WorkerCount * Base + Rem
  <1> DEFINE n == Count
             d == WorkerCount
  <1>1. n \in Nat /\ d \in Nat \ {0}
    BY WorkersAssumption
  <1> HIDE DEF n, d
  <1>2. /\ n \div d \in Nat /\ n % d \in 0 .. d - 1
        /\ n = d * (n \div d) + (n % d)
    BY <1>1, SMT
  <1> QED
    BY <1>2 DEF Base, Rem, n, d

(* The stretches follow one another and end at the end of the list. *)
LEMMA Offsets ==
    /\ Offset(0) = 0 /\ Offset(WorkerCount) = Count
    /\ \A k \in 0 .. WorkerCount : Offset(k) \in 0 .. Count
    /\ \A k \in 0 .. WorkerCount - 1 :
          /\ Span(k + 1) \in Nat
          /\ Offset(k + 1) = Offset(k) + Span(k + 1)
  <1> DEFINE d == WorkerCount
             b == Base
             r == Rem
             c == Count
  <1>1. /\ d \in Nat \ {0} /\ b \in Nat /\ r \in 0 .. d - 1 /\ c \in Nat
        /\ c = d * b + r
    BY WorkersAssumption, Division
  <1>2. \A k : Offset(k) = k * b + (IF k <= r THEN k ELSE r)
    BY DEF Offset
  <1>3. \A k : Span(k) = b + (IF k <= r THEN 1 ELSE 0)
    BY DEF Span, Base, Rem
  <1> HIDE DEF d, b, r, c
  <1>4. Offset(0) = 0 /\ Offset(d) = c
    BY <1>1, <1>2
  <1>5. ASSUME NEW k \in 0 .. d
        PROVE  Offset(k) \in 0 .. c
    <2>1. k * b \in Nat /\ k * b <= d * b
      BY <1>1
    <2> QED BY <1>1, <1>2, <2>1
  <1>6. ASSUME NEW k \in 0 .. d - 1
        PROVE  Span(k + 1) \in Nat /\ Offset(k + 1) = Offset(k) + Span(k + 1)
    <2>1. k * b \in Nat /\ (k + 1) * b = k * b + b
      BY <1>1
    <2> QED BY <1>1, <1>2, <1>3, <2>1
  <1> QED
    BY <1>4, <1>5, <1>6 DEF d, c
-----------------------------------------------------------------------------
(* The inductive invariant.                                                *)

Holding == {"extract", "infer", "inferring", "store", "tally"}

(* Which threads there are, given where the main thread is. *)
Control ==
    /\ pc = "launch" => cursor = Offset(launched)
    /\ pc = "join" => failed
    /\ \A w \in Workers : w > launched => wpc[w] = "off"
    /\ \A w \in 1 .. launched : wpc[w] # "off"
    /\ pc = "idle" => \A w \in Workers : wpc[w] \in {"off", "ended"}

(* Each thread is within its stretch, and leaves it early only when the    *)
(* scan failed.                                                            *)
Within ==
    \A w \in 1 .. launched :
        /\ first[w] < at[w] /\ at[w] <= last[w] + 1 /\ last[w] <= cursor
        /\ wpc[w] \in Busy => at[w] <= last[w]
        /\ wpc[w] = "ended" /\ ~failed => at[w] = last[w] + 1

(* The stretches follow one another, *)
Ordered == \A v, w \in 1 .. launched : v < w => last[v] <= first[w]

(* and leave no item between them. *)
Covered ==
    pc = "launch" =>
        \A i \in 1 .. cursor : \E w \in 1 .. launched : first[w] < i /\ i <= last[w]

Held == \A w \in Workers : wpc[w] \in Holding => md[w] \in Entries

IndInv == TypeOK /\ Control /\ Within /\ Ordered /\ Covered /\ Held

LEMMA BusyThread ==
    ASSUME IndInv, NEW w \in Workers, wpc[w] \in Busy
    PROVE  /\ w \in 1 .. launched /\ at[w] \in Items
           /\ first[w] < at[w] /\ at[w] <= last[w]
           /\ File(w) \in Paths
  <1>1. w \in 1 .. launched
    BY DEF IndInv, TypeOK, MainOK, ThreadsOK, Control, Busy, Workers
  <1>2. first[w] < at[w] /\ at[w] <= last[w] /\ first[w] \in 0 .. Count
        /\ last[w] \in 0 .. Count /\ at[w] \in 0 .. Count + 1
    BY <1>1 DEF IndInv, TypeOK, MainOK, ThreadsOK, Within
  <1>3. at[w] \in Items
    BY <1>2, WorkersAssumption DEF Items
  <1> QED
    BY <1>1, <1>2, <1>3, ListAssumption DEF File, Items

LEMMA InitInv == Init => IndInv
  <1> SUFFICES ASSUME Init PROVE IndInv
    OBVIOUS
  <1> USE DEF Init
  <1>1. TypeOK
    <2>1. DataOK /\ HandsOK
      BY DEF DataOK, HandsOK
    <2>2. MainOK /\ ThreadsOK /\ TalliesOK
      BY WorkersAssumption DEF MainOK, ThreadsOK, TalliesOK
    <2>3. FlagsOK
      BY DEF FlagsOK
    <2> QED BY <2>1, <2>2, <2>3 DEF TypeOK
  <1>2. Control /\ Within /\ Ordered /\ Covered /\ Held
    BY DEF Control, Within, Ordered, Covered, Held, Holding
  <1> QED BY <1>1, <1>2 DEF IndInv

(* The steps of a thread leave the other threads and the stretches alone.  *)
LEMMA ThreadStep ==
    ASSUME IndInv, NEW w \in Workers, wpc[w] \in Busy \cup {"check"},
           UNCHANGED main,
           at' \in [Workers -> 0 .. Count + 1],
           wpc' \in [Workers -> Busy \cup {"off", "check", "ended"}],
           \A v \in Workers \ {w} : at'[v] = at[v] /\ wpc'[v] = wpc[v],
           first[w] < at'[w], at'[w] <= last[w] + 1,
           wpc'[w] # "off",
           wpc'[w] \in Busy => at'[w] <= last[w],
           failed => failed',
           wpc'[w] = "ended" /\ ~failed' => at'[w] = last[w] + 1
    PROVE  Control' /\ Within' /\ Ordered' /\ Covered'
  <1>1. w \in 1 .. launched /\ pc # "idle"
    BY DEF IndInv, TypeOK, MainOK, ThreadsOK, Control, Busy, Workers
  <1>2. /\ pc' = pc /\ launched' = launched /\ cursor' = cursor
        /\ first' = first /\ last' = last
    BY DEF main
  <1>3. 1 .. launched \subseteq Workers
    BY WorkersAssumption DEF IndInv, TypeOK, MainOK, Workers
  <1>4. Control'
    BY <1>1, <1>2, <1>3 DEF IndInv, Control, Offset
  <1>5. Within'
    BY <1>1, <1>2, <1>3 DEF IndInv, Within
  <1>6. Ordered' /\ Covered'
    BY <1>2 DEF IndInv, Ordered, Covered
  <1> QED BY <1>4, <1>5, <1>6
-----------------------------------------------------------------------------
(* Every action keeps the invariant.                                       *)

LEMMA UserInv == IndInv /\ (UserEdits \/ UserCancels) => IndInv'
  <1> SUFFICES ASSUME IndInv, UserEdits \/ UserCancels PROVE IndInv'
    OBVIOUS
  <1>1. UNCHANGED <<cache, at, wpc, md, main, tallies, failed, cancelled>>
    BY DEF UserEdits, UserCancels, flags
  <1>2. version' \in [Paths -> Nat]
    BY DEF UserEdits, UserCancels, IndInv, TypeOK, DataOK
  <1>3. TypeOK'
    <2>1. DataOK'
      BY <1>1, <1>2 DEF IndInv, TypeOK, DataOK
    <2>2. MainOK' /\ ThreadsOK' /\ HandsOK' /\ TalliesOK'
      BY <1>1 DEF IndInv, TypeOK, MainOK, ThreadsOK, HandsOK, TalliesOK, main, tallies
    <2>3. cancel' = TRUE \/ cancel' = cancel
      BY DEF UserEdits, UserCancels, flags
    <2>4. FlagsOK'
      BY <1>1, <2>3 DEF IndInv, TypeOK, FlagsOK
    <2> QED BY <2>1, <2>2, <2>4 DEF TypeOK
  <1>4. Control' /\ Within' /\ Ordered' /\ Covered' /\ Held'
    BY <1>1 DEF IndInv, Control, Within, Ordered, Covered, Held, Offset, main
  <1> QED BY <1>3, <1>4 DEF IndInv

LEMMA BeginInv == IndInv /\ Begin => IndInv'
  <1> SUFFICES ASSUME IndInv, Begin PROVE IndInv'
    OBVIOUS
  <1>0. UNCHANGED <<version, cache, first, last, at, md>> /\ scans' \in Nat /\ cancel' = FALSE
    BY DEF Begin, IndInv, TypeOK, MainOK
  <1>1. CASE pc' = "launch" /\ launched' = 0
    <2>1. /\ cursor' = 0 /\ result' = "none" /\ wpc' = [w \in Workers |-> "off"]
          /\ failed' = FALSE /\ cancelled' = FALSE
          /\ scanned' = 0 /\ cached' = 0 /\ evaluated' = 0 /\ mlFailures' = 0
      BY <1>1 DEF Begin
    <2>2. TypeOK'
      <3>1. DataOK' /\ HandsOK'
        BY <1>0 DEF IndInv, TypeOK, DataOK, HandsOK
      <3>2. MainOK' /\ ThreadsOK'
        BY <1>0, <1>1, <2>1, WorkersAssumption DEF IndInv, TypeOK, MainOK, ThreadsOK
      <3>3. TalliesOK'
        BY <2>1 DEF TalliesOK
      <3>4. FlagsOK'
        BY <1>0, <2>1 DEF FlagsOK
      <3> QED BY <3>1, <3>2, <3>3, <3>4 DEF TypeOK
    <2>3. Control' /\ Within' /\ Ordered' /\ Covered' /\ Held'
      BY <1>1, <2>1, Offsets DEF Control, Within, Ordered, Covered, Held, Holding, Offset
    <2> QED BY <2>2, <2>3 DEF IndInv
  <1>2. CASE ~(pc' = "launch" /\ launched' = 0)
    <2>1. /\ UNCHANGED <<pc, cursor, launched, wpc, failed, cancelled, tallies>>
          /\ result' = "failed" /\ pc = "idle"
      BY <1>2 DEF Begin
    <2>2. TypeOK'
      <3>1. DataOK' /\ HandsOK' /\ MainOK' /\ ThreadsOK' /\ TalliesOK'
        BY <1>0, <2>1 DEF IndInv, TypeOK, DataOK, HandsOK, MainOK, ThreadsOK, TalliesOK, tallies
      <3>2. FlagsOK'
        BY <1>0, <2>1 DEF IndInv, TypeOK, FlagsOK
      <3> QED BY <3>1, <3>2 DEF TypeOK
    <2>3. Control' /\ Within' /\ Ordered' /\ Covered' /\ Held'
      BY <1>0, <2>1 DEF IndInv, Control, Within, Ordered, Covered, Held, Offset
    <2> QED BY <2>2, <2>3 DEF IndInv
  <1> QED BY <1>1, <1>2

LEMMA LaunchInv == IndInv /\ Launch => IndInv'
  <1> SUFFICES ASSUME IndInv, Launch PROVE IndInv'
    OBVIOUS
  <1> DEFINE n == launched + 1
             end == cursor + Span(n)
  <1>1. /\ pc = "launch" /\ launched \in 0 .. WorkerCount - 1 /\ n \in Workers
        /\ cursor = Offset(launched)
    BY WorkersAssumption DEF Launch, IndInv, TypeOK, MainOK, Control, Workers
  <1>2. /\ Span(n) \in Nat /\ end = Offset(n) /\ end \in 0 .. Count /\ cursor \in 0 .. Count
        /\ cursor <= end
    <2>1. Offset(launched) \in 0 .. Count /\ Offset(n) \in 0 .. Count /\ Span(n) \in Nat
          /\ Offset(n) = Offset(launched) + Span(n)
      <3>1. launched \in 0 .. WorkerCount /\ n \in 0 .. WorkerCount
        BY <1>1, WorkersAssumption
      <3> QED BY <1>1, <3>1, Offsets
    <2> HIDE DEF n
    <2> QED BY <1>1, <2>1, WorkersAssumption
  <1>3. /\ first' = [first EXCEPT ![n] = cursor] /\ last' = [last EXCEPT ![n] = end]
        /\ at' = [at EXCEPT ![n] = cursor + 1] /\ cursor' = end
        /\ UNCHANGED <<version, cache, md, scans, result, cancelled, cancel, tallies>>
    BY DEF Launch
  <1>4. \A w \in 1 .. launched : w \in Workers /\ w # n
    BY <1>1, WorkersAssumption DEF Workers
  <1> HIDE DEF end
  <1>5. \/ /\ launched' = n /\ wpc' = [wpc EXCEPT ![n] = "check"] /\ UNCHANGED <<pc, failed>>
        \/ failed' = TRUE /\ pc' = "join" /\ UNCHANGED <<launched, wpc>>
    BY DEF Launch
  <1>6. TypeOK'
    <2>1. ThreadsOK'
      BY <1>1, <1>2, <1>3, <1>5, WorkersAssumption DEF IndInv, TypeOK, ThreadsOK
    <2>2. MainOK'
      BY <1>1, <1>2, <1>3, <1>5, WorkersAssumption DEF IndInv, TypeOK, MainOK
    <2>3. DataOK' /\ HandsOK' /\ TalliesOK'
      BY <1>3 DEF IndInv, TypeOK, DataOK, HandsOK, TalliesOK, tallies
    <2>4. FlagsOK'
      BY <1>3, <1>5 DEF IndInv, TypeOK, FlagsOK
    <2> QED BY <2>1, <2>2, <2>3, <2>4 DEF TypeOK
  <1>7. Held'
    BY <1>1, <1>3, <1>5 DEF IndInv, TypeOK, ThreadsOK, HandsOK, Held, Holding
  <1>8. /\ first'[n] = cursor /\ last'[n] = end /\ at'[n] = cursor + 1
        /\ \A w \in 1 .. launched :
              first'[w] = first[w] /\ last'[w] = last[w] /\ at'[w] = at[w] /\ wpc'[w] = wpc[w]
    BY <1>1, <1>3, <1>4, <1>5 DEF IndInv, TypeOK, ThreadsOK
  <1>9. CASE launched' = n /\ wpc' = [wpc EXCEPT ![n] = "check"] /\ UNCHANGED <<pc, failed>>
    <2>1. wpc'[n] = "check" /\ \A w \in Workers \ {n} : wpc'[w] = wpc[w]
      BY <1>1, <1>9 DEF IndInv, TypeOK, ThreadsOK
    <2>2. 1 .. launched' = (1 .. launched) \cup {n}
      BY <1>1, <1>9, WorkersAssumption
    <2>3. Control'
      <3>1. \A w \in Workers : w > n => w > launched /\ w # n
        BY <1>1, WorkersAssumption DEF Workers
      <3>2. Offset(launched)' = Offset(launched')
        BY DEF Offset
      <3> HIDE DEF n
      <3>3. cursor' = Offset(n) /\ launched' = n
        BY <1>2, <1>3, <1>9
      <3>4. \A w \in 1 .. launched' : wpc'[w] # "off"
        BY <1>4, <2>1, <2>2 DEF IndInv, Control
      <3>5. \A w \in Workers : w > launched' => wpc'[w] = "off"
        BY <2>1, <3>1, <3>3 DEF IndInv, Control
      <3> QED BY <1>1, <1>9, <3>2, <3>3, <3>4, <3>5 DEF Control
    <2>4. Within'
      <3>1. \A w \in 1 .. launched : last[w] <= cursor /\ last[w] \in 0 .. Count
        BY <1>4 DEF IndInv, Within, TypeOK, ThreadsOK
      <3>2. \A w \in 1 .. launched : last'[w] <= cursor'
        BY <1>2, <1>3, <1>8, <3>1, WorkersAssumption
      <3>3. ASSUME NEW w \in 1 .. launched'
            PROVE  /\ first'[w] < at'[w] /\ at'[w] <= last'[w] + 1 /\ last'[w] <= cursor'
                   /\ wpc'[w] \in Busy => at'[w] <= last'[w]
                   /\ wpc'[w] = "ended" /\ ~failed' => at'[w] = last'[w] + 1
        <4>1. CASE w = n
          BY <4>1, <1>2, <1>3, <1>8, <2>1 DEF Busy
        <4>2. CASE w \in 1 .. launched
          BY <4>2, <1>8, <1>9, <3>2 DEF IndInv, Within
        <4> QED BY <2>2, <4>1, <4>2
      <3> QED BY <3>3 DEF Within
    <2>5. Ordered'
      <3>1. \A w \in 1 .. launched : last[w] <= cursor
        BY DEF IndInv, Within
      <3>2. ASSUME NEW v \in 1 .. launched', NEW w \in 1 .. launched', v < w
            PROVE  last'[v] <= first'[w]
        <4>1. CASE w = n
          <5>1. v \in 1 .. launched
            BY <1>1, <2>2, <3>2, <4>1
          <5> QED BY <4>1, <5>1, <1>8, <3>1
        <4>2. CASE w \in 1 .. launched
          <5>1. v \in 1 .. launched
            BY <1>1, <2>2, <3>2, <4>2
          <5> QED BY <4>2, <5>1, <1>8, <3>2 DEF IndInv, Ordered
        <4> QED BY <2>2, <4>1, <4>2
      <3> QED BY <3>2 DEF Ordered
    <2>6. Covered'
      <3>1. ASSUME NEW i \in 1 .. cursor'
            PROVE  \E w \in 1 .. launched' : first'[w] < i /\ i <= last'[w]
        <4>1. CASE i <= cursor
          <5>1. i \in 1 .. cursor
            BY <1>2, <1>3, <4>1
          <5>2. PICK w \in 1 .. launched : first[w] < i /\ i <= last[w]
            BY <1>1, <5>1 DEF IndInv, Covered
          <5> QED BY <1>8, <2>2, <5>2
        <4>2. CASE cursor < i
          <5> HIDE DEF n
          <5> QED BY <1>3, <1>8, <2>2, <4>2
        <4> QED BY <1>2, <1>3, <4>1, <4>2
      <3> QED BY <3>1 DEF Covered
    <2> QED BY <1>6, <1>7, <2>3, <2>4, <2>5, <2>6 DEF IndInv
  <1>10. CASE failed' = TRUE /\ pc' = "join" /\ UNCHANGED <<launched, wpc>>
    <2>1. Control'
      BY <1>10 DEF IndInv, Control
    <2>2. Within'
      <3>1. \A w \in 1 .. launched : last[w] <= cursor /\ last[w] \in 0 .. Count
        BY <1>4 DEF IndInv, Within, TypeOK, ThreadsOK
      <3>2. \A w \in 1 .. launched : last'[w] <= cursor'
        BY <1>2, <1>3, <1>8, <3>1, WorkersAssumption
      <3> QED BY <1>8, <1>10, <3>2 DEF IndInv, Within
    <2>3. Ordered' /\ Covered'
      BY <1>8, <1>10 DEF IndInv, Ordered, Covered
    <2> QED BY <1>6, <1>7, <2>1, <2>2, <2>3 DEF IndInv
  <1> QED BY <1>5, <1>9, <1>10

LEMMA JoinInv == IndInv /\ Join => IndInv'
  <1> SUFFICES ASSUME IndInv, Join PROVE IndInv'
    OBVIOUS
  <1>1. /\ UNCHANGED <<version, cache, cursor, launched, first, last, at, wpc, md, scans>>
        /\ UNCHANGED <<tallies, flags>> /\ pc' = "idle"
        /\ \A w \in 1 .. launched : wpc[w] = "ended"
    BY DEF Join, Ended
  <1>2. result' \in {"none", "ok", "cancelled", "failed"}
    BY DEF Join
  <1>3. TypeOK'
    <2>1. DataOK' /\ HandsOK' /\ MainOK' /\ ThreadsOK' /\ TalliesOK'
      BY <1>1, <1>2 DEF IndInv, TypeOK, DataOK, HandsOK, MainOK, ThreadsOK, TalliesOK, tallies
    <2>2. FlagsOK'
      BY <1>1 DEF IndInv, TypeOK, FlagsOK, flags
    <2> QED BY <2>1, <2>2 DEF TypeOK
  <1>4. \A w \in Workers : wpc'[w] \in {"off", "ended"}
    <2>1. \A w \in Workers : w \in 1 .. launched \/ w > launched
      BY DEF IndInv, TypeOK, MainOK, Workers
    <2> QED BY <1>1, <2>1 DEF IndInv, Control
  <1>5. Control' /\ Within' /\ Ordered' /\ Covered' /\ Held'
    BY <1>1, <1>4 DEF IndInv, Control, Within, Ordered, Covered, Held, flags
  <1> QED BY <1>3, <1>5 DEF IndInv

LEMMA SeqIntro ==
    ASSUME NEW S, NEW n \in Nat, NEW f \in [1 .. n -> S]
    PROVE  f \in Seq(S)
  BY SeqDef

LEMMA UpdatedType ==
    ASSUME NEW c \in Seq(Entries), NEW e \in Entries
    PROVE  Updated(c, e) \in Seq(Entries)
  <1>1. CASE Slots(c, e.path) = {}
    BY <1>1 DEF Updated
  <1>2. CASE Slots(c, e.path) # {}
    <2> DEFINE f == [i \in DOMAIN c |-> IF i = Slot(c, e.path) THEN e ELSE c[i]]
    <2>1. DOMAIN c = 1 .. Len(c) /\ Len(c) \in Nat /\ \A i \in DOMAIN c : c[i] \in Entries
      BY ElementOfSeq, LenProperties
    <2>2. f \in [1 .. Len(c) -> Entries]
      BY <2>1
    <2>3. f \in Seq(Entries)
      BY <2>1, <2>2, SeqIntro
    <2> QED BY <1>2, <2>3 DEF Updated
  <1> QED BY <1>1, <1>2

Less == {rs \in Nat \X Nat : rs[1] < rs[2]}

LEMMA SlotIn ==
    ASSUME NEW c \in Seq(Entries), NEW p, Slots(c, p) # {}
    PROVE  /\ Slot(c, p) \in DOMAIN c /\ c[Slot(c, p)] \in Entries
           /\ Key[c[Slot(c, p)].path] = Key[p]
  <1>1. DOMAIN c = 1 .. Len(c) /\ Len(c) \in Nat /\ \A i \in DOMAIN c : c[i] \in Entries
    BY ElementOfSeq, LenProperties
  <1>2. \E i \in Slots(c, p) : \A j \in Slots(c, p) : i <= j
    <2>1. Slots(c, p) \subseteq 1 .. Len(c)
      BY <1>1 DEF Slots
    <2>2. IsWellFoundedOn(Less, Nat)
      BY NatLessThanWellFounded DEF OpToRel, Less
    <2>3. PICK i \in Slots(c, p) : \A j \in Slots(c, p) : ~(<<j, i>> \in Less)
      BY <1>1, <2>1, <2>2, WFMin
    <2>4. ASSUME NEW j \in Slots(c, p) PROVE i <= j
      <3>1. i \in Nat /\ j \in Nat
        BY <1>1, <2>1
      <3>2. ~(j < i)
        BY <2>3, <3>1 DEF Less
      <3> QED BY <3>1, <3>2
    <2> QED BY <2>4
  <1>3. Slot(c, p) \in Slots(c, p)
    BY <1>2 DEF Slot
  <1> QED BY <1>1, <1>3 DEF Slots

(* What the actions of a thread have in common. *)
LEMMA ThreadInv ==
    ASSUME IndInv, NEW w \in Workers, NEW label \in Busy \cup {"check", "ended"},
           wpc[w] \in Busy \cup {"check"},
           UNCHANGED main, UNCHANGED version,
           Goto(w, label),
           at' = at \/ (wpc[w] \in Busy /\ label = "check" /\ at' = [at EXCEPT ![w] = @ + 1]),
           label \in Busy => wpc[w] \in Busy \/ at[w] <= last[w],
           label = "ended" => wpc[w] = "check" /\ (failed' \/ at[w] > last[w]),
           failed => failed',
           cache' \in Seq(Entries),
           md' \in [Workers -> Entries \cup {NoEntry}],
           \A v \in Workers \ {w} : md'[v] = md[v],
           label \in Holding => md'[w] \in Entries,
           FlagsOK', TalliesOK'
    PROVE  IndInv'
  <1>1. w \in 1 .. launched
    BY DEF IndInv, TypeOK, MainOK, ThreadsOK, Control, Busy, Workers
  <1>2. /\ first[w] < at[w] /\ at[w] <= last[w] + 1 /\ first[w] \in 0 .. Count
        /\ last[w] \in 0 .. Count /\ at[w] \in 0 .. Count + 1
        /\ wpc[w] \in Busy => at[w] <= last[w]
    BY <1>1 DEF IndInv, TypeOK, ThreadsOK, Within
  <1>3. /\ wpc' = [wpc EXCEPT ![w] = label] /\ wpc'[w] = label
        /\ wpc' \in [Workers -> Busy \cup {"off", "check", "ended"}]
    BY DEF Goto, IndInv, TypeOK, ThreadsOK
  <1>4. /\ at' \in [Workers -> 0 .. Count + 1]
        /\ at'[w] = at[w] \/ (wpc[w] \in Busy /\ label = "check" /\ at'[w] = at[w] + 1)
        /\ \A v \in Workers \ {w} : at'[v] = at[v] /\ wpc'[v] = wpc[v]
    <2>1. at \in [Workers -> 0 .. Count + 1] /\ wpc \in [Workers -> Busy \cup {"off", "check", "ended"}]
      BY DEF IndInv, TypeOK, ThreadsOK
    <2>2. wpc[w] \in Busy => at[w] + 1 \in 0 .. Count + 1
      BY <1>2, WorkersAssumption
    <2>3. \A v \in Workers \ {w} : wpc'[v] = wpc[v]
      BY <1>3, <2>1
    <2>4. CASE at' = at
      BY <2>1, <2>3, <2>4
    <2>5. CASE wpc[w] \in Busy /\ label = "check" /\ at' = [at EXCEPT ![w] = @ + 1]
      BY <2>1, <2>2, <2>3, <2>5
    <2> QED BY <2>4, <2>5
  <1>5. /\ first[w] < at'[w] /\ at'[w] <= last[w] + 1 /\ wpc'[w] # "off"
        /\ wpc'[w] \in Busy => at'[w] <= last[w]
        /\ wpc'[w] = "ended" /\ ~failed' => at'[w] = last[w] + 1
    BY <1>2, <1>3, <1>4 DEF Busy
  <1>6. Control' /\ Within' /\ Ordered' /\ Covered'
    BY <1>3, <1>4, <1>5, ThreadStep
  <1>7. TypeOK'
    BY <1>3, <1>4 DEF IndInv, TypeOK, DataOK, MainOK, ThreadsOK, HandsOK, main
  <1>8. Held'
    BY <1>3, <1>4 DEF IndInv, Held
  <1> QED BY <1>6, <1>7, <1>8 DEF IndInv

LEMMA WorkInv ==
    ASSUME IndInv, NEW w \in Workers, Work(w)
    PROVE  IndInv'
  <1> USE DEF Busy, Holding
  <1>1. /\ version \in [Paths -> Nat] /\ cache \in Seq(Entries)
        /\ md \in [Workers -> Entries \cup {NoEntry}] /\ FlagsOK /\ TalliesOK
    BY DEF IndInv, TypeOK, DataOK, HandsOK
  <1>2. CASE Check(w)
    <2>1. PICK label \in {"ended", "scan"} :
             /\ Goto(w, label)
             /\ label = "ended" => failed' \/ at[w] > last[w]
             /\ label = "scan" => ~(at[w] > last[w])
      BY <1>2 DEF Check, flags
    <2>2. wpc[w] = "check" /\ UNCHANGED <<version, cache, at, md, main, tallies>>
      BY <1>2 DEF Check
    <2>3. FlagsOK'
      <3>1. CASE UNCHANGED flags
        BY <1>1, <3>1 DEF flags, FlagsOK
      <3>2. CASE failed' = TRUE /\ cancelled' = (cancelled \/ ~failed) /\ UNCHANGED cancel
        BY <1>1, <3>2 DEF FlagsOK
      <3> QED BY <1>2, <3>1, <3>2 DEF Check
    <2>4. failed => failed'
      BY <1>2 DEF Check, flags
    <2>5. at[w] \in Nat /\ last[w] \in Nat
      BY WorkersAssumption DEF IndInv, TypeOK, ThreadsOK
    <2>6. TalliesOK'
      BY <1>1, <2>2 DEF TalliesOK, tallies
    <2> QED BY <1>1, <2>1, <2>2, <2>3, <2>4, <2>5, <2>6, ThreadInv
  <1>3. CASE CountFile(w)
    <2>1. PICK label \in {"lookup", "check"} :
             /\ Goto(w, label)
             /\ at' = at \/ (label = "check" /\ at' = [at EXCEPT ![w] = @ + 1])
      BY <1>3 DEF CountFile
    <2>2. /\ wpc[w] = "scan" /\ scanned' = scanned + 1
          /\ UNCHANGED <<version, cache, md, cached, evaluated, mlFailures, main, flags>>
      BY <1>3 DEF CountFile
    <2>3. FlagsOK'
      BY <1>1, <2>2 DEF FlagsOK, flags
    <2>4. TalliesOK'
      BY <1>1, <2>2 DEF TalliesOK
    <2>5. failed => failed'
      BY <2>2 DEF flags
    <2> QED BY <1>1, <2>1, <2>2, <2>3, <2>4, <2>5, ThreadInv
  <1>4. CASE Lookup(w)
    <2>1. wpc[w] = "lookup" /\ UNCHANGED <<version, cache, at, main, tallies, flags>>
      BY <1>4 DEF Lookup
    <2>2. PICK label \in {"infer", "extract"}, e \in Entries :
             Goto(w, label) /\ md' = [md EXCEPT ![w] = e]
      <3>1. File(w) \in Paths /\ version[File(w)] \in Nat
        BY <1>1, <2>1, BusyThread
      <3>2. CASE HasValid(File(w))
        <4> DEFINE e == cache[Slot(cache, File(w))]
        <4>1. e \in Entries
          BY <1>1, <3>2, SlotIn DEF HasValid
        <4>2. Entry(File(w), version[File(w)], e.content, e.ml) \in Entries
          BY <3>1, <4>1 DEF Entry, Entries
        <4> QED BY <1>4, <3>2, <4>2 DEF Lookup
      <3>3. CASE ~HasValid(File(w))
        <4>1. Entry(File(w), version[File(w)], Content(File(w)), FALSE) \in Entries
          BY <3>1 DEF Entry, Entries, Content, Contents
        <4> QED BY <1>4, <3>3, <4>1 DEF Lookup
      <3> QED BY <3>2, <3>3
    <2>3. FlagsOK' /\ (failed => failed')
      BY <1>1, <2>1 DEF FlagsOK, flags
    <2>4. TalliesOK'
      BY <1>1, <2>1 DEF TalliesOK, tallies
    <2>5. /\ md' \in [Workers -> Entries \cup {NoEntry}] /\ md'[w] \in Entries
          /\ \A v \in Workers \ {w} : md'[v] = md[v]
      BY <1>1, <2>2
    <2> QED BY <1>1, <2>1, <2>2, <2>3, <2>4, <2>5, ThreadInv
  <1>5. CASE Extract(w)
    <2>1. wpc[w] = "extract" /\ UNCHANGED <<version, cache, at, main, tallies, flags>>
      BY <1>5 DEF Extract
    <2>2. PICK e \in Entries : Goto(w, "infer") /\ md' = [md EXCEPT ![w] = e]
      <3>1. File(w) \in Paths /\ version[File(w)] \in Nat /\ md[w] \in Entries
        BY <1>1, <2>1, BusyThread DEF IndInv, Held
      <3>2. Entry(File(w), md[w].stamp, Content(File(w)), FALSE) \in Entries
        BY <3>1 DEF Entry, Entries, Content, Contents
      <3> QED BY <1>5, <3>2 DEF Extract
    <2>3. FlagsOK' /\ (failed => failed')
      BY <1>1, <2>1 DEF FlagsOK, flags
    <2>4. TalliesOK'
      BY <1>1, <2>1 DEF TalliesOK, tallies
    <2>5. /\ md' \in [Workers -> Entries \cup {NoEntry}] /\ md'[w] \in Entries
          /\ \A v \in Workers \ {w} : md'[v] = md[v]
      BY <1>1, <2>2
    <2> QED BY <1>1, <2>1, <2>2, <2>3, <2>4, <2>5, ThreadInv
  <1>6. CASE StartInference(w)
    <2>1. /\ wpc[w] = "infer"
          /\ UNCHANGED <<version, cache, at, md, scanned, cached, mlFailures, failed, cancel, main>>
      BY <1>6 DEF StartInference
    <2>2. PICK label \in {"inferring", "store"} :
             Goto(w, label) /\ (evaluated' = evaluated + 1 \/ evaluated' = evaluated)
      BY <1>6 DEF StartInference
    <2>3. FlagsOK' /\ (failed => failed')
      <3>1. cancelled' = (cancelled \/ (Wanted(w) /\ cancel))
        BY <1>6 DEF StartInference
      <3>2. Wanted(w) \in BOOLEAN
        BY DEF Wanted
      <3> QED BY <1>1, <2>1, <3>1, <3>2 DEF FlagsOK
    <2>4. TalliesOK'
      BY <1>1, <2>1, <2>2 DEF TalliesOK
    <2>5. md[w] \in Entries
      BY <2>1 DEF IndInv, Held
    <2> QED BY <1>1, <2>1, <2>2, <2>3, <2>4, <2>5, ThreadInv
  <1>7. CASE Infer(w)
    <2>1. /\ wpc[w] = "inferring"
          /\ UNCHANGED <<version, cache, at, scanned, cached, evaluated, main, flags>>
      BY <1>7 DEF Infer
    <2>2. PICK e \in Entries : Goto(w, "store") /\ md' = [md EXCEPT ![w] = e]
      <3>1. File(w) \in Paths /\ md[w] \in Entries
        BY <1>1, <2>1, BusyThread DEF IndInv, Held
      <3>2. Entry(File(w), md[w].stamp, md[w].content, TRUE) \in Entries
        BY <3>1 DEF Entry, Entries
      <3>3. md = [md EXCEPT ![w] = md[w]]
        BY <1>1
      <3> QED BY <1>7, <3>1, <3>2, <3>3 DEF Infer
    <2>3. FlagsOK' /\ (failed => failed')
      BY <1>1, <2>1 DEF FlagsOK, flags
    <2>4. TalliesOK'
      <3>1. mlFailures' = mlFailures \/ mlFailures' = mlFailures + 1
        BY <1>7 DEF Infer
      <3> QED BY <1>1, <2>1, <3>1 DEF TalliesOK
    <2>5. /\ md' \in [Workers -> Entries \cup {NoEntry}] /\ md'[w] \in Entries
          /\ \A v \in Workers \ {w} : md'[v] = md[v]
      BY <1>1, <2>2
    <2> QED BY <1>1, <2>1, <2>2, <2>3, <2>4, <2>5, ThreadInv
  <1>8. CASE Store(w)
    <2>1. /\ wpc[w] = "store" /\ cache' = Updated(cache, md[w]) /\ Goto(w, "tally")
          /\ UNCHANGED <<version, at, md, main, tallies, flags>>
      BY <1>8 DEF Store
    <2>2. md[w] \in Entries
      BY <2>1 DEF IndInv, Held
    <2>3. cache' \in Seq(Entries)
      BY <1>1, <2>1, <2>2, UpdatedType
    <2>4. FlagsOK' /\ (failed => failed')
      BY <1>1, <2>1 DEF FlagsOK, flags
    <2>5. TalliesOK'
      BY <1>1, <2>1 DEF TalliesOK, tallies
    <2> QED BY <1>1, <2>1, <2>2, <2>3, <2>4, <2>5, ThreadInv
  <1>9. CASE Tally(w)
    <2>1. /\ wpc[w] = "tally" /\ Goto(w, "check") /\ at' = [at EXCEPT ![w] = @ + 1]
          /\ cached' = cached + 1
          /\ UNCHANGED <<version, cache, md, scanned, evaluated, mlFailures, main, flags>>
      BY <1>9 DEF Tally
    <2>2. FlagsOK' /\ (failed => failed')
      BY <1>1, <2>1 DEF FlagsOK, flags
    <2>3. TalliesOK'
      BY <1>1, <2>1 DEF TalliesOK
    <2> QED BY <1>1, <2>1, <2>2, <2>3, ThreadInv
  <1> QED BY <1>2, <1>3, <1>4, <1>5, <1>6, <1>7, <1>8, <1>9 DEF Work

LEMMA NextInv == IndInv /\ [Next]_vars => IndInv'
  <1> SUFFICES ASSUME IndInv, [Next]_vars PROVE IndInv'
    OBVIOUS
  <1>1. CASE UNCHANGED vars
    <2>1. UNCHANGED <<main, tallies, flags, version, cache, at, wpc, md>>
      BY <1>1 DEF vars, main, tallies, flags
    <2>2. TypeOK'
      BY <2>1 DEF IndInv, TypeOK, DataOK, MainOK, ThreadsOK, HandsOK, FlagsOK, TalliesOK,
                  main, tallies, flags
    <2>3. Control' /\ Within' /\ Ordered' /\ Covered' /\ Held'
      BY <2>1 DEF IndInv, Control, Within, Ordered, Covered, Held, Offset, main, flags
    <2> QED BY <2>2, <2>3 DEF IndInv
  <1>2. CASE Next
    BY <1>2, UserInv, BeginInv, LaunchInv, JoinInv, WorkInv DEF Next, User, Main
  <1> QED BY <1>1, <1>2

(* The kinds of the variables, and that no thread reads past the end of    *)
(* the list, whatever its length and the number of jobs.                   *)
THEOREM TypeCorrect == Spec => []TypeOK
  <1>1. IndInv => TypeOK
    BY DEF IndInv
  <1> QED BY <1>1, InitInv, NextInv, PTL DEF Spec, Safety

(* When the scan returns no thread of it is left. *)
THEOREM NoThreadLeft == Spec => []NoWorkerOutlivesScan
  <1>1. IndInv => NoWorkerOutlivesScan
    BY DEF IndInv, Control, NoWorkerOutlivesScan
  <1> QED BY <1>1, InitInv, NextInv, PTL DEF Spec, Safety
-----------------------------------------------------------------------------
(* The threads share the list out as the pool promises.                    *)

Todo    == Items \ (InHand \cup Finished)
Outcome == IF pc = "idle" THEN result ELSE "busy"

LEMMA ThreadFacts ==
    ASSUME IndInv, NEW w \in 1 .. launched
    PROVE  /\ w \in Workers
           /\ first[w] \in 0 .. Count /\ last[w] \in 0 .. Count /\ at[w] \in 0 .. Count + 1
           /\ first[w] < at[w] /\ at[w] <= last[w] + 1
           /\ wpc[w] \in Busy => at[w] <= last[w]
  <1>1. w \in Workers
    BY WorkersAssumption DEF IndInv, TypeOK, MainOK, Workers
  <1> QED BY <1>1 DEF IndInv, TypeOK, ThreadsOK, Within

(* The stretches of two threads have no item in common. *)
LEMMA Apart ==
    ASSUME IndInv, NEW v \in 1 .. launched, NEW w \in 1 .. launched, NEW i \in Int,
           first[v] < i, i <= last[v], first[w] < i, i <= last[w]
    PROVE  v = w
  <1>1. /\ first[v] \in Int /\ last[v] \in Int /\ first[w] \in Int /\ last[w] \in Int
        /\ v \in Int /\ w \in Int
    BY ThreadFacts, WorkersAssumption DEF IndInv, TypeOK, MainOK
  <1>2. ~(v < w) /\ ~(w < v)
    BY <1>1 DEF IndInv, Ordered
  <1> QED BY <1>1, <1>2

(* The item of a busy thread is in its hands alone. *)
LEMMA OneHand ==
    ASSUME IndInv, NEW w \in 1 .. launched, at[w] <= last[w]
    PROVE  /\ at[w] \in Items /\ at[w] \notin Finished
           /\ \A v \in 1 .. launched \ {w} : wpc[v] \in Busy => at[v] # at[w]
  <1>1. /\ at[w] \in Items /\ first[w] < at[w] /\ at[w] \in Int
    BY ThreadFacts, WorkersAssumption DEF Items
  <1>2. ASSUME NEW v \in 1 .. launched, first[v] < at[w], at[w] < at[v] PROVE FALSE
    <2>1. at[w] <= last[v]
      BY <1>1, <1>2, ThreadFacts
    <2>2. v = w
      BY <1>1, <1>2, <2>1, Apart
    <2> QED BY <1>1, <1>2, <2>2
  <1>3. ASSUME NEW v \in 1 .. launched \ {w}, wpc[v] \in Busy, at[v] = at[w] PROVE FALSE
    <2>1. first[v] < at[w] /\ at[w] <= last[v]
      BY <1>3, ThreadFacts
    <2> QED BY <1>1, <1>3, <2>1, Apart
  <1> QED BY <1>1, <1>2, <1>3 DEF Finished

LEMMA InitIsPoolInit == Init => Pool!PoolInit
  BY DEF Init, Pool!PoolInit, InHand, Finished

(* Steps that neither take nor finish an item. *)
LEMMA Quiet ==
    ASSUME UNCHANGED <<launched, first, at>>,
           \A w \in 1 .. launched : wpc'[w] \in Busy <=> wpc[w] \in Busy
    PROVE  InHand' = InHand /\ Finished' = Finished
  BY DEF InHand, Finished

LEMMA TakeStep ==
    ASSUME IndInv, NEW w \in 1 .. launched, wpc[w] \notin Busy, at[w] <= last[w],
           UNCHANGED <<launched, first, at>>, wpc' = [wpc EXCEPT ![w] = "scan"],
           pc # "idle", UNCHANGED <<pc, result>>
    PROVE  Pool!Take
  <1>1. wpc'[w] = "scan" /\ \A v \in 1 .. launched \ {w} : wpc'[v] = wpc[v]
    BY ThreadFacts DEF IndInv, TypeOK, ThreadsOK
  <1>2. InHand' = InHand \cup {at[w]}
    BY <1>1 DEF InHand, Busy
  <1>3. Finished' = Finished
    BY DEF Finished
  <1>4. at[w] \in Items /\ at[w] \notin Finished /\ at[w] \notin InHand
    BY OneHand DEF InHand
  <1> QED BY <1>2, <1>3, <1>4 DEF Pool!Take

LEMMA FinishStep ==
    ASSUME IndInv, NEW w \in 1 .. launched, wpc[w] \in Busy,
           UNCHANGED <<launched, first>>,
           at' = [at EXCEPT ![w] = @ + 1], wpc' = [wpc EXCEPT ![w] = "check"],
           pc # "idle", UNCHANGED <<pc, result>>
    PROVE  Pool!Finish
  <1>1. /\ at[w] <= last[w] /\ at[w] \in Int /\ first[w] < at[w] /\ first[w] \in Int
    BY ThreadFacts
  <1>2. /\ wpc'[w] = "check" /\ at'[w] = at[w] + 1
        /\ \A v \in 1 .. launched \ {w} : wpc'[v] = wpc[v] /\ at'[v] = at[v]
    BY ThreadFacts DEF IndInv, TypeOK, ThreadsOK
  <1>3. /\ at[w] \in Items /\ at[w] \notin Finished
        /\ \A v \in 1 .. launched \ {w} : wpc[v] \in Busy => at[v] # at[w]
    BY <1>1, OneHand
  <1>4. InHand' = InHand \ {at[w]} /\ at[w] \in InHand
    BY <1>2, <1>3 DEF InHand, Busy
  <1>5. Finished' = Finished \cup {at[w]}
    <2>1. ASSUME NEW i \in Items
          PROVE  (\E v \in 1 .. launched : first[v] < i /\ i < at'[v])
                   <=> (\E v \in 1 .. launched : first[v] < i /\ i < at[v]) \/ i = at[w]
      <3>1. first[w] < i /\ i < at'[w] <=> (first[w] < i /\ i < at[w]) \/ i = at[w]
        BY <1>1, <1>2 DEF Items
      <3> QED BY <1>2, <3>1
    <2> QED BY <1>3, <2>1 DEF Finished
  <1>6. Items \ (InHand' \cup Finished') = Items \ (InHand \cup Finished)
    BY <1>4, <1>5
  <1> QED BY <1>4, <1>5, <1>6 DEF Pool!Finish

LEMMA JoinStep == IndInv /\ Join => Pool!Return
  <1> SUFFICES ASSUME IndInv, Join PROVE Pool!Return
    OBVIOUS
  <1>1. /\ pc # "idle" /\ pc' = "idle" /\ UNCHANGED <<launched, first, last, at, wpc>>
        /\ \A w \in 1 .. launched : wpc[w] = "ended"
        /\ result' \in {"ok", "cancelled", "failed"}
        /\ result' = "ok" => ~failed /\ pc = "launch" /\ launched = WorkerCount
    BY DEF Join, Ended, IndInv, Control
  <1>2. InHand = {} /\ InHand' = {} /\ Finished' = Finished
    BY <1>1 DEF InHand, Finished, Busy
  <1>3. ASSUME result' = "ok" PROVE Items \subseteq Finished
    <2>1. cursor = Count
      BY <1>1, <1>3, Offsets DEF IndInv, Control
    <2>2. ASSUME NEW i \in Items PROVE i \in Finished
      <3>1. PICK w \in 1 .. launched : first[w] < i /\ i <= last[w]
        BY <1>1, <1>3, <2>1 DEF IndInv, Covered, Items
      <3>2. at[w] = last[w] + 1
        BY <1>1, <1>3 DEF IndInv, Within
      <3>3. i < at[w]
        BY <3>1, <3>2, ThreadFacts DEF Items
      <3> QED BY <3>1, <3>3 DEF Finished
    <2> QED BY <2>2
  <1> QED BY <1>1, <1>2, <1>3 DEF Pool!Return, Pool!Outcomes

LEMMA StepIsPoolStep == IndInv /\ [Next]_vars => [Pool!PoolNext]_(Pool!poolVars)
  <1> SUFFICES ASSUME IndInv, [Next]_vars
               PROVE  Pool!PoolNext \/ UNCHANGED <<Todo, InHand, Finished, Outcome>>
    BY DEF Pool!poolVars, Todo, Outcome
  <1> USE DEF Todo, Outcome
  <1>0. result \in Pool!Outcomes
    BY DEF IndInv, TypeOK, MainOK, Pool!Outcomes
  <1>1. CASE UNCHANGED vars
    BY <1>1 DEF vars, InHand, Finished
  <1>2. CASE UserEdits \/ UserCancels
    <2>1. UNCHANGED <<launched, first, at, wpc, pc, result>>
      BY <1>2 DEF UserEdits, UserCancels, main
    <2> QED BY <2>1, Quiet
  <1>3. CASE Begin
    <2>1. CASE pc' = "launch" /\ launched' = 0
      <3>1. InHand' = {} /\ Finished' = {}
        BY <2>1 DEF InHand, Finished
      <3> QED BY <1>0, <1>3, <2>1, <3>1 DEF Begin, Pool!PoolNext, Pool!Begin
    <2>2. CASE ~(pc' = "launch" /\ launched' = 0)
      <3>1. UNCHANGED <<pc, launched, first, at, wpc>> /\ result' = "failed" /\ pc = "idle"
        BY <1>3, <2>2 DEF Begin
      <3>2. InHand' = InHand /\ Finished' = Finished
        BY <3>1, Quiet
      <3> QED BY <1>0, <3>1, <3>2 DEF Pool!PoolNext, Pool!Refuse
    <2> QED BY <2>1, <2>2
  <1>4. CASE Launch
    <2> DEFINE n == launched + 1
    <2>1. /\ pc = "launch" /\ pc' # "idle" /\ result' = result
          /\ n \in Workers /\ \A w \in 1 .. launched : w # n /\ w \in Workers
      BY <1>4, WorkersAssumption DEF Launch, IndInv, TypeOK, MainOK, Workers
    <2>2. /\ \A w \in 1 .. launched : first'[w] = first[w] /\ at'[w] = at[w] /\ wpc'[w] = wpc[w]
          /\ first'[n] = cursor /\ at'[n] = cursor + 1
          /\ launched' = launched \/ (launched' = n /\ wpc'[n] = "check")
      BY <1>4, <2>1 DEF Launch, IndInv, TypeOK, ThreadsOK
    <2>3. ~\E i \in Items : first'[n] < i /\ i < at'[n]
      BY <2>2, WorkersAssumption DEF Items, IndInv, TypeOK, MainOK
    <2>4. 1 .. launched' = 1 .. launched \/ (1 .. launched' = (1 .. launched) \cup {n} /\ wpc'[n] = "check")
      BY <2>2 DEF IndInv, TypeOK, MainOK
    <2> HIDE DEF n
    <2>5. InHand' = InHand
      BY <2>2, <2>4 DEF InHand, Busy
    <2>6. Finished' = Finished
      BY <2>2, <2>3, <2>4 DEF Finished
    <2> QED BY <2>1, <2>5, <2>6
  <1>5. CASE Join
    BY <1>5, JoinStep DEF Pool!PoolNext
  <1>6. ASSUME NEW w \in Workers, Work(w)
        PROVE  Pool!PoolNext \/ UNCHANGED <<Todo, InHand, Finished, Outcome>>
    <2>1. UNCHANGED <<pc, launched, first, result>> /\ wpc[w] \in Busy \cup {"check"}
      BY <1>6 DEF Work, Check, CountFile, Lookup, Extract, StartInference, Infer, Store,
                  Tally, main, Busy
    <2>2. w \in 1 .. launched /\ pc # "idle"
      BY <2>1 DEF IndInv, TypeOK, MainOK, Control, Busy, Workers
    <2>3. CASE Check(w)
      <3>1. UNCHANGED at /\ wpc[w] = "check"
        BY <2>3 DEF Check
      <3>2. CASE wpc' = [wpc EXCEPT ![w] = "scan"] /\ ~(at[w] > last[w])
        <4>1. at[w] <= last[w]
          BY <2>2, <3>2, ThreadFacts
        <4> QED BY <2>1, <2>2, <3>1, <3>2, <4>1, TakeStep DEF Pool!PoolNext, Busy
      <3>3. CASE wpc' = [wpc EXCEPT ![w] = "ended"]
        <4>1. \A v \in 1 .. launched : wpc'[v] \in Busy <=> wpc[v] \in Busy
          BY <2>2, <3>1, <3>3, ThreadFacts DEF Busy, IndInv, TypeOK, ThreadsOK
        <4> QED BY <2>1, <3>1, <4>1, Quiet
      <3> QED BY <2>3, <3>2, <3>3 DEF Check, Goto
    <2>4. CASE CountFile(w) \/ Tally(w)
      <3>1. CASE wpc' = [wpc EXCEPT ![w] = "check"] /\ at' = [at EXCEPT ![w] = @ + 1]
        <4>1. wpc[w] \in Busy
          BY <2>4 DEF CountFile, Tally, Busy
        <4> QED BY <2>1, <2>2, <3>1, <4>1, FinishStep DEF Pool!PoolNext
      <3>2. CASE wpc' = [wpc EXCEPT ![w] = "lookup"] /\ wpc[w] = "scan" /\ UNCHANGED at
        <4>1. \A v \in 1 .. launched : wpc'[v] \in Busy <=> wpc[v] \in Busy
          BY <2>2, <3>2, ThreadFacts DEF Busy, IndInv, TypeOK, ThreadsOK
        <4> QED BY <2>1, <3>2, <4>1, Quiet
      <3> QED BY <2>4, <3>1, <3>2 DEF CountFile, Tally, Goto
    <2>5. CASE Lookup(w) \/ Extract(w) \/ StartInference(w) \/ Infer(w) \/ Store(w)
      <3>1. UNCHANGED at /\ wpc[w] \in Busy /\ \E label \in Busy : wpc' = [wpc EXCEPT ![w] = label]
        BY <2>5 DEF Lookup, Extract, StartInference, Infer, Store, Goto, Busy
      <3>2. \A v \in 1 .. launched : wpc'[v] \in Busy <=> wpc[v] \in Busy
        BY <2>2, <3>1, ThreadFacts DEF IndInv, TypeOK, ThreadsOK
      <3> QED BY <2>1, <3>1, <3>2, Quiet
    <2> QED BY <1>6, <2>3, <2>4, <2>5 DEF Work
  <1> QED BY <1>1, <1>2, <1>3, <1>4, <1>5, <1>6 DEF Next, User, Main

(* Every file of the list is taken once, by one thread, and a scan that    *)
(* returns OK has done them all: for every list, every number of jobs and  *)
(* every schedule the scan implements the work pool.                       *)
THEOREM ScanImplementsWorkPool == Spec => ImplementsWorkPool
  <1>1. Spec => []IndInv
    BY InitInv, NextInv, PTL DEF Spec, Safety
  <1>2. Spec => Pool!PoolSpec
    BY <1>1, InitIsPoolInit, StepIsPoolStep, PTL DEF Spec, Safety, Pool!PoolSpec
  <1> QED BY <1>2 DEF ImplementsWorkPool
-----------------------------------------------------------------------------
(* The cache.                                                              *)

(* What storing an entry changes. *)
LEMMA UpdatedEntries ==
    ASSUME NEW c \in Seq(Entries), NEW e \in Entries
    PROVE  \A i \in DOMAIN Updated(c, e) :
              Updated(c, e)[i] = e \/ (i \in DOMAIN c /\ Updated(c, e)[i] = c[i])
  <1>1. CASE Slots(c, e.path) = {}
    <2>1. Updated(c, e) = Append(c, e)
      BY <1>1 DEF Updated
    <2> QED BY <2>1, AppendProperties, LenProperties
  <1>2. CASE Slots(c, e.path) # {}
    BY <1>2 DEF Updated
  <1> QED BY <1>1, <1>2

(* The keys of the cache differ, as the first entry of a key is the one    *)
(* that is replaced and the only one.                                      *)
KeysDiffer ==
    \A i, j \in DOMAIN cache : Key[cache[i].path] = Key[cache[j].path] => i = j

LEMMA UpdatedKeys ==
    ASSUME IndInv, KeysDiffer, NEW e \in Entries, cache' = Updated(cache, e)
    PROVE  KeysDiffer'
  <1>1. cache \in Seq(Entries)
    BY DEF IndInv, TypeOK, DataOK
  <1>2. CASE Slots(cache, e.path) = {}
    <2>1. cache' = Append(cache, e)
      BY <1>2 DEF Updated
    <2>2. /\ DOMAIN cache = 1 .. Len(cache) /\ DOMAIN cache' = 1 .. Len(cache) + 1
          /\ Len(cache) \in Nat /\ cache'[Len(cache) + 1] = e
          /\ \A i \in 1 .. Len(cache) : cache'[i] = cache[i]
      BY <1>1, <2>1, AppendProperties, LenProperties
    <2>3. \A i \in 1 .. Len(cache) : Key[cache[i].path] # Key[e.path]
      BY <1>2, <2>2 DEF Slots
    <2>4. \A i \in DOMAIN cache' : i \in 1 .. Len(cache) \/ i = Len(cache) + 1
      BY <2>2
    <2> QED BY <2>2, <2>3, <2>4 DEF KeysDiffer
  <1>3. CASE Slots(cache, e.path) # {}
    <2>1. Key[cache[Slot(cache, e.path)].path] = Key[e.path]
      BY <1>1, <1>3, SlotIn
    <2>2. cache' = [i \in DOMAIN cache |-> IF i = Slot(cache, e.path) THEN e ELSE cache[i]]
      BY <1>3 DEF Updated
    <2>3. /\ DOMAIN cache' = DOMAIN cache
          /\ \A i \in DOMAIN cache : Key[cache'[i].path] = Key[cache[i].path]
      BY <2>1, <2>2
    <2> QED BY <2>3 DEF KeysDiffer
  <1> QED BY <1>2, <1>3

LEMMA KeysStep == IndInv /\ KeysDiffer /\ [Next]_vars => KeysDiffer'
  <1> SUFFICES ASSUME IndInv, KeysDiffer, [Next]_vars PROVE KeysDiffer'
    OBVIOUS
  <1>1. CASE cache' = cache
    BY <1>1 DEF KeysDiffer
  <1>2. ASSUME NEW w \in Workers, Store(w) PROVE KeysDiffer'
    <2>1. md[w] \in Entries
      BY <1>2 DEF Store, IndInv, Held, Holding
    <2> QED BY <1>2, <2>1, UpdatedKeys DEF Store
  <1>3. cache' = cache \/ \E w \in Workers : Store(w)
    BY DEF Next, User, Main, Work, vars, UserEdits, UserCancels, Begin, Launch, Join, Check,
           CountFile, Lookup, Extract, StartInference, Infer, Tally
  <1> QED BY <1>1, <1>2, <1>3

(* The cache never has two entries of one file, whichever threads store it *)
(* and in whatever order.                                                  *)
THEOREM NoDoubleEntries == Spec => []OneEntryPerFile
  <1>1. Init => KeysDiffer
    BY DEF Init, KeysDiffer
  <1>2. KeysDiffer => OneEntryPerFile
    BY DEF KeysDiffer, OneEntryPerFile
  <1> QED BY <1>1, <1>2, InitInv, NextInv, KeysStep, PTL DEF Spec, Safety

(* No two paths differ in case only. *)
CaseDistinct == \A p, q \in Paths : Key[p] = Key[q] => p = q

(* The metadata was read from the file of the path, after its date and     *)
(* size were.                                                              *)
ReadLater(e) ==
    /\ e.content.path = e.path
    /\ e.stamp <= e.content.edit /\ e.content.edit <= version[e.path]

HandOK(w) == wpc[w] \in Holding => md[w].path = File(w) /\ ReadLater(md[w])

AllReadLater ==
    /\ \A i \in DOMAIN cache : ReadLater(cache[i])
    /\ \A w \in Workers : HandOK(w)

LEMMA ReadLaterInit == Init => AllReadLater
  BY DEF Init, AllReadLater, HandOK, Holding

LEMMA ReadLaterStep ==
    ASSUME CaseDistinct, IndInv, AllReadLater, [Next]_vars
    PROVE  AllReadLater'
  <1>0. /\ version \in [Paths -> Nat] /\ cache \in Seq(Entries)
        /\ wpc \in [Workers -> Busy \cup {"off", "check", "ended"}]
        /\ md \in [Workers -> Entries \cup {NoEntry}]
        /\ at \in [Workers -> 0 .. Count + 1]
    BY DEF IndInv, TypeOK, DataOK, ThreadsOK, HandsOK
  <1>1. CASE UNCHANGED vars
    BY <1>1 DEF vars, AllReadLater, ReadLater, File, HandOK
  <1>2. CASE UserEdits
    <2>1. PICK p \in Paths : version' = [version EXCEPT ![p] = @ + 1]
      BY <1>2, ListAssumption DEF UserEdits
    <2>2. UNCHANGED <<cache, at, wpc, md>>
      BY <1>2 DEF UserEdits
    <2>3. \A q \in Paths : version'[q] \in Nat /\ version[q] \in Nat /\ version[q] <= version'[q]
      BY <1>0, <2>1
    <2>4. ASSUME NEW e \in Entries, ReadLater(e) PROVE ReadLater(e)'
      <3>1. e.path \in Paths /\ e.content.edit \in Nat
        BY DEF Entries, Contents
      <3> QED BY <2>3, <2>4, <3>1 DEF ReadLater
    <2>5. \A i \in DOMAIN cache : cache[i] \in Entries
      BY <1>0, ElementOfSeq
    <2>6. \A w \in Workers : wpc[w] \in Holding => md[w] \in Entries
      BY DEF IndInv, Held
    <2>7. \A i \in DOMAIN cache' : ReadLater(cache[i])'
      BY <2>2, <2>4, <2>5 DEF AllReadLater
    <2>8. \A w \in Workers : HandOK(w)'
      BY <2>2, <2>4, <2>6 DEF AllReadLater, File, HandOK
    <2> QED BY <2>2, <2>7, <2>8 DEF AllReadLater, ReadLater
  <1>3. CASE UserCancels \/ Begin \/ Launch \/ Join
    <2>1. UNCHANGED <<version, cache, md>>
      BY <1>3 DEF UserCancels, Begin, Launch, Join
    <2>2. \A w \in Workers : wpc'[w] \in Holding => wpc[w] \in Holding /\ at'[w] = at[w]
      <3>1. CASE UserCancels \/ Join
        BY <3>1 DEF UserCancels, Join
      <3>2. CASE Begin
        BY <3>2 DEF Begin, Holding
      <3>3. CASE Launch
        <4>1. launched + 1 \in Workers
          BY <3>3, WorkersAssumption DEF Launch, IndInv, TypeOK, MainOK, Workers
        <4>2. /\ \A w \in Workers \ {launched + 1} : at'[w] = at[w] /\ wpc'[w] = wpc[w]
              /\ wpc'[launched + 1] \in {"check", wpc[launched + 1]}
          BY <1>0, <3>3, <4>1 DEF Launch
        <4>3. launched + 1 > launched
          BY DEF IndInv, TypeOK, MainOK
        <4>4. wpc[launched + 1] = "off"
          BY <4>1, <4>3 DEF IndInv, Control
        <4> QED BY <4>2, <4>4 DEF Holding
      <3> QED BY <1>3, <3>1, <3>2, <3>3
    <2> QED BY <2>1, <2>2 DEF AllReadLater, ReadLater, File, HandOK
  <1>4. ASSUME NEW w \in Workers, Work(w) PROVE AllReadLater'
    <2>1. /\ UNCHANGED version
          /\ \A v \in Workers \ {w} : at'[v] = at[v] /\ wpc'[v] = wpc[v] /\ md'[v] = md[v]
      BY <1>0, <1>4 DEF Work, Check, CountFile, Lookup, Extract, StartInference, Infer, Store,
                        Tally, Goto
    <2>2. \A v \in Workers \ {w} : HandOK(v)'
      BY <2>1 DEF AllReadLater, ReadLater, File, HandOK
    <2>9. ASSUME \A i \in DOMAIN cache' : ReadLater(cache'[i]), HandOK(w)'
          PROVE  AllReadLater'
      BY <2>1, <2>2, <2>9 DEF AllReadLater, ReadLater
    <2>10. cache' = cache => \A i \in DOMAIN cache' : ReadLater(cache'[i])
      BY DEF AllReadLater
    <2>11. ASSUME UNCHANGED at, md'[w].path = File(w), ReadLater(md'[w])
           PROVE  HandOK(w)'
      BY <2>1, <2>11 DEF HandOK, File, ReadLater
    <2>3. CASE Check(w) \/ CountFile(w) \/ Tally(w)
      <3>1. wpc'[w] \notin Holding /\ UNCHANGED <<cache, md>>
        BY <1>0, <2>3 DEF Check, CountFile, Tally, Goto, Holding
      <3> QED BY <2>9, <2>10, <3>1 DEF HandOK
    <2>4. CASE Lookup(w)
      <3>1. /\ wpc[w] = "lookup" /\ UNCHANGED <<version, cache, at>>
            /\ File(w) \in Paths /\ version[File(w)] \in Nat
        BY <1>0, <2>4, BusyThread DEF Lookup, Busy
      <3>2. md'[w].path = File(w) /\ ReadLater(md'[w])
        <4>1. CASE HasValid(File(w))
          <5> DEFINE e == cache[Slot(cache, File(w))]
          <5>1. e \in Entries /\ Key[e.path] = Key[File(w)] /\ e.stamp = version[File(w)]
                /\ Slot(cache, File(w)) \in DOMAIN cache
            BY <1>0, <4>1, SlotIn DEF HasValid
          <5>2. e.path = File(w)
            <6>1. e.path \in Paths
              BY <5>1 DEF Entries
            <6> QED BY <3>1, <5>1, <6>1 DEF CaseDistinct
          <5>3. ReadLater(e)
            BY <5>1 DEF AllReadLater
          <5>4. md'[w] = Entry(File(w), version[File(w)], e.content, e.ml)
            BY <1>0, <2>4, <4>1 DEF Lookup
          <5> HIDE DEF e
          <5> QED BY <5>1, <5>2, <5>3, <5>4 DEF ReadLater, Entry
        <4>2. CASE ~HasValid(File(w))
          <5>1. md'[w] = Entry(File(w), version[File(w)], Content(File(w)), FALSE)
            BY <1>0, <2>4, <4>2 DEF Lookup
          <5>2. /\ Content(File(w)).path = File(w)
                /\ Content(File(w)).edit = version[File(w)]
            BY DEF Content
          <5> QED BY <3>1, <5>1, <5>2 DEF ReadLater, Entry
        <4> QED BY <4>1, <4>2
      <3> QED BY <2>9, <2>10, <2>11, <3>1, <3>2
    <2>5. CASE Extract(w)
      <3>1. /\ wpc[w] = "extract" /\ UNCHANGED <<version, cache, at>>
            /\ File(w) \in Paths /\ version[File(w)] \in Nat
            /\ md'[w] = Entry(File(w), md[w].stamp, Content(File(w)), FALSE)
        BY <1>0, <2>5, BusyThread DEF Extract, Busy
      <3>2. md[w] \in Entries /\ md[w].path = File(w) /\ ReadLater(md[w])
        BY <3>1 DEF IndInv, Held, Holding, AllReadLater, HandOK
      <3>3. md[w].stamp \in Nat /\ md[w].content.edit \in Nat
        BY <3>2 DEF Entries, Contents
      <3>4. /\ Content(File(w)).path = File(w)
            /\ Content(File(w)).edit = version[File(w)]
        BY DEF Content
      <3>5. md'[w].path = File(w) /\ ReadLater(md'[w])
        BY <3>1, <3>2, <3>3, <3>4 DEF ReadLater, Entry
      <3> QED BY <2>9, <2>10, <2>11, <3>1, <3>5
    <2>6. CASE StartInference(w)
      <3>1. wpc[w] \in Holding /\ UNCHANGED <<version, cache, at, md>>
        BY <2>6 DEF StartInference, Holding
      <3>2. md'[w].path = File(w) /\ ReadLater(md'[w])
        BY <3>1 DEF AllReadLater, HandOK
      <3> QED BY <2>9, <2>10, <2>11, <3>1, <3>2
    <2>7. CASE Infer(w)
      <3>1. /\ wpc[w] \in Holding /\ UNCHANGED <<version, cache, at>>
            /\ md'[w] = md[w] \/ md'[w] = Entry(File(w), md[w].stamp, md[w].content, TRUE)
        BY <1>0, <2>7 DEF Infer, Holding
      <3>2. md[w].path = File(w) /\ ReadLater(md[w])
        BY <3>1 DEF AllReadLater, HandOK
      <3>3. md'[w].path = File(w) /\ ReadLater(md'[w])
        BY <3>1, <3>2 DEF ReadLater, Entry
      <3> QED BY <2>9, <2>10, <2>11, <3>1, <3>3
    <2>8. CASE Store(w)
      <3>1. wpc[w] = "store" /\ UNCHANGED <<version, at, md>> /\ cache' = Updated(cache, md[w])
        BY <2>8 DEF Store
      <3>2. /\ md[w] \in Entries /\ md[w].path = File(w) /\ ReadLater(md[w])
            /\ wpc'[w] \in Holding
        BY <1>0, <2>8, <3>1 DEF Store, Goto, IndInv, Held, Holding, AllReadLater, HandOK
      <3>3. \A i \in DOMAIN cache' : ReadLater(cache'[i])
        BY <1>0, <3>1, <3>2, UpdatedEntries DEF AllReadLater
      <3> QED BY <2>9, <2>11, <3>1, <3>2, <3>3
    <2> QED BY <1>4, <2>3, <2>4, <2>5, <2>6, <2>7, <2>8 DEF Work
  <1> QED BY <1>1, <1>2, <1>3, <1>4 DEF Next, User, Main

(* Where no two paths differ in case only, an entry whose date and size    *)
(* are those of its file has the metadata of the file as it is, however    *)
(* the edits of the user and the threads interleave.                       *)
THEOREM FreshEntriesStayTrue == ASSUME CaseDistinct PROVE Spec => []FreshEntriesAreTrue
  <1>1. IndInv /\ AllReadLater => FreshEntriesAreTrue
    <2> SUFFICES ASSUME IndInv, AllReadLater, NEW i \in DOMAIN cache,
                        cache[i].stamp = version[cache[i].path]
                 PROVE  cache[i].content = Content(cache[i].path)
      BY DEF FreshEntriesAreTrue
    <2>1. /\ cache[i] \in Entries /\ ReadLater(cache[i])
      BY ElementOfSeq DEF IndInv, TypeOK, DataOK, AllReadLater
    <2>2. /\ cache[i].content \in Contents /\ cache[i].stamp \in Nat
          /\ cache[i].path \in Paths
      BY <2>1 DEF Entries
    <2>3. cache[i].content.edit \in Nat
      BY <2>2 DEF Contents
    <2>4. /\ cache[i].content.path = cache[i].path
          /\ cache[i].content.edit = version[cache[i].path]
      BY <2>1, <2>2, <2>3 DEF ReadLater
    <2> QED BY <2>2, <2>4 DEF Content, Contents
  <1>2. IndInv /\ AllReadLater /\ [Next]_vars => AllReadLater'
    BY ReadLaterStep
  <1> QED BY <1>1, <1>2, InitInv, NextInv, ReadLaterInit, PTL DEF Spec, Safety
-----------------------------------------------------------------------------
(* What a scan that returned OK has left in the cache.                     *)

(* An item is finished by the thread that has it in hand: when its entry   *)
(* has been stored, or when it is no media file.                           *)
LEMMA FinishedStep ==
    ASSUME IndInv, [Next]_vars, NEW k \in Finished', k \notin Finished
    PROVE  \E w \in Workers :
              k = at[w] /\ ((CountFile(w) /\ File(w) \notin Media) \/ Tally(w))
  <1>0. k \in Items /\ \E w \in 1 .. launched' : first'[w] < k /\ k < at'[w]
    BY DEF Finished
  <1>1. ASSUME UNCHANGED <<launched, first, at>> PROVE FALSE
    BY <1>1 DEF Finished
  <1>2. CASE Begin
    <2>1. launched' = 0 \/ UNCHANGED <<launched, first, at>>
      BY <1>2 DEF Begin
    <2> QED BY <1>0, <1>1, <2>1
  <1>3. CASE Launch
    <2> DEFINE n == launched + 1
    <2>1. n \in Workers /\ \A w \in 1 .. launched : w # n /\ w \in Workers
      BY <1>3, WorkersAssumption DEF Launch, IndInv, TypeOK, MainOK, Workers
    <2>2. /\ \A w \in 1 .. launched : first'[w] = first[w] /\ at'[w] = at[w]
          /\ first'[n] = cursor /\ at'[n] = cursor + 1
          /\ launched' = launched \/ launched' = n
      BY <1>3, <2>1 DEF Launch, IndInv, TypeOK, ThreadsOK
    <2>3. ~(first'[n] < k /\ k < at'[n])
      BY <1>0, <2>2, WorkersAssumption DEF Items, IndInv, TypeOK, MainOK
    <2>4. \A w \in 1 .. launched' : w \in 1 .. launched \/ w = n
      BY <2>2 DEF IndInv, TypeOK, MainOK
    <2> HIDE DEF n
    <2> QED BY <1>0, <2>2, <2>3, <2>4 DEF Finished
  <1>4. ASSUME NEW w \in Workers, CountFile(w) \/ Tally(w)
        PROVE  k = at[w] /\ ((CountFile(w) /\ File(w) \notin Media) \/ Tally(w))
    <2>1. w \in 1 .. launched /\ UNCHANGED <<launched, first>> /\ first[w] \in Int /\ at[w] \in Int
      <3>1. wpc[w] \in Busy /\ UNCHANGED <<launched, first>>
        BY <1>4 DEF CountFile, Tally, Busy, main
      <3>2. w \in 1 .. launched
        BY <3>1, BusyThread
      <3> QED BY <3>1, <3>2, ThreadFacts
    <2>2. at' = [at EXCEPT ![w] = @ + 1] /\ (CountFile(w) => File(w) \notin Media)
      BY <1>1, <1>4, <2>1 DEF CountFile, Tally
    <2>3. \A v \in 1 .. launched : v # w => at'[v] = at[v]
      BY <2>2, ThreadFacts DEF IndInv, TypeOK, ThreadsOK
    <2>4. at'[w] = at[w] + 1
      BY <2>2 DEF IndInv, TypeOK, ThreadsOK
    <2>5. first[w] < k /\ k < at[w] + 1 /\ ~(first[w] < k /\ k < at[w])
      BY <1>0, <2>1, <2>3, <2>4 DEF Finished
    <2>6. k = at[w]
      BY <1>0, <2>1, <2>5 DEF Items
    <2> QED BY <1>4, <2>2, <2>6
  <1>5. ASSUME NEW w \in Workers,
               Check(w) \/ Lookup(w) \/ Extract(w) \/ StartInference(w) \/ Infer(w) \/ Store(w)
        PROVE  UNCHANGED <<launched, first, at>>
    BY <1>5 DEF Check, Lookup, Extract, StartInference, Infer, Store, main
  <1>6. CASE UserEdits \/ UserCancels \/ Join \/ UNCHANGED vars
    BY <1>1, <1>6 DEF UserEdits, UserCancels, Join, vars, main
  <1> QED BY <1>1, <1>2, <1>3, <1>4, <1>5, <1>6 DEF Next, User, Main, Work

(* The steps of a thread leave the others where they are. *)
LEMMA OnlyThatThread ==
    ASSUME IndInv, NEW w \in Workers, Work(w), NEW v \in Workers \ {w}
    PROVE  at'[v] = at[v] /\ wpc'[v] = wpc[v] /\ md'[v] = md[v] /\ File(v)' = File(v)
  <1>1. at'[v] = at[v] /\ wpc'[v] = wpc[v] /\ md'[v] = md[v]
    BY DEF Work, Check, CountFile, Lookup, Extract, StartInference, Infer, Store, Tally, Goto,
           IndInv, TypeOK, ThreadsOK, HandsOK
  <1> QED BY <1>1 DEF File

(* Where the main thread and the user act, no thread comes to hold a file. *)
LEMMA NoNewHolder ==
    ASSUME IndInv, User \/ Main \/ UNCHANGED vars, NEW w \in Workers,
           wpc'[w] \in Busy
    PROVE  wpc[w] = wpc'[w] /\ at'[w] = at[w] /\ md'[w] = md[w] /\ File(w)' = File(w)
  <1>0. /\ wpc \in [Workers -> Busy \cup {"off", "check", "ended"}]
        /\ at \in [Workers -> 0 .. Count + 1]
    BY DEF IndInv, TypeOK, ThreadsOK
  <1>1. UNCHANGED md
    BY DEF User, Main, UserEdits, UserCancels, Begin, Launch, Join, vars
  <1>2. wpc[w] = wpc'[w] /\ at'[w] = at[w]
    <2>1. CASE UserEdits \/ UserCancels \/ Join \/ UNCHANGED vars
      BY <2>1 DEF UserEdits, UserCancels, Join, vars
    <2>2. CASE Begin
      BY <2>2 DEF Begin, Busy
    <2>3. CASE Launch
      <3>1. launched + 1 \in Workers
        BY <2>3, WorkersAssumption DEF Launch, IndInv, TypeOK, MainOK, Workers
      <3>2. /\ \A v \in Workers \ {launched + 1} : at'[v] = at[v] /\ wpc'[v] = wpc[v]
            /\ wpc'[launched + 1] \in {"check", wpc[launched + 1]}
        BY <1>0, <2>3, <3>1 DEF Launch
      <3>3. wpc[launched + 1] = "off"
        BY <3>1 DEF IndInv, Control, TypeOK, MainOK
      <3> QED BY <3>2, <3>3 DEF Busy
    <2> QED BY <2>1, <2>2, <2>3 DEF User, Main
  <1> QED BY <1>1, <1>2 DEF File

(* Storing an entry leaves those of other keys where they are, and the     *)
(* entry is in the cache.                                                  *)
LEMMA UpdatedKeeps ==
    ASSUME NEW c \in Seq(Entries), NEW e \in Entries
    PROVE  /\ \A i \in DOMAIN c : Key[c[i].path] # Key[e.path] =>
                 i \in DOMAIN Updated(c, e) /\ Updated(c, e)[i] = c[i]
           /\ \E i \in DOMAIN Updated(c, e) : Updated(c, e)[i] = e
  <1>1. CASE Slots(c, e.path) = {}
    <2>1. Updated(c, e) = Append(c, e)
      BY <1>1 DEF Updated
    <2>2. /\ DOMAIN c = 1 .. Len(c) /\ DOMAIN Append(c, e) = 1 .. Len(c) + 1 /\ Len(c) \in Nat
          /\ Append(c, e)[Len(c) + 1] = e
          /\ \A i \in 1 .. Len(c) : Append(c, e)[i] = c[i]
      BY AppendProperties, LenProperties
    <2> QED BY <2>1, <2>2
  <1>2. CASE Slots(c, e.path) # {}
    <2>1. Slot(c, e.path) \in DOMAIN c /\ Key[c[Slot(c, e.path)].path] = Key[e.path]
      BY <1>2, SlotIn
    <2>2. Updated(c, e) = [i \in DOMAIN c |-> IF i = Slot(c, e.path) THEN e ELSE c[i]]
      BY <1>2 DEF Updated
    <2> QED BY <2>1, <2>2
  <1> QED BY <1>1, <1>2

(* The scan that is running, or was the last, has skipped no inference.    *)
Inferred == Ml # "off" /\ ~cancelled /\ mlFailures = 0

HasEntry(p) == \E i \in DOMAIN cache : cache[i].path = p /\ (Inferred => cache[i].ml)

(* Every file that is done with has its entry, and so has one whose entry  *)
(* has just been stored; what a thread is about to store has its inference *)
(* unless one was skipped.                                                 *)
Complete ==
    /\ \A w \in Workers : wpc[w] = "store" /\ Inferred => md[w].ml
    /\ \A w \in Workers : wpc[w] = "tally" => HasEntry(File(w))
    /\ \A k \in Finished : Listed[k] \in Media => HasEntry(Listed[k])
    /\ pc = "idle" /\ result = "ok" => Items \subseteq Finished

(* Within a scan an inference that was skipped stays skipped. *)
LEMMA SkippedStays ==
    ASSUME IndInv, [Next]_vars, Inferred'
    PROVE  Inferred \/ Begin
  <1>0. mlFailures \in Nat /\ Ml # "off" /\ ~cancelled' /\ mlFailures' = 0
    BY DEF IndInv, TypeOK, TalliesOK, Inferred
  <1>1. mlFailures' \in {mlFailures, mlFailures + 1} \/ Begin
    BY DEF Next, User, Main, Work, UserEdits, UserCancels, Launch, Join, Check, CountFile,
           Lookup, Extract, StartInference, Infer, Store, Tally, vars, tallies
  <1>2. (cancelled => cancelled') \/ Begin
    <2>1. CASE UserEdits \/ UserCancels \/ Launch \/ Join \/ UNCHANGED vars
      <3>1. cancelled' = cancelled
        BY <2>1 DEF UserEdits, UserCancels, Launch, Join, vars, flags
      <3> QED BY <3>1
    <2>2. ASSUME NEW w \in Workers, Work(w) PROVE cancelled => cancelled'
      <3>1. CASE UNCHANGED cancelled
        BY <3>1
      <3>2. CASE cancelled' = (cancelled \/ ~failed)
        BY <3>2
      <3>3. CASE cancelled' = (cancelled \/ (Wanted(w) /\ cancel))
        BY <3>3
      <3> QED BY <2>2, <3>1, <3>2, <3>3 DEF Work, Check, CountFile, Lookup, Extract,
                 StartInference, Infer, Store, Tally, flags
    <2> QED BY <2>1, <2>2 DEF Next, User, Main
  <1>3. mlFailures = 0 \/ Begin
    BY <1>0, <1>1
  <1>4. ~cancelled \/ Begin
    BY <1>0, <1>2
  <1> QED BY <1>0, <1>3, <1>4 DEF Inferred

(* A step that keeps the cache, or stores a complete entry, keeps what has *)
(* its entry.                                                              *)
LEMMA EntryStays ==
    ASSUME CaseDistinct, IndInv, AllReadLater, Complete, [Next]_vars, ~Begin,
           NEW p \in Paths, HasEntry(p)
    PROVE  HasEntry(p)'
  <1>0. cache \in Seq(Entries) /\ \A i \in DOMAIN cache : cache[i] \in Entries
    BY ElementOfSeq DEF IndInv, TypeOK, DataOK
  <1>1. Inferred' => Inferred
    BY SkippedStays
  <1>2. PICK i \in DOMAIN cache : cache[i].path = p /\ (Inferred => cache[i].ml)
    BY DEF HasEntry
  <1>3. CASE cache' = cache
    BY <1>1, <1>2, <1>3 DEF HasEntry
  <1>4. ASSUME NEW w \in Workers, Store(w) PROVE HasEntry(p)'
    <2>1. /\ wpc[w] = "store" /\ cache' = Updated(cache, md[w])
          /\ md[w] \in Entries /\ (Inferred => md[w].ml)
      BY <1>4 DEF Store, IndInv, Held, Holding, Complete
    <2>2. /\ \A j \in DOMAIN cache : Key[cache[j].path] # Key[md[w].path] =>
                 j \in DOMAIN cache' /\ cache'[j] = cache[j]
          /\ \E j \in DOMAIN cache' : cache'[j] = md[w]
      BY <1>0, <2>1, UpdatedKeeps
    <2>3. CASE md[w].path = p
      BY <1>1, <2>1, <2>2, <2>3 DEF HasEntry
    <2>4. CASE md[w].path # p
      <3>1. Key[cache[i].path] # Key[md[w].path]
        BY <1>2, <2>1, <2>4 DEF CaseDistinct, Entries
      <3> QED BY <1>1, <1>2, <2>2, <3>1 DEF HasEntry
    <2> QED BY <2>3, <2>4
  <1>5. cache' = cache \/ \E w \in Workers : Store(w)
    BY DEF Next, User, Main, Work, vars, UserEdits, UserCancels, Begin, Launch, Join, Check,
           CountFile, Lookup, Extract, StartInference, Infer, Tally
  <1> QED BY <1>3, <1>4, <1>5

LEMMA CompleteStep ==
    ASSUME CaseDistinct, IndInv, AllReadLater, Complete, [Next]_vars
    PROVE  Complete'
  <1>0. /\ md \in [Workers -> Entries \cup {NoEntry}]
        /\ wpc \in [Workers -> Busy \cup {"off", "check", "ended"}]
        /\ cache \in Seq(Entries)
    BY DEF IndInv, TypeOK, ThreadsOK, HandsOK, DataOK
  <1>1. ASSUME NEW w \in Workers, wpc'[w] = "store", Inferred'
        PROVE  md'[w].ml
    <2>1. CASE User \/ Main \/ UNCHANGED vars
      <3>1. wpc[w] = "store" /\ md'[w] = md[w]
        BY <1>1, <2>1, NoNewHolder DEF Busy
      <3>2. ~Begin
        BY <1>1 DEF Begin, IndInv, Control
      <3> QED BY <1>1, <3>1, <3>2, SkippedStays DEF Complete
    <2>2. ASSUME NEW v \in Workers \ {w}, Work(v) PROVE md'[w].ml
      <3>1. wpc[w] = "store" /\ md'[w] = md[w]
        BY <1>1, <2>2, OnlyThatThread
      <3>2. ~Begin
        BY <3>1 DEF Begin, IndInv, Control
      <3> QED BY <1>1, <3>1, <3>2, SkippedStays DEF Complete
    <2>3. CASE Work(w)
      <3>1. CASE StartInference(w)
        <4>1. /\ wpc[w] = "infer" /\ md' = md /\ ~(Wanted(w) /\ ~cancel)
              /\ cancelled' = (cancelled \/ (Wanted(w) /\ cancel))
          BY <1>0, <1>1, <3>1 DEF StartInference, Goto
        <4>2. ~cancelled' /\ Ml # "off"
          BY <1>1 DEF Inferred
        <4>3. ~Wanted(w)
          BY <4>1, <4>2
        <4> QED BY <4>1, <4>2, <4>3, ListAssumption DEF Wanted
      <3>2. CASE Infer(w)
        <4>1. mlFailures' = 0 /\ mlFailures \in Nat
          BY <1>1 DEF Inferred, IndInv, TypeOK, TalliesOK
        <4>2. md' = [md EXCEPT ![w] = Entry(File(w), md[w].stamp, md[w].content, TRUE)]
          <5>1. mlFailures' # mlFailures + 1
            BY <4>1
          <5> QED BY <3>2, <5>1, Zenon DEF Infer
        <4>3. md'[w] = Entry(File(w), md[w].stamp, md[w].content, TRUE)
          <5>1. w \in DOMAIN md
            BY <1>0
          <5> QED BY <4>2, <5>1
        <4>4. md'[w].ml = TRUE
          BY <4>3 DEF Entry
        <4> QED BY <4>4
      <3> QED BY <1>0, <1>1, <2>3, <3>1, <3>2
              DEF Work, Check, CountFile, Lookup, Extract, Store, Tally, Goto
    <2> QED BY <2>1, <2>2, <2>3 DEF Next
  <1>2. ASSUME NEW w \in Workers, wpc'[w] = "tally"
        PROVE  HasEntry(File(w))'
    <2>1. ASSUME wpc[w] = "tally", File(w)' = File(w) PROVE HasEntry(File(w))'
      <3>1. ~Begin /\ File(w) \in Paths /\ HasEntry(File(w))
        BY <2>1, BusyThread DEF Begin, IndInv, Control, Busy, Complete
      <3>2. \A p \in Paths : HasEntry(p) => HasEntry(p)'
        BY <3>1, EntryStays
      <3> QED BY <2>1, <3>1, <3>2 DEF HasEntry, Inferred
    <2>2. CASE User \/ Main \/ UNCHANGED vars
      BY <1>2, <2>1, <2>2, NoNewHolder DEF Busy
    <2>3. ASSUME NEW v \in Workers \ {w}, Work(v) PROVE HasEntry(File(w))'
      BY <1>2, <2>1, <2>3, OnlyThatThread
    <2>4. CASE Work(w)
      <3>1. Store(w)
        BY <1>0, <1>2, <2>4 DEF Work, Check, CountFile, Lookup, Extract, StartInference, Infer,
                                Tally, Goto
      <3>2. /\ wpc[w] = "store" /\ cache' = Updated(cache, md[w]) /\ File(w)' = File(w)
            /\ md[w] \in Entries /\ md[w].path = File(w) /\ (Inferred => md[w].ml)
            /\ UNCHANGED <<cancelled, mlFailures>>
        BY <3>1 DEF Store, IndInv, Held, Holding, Complete, AllReadLater, HandOK, File, flags,
                    tallies
      <3>3. \E i \in DOMAIN cache' : cache'[i] = md[w]
        BY <1>0, <3>2, UpdatedKeeps
      <3> QED BY <3>2, <3>3 DEF HasEntry, Inferred
    <2> QED BY <2>2, <2>3, <2>4 DEF Next
  <1>3. ASSUME NEW k \in Finished', Listed[k] \in Media
        PROVE  HasEntry(Listed[k])'
    <2>0. Listed[k] \in Paths
      BY <1>3, ListAssumption
    <2>1. CASE k \in Finished
      <3>1. CASE ~Begin
        BY <1>3, <2>0, <2>1, <3>1, EntryStays DEF Complete
      <3>2. CASE Begin
        <4>1. launched' # 0
          BY <1>3 DEF Finished
        <4>2. UNCHANGED <<cancelled, cache, mlFailures>>
          BY <3>2, <4>1 DEF Begin, tallies
        <4> QED BY <1>3, <2>1, <4>2 DEF Complete, HasEntry, Inferred
      <3> QED BY <3>1, <3>2
    <2>2. CASE k \notin Finished
      <3>1. PICK w \in Workers :
              k = at[w] /\ ((CountFile(w) /\ File(w) \notin Media) \/ Tally(w))
        BY <2>2, FinishedStep
      <3>2. Tally(w) /\ wpc[w] = "tally" /\ File(w) = Listed[k]
        BY <1>3, <3>1 DEF Tally, File
      <3>3. HasEntry(Listed[k])
        BY <3>2 DEF Complete
      <3>4. UNCHANGED <<cache, cancelled, mlFailures>>
        BY <3>2 DEF Tally, flags
      <3> QED BY <3>3, <3>4 DEF HasEntry, Inferred
    <2> QED BY <2>1, <2>2
  <1>4. ASSUME pc' = "idle", result' = "ok" PROVE Items \subseteq Finished'
    <2>1. CASE Join
      <3>1. Todo' = {}
        BY <1>4, <2>1, JoinStep DEF Pool!Return, Todo
      <3>2. InHand' = {}
        BY <1>4, <2>1, JoinStep DEF Pool!Return
      <3> QED BY <3>1, <3>2 DEF Todo, Items
    <2>2. CASE ~Join
      <3>1. /\ UNCHANGED <<pc, result, launched, first>>
            /\ UNCHANGED at \/ \E w \in Workers : CountFile(w) \/ Tally(w)
        BY <1>4, <2>2 DEF Next, User, Main, UserEdits, UserCancels, Begin, Launch, Work, Check,
             CountFile, Lookup, Extract, StartInference, Infer, Store, Tally, vars, main
      <3>2. ~\E w \in Workers : CountFile(w) \/ Tally(w)
        BY <1>4, <3>1 DEF CountFile, Tally, IndInv, Control
      <3> QED BY <1>4, <3>1, <3>2 DEF Complete, Finished, Items
    <2> QED BY <2>1, <2>2
  <1> QED BY <1>1, <1>2, <1>3, <1>4 DEF Complete

(* After a scan that returns OK each media file has its entry, whatever    *)
(* the number of threads and their schedule; and where no inference failed *)
(* or was skipped for a cancellation, each entry has its inference.        *)
THEOREM SuccessIsComplete == ASSUME CaseDistinct PROVE Spec => []CompleteOnSuccess
  <1>1. Init => Complete
    BY DEF Init, Complete, Finished
  <1>2. Complete => CompleteOnSuccess
    BY DEF Complete, CompleteOnSuccess, HasEntry, Inferred
  <1>3. IndInv /\ AllReadLater /\ Complete /\ [Next]_vars => AllReadLater' /\ Complete'
    BY ReadLaterStep, CompleteStep
  <1> QED BY <1>1, <1>2, <1>3, InitInv, NextInv, ReadLaterInit, PTL DEF Spec, Safety
-----------------------------------------------------------------------------
(* What is given to the models.                                            *)

(* The file a thread has in hand is in the list once, *)
Alone(w) == \A i \in Items : Listed[i] = File(w) => i = at[w]

(* and its entry of this date and size has its inference. *)
Evaluated(p, stamp) ==
    \E i \in DOMAIN cache : cache[i].path = p /\ cache[i].stamp = stamp /\ cache[i].ml

(* A thread that found no inference for its file will find none in the     *)
(* cache later either: no other thread stores an entry of that file.       *)
NothingMissed(w) ==
    /\ wpc[w] = "extract" => ~md[w].ml
    /\ wpc[w] \in {"extract", "infer"} /\ ~md[w].ml /\ Alone(w) =>
         ~Evaluated(File(w), md[w].stamp)

LEMMA NothingMissedStep ==
    ASSUME CaseDistinct, IndInv, KeysDiffer, AllReadLater, [Next]_vars, NEW w \in Workers,
           NothingMissed(w)
    PROVE  NothingMissed(w)'
  <1>0. /\ md \in [Workers -> Entries \cup {NoEntry}]
        /\ wpc \in [Workers -> Busy \cup {"off", "check", "ended"}]
        /\ cache \in Seq(Entries)
        /\ \A i \in DOMAIN cache : cache[i] \in Entries
    BY ElementOfSeq DEF IndInv, TypeOK, ThreadsOK, HandsOK, DataOK
  <1>1. CASE wpc'[w] \notin {"extract", "infer"}
    BY <1>1 DEF NothingMissed
  <1>2. ASSUME wpc[w] = wpc'[w], at'[w] = at[w], md'[w] = md[w], UNCHANGED cache
        PROVE  NothingMissed(w)'
    BY <1>2 DEF NothingMissed, Alone, Evaluated, File
  <1>3. CASE User \/ Main \/ UNCHANGED vars
    <2>1. UNCHANGED cache
      BY <1>3 DEF User, Main, UserEdits, UserCancels, Begin, Launch, Join, vars
    <2> QED BY <1>1, <1>2, <1>3, <2>1, NoNewHolder DEF Busy
  <1>4. ASSUME NEW v \in Workers \ {w}, Work(v) PROVE NothingMissed(w)'
    <2>1. at'[w] = at[w] /\ wpc'[w] = wpc[w] /\ md'[w] = md[w] /\ File(w)' = File(w)
      BY <1>4, OnlyThatThread
    <2>2. CASE UNCHANGED cache
      BY <1>2, <2>1, <2>2
    <2>3. CASE Store(v)
      <3>1. SUFFICES ASSUME wpc[w] \in {"extract", "infer"} PROVE NothingMissed(w)'
        BY <1>1, <2>1
      <3>2. /\ v \in 1 .. launched /\ w \in 1 .. launched /\ at[v] \in Items /\ wpc[w] \in Busy
            /\ at[w] <= last[w] /\ wpc[v] = "store" /\ wpc[v] \in Busy
        BY <2>3, <3>1, BusyThread DEF Store, Busy
      <3>3. at[v] # at[w]
        BY <3>2, OneHand
      <3>4. Alone(w) => File(v) # File(w)
        BY <3>2, <3>3 DEF Alone, File
      <3>5. md[v] \in Entries /\ md[v].path = File(v) /\ cache' = Updated(cache, md[v])
        BY <2>3, <3>2 DEF Store, IndInv, Held, Holding, AllReadLater, HandOK
      <3>6. \A i \in DOMAIN cache' :
               cache'[i] = md[v] \/ (i \in DOMAIN cache /\ cache'[i] = cache[i])
        BY <1>0, <3>5, UpdatedEntries
      <3>7. ASSUME Alone(w), ~Evaluated(File(w), md[w].stamp)
            PROVE  ~Evaluated(File(w), md[w].stamp)'
        BY <2>1, <3>4, <3>5, <3>6, <3>7 DEF Evaluated
      <3>8. Alone(w)' <=> Alone(w)
        BY <2>1 DEF Alone
      <3> QED BY <2>1, <3>7, <3>8 DEF NothingMissed
    <2> QED BY <1>4, <2>2, <2>3 DEF Work, Check, CountFile, Lookup, Extract, StartInference,
               Infer, Tally
  <1>5. CASE Lookup(w)
    <2> DEFINE p == File(w)
               e == cache[Slot(cache, p)]
    <2>1. UNCHANGED <<version, cache, at>> /\ File(w)' = File(w)
      BY <1>5 DEF Lookup, File
    <2>2. CASE HasValid(p)
      <3>1. /\ Slot(cache, p) \in DOMAIN cache /\ e \in Entries /\ Key[e.path] = Key[p]
        BY <1>0, <2>2, SlotIn DEF HasValid
      <3>2. md'[w] = Entry(p, version[p], e.content, e.ml) /\ wpc'[w] = "infer"
        BY <1>0, <1>5, <2>2 DEF Lookup, Goto
      <3>3. md'[w].ml = e.ml
        BY <3>2 DEF Entry
      <3>4. \A i \in DOMAIN cache : cache[i].path = p => cache[i] = e
        BY <3>1 DEF KeysDiffer
      <3>5. ~e.ml => ~Evaluated(p, md'[w].stamp)
        BY <3>4 DEF Evaluated
      <3> QED BY <2>1, <3>2, <3>3, <3>5 DEF NothingMissed, Evaluated
    <2>3. CASE ~HasValid(p)
      <3>1. md'[w] = Entry(p, version[p], Content(p), FALSE) /\ wpc'[w] = "extract"
        BY <1>0, <1>5, <2>3 DEF Lookup, Goto
      <3>2. md'[w].ml = FALSE /\ md'[w].stamp = version[p]
        BY <3>1 DEF Entry
      <3>3. \A i \in DOMAIN cache : cache[i].path = p => cache[i].stamp # version[p]
        <4>1. ASSUME NEW i \in DOMAIN cache, cache[i].path = p
              PROVE  cache[i].stamp # version[p]
          <5>1. Slots(cache, p) # {}
            BY <4>1 DEF Slots
          <5>2. e.stamp # version[p]
            BY <2>3, <5>1 DEF HasValid
          <5>3. Slot(cache, p) \in DOMAIN cache /\ Key[e.path] = Key[p]
            BY <1>0, <5>1, SlotIn
          <5>4. i = Slot(cache, p)
            BY <4>1, <5>3 DEF KeysDiffer
          <5> QED BY <5>2, <5>4
        <4> QED BY <4>1
      <3>4. ~Evaluated(p, version[p])
        BY <3>3 DEF Evaluated
      <3> QED BY <2>1, <3>2, <3>4 DEF NothingMissed, Evaluated
    <2> QED BY <2>2, <2>3
  <1>6. CASE Extract(w)
    <2>1. /\ UNCHANGED <<cache, at>> /\ wpc[w] = "extract" /\ wpc'[w] = "infer"
          /\ md'[w] = Entry(File(w), md[w].stamp, Content(File(w)), FALSE)
      BY <1>0, <1>6 DEF Extract, Goto
    <2>2. md'[w].stamp = md[w].stamp
      BY <2>1 DEF Entry
    <2> QED BY <2>1, <2>2 DEF NothingMissed, Evaluated, Alone, File
  <1>7. CASE Work(w) /\ ~Lookup(w) /\ ~Extract(w)
    BY <1>0, <1>1, <1>7 DEF Work, Check, CountFile, StartInference, Infer, Store, Tally, Goto
  <1> QED BY <1>3, <1>4, <1>5, <1>6, <1>7 DEF Next

(* A file whose up-to-date entry has its inference is not given to the     *)
(* models again, by this scan or a later one, unless the inference was     *)
(* asked for always.                                                       *)
THEOREM NothingInferredTwice ==
    ASSUME CaseDistinct, Ml # "always" PROVE Spec => InferredOnce
  <1> DEFINE Missed == \A w \in Workers : NothingMissed(w)
             Once   == \A w \in Workers :
                          /\ wpc[w] = "infer" /\ wpc'[w] = "inferring"
                          /\ \A i \in Items : Listed[i] = File(w) => i = at[w]
                          =>
                              \A i \in DOMAIN cache :
                                  ~(cache[i].path = File(w) /\ cache[i].stamp = md[w].stamp
                                       /\ cache[i].ml)
  <1>1. Init => KeysDiffer /\ Missed
    BY DEF Init, KeysDiffer, NothingMissed
  <1>2. IndInv /\ KeysDiffer /\ AllReadLater /\ Missed /\ [Next]_vars
          => KeysDiffer' /\ AllReadLater' /\ Missed'
    BY KeysStep, ReadLaterStep, NothingMissedStep
  <1>3. IndInv /\ Missed /\ [Next]_vars => [Once]_vars
    <2> SUFFICES ASSUME IndInv, Missed, [Next]_vars, NEW w \in Workers,
                        wpc[w] = "infer", wpc'[w] = "inferring", Alone(w)
                 PROVE  ~Evaluated(File(w), md[w].stamp)
      BY DEF Alone, Evaluated
    <2>1. Work(w)
      BY NoNewHolder, OnlyThatThread DEF Next, Busy
    <2>2. Wanted(w)
      BY <2>1 DEF Work, Check, CountFile, Lookup, Extract, StartInference, Infer, Store, Tally,
                  Goto, IndInv, TypeOK, ThreadsOK
    <2> QED BY <2>2 DEF Wanted, NothingMissed
  <1> QED BY <1>1, <1>2, <1>3, InitInv, NextInv, ReadLaterInit, PTL
          DEF Spec, Safety, InferredOnce
=============================================================================
